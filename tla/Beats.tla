--------------------------------- MODULE Beats ---------------------------------
(***************************************************************************)
(* The beat detector (session/beats.py): from the fills of a session to    *)
(* the moments of its episode.  Scorers propose beats, twins are dropped,  *)
(* the best are kept and written to beats.json.                            *)
(*                                                                         *)
(* Times are whole seconds since the session began.  A score is a number   *)
(* of hundredths, rounded down.  Headlines, scenes and lengths are left    *)
(* out, and so are the decision events, which no scorer reads.             *)
(***************************************************************************)
EXTENDS VirtualBook, Ordering, Sequences, FiniteSets, SequencesExt, FiniteSetsExt

CONSTANTS
    Traders, Traded,   \* agents and symbols
    Shapes,            \* the quantity and price of a fill
    LastSecond,        \* bound on time
    MaxFills,          \* bound on fills
    Th                 \* DetectorThresholds, with the literals of the scorers

ASSUME BeatsAssumption ==
    /\ IsFiniteSet(Traders) /\ Traders \subseteq Nat /\ IsFiniteSet(Traded)
    /\ \A x \in Shapes : x.qty \in Nat \ {0} /\ x.price \in Nat \ {0}
    /\ LastSecond \in Nat /\ MaxFills \in Nat
    /\ {Th.bigMin, Th.bigFull, Th.rivalryMin, Th.streakMin, Th.streakFull, Th.burstRatio,
        Th.dedupWindow, Th.targetMax} \subseteq Nat
    /\ {Th.overlapFull, Th.winnerFull, Th.loserFull, Th.burstWindow, Th.recapFull,
        Th.warFull} \subseteq Nat \ {0}

VARIABLES
    filled,     \* the fill events of manifest.json, in order
    rollup,     \* the gap of strategy_rollup, -1 with less than two strategies
    beatList    \* beats.json, <<>> before the detector has run
beatsVars == <<filled, rollup, beatList>>

Fills == {[agent |-> a, symbol |-> s, side |-> side, qty |-> x.qty, price |-> x.price, t |-> t] :
            a \in Traders, s \in Traded, side \in Sides, x \in Shapes, t \in 1 .. LastSecond}
BeatKinds == {"open", "big_fill", "divergence", "agent_rivalry", "streak", "top_winner",
          "top_loser", "closing_burst", "recap", "strategy_war"}
BeatsTypeOK ==
    /\ filled \in Seq(Fills) /\ Len(filled) <= MaxFills
    /\ \A i \in DOMAIN beatList :
          /\ beatList[i].kind \in BeatKinds /\ beatList[i].score \in 0 .. 100
          /\ beatList[i].agents \subseteq Traders /\ beatList[i].t <= LastSecond + 1

BeatsInit == filled = <<>> /\ rollup \in {-1, 10} /\ beatList = <<>>

-------------------------------------------------------------------------------
Holds(a, s) ==
    LET MineOf(f) == IF f.agent = a /\ f.symbol = s THEN Signed(f.side, f.qty) ELSE 0
    IN  FoldSeq(LAMBDA f, sum : sum + MineOf(f), 0, filled)

(* A tick of the replay: the agents sell only what they hold. *)
Trade ==
    /\ beatList = <<>> /\ Len(filled) < MaxFills
    /\ \E a \in Traders, s \in Traded, side \in Sides, x \in Shapes,
          t \in (IF filled = <<>> THEN 1 ELSE Last(filled).t) .. LastSecond :
          /\ side = "sell" => x.qty <= Holds(a, s)
          /\ filled' = Append(filled, [agent |-> a, symbol |-> s, side |-> side,
                                       qty |-> x.qty, price |-> x.price, t |-> t])
    /\ UNCHANGED <<rollup, beatList>>

(* _agent_pnl_from_fills: average-cost accounting, a second time. *)
Nobody == [realized |-> 0, closed |-> 0, won |-> 0, row |-> 0, longest |-> 0, lastClose |-> 0]
Flat == [qty |-> 0, basis |-> 0]
Smaller(x, y) == IF x < y THEN x ELSE y
Larger(x, y) == IF x > y THEN x ELSE y
CostOf_LastPrice(pos, n, price) == price * n
CostOf(pos, n, price) == Abs(pos.basis) - (Abs(pos.basis) * (Abs(pos.qty) - n)) \div Abs(pos.qty)
Closed(agg, gain, t) ==
    LET row == IF gain > 0 THEN agg.row + 1 ELSE 0 IN
    [realized |-> agg.realized + gain, closed |-> agg.closed + 1,
     won |-> IF gain > 0 THEN agg.won + 1 ELSE agg.won,
     row |-> row, longest |-> Larger(agg.longest, row), lastClose |-> t]
Walked(w, f) ==
    LET pos == w.pos[f.agent][f.symbol]
        s == Signed(f.side, f.qty)
        n == Smaller(f.qty, Abs(pos.qty))
        cost == CostOf(pos, n, f.price)
        gain == IF pos.qty > 0 THEN f.price * n - cost ELSE cost - f.price * n
        rest == IF f.qty > n THEN [qty |-> pos.qty + s, basis |-> f.price * (pos.qty + s)]
                ELSE [qty |-> pos.qty + s, basis |-> pos.basis - (IF pos.qty > 0 THEN cost ELSE -cost)]
    IN  IF pos.qty = 0 \/ (pos.qty > 0) = (s > 0)
          THEN [w EXCEPT !.pos[f.agent][f.symbol] = [qty |-> @.qty + s, basis |-> @.basis + f.price * s]]
          ELSE [w EXCEPT !.pos[f.agent][f.symbol] = rest, !.agg[f.agent] = Closed(@, gain, f.t)]
Walk == FoldLeft(Walked, [pos |-> [a \in Traders |-> [s \in Traded |-> Flat]],
                          agg |-> [a \in Traders |-> Nobody]], filled)

-------------------------------------------------------------------------------
(* The scorers.  A beat is a kind and a number that tells beats of a kind  *)
(* apart, as its id does.                                                  *)
Clamp100(x) == Larger(0, Smaller(100, x))
Beat(kind, n, t, agents, symbol, score) ==
    [kind |-> kind, n |-> n, t |-> t, agents |-> agents, symbol |-> symbol, score |-> Clamp100(score)]
NoSymbol == ""
Notional(f) == f.qty * f.price
Apart(x, y) == Abs(x.t - y.t)

Opening == {Beat("open", 0, 0, {}, NoSymbol, 55)}
BigFills ==
    {LET f == filled[i] IN
     Beat("big_fill", i, f.t, {f.agent}, f.symbol,
          (100 * (Notional(f) - Th.bigMin)) \div Larger(1, Th.bigFull - Th.bigMin)) :
       i \in {i \in DOMAIN filled : Notional(filled[i]) >= Th.bigMin}}

Opposed(f, g) == f.agent # g.agent /\ f.side # g.side /\ f.symbol = g.symbol
Divergences ==
    {LET f == filled[p[1]] g == filled[p[2]] IN
     Beat("divergence", p[1] * MaxFills + p[2], f.t, {f.agent, g.agent}, f.symbol,
          45 + (40 * Smaller(Notional(f), Notional(g))) \div Th.overlapFull) :
       p \in {p \in (DOMAIN filled) \X (DOMAIN filled) :
                /\ p[1] < p[2] /\ Opposed(filled[p[1]], filled[p[2]])
                /\ Apart(filled[p[1]], filled[p[2]]) <= Th.divergenceWindow}}

(* The moments at which a traded against b, each counted once. *)
Crossed(a, b, s) ==
    {p \in (DOMAIN filled) \X (DOMAIN filled) :
       /\ filled[p[1]].agent = a /\ filled[p[2]].agent = b /\ filled[p[1]].symbol = s
       /\ Opposed(filled[p[1]], filled[p[2]])
       /\ Apart(filled[p[1]], filled[p[2]]) <= Th.rivalryWindow}
Crossings(a, b, s) == {filled[p[1]].t : p \in Crossed(a, b, s)}
(* The buckets are met symbol by symbol, in the order of their fills. *)
FirstFillOf(s) == Min({i \in DOMAIN filled : filled[i].symbol = s})
Met(a, b, s) ==
    Min({(FirstFillOf(s) * (MaxFills + 1) + p[1]) * (MaxFills + 1) + p[2] :
           p \in Crossed(a, b, s) \cup Crossed(b, a, s)})
Rivalries ==
    LET Bucket(a, b, s) ==
            LET x == Crossings(a, b, s) y == Crossings(b, a, s) IN
            [a |-> a, b |-> b, s |-> s, met |-> Met(a, b, s),
             count |-> Smaller(Cardinality(x), Cardinality(y)), latest |-> Max(x \cup y)]
        buckets == {Bucket(p[1], p[2], p[3]) : p \in {p \in Traders \X Traders \X Traded :
                        p[1] < p[2] /\ Crossed(p[1], p[2], p[3]) # {}}}
        Ahead(r, q) == \/ r.count > q.count
                       \/ r.count = q.count /\ r.latest > q.latest
                       \/ r.count = q.count /\ r.latest = q.latest /\ r.met < q.met
    IN  {Beat("agent_rivalry", r.met, r.latest, {r.a, r.b}, r.s,
              55 + 10 * (r.count - Th.rivalryMin)) :
           r \in {r \in buckets : /\ r.count >= Th.rivalryMin
                                  /\ Cardinality({q \in buckets : Ahead(q, r)}) < Th.rivalryTop}}

Booked(agg) == {a \in Traders : agg[a].closed > 0}
LastFillOf(a) == filled[Max({i \in DOMAIN filled : filled[i].agent = a})]
Streaks(agg) ==
    {Beat("streak", a, agg[a].lastClose, {a}, LastFillOf(a).symbol,
          30 + (70 * (agg[a].longest - Th.streakMin)) \div Larger(1, Th.streakFull - Th.streakMin)) :
       a \in {a \in Booked(agg) : agg[a].longest >= Th.streakMin}}

(* sorted is stable and dicts keep their order: of equals, the first agent *)
(* to close leads and the last one trails.                                 *)
FirstClose(a) ==
    Min({i \in DOMAIN filled : filled[i].agent = a /\ filled[i].side = "sell"})
Leads(agg, a, b) ==
    \/ agg[a].realized > agg[b].realized
    \/ agg[a].realized = agg[b].realized /\ FirstClose(a) < FirstClose(b)
TopMovers(agg) ==
    LET top == {a \in Booked(agg) : \A b \in Booked(agg) \ {a} : Leads(agg, a, b)}
        bottom == {a \in Booked(agg) : \A b \in Booked(agg) \ {a} : Leads(agg, b, a)} \ top
        Mover(kind, a, full) == Beat(kind, a, agg[a].lastClose, {a}, LastFillOf(a).symbol,
                                     (100 * Abs(agg[a].realized)) \div full)
    IN  {b \in {Mover("top_winner", a, Th.winnerFull) : a \in {a \in top : agg[a].realized > 0}}
               \cup {Mover("top_loser", a, Th.loserFull) : a \in {a \in bottom : agg[a].realized < 0}} :
           b.score > 0}

(* The rate of fills in the last minutes against that of the session. *)
ClosingBurst ==
    IF filled = <<>> THEN {}
    ELSE LET last == Last(filled).t
             start == last - Th.burstWindow
             within == {i \in DOMAIN filled : filled[i].t >= start}
             span == Larger(1, last - filled[1].t)
             ratio == (100 * Cardinality(within) * span) \div (Th.burstWindow * Len(filled))
         IN  IF Cardinality(within) < Th.burstMin \/ ratio < 100 * Th.burstRatio THEN {}
             ELSE {Beat("closing_burst", 0, start, {filled[i].agent : i \in within}, NoSymbol,
                        40 + (15 * (ratio - 100 * Th.burstRatio)) \div 100)}

Ended == LastSecond + 1
Recap(agg) ==
    IF filled = <<>> THEN {}
    ELSE {Beat("recap", 0, Ended, {}, NoSymbol,
               60 + (40 * Abs(FoldSet(LAMBDA a, sum : sum + agg[a].realized, 0, Traders))) \div Th.recapFull)}
StrategyWar ==
    IF rollup < 0 THEN {}
    ELSE {Beat("strategy_war", 0, Ended, {}, NoSymbol, 60 + Smaller((100 * rollup) \div Th.warFull, 40))}

Candidates ==
    LET agg == Walk.agg IN
    Opening \cup BigFills \cup Divergences \cup Rivalries \cup Streaks(agg) \cup TopMovers(agg)
      \cup ClosingBurst \cup Recap(agg) \cup StrategyWar

-------------------------------------------------------------------------------
IsAnchor(b) == b.kind \in {"open", "recap"}
RankIn(seq, k) == CHOOSE i \in DOMAIN seq : seq[i] = k
ScorerOrder == <<"open", "big_fill", "divergence", "agent_rivalry", "streak", "top_winner",
                 "top_loser", "closing_burst", "recap", "strategy_war">>
Proposed(b, c) == \/ RankIn(ScorerOrder, b.kind) < RankIn(ScorerOrder, c.kind)
                  \/ b.kind = c.kind /\ b.n < c.n

(* _dedup: by score, then by time; a beat that collides with one that was  *)
(* kept before it is dropped.                                              *)
Better(b, c) ==
    \/ b.score > c.score
    \/ b.score = c.score /\ b.t < c.t
    \/ b.score = c.score /\ b.t = c.t /\ Proposed(b, c)
Collide(b, c) ==
    /\ b.kind = c.kind /\ b.symbol = c.symbol
    /\ b.agents \cap c.agents # {}
    /\ Apart(b, c) <= Th.dedupWindow
Dedup(beats) ==
    LET Keep(kept, b) == IF ~IsAnchor(b) /\ \E p \in ToSet(kept) : Collide(p, b) THEN kept ELSE Append(kept, b)
    IN  FoldLeft(Keep, <<>>, SortedBy(beats, Better))

(* _select: the best of the body, then by time, between the anchors. *)
Priority == [agent_rivalry |-> 7, divergence |-> 6, top_winner |-> 5, top_loser |-> 4, streak |-> 3,
             big_fill |-> 2, strategy_war |-> 2, closing_burst |-> 1, open |-> 99, recap |-> 99]
Preferred(b, c) ==
    \/ b.score > c.score
    \/ b.score = c.score /\ Priority[b.kind] > Priority[c.kind]
    \/ b.score = c.score /\ Priority[b.kind] = Priority[c.kind] /\ Better(b, c)
Sooner(b, c) == b.t < c.t \/ (b.t = c.t /\ Preferred(b, c))
RoomFor(anchors) == Larger(0, Th.targetMax - Cardinality(anchors))
Select(beats) ==
    LET anchors == {b \in ToSet(beats) : IsAnchor(b)}
        body == SortedBy(ToSet(beats) \ anchors, Preferred)
        best == {body[i] : i \in {i \in DOMAIN body : i <= RoomFor(anchors)}}
        Of(kind) == SortedBy({b \in anchors : b.kind = kind}, Proposed)
    IN  Of("open") \o SortedBy(best, Sooner) \o Of("recap")

Detect ==
    /\ beatList = <<>>
    /\ beatList' = Select(Dedup(Candidates))
    /\ UNCHANGED <<filled, rollup>>

BeatsNext == Trade \/ Detect
BeatsSpec == BeatsInit /\ [][BeatsNext]_beatsVars

-------------------------------------------------------------------------------
Twins(b, c) ==
    /\ b.kind = c.kind /\ b.symbol = c.symbol /\ b.agents \cap c.agents # {}
    /\ b.t - c.t \in -Th.dedupWindow .. Th.dedupWindow

(* The same moment is told once: no two beats of a kind about the same     *)
(* symbol and a common agent within the window.                            *)
NoTwins ==
    \A i, j \in DOMAIN beatList : i # j => ~Twins(beatList[i], beatList[j])

(* The open comes first and the recap last, also when all of the others    *)
(* are better, and the list is not longer than asked for.                  *)
Framed ==
    beatList # <<>> =>
       /\ beatList[1].kind = "open"
       /\ filled # <<>> => Last(beatList).kind = "recap"
       /\ Len(beatList) <= Larger(Th.targetMax, 2)

(* What is left out was not better than what is told: a twin of it that    *)
(* scores as high is on the list, or the list is full of such beats.       *)
BestAreTold ==
    beatList # <<>> =>
       \A c \in Candidates \ ToSet(beatList) :
          \/ \E b \in ToSet(beatList) : Twins(b, c) /\ b.score >= c.score
          \/ /\ Len(beatList) >= Th.targetMax
             /\ \A b \in ToSet(beatList) : IsAnchor(b) \/ b.score >= c.score

(* Two accountings of one day: the detector's walk over the fills and the  *)
(* books of the agents realize the same for every agent and symbol.        *)
BookOf(a, s) ==
    LET Post(b, f) == IF f.agent = a /\ f.symbol = s THEN RecordFill(b, f.side, f.qty, f.price) ELSE b
    IN  FoldLeft(Post, NewBook(0), filled)
WalkIsTheBook ==
    \A a \in Traders :
       Walk.agg[a].realized = FoldSet(LAMBDA s, sum : sum + BookOf(a, s).realized, 0, Traded)

(* The beats tell the day: its best moments, each once, between open and   *)
(* recap, with the P&L of the books (the four above).                      *)
BeatsTellTheDay == NoTwins /\ Framed /\ BestAreTold /\ WalkIsTheBook
================================================================================
