----------------------------- MODULE AudienceProofs -----------------------------
(***************************************************************************)
(* Proofs about Audience: a vote round is fair, what a viewer writes is    *)
(* published once, and a pin request is answered once or pushed off.       *)
(*                                                                         *)
(* AudienceInv says of every part what the messages published so far have  *)
(* made of it: of the board, the last word of every voter (LastWord); of   *)
(* the queue, that the newest requests are left (Queue).  A page is routed *)
(* by a FoldLeft, so the step that publishes it is an induction over its   *)
(* messages (RoutedKeeps), along the desks they leave one after the other  *)
(* (IsPath).                                                               *)
(***************************************************************************)
EXTENDS Audience, FoldProofs, SequenceTheorems

-------------------------------------------------------------------------------
(* A round of votes: the tally of a question is the number of its voters.  *)
Counted(p, id) == \A o \in Options(id) : p.tally[o] = Cardinality({v \in Voters : p.voters[v] = o})
Rounds ==
    {r \in [Ids -> UNION {Predictions(id) : id \in Ids}] :
        \A id \in Ids : r[id] \in Predictions(id) /\ Counted(r[id], id)}

(* What votes alone make of a round. *)
Voted(r, q) ==
    \A id \in Ids :
        /\ q[id].status = r[id].status
        /\ r[id].status # "open" => q[id] = r[id]
        /\ \A v \in Voters : r[id].voters[v] # Unknown => q[id].voters[v] # Unknown

LEMMA PredictionsFacts ==
    /\ IsFiniteSet(Voters) /\ MaxDay \in Nat /\ AgentList \in Seq(Picks)
    /\ \A id \in Ids : Unknown \notin Options(id)
  BY PredictionsAssumption DEF Unknown, Options, Directions, Ids

LEMMA FreshRoundType == FreshRound \in Rounds
<1> DEFINE p(id) == [status |-> "open", voters |-> [v \in Voters |-> Unknown],
                     tally |-> [o \in Options(id) |-> 0], winner |-> Unknown, shown |-> "never"]
<1>1. ASSUME NEW id \in Ids PROVE p(id) \in Predictions(id)
  BY DEF Predictions
<1>2. ASSUME NEW id \in Ids PROVE Counted(p(id), id)
  <2> SUFFICES ASSUME NEW o \in Options(id)
               PROVE  p(id).tally[o] = Cardinality({v \in Voters : p(id).voters[v] = o})
    BY DEF Counted
  <2>1. p(id).tally[o] = 0
    OBVIOUS
  <2>2. {v \in Voters : p(id).voters[v] = o} = {}
    BY PredictionsFacts
  <2>3. Cardinality({}) = 0
    BY FS_EmptySet
  <2> HIDE DEF p
  <2>4. QED
    BY <2>1, <2>2, <2>3
<1>3. FreshRound = [id \in Ids |-> p(id)]
  BY DEF FreshRound
<1> HIDE DEF p
<1>4. QED
  BY <1>1, <1>2, <1>3 DEF Rounds

(* record_vote moves one voter's vote in one open question. *)
LEMMA RecordVoteKeeps ==
    ASSUME NEW r \in Rounds, NEW id \in Ids, NEW voter \in Voters, NEW option \in Options(id),
           NEW debounced \in BOOLEAN, NEW q, q = RecordVote(r, id, voter, option, debounced)
    PROVE  /\ q \in Rounds /\ Voted(r, q)
           /\ r[id].status = "open" =>
                 \A v \in Voters : q[id].voters[v] = IF v = voter THEN option ELSE r[id].voters[v]
           /\ \A k \in Ids : k # id => q[k] = r[k]
<1> DEFINE p == r[id]
           votes == [p.voters EXCEPT ![voter] = option]
           shown == IF debounced /\ p.shown # "never" THEN "stale" ELSE "current"
           tally == Moved(p.tally, p.voters[voter], option)
           n == [p EXCEPT !.voters = votes, !.tally = tally, !.shown = shown]
<1>1. r \in [Ids -> UNION {Predictions(i) : i \in Ids}] /\ \A i \in Ids : r[i] \in Predictions(i) /\ Counted(r[i], i)
  BY DEF Rounds
<1>2. /\ p \in Predictions(id) /\ Counted(p, id) /\ option # Unknown
      /\ p.voters \in [Voters -> Options(id) \cup {Unknown}] /\ p.tally \in [Options(id) -> Nat]
  BY <1>1, PredictionsFacts DEF Predictions
<1>3. CASE ~Accepts(p)
  <2>1. q = r
    BY <1>3 DEF RecordVote
  <2>2. QED
    BY <1>3, <2>1 DEF Voted, Accepts
<1>4. CASE SameVote(p, voter, option)
  <2>1. q = r
    BY <1>4 DEF RecordVote
  <2>2. QED
    BY <1>4, <2>1 DEF Voted, SameVote
<1>5. CASE Accepts(p) /\ ~SameVote(p, voter, option)
  <2>1. q = [r EXCEPT ![id] = n]
    BY <1>5 DEF RecordVote
  <2>2. ASSUME NEW o \in Options(id)
        PROVE  tally[o] = Cardinality({v \in Voters : votes[v] = o})
    <3> DEFINE old == {v \in Voters : p.voters[v] = o}
               new == {v \in Voters : votes[v] = o}
               from == p.voters[voter]
               moved == tally[o]
    <3> SUFFICES moved = Cardinality(new)
      OBVIOUS
    <3>1. option # from
      BY <1>5 DEF SameVote
    <3>2. PICK t \in Nat :
            /\ t = p.tally[o] /\ Cardinality(old) = t
            /\ voter \in old => Cardinality(old \ {voter}) = t - 1
            /\ voter \notin old => Cardinality(old \cup {voter}) = t + 1
      <4>1. IsFiniteSet(old)
        BY PredictionsFacts, FS_Subset
      <4>2. p.tally[o] = Cardinality(old)
        BY <1>2 DEF Counted
      <4> HIDE DEF old, p
      <4>3. QED
        BY <4>1, <4>2, FS_CardinalityType, FS_AddElement, FS_RemoveElement
    <3>3. moved = p.tally[o] + (IF o = option THEN 1 ELSE 0) - (IF o = from THEN 1 ELSE 0)
      BY <1>2 DEF Moved
    <3>4. \A v \in Voters : votes[v] = IF v = voter THEN option ELSE p.voters[v]
      BY <1>2
    <3>5. CASE o = option
      <4>1. new = old \cup {voter}
        BY <3>1, <3>4, <3>5
      <4>2. voter \notin old
        BY <3>1, <3>4, <3>5
      <4>3. moved = t + 1
        BY <3>1, <3>2, <3>3, <3>5
      <4> HIDE DEF old, new, moved
      <4>4. QED
        BY <3>2, <4>1, <4>2, <4>3
    <3>6. CASE o = from
      <4>1. new = old \ {voter}
        BY <3>1, <3>4, <3>6
      <4>2. voter \in old
        BY <3>1, <3>4, <3>6
      <4>3. moved = t - 1
        BY <3>1, <3>2, <3>3, <3>6
      <4> HIDE DEF old, new, moved
      <4>4. QED
        BY <3>2, <4>1, <4>2, <4>3
    <3>7. CASE o # option /\ o # from
      <4>1. new = old
        BY <3>4, <3>7
      <4>2. TRUE
        BY <3>4, <3>7
      <4>3. moved = t
        BY <3>2, <3>3, <3>7
      <4> HIDE DEF old, new, moved
      <4>4. QED
        BY <3>2, <4>1, <4>2, <4>3
    <3>8. QED
      BY <3>5, <3>6, <3>7
  <2>3. votes \in [Voters -> Options(id) \cup {Unknown}]
    BY <1>2
  <2>4. tally \in [Options(id) -> Nat]
    <3>1. DOMAIN p.tally = Options(id)
      BY <1>2
    <3>2. tally = [o \in Options(id) |-> tally[o]]
      BY <3>1 DEF Moved
    <3>3. ASSUME NEW o \in Options(id) PROVE tally[o] \in Nat
      <4>1. IsFiniteSet({v \in Voters : votes[v] = o})
        BY PredictionsFacts, FS_Subset
      <4> HIDE DEF votes
      <4>2. Cardinality({v \in Voters : votes[v] = o}) \in Nat
        BY <4>1, FS_CardinalityType
      <4>3. QED
        BY <2>2, <4>2
    <3> HIDE DEF tally
    <3>4. QED
      BY <3>2, <3>3
  <2>5. shown \in {"never", "stale", "current"}
    OBVIOUS
  <2> HIDE DEF votes, tally, shown
  <2>6. /\ n \in Predictions(id) /\ n.voters = votes /\ n.tally = tally /\ n.status = "open"
    BY <1>2, <1>5, <2>3, <2>4, <2>5 DEF Predictions, Accepts
  <2> HIDE DEF n
  <2>7. q[id] = n /\ \A k \in Ids : k # id => q[k] = r[k]
    BY <1>1, <2>1
  <2>8. Counted(n, id)
    BY <2>2, <2>6 DEF Counted
  <2>9. q \in Rounds
    <3>1. \A k \in Ids : q[k] \in Predictions(k) /\ Counted(q[k], k)
      BY <1>1, <2>6, <2>7, <2>8
    <3>2. q \in [Ids -> UNION {Predictions(k) : k \in Ids}]
      BY <1>1, <2>1, <2>6
    <3>3. QED
      BY <3>1, <3>2 DEF Rounds
  <2>10. \A v \in Voters : q[id].voters[v] = IF v = voter THEN option ELSE r[id].voters[v]
    BY <1>2, <2>6, <2>7 DEF votes
  <2>11. Voted(r, q)
    BY <1>2, <1>5, <2>6, <2>7, <2>10 DEF Voted, Accepts
  <2>12. QED
    BY <2>7, <2>9, <2>10, <2>11
<1>6. QED
  BY <1>3, <1>4, <1>5

-------------------------------------------------------------------------------
(* The board by the hour: what a tick has made of it, or what the last     *)
(* part of the day, or a restart, left for the tick to come.               *)
Left(hour) ==
    [morning |-> {"open"}, session |-> {"open"}, close |-> {"open", "locked"},
     evening |-> {"open", "revealed"}][hour]
BoardTypeOK ==
    /\ day \in 0 .. MaxDay /\ part \in Range(Parts) /\ ticked \in BOOLEAN
    /\ dated \in 0 .. MaxDay + 1 /\ lastReset \in -1 .. MaxDay
    /\ baseline \in Marks \cup {NoMark} /\ round \in Rounds
Ticked ==
    ticked => /\ dated = (IF part = "evening" THEN day + 1 ELSE day)
              /\ \A id \in Ids : round[id].status = Wanted
              /\ lastReset <= day /\ (part = "evening" <=> lastReset = day)
ToTick ==
    ~ticked => /\ dated = day /\ lastReset < day
               /\ \A id \in Ids : round[id].status \in Left(part)
BoardInv == BoardTypeOK /\ Ticked /\ ToTick /\ DecidedIsShown

LEMMA PartsAre == Range(Parts) = {"morning", "session", "close", "evening"}
<1>1. DOMAIN Parts = 1 .. 4
  BY DEF Parts
<1>2. Parts[1] = "morning" /\ Parts[2] = "session" /\ Parts[3] = "close" /\ Parts[4] = "evening"
  BY DEF Parts
<1>3. \A i \in 1 .. 4 : i = 1 \/ i = 2 \/ i = 3 \/ i = 4
  OBVIOUS
<1>4. Range(Parts) = {Parts[i] : i \in 1 .. 4}
  BY <1>1 DEF Range
<1>5. QED
  BY <1>2, <1>3, <1>4

LEMMA InitBoard == PredictionsInit => BoardInv
<1> SUFFICES ASSUME PredictionsInit PROVE BoardInv
  OBVIOUS
<1>1. /\ day = 0 /\ part \in Range(Parts) /\ ticked = FALSE /\ dated = 0 /\ lastReset = -1
      /\ baseline = NoMark /\ round = FreshRound
  BY DEF PredictionsInit
<1>2. \A id \in Ids : round[id].status = "open"
  BY <1>1 DEF FreshRound
<1>3. BoardTypeOK
  <2>1. 0 \in 0 .. MaxDay /\ 0 \in 0 .. MaxDay + 1 /\ -1 \in -1 .. MaxDay
    BY PredictionsFacts
  <2>2. round \in Rounds
    BY <1>1, FreshRoundType
  <2>3. QED
    BY <1>1, <2>1, <2>2 DEF BoardTypeOK
<1>4. Ticked /\ ToTick /\ DecidedIsShown
  BY <1>1, <1>2, PartsAre DEF Ticked, ToTick, DecidedIsShown, Left
<1>5. QED
  BY <1>3, <1>4 DEF BoardInv

(* The agent with the highest total is one of the picks. *)
LEMMA PickWinnerType ==
    ASSUME NEW total \in [Agents -> Totals]
    PROVE  PickWinner(total) \in Picks \cup {Unknown}
<1>1. SUFFICES ASSUME Agents # {} PROVE PickWinner(total) \in Picks
  BY DEF PickWinner
<1> DEFINE L == Len(AgentList)
           T(i) == total[AgentList[i]]
           Good == {k \in 0 .. L : k = 0 \/ \E i \in 1 .. k : \A j \in 1 .. k : T(i) >= T(j)}
           best == {i \in DOMAIN AgentList : \A b \in Agents : total[AgentList[i]] >= total[b]}
<1>2. L \in Nat /\ DOMAIN AgentList = 1 .. L /\ \A i \in 1 .. L : AgentList[i] \in Picks
  BY PredictionsFacts, LenProperties, ElementOfSeq
<1>3. Agents = {AgentList[i] : i \in 1 .. L}
  BY <1>2 DEF Agents, Range
<1>4. \A i \in 1 .. L : T(i) \in Int
  <2>1. Totals \subseteq Int
    BY PredictionsAssumption
  <2>2. QED
    BY <1>3, <2>1
<1>5. L # 0
  BY <1>1, <1>2, <1>3
<1>6. ASSUME NEW k \in 1 .. L, k - 1 \in Good PROVE k \in Good
  <2>1. CASE k = 1
    <3>1. \A j \in 1 .. 1 : j = 1
      OBVIOUS
    <3>2. T(1) \in Int /\ 1 \in 1 .. 1 /\ k \in 0 .. L
      BY <1>2, <1>4, <2>1
    <3> HIDE DEF T
    <3>3. \A j \in 1 .. 1 : T(1) >= T(j)
      BY <3>1, <3>2
    <3>4. QED
      BY <2>1, <3>2, <3>3
  <2>2. CASE k # 1
    <3>1. PICK i \in 1 .. k - 1 : \A j \in 1 .. k - 1 : T(i) >= T(j)
      BY <1>2, <1>6, <2>2
    <3>2. /\ i \in 1 .. k /\ k \in 1 .. k /\ k \in 0 .. L /\ i \in 1 .. L
          /\ \A j \in 1 .. k : (j \in 1 .. k - 1 \/ j = k) /\ j \in 1 .. L
      BY <1>2, <3>1
    <3>3. \A j \in 1 .. k : T(j) \in Int
      BY <1>4, <3>2
    <3> HIDE DEF T
    <3>4. (\A j \in 1 .. k : T(i) >= T(j)) \/ (\A j \in 1 .. k : T(k) >= T(j))
      BY <3>1, <3>2, <3>3
    <3>5. QED
      BY <3>2, <3>4
  <2>3. QED
    BY <2>1, <2>2
<1>7. L \in Good
  <2>1. 0 \in Good
    BY <1>2
  <2> HIDE DEF Good, L
  <2>2. \A k \in 0 .. L : k \in Good
    BY <1>2, <1>6, <2>1, Reaches
  <2>3. QED
    BY <1>2, <2>2
<1>8. best # {} /\ best \in SUBSET Nat
  <2>1. PICK i \in 1 .. L : \A j \in 1 .. L : T(i) >= T(j)
    BY <1>5, <1>7
  <2>2. i \in best
    BY <1>2, <1>3, <2>1
  <2>3. QED
    BY <1>2, <2>2
<1> HIDE DEF best
<1>9. Min(best) \in best
  <2>1. \E x \in best : \A y \in best : x <= y
    BY <1>8, LeastNumber
  <2>2. QED
    BY <2>1 DEF Min
<1>10. AgentList[Min(best)] \in Picks
  BY <1>2, <1>9 DEF best
<1>11. QED
  BY <1>1, <1>10 DEF PickWinner, best

LEMMA WinnerType ==
    ASSUME NEW id \in Ids, NEW base, NEW mark, NEW total \in [Agents -> Totals]
    PROVE  Winner(id, base, mark, total) \in Options(id) \cup {Unknown}
<1>1. CASE id = "pick-winner"
  BY <1>1, PickWinnerType DEF Winner, Options
<1>2. CASE id = "spy-direction"
  BY <1>2 DEF Winner, SpyDirection, Options, Directions
<1>3. QED
  BY <1>1, <1>2 DEF Ids

(* What the hour makes of a question. *)
LEMMA AdvancedIs ==
    ASSUME part \in Range(Parts), NEW id \in Ids, NEW p \in Predictions(id), Counted(p, id),
           p.status # "open" => p.shown = "current",
           NEW base, NEW mark, NEW total \in [Agents -> Totals],
           NEW q, q = Advanced(id, p, base, mark, total)
    PROVE  /\ q \in Predictions(id) /\ Counted(q, id) /\ q.status = StatusAt(p.status)
           /\ q.voters = p.voters
           /\ q.status # "open" => q.shown = "current"
           /\ p.status = "revealed" => q = p
<1> DEFINE status == StatusAt(p.status)
           winner == IF status = "revealed" /\ p.status # "revealed"
                     THEN Winner(id, base, mark, total) ELSE p.winner
           shown == IF Publishes(p.status, status) THEN "current" ELSE p.shown
<1>1. q = [p EXCEPT !.status = status, !.winner = winner, !.shown = shown]
  BY DEF Advanced
<1>2. p.status \in {"open", "locked", "revealed"} /\ p.winner \in Options(id) \cup {Unknown}
      /\ p.shown \in {"never", "stale", "current"}
  BY DEF Predictions
<1>3. status \in {"open", "locked", "revealed"}
      /\ (p.status = "revealed" => status = "revealed")
  BY <1>2 DEF StatusAt
<1>4. winner \in Options(id) \cup {Unknown}
  BY <1>2, WinnerType
<1>5. /\ shown \in {"never", "stale", "current"}
      /\ status # "open" => shown = "current"
      /\ p.status = "revealed" => shown = p.shown /\ winner = p.winner /\ status = p.status
  BY <1>2, <1>3 DEF Publishes
<1> HIDE DEF status, winner, shown
<1>6. q \in Predictions(id)
  BY <1>1, <1>3, <1>4, <1>5 DEF Predictions
<1>7. q.status = status /\ q.voters = p.voters /\ q.tally = p.tally /\ q.shown = shown
  BY <1>1 DEF Predictions
<1>8. p.status = "revealed" => q = p
  BY <1>1, <1>5 DEF Predictions
<1>9. Counted(q, id)
  BY <1>7 DEF Counted
<1>10. QED
  BY <1>5, <1>6, <1>7, <1>8, <1>9 DEF status

(* What a tick leaves alone. *)
TickKeeps ==
    /\ \A id \in Ids :
          /\ round'[id].status # "open" => round'[id].voters = round[id].voters
          /\ round'[id].status = "open" /\ dated' = dated => round'[id].voters = round[id].voters /\ round[id].status = "open"
          /\ round[id].status = "revealed" /\ round'[id].status # "open" => round'[id] = round[id]
          /\ dated > day /\ ticked => round'[id] = round[id]
    /\ dated' # dated => round' = FreshRound

LEMMA FreshIsOpen ==
    \A id \in Ids : FreshRound[id].status = "open" /\ FreshRound[id].voters = [v \in Voters |-> Unknown]
  BY DEF FreshRound

LEMMA BoardTicksInv ==
    ASSUME BoardInv, BoardTicks
    PROVE  BoardInv' /\ TickKeeps
<1>1. /\ day \in Nat /\ day <= MaxDay /\ part \in {"morning", "session", "close", "evening"}
      /\ part \in Range(Parts)
      /\ dated \in Int /\ lastReset \in Int /\ baseline \in Marks \cup {NoMark} /\ round \in Rounds
      /\ ticked \in BOOLEAN /\ MaxDay \in Nat
  BY PartsAre, PredictionsFacts DEF BoardInv, BoardTypeOK
<1>2. ticked' = TRUE /\ day' = day /\ part' = part
  BY DEF BoardTicks
<1>3. CASE TickResets
  <2>1. part = "evening" /\ lastReset' = day /\ dated' = day + 1 /\ baseline' = NoMark /\ round' = FreshRound
        /\ lastReset # day
    BY <1>3 DEF TickResets, ResetDue, ResetTo
  <2>2. BoardTypeOK'
    <3>1. day + 1 \in 0 .. MaxDay + 1 /\ day \in -1 .. MaxDay
      BY <1>1
    <3>2. round' \in Rounds
      BY <2>1, FreshRoundType
    <3>3. QED
      BY <1>1, <1>2, <2>1, <3>1, <3>2 DEF BoardInv, BoardTypeOK
  <2>3. \A id \in Ids : round'[id].status = "open"
    BY <2>1, FreshIsOpen
  <2>4. Ticked' /\ ToTick' /\ DecidedIsShown'
    BY <1>1, <1>2, <2>1, <2>3 DEF Ticked, ToTick, DecidedIsShown, Wanted
  <2>5. dated = day
    BY <1>1, <2>1 DEF BoardInv, Ticked, ToTick
  <2>6. TickKeeps
    BY <1>1, <2>1, <2>3, <2>5 DEF TickKeeps
  <2>7. QED
    BY <2>2, <2>4, <2>6 DEF BoardInv
<1>4. ASSUME NEW mark \in Marks \cup {NoMark}, TickWaits(mark) PROVE BoardInv' /\ TickKeeps
  <2>1. dated > day /\ baseline' = BaselineAt(mark) /\ dated' = dated /\ lastReset' = lastReset /\ round' = round
    BY <1>4 DEF TickWaits, NotYet
  <2>2. ticked /\ part = "evening"
    BY <1>1, <2>1 DEF BoardInv, Ticked, ToTick
  <2>3. BoardTypeOK'
    BY <1>1, <1>2, <2>1 DEF BoardInv, BoardTypeOK, BaselineAt
  <2>4. Ticked' /\ ToTick' /\ DecidedIsShown'
    BY <1>2, <2>1, <2>2 DEF BoardInv, Ticked, ToTick, DecidedIsShown, Wanted
  <2>5. TickKeeps
    BY <2>1 DEF TickKeeps
  <2>6. QED
    BY <2>3, <2>4, <2>5 DEF BoardInv
<1>5. ASSUME NEW mark \in Marks \cup {NoMark}, NEW total \in [Agents -> Totals], TickAdvances(mark, total)
      PROVE  BoardInv' /\ TickKeeps
  <2>1. /\ ~ResetDue /\ dated <= day /\ baseline' = BaselineAt(mark)
        /\ round' = [id \in Ids |-> Advanced(id, round[id], BaselineAt(mark), mark, total)]
        /\ dated' = dated /\ lastReset' = lastReset
    BY <1>1, <1>5 DEF TickAdvances, NotYet
  <2>2. part # "evening" /\ dated = day /\ lastReset < day
    BY <1>1, <2>1 DEF BoardInv, Ticked, ToTick, ResetDue
  <2>3. ASSUME NEW id \in Ids
        PROVE  /\ round'[id] \in Predictions(id) /\ Counted(round'[id], id)
               /\ round'[id].status = StatusAt(round[id].status) /\ round'[id].voters = round[id].voters
               /\ round'[id].status # "open" => round'[id].shown = "current"
               /\ round[id].status = "revealed" => round'[id] = round[id]
    <3>1. round[id] \in Predictions(id) /\ Counted(round[id], id)
      BY <1>1 DEF Rounds
    <3>2. round[id].status # "open" => round[id].shown = "current"
      BY DEF BoardInv, DecidedIsShown
    <3>3. PICK p, base, q : p = round[id] /\ base = BaselineAt(mark) /\ q = Advanced(id, p, base, mark, total)
      OBVIOUS
    <3>4. round'[id] = q
      BY <2>1, <3>3
    <3>5. p \in Predictions(id) /\ Counted(p, id) /\ (p.status # "open" => p.shown = "current")
      BY <3>1, <3>2, <3>3
    <3>6. /\ q \in Predictions(id) /\ Counted(q, id) /\ q.status = StatusAt(p.status)
          /\ q.voters = p.voters
          /\ q.status # "open" => q.shown = "current"
          /\ p.status = "revealed" => q = p
      BY <1>1, <3>3, <3>5, AdvancedIs
    <3>7. QED
      BY <3>3, <3>4, <3>6
  <2>4. round' \in Rounds
    <3>1. round' \in [Ids -> UNION {Predictions(id) : id \in Ids}]
      BY <2>1, <2>3
    <3>2. QED
      BY <2>3, <3>1 DEF Rounds
  <2>5. BoardTypeOK'
    BY <1>1, <1>2, <1>5, <2>1, <2>4 DEF BoardInv, BoardTypeOK, BaselineAt
  <2>6. \A id \in Ids : round[id].status \in Left(part) \/ round[id].status = Wanted
    BY <1>1 DEF BoardInv, Ticked, ToTick
  <2>7. \A id \in Ids : round'[id].status = Wanted'
    <3> TAKE id \in Ids
    <3>1. StatusAt(round[id].status) = Wanted
      BY <1>1, <2>2, <2>6 DEF StatusAt, Wanted, Left
    <3>2. Wanted' = Wanted
      BY <1>2 DEF Wanted
    <3>3. QED
      BY <2>3, <3>1, <3>2
  <2>8. Ticked' /\ ToTick' /\ DecidedIsShown'
    BY <1>1, <1>2, <2>1, <2>2, <2>3, <2>7 DEF Ticked, ToTick, DecidedIsShown
  <2>9. ASSUME NEW id \in Ids, round'[id].status = "open" PROVE round[id].status = "open"
    <3>1. round[id].status \in {"open", "locked", "revealed"}
      BY <1>1 DEF Rounds, Predictions
    <3>2. QED
      BY <2>3, <2>9, <3>1 DEF StatusAt
  <2>10. TickKeeps
    BY <1>1, <2>1, <2>2, <2>3, <2>9 DEF TickKeeps
  <2>11. QED
    BY <2>5, <2>8, <2>10 DEF BoardInv
<1>6. QED
  BY <1>3, <1>4, <1>5 DEF BoardTicks

LEMMA ClockAdvancesInv ==
    ASSUME BoardInv, ClockAdvances
    PROVE  BoardInv'
<1>1. /\ day \in Nat /\ day <= MaxDay /\ part \in {"morning", "session", "close", "evening"}
      /\ part \in Range(Parts) /\ MaxDay \in Nat /\ lastReset \in Int
      /\ ticked = TRUE /\ ticked' = FALSE
      /\ dated' = dated /\ lastReset' = lastReset /\ baseline' = baseline /\ round' = round
  BY PartsAre, PredictionsFacts DEF BoardInv, BoardTypeOK, ClockAdvances, boardVars
<1>2. \/ /\ part = "evening" /\ day < MaxDay /\ day' = day + 1 /\ part' = "morning"
      \/ /\ day' = day
         /\ \/ part = "morning" /\ part' = "session"
            \/ part = "session" /\ part' = "close"
            \/ part = "close" /\ part' = "evening"
  <2>1. Parts[1] = "morning" /\ Parts[2] = "session" /\ Parts[3] = "close" /\ Parts[4] = "evening"
    BY DEF Parts
  <2>2. \A i \in 1 .. 3 : (i = 1 /\ i + 1 = 2) \/ (i = 2 /\ i + 1 = 3) \/ (i = 3 /\ i + 1 = 4)
    OBVIOUS
  <2>3. QED
    BY <1>1, <2>1, <2>2 DEF ClockAdvances
<1>3. BoardTypeOK'
  <2>1. day' \in 0 .. MaxDay
    BY <1>1, <1>2
  <2>2. part' \in Range(Parts)
    BY <1>1, <1>2, PartsAre
  <2>3. QED
    BY <1>1, <2>1, <2>2 DEF BoardInv, BoardTypeOK
<1>4. ToTick'
  <2>1. \A id \in Ids : round[id].status = Wanted
    BY <1>1 DEF BoardInv, Ticked
  <2>2. dated = (IF part = "evening" THEN day + 1 ELSE day) /\ lastReset <= day /\ (part = "evening" <=> lastReset = day)
    BY <1>1 DEF BoardInv, Ticked
  <2>3. dated' = day' /\ lastReset' < day'
    BY <1>1, <1>2, <2>2
  <2>4. Wanted \in Left(part)'
    BY <1>2 DEF Wanted, Left
  <2>5. QED
    BY <1>1, <2>1, <2>3, <2>4 DEF ToTick
<1>5. Ticked' /\ DecidedIsShown'
  BY <1>1 DEF BoardInv, Ticked, DecidedIsShown
<1>6. QED
  BY <1>3, <1>4, <1>5 DEF BoardInv

LEMMA BoardRestartsInv ==
    ASSUME BoardInv, BoardRestarts
    PROVE  BoardInv' /\ round' = FreshRound /\ ticked' = FALSE
<1>1. /\ dated' = day /\ lastReset' = -1 /\ baseline' = NoMark /\ round' = FreshRound
      /\ ticked' = FALSE /\ day' = day /\ part' = part
      /\ day \in Nat /\ day <= MaxDay /\ MaxDay \in Nat
      /\ part \in {"morning", "session", "close", "evening"} /\ part \in Range(Parts)
  BY PartsAre, PredictionsFacts DEF BoardRestarts, BoardInv, BoardTypeOK
<1>2. BoardTypeOK'
  <2>1. day \in 0 .. MaxDay + 1 /\ -1 \in -1 .. MaxDay /\ day \in 0 .. MaxDay
    BY <1>1
  <2>2. round' \in Rounds
    BY <1>1, FreshRoundType
  <2>3. QED
    BY <1>1, <2>1, <2>2 DEF BoardTypeOK
<1>3. \A id \in Ids : round'[id].status = "open"
  BY <1>1, FreshIsOpen
<1>4. Ticked' /\ ToTick' /\ DecidedIsShown'
  BY <1>1, <1>3 DEF Ticked, ToTick, DecidedIsShown, Left
<1>5. QED
  BY <1>1, <1>2, <1>4 DEF BoardInv

(* Votes. *)
LEMMA VotedInv ==
    ASSUME BoardInv, round' \in Rounds, Voted(round, round'), UNCHANGED <<clockVars, dated, lastReset, baseline>>
    PROVE  BoardInv'
<1>1. UNCHANGED <<day, part, ticked, dated, lastReset, baseline>>
  BY DEF clockVars
<1>2. BoardTypeOK'
  BY <1>1 DEF BoardInv, BoardTypeOK
<1>3. Ticked' /\ ToTick'
  BY <1>1 DEF BoardInv, Ticked, ToTick, Voted, Wanted, Left
<1>4. DecidedIsShown'
  BY DEF BoardInv, DecidedIsShown, Voted
<1>5. QED
  BY <1>2, <1>3, <1>4 DEF BoardInv

LEMMA BoardUnchanged == BoardInv /\ UNCHANGED predictionVars => BoardInv'
  BY DEF BoardInv, BoardTypeOK, Ticked, ToTick, DecidedIsShown, Wanted, Left, predictionVars, clockVars, boardVars

-------------------------------------------------------------------------------
LEMMA PageIs ==
    ASSUME posts \in Seq(Post)
    PROVE  LET n == Len(Page)
           IN  /\ n \in Nat /\ Page \in [1 .. n -> Arrived] /\ Page \in Seq(DOMAIN posts) /\ DOMAIN Page = 1 .. n
               /\ \A i, j \in 1 .. n : i < j => Page[i] < Page[j]
               /\ \A i \in 1 .. n : Page[i] \in 1 .. Len(posts) /\ Page[i] > cursor
<1> DEFINE n == Cardinality(Arrived)
<1>1. Len(posts) \in Nat /\ DOMAIN posts = 1 .. Len(posts)
  BY LenProperties
<1>2. IsFiniteSet(Arrived) /\ Arrived \in SUBSET Int /\ n \in Nat
      /\ \A i \in Arrived : i \in 1 .. Len(posts) /\ i > cursor
  <2>1. 1 \in Int /\ Len(posts) \in Int
    BY <1>1
  <2>2. IsFiniteSet(1 .. Len(posts))
    BY <2>1, FS_Interval
  <2>3. Arrived \in SUBSET (1 .. Len(posts)) /\ \A i \in Arrived : i > cursor
    BY <1>1 DEF Arrived
  <2>4. IsFiniteSet(Arrived)
    BY <2>2, <2>3, FS_Subset
  <2>5. QED
    BY <1>1, <2>3, <2>4, FS_CardinalityType
<1>3. Page \in [1 .. n -> Arrived] /\ \A i, j \in DOMAIN Page : i < j => Page[i] < Page[j]
  <2>1. \E s \in [1 .. n -> Arrived] : \A i, j \in DOMAIN s : i < j => s[i] < s[j]
    BY <1>2, OrderedExists
  <2>2. QED
    BY <2>1 DEF Page
<1> HIDE DEF n
<1>4. Page \in Seq(DOMAIN posts)
  <2>1. \A i \in 1 .. n : Page[i] \in DOMAIN posts
    BY <1>1, <1>2, <1>3
  <2>2. Page = [i \in 1 .. n |-> Page[i]]
    BY <1>3
  <2>3. QED
    BY <1>2, <2>1, <2>2, IsASeq
<1>5. Len(Page) = n
  BY <1>2, <1>3, <1>4, LenProperties
<1>6. QED
  BY <1>2, <1>3, <1>4, <1>5

(* A request is removed from a sequence, or the first one makes room. *)
LEMMA RemoveAtIs ==
    ASSUME NEW S, NEW s \in Seq(S), NEW i \in 1 .. Len(s)
    PROVE  /\ RemoveAt(s, i) \in Seq(S) /\ Len(RemoveAt(s, i)) = Len(s) - 1
           /\ \A k \in 1 .. Len(s) - 1 : RemoveAt(s, i)[k] = IF k < i THEN s[k] ELSE s[k + 1]
<1> DEFINE n == Len(s)
           a == SubSeq(s, 1, i - 1)
           b == SubSeq(s, i + 1, n)
<1>1. n \in Nat /\ i \in Int /\ 1 <= i /\ i <= n
  BY LenProperties
<1>2. \A k \in 1 .. n : s[k] \in S
  BY ElementOfSeq
<1>3. a \in Seq(S) /\ Len(a) = i - 1 /\ \A k \in 1 .. i - 1 : a[k] = s[k]
  <2>1. \A k \in 1 .. i - 1 : s[k] \in S
    BY <1>1, <1>2
  <2>2. 1 .. i - 1 \subseteq 1 .. n
    BY <1>1
  <2>3. /\ SubSeq(s, 1, i - 1) \in Seq(S)
        /\ Len(SubSeq(s, 1, i - 1)) = IF 1 <= i - 1 THEN (i - 1) - 1 + 1 ELSE 0
        /\ \A k \in 1 .. (i - 1) - 1 + 1 : SubSeq(s, 1, i - 1)[k] = s[1 + k - 1]
    BY <1>1, <2>1, SubSeqProperties
  <2>4. QED
    BY <1>1, <2>3
<1>4. b \in Seq(S) /\ Len(b) = n - i /\ \A k \in 1 .. n - i : b[k] = s[i + k]
  <2>1. \A k \in i + 1 .. n : s[k] \in S
    BY <1>1, <1>2
  <2>3. /\ SubSeq(s, i + 1, n) \in Seq(S)
        /\ Len(SubSeq(s, i + 1, n)) = IF i + 1 <= n THEN n - (i + 1) + 1 ELSE 0
        /\ \A k \in 1 .. n - (i + 1) + 1 : SubSeq(s, i + 1, n)[k] = s[(i + 1) + k - 1]
    BY <1>1, <2>1, SubSeqProperties
  <2>4. QED
    BY <1>1, <2>3
<1>5. RemoveAt(s, i) = a \o b
  BY DEF RemoveAt
<1> HIDE DEF a, b, n
<1>6. /\ a \o b \in Seq(S) /\ Len(a \o b) = Len(a) + Len(b)
      /\ \A k \in 1 .. Len(a) + Len(b) : (a \o b)[k] = IF k <= Len(a) THEN a[k] ELSE b[k - Len(a)]
  BY <1>3, <1>4, ConcatProperties
<1>7. Len(a) + Len(b) = n - 1
  BY <1>1, <1>3, <1>4
<1>8. ASSUME NEW k \in 1 .. n - 1 PROVE (a \o b)[k] = IF k < i THEN s[k] ELSE s[k + 1]
  <2>1. CASE k < i
    <3>1. k <= Len(a) /\ k \in 1 .. i - 1
      BY <1>1, <1>3, <2>1
    <3>2. QED
      BY <1>3, <1>6, <1>7, <2>1, <3>1
  <2>2. CASE ~(k < i)
    <3>1. ~(k <= Len(a)) /\ k - Len(a) \in 1 .. n - i /\ i + (k - Len(a)) = k + 1
      BY <1>1, <1>3, <2>2
    <3>2. QED
      BY <1>4, <1>6, <1>7, <2>2, <3>1
  <2>3. QED
    BY <2>1, <2>2
<1>9. QED
  BY <1>5, <1>6, <1>7, <1>8 DEF n

LEMMA DropFirst ==
    ASSUME NEW S, NEW s \in Seq(S), Len(s) >= 1
    PROVE  /\ SubSeq(s, 2, Len(s)) \in Seq(S) /\ Len(SubSeq(s, 2, Len(s))) = Len(s) - 1
           /\ \A k \in 1 .. Len(s) - 1 : SubSeq(s, 2, Len(s))[k] = s[k + 1]
<1> DEFINE n == Len(s)
<1>1. n \in Nat
  BY LenProperties
<1>2. \A k \in 2 .. n : s[k] \in S
  BY <1>1, ElementOfSeq
<1> HIDE DEF n
<1>3. /\ SubSeq(s, 2, n) \in Seq(S)
      /\ Len(SubSeq(s, 2, n)) = IF 2 <= n THEN n - 2 + 1 ELSE 0
      /\ \A k \in 1 .. n - 2 + 1 : SubSeq(s, 2, n)[k] = s[2 + k - 1]
  BY <1>1, <1>2, SubSeqProperties
<1>4. n >= 1
  BY DEF n
<1>5. Len(SubSeq(s, 2, n)) = n - 1
  BY <1>1, <1>3, <1>4
<1>6. \A k \in 1 .. n - 1 : SubSeq(s, 2, n)[k] = s[k + 1]
  <2> TAKE k \in 1 .. n - 1
  <2>1. k \in 1 .. n - 2 + 1 /\ 2 + k - 1 = k + 1
    BY <1>1
  <2>2. QED
    BY <1>3, <2>1
<1>7. QED
  BY <1>3, <1>5, <1>6 DEF n

-------------------------------------------------------------------------------
(* What routing a message does to the board, the queue and the window. *)
Desks == [round : Rounds, pins : {q \in Seq(Request) : Len(q) <= PinCap}, moods : Seq(Directions)]

KindOf(id) == IF id = "spy-direction" THEN "spy" ELSE "pick"
Answered(ps, i, id) == Parse(ps[i].text).kind = KindOf(id)
WantsPin(ps, i) == Parse(ps[i].text).kind = "pin"

LEMMA CommandIs ==
    ASSUME NEW kind, NEW arg
    PROVE  Command(kind, arg).kind = kind /\ Command(kind, arg).arg = arg
  BY DEF Command

LEMMA ParseIs ==
    ASSUME NEW text \in Texts, NEW cmd, cmd = Parse(text)
    PROVE  /\ cmd.kind \in {"vote", "spy"} => cmd.arg \in Directions
           /\ cmd.kind = "pick" => cmd.arg \in Picks
<1>1. CASE ~text.bang
  BY <1>1 DEF Parse, NoCommand, Command
<1>2. CASE text.bang /\ text.word \in {"vote", "spy"} /\ text.arg \in Directions
  <2>1. cmd = Command(text.word, text.arg)
    BY <1>2 DEF Parse
  <2>2. QED
    BY <1>2, <2>1 DEF Command
<1>3. CASE text.bang /\ ~(text.word \in {"vote", "spy"} /\ text.arg \in Directions)
           /\ text.word \in {"pin", "pick"} /\ text.arg # ""
  <2>1. cmd = Command(text.word, text.arg)
    BY <1>3 DEF Parse
  <2>2. text.word = "pick" => text.arg \in Picks
    BY <1>3, AudienceAssumption
  <2>3. cmd.kind = text.word /\ cmd.arg = text.arg
    BY <2>1 DEF Command
  <2>4. QED
    BY <1>3, <2>2, <2>3
<1>4. CASE text.bang /\ ~(text.word \in {"vote", "spy"} /\ text.arg \in Directions)
           /\ ~(text.word \in {"pin", "pick"} /\ text.arg # "")
  <2>1. cmd = Command("unknown", "")
    BY <1>4 DEF Parse
  <2>2. Command("unknown", "").kind = "unknown"
    BY CommandIs, Zenon
  <2>3. cmd.kind = "unknown"
    BY <2>1, <2>2, Zenon
  <2>4. cmd.kind \notin {"vote", "spy", "pick"}
    BY <2>3
  <2>5. QED
    BY <2>4, Zenon
<1>5. QED
  BY <1>1, <1>2, <1>3, <1>4

LEMMA RequestPinType ==
    ASSUME NEW queue \in Seq(Request), Len(queue) <= PinCap, NEW i \in 1 .. MaxPosts, NEW query
    PROVE  RequestPin(queue, i, query) \in Seq(Request) /\ Len(RequestPin(queue, i, query)) <= PinCap
<1> DEFINE kept == IF Len(queue) >= PinCap THEN SubSeq(queue, 2, Len(queue)) ELSE queue
           new == [post |-> i, agent |-> Resolve(query)]
<1>1. Len(queue) \in Nat /\ PinCap \in Nat /\ PinCap >= 1
  <2>1. PinCap \in Nat \ {0}
    BY AudienceAssumption
  <2>2. Len(queue) \in Nat
    BY LenProperties
  <2>3. QED
    BY <2>1, <2>2
<1>2. kept \in Seq(Request) /\ Len(kept) \in Nat /\ Len(kept) < PinCap
  <2>1. CASE Len(queue) >= PinCap
    BY <1>1, <2>1, DropFirst
  <2>2. CASE ~(Len(queue) >= PinCap)
    BY <1>1, <2>2
  <2>3. QED
    BY <2>1, <2>2
<1>3. new \in Request
  BY DEF Request, Resolve
<1> HIDE DEF kept, new
<1>4. Append(kept, new) \in Seq(Request) /\ Len(Append(kept, new)) = Len(kept) + 1
  BY <1>2, <1>3, AppendProperties
<1>5. QED
  BY <1>1, <1>2, <1>4 DEF RequestPin, kept, new

LEMMA RouteIs ==
    ASSUME posts \in Seq(Post), Len(posts) <= MaxPosts, NEW i \in DOMAIN posts, NEW d \in Desks,
           NEW debounced \in BOOLEAN, NEW q, q = Route(i, d, debounced)
    PROVE  /\ q \in Desks /\ Voted(d.round, q.round)
           /\ \A id \in Ids :
                 IF Answered(posts, i, id) /\ d.round[id].status = "open"
                 THEN \A v \in Voters : q.round[id].voters[v] =
                         IF v = posts[i].user THEN Parse(posts[i].text).arg ELSE d.round[id].voters[v]
                 ELSE q.round[id] = d.round[id]
           /\ q.pins = IF WantsPin(posts, i) THEN RequestPin(d.pins, i, Parse(posts[i].text).arg) ELSE d.pins
<1>1. posts[i].user \in Voters /\ posts[i].text \in Texts /\ i \in 1 .. MaxPosts
  <2>1. posts[i] \in Post
    BY ElementOfSeq, LenProperties
  <2>2. i \in 1 .. MaxPosts
    BY LenProperties, ChatPollerAssumption
  <2>3. QED
    BY <2>1, <2>2, AudienceAssumption DEF Post
<1>2. PICK user, cmd : user \in Voters /\ user = posts[i].user /\ cmd = Parse(posts[i].text)
  BY <1>1
<1>3. /\ cmd.kind \in {"vote", "spy"} => cmd.arg \in Directions
      /\ cmd.kind = "pick" => cmd.arg \in Picks
  BY <1>1, <1>2, ParseIs
<1>4. d.round \in Rounds /\ d.pins \in Seq(Request) /\ Len(d.pins) <= PinCap /\ d.moods \in Seq(Directions)
      /\ d = [round |-> d.round, pins |-> d.pins, moods |-> d.moods]
  BY DEF Desks
<1>5. \A id \in Ids : Answered(posts, i, id) <=> cmd.kind = KindOf(id)
  BY <1>2 DEF Answered
<1>6. WantsPin(posts, i) <=> cmd.kind = "pin"
  BY <1>2 DEF WantsPin
<1>7. Voted(d.round, d.round)
  BY DEF Voted
<1>8. ASSUME NEW id \in Ids, cmd.kind = KindOf(id), cmd.arg \in Options(id),
             q = [d EXCEPT !.round = RecordVote(d.round, id, user, cmd.arg, debounced)]
      PROVE  /\ q \in Desks /\ Voted(d.round, q.round) /\ q.pins = d.pins
             /\ d.round[id].status = "open" =>
                  \A v \in Voters : q.round[id].voters[v] = IF v = user THEN cmd.arg ELSE d.round[id].voters[v]
             /\ d.round[id].status # "open" => q.round[id] = d.round[id]
             /\ \A k \in Ids : k # id => q.round[k] = d.round[k]
  <2>1. PICK r, arg, s : /\ r \in Rounds /\ arg \in Options(id) /\ r = d.round /\ arg = cmd.arg
                          /\ s = RecordVote(r, id, user, arg, debounced)
    BY <1>4, <1>8
  <2>2. /\ s \in Rounds /\ Voted(r, s)
        /\ r[id].status = "open" => \A v \in Voters : s[id].voters[v] = IF v = user THEN arg ELSE r[id].voters[v]
        /\ \A k \in Ids : k # id => s[k] = r[k]
    BY <1>2, <2>1, RecordVoteKeeps
  <2>3. q = [round |-> s, pins |-> d.pins, moods |-> d.moods]
    BY <1>4, <1>8, <2>1
  <2>4. q \in Desks
    BY <1>4, <2>2, <2>3 DEF Desks
  <2>5. q.round = s /\ q.pins = d.pins
    BY <2>3
  <2>6. r[id].status # "open" => s[id] = r[id]
    BY <2>2 DEF Voted
  <2>7. QED
    BY <2>1, <2>2, <2>4, <2>5, <2>6
<1>9. CASE cmd.kind = "pick"
  <2>1. q = [d EXCEPT !.round = RecordVote(d.round, "pick-winner", user, cmd.arg, debounced)]
    BY <1>2, <1>9 DEF Route
  <2>2. "pick-winner" \in Ids /\ cmd.kind = KindOf("pick-winner") /\ cmd.arg \in Options("pick-winner")
    BY <1>3, <1>9 DEF Ids, KindOf, Options
  <2>3. \A id \in Ids : Answered(posts, i, id) <=> id = "pick-winner"
    BY <1>5, <1>9 DEF KindOf, Ids
  <2>4. ~WantsPin(posts, i)
    BY <1>6, <1>9
  <2>5. QED
    BY <1>2, <1>8, <2>1, <2>2, <2>3, <2>4
<1>10. CASE cmd.kind = "spy"
  <2>1. q = [d EXCEPT !.round = RecordVote(d.round, "spy-direction", user, cmd.arg, debounced)]
    BY <1>2, <1>10 DEF Route
  <2>2. "spy-direction" \in Ids /\ cmd.kind = KindOf("spy-direction") /\ cmd.arg \in Options("spy-direction")
    BY <1>3, <1>10 DEF Ids, KindOf, Options
  <2>3. \A id \in Ids : Answered(posts, i, id) <=> id = "spy-direction"
    BY <1>5, <1>10 DEF KindOf, Ids
  <2>4. ~WantsPin(posts, i)
    BY <1>6, <1>10
  <2>5. QED
    BY <1>2, <1>8, <2>1, <2>2, <2>3, <2>4
<1>11. CASE cmd.kind = "pin"
  <2>1. q = [d EXCEPT !.pins = RequestPin(d.pins, i, cmd.arg)]
    BY <1>2, <1>11 DEF Route
  <2>2. q = [round |-> d.round, pins |-> RequestPin(d.pins, i, cmd.arg), moods |-> d.moods]
    BY <1>4, <2>1
  <2>3. q \in Desks
    BY <1>1, <1>4, <2>2, RequestPinType DEF Desks
  <2>4. \A id \in Ids : ~Answered(posts, i, id)
    BY <1>5, <1>11 DEF KindOf
  <2>5. WantsPin(posts, i)
    BY <1>6, <1>11
  <2>6. q.round = d.round /\ q.pins = RequestPin(d.pins, i, cmd.arg)
    BY <2>2
  <2>7. QED
    BY <1>2, <1>7, <2>3, <2>4, <2>5, <2>6
<1>12. CASE cmd.kind = "vote"
  <2>1. q = [d EXCEPT !.moods = Append(d.moods, cmd.arg)]
    BY <1>2, <1>12 DEF Route
  <2>2. q = [round |-> d.round, pins |-> d.pins, moods |-> Append(d.moods, cmd.arg)]
    BY <1>4, <2>1
  <2>3. Append(d.moods, cmd.arg) \in Seq(Directions)
    BY <1>3, <1>4, <1>12, AppendProperties
  <2>4. q \in Desks
    BY <1>4, <2>2, <2>3 DEF Desks
  <2>5. \A id \in Ids : ~Answered(posts, i, id)
    BY <1>5, <1>12 DEF KindOf
  <2>6. ~WantsPin(posts, i)
    BY <1>6, <1>12
  <2>7. q.round = d.round /\ q.pins = d.pins
    BY <2>2
  <2>8. QED
    BY <1>7, <2>4, <2>5, <2>6, <2>7
<1>13. CASE cmd.kind \notin {"vote", "spy", "pin", "pick"}
  <2>1. q = d
    BY <1>2, <1>13 DEF Route
  <2>2. (\A id \in Ids : ~Answered(posts, i, id)) /\ ~WantsPin(posts, i)
    BY <1>5, <1>6, <1>13 DEF KindOf
  <2>3. QED
    BY <1>7, <2>1, <2>2
<1>14. QED
  BY <1>3, <1>9, <1>10, <1>11, <1>12, <1>13

-------------------------------------------------------------------------------
(* The last word of every voter among messages number from + 1 to m of s.  *)
WordsOf(ps, s, from, m, id, voter) ==
    {k \in from + 1 .. m : ps[s[k]].user = voter /\ Answered(ps, s[k], id)}
LastWord(ps, r, s, from, m) ==
    \A id \in Ids, voter \in Voters :
        r[id].status = "open" =>
            r[id].voters[voter] =
                (IF WordsOf(ps, s, from, m, id, voter) = {} THEN Unknown
                 ELSE Parse(ps[s[Max(WordsOf(ps, s, from, m, id, voter))]].text).arg)

LEMMA LastWordIs == LastWordCounts <=> LastWord(posts, round, published, since, Len(published))
<1>1. \A id \in Ids, voter \in Voters :
        AnswersTo(id, voter) = WordsOf(posts, published, since, Len(published), id, voter)
  BY DEF AnswersTo, WordsOf, Answered, KindOf
<1>2. QED
  BY <1>1 DEF LastWordCounts, LastWord

LEMMA WordsCarry ==
    ASSUME NEW m \in Nat, NEW from \in Nat, NEW ps, NEW qs, NEW r, NEW s, NEW t,
           \A k \in 1 .. m : t[k] = s[k] /\ qs[s[k]] = ps[s[k]],
           LastWord(ps, r, s, from, m)
    PROVE  LastWord(qs, r, t, from, m)
<1> SUFFICES ASSUME NEW id \in Ids, NEW voter \in Voters, r[id].status = "open"
             PROVE  r[id].voters[voter] =
                      (IF WordsOf(qs, t, from, m, id, voter) = {} THEN Unknown
                       ELSE Parse(qs[t[Max(WordsOf(qs, t, from, m, id, voter))]].text).arg)
  BY DEF LastWord
<1> DEFINE A == WordsOf(ps, s, from, m, id, voter)
           B == WordsOf(qs, t, from, m, id, voter)
<1>1. B = A
  <2>1. from + 1 .. m \in SUBSET (1 .. m)
    OBVIOUS
  <2>2. QED
    BY <2>1 DEF WordsOf, Answered
<1>2. CASE A = {}
  BY <1>1, <1>2 DEF LastWord
<1>3. CASE A # {}
  <2>1. A \in SUBSET (1 .. m)
    BY DEF WordsOf
  <2> HIDE DEF A
  <2>2. Max(A) \in 1 .. m
    BY <1>3, <2>1, MaxOfRange
  <2>3. qs[t[Max(A)]] = ps[s[Max(A)]]
    BY <2>2
  <2>4. r[id].voters[voter] = Parse(ps[s[Max(A)]].text).arg
    BY <1>3 DEF LastWord, A
  <2>5. QED
    BY <1>1, <1>3, <2>3, <2>4
<1>4. QED
  BY <1>2, <1>3

LEMMA WordStep ==
    ASSUME posts \in Seq(Post), Len(posts) <= MaxPosts, NEW m \in Nat, NEW from \in 0 .. m,
           NEW s, s[m + 1] \in DOMAIN posts, NEW d \in Desks, NEW debounced \in BOOLEAN,
           NEW q, q = Route(s[m + 1], d, debounced), LastWord(posts, d.round, s, from, m)
    PROVE  LastWord(posts, q.round, s, from, m + 1)
<1> SUFFICES ASSUME NEW id \in Ids, NEW voter \in Voters, q.round[id].status = "open"
             PROVE  q.round[id].voters[voter] =
                      (IF WordsOf(posts, s, from, m + 1, id, voter) = {} THEN Unknown
                       ELSE Parse(posts[s[Max(WordsOf(posts, s, from, m + 1, id, voter))]].text).arg)
  BY DEF LastWord
<1> DEFINE A == WordsOf(posts, s, from, m, id, voter)
           B == WordsOf(posts, s, from, m + 1, id, voter)
<1>1. PICK i \in DOMAIN posts : i = s[m + 1]
  OBVIOUS
<1>2. /\ Voted(d.round, q.round)
      /\ IF Answered(posts, i, id) /\ d.round[id].status = "open"
         THEN q.round[id].voters[voter] =
                 IF voter = posts[i].user THEN Parse(posts[i].text).arg ELSE d.round[id].voters[voter]
         ELSE q.round[id] = d.round[id]
  BY <1>1, RouteIs
<1>3. d.round[id].status = "open"
  BY <1>2 DEF Voted
<1>4. d.round[id].voters[voter] = (IF A = {} THEN Unknown ELSE Parse(posts[s[Max(A)]].text).arg)
  BY <1>3 DEF LastWord
<1>5. \A k \in Int : k \in from + 1 .. m + 1 <=> k \in from + 1 .. m \/ k = m + 1
  OBVIOUS
<1>6. CASE posts[i].user = voter /\ Answered(posts, i, id)
  <2>1. m + 1 \in B /\ B \in SUBSET (1 .. m + 1)
    BY <1>1, <1>6 DEF WordsOf
  <2> HIDE DEF B
  <2>2. Max(B) = m + 1
    BY <2>1, MaxOfRange
  <2>3. q.round[id].voters[voter] = Parse(posts[i].text).arg
    BY <1>2, <1>3, <1>6
  <2>4. QED
    BY <1>1, <2>1, <2>2, <2>3 DEF B
<1>7. CASE ~(posts[i].user = voter /\ Answered(posts, i, id))
  <2>1. B = A
    BY <1>1, <1>5, <1>7 DEF WordsOf
  <2>2. q.round[id].voters[voter] = d.round[id].voters[voter]
    BY <1>2, <1>3, <1>7
  <2>3. QED
    BY <1>4, <2>1, <2>2
<1>8. QED
  BY <1>6, <1>7

-------------------------------------------------------------------------------
(* The queue after the first m messages of s: f are the requests that are  *)
(* left, oldest first, done those resolved, and W says which messages ask  *)
(* for a pin.  What is left are the newest ones.                           *)
Newest(f, n, s, m, done, W) ==
    /\ \A k \in 1 .. n : \E j \in 1 .. m : s[j] = f[k]
    /\ \A k, l \in 1 .. n : k < l => f[k] < f[l]
    /\ \A k \in 1 .. n : f[k] \notin done
    /\ \A j \in 1 .. m, k \in 1 .. n :
          j \in W /\ s[j] > f[k] => s[j] \in done \/ \E l \in 1 .. n : f[l] = s[j]

Wanting(ps, s, m) == {j \in 1 .. m : WantsPin(ps, s[j])}
Requests(q) == [k \in 1 .. Len(q) |-> q[k].post]
Queue(ps, q, s, m, done) == Newest(Requests(q), Len(q), s, m, done, Wanting(ps, s, m))

(* Between the requests g and f at most the first one was dropped.         *)
Increasing(s, n) == \A i, j \in 1 .. n : i < j => s[i] < s[j]
Shifted(f, p, g, o) == o \in {p - 1, p} /\ \A k \in 1 .. p - 1 : f[k] = g[k + (o - (p - 1))]
SameUpto(V, W, m) == \A j \in 1 .. m : j \in V <=> j \in W

(* Nothing of that changes with a message that asks for nothing ...        *)
LEMMA NewestWaits ==
    ASSUME NEW m \in Nat, NEW s \in [1 .. m + 1 -> Int], \A i, j \in 1 .. m + 1 : i < j => s[i] < s[j],
           NEW done, NEW W, NEW V, m + 1 \notin V, \A j \in 1 .. m : j \in V <=> j \in W,
           NEW n \in Nat, NEW f \in [1 .. n -> Int], Newest(f, n, s, m, done, W)
    PROVE  Newest(f, n, s, m + 1, done, V)
<1>1. \A j \in 1 .. m + 1 : j \in 1 .. m \/ j = m + 1
  OBVIOUS
<1>2. \A j \in 1 .. m : j \in 1 .. m + 1
  OBVIOUS
<1>3. QED
  BY <1>1, <1>2 DEF Newest

(* ... and one that asks is put last, the first making room or not.        *)
LEMMA NewestStep ==
    ASSUME NEW m \in Nat, NEW next, next = m + 1, NEW s \in [1 .. next -> Int], Increasing(s, next),
           NEW done, s[next] \notin done, NEW W, NEW V, SameUpto(V, W, m),
           NEW o \in Nat, NEW p \in Nat \ {0}, NEW g \in [1 .. o -> Int], NEW f \in [1 .. p -> Int],
           f[p] = s[next], Shifted(f, p, g, o), Newest(g, o, s, m, done, W)
    PROVE  Newest(f, p, s, next, done, V)
<1> SUFFICES ASSUME NEW n \in Nat, NEW shift \in {0, 1}, o = n + shift, p = n + 1,
                    \A k \in 1 .. n : f[k] = g[k + shift]
             PROVE  Newest(f, n + 1, s, m + 1, done, V)
  <2>0. o \in {p - 1, p} /\ \A k \in 1 .. p - 1 : f[k] = g[k + (o - (p - 1))]
    BY DEF Shifted
  <2> DEFINE n == p - 1
             shift == o - n
  <2>1. n \in Nat /\ shift \in {0, 1} /\ o = n + shift /\ p = n + 1
    BY <2>0
  <2>2. \A k \in 1 .. n : f[k] = g[k + shift]
    BY <2>0
  <2> HIDE DEF n, shift
  <2>3. QED
    BY <2>1, <2>2
<1> DEFINE i == s[m + 1]
<1>0. i \notin done /\ (\A j \in 1 .. m : j \in V <=> j \in W) /\ f[n + 1] = i
  BY DEF SameUpto
<1>1. /\ \A j \in 1 .. m + 1 : j \in 1 .. m \/ j = m + 1
      /\ \A j \in 1 .. m : j \in 1 .. m + 1 /\ s[j] \in Int /\ s[j] < i
      /\ m + 1 \in 1 .. m + 1 /\ i \in Int
  BY DEF Increasing
<1>2. /\ \A k \in 1 .. n + 1 : k \in 1 .. n \/ k = n + 1
      /\ \A k \in 1 .. n : k \in 1 .. n + 1 /\ k + shift \in 1 .. o
      /\ n + 1 \in 1 .. n + 1 /\ f[n + 1] = i
      /\ \A k, l \in 1 .. n : k < l => k + shift < l + shift
  BY <1>0
<1>3. /\ \A k \in 1 .. o : g[k] \in Int /\ g[k] \notin done /\ \E j \in 1 .. m : s[j] = g[k]
      /\ \A k, l \in 1 .. o : k < l => g[k] < g[l]
      /\ \A j \in 1 .. m, k \in 1 .. o :
            j \in W /\ s[j] > g[k] => s[j] \in done \/ \E l \in 1 .. o : g[l] = s[j]
  BY DEF Newest
<1> HIDE DEF i
<1>4. \A k \in 1 .. o : g[k] < i
  BY <1>1, <1>3
<1>5. ASSUME NEW k \in 1 .. n + 1
      PROVE  f[k] \notin done /\ \E j \in 1 .. m + 1 : s[j] = f[k]
  <2>1. CASE k = n + 1
    BY <1>0, <1>1, <1>2, <2>1 DEF i
  <2>2. CASE k \in 1 .. n
    <3>1. f[k] = g[k + shift] /\ k + shift \in 1 .. o
      BY <1>2, <2>2
    <3>2. QED
      BY <1>1, <1>3, <3>1
  <2>3. QED
    BY <1>2, <2>1, <2>2
<1>6. ASSUME NEW k \in 1 .. n + 1, NEW l \in 1 .. n + 1, k < l
      PROVE  f[k] < f[l]
  <2>1. k \in 1 .. n /\ f[k] = g[k + shift] /\ k + shift \in 1 .. o
    BY <1>2, <1>6
  <2>2. CASE l = n + 1
    BY <1>2, <1>4, <2>1, <2>2
  <2>3. CASE l \in 1 .. n
    <3>1. f[l] = g[l + shift] /\ l + shift \in 1 .. o /\ k + shift < l + shift
      BY <1>2, <1>6, <2>1, <2>3
    <3>2. QED
      BY <1>3, <2>1, <3>1
  <2>4. QED
    BY <1>2, <2>2, <2>3
<1>7. ASSUME NEW j \in 1 .. m + 1, NEW k \in 1 .. n + 1, j \in V, s[j] > f[k]
      PROVE  s[j] \in done \/ \E l \in 1 .. n + 1 : f[l] = s[j]
  <2>1. CASE j = m + 1
    BY <1>2, <2>1 DEF i
  <2>2. CASE j \in 1 .. m
    <3>1. s[j] < i /\ s[j] \in Int /\ i \in Int
      BY <1>1, <2>2
    <3>2. k # n + 1
      <4>1. SUFFICES ASSUME k = n + 1 PROVE FALSE
        OBVIOUS
      <4>2. f[k] = i
        BY <1>2, <4>1
      <4>3. s[j] > i
        BY <1>7, <4>2
      <4>4. QED
        BY <3>1, <4>3
    <3>3. f[k] = g[k + shift] /\ k + shift \in 1 .. o
      BY <1>2, <3>2
    <3>4. s[j] > g[k + shift]
      BY <1>7, <3>3
    <3>5. SUFFICES ASSUME NEW l \in 1 .. o, g[l] = s[j] PROVE \E h \in 1 .. n + 1 : f[h] = s[j]
      BY <1>0, <1>3, <1>7, <2>2, <3>3, <3>4
    <3>6. g[l] \in Int /\ g[k + shift] \in Int
      BY <1>3, <3>3
    <3>7. l # k + shift /\ ~(l < k + shift)
      <4>1. PICK h \in 1 .. o : h = k + shift
        BY <3>3
      <4>2. g[l] > g[h]
        BY <3>4, <3>5, <4>1
      <4>3. g[l] \in Int /\ g[h] \in Int
        BY <3>6, <4>1
      <4>4. l # h
        BY <4>2, <4>3
      <4>5. ~(l < h)
        BY <1>3, <4>2, <4>3
      <4>6. QED
        BY <4>1, <4>4, <4>5
    <3>8. l - shift \in 1 .. n /\ (l - shift) + shift = l
      BY <3>3, <3>7
    <3>9. f[l - shift] = g[l] /\ l - shift \in 1 .. n + 1
      BY <1>2, <3>8
    <3>10. QED
      BY <3>5, <3>9
  <2>3. QED
    BY <1>1, <2>1, <2>2
<1>8. QED
  BY <1>5, <1>6, <1>7 DEF Newest

LEMMA QueueCarry ==
    ASSUME NEW m, NEW ps, NEW qs, NEW q, NEW s, NEW t, NEW done,
           \A k \in 1 .. m : t[k] = s[k] /\ qs[s[k]] = ps[s[k]],
           Queue(ps, q, s, m, done)
    PROVE  Queue(qs, q, t, m, done)
<1>1. Wanting(qs, t, m) = Wanting(ps, s, m)
  BY DEF Wanting, WantsPin
<1>2. QED
  BY <1>1 DEF Queue, Newest

LEMMA QueueStep ==
    ASSUME posts \in Seq(Post), Len(posts) <= MaxPosts, NEW m \in Nat,
           NEW s \in [1 .. m + 1 -> DOMAIN posts], \A i, j \in 1 .. m + 1 : i < j => s[i] < s[j],
           NEW done, s[m + 1] \notin done,
           NEW d \in Desks, NEW debounced \in BOOLEAN,
           NEW q, q = Route(s[m + 1], d, debounced), Queue(posts, d.pins, s, m, done)
    PROVE  Queue(posts, q.pins, s, m + 1, done)
<1>1. PICK i \in DOMAIN posts : i = s[m + 1]
  BY m + 1 \in 1 .. m + 1
<1>2. \A j \in 1 .. m + 1 : s[j] \in Int /\ (j \in 1 .. m \/ j = m + 1) /\ (j \in 1 .. m => s[j] < i)
  <2>1. DOMAIN posts = 1 .. Len(posts)
    BY LenProperties
  <2>2. QED
    BY <1>1, <2>1
<1>3. i \in Int /\ i \in 1 .. MaxPosts
  <2>1. DOMAIN posts = 1 .. Len(posts) /\ Len(posts) \in Nat /\ MaxPosts \in Nat
    BY LenProperties, ChatPollerAssumption
  <2>2. QED
    BY <2>1
<1>4. q.pins = IF WantsPin(posts, i) THEN RequestPin(d.pins, i, Parse(posts[i].text).arg) ELSE d.pins
  BY <1>1, RouteIs
<1>5. PICK old, new : old \in Seq(Request) /\ old = d.pins /\ new = q.pins /\ Len(old) <= PinCap
  BY DEF Desks
<1> DEFINE W == Wanting(posts, s, m)
           V == Wanting(posts, s, m + 1)
           g == Requests(old)
           f == Requests(new)
<1>6. /\ s \in [1 .. m + 1 -> Int]
      /\ \A j \in 1 .. m : j \in V <=> j \in W
      /\ m + 1 \in V <=> WantsPin(posts, i)
  <2>1. \A j \in 1 .. m : j \in 1 .. m + 1
    OBVIOUS
  <2>2. QED
    BY <1>1, <1>2, <2>1 DEF Wanting
<1>7. Len(old) \in Nat /\ PinCap \in Nat \ {0} /\ g \in [1 .. Len(old) -> Int]
      /\ \A k \in 1 .. Len(old) : g[k] = old[k].post
  <2>1. Len(old) \in Nat /\ PinCap \in Nat \ {0}
    BY <1>5, LenProperties, AudienceAssumption
  <2>2. ASSUME NEW k \in 1 .. Len(old) PROVE old[k].post \in Int
    <3>1. old[k] \in Request
      BY <1>5, ElementOfSeq
    <3>2. QED
      BY <3>1 DEF Request
  <2>3. QED
    BY <2>1, <2>2 DEF Requests
<1>8. Newest(g, Len(old), s, m, done, W)
  BY <1>5 DEF Queue
<1>9. CASE ~WantsPin(posts, i)
  <2>1. new = old
    BY <1>4, <1>5, <1>9
  <2> HIDE DEF W, V, g, f
  <2>2. Newest(g, Len(old), s, m + 1, done, V)
    BY <1>6, <1>7, <1>8, <1>9, NewestWaits
  <2>3. QED
    BY <1>5, <2>1, <2>2 DEF Queue, V, g
<1>10. CASE WantsPin(posts, i)
  <2> DEFINE kept == IF Len(old) >= PinCap THEN SubSeq(old, 2, Len(old)) ELSE old
             last == [post |-> i, agent |-> Resolve(Parse(posts[i].text).arg)]
             n == Len(kept)
  <2> HIDE DEF W, V, g, f
  <2>1. new = Append(kept, last)
    BY <1>4, <1>5, <1>10 DEF RequestPin
  <2>3. PICK shift \in {0, 1} :
          /\ kept \in Seq(Request) /\ Len(kept) = Len(old) - shift /\ Len(kept) \in Nat
          /\ \A k \in 1 .. Len(kept) : kept[k] = old[k + shift] /\ k + shift \in 1 .. Len(old)
    <3>1. CASE Len(old) >= PinCap
      <4>1. kept \in Seq(Request) /\ Len(kept) = Len(old) - 1 /\ \A k \in 1 .. Len(old) - 1 : kept[k] = old[k + 1]
        BY <1>5, <1>7, <3>1, DropFirst
      <4> HIDE DEF kept
      <4>2. QED
        BY <1>7, <3>1, <4>1
    <3>2. CASE ~(Len(old) >= PinCap)
      BY <1>5, <1>7, <3>2
    <3>3. QED
      BY <3>1, <3>2
  <2>4. last \in Request /\ last.post = i
    BY <1>3 DEF Request, Resolve
  <2> HIDE DEF kept, last
  <2>5. /\ n \in Nat /\ Len(old) = n + shift /\ new \in Seq(Request)
        /\ Len(new) = n + 1 /\ new[n + 1] = last
        /\ \A k \in 1 .. n : new[k] = old[k + shift] /\ k + shift \in 1 .. Len(old)
    <3>1. /\ Append(kept, last) \in Seq(Request) /\ Len(Append(kept, last)) = Len(kept) + 1
          /\ Append(kept, last)[Len(kept) + 1] = last
          /\ \A k \in 1 .. Len(kept) : Append(kept, last)[k] = kept[k]
      BY <2>3, <2>4, AppendProperties
    <3>2. Len(old) = Len(kept) + shift
      BY <1>7, <2>3
    <3>3. QED
      BY <2>1, <2>3, <3>1, <3>2
  <2> HIDE DEF n
  <2>6. f \in [1 .. n + 1 -> Int] /\ \A k \in 1 .. n + 1 : f[k] = new[k].post
    <3>1. ASSUME NEW k \in 1 .. n + 1 PROVE new[k].post \in Int
      <4>1. new[k] \in Request
        BY <2>5, ElementOfSeq
      <4>2. QED
        BY <4>1 DEF Request
    <3>2. QED
      BY <2>5, <3>1 DEF Requests, f
  <2>7. f[n + 1] = s[m + 1] /\ \A k \in 1 .. n : f[k] = g[k + shift]
    <3>1. n + 1 \in 1 .. n + 1 /\ \A k \in 1 .. n : k \in 1 .. n + 1
      BY <2>5
    <3>2. f[n + 1] = s[m + 1]
      BY <1>1, <2>4, <2>5, <2>6, <3>1
    <3>3. QED
      BY <1>7, <2>5, <2>6, <3>1, <3>2
  <2>8. Newest(f, n + 1, s, m + 1, done, V)
    <3>1. PICK o, p, next : o \in Nat /\ p \in Nat \ {0} /\ o = Len(old) /\ p = n + 1 /\ next = m + 1
      BY <1>7, <2>5
    <3>2. /\ o \in {p - 1, p} /\ g \in [1 .. o -> Int] /\ f \in [1 .. p -> Int] /\ f[p] = s[next]
          /\ p - 1 = n /\ o - (p - 1) = shift /\ Newest(g, o, s, m, done, W)
          /\ s \in [1 .. next -> Int] /\ s[next] \notin done
      BY <1>6, <1>7, <1>8, <2>5, <2>6, <2>7, <3>1
    <3>3. Shifted(f, p, g, o)
      BY <2>7, <3>2 DEF Shifted
    <3>4. Increasing(s, next) /\ SameUpto(V, W, m)
      BY <1>6, <3>1 DEF Increasing, SameUpto
    <3> HIDE DEF W, V, g, f
    <3>5. Newest(f, p, s, next, done, V)
      BY <3>1, <3>2, <3>3, <3>4, NewestStep
    <3>6. QED
      BY <3>1, <3>5
  <2>9. QED
    BY <1>5, <2>5, <2>8 DEF Queue, V, f
<1>11. QED
  BY <1>9, <1>10

-------------------------------------------------------------------------------
(* The desks from message to message of a page.                            *)
IsPath(c, debounced) ==
    /\ c \in [0 .. Len(Page) -> Desks] /\ c[0] = Desk
    /\ \A k \in 1 .. Len(Page) : c[k] = Route(Page[k], c[k - 1], debounced)

LEMMA RoutedIs ==
    ASSUME posts \in Seq(Post), Len(posts) <= MaxPosts, Desk \in Desks, NEW debounced \in BOOLEAN
    PROVE  \E c : IsPath(c, debounced) /\ Routed(debounced) = c[Len(Page)]
<1> DEFINE n == Len(Page)
           R(h) == h = [T \in SUBSET (1 .. n) |->
                          IF T = {} THEN Desk ELSE Route(Page[Max(T)], h[T \ {Max(T)}], debounced)]
           step == [p \in (1 .. n) \X Desks |-> Route(Page[p[1]], p[2], debounced)]
<1>1. n \in Nat /\ DOMAIN Page = 1 .. n /\ \A i \in 1 .. n : Page[i] \in DOMAIN posts
  BY PageIs
<1>2. Routed(debounced) = (CHOOSE h : R(h))[1 .. n]
  BY <1>1 DEF Routed, FoldLeft, MapThenFoldSet
<1>3. step \in [(1 .. n) \X Desks -> Desks]
  <2>1. \A k \in 1 .. n, d \in Desks : Route(Page[k], d, debounced) \in Desks
    BY <1>1, RouteIs
  <2>2. QED
    BY <2>1
<1>4. \A k \in 1 .. n, d \in Desks : step[<<k, d>>] = Route(Page[k], d, debounced)
  OBVIOUS
<1>5. \E h : R(h)
  <2> HIDE DEF step, n
  <2>1. PICK h \in [SUBSET (1 .. n) -> Desks] : IsFold(h, Desk, step, n)
    BY <1>1, <1>3, FoldExists
  <2> DEFINE q(T) == IF T = {} THEN Desk ELSE step[<<Max(T), h[T \ {Max(T)}]>>]
             r(T) == IF T = {} THEN Desk ELSE Route(Page[Max(T)], h[T \ {Max(T)}], debounced)
  <2>2. \A T \in SUBSET (1 .. n) : q(T) = r(T)
    <3> TAKE T \in SUBSET (1 .. n)
    <3> SUFFICES ASSUME T # {} PROVE q(T) = r(T)
      OBVIOUS
    <3>1. Max(T) \in 1 .. n
      BY <1>1, MaxOfRange
    <3>2. h[T \ {Max(T)}] \in Desks
      OBVIOUS
    <3>3. QED
      BY <1>4, <3>1, <3>2
  <2>3. h = [T \in SUBSET (1 .. n) |-> q(T)]
    BY <2>1 DEF IsFold
  <2> HIDE DEF q, r
  <2>4. h = [T \in SUBSET (1 .. n) |-> r(T)]
    BY <2>2, <2>3
  <2>5. R(h)
    BY <2>4 DEF r
  <2> HIDE DEF R
  <2>6. QED
    BY <2>5
<1>6. PICK h : R(h) /\ Routed(debounced) = h[1 .. n]
  <2> HIDE DEF R
  <2>1. R(CHOOSE h : R(h))
    BY <1>5
  <2>2. QED
    BY <1>2, <2>1
<1>7. \A T \in SUBSET (1 .. n) :
        h[T] = IF T = {} THEN Desk ELSE Route(Page[Max(T)], h[T \ {Max(T)}], debounced)
  <2> DEFINE r(T) == IF T = {} THEN Desk ELSE Route(Page[Max(T)], h[T \ {Max(T)}], debounced)
  <2>1. h = [T \in SUBSET (1 .. n) |-> r(T)]
    BY <1>6
  <2> HIDE DEF r
  <2>2. \A T \in SUBSET (1 .. n) : h[T] = r(T)
    BY <2>1
  <2>3. QED
    BY <2>2 DEF r
<1> HIDE DEF R, step, n
<1> DEFINE c == [k \in 0 .. n |-> h[1 .. k]]
<1>8. c[0] = Desk /\ \A k \in 1 .. n : c[k] = Route(Page[k], c[k - 1], debounced)
  <2>1. 0 \in 0 .. n /\ 1 .. 0 = {} /\ {} \in SUBSET (1 .. n)
    BY <1>1
  <2>2. c[0] = Desk
    BY <1>7, <2>1
  <2>3. ASSUME NEW k \in 1 .. n PROVE c[k] = Route(Page[k], c[k - 1], debounced)
    <3>1. /\ 1 .. k \in SUBSET (1 .. n) /\ 1 .. k # {} /\ Max(1 .. k) = k
          /\ (1 .. k) \ {k} = 1 .. (k - 1)
      BY <1>1, Prefix
    <3>2. h[1 .. k] = Route(Page[k], h[1 .. (k - 1)], debounced)
      BY <1>7, <3>1
    <3>3. k \in 0 .. n /\ k - 1 \in 0 .. n
      BY <1>1
    <3>4. QED
      BY <3>2, <3>3
  <2>4. QED
    BY <2>2, <2>3
<1>9. c \in [0 .. n -> Desks]
  <2> DEFINE Good == {k \in 0 .. n : c[k] \in Desks}
  <2>1. 0 \in Good
    BY <1>1, <1>8
  <2>2. \A k \in 1 .. n : k - 1 \in Good => k \in Good
    <3> TAKE k \in 1 .. n
    <3>1. k \in 0 .. n
      BY <1>1
    <3> HIDE DEF c
    <3>2. c[k - 1] \in Desks => c[k] \in Desks
      BY <1>1, <1>8, RouteIs
    <3>3. QED
      BY <3>1, <3>2
  <2>3. \A k \in 0 .. n : k \in Good
    <3> HIDE DEF Good
    <3>1. QED
      BY <1>1, <2>1, <2>2, Reaches
  <2>4. QED
    BY <2>3
<1>10. h[1 .. n] = c[n]
  BY <1>1
<1> HIDE DEF c
<1>11. QED
  BY <1>6, <1>8, <1>9, <1>10 DEF IsPath, n

(* What becomes of the desks when a page is published.                     *)
LEMMA RoutedKeeps ==
    ASSUME posts \in Seq(Post), Len(posts) <= MaxPosts, Desk \in Desks, NEW debounced \in BOOLEAN,
           published \in Seq(DOMAIN posts), since \in 0 .. Len(published),
           NEW s, s = published \o Page, Increasing(s, Len(s)),
           NEW done, \A x \in done : \E k \in 1 .. Len(published) : published[k] = x,
           LastWord(posts, round, published, since, Len(published)),
           Queue(posts, pins, published, Len(published), done),
           NEW d, d = Routed(debounced)
    PROVE  /\ d \in Desks /\ Voted(round, d.round)
           /\ LastWord(posts, d.round, s, since, Len(s))
           /\ Queue(posts, d.pins, s, Len(s), done)
<1> DEFINE n == Len(Page)
           L == Len(published)
<1>1. PICK c : IsPath(c, debounced) /\ d = c[n]
  BY RoutedIs
<1>2. /\ n \in Nat /\ Page \in Seq(DOMAIN posts) /\ DOMAIN Page = 1 .. n
      /\ L \in Nat /\ DOMAIN posts \subseteq Int /\ DOMAIN published = 1 .. L
  <2>1. n \in Nat /\ Page \in Seq(DOMAIN posts) /\ DOMAIN Page = 1 .. n
    BY PageIs
  <2>2. L \in Nat /\ DOMAIN posts = 1 .. Len(posts) /\ DOMAIN published = 1 .. L
    BY LenProperties
  <2>3. QED
    BY <2>1, <2>2
<1>3. /\ s \in [1 .. L + n -> DOMAIN posts] /\ Len(s) = L + n
      /\ \A k \in 1 .. L : s[k] = published[k]
      /\ \A k \in 1 .. n : s[L + k] = Page[k]
  <2>1. /\ s \in Seq(DOMAIN posts) /\ Len(s) = L + n
        /\ \A k \in 1 .. L + n : s[k] = IF k <= L THEN published[k] ELSE Page[k - L]
    BY <1>2, ConcatProperties
  <2>2. s \in [1 .. Len(s) -> DOMAIN posts]
    BY <2>1, LenProperties
  <2>3. \A k \in 1 .. L : s[k] = published[k]
    BY <1>2, <2>1
  <2>4. \A k \in 1 .. n : s[L + k] = Page[k]
    <3> TAKE k \in 1 .. n
    <3>1. L + k \in 1 .. L + n /\ ~(L + k <= L) /\ (L + k) - L = k
      BY <1>2
    <3>2. QED
      BY <2>1, <3>1
  <2>5. QED
    BY <2>1, <2>2, <2>3, <2>4
<1> HIDE DEF n, L
<1>4. c \in [0 .. n -> Desks] /\ c[0] = Desk /\ \A k \in 1 .. n : c[k] = Route(Page[k], c[k - 1], debounced)
  BY <1>1 DEF IsPath, n
<1> DEFINE Good == {k \in 0 .. n : /\ Voted(round, c[k].round)
                                   /\ LastWord(posts, c[k].round, s, since, L + k)
                                   /\ Queue(posts, c[k].pins, s, L + k, done)}
<1>5. since \in 0 .. L
  BY DEF L
<1>6. 0 \in Good
  <2>1. c[0].round = round /\ c[0].pins = pins /\ L + 0 = L /\ 0 \in 0 .. n
    BY <1>2, <1>4 DEF Desk
  <2>2. Voted(round, round)
    BY DEF Voted
  <2>3. LastWord(posts, round, s, since, L)
    <3>1. since \in Nat /\ L \in Nat
      BY <1>2, <1>5
    <3>2. LastWord(posts, round, published, since, L)
      BY DEF L
    <3>3. QED
      BY <1>3, <3>1, <3>2, WordsCarry
  <2>4. Queue(posts, pins, s, L, done)
    <3>1. Queue(posts, pins, published, L, done)
      BY DEF L
    <3>2. QED
      BY <1>3, <3>1, QueueCarry
  <2>5. QED
    BY <2>1, <2>2, <2>3, <2>4
<1>7. ASSUME NEW k \in 1 .. n, k - 1 \in Good PROVE k \in Good
  <2>1. PICK m \in Nat, b \in Desks : m = L + (k - 1) /\ b = c[k - 1]
    <3>1. L + (k - 1) \in Nat /\ k - 1 \in 0 .. n
      BY <1>2
    <3>2. QED
      BY <1>4, <3>1
  <2>2. Voted(round, b.round) /\ LastWord(posts, b.round, s, since, m) /\ Queue(posts, b.pins, s, m, done)
    BY <1>7, <2>1
  <2>3. m + 1 = L + k /\ since \in 0 .. m /\ L + k \in 1 .. L + n /\ k \in 0 .. n /\ m + 1 \in 1 .. L + n
    BY <1>2, <1>5, <2>1
  <2>4. PICK q : q = Route(s[m + 1], b, debounced) /\ q = c[k]
    BY <1>3, <1>4, <2>1, <2>3
  <2>5. s[m + 1] \in DOMAIN posts
    BY <1>3, <2>3
  <2>6. LastWord(posts, q.round, s, since, m + 1)
    BY <2>2, <2>3, <2>4, <2>5, WordStep
  <2>7. Voted(b.round, q.round)
    BY <2>4, <2>5, RouteIs
  <2>8. Voted(round, q.round)
    BY <2>2, <2>7 DEF Voted
  <2>9. Queue(posts, q.pins, s, m + 1, done)
    <3> DEFINE t == [j \in 1 .. m + 1 |-> s[j]]
    <3>1. \A j \in 1 .. m + 1 : j \in 1 .. L + n
      BY <1>2, <2>3
    <3>2. t \in [1 .. m + 1 -> DOMAIN posts] /\ \A j \in 1 .. m + 1 : t[j] = s[j]
      BY <1>3, <3>1
    <3>3. \A j \in 1 .. m : j \in 1 .. m + 1
      OBVIOUS
    <3>4. m + 1 \in 1 .. m + 1
      OBVIOUS
    <3> HIDE DEF t
    <3>5. \A i, j \in 1 .. m + 1 : i < j => t[i] < t[j]
      BY <1>3, <3>1, <3>2 DEF Increasing
    <3>6. t[m + 1] \notin done
      <4> SUFFICES ASSUME t[m + 1] \in done PROVE FALSE
        OBVIOUS
      <4>1. PICK j \in 1 .. L : published[j] = t[m + 1]
        BY DEF L
      <4>2. j \in 1 .. m + 1 /\ j < m + 1 /\ t[j] = published[j]
        BY <1>2, <1>3, <2>1, <3>2
      <4>3. t[j] < t[m + 1] /\ t[j] \in Int
        BY <1>2, <3>2, <3>4, <3>5, <4>2
      <4>4. QED
        BY <4>1, <4>2, <4>3
    <3>7. Queue(posts, b.pins, t, m, done)
      <4>1. \A j \in 1 .. m : t[j] = s[j] /\ posts[s[j]] = posts[s[j]]
        BY <3>2, <3>3
      <4>2. QED
        BY <2>2, <4>1, QueueCarry
    <3>8. q = Route(t[m + 1], b, debounced)
      BY <2>4, <3>2, <3>4
    <3>9. Queue(posts, q.pins, t, m + 1, done)
      BY <3>2, <3>5, <3>6, <3>7, <3>8, QueueStep
    <3>10. \A j \in 1 .. m + 1 : s[j] = t[j] /\ posts[t[j]] = posts[t[j]]
      BY <3>2
    <3>11. QED
      BY <3>9, <3>10, QueueCarry, ZenonT(60)
  <2>10. QED
    BY <2>3, <2>4, <2>6, <2>8, <2>9
<1> HIDE DEF Good
<1>8. n \in Good
  <2>1. \A k \in 0 .. n : k \in Good
    BY <1>2, <1>6, <1>7, Reaches
  <2>2. QED
    BY <1>2, <2>1
<1>9. d \in Desks
  BY <1>1, <1>2, <1>4 DEF n
<1>10. QED
  BY <1>1, <1>3, <1>8, <1>9 DEF Good, n

-------------------------------------------------------------------------------
(* What the poller has published lies before its cursor once it is seeded. *)
PollerInv ==
    /\ PollerTypeOK
    /\ Increasing(published, Len(published))
    /\ seeded => \A k \in 1 .. Len(published) : published[k] <= cursor

LEMMA RefreshType ==
    ASSUME PollerTypeOK, NEW r \in RefreshResults
    PROVE  r.token \in {"none", "good", "dead"} /\ r.failures \in 0 .. FailCap + 1
           /\ r.circuit \in {"closed", "open"}
<1>1. FailCap \in Nat /\ failures \in 0 .. FailCap + 1 /\ token \in {"none", "good", "dead"}
      /\ circuit \in {"closed", "open"}
  BY ChatPollerAssumption DEF PollerTypeOK
<1>2. CASE r = Refused
  <2> DEFINE f == failures + 1
             g == IF f > FailCap THEN FailCap + 1 ELSE f
             o == IF f >= FailCap THEN "open" ELSE circuit
  <2>1. g \in 0 .. FailCap + 1 /\ o \in {"closed", "open"}
    BY <1>1
  <2>2. r = [token |-> token, failures |-> g, circuit |-> o]
    BY <1>2 DEF Refused, TokenState
  <2> HIDE DEF g, o
  <2>3. QED
    BY <1>1, <2>1, <2>2
<1>3. CASE r \in {TokenState("good", 0, "closed"), TokenState(token, failures, circuit),
                  TokenState(token, 0, "closed")}
  <2>1. 0 \in 0 .. FailCap + 1
    BY <1>1
  <2>2. QED
    BY <1>1, <1>3, <2>1 DEF TokenState
<1>4. QED
  BY <1>2, <1>3 DEF RefreshResults

TokenTypeOK ==
    token \in {"none", "good", "dead"} /\ failures \in 0 .. FailCap + 1 /\ circuit \in {"closed", "open"}

LEMMA TokenTypeIs == PollerTypeOK => TokenTypeOK
  BY DEF PollerTypeOK, TokenTypeOK

LEMMA GetType ==
    ASSUME PollerTypeOK, NEW answer, Get(answer)
    PROVE  TokenTypeOK'
<1>1. CASE KeepToken
  BY <1>1, TokenTypeIs DEF KeepToken, tokenVars, TokenTypeOK
<1>2. ASSUME NEW r \in RefreshResults, TakeToken(r) PROVE TokenTypeOK'
  BY <1>2, RefreshType DEF TakeToken, TokenTypeOK
<1>3. QED
  BY <1>1, <1>2 DEF Get

(* The steps that publish nothing and let nobody write.                    *)
QuietStep ==
    Wake \/ TokenAnswered \/ Discover \/ ChatGone \/ Seed \/ PollFails \/ TokenExpires
    \/ CircuitCools \/ TokenRevoked \/ GoLive \/ GoOffAir

LEMMA QuietInv ==
    ASSUME PollerInv, QuietStep
    PROVE  PollerInv' /\ posts' = posts /\ published' = published
<1> DEFINE ChatType == /\ at \in {"sleep", "token", "discover", "poll"} /\ chatId \in 0 .. MaxBroadcasts
                       /\ cursor \in 0 .. MaxPosts /\ seeded \in BOOLEAN
                       /\ onAir \in 0 .. MaxBroadcasts /\ broadcasts \in 0 .. MaxBroadcasts
                       /\ posts \in Seq(Post) /\ Len(posts) <= MaxPosts /\ published \in Seq(DOMAIN posts)
           Before == seeded => \A k \in 1 .. Len(published) : published[k] <= cursor
<1>1. /\ TokenTypeOK /\ ChatType /\ Before /\ MaxPosts \in Nat /\ MaxBroadcasts \in Nat /\ FailCap \in Nat
      /\ 0 \in 0 .. MaxPosts /\ 0 \in 0 .. MaxBroadcasts /\ 0 \in 0 .. FailCap + 1
  <2>1. MaxPosts \in Nat /\ MaxBroadcasts \in Nat /\ FailCap \in Nat
    BY ChatPollerAssumption
  <2>2. TokenTypeOK /\ ChatType /\ Before
    BY DEF PollerInv, PollerTypeOK, TokenTypeOK
  <2>3. QED
    BY <2>1, <2>2
<1>2. SUFFICES TokenTypeOK' /\ ChatType' /\ Before' /\ posts' = posts /\ published' = published
  BY DEF PollerInv, PollerTypeOK, TokenTypeOK
<1>3. CASE Wake
  BY <1>1, <1>3 DEF Wake, Proceed, tokenVars, chatVars, youtube, TokenTypeOK
<1>4. CASE TokenAnswered
  <2>1. PICK r \in RefreshResults : TakeToken(r)
    BY <1>4 DEF TokenAnswered
  <2>2. TokenTypeOK'
    BY <2>1, RefreshType DEF TakeToken, TokenTypeOK, PollerInv
  <2>3. at' \in {"sleep", "token", "discover", "poll"} /\ UNCHANGED <<chatVars, youtube, published>>
    BY <1>4 DEF TokenAnswered, Proceed, CycleDone
  <2>4. QED
    BY <1>1, <2>2, <2>3 DEF chatVars, youtube
<1>5. CASE Discover
  <2>1. TokenTypeOK'
    BY <1>5, GetType DEF Discover, PollerInv
  <2>2. /\ UNCHANGED <<youtube, published>>
        /\ \/ at' = "sleep" /\ UNCHANGED chatVars
           \/ at' = "poll" /\ chatId' = onAir /\ cursor' = 0 /\ seeded' = FALSE
    BY <1>5 DEF Discover, CycleDone
  <2>3. QED
    <3>1. CASE at' = "sleep" /\ UNCHANGED chatVars
      BY <1>1, <2>1, <2>2, <3>1 DEF chatVars, youtube
    <3>2. CASE at' = "poll" /\ chatId' = onAir /\ cursor' = 0 /\ seeded' = FALSE
      BY <1>1, <2>1, <2>2, <3>2 DEF youtube
    <3>3. QED
      BY <2>2, <3>1, <3>2
<1>6. CASE ChatGone
  <2>1. TokenTypeOK'
    BY <1>6, GetType DEF ChatGone, PollerInv
  <2>2. QED
    BY <1>1, <1>6, <2>1 DEF ChatGone, CycleDone, youtube
<1>7. CASE Seed
  <2>1. TokenTypeOK'
    BY <1>7, GetType DEF Seed, PollerInv
  <2>2. /\ cursor' = Len(posts) /\ seeded' = TRUE /\ at' = "sleep"
        /\ UNCHANGED <<chatId, onAir, broadcasts, posts, published>>
    BY <1>7 DEF Seed, CycleDone, PageEnd, youtube
  <2>3. Len(posts) \in 0 .. MaxPosts /\ DOMAIN posts = 1 .. Len(posts)
    BY <1>1, LenProperties
  <2>4. \A k \in 1 .. Len(published) : published[k] <= Len(posts)
    <3> TAKE k \in 1 .. Len(published)
    <3>1. published[k] \in DOMAIN posts
      BY <1>1, ElementOfSeq
    <3>2. QED
      BY <2>3, <3>1
  <2>5. Before' /\ ChatType'
    BY <1>1, <2>2, <2>3, <2>4
  <2>6. QED
    BY <2>1, <2>2, <2>5
<1>8. CASE PollFails
  <2>1. TokenTypeOK'
    BY <1>8, GetType DEF PollFails, PollerInv
  <2>2. QED
    BY <1>1, <1>8, <2>1 DEF PollFails, CycleDone, chatVars, youtube
<1>9. CASE TokenExpires \/ CircuitCools \/ TokenRevoked
  BY <1>1, <1>9 DEF TokenExpires, CircuitCools, TokenRevoked, TokenTypeOK, chatVars, youtube
<1>10. CASE GoLive
  <2>1. broadcasts + 1 \in 0 .. MaxBroadcasts
    BY <1>1, <1>10 DEF GoLive
  <2>2. QED
    BY <1>1, <1>10, <2>1 DEF GoLive, TokenTypeOK, tokenVars, chatVars
<1>11. CASE GoOffAir
  BY <1>1, <1>11 DEF GoOffAir, TokenTypeOK, tokenVars, chatVars
<1>12. QED
  BY <1>3, <1>4, <1>5, <1>6, <1>7, <1>8, <1>9, <1>10, <1>11 DEF QuietStep

LEMMA WritesInv ==
    ASSUME PollerInv, SomebodyWrites
    PROVE  /\ PollerInv' /\ published' = published
           /\ \A k \in 1 .. Len(published) : posts'[published[k]] = posts[published[k]]
<1>1. /\ onAir \in 1 .. MaxBroadcasts /\ posts \in Seq(Post) /\ Len(posts) < MaxPosts
      /\ Len(posts) \in Nat /\ DOMAIN posts = 1 .. Len(posts) /\ MaxPosts \in Nat
  BY LenProperties, ChatPollerAssumption DEF PollerInv, PollerTypeOK, SomebodyWrites
<1>2. PICK user \in Users, text \in Texts :
        posts' = Append(posts, [broadcast |-> onAir, user |-> user, text |-> text])
  BY DEF SomebodyWrites
<1>3. [broadcast |-> onAir, user |-> user, text |-> text] \in Post
  BY <1>1 DEF Post
<1>4. /\ posts' \in Seq(Post) /\ Len(posts') = Len(posts) + 1
      /\ \A k \in 1 .. Len(posts) : posts'[k] = posts[k]
  BY <1>1, <1>2, <1>3, AppendProperties
<1>5. published \in Seq(DOMAIN posts) /\ published' = published /\ Len(published) \in Nat
      /\ \A k \in 1 .. Len(published) : published[k] \in 1 .. Len(posts)
  BY <1>1, ElementOfSeq, LenProperties DEF PollerInv, PollerTypeOK, SomebodyWrites
<1>6. published \in Seq(DOMAIN posts')
  <2>1. DOMAIN posts' = 1 .. Len(posts) + 1
    BY <1>4, LenProperties
  <2>2. \A k \in 1 .. Len(published) : published[k] \in DOMAIN posts'
    BY <1>1, <1>5, <2>1
  <2>3. published = [k \in 1 .. Len(published) |-> published[k]]
    BY <1>5, LenProperties
  <2>4. QED
    BY <1>5, <2>2, <2>3, IsASeq
<1>7. PollerTypeOK'
  <2>1. Len(posts') <= MaxPosts
    BY <1>1, <1>4
  <2>2. UNCHANGED <<at, token, failures, circuit, chatId, cursor, seeded, onAir, broadcasts>>
    BY DEF SomebodyWrites, tokenVars, chatVars
  <2>3. QED
    BY <1>4, <1>5, <1>6, <2>1, <2>2 DEF PollerInv, PollerTypeOK
<1>8. seeded' = seeded /\ cursor' = cursor
  BY DEF SomebodyWrites, chatVars
<1>9. QED
  BY <1>4, <1>5, <1>7, <1>8 DEF PollerInv

LEMMA PublishInv ==
    ASSUME PollerInv, Publish
    PROVE  PollerInv' /\ posts' = posts /\ published' = published \o Page
<1>1. /\ posts \in Seq(Post) /\ Len(posts) <= MaxPosts /\ published \in Seq(DOMAIN posts)
      /\ Len(posts) \in Nat /\ DOMAIN posts = 1 .. Len(posts) /\ Len(published) \in Nat /\ MaxPosts \in Nat
  BY LenProperties, ChatPollerAssumption DEF PollerInv, PollerTypeOK
<1>2. /\ cursor' = Len(posts) /\ published' = published \o Page /\ at' = "sleep" /\ seeded
      /\ UNCHANGED <<chatId, seeded, onAir, broadcasts, posts>>
  BY DEF Publish, PageEnd, CycleDone, youtube
<1>3. TokenTypeOK'
  BY GetType DEF Publish, PollerInv
<1> DEFINE n == Len(Page)
           L == Len(published)
           s == published \o Page
<1>4. /\ n \in Nat /\ Page \in Seq(DOMAIN posts)
      /\ \A i, j \in 1 .. n : i < j => Page[i] < Page[j]
      /\ \A i \in 1 .. n : Page[i] \in 1 .. Len(posts) /\ Page[i] > cursor
  BY <1>1, PageIs
<1>5. /\ s \in Seq(DOMAIN posts) /\ Len(s) = L + n
      /\ \A k \in 1 .. L + n : s[k] = IF k <= L THEN published[k] ELSE Page[k - L]
  BY <1>1, <1>4, ConcatProperties
<1>6. \A k \in 1 .. L + n : s[k] \in 1 .. Len(posts)
  BY <1>1, <1>5, ElementOfSeq
<1>7. /\ \A k \in 1 .. L : published[k] \in 1 .. Len(posts) /\ published[k] <= cursor
      /\ \A i, j \in 1 .. L : i < j => published[i] < published[j]
  BY <1>1, <1>2, ElementOfSeq DEF PollerInv, Increasing
<1>8. cursor \in Int
  BY DEF PollerInv, PollerTypeOK
<1> HIDE DEF n, L, s
<1>9. L \in Nat
  BY <1>1 DEF L
<1>10. ASSUME NEW i \in 1 .. L + n, NEW j \in 1 .. L + n, i < j PROVE s[i] < s[j]
  <2>1. CASE j <= L
    <3>1. i \in 1 .. L /\ j \in 1 .. L /\ i <= L
      BY <1>4, <1>9, <1>10, <2>1
    <3>2. s[i] = published[i] /\ s[j] = published[j]
      BY <1>5, <2>1, <3>1
    <3>3. QED
      BY <1>7, <1>10, <3>1, <3>2
  <2>2. CASE ~(j <= L) /\ i <= L
    <3>1. i \in 1 .. L /\ j - L \in 1 .. n
      BY <1>4, <1>9, <1>10, <2>2
    <3>2. s[i] = published[i] /\ s[j] = Page[j - L]
      BY <1>5, <2>2
    <3>3. published[i] <= cursor /\ Page[j - L] > cursor /\ published[i] \in Int /\ Page[j - L] \in Int
      BY <1>4, <1>7, <3>1
    <3>4. QED
      BY <1>8, <3>2, <3>3
  <2>3. CASE ~(j <= L) /\ ~(i <= L)
    <3>1. i - L \in 1 .. n /\ j - L \in 1 .. n /\ i - L < j - L
      BY <1>4, <1>9, <1>10, <2>3
    <3>2. s[i] = Page[i - L] /\ s[j] = Page[j - L]
      BY <1>5, <2>3
    <3>3. QED
      BY <1>4, <3>1, <3>2
  <2>4. QED
    BY <2>1, <2>2, <2>3
<1>11. published' = s
  BY <1>2 DEF s
<1>12. PollerTypeOK'
  <2>1. cursor' \in 0 .. MaxPosts
    BY <1>1, <1>2
  <2>2. UNCHANGED <<chatId, seeded, onAir, broadcasts, posts>> /\ at' = "sleep"
    BY <1>2
  <2>3. QED
    BY <1>3, <1>5, <1>11, <2>1, <2>2 DEF PollerInv, PollerTypeOK, TokenTypeOK
<1>13. Increasing(published', Len(published'))
  BY <1>5, <1>10, <1>11 DEF Increasing
<1>14. \A k \in 1 .. Len(published') : published'[k] <= cursor'
  BY <1>1, <1>2, <1>5, <1>6, <1>11
<1>15. QED
  BY <1>2, <1>12, <1>13, <1>14 DEF PollerInv

(* There are at most as many publications as messages.                     *)
LEMMA IncreasingIsShort ==
    ASSUME NEW m \in Nat, NEW s \in Seq(1 .. m), Increasing(s, Len(s))
    PROVE  Len(s) <= m
<1> DEFINE n == Len(s)
           Good == {k \in 0 .. n : k = 0 \/ k <= s[k]}
<1>1. n \in Nat /\ \A k \in 1 .. n : s[k] \in 1 .. m
  BY LenProperties, ElementOfSeq
<1>2. 0 \in Good
  BY <1>1
<1>3. ASSUME NEW k \in 1 .. n, k - 1 \in Good PROVE k \in Good
  <2>1. k \in 0 .. n /\ s[k] \in Int /\ s[k] >= 1
    BY <1>1
  <2>2. CASE k = 1
    BY <2>1, <2>2
  <2>3. CASE k # 1
    <3>1. k - 1 \in 1 .. n /\ k - 1 < k
      BY <1>1, <2>3
    <3>2. s[k - 1] < s[k] /\ s[k - 1] \in Int
      BY <1>1, <3>1 DEF Increasing
    <3>3. k - 1 <= s[k - 1]
      BY <1>3, <2>3
    <3>4. QED
      BY <2>1, <3>2, <3>3
  <2>4. QED
    BY <2>2, <2>3
<1>4. n \in Good
  <2>1. \A k \in 0 .. n : k \in Good
    <3> HIDE DEF Good, n
    <3>1. QED
      BY <1>1, <1>2, <1>3, Reaches
  <2>2. QED
    BY <1>1, <2>1
<1>5. n = 0 \/ (n \in 1 .. n /\ n <= s[n])
  BY <1>1, <1>4
<1>6. QED
  BY <1>1, <1>5

-------------------------------------------------------------------------------
(* A request that is resolved leaves the queue.                            *)
LEMMA NewestRemoved ==
    ASSUME NEW m \in Nat, NEW s, NEW done, NEW W,
           NEW n \in Nat, NEW f \in [1 .. n -> Int], NEW p \in 1 .. n, Newest(f, n, s, m, done, W),
           NEW g, \A k \in 1 .. n - 1 : g[k] = IF k < p THEN f[k] ELSE f[k + 1]
    PROVE  Newest(g, n - 1, s, m, done \cup {f[p]}, W)
<1>1. \A k \in 1 .. n - 1 : \E l \in 1 .. n : l # p /\ g[k] = f[l] /\ l = IF k < p THEN k ELSE k + 1
  <2> TAKE k \in 1 .. n - 1
  <2>1. k \in 1 .. n /\ k + 1 \in 1 .. n /\ (k < p => k # p) /\ (~(k < p) => k + 1 # p)
    OBVIOUS
  <2>2. QED
    BY <2>1
<1>2. \A l \in 1 .. n : l # p => \E k \in 1 .. n - 1 : g[k] = f[l]
  <2> SUFFICES ASSUME NEW l \in 1 .. n, l # p PROVE \E k \in 1 .. n - 1 : g[k] = f[l]
    OBVIOUS
  <2>1. CASE l < p
    <3>1. l \in 1 .. n - 1
      BY <2>1
    <3>2. QED
      BY <2>1, <3>1
  <2>2. CASE l > p
    <3>1. l - 1 \in 1 .. n - 1 /\ ~(l - 1 < p) /\ (l - 1) + 1 = l
      BY <2>2
    <3>2. g[l - 1] = f[l]
      BY <3>1
    <3>3. QED
      BY <3>1, <3>2
  <2>3. QED
    BY <2>1, <2>2
<1>3. /\ \A k \in 1 .. n : f[k] \notin done /\ f[k] \in Int /\ \E j \in 1 .. m : s[j] = f[k]
      /\ \A k, l \in 1 .. n : k < l => f[k] < f[l]
      /\ \A j \in 1 .. m, k \in 1 .. n :
            j \in W /\ s[j] > f[k] => s[j] \in done \/ \E l \in 1 .. n : f[l] = s[j]
  BY DEF Newest
<1>4. ASSUME NEW k \in 1 .. n - 1 PROVE \E j \in 1 .. m : s[j] = g[k]
  <2>1. PICK l \in 1 .. n : g[k] = f[l]
    BY <1>1, Zenon
  <2>2. \E j \in 1 .. m : s[j] = f[l]
    BY <1>3, Zenon
  <2>3. QED
    BY <2>1, <2>2, Zenon
<1>5. ASSUME NEW k \in 1 .. n - 1, NEW l \in 1 .. n - 1, k < l PROVE g[k] < g[l]
  <2>1. PICK a \in 1 .. n : g[k] = f[a] /\ a = IF k < p THEN k ELSE k + 1
    BY <1>1
  <2>2. PICK b \in 1 .. n : g[l] = f[b] /\ b = IF l < p THEN l ELSE l + 1
    BY <1>1
  <2>3. a < b
    BY <1>5, <2>1, <2>2
  <2>4. QED
    BY <1>3, <2>1, <2>2, <2>3
<1>6. \A l \in 1 .. n : l # p => f[l] # f[p]
  <2> SUFFICES ASSUME NEW l \in 1 .. n, l # p PROVE f[l] # f[p]
    OBVIOUS
  <2>1. l < p \/ p < l
    OBVIOUS
  <2>2. f[l] < f[p] \/ f[p] < f[l]
    BY <1>3, <2>1
  <2>3. QED
    BY <1>3, <2>2
<1>7. \A k \in 1 .. n - 1 : g[k] \notin done \cup {f[p]}
  BY <1>1, <1>3, <1>6
<1>8. \A j \in 1 .. m, k \in 1 .. n - 1 :
        j \in W /\ s[j] > g[k] =>
          s[j] \in done \cup {f[p]} \/ \E l \in 1 .. n - 1 : g[l] = s[j]
  <2> SUFFICES ASSUME NEW j \in 1 .. m, NEW k \in 1 .. n - 1, j \in W, s[j] > g[k],
                      s[j] \notin done \cup {f[p]}
               PROVE  \E l \in 1 .. n - 1 : g[l] = s[j]
    OBVIOUS
  <2>1. PICK a \in 1 .. n : g[k] = f[a]
    BY <1>1
  <2>2. PICK l \in 1 .. n : f[l] = s[j]
    BY <1>3, <2>1
  <2>3. l # p
    BY <2>2
  <2>4. QED
    BY <1>2, <2>2, <2>3
<1>9. QED
  BY <1>4, <1>5, <1>7, <1>8 DEF Newest

-------------------------------------------------------------------------------
Done(p) == {p[k].post : k \in 1 .. Len(p)}
ResolvedApart(p) == \A i, j \in 1 .. Len(p) : p[i].post = p[j].post => i = j

PinsInv ==
    /\ pins \in Seq(Request) /\ Len(pins) <= PinCap /\ pinned \in Seq(Resolution)
    /\ Queue(posts, pins, published, Len(published), Done(pinned))
    /\ \A x \in Done(pinned) : \E k \in 1 .. Len(published) : published[k] = x
    /\ ResolvedApart(pinned)
MoodsInv == moods \in Seq(Directions) /\ Len(moods) <= MaxMoods
WordsInv ==
    /\ since \in 0 .. Len(published)
    /\ LastWord(posts, round, published, since, Len(published))
AudienceInv == PollerInv /\ BoardInv /\ WordsInv /\ PinsInv /\ MoodsInv

(* A new board has nobody's word yet.                                      *)
LEMMA FreshWords ==
    ASSUME NEW ps, NEW s, NEW m \in Nat
    PROVE  LastWord(ps, FreshRound, s, m, m)
<1>1. m + 1 .. m = {}
  OBVIOUS
<1>2. \A id \in Ids, v \in Voters : WordsOf(ps, s, m, m, id, v) = {}
  BY <1>1 DEF WordsOf
<1>3. QED
  BY <1>2, FreshIsOpen DEF LastWord

LEMMA InitInv == Init => AudienceInv
<1> SUFFICES ASSUME Init PROVE AudienceInv
  OBVIOUS
<1>1. /\ posts = <<>> /\ published = <<>> /\ pins = <<>> /\ pinned = <<>> /\ moods = <<>> /\ since = 0
      /\ round = FreshRound
  BY DEF Init, PollerInit, PredictionsInit
<1>2. Len(<<>>) = 0 /\ 1 .. 0 = {} /\ \A S : <<>> \in Seq(S)
  OBVIOUS
<1>3. BoardInv
  BY InitBoard DEF Init
<1>4. PollerInv
  <2>1. 0 \in 0 .. MaxPosts /\ 0 \in 0 .. MaxBroadcasts /\ 0 \in 0 .. FailCap + 1 /\ 0 <= MaxPosts
    BY ChatPollerAssumption
  <2>2. PollerTypeOK
    BY <1>1, <1>2, <2>1 DEF Init, PollerInit, FreshPoller, PollerTypeOK
  <2>3. Increasing(published, Len(published))
    BY <1>1, <1>2 DEF Increasing
  <2>4. ~seeded
    BY DEF Init, PollerInit, FreshPoller
  <2>5. QED
    BY <2>2, <2>3, <2>4 DEF PollerInv
<1>5. PinsInv
  <2>1. 0 <= PinCap
    <3>1. PinCap \in Nat \ {0}
      BY AudienceAssumption
    <3>2. QED
      BY <3>1
  <2>2. Queue(posts, pins, published, Len(published), Done(pinned))
    BY <1>1, <1>2 DEF Queue, Newest
  <2>3. Done(pinned) = {} /\ ResolvedApart(pinned)
    BY <1>1, <1>2 DEF Done, ResolvedApart
  <2>4. QED
    BY <1>1, <1>2, <2>1, <2>2, <2>3 DEF PinsInv
<1>6. MoodsInv
  <2>1. MaxMoods \in Nat
    BY AudienceAssumption
  <2>2. QED
    BY <1>1, <1>2, <2>1 DEF MoodsInv
<1>7. WordsInv
  BY <1>1, <1>2, FreshWords DEF WordsInv
<1>8. QED
  BY <1>3, <1>4, <1>5, <1>6, <1>7 DEF AudienceInv

LEMMA PublishKeeps ==
    ASSUME AudienceInv, PublishAndRoute
    PROVE  AudienceInv' /\ Voted(round, round')
<1>1. /\ PollerInv' /\ posts' = posts /\ published' = published \o Page
      /\ UNCHANGED <<clockVars, dated, lastReset, baseline, since, pinned>>
  BY PublishInv DEF AudienceInv, PublishAndRoute
<1>2. PICK debounced \in BOOLEAN :
        /\ round' = Routed(debounced).round /\ pins' = Routed(debounced).pins
        /\ moods' = Routed(debounced).moods /\ Len(Routed(debounced).moods) <= MaxMoods
  BY DEF PublishAndRoute
<1>3. /\ posts \in Seq(Post) /\ Len(posts) <= MaxPosts /\ published \in Seq(DOMAIN posts)
      /\ since \in 0 .. Len(published) /\ Len(published) \in Nat
  BY LenProperties DEF AudienceInv, PollerInv, PollerTypeOK, WordsInv
<1>4. Desk \in Desks
  BY DEF AudienceInv, BoardInv, BoardTypeOK, PinsInv, MoodsInv, Desk, Desks
<1>5. PICK s, done, d :
        /\ s = published \o Page /\ done = Done(pinned) /\ d = Routed(debounced)
        /\ s = published'
  BY <1>1
<1>6. Increasing(s, Len(s))
  BY <1>1, <1>5 DEF PollerInv
<1>7. /\ \A x \in done : \E k \in 1 .. Len(published) : published[k] = x
      /\ LastWord(posts, round, published, since, Len(published))
      /\ Queue(posts, pins, published, Len(published), done)
  BY <1>5 DEF AudienceInv, WordsInv, PinsInv
<1>8. /\ d \in Desks /\ Voted(round, d.round)
      /\ LastWord(posts, d.round, s, since, Len(s))
      /\ Queue(posts, d.pins, s, Len(s), done)
  BY <1>3, <1>4, <1>5, <1>6, <1>7, RoutedKeeps
<1>9. /\ d.round \in Rounds /\ d.pins \in Seq(Request) /\ Len(d.pins) <= PinCap
      /\ d.moods \in Seq(Directions)
  BY <1>8 DEF Desks
<1>10. round' = d.round /\ pins' = d.pins /\ moods' = d.moods /\ Len(d.moods) <= MaxMoods
  BY <1>2, <1>5
<1>11. BoardInv'
  BY <1>1, <1>8, <1>9, <1>10, VotedInv DEF AudienceInv
<1>12. /\ Len(published) <= Len(s) /\ Len(s) \in Nat
       /\ \A k \in 1 .. Len(published) : k \in 1 .. Len(s) /\ s[k] = published[k]
  <2>1. Page \in Seq(DOMAIN posts) /\ Len(Page) \in Nat
    BY <1>3, PageIs
  <2>2. /\ Len(s) = Len(published) + Len(Page)
        /\ \A k \in 1 .. Len(published) + Len(Page) :
             s[k] = IF k <= Len(published) THEN published[k] ELSE Page[k - Len(published)]
    BY <1>3, <1>5, <2>1, ConcatProperties
  <2>3. QED
    BY <1>3, <2>1, <2>2
<1>13. WordsInv'
  <2>1. since \in 0 .. Len(s)
    BY <1>3, <1>12
  <2>2. QED
    BY <1>1, <1>5, <1>8, <1>10, <2>1 DEF WordsInv
<1>14. PinsInv'
  <2>1. \A x \in done : \E k \in 1 .. Len(s) : s[k] = x
    BY <1>7, <1>12
  <2>2. pinned' = pinned /\ pinned \in Seq(Resolution) /\ ResolvedApart(pinned)
    BY <1>1 DEF AudienceInv, PinsInv
  <2>3. QED
    BY <1>1, <1>5, <1>8, <1>9, <1>10, <2>1, <2>2 DEF PinsInv
<1>15. MoodsInv'
  BY <1>9, <1>10 DEF MoodsInv
<1>16. QED
  BY <1>1, <1>8, <1>10, <1>11, <1>13, <1>14, <1>15 DEF AudienceInv

LEMMA ResolveKeeps ==
    ASSUME AudienceInv, NEW i \in DOMAIN posts, NEW how \in {"approved", "rejected"},
           NEW override \in Agents \cup {Unknown}, ResolvePin(i, how, override)
    PROVE  AudienceInv'
<1>1. /\ posts \in Seq(Post) /\ Len(posts) <= MaxPosts /\ DOMAIN posts = 1 .. Len(posts) /\ Len(posts) \in Nat
      /\ MaxPosts \in Nat /\ pins \in Seq(Request) /\ Len(pins) <= PinCap /\ Len(pins) \in Nat /\ DOMAIN pins = 1 .. Len(pins)
      /\ pinned \in Seq(Resolution) /\ Len(pinned) \in Nat /\ PinCap \in Nat /\ Len(published) \in Nat
      /\ published \in Seq(DOMAIN posts)
  BY LenProperties, ChatPollerAssumption, AudienceAssumption DEF AudienceInv, PollerInv, PollerTypeOK, PinsInv
<1>2. PICK p, r, q :
        /\ p \in 1 .. Len(pins) /\ pins[p].post = i /\ q = RemoveAt(pins, p) /\ q = pins'
        /\ r = [post |-> i, how |-> how, agent |-> IF override # Unknown THEN override ELSE pins[p].agent]
        /\ pinned' = Append(pinned, r)
  <2>1. PinOf(i) \in DOMAIN pins /\ pins[PinOf(i)].post = i
    BY DEF ResolvePin, Pending, PinOf
  <2>2. QED
    BY <1>1, <2>1 DEF ResolvePin, WithoutRequest
<1>3. UNCHANGED <<pollerVars, predictionVars, since, moods>>
  BY SMTT(30) DEF ResolvePin
<1>4. /\ q \in Seq(Request) /\ Len(q) = Len(pins) - 1
      /\ \A k \in 1 .. Len(pins) - 1 : q[k] = IF k < p THEN pins[k] ELSE pins[k + 1]
  BY <1>1, <1>2, RemoveAtIs, ZenonT(30)
<1>5. r \in Resolution /\ r.post = i
  <2>1. pins[p] \in Request
    BY <1>1, <1>2, ElementOfSeq
  <2>2. i \in 1 .. MaxPosts
    BY <1>1
  <2>3. QED
    BY <1>2, <2>1, <2>2 DEF Resolution, Request
<1>6. PICK z \in Seq(Resolution) :
        /\ z = pinned' /\ Len(z) = Len(pinned) + 1 /\ z[Len(pinned) + 1] = r
        /\ \A k \in 1 .. Len(pinned) : z[k] = pinned[k]
  <2>1. PICK z : z = Append(pinned, r)
    OBVIOUS
  <2>2. /\ z \in Seq(Resolution) /\ Len(z) = Len(pinned) + 1 /\ z[Len(pinned) + 1] = r
        /\ \A k \in 1 .. Len(pinned) : z[k] = pinned[k]
    BY <1>1, <1>5, <2>1, AppendProperties
  <2>3. QED
    BY <1>2, <2>1, <2>2
<1> DEFINE done == Done(pinned)
<1>7. Done(z) = done \cup {i}
  <2>1. \A k \in Int : k \in 1 .. Len(z) <=> k \in 1 .. Len(pinned) \/ k = Len(pinned) + 1
    BY <1>1, <1>6
  <2>2. QED
    BY <1>5, <1>6, <2>1 DEF Done
<1> DEFINE s == published
           m == Len(published)
           W == Wanting(posts, s, m)
           f == Requests(pins)
           g == Requests(q)
<1>8. Newest(f, Len(pins), s, m, done, W)
  BY DEF AudienceInv, PinsInv, Queue
<1>9. /\ f \in [1 .. Len(pins) -> Int] /\ \A k \in 1 .. Len(pins) : f[k] = pins[k].post
  <2>1. ASSUME NEW k \in 1 .. Len(pins) PROVE pins[k].post \in Int
    <3>1. pins[k] \in Request
      BY <1>1, ElementOfSeq
    <3>2. QED
      BY <3>1 DEF Request
  <2>2. QED
    BY <2>1 DEF Requests
<1>10. \A k \in 1 .. Len(pins) - 1 : g[k] = IF k < p THEN f[k] ELSE f[k + 1]
  <2> TAKE k \in 1 .. Len(pins) - 1
  <2>1. g[k] = q[k].post
    BY <1>4 DEF Requests
  <2>2. k \in 1 .. Len(pins) /\ k + 1 \in 1 .. Len(pins)
    BY <1>1
  <2>3. QED
    BY <1>4, <1>9, <2>1, <2>2
<1>11. f[p] = i
  BY <1>2, <1>9
<1>12. Newest(g, Len(pins) - 1, s, m, done \cup {i}, W)
  <2> HIDE DEF f, g, W, done
  <2>1. Newest(g, Len(pins) - 1, s, m, done \cup {f[p]}, W)
    BY <1>1, <1>2, <1>8, <1>9, <1>10, NewestRemoved
  <2>2. QED
    BY <1>11, <2>1
<1>13. Queue(posts, q, published, Len(published), Done(z))
  BY <1>4, <1>7, <1>12 DEF Queue
<1>14. i \notin done /\ \E k \in 1 .. m : s[k] = i
  BY <1>2, <1>8, <1>11 DEF Newest
<1>15. \A x \in Done(z) : \E k \in 1 .. Len(published) : published[k] = x
  <2>1. \A x \in done : \E k \in 1 .. Len(published) : published[k] = x
    BY DEF AudienceInv, PinsInv
  <2>2. QED
    BY <1>7, <1>14, <2>1
<1>16. ResolvedApart(z)
  <2>1. \A k \in 1 .. Len(z) : k \in 1 .. Len(pinned) \/ k = Len(pinned) + 1
    BY <1>1, <1>6
  <2>2. ResolvedApart(pinned)
    BY DEF AudienceInv, PinsInv
  <2>3. \A k \in 1 .. Len(pinned) : pinned[k].post # i
    BY <1>14 DEF Done
  <2>4. \A k \in 1 .. Len(pinned) : z[k].post # z[Len(pinned) + 1].post
    BY <1>5, <1>6, <2>3
  <2>5. QED
    BY <1>6, <2>1, <2>2, <2>4 DEF ResolvedApart
<1>17. Len(q) <= PinCap
  BY <1>1, <1>4
<1>18. UNCHANGED <<posts, published, round, since, moods>>
  BY <1>3 DEF pollerVars, youtube, predictionVars, boardVars
<1>19. PinsInv'
  BY <1>2, <1>4, <1>6, <1>13, <1>15, <1>16, <1>17, <1>18 DEF PinsInv
<1>20. PollerInv'
  BY <1>3 DEF AudienceInv, PollerInv, PollerTypeOK, pollerVars, tokenVars, chatVars, youtube
<1>21. BoardInv'
  BY <1>3, BoardUnchanged DEF AudienceInv
<1>22. WordsInv' /\ MoodsInv'
  BY <1>18 DEF AudienceInv, WordsInv, MoodsInv
<1>23. QED
  BY <1>19, <1>20, <1>21, <1>22 DEF AudienceInv

-------------------------------------------------------------------------------
(* What the board never does in one step, whoever takes it.                *)
Frozen ==
    \A id \in Ids :
        /\ round[id].status # "open" /\ round'[id].status # "open" =>
              round'[id].voters = round[id].voters
        /\ round[id].status = "revealed" /\ round'[id].status # "open" =>
              round'[id] = round[id]
        /\ dated > day /\ ticked /\ ticked' =>
              \A v \in Voters : round[id].voters[v] # Unknown => round'[id].voters[v] # Unknown

(* A step of the poller alone changes nothing but what it publishes.       *)
LEMMA PollerStepKeeps ==
    ASSUME AudienceInv, PollerInv', UNCHANGED <<audienceVars, published>>,
           \A k \in 1 .. Len(published) : posts'[published[k]] = posts[published[k]]
    PROVE  AudienceInv'
<1>1. UNCHANGED <<predictionVars, round, since, pins, pinned, moods, published>>
  BY DEF audienceVars, pinVars, predictionVars, boardVars
<1>2. BoardInv'
  BY <1>1, BoardUnchanged DEF AudienceInv
<1>3. Len(published) \in Nat
  BY LenProperties DEF AudienceInv, PollerInv, PollerTypeOK
<1>4. PICK ps : ps = posts'
  OBVIOUS
<1>5. \A k \in 1 .. Len(published) : published[k] = published[k] /\ ps[published[k]] = posts[published[k]]
  BY <1>4
<1>6. LastWord(ps, round, published, since, Len(published))
  <2>1. since \in Nat /\ LastWord(posts, round, published, since, Len(published))
    BY <1>3 DEF AudienceInv, WordsInv
  <2>2. QED
    BY <1>3, <1>5, <2>1, WordsCarry
<1>7. Queue(ps, pins, published, Len(published), Done(pinned))
  <2>1. PICK done : done = Done(pinned)
    OBVIOUS
  <2>2. Queue(posts, pins, published, Len(published), done)
    BY <2>1 DEF AudienceInv, PinsInv
  <2>3. Queue(ps, pins, published, Len(published), done)
    BY <1>5, <2>2, QueueCarry
  <2>4. QED
    BY <2>1, <2>3
<1>8. WordsInv'
  BY <1>1, <1>4, <1>6 DEF AudienceInv, WordsInv
<1>9. PinsInv'
  BY <1>1, <1>4, <1>7 DEF AudienceInv, PinsInv
<1>10. MoodsInv'
  BY <1>1 DEF AudienceInv, MoodsInv
<1>11. QED
  BY <1>2, <1>8, <1>9, <1>10 DEF AudienceInv

LEMMA StillFrozen == UNCHANGED <<round, part>> => Frozen
  BY DEF Frozen

LEMMA TickStep ==
    ASSUME AudienceInv, BoardTicks, since' = IF dated' # dated THEN Len(published) ELSE since,
           UNCHANGED <<pollerVars, pinVars, moods>>
    PROVE  AudienceInv' /\ Frozen
<1>1. BoardInv' /\ TickKeeps
  BY BoardTicksInv DEF AudienceInv
<1>2. UNCHANGED <<posts, published, pins, pinned, moods>>
  BY DEF pollerVars, youtube, pinVars
<1>3. PollerInv' /\ PinsInv' /\ MoodsInv'
  BY <1>2 DEF AudienceInv, PollerInv, PollerTypeOK, PinsInv, MoodsInv, pollerVars, tokenVars, chatVars, youtube
<1>4. Len(published) \in Nat
  BY LenProperties DEF AudienceInv, PollerInv, PollerTypeOK
<1>5. PICK r : r = round'
  OBVIOUS
<1>6. ASSUME dated' # dated PROVE WordsInv'
  <2>1. r = FreshRound /\ since' = Len(published)
    BY <1>1, <1>5, <1>6 DEF TickKeeps
  <2>2. LastWord(posts, r, published, Len(published), Len(published))
    BY <1>4, <2>1, FreshWords
  <2>3. WordsInv'
    BY <1>2, <1>4, <1>5, <2>1, <2>2 DEF WordsInv
  <2>4. QED
    BY <2>3
<1>7. ASSUME dated' = dated PROVE WordsInv'
  <2>1. \A id \in Ids : r[id].status = "open" => r[id].voters = round[id].voters /\ round[id].status = "open"
    BY <1>1, <1>5, <1>7 DEF TickKeeps
  <2>2. LastWord(posts, r, published, since, Len(published))
    BY <2>1 DEF AudienceInv, WordsInv, LastWord
  <2>3. WordsInv'
    BY <1>2, <1>5, <1>7, <2>2 DEF AudienceInv, WordsInv
  <2>4. QED
    BY <2>3
<1>8. Frozen
  BY <1>1 DEF TickKeeps, Frozen
<1>9. QED
  BY <1>1, <1>3, <1>6, <1>7, <1>8 DEF AudienceInv

LEMMA ClockStep ==
    ASSUME AudienceInv, ClockAdvances, UNCHANGED <<pollerVars, since, pinVars, moods>>
    PROVE  AudienceInv' /\ Frozen
<1>1. BoardInv'
  BY ClockAdvancesInv DEF AudienceInv
<1>2. UNCHANGED <<posts, published, pins, pinned, moods, since, round>> /\ ticked' = FALSE
  BY DEF pollerVars, youtube, pinVars, ClockAdvances, boardVars
<1>3. PollerInv' /\ PinsInv' /\ MoodsInv' /\ WordsInv'
  BY <1>2 DEF AudienceInv, PollerInv, PollerTypeOK, PinsInv, MoodsInv, WordsInv, pollerVars, tokenVars, chatVars, youtube
<1>4. QED
  BY <1>1, <1>2, <1>3 DEF AudienceInv, Frozen

LEMMA EvictStep ==
    ASSUME AudienceInv, EvictExpired
    PROVE  AudienceInv' /\ Frozen
<1>1. UNCHANGED <<pollerVars, predictionVars, since, pinVars>> /\ moods # <<>> /\ moods' = Tail(moods)
  BY DEF EvictExpired
<1>2. BoardInv'
  BY <1>1, BoardUnchanged DEF AudienceInv
<1>3. UNCHANGED <<posts, published, pins, pinned, since, round>>
  BY <1>1 DEF pollerVars, youtube, pinVars, predictionVars, boardVars
<1>4. PollerInv' /\ PinsInv' /\ WordsInv'
  BY <1>1, <1>3 DEF AudienceInv, PollerInv, PollerTypeOK, PinsInv, WordsInv, pollerVars, tokenVars, chatVars, youtube
<1>5. MoodsInv'
  <2>1. moods \in Seq(Directions) /\ moods # <<>> /\ Len(moods) <= MaxMoods /\ MaxMoods \in Nat
    <3>1. MaxMoods \in Nat
      BY AudienceAssumption
    <3>2. QED
      BY <1>1, <3>1 DEF AudienceInv, MoodsInv
  <2>2. PICK t : t = Tail(moods)
    OBVIOUS
  <2>3. t \in Seq(Directions) /\ Len(t) = Len(moods) - 1 /\ Len(moods) \in Nat
    BY <2>1, <2>2, HeadTailProperties, LenProperties
  <2>4. t \in Seq(Directions) /\ Len(t) <= MaxMoods
    BY <2>1, <2>3
  <2>5. QED
    BY <1>1, <2>2, <2>4 DEF MoodsInv
<1>6. QED
  BY <1>2, <1>3, <1>4, <1>5 DEF AudienceInv, Frozen

LEMMA RestartStep ==
    ASSUME AudienceInv, Restart
    PROVE  AudienceInv' /\ Frozen
<1>1. BoardInv' /\ round' = FreshRound /\ ticked' = FALSE
  BY BoardRestartsInv DEF AudienceInv, Restart
<1>2. /\ at' = "sleep" /\ token' = "none" /\ failures' = 0 /\ circuit' = "closed"
      /\ chatId' = 0 /\ cursor' = 0 /\ seeded' = FALSE
      /\ UNCHANGED <<onAir, broadcasts, posts, published, pinned>>
      /\ since' = Len(published) /\ pins' = <<>> /\ moods' = <<>>
  BY DEF Restart, youtube
<1>3. PollerInv'
  <2>1. 0 \in 0 .. MaxPosts /\ 0 \in 0 .. MaxBroadcasts /\ 0 \in 0 .. FailCap + 1
    BY ChatPollerAssumption
  <2>2. PollerTypeOK'
    BY <1>2, <2>1 DEF AudienceInv, PollerInv, PollerTypeOK
  <2>3. QED
    BY <1>2, <2>2 DEF AudienceInv, PollerInv
<1>4. Len(<<>>) = 0 /\ 1 .. 0 = {} /\ \A S : <<>> \in Seq(S)
  OBVIOUS
<1>5. PinsInv'
  <2>1. 0 <= PinCap
    <3>1. PinCap \in Nat \ {0}
      BY AudienceAssumption
    <3>2. QED
      BY <3>1
  <2>2. Queue(posts, <<>>, published, Len(published), Done(pinned))
    BY <1>4 DEF Queue, Newest
  <2>3. QED
    BY <1>2, <1>4, <2>1, <2>2 DEF AudienceInv, PinsInv
<1>6. MoodsInv'
  <2>1. MaxMoods \in Nat
    BY AudienceAssumption
  <2>2. QED
    BY <1>2, <1>4, <2>1 DEF MoodsInv
<1>7. WordsInv'
  <2>1. Len(published) \in Nat
    BY LenProperties DEF AudienceInv, PollerInv, PollerTypeOK
  <2>2. LastWord(posts, FreshRound, published, Len(published), Len(published))
    BY <2>1, FreshWords
  <2>3. QED
    BY <1>1, <1>2, <2>1, <2>2 DEF WordsInv
<1>8. Frozen
  BY <1>1, FreshIsOpen DEF Frozen
<1>9. QED
  BY <1>1, <1>3, <1>5, <1>6, <1>7, <1>8 DEF AudienceInv

LEMMA NextKeeps == AudienceInv /\ [Next]_vars => AudienceInv' /\ [Frozen]_predictionVars
<1> SUFFICES ASSUME AudienceInv, [Next]_vars PROVE AudienceInv' /\ [Frozen]_predictionVars
  OBVIOUS
<1>1. CASE QuietStep /\ UNCHANGED audienceVars
  <2>1. PollerInv' /\ posts' = posts /\ published' = published
    BY <1>1, QuietInv DEF AudienceInv
  <2>2. AudienceInv'
    BY <1>1, <2>1, PollerStepKeeps
  <2>3. QED
    BY <1>1, <2>2 DEF audienceVars
<1>2. CASE PublishAndRoute
  <2>1. AudienceInv' /\ Voted(round, round')
    BY <1>2, PublishKeeps
  <2>2. Frozen
    BY <2>1 DEF Voted, Frozen
  <2>3. QED
    BY <2>1, <2>2
<1>3. CASE SomebodyWrites /\ UNCHANGED audienceVars
  <2>1. PollerInv' /\ published' = published /\ \A k \in 1 .. Len(published) : posts'[published[k]] = posts[published[k]]
    BY <1>3, WritesInv DEF AudienceInv
  <2>2. AudienceInv'
    BY <1>3, <2>1, PollerStepKeeps
  <2>3. QED
    BY <1>3, <2>2 DEF audienceVars
<1>4. CASE /\ BoardTicks
           /\ since' = IF dated' # dated THEN Len(published) ELSE since
           /\ UNCHANGED <<pollerVars, pinVars, moods>>
  BY <1>4, TickStep
<1>5. CASE ClockAdvances /\ UNCHANGED <<pollerVars, since, pinVars, moods>>
  BY <1>5, ClockStep
<1>6. CASE EvictExpired
  BY <1>6, EvictStep
<1>7. ASSUME NEW i \in DOMAIN posts, NEW how \in {"approved", "rejected"},
             NEW override \in Agents \cup {Unknown}, ResolvePin(i, how, override)
      PROVE  AudienceInv' /\ UNCHANGED predictionVars
  BY <1>7, ResolveKeeps DEF ResolvePin
<1>8. CASE \E i \in DOMAIN posts, agent \in Overrides : ApprovePin(i, agent)
  <2>1. Overrides \subseteq Agents \cup {Unknown}
    BY AudienceAssumption
  <2>2. QED
    BY <1>7, <1>8, <2>1 DEF ApprovePin
<1>9. CASE \E i \in DOMAIN posts : RejectPin(i)
  BY <1>7, <1>9 DEF RejectPin
<1>10. CASE Restart
  BY <1>10, RestartStep
<1>11. CASE UNCHANGED vars
  <2>1. UNCHANGED <<pollerVars, audienceVars>>
    BY <1>11 DEF vars
  <2>2. PollerInv' /\ posts' = posts /\ published' = published
    BY <2>1 DEF AudienceInv, PollerInv, PollerTypeOK, pollerVars, tokenVars, chatVars, youtube
  <2>3. AudienceInv'
    BY <2>1, <2>2, PollerStepKeeps
  <2>4. QED
    BY <2>1, <2>3 DEF audienceVars
<1>12. QED
  BY <1>1, <1>2, <1>3, <1>4, <1>5, <1>6, <1>8, <1>9, <1>10, <1>11 DEF Next, QuietStep

-------------------------------------------------------------------------------
LEMMA TypesHold == AudienceInv => TypeOK
<1> SUFFICES ASSUME AudienceInv PROVE TypeOK
  OBVIOUS
<1>1. since \in 0 .. MaxPosts
  <2>1. /\ published \in Seq(1 .. Len(posts)) /\ Len(posts) \in Nat /\ Len(posts) <= MaxPosts
        /\ MaxPosts \in Nat /\ Len(published) \in Nat /\ since \in 0 .. Len(published)
    BY LenProperties, ChatPollerAssumption DEF AudienceInv, PollerInv, PollerTypeOK, WordsInv
  <2>2. Len(published) <= Len(posts)
    BY <2>1, IncreasingIsShort DEF AudienceInv, PollerInv
  <2>3. QED
    BY <2>1, <2>2
<1>2. PredictionsTypeOK
  BY DEF AudienceInv, BoardInv, BoardTypeOK, Rounds, PredictionsTypeOK
<1>3. QED
  BY <1>1, <1>2 DEF AudienceInv, PollerInv, PinsInv, MoodsInv, TypeOK

LEMMA AnswersHold == AudienceInv => AnsweredOnce
<1> SUFFICES ASSUME AudienceInv PROVE AnsweredOnce
  OBVIOUS
<1>1. DOMAIN published = 1 .. Len(published) /\ DOMAIN pins = 1 .. Len(pins) /\ DOMAIN pinned = 1 .. Len(pinned)
  BY LenProperties DEF AudienceInv, PollerInv, PollerTypeOK, PinsInv
<1>2. PublishedOnce
  BY <1>1 DEF PublishedOnce, AudienceInv, PollerInv, Increasing
<1>3. Newest(Requests(pins), Len(pins), published, Len(published), Done(pinned), Wanting(posts, published, Len(published)))
  BY DEF AudienceInv, PinsInv, Queue
<1>4. \A k \in 1 .. Len(pins) : Requests(pins)[k] = pins[k].post
  BY DEF Requests
<1>5. PinsResolvedOnce
  <2>1. \A i, j \in DOMAIN pinned : pinned[i].post = pinned[j].post => i = j
    BY <1>1 DEF AudienceInv, PinsInv, ResolvedApart
  <2>2. \A k \in 1 .. Len(pins) : pins[k].post \notin Done(pinned)
    BY <1>3, <1>4 DEF Newest
  <2>3. \A i \in DOMAIN pinned : ~Pending(pinned[i].post)
    BY <1>1, <2>2 DEF Pending, Done
  <2>4. QED
    BY <2>1, <2>3 DEF PinsResolvedOnce
<1>6. NewestPinsStay
  <2> SUFFICES ASSUME NEW a \in Range(published), NEW b \in Range(published), Pending(a), b > a,
                      Parse(posts[b].text).kind = "pin"
               PROVE  Pending(b) \/ \E k \in DOMAIN pinned : pinned[k].post = b
    BY DEF NewestPinsStay
  <2>1. PICK j \in 1 .. Len(published) : published[j] = b
    BY <1>1 DEF Range
  <2>2. PICK k \in 1 .. Len(pins) : pins[k].post = a
    BY <1>1 DEF Pending
  <2>3. j \in Wanting(posts, published, Len(published))
    BY <2>1 DEF Wanting, WantsPin
  <2>4. b \in Done(pinned) \/ \E l \in 1 .. Len(pins) : pins[l].post = b
    BY <1>3, <1>4, <2>1, <2>2, <2>3 DEF Newest
  <2>5. QED
    BY <1>1, <2>4 DEF Done, Pending
<1>7. QED
  BY <1>2, <1>5, <1>6 DEF AnsweredOnce

VotesAreRight == TallyCounts /\ NoWalkthrough /\ BoardFollowsTheDay /\ DecidedIsShown /\ LastWordCounts

LEMMA VotesHold == AudienceInv => VotesAreRight
<1> SUFFICES ASSUME AudienceInv PROVE VotesAreRight
  OBVIOUS
<1>1. TallyCounts
  BY DEF AudienceInv, BoardInv, BoardTypeOK, Rounds, Counted, TallyCounts
<1>2. BoardFollowsTheDay
  BY DEF AudienceInv, BoardInv, Ticked, BoardFollowsTheDay
<1>3. NoWalkthrough
  <2>1. day \in Int
    BY DEF AudienceInv, BoardInv, BoardTypeOK
  <2>2. SUFFICES ASSUME dated > day PROVE \A id \in Ids : round[id].status = "open"
    BY DEF NoWalkthrough
  <2>3. ticked /\ part = "evening"
    BY <2>1, <2>2 DEF AudienceInv, BoardInv, BoardTypeOK, Ticked, ToTick
  <2>4. QED
    BY <2>3 DEF AudienceInv, BoardInv, Ticked, Wanted
<1>4. LastWordCounts
  BY LastWordIs DEF AudienceInv, WordsInv
<1>5. QED
  BY <1>1, <1>2, <1>3, <1>4 DEF AudienceInv, BoardInv, VotesAreRight

(* Whatever the chat, the operators, the clock and the process do, what    *)
(* they leave has its type (TypeOK): in particular the queue of pins and   *)
(* the sentiment window stay within their bounds.                          *)
THEOREM TypeOKHolds == Spec => []TypeOK
  BY InitInv, NextKeeps, TypesHold, PTL DEF Spec

(* What a viewer writes is published once and in order, and a pin request  *)
(* is answered once or pushed off by newer ones.                           *)
THEOREM AnsweredOnceHolds == Spec => []AnsweredOnce
  BY InitInv, NextKeeps, AnswersHold, PTL DEF Spec

(* A vote round is fair (VotesAreCounted).                                 *)
THEOREM VotesAreCountedHolds == Spec => VotesAreCounted
<1>1. Spec => []VotesAreRight
  BY InitInv, NextKeeps, VotesHold, PTL DEF Spec
<1>2. Spec => [][Frozen]_predictionVars
  BY InitInv, NextKeeps, PTL DEF Spec
<1>3. QED
  BY <1>1, <1>2 DEF VotesAreCounted, VotesAreRight, VotesFreeze, Frozen
===============================================================================
