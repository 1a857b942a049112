-------------------------------- MODULE Academy --------------------------------
(***************************************************************************)
(* The academy: ranks earned by closed outcomes, and the curriculum pass   *)
(* (academy/curriculum.py) that promotes and demotes.  A pass awaits the   *)
(* database for every agent it looks at and for every rank it changes.     *)
(* The curriculum loop runs it under the lock of the ticks; the endpoint   *)
(* POST /academy/evaluate runs it under none.                              *)
(*                                                                         *)
(* Simplified: an agent's age does not cross two weeks within a behaviour; *)
(* the two reads of one agent's outcomes are one step; figures with roots  *)
(* are rounded to a tenth; events and log lines are left out.          *)
(***************************************************************************)
EXTENDS Ordering, Sequences, SequencesExt, FiniteSetsExt

CONSTANTS
    NumAgents,           \* agents are numbered in the order of the list
    Callers,             \* who runs passes: "loop", "endpoint" or both
    PnLs,                \* realized P&L of a close
    MinJunior, MinSenior, MinPrincipal,   \* academy_min_trades_*
    WinRateSenior,       \* academy_min_win_rate_senior, in percent
    SharpePrincipal,     \* academy_min_sharpe_principal, in tenths
    DemoteDrawdown,      \* academy_demote_drawdown_pct, in percent
    DemoteLosses,        \* academy_demote_consecutive_losses
    DemoteCapPct,        \* academy_demote_cap_pct, in percent
    MaxOutcomes,         \* bound on the closes of an agent
    AcademyFaults,       \* "read", "write" and "crash", see the actions
    MaxAcademyFaults     \* bound on the faults of a behaviour

ASSUME AcademyAssumption ==
    /\ NumAgents \in Nat \ {0} /\ Callers \subseteq {"loop", "endpoint"}
    /\ PnLs \subseteq Int \ {0}
    /\ {MinJunior, MinSenior, MinPrincipal, WinRateSenior, DemoteDrawdown,
        DemoteLosses, DemoteCapPct, MaxOutcomes, MaxAcademyFaults} \subseteq Nat
    /\ SharpePrincipal \in -20 .. 20
    /\ AcademyFaults \subseteq {"read", "write", "crash"}

VARIABLES
    outcomes,     \* agent -> the figures of its stamped outcomes
    veterans,     \* agents created at least two weeks ago
    rank,         \* agent -> agent.risk.rank
    rankRow,      \* agent -> the rank column of its row
    promotions,   \* agent -> its rows of academy_promotions, oldest first
    pass,         \* caller -> the pass it is running
    tickLock,     \* who holds the lock of the ticks: "none", "tick" or "loop"
    academyFaults \* history: faults so far
academyVars ==
    <<outcomes, veterans, rank, rankRow, promotions, pass, tickLock, academyFaults>>

Agents == 1 .. NumAgents
(* RANK_ORDER: intern, junior, senior, principal. *)
Ranks == 0 .. 3
(* A change a pass has decided on. *)
Change == [agent : Agents, from : Ranks, to : Ranks, severity : Nat]
NoPass == [step |-> "idle", agent |-> 1, promoted |-> <<>>, demoted |-> <<>>, todo |-> <<>>]

(* What the statistics need of an agent's outcomes: how many there are,    *)
(* how many are gains, their sum, the sum of their squares and how many    *)
(* losses in a row there are at the end.                                   *)
Figures == [n : Nat, wins : Nat, total : Int, squares : Nat, losingRun : Nat]
NoOutcomes == [n |-> 0, wins |-> 0, total |-> 0, squares |-> 0, losingRun |-> 0]
LosingRunWith(o, pnl) == IF pnl < 0 THEN o.losingRun + 1 ELSE 0
With(o, pnl) ==
    [n |-> o.n + 1, wins |-> IF pnl > 0 THEN o.wins + 1 ELSE o.wins, total |-> o.total + pnl,
     squares |-> o.squares + pnl * pnl, losingRun |-> LosingRunWith(o, pnl)]

AcademyTypeOK ==
    /\ outcomes \in [Agents -> Figures]
    /\ veterans \subseteq Agents
    /\ rank \in [Agents -> Ranks] /\ rankRow \in [Agents -> Ranks]
    /\ \A a \in Agents : promotions[a] \in Seq(Ranks \X Ranks)
    /\ \A c \in Callers :
          /\ pass[c].step \in {"idle", "evaluate", "row", "memory"}
          /\ pass[c].agent \in Agents
          /\ {pass[c].promoted, pass[c].demoted, pass[c].todo} \subseteq Seq(Change)
          /\ pass[c].step \in {"row", "memory"} => pass[c].todo # <<>>
    /\ tickLock \in {"none", "tick"} \cup (Callers \ {"endpoint"})
    /\ "loop" \in Callers => (tickLock = "loop" <=> pass["loop"].step # "idle")
    /\ academyFaults \in 0 .. MaxAcademyFaults

-------------------------------------------------------------------------------
(* RankStats, from the figures of an agent's outcomes. *)
(* n times n - 1 times the sample variance. *)
Spread(o) == o.n * o.squares - o.total * o.total
(* _sharpe_annualized, in tenths and rounded towards zero: the mean over   *)
(* the standard deviation, times the root of 252.  The starting capital    *)
(* the returns are fractions of cancels out.  What is beyond two counts as *)
(* two: there the drawdown has reached its cap.                            *)
SharpeReaches(o, r) == r * r * o.n * Spread(o) <= 25200 * o.total * o.total * (o.n - 1)
Sharpe(o) ==
    IF o.n < 2 \/ Spread(o) = 0 THEN 0
    ELSE (IF o.total < 0 THEN -1 ELSE 1)
         * (CHOOSE r \in 0 .. 20 : SharpeReaches(o, r) /\ (r = 20 \/ ~SharpeReaches(o, r + 1)))

(* eligible_rank. *)
Eligible(o, veteran) ==
    IF o.n >= MinPrincipal /\ veteran /\ Sharpe(o) >= SharpePrincipal THEN 3
    ELSE IF o.n >= MinSenior /\ 100 * o.wins >= WinRateSenior * Max({o.n, 1}) THEN 2
    ELSE IF o.n >= MinJunior THEN 1
    ELSE 0

(* _drawdown_proxy, in percent: half the share of the lost, and five times *)
(* the tenths of a negative Sharpe ratio.                                  *)
Drawdown(o) ==
    IF o.n = 0 THEN 50
    ELSE IF o.total >= 0 /\ 2 * o.wins >= o.n THEN 0
    ELSE Min({100, (50 * (o.n - o.wins)) \div o.n + (IF o.total < 0 THEN -5 * Sharpe(o) ELSE 0)})

(* _demotion_trigger and _severity. *)
DemotionDue(o) ==
    /\ o.n >= MinJunior
    /\ Drawdown(o) >= DemoteDrawdown \/ o.losingRun >= DemoteLosses
Severity(o) == Max({Drawdown(o), 10 * o.losingRun})

-------------------------------------------------------------------------------
AcademyInit ==
    /\ outcomes = [a \in Agents |-> NoOutcomes]
    /\ veterans \in SUBSET Agents
    /\ rank = [a \in Agents |-> 0] /\ rankRow = rank
    /\ promotions = [a \in Agents |-> <<>>]
    /\ pass = [c \in Callers |-> NoPass]
    /\ tickLock = "none"
    /\ academyFaults = 0

(* tick_once holds the lock for the whole of a tick. *)
TickTakesLock ==
    /\ tickLock = "none"
    /\ tickLock' = "tick"
    /\ UNCHANGED <<outcomes, veterans, rank, rankRow, promotions, pass, academyFaults>>

TickReleasesLock ==
    /\ tickLock = "tick"
    /\ tickLock' = "none"
    /\ UNCHANGED <<outcomes, veterans, rank, rankRow, promotions, pass, academyFaults>>

(* Outcomes are stamped within ticks only, when a fill closes a position. *)
TickStampsOutcome(a, pnl) ==
    /\ tickLock = "tick" /\ outcomes[a].n < MaxOutcomes
    /\ outcomes' = [outcomes EXCEPT ![a] = With(@, pnl)]
    /\ UNCHANGED <<veterans, rank, rankRow, promotions, pass, tickLock, academyFaults>>

(* The loop waits for the lock; the endpoint knows of none. *)
PassStarts_NoLock(c) ==
    /\ pass[c].step = "idle"
    /\ pass' = [pass EXCEPT ![c].step = "evaluate"]
    /\ UNCHANGED <<outcomes, veterans, rank, rankRow, promotions, tickLock, academyFaults>>
PassStarts(c) ==
    /\ pass[c].step = "idle"
    /\ IF c = "loop" THEN tickLock = "none" /\ tickLock' = "loop" ELSE tickLock' = tickLock
    /\ pass' = [pass EXCEPT ![c].step = "evaluate"]
    /\ UNCHANGED <<outcomes, veterans, rank, rankRow, promotions, academyFaults>>

Fault(f) ==
    /\ f \in AcademyFaults /\ academyFaults < MaxAcademyFaults
    /\ academyFaults' = academyFaults + 1

(* What a pass decides for an agent it has read these outcomes of. *)
Promoted_NextOnly(a, o) ==
    IF Eligible(o, a \in veterans) # rank[a] + 1 THEN <<>>
    ELSE <<[agent |-> a, from |-> rank[a], to |-> rank[a] + 1, severity |-> 0]>>
Promoted(a, o) ==
    IF Eligible(o, a \in veterans) <= rank[a] THEN <<>>
    ELSE <<[agent |-> a, from |-> rank[a], to |-> rank[a] + 1, severity |-> 0]>>
Demoted(a, o) ==
    IF Eligible(o, a \in veterans) >= rank[a] \/ ~DemotionDue(o) THEN <<>>
    ELSE <<[agent |-> a, from |-> rank[a], to |-> rank[a] - 1, severity |-> Severity(o)]>>

(* The worst come first; equals in the order of the agents. *)
DemoteCap == (DemoteCapPct * NumAgents) \div 100
Before_Mildest(d, e) ==
    \/ d.severity < e.severity
    \/ d.severity = e.severity /\ d.agent < e.agent
Before(d, e) ==
    \/ d.severity > e.severity
    \/ d.severity = e.severity /\ d.agent < e.agent
Ordered(promoted, demoted) ==
    promoted \o SubSeq(SortedBy(Range(demoted), Before), 1, Min({DemoteCap, Len(demoted)}))

(* The pass of c when it has these changes left to apply. *)
Rest(c, todo) ==
    IF todo = <<>> THEN NoPass
    ELSE [NoPass EXCEPT !.step = "row", !.todo = todo]
Released_Kept(c, todo) == tickLock
Released(c, todo) == IF c = "loop" /\ todo = <<>> THEN "none" ELSE tickLock

(* One turn of the first loop of evaluate_all.  A failed read of the       *)
(* outcomes counts as no outcomes.                                         *)
Evaluate(c) ==
    LET a == pass[c].agent IN
    /\ pass[c].step = "evaluate"
    /\ \E o \in {outcomes[a], NoOutcomes} :
          /\ IF o = outcomes[a] THEN UNCHANGED academyFaults ELSE Fault("read")
          /\ LET promoted == pass[c].promoted \o Promoted(a, o)
                 demoted == pass[c].demoted \o Demoted(a, o)
                 todo == Ordered(promoted, demoted)
             IN  IF a < NumAgents
                 THEN /\ pass' = [pass EXCEPT ![c].agent = a + 1, ![c].promoted = promoted,
                                              ![c].demoted = demoted]
                      /\ tickLock' = tickLock
                 ELSE /\ pass' = [pass EXCEPT ![c] = Rest(c, todo)]
                      /\ tickLock' = Released(c, todo)
    /\ UNCHANGED <<outcomes, veterans, rank, rankRow, promotions>>

(* academy_repo.set_rank; a failed write is swallowed. *)
SetRank(c) ==
    LET ch == pass[c].todo[1] IN
    /\ pass[c].step = "row"
    /\ \/ rankRow' = [rankRow EXCEPT ![ch.agent] = ch.to] /\ UNCHANGED academyFaults
       \/ rankRow' = rankRow /\ Fault("write")
    /\ pass' = [pass EXCEPT ![c].step = "memory"]
    /\ UNCHANGED <<outcomes, veterans, rank, promotions, tickLock>>

(* _rebuild_risk, then promotions_repo.record, whose failure is swallowed  *)
(* too.                                                                    *)
RebuildRisk(c) ==
    LET ch == pass[c].todo[1] IN
    /\ pass[c].step = "memory"
    /\ rank' = [rank EXCEPT ![ch.agent] = ch.to]
    /\ \/ /\ promotions' = [promotions EXCEPT ![ch.agent] = Append(@, <<ch.from, ch.to>>)]
          /\ UNCHANGED academyFaults
       \/ promotions' = promotions /\ Fault("write")
    /\ pass' = [pass EXCEPT ![c] = Rest(c, Tail(pass[c].todo))]
    /\ tickLock' = Released(c, Tail(pass[c].todo))
    /\ UNCHANGED <<outcomes, veterans, rankRow>>

(* A new process builds its agents with the ranks of the rows. *)
AcademyRestarts ==
    /\ Fault("crash")
    /\ rank' = rankRow
    /\ pass' = [c \in Callers |-> NoPass] /\ tickLock' = "none"
    /\ UNCHANGED <<outcomes, veterans, rankRow, promotions>>

AcademyNext ==
    \/ TickTakesLock \/ TickReleasesLock
    \/ \E a \in Agents, pnl \in PnLs : TickStampsOutcome(a, pnl)
    \/ \E c \in Callers : PassStarts(c) \/ Evaluate(c) \/ SetRank(c) \/ RebuildRisk(c)
    \/ AcademyRestarts

(* The loop runs again and again, and a task that can go on does.  The     *)
(* lock is handed out in the order of the requests, so that the loop gets  *)
(* it however often ticks ask for it.                                      *)
AcademyFairness ==
    /\ WF_academyVars(TickReleasesLock)
    /\ \A c \in Callers :
          /\ SF_academyVars(PassStarts(c))
          /\ WF_academyVars(Evaluate(c) \/ SetRank(c) \/ RebuildRisk(c))

AcademySpec == AcademyInit /\ [][AcademyNext]_academyVars /\ AcademyFairness

-------------------------------------------------------------------------------
(* No rank, and with it no risk limit, changes while a tick is under way:  *)
(* curriculum.py, "Designed to run *between ticks*".  Only a new process   *)
(* may differ.                                                             *)
NeverMidTick == [][rank' # rank => tickLock # "tick" \/ academyFaults' # academyFaults]_academyVars

(* A change of rank is one step, and warranted by the outcomes of the very *)
(* moment it takes effect, not only by those the pass has read: up when    *)
(* the agent is eligible for more, down when it is eligible for less and a *)
(* trigger has fired.                                                      *)
Warranted ==
    [][\A a \in Agents : rank'[a] # rank[a] /\ academyFaults' = academyFaults =>
          LET eligible == Eligible(outcomes[a], a \in veterans) IN
          \/ rank'[a] = rank[a] + 1 /\ eligible > rank[a]
          \/ rank'[a] = rank[a] - 1 /\ eligible < rank[a] /\ DemotionDue(outcomes[a])]_academyVars

(* As long as nothing fails, the log of an agent's promotions is a chain   *)
(* from intern to the rank it has, and memory and row differ only for the  *)
(* agent whose change is just being made.                                  *)
Chained(log) == \A i \in DOMAIN log : log[i][1] = (IF i = 1 THEN 0 ELSE log[i - 1][2])
PromotionsTellTheRank ==
    academyFaults = 0 =>
        \A a \in Agents :
            /\ Chained(promotions[a])
            /\ rank[a] = IF promotions[a] = <<>> THEN 0 ELSE promotions[a][Len(promotions[a])][2]
            /\ rank[a] # rankRow[a] =>
                   \E c \in Callers : pass[c].step = "memory" /\ pass[c].todo[1].agent = a

(* A pass that has read everything demotes no more than its share of the   *)
(* agents, and nobody while it spares an agent that is worse.              *)
WorstGoFirst ==
    [][\A c \in Callers : pass[c].step = "evaluate" /\ pass'[c].step = "row" /\ academyFaults' = 0 =>
          LET down == {ch \in Range(pass'[c].todo) : ch.to < ch.from}
              spared == {a \in Agents : /\ Eligible(outcomes[a], a \in veterans) < rank[a]
                                        /\ DemotionDue(outcomes[a])
                                        /\ \A ch \in down : ch.agent # a}
          IN  /\ 100 * Cardinality(down) <= DemoteCapPct * NumAgents
              /\ \A ch \in down, a \in spared : Severity(outcomes[a]) <= ch.severity]_academyVars

(* Sooner or later every agent has at least the rank it is eligible for,   *)
(* however often a pass could not read or write or died halfway.           *)
RanksCatchUp ==
    \A a \in Agents : <>[](rank[a] >= Eligible(outcomes[a], a \in veterans))

(* A rank is what the outcomes warrant, told by the log of promotions, and *)
(* lost by the worst first (PromotionsTellTheRank, Warranted,              *)
(* WorstGoFirst).                                                          *)
RanksAreEarned == []PromotionsTellTheRank /\ Warranted /\ WorstGoFirst
================================================================================
