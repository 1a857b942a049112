------------------------------ MODULE AutoDirector ------------------------------
(***************************************************************************)
(* orchestrator/auto_director.py: a poll that turns what it sees of the    *)
(* agents and the market into broadcast moments, each id at most once per  *)
(* cooldown.  P&L and market are seen as states and are told for as long   *)
(* as they last; a promotion is seen as a change since the last poll.      *)
(***************************************************************************)
EXTENDS Cooldowns, Integers, FiniteSets

CONSTANTS
    Farm,          \* the agents
    SpyMarks,      \* prices of SPY
    MovePct,       \* MARKET_MOVE_PCT
    TopGrade,      \* the highest rank
    DirCooldown,   \* COOLDOWN, in time units
    MaxDirRestarts \* bound on the restarts of a behaviour

ASSUME AutoDirectorAssumption ==
    /\ SpyMarks \subseteq Nat \ {0} /\ MovePct \in Nat
    /\ {TopGrade, MaxDirRestarts} \subseteq Nat /\ DirCooldown \in Nat \ {0}

VARIABLES
    standing,     \* agent -> how its equity stands to its starting capital
    spy,          \* SPY's last mark, 0 before the first
    grade,        \* agent -> its rank
    dirFired,     \* _last_fired_at, as ages
    baseline,     \* _spy_baseline, 0 before the first mark
    snapshot,     \* _rank_snapshot
    dirAiring,    \* the ids the last poll has published
    dirAired,     \* history: how long ago ids were published in this process
    climbed,      \* history: agent -> promotions less demotions since the last poll
    dirRestarts   \* history: restarts so far
dirVars ==
    <<standing, spy, grade, dirFired, baseline, snapshot, dirAiring, dirAired, climbed,
      dirRestarts>>

Grades == 0 .. TopGrade
Standings == {"win", "crash", "even"}
MacroIds == ({"win", "crash", "rank"} \X Farm) \cup {<<"market", "surge">>, <<"market", "crash">>}
Ages == 0 .. DirCooldown

DirTypeOK ==
    /\ standing \in [Farm -> Standings] /\ grade \in [Farm -> Grades]
    /\ {spy, baseline} \subseteq SpyMarks \cup {0}
    /\ dirFired \in [MacroIds -> Ages]
    /\ dirAired \in [MacroIds -> Ages]
    /\ snapshot \in [Farm -> Grades]
    /\ dirAiring \subseteq MacroIds
    /\ climbed \in [Farm -> (- TopGrade) .. TopGrade]
    /\ dirRestarts \in 0 .. MaxDirRestarts

(* A new process; start takes the snapshot of the ranks. *)
SnapshotRanks == grade
DirInit ==
    /\ standing = [a \in Farm |-> "even"] /\ spy = 0 /\ grade = [a \in Farm |-> 0]
    /\ dirFired = Rested(MacroIds, DirCooldown) /\ dirAired = dirFired
    /\ baseline = 0 /\ snapshot = SnapshotRanks /\ dirAiring = {}
    /\ climbed = [a \in Farm |-> 0] /\ dirRestarts = 0

(* _collect_agent_pnl_macros, _collect_market_macro and                    *)
(* _collect_promotion_macros.                                              *)
PnlMacros == {<<standing[a], a>> : a \in {b \in Farm : standing[b] # "even"}}
MarketMacros ==
    IF spy = 0 \/ baseline = 0 THEN {}
    ELSE {id \in {<<"market", "surge">>, <<"market", "crash">>} :
             IF id[2] = "surge" THEN 100 * spy >= (100 + MovePct) * baseline
             ELSE 100 * spy <= (100 - MovePct) * baseline}
PromotionMacros_AnyMove == {<<"rank", a>> : a \in {b \in Farm : grade[b] # snapshot[b]}}
PromotionMacros == {<<"rank", a>> : a \in {b \in Farm : grade[b] > snapshot[b]}}
Collected == PnlMacros \cup MarketMacros \cup PromotionMacros

(* check_once. *)
DirPolls ==
    /\ dirAiring' = Firing(Collected, dirFired, DirCooldown)
    /\ dirFired' = Fired(Collected, dirFired, DirCooldown)
    /\ dirAired' = [id \in MacroIds |-> IF id \in dirAiring' THEN 0 ELSE dirAired[id]]
    /\ baseline' = IF baseline = 0 THEN spy ELSE baseline
    /\ snapshot' = grade /\ climbed' = [a \in Farm |-> 0]
    /\ UNCHANGED <<standing, spy, grade, dirRestarts>>

(* What the farm does in between. *)
EquityMoves(a) ==
    /\ \E s \in Standings : standing' = [standing EXCEPT ![a] = s]
    /\ dirAiring' = {}
    /\ UNCHANGED <<spy, grade, dirFired, baseline, snapshot, dirAired, climbed, dirRestarts>>
SpyMoves ==
    /\ spy' \in SpyMarks /\ dirAiring' = {}
    /\ UNCHANGED <<standing, grade, dirFired, baseline, snapshot, dirAired, climbed, dirRestarts>>
GradeMoves(a) ==
    /\ \E step \in {-1, 1} :
          /\ grade[a] + step \in Grades
          /\ grade' = [grade EXCEPT ![a] = @ + step]
          /\ climbed' = [climbed EXCEPT ![a] = @ + step]
    /\ dirAiring' = {}
    /\ UNCHANGED <<standing, spy, dirFired, baseline, snapshot, dirAired, dirRestarts>>
DirTimePasses ==
    /\ dirFired' = Older(dirFired, DirCooldown) /\ dirAired' = Older(dirAired, DirCooldown)
    /\ dirAiring' = {}
    /\ UNCHANGED <<standing, spy, grade, baseline, snapshot, climbed, dirRestarts>>

(* A new process knows of no former moment and takes a new baseline. *)
DirRestarts ==
    /\ dirRestarts < MaxDirRestarts
    /\ dirFired' = Rested(MacroIds, DirCooldown) /\ dirAired' = dirFired'
    /\ baseline' = 0 /\ snapshot' = SnapshotRanks /\ dirAiring' = {}
    /\ climbed' = [a \in Farm |-> 0] /\ dirRestarts' = dirRestarts + 1
    /\ UNCHANGED <<standing, spy, grade>>

DirNext ==
    \/ DirPolls \/ SpyMoves \/ DirTimePasses \/ DirRestarts
    \/ \E a \in Farm : EquityMoves(a) \/ GradeMoves(a)

-------------------------------------------------------------------------------
(* A promotion is told exactly of a rise since the last poll or the start  *)
(* of the process: an agent told of was promoted more often than demoted   *)
(* since then, so never of a fall, of a rise that was lost again, or of    *)
(* what an earlier poll or process has seen; and every agent that rose has *)
(* been told of within the cooldown, for this rise or for one before it.   *)
OnlyRisesAreTold ==
    [][DirPolls => \A a \in Farm :
          /\ <<"rank", a>> \in dirAiring' => climbed[a] > 0
          /\ climbed[a] > 0 => dirAired'[<<"rank", a>>] < DirCooldown]_dirVars

(* No standing goes untold: after a poll every agent that is up or down by *)
(* the threshold has been told of within the cooldown.                     *)
StandingIsTold ==
    [][DirPolls => \A a \in Farm :
          standing[a] # "even" => dirAired'[<<standing[a], a>>] < DirCooldown]_dirVars

(* Viewers hear of every standing while it stands, and of a rank when it   *)
(* is a rise since the last poll (OnlyRisesAreTold, StandingIsTold).       *)
DirectorTellsTheNews == OnlyRisesAreTold /\ StandingIsTold
================================================================================
