--------------------------------- MODULE Suite ---------------------------------
(***************************************************************************)
(* The presentation layer as a unit: orchestrator/broadcast_suite.py with  *)
(* the recap ledger of broadcast_recap.py, through boots, failed boots,    *)
(* shutdowns and crashes of the process, and its own poll loop, which      *)
(* publishes the recap of a trading day in the half hour after the close.  *)
(*                                                                         *)
(* A day is three stretches of New York time: before, in and after the     *)
(* window of the recap.  A moment is told by who published it.             *)
(***************************************************************************)
EXTENDS Naturals, Sequences, FiniteSets

CONSTANTS
    Sidecars,      \* the coordinators start() starts
    StartOrder,    \* in this order
    StopOrder,     \* stop() stops them in this one
    TradingDays,   \* the days of 1 .. MaxDay on which the market opens
    MaxMoments,    \* max_moments of the ledger
    MaxDay, MaxFaults  \* bounds on the days, and on crashes and failures

ASSUME SuiteAssumption ==
    /\ IsFiniteSet(Sidecars)
    /\ {StartOrder, StopOrder} \subseteq [1 .. Cardinality(Sidecars) -> Sidecars]
    /\ \A s \in Sidecars : \E i \in 1 .. Cardinality(Sidecars) : StartOrder[i] = s
    /\ TradingDays \subseteq 1 .. MaxDay
    /\ {MaxMoments, MaxDay} \subseteq Nat \ {0} /\ MaxFaults \in Nat

VARIABLES
    phase,      \* "down", "boot", "up", "drain" (stopping the sidecars) or "bare" (all stopped)
    arbiter,    \* whether ledger and scheduler are installed
    running,    \* the sidecars that have started and not stopped
    ledger,     \* _moments: who published them, oldest first
    recapTask,  \* the recap loop: "off", "poll", or "write" after it has published
    day, stretch,  \* New York's clock: "before", "window" or "after"
    recapRows,  \* daily_recap_fired: the days that have a row
    attributed, \* strategy_daily_attribution: the days that have rows
    recaps,     \* history: how often the loop published the recap of a day
    unnoted,    \* history: how often it did without the row being written
    polled,     \* history: whether a poll succeeded in this window
    bypassed,   \* history: the sidecars that published past the ledger
    faults      \* history: crashes and failures so far
suiteVars ==
    <<phase, arbiter, running, ledger, recapTask, day, stretch, recapRows, attributed,
      recaps, unnoted, polled, bypassed, faults>>
processVars == <<phase, arbiter, running, recapTask>>
recapVars == <<recapRows, attributed, recaps, unnoted>>
Days == 1 .. MaxDay

SuiteTypeOK ==
    /\ phase \in {"down", "boot", "up", "drain", "bare"} /\ arbiter \in BOOLEAN
    /\ running \subseteq Sidecars /\ bypassed \subseteq Sidecars
    /\ ledger \in Seq(Sidecars \cup {"recap"}) /\ Len(ledger) <= MaxMoments
    /\ recapTask \in {"off", "poll", "write"} /\ (recapTask = "off" \/ phase # "down")
    /\ day \in Days /\ stretch \in {"before", "window", "after"} /\ polled \in BOOLEAN
    /\ recapRows \subseteq Days /\ attributed \subseteq Days
    /\ recaps \in [Days -> Nat] /\ unnoted \in [Days -> Nat] /\ faults \in 0 .. MaxFaults

SuiteInit ==
    /\ phase = "down" /\ arbiter = FALSE /\ running = {} /\ ledger = <<>>
    /\ recapTask = "off" /\ day = 1 /\ stretch = "before"
    /\ recapRows = {} /\ attributed = {} /\ bypassed = {} /\ polled = FALSE
    /\ recaps = [d \in Days |-> 0] /\ unnoted = [d \in Days |-> 0] /\ faults = 0

Fault == faults < MaxFaults /\ faults' = faults + 1
NoFault == faults' = faults

(* BroadcastRecapLedger.record, through publish_broadcast_moment.          *)
Recorded_Unbounded(log, who) == Append(log, who)
Recorded(log, who) ==
    IF Len(log) < MaxMoments THEN Append(log, who) ELSE Append(Tail(log), who)
Published(who) == ledger' = IF arbiter THEN Recorded(ledger, who) ELSE ledger

(* A coordinator publishes a moment, also while it is being stopped.       *)
SidecarPublishes(s) ==
    /\ s \in running
    /\ Published(s) /\ bypassed' = IF arbiter THEN bypassed ELSE bypassed \cup {s}
    /\ UNCHANGED <<processVars, day, stretch, recapVars, polled, faults>>

-------------------------------------------------------------------------------
(* start_background reaches suite.start: the arbiter comes first.          *)
BootBegins ==
    /\ phase = "down"
    /\ phase' = "boot" /\ arbiter' = TRUE /\ ledger' = <<>>
    /\ UNCHANGED <<running, recapTask, day, stretch, recapVars, polled, bypassed, faults>>

(* _start_sidecar: the next one; an error in its start ends the boot and,  *)
(* as nothing catches it, the process.                                     *)
NextIn(order, have) ==
    CHOOSE i \in DOMAIN order : order[i] \notin have /\ \A j \in 1 .. i - 1 : order[j] \in have
SidecarStarts ==
    /\ phase = "boot" /\ running # Sidecars
    /\ running' = running \cup {StartOrder[NextIn(StartOrder, running)]}
    /\ UNCHANGED <<phase, arbiter, ledger, recapTask, day, stretch, recapVars, polled, bypassed, faults>>
BootEnds ==
    /\ phase = "boot" /\ running = Sidecars
    /\ phase' = "up" /\ recapTask' = "poll"
    /\ UNCHANGED <<arbiter, running, ledger, day, stretch, recapVars, polled, bypassed, faults>>

(* stop_background: each coordinator in turn, then the arbiter, and only   *)
(* then the recap loop, which is cancelled wherever it is.                 *)
DrainBegins_ArbiterFirst == phase = "up" /\ phase' = "drain" /\ arbiter' = FALSE
DrainBegins == phase = "up" /\ phase' = "drain" /\ arbiter' = arbiter
ShutdownBegins ==
    /\ DrainBegins
    /\ UNCHANGED <<running, ledger, recapTask, day, stretch, recapVars, polled, bypassed, faults>>
SidecarStops ==
    /\ phase = "drain" /\ running # {}
    /\ running' = running \ {StopOrder[NextIn(StopOrder, Sidecars \ running)]}
    /\ UNCHANGED <<phase, arbiter, ledger, recapTask, day, stretch, recapVars, polled, bypassed, faults>>
ArbiterLeaves ==
    /\ phase = "drain" /\ running = {}
    /\ phase' = "bare" /\ arbiter' = FALSE
    /\ UNCHANGED <<running, ledger, recapTask, day, stretch, recapVars, polled, bypassed, faults>>

(* The loop is cancelled in a shutdown, everything ends in a crash; a      *)
(* recap that was published without its row stays without.                 *)
ProcessEnds ==
    /\ phase' = "down" /\ arbiter' = FALSE /\ running' = {} /\ ledger' = <<>>
    /\ recapTask' = "off" /\ polled' = FALSE
    /\ unnoted' = IF recapTask = "write" THEN [unnoted EXCEPT ![day] = @ + 1] ELSE unnoted
    /\ UNCHANGED <<day, stretch, recapRows, attributed, recaps, bypassed>>
ShutdownEnds == phase = "bare" /\ ProcessEnds /\ IF recapTask = "write" THEN Fault ELSE NoFault
SuiteCrash == phase # "down" /\ ProcessEnds /\ Fault

-------------------------------------------------------------------------------
(* _should_fire_daily_recap: in the window, on a trading day, no row.      *)
ShouldFire_AnyDay == stretch = "window" /\ day \notin recapRows
ShouldFire == stretch = "window" /\ day \in TradingDays /\ day \notin recapRows

(* run_daily_recap_scheduler and _fire_daily_recap_moment: published       *)
(* first; the row comes after, and a failure to write it is only logged,   *)
(* as is one of the attribution snapshot.                                  *)
RecapPolls ==
    /\ recapTask = "poll" /\ stretch = "window"
    /\ polled' = TRUE
    /\ IF ShouldFire
       THEN /\ Published("recap")
            /\ recaps' = [recaps EXCEPT ![day] = @ + 1] /\ recapTask' = "write"
       ELSE UNCHANGED <<ledger, recaps, recapTask>>
    /\ UNCHANGED <<phase, arbiter, running, day, stretch, recapRows, attributed, unnoted, bypassed, faults>>
RowWritten == recapRows \cup {day}
RecapIsNoted ==
    /\ recapTask = "write" /\ recapTask' = "poll"
    /\ \/ recapRows' = RowWritten /\ unnoted' = unnoted /\ NoFault
       \/ recapRows' = recapRows /\ unnoted' = [unnoted EXCEPT ![day] = @ + 1] /\ Fault
    /\ attributed' \in {attributed, attributed \cup {day}}
    /\ UNCHANGED <<phase, arbiter, running, ledger, day, stretch, recaps, polled, bypassed>>

(* push_recap: the operator's recap writes no row.                         *)
OperatorPushes ==
    /\ phase = "up" /\ Published("recap")
    /\ UNCHANGED <<processVars, day, stretch, recapVars, polled, bypassed, faults>>

(* The clock.  A window is sixty polls long, so a loop that runs polls in  *)
(* it and ends what it has begun; not all of its polls fail.               *)
ClockMoves ==
    /\ recapTask # "write" /\ (stretch = "window" /\ recapTask = "poll" => polled)
    /\ \/ stretch = "before" /\ stretch' = "window" /\ day' = day
       \/ stretch = "window" /\ stretch' = "after" /\ day' = day
       \/ stretch = "after" /\ day < MaxDay /\ stretch' = "before" /\ day' = day + 1
    /\ polled' = FALSE
    /\ UNCHANGED <<processVars, ledger, recapVars, bypassed, faults>>

SuiteNext ==
    \/ BootBegins \/ SidecarStarts \/ BootEnds
    \/ ShutdownBegins \/ SidecarStops \/ ArbiterLeaves \/ ShutdownEnds \/ SuiteCrash
    \/ RecapPolls \/ RecapIsNoted \/ OperatorPushes \/ ClockMoves
    \/ \E s \in Sidecars : SidecarPublishes(s)

SuiteSpec == SuiteInit /\ [][SuiteNext]_suiteVars

-------------------------------------------------------------------------------
(* Nothing a coordinator publishes, from its start to the end of its stop, *)
(* misses the ledger and the slots.                                        *)
SidecarsAreRouted == bypassed = {}

(* A recap is repeated only when the row of the one before was lost, to a  *)
(* crash, a shutdown or a failed write: restarts in the window, operators' *)
(* pushes and polls repeat none.                                           *)
RecapRepeatsForAReason ==
    \A d \in Days : recaps[d] <= 1 + unnoted[d] /\ (d \in recapRows => recaps[d] > unnoted[d])

(* When the window of a trading day closes on a running loop, its recap    *)
(* has been shown, by this process or by one before it; no other day ever  *)
(* has one.                                                                *)
RecapIsShown ==
    [][/\ (stretch = "window" /\ stretch' = "after" /\ recapTask = "poll" /\ day \in TradingDays
             => recaps[day] > 0)
       /\ \A d \in Days \ TradingDays : recaps'[d] = 0]_suiteVars

(* A trading day's recap is shown, and again only if the row that says so  *)
(* was lost (RecapRepeatsForAReason, RecapIsShown).                        *)
RecapOncePerDay == []RecapRepeatsForAReason /\ RecapIsShown
================================================================================
