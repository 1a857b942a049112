------------------------------- MODULE RiskExits -------------------------------
(***************************************************************************)
(* The exits of risk/manager.py as a tick applies them to the one position *)
(* of an agent: thresholds on the entry price, on the days held and on the *)
(* trailing peak, which outlives a tick and must not outlive the position. *)
(*                                                                         *)
(* Times are compared only between the opening of a position and the       *)
(* seeding of a peak, so a seed is of this position or of an earlier one.  *)
(***************************************************************************)
EXTENDS Integers

CONSTANTS
    Marks,          \* prices
    StopLoss, TakeProfit, TrailingStop,   \* percent
    MaxHold         \* risk_max_hold_days

ASSUME RiskExitsAssumption ==
    /\ Marks \subseteq Nat \ {0}
    /\ {StopLoss, TakeProfit, TrailingStop, MaxHold} \subseteq Nat

VARIABLES
    held,         \* the position: its average price, 0 when flat
    daysHeld,     \* trading days since it was opened, up to MaxHold
    peak,         \* _peak
    seeded,       \* _peak_seeded_at: "never", of "this" position or an "earlier" one
    pendingExit,  \* _pending_exits
    best          \* history: the best price the trailing rule has seen of this position
exitVars == <<held, daysHeld, peak, seeded, pendingExit, best>>

ExitsTypeOK ==
    /\ {held, peak, best} \subseteq Marks \cup {0}
    /\ daysHeld \in 0 .. MaxHold
    /\ seeded \in {"never", "this", "earlier"}
    /\ pendingExit \in BOOLEAN

ExitsInit ==
    /\ held = 0 /\ daysHeld = 0 /\ peak = 0 /\ best = 0
    /\ seeded = "never" /\ pendingExit = FALSE

(* The peak should_exit works with: a fresh one for a fresh position.      *)
Seeded_EveryTick == held
Seeded == IF seeded = "this" THEN peak ELSE held
Higher(a, b) == IF a > b THEN a ELSE b

(* should_exit: the first rule that fires. *)
Fires(mark) ==
    IF 100 * mark <= (100 - StopLoss) * held THEN "stop-loss"
    ELSE IF 100 * mark >= (100 + TakeProfit) * held THEN "take-profit"
    ELSE IF daysHeld >= MaxHold THEN "time-stop"
    ELSE IF 100 * mark <= (100 - TrailingStop) * Higher(Seeded, mark) THEN "trailing-stop"
    ELSE "none"
(* Only a check that gets as far as the trailing rule moves the peak. *)
Tracks(fired) == fired \in {"trailing-stop", "none"}
Track(mark, fired) ==
    IF Tracks(fired)
    THEN peak' = Higher(Seeded, mark) /\ seeded' = "this" /\ best' = Higher(IF best = 0 THEN held ELSE best, mark)
    ELSE UNCHANGED <<peak, seeded, best>>

(* clear_peak, once the position is flat. *)
ClearPeak == peak' = 0 /\ seeded' = "never" /\ best' = 0
Closes == held' = 0 /\ daysHeld' = 0 /\ pendingExit' = FALSE /\ ClearPeak

(* The guard of an exit under way is given up when it is too old. *)
PendingExpires ==
    /\ pendingExit /\ pendingExit' = FALSE
    /\ UNCHANGED <<held, daysHeld, peak, seeded, best>>

(* A tick that finds no reason to exit; the strategy may sell by itself. *)
TickHolds(mark) ==
    /\ held # 0 /\ ~pendingExit /\ Fires(mark) = "none"
    /\ \/ Track(mark, "none") /\ UNCHANGED <<held, daysHeld, pendingExit>>
       \/ Closes

(* A risk exit is queued; its order fills ... *)
TickExits(mark) ==
    /\ held # 0 /\ ~pendingExit /\ Fires(mark) # "none"
    /\ Closes

(* ... or is refused, and the guard remains. *)
TickExitRefused(mark) ==
    /\ held # 0 /\ ~pendingExit /\ Fires(mark) # "none"
    /\ Track(mark, Fires(mark))
    /\ pendingExit' = TRUE
    /\ UNCHANGED <<held, daysHeld>>

(* A flat agent buys at the mark.  No peak is seeded before the next tick. *)
(* Every close clears the peak, so that what is compared here is a second  *)
(* line of defence.                                                        *)
TickEnters(mark) ==
    /\ held = 0
    /\ held' = mark /\ daysHeld' = 0 /\ best' = 0
    /\ seeded' = IF seeded = "this" THEN "earlier" ELSE seeded
    /\ UNCHANGED <<peak, pendingExit>>

(* The reconciler moves the entry to its actual price. *)
EntryCorrected(price) ==
    /\ held # 0
    /\ held' = price
    /\ UNCHANGED <<daysHeld, peak, seeded, pendingExit, best>>

(* A trading day, as trading_days_between counts them. *)
DayPasses ==
    /\ held # 0 /\ daysHeld < MaxHold
    /\ daysHeld' = daysHeld + 1
    /\ UNCHANGED <<held, peak, seeded, pendingExit, best>>

(* A change of rank gives the agent a new RiskManager, without peaks. *)
RankChanges ==
    /\ ClearPeak
    /\ UNCHANGED <<held, daysHeld, pendingExit>>

ExitsNext ==
    \/ PendingExpires \/ DayPasses \/ RankChanges
    \/ \E price \in Marks :
          \/ TickHolds(price) \/ TickExits(price) \/ TickExitRefused(price)
          \/ TickEnters(price) \/ EntryCorrected(price)

(* Days pass, guards expire, and the broker does not refuse for ever.  A   *)
(* tick that could exit infinitely often does exit in the end.             *)
ExitsFairness ==
    /\ WF_exitVars(DayPasses) /\ WF_exitVars(PendingExpires)
    /\ SF_exitVars(\E mark \in Marks : TickExits(mark))

ExitsSpec == ExitsInit /\ [][ExitsNext]_exitVars /\ ExitsFairness

-------------------------------------------------------------------------------
(* The trailing peak is the best of the entry price as first known and of  *)
(* the marks checked since, while rank and position last: neither a former *)
(* position's peak nor less than what was seen.                            *)
PeakIsOfThisPosition ==
    held # 0 /\ seeded = "this" => peak = best

(* Positions close on some schedule, whatever the strategy does. *)
PositionsClose == held # 0 ~> held = 0
================================================================================
