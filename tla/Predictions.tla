----------------------------- MODULE Predictions -----------------------------
(***************************************************************************)
(* The audience predictions, orchestrator/predictions.py: two questions a  *)
(* day, open for votes until 9:30 ET, locked until 16:00, then revealed,   *)
(* and replaced at 17:00 by the questions of the next day.                 *)
(*                                                                         *)
(* The clock is a day and a part of the day; the board looks at it every   *)
(* 30 seconds (BoardTicks), so every part of the day sees a tick.  A tick   *)
(* and a vote never wait: the lock of the event bus they publish to is     *)
(* held by nobody across an await.                                         *)
(***************************************************************************)
EXTENDS Integers, Sequences, FiniteSets, FiniteSetsExt, Functions

CONSTANTS
    Voters,   \* who may vote
    Picks,    \* what "pick-winner" is answered with; the agents are among it
    AgentList, \* the names of the agents, in the orchestrator's order
    Totals,   \* realized plus unrealized P&L an agent may have at the close
    Marks,    \* prices of SPY
    MaxDay    \* bound on the days

Agents == Range(AgentList)
Unknown == ""  \* no vote, no winner
NoMark == 0

Directions == {"up", "down"}
Ids == {"pick-winner", "spy-direction"}
Options(id) == IF id = "spy-direction" THEN Directions ELSE Picks

ASSUME PredictionsAssumption ==
    /\ MaxDay \in Nat /\ Marks \subseteq Nat \ {0} /\ Totals \subseteq Int
    /\ IsFiniteSet(Voters) /\ AgentList \in Seq(Picks) /\ Unknown \notin Picks
    /\ \A i, j \in DOMAIN AgentList : AgentList[i] = AgentList[j] => i = j

VARIABLES
    day, part,  \* the date and the part of the day, in ET
    ticked,     \* has the board looked at the clock in this part of the day?
    dated,      \* _session_date
    lastReset,  \* _last_reset_date, -1 for None
    baseline,   \* _spy_baseline
    round       \* _predictions: of each its status, votes, tally, winner, and
                \* whether what viewers saw of it last is "current", "stale" or "never"
clockVars == <<day, part, ticked>>
boardVars == <<dated, lastReset, baseline, round>>
predictionVars == <<clockVars, boardVars>>

Parts == <<"morning", "session", "close", "evening">>  \* 9:30, 16:00, 17:00

Predictions(id) ==
    [ status : {"open", "locked", "revealed"}, voters : [Voters -> Options(id) \cup {Unknown}],
      tally : [Options(id) -> Nat], winner : Options(id) \cup {Unknown},
      shown : {"never", "stale", "current"} ]
PredictionsTypeOK ==
    /\ day \in 0 .. MaxDay /\ part \in Range(Parts) /\ ticked \in BOOLEAN
    /\ dated \in 0 .. MaxDay + 1 /\ lastReset \in -1 .. MaxDay
    /\ baseline \in Marks \cup {NoMark}
    /\ DOMAIN round = Ids /\ \A id \in Ids : round[id] \in Predictions(id)

(* _seed_session and _build_fresh_session: both questions, open, unanswered. *)
FreshRound ==
    [id \in Ids |->
        [ status |-> "open", voters |-> [v \in Voters |-> Unknown],
          tally |-> [o \in Options(id) |-> 0], winner |-> Unknown, shown |-> "never" ]]

PredictionsInit ==
    /\ day = 0 /\ part \in Range(Parts) /\ ticked = FALSE
    /\ dated = 0 /\ lastReset = -1 /\ baseline = NoMark /\ round = FreshRound

-------------------------------------------------------------------------------
(***************************************************************************)
(* record_vote: refused unless the question is open; a second vote of a    *)
(* voter moves the first.  The publication that follows is suppressed      *)
(* ("debounced") when there was one less than a second ago.                *)
(***************************************************************************)
Moved(tally, from, to) ==
    [o \in DOMAIN tally |-> tally[o] + (IF o = to THEN 1 ELSE 0) - (IF o = from THEN 1 ELSE 0)]

Accepts(p) == p.status = "open"

SameVote(p, voter, option) == p.voters[voter] = option
RecordVote(r, id, voter, option, debounced) ==
    LET p == r[id]
    IN  IF ~Accepts(p) \/ SameVote(p, voter, option) THEN r
        ELSE [r EXCEPT ![id] =
                [p EXCEPT !.voters[voter] = option,
                          !.tally = Moved(@, p.voters[voter], option),
                          !.shown = IF debounced /\ @ # "never" THEN "stale" ELSE "current"]]

(* _resolve_pick_winner: the first agent with the highest total. *)
PickWinner(total) ==
    IF Agents = {} THEN Unknown
    ELSE AgentList[Min({i \in DOMAIN AgentList : \A b \in Agents : total[AgentList[i]] >= total[b]})]
(* _resolve_spy_direction *)
SpyDirection(base, mark) ==
    IF NoMark \in {base, mark} THEN Unknown ELSE IF mark >= base THEN "up" ELSE "down"
Winner(id, base, mark, total) ==
    IF id = "pick-winner" THEN PickWinner(total) ELSE SpyDirection(base, mark)

(* The first mark of a session becomes its baseline. *)
BaselineAt(mark) == IF baseline = NoMark THEN mark ELSE baseline

(* After 17:00, once a day: tomorrow's questions.  Nothing is published. *)
ResetDue == part = "evening" /\ lastReset # day
ResetTo == day + 1
TickResets ==
    /\ ResetDue
    /\ lastReset' = day /\ dated' = ResetTo /\ baseline' = NoMark /\ round' = FreshRound

(* Questions of a day to come are left alone. *)
NotYet == dated > day
TickWaits(mark) ==
    /\ ~ResetDue /\ NotYet
    /\ baseline' = BaselineAt(mark)
    /\ UNCHANGED <<dated, lastReset, round>>

(* Where the time of day takes a question; a change is always published,   *)
(* and an open question at least every ten seconds.                        *)
StatusAt(status) ==
    CASE status = "open" /\ part = "session" -> "locked"
      [] status \in {"open", "locked"} /\ part \in {"close", "evening"} -> "revealed"
      [] OTHER -> status
Publishes_Debounced(old, new) == new = "open"
Publishes(old, new) == new # old \/ new = "open"
Advanced(id, p, base, mark, total) ==
    LET status == StatusAt(p.status)
    IN  [p EXCEPT !.status = status,
                  !.winner = IF status = "revealed" /\ p.status # "revealed"
                             THEN Winner(id, base, mark, total) ELSE @,
                  !.shown = IF Publishes(p.status, status) THEN "current" ELSE @]
TickAdvances(mark, total) ==
    /\ ~ResetDue /\ ~NotYet
    /\ baseline' = BaselineAt(mark)
    /\ round' = [id \in Ids |-> Advanced(id, round[id], BaselineAt(mark), mark, total)]
    /\ UNCHANGED <<dated, lastReset>>

(* tick *)
BoardTicks ==
    /\ \/ TickResets
       \/ \E mark \in Marks \cup {NoMark} :
            \/ TickWaits(mark)
            \/ \E total \in [Agents -> Totals] : TickAdvances(mark, total)
    /\ ticked' = TRUE
    /\ UNCHANGED <<day, part>>

-------------------------------------------------------------------------------
(* The next part of the day. *)
ClockAdvances ==
    /\ ticked
    /\ IF part = "evening" THEN /\ day < MaxDay
                                /\ day' = day + 1 /\ part' = "morning"
       ELSE /\ day' = day
            /\ \E i \in 1 .. 3 : part = Parts[i] /\ part' = Parts[i + 1]
    /\ ticked' = FALSE
    /\ UNCHANGED boardVars

(* The process starts again: votes are not persisted. *)
BoardRestarts ==
    /\ dated' = day /\ lastReset' = -1 /\ baseline' = NoMark /\ round' = FreshRound
    /\ ticked' = FALSE
    /\ UNCHANGED <<day, part>>

-------------------------------------------------------------------------------
(* The tally of a question is the number of voters behind each option.     *)
TallyCounts ==
    \A id \in Ids : \A o \in Options(id) :
        round[id].tally[o] = Cardinality({v \in Voters : round[id].voters[v] = o})

(* The board of a day to come is open, whatever the hour at which it was   *)
(* made: it does not walk through its states on the evening of the reset.  *)
NoWalkthrough == dated > day => \A id \in Ids : round[id].status = "open"

(* After a tick the board is the one the hour calls for, whatever the hour *)
(* at which the process started or restarted.                               *)
Wanted == [ morning |-> "open", session |-> "locked", close |-> "revealed",
            evening |-> "open" ][part]
BoardFollowsTheDay ==
    ticked =>
        /\ dated = (IF part = "evening" THEN day + 1 ELSE day)
        /\ \A id \in Ids : round[id].status = Wanted

(* Viewers have seen the final tally, and the winner, of a question that is *)
(* locked or revealed, however its publications were debounced.             *)
DecidedIsShown ==
    \A id \in Ids : round[id].status # "open" => round[id].shown = "current"

(* While the board stays, votes do not change once they are locked, and    *)
(* neither does a winner that was revealed; votes for the next day survive  *)
(* the evening's ticks.                                                     *)
VotesFreeze ==
    [][\A id \in Ids :
          /\ round[id].status # "open" /\ round'[id].status # "open" =>
                round'[id].voters = round[id].voters
          /\ round[id].status = "revealed" /\ round'[id].status # "open" =>
                round'[id] = round[id]
          /\ dated > day /\ ticked /\ ticked' =>
                \A v \in Voters : round[id].voters[v] # Unknown => round'[id].voters[v] # Unknown
      ]_predictionVars
===============================================================================
