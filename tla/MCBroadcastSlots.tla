-------------------------- MODULE MCBroadcastSlots ---------------------------
(* Instances for TLC of the slots of the broadcast, of the producers of    *)
(* its moments and of the stream that carries them to the screens.  They   *)
(* share no variable, so a behaviour lets one of them run and leaves the   *)
(* others where they start.                                                *)
EXTENDS BroadcastSlots, AutoDirector, StreakWatcher, Commentary, Suite, LiveStream

VARIABLE part   \* the module that runs
slotVars == vars
broadcastVars == <<slotVars, dirVars, stVars, talkVars, suiteVars, streamVars, part>>

M(id, priority, ttl, outputs) ==
    [id |-> id, priority |-> priority, ttl |-> ttl, outputs |-> outputs]

MCOutputs == {"banner", "ticker", "log"}

(* Overlapping pairs of outputs at three priorities, one id that comes     *)
(* back with another priority.                                             *)
MCMoments ==
    { M("a", 1, 3, {"banner", "ticker"}), M("b", 2, 2, {"ticker", "log"}),
      M("c", 1, 1, {"log"}), M("d", 3, 1, {"banner"}), M("e", 1, 2, {"ticker", "log"}),
      M("e", 2, 2, {"banner"}) }

MCStartOrder == <<"director", "board", "audience">>
MCStopOrder == <<"director", "audience", "board">>

BroadcastInit ==
    /\ part \in {"slots", "director", "streaks", "commentary", "suite", "stream"}
    /\ Init /\ DirInit /\ StInit /\ TalkInit /\ SuiteInit /\ StreamInit

BroadcastNext ==
    /\ part' = part
    /\ \/ part = "slots" /\ Next /\ UNCHANGED <<dirVars, stVars, talkVars, suiteVars, streamVars>>
       \/ part = "director" /\ DirNext /\ UNCHANGED <<slotVars, stVars, talkVars, suiteVars, streamVars>>
       \/ part = "streaks" /\ StNext /\ UNCHANGED <<slotVars, dirVars, talkVars, suiteVars, streamVars>>
       \/ part = "commentary" /\ TalkNext /\ UNCHANGED <<slotVars, dirVars, stVars, suiteVars, streamVars>>
       \/ part = "suite" /\ SuiteNext /\ UNCHANGED <<slotVars, dirVars, stVars, talkVars, streamVars>>
       \/ part = "stream" /\ StreamNext /\ UNCHANGED <<slotVars, dirVars, stVars, talkVars, suiteVars>>

(* The loop of the commentary keeps polling, and its calls end: they have  *)
(* a deadline of twenty seconds.                                           *)
BroadcastSpec ==
    /\ BroadcastInit /\ [][BroadcastNext]_broadcastVars
    /\ WF_talkVars(part = "commentary" /\ Asks) /\ WF_talkVars(part = "commentary" /\ Speaks)

(* The types of all variables, among them the bounds on the queue, the     *)
(* ledger of the recap, the inboxes of the stream and its log.             *)
BroadcastTypeOK == TypeOK /\ DirTypeOK /\ StTypeOK /\ TalkTypeOK /\ SuiteTypeOK /\ StreamTypeOK
==============================================================================
