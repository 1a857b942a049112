------------------------------ MODULE LiveStream ------------------------------
(***************************************************************************)
(* The event bus, api/events.py, the WebSocket clients that subscribe to   *)
(* it, api/ws.py, the recorder of their frames, api/ws_recording.py, and   *)
(* the operator's lower thirds, api/lower_third_log.py, as one source of   *)
(* events.                                                                 *)
(*                                                                         *)
(* The recorder is best-effort: a write that fails is logged, and the      *)
(* frame is sent all the same.                                             *)
(*                                                                         *)
(* Publishing never waits; a client's loop waits for its inbox and for     *)
(* each frame it sends.  A socket that broke is noticed by the next send.  *)
(* Events are numbered in the order in which they are published.           *)
(***************************************************************************)
EXTENDS Integers, SequencesExt, FiniteSets

CONSTANTS
    Clients,
    Taped,     \* the clients that ask for a recording, all of one session
    SlowAt,       \* MAX_QUEUE (100): more than that and the client is slow
    QueueCap,     \* the size of an inbox (2 * MAX_QUEUE)
    RingSize,     \* DEFAULT_RING_SIZE of the lower-third log
    MaxEvents,    \* bound on the events
    Thirds,       \* which of them are lower thirds
    MaxRecorders, \* bound on the recorders ever opened
    MaxWriteErrors \* bound on the failed writes of a connection

ASSUME LiveStreamAssumption ==
    /\ IsFiniteSet(Clients) /\ Taped \subseteq Clients
    /\ {SlowAt, QueueCap, RingSize} \subseteq Nat \ {0} /\ SlowAt + 1 < QueueCap
    /\ {MaxEvents, MaxRecorders, MaxWriteErrors} \subseteq Nat /\ Thirds \subseteq 1 .. MaxEvents

VARIABLES
    events,    \* how many were published
    thirds,    \* the lower-third log: their events, oldest first
    dropped,   \* _dropped_count since the gap was asked for last
    told,      \* history: the losses the answers about the gap have named so far
    at,        \* where a client's handler is: "away", "handshake", "wait" (in q.get) or "send"
    broken,    \* the clients whose socket is broken
    inbox,     \* of each subscriber, the events it has not sent
    sending,   \* the event it is sending, as a sequence of at most one
    got,       \* history: the events the client received on this connection
    missed,    \* history: the events dropped on this connection
    since,     \* history: the events published before it subscribed
    registry,  \* _SESSION_RECS of the session: the current recorder, 0 if none
    recorders, \* how many were opened
    closed,    \* those that were closed
    recorder,  \* the recorder a connection looked up when it subscribed, or 0
    filed,     \* history: the events of the connection that were recorded
    unwritten  \* history: those whose write to the recording failed
busVars == <<events, thirds, dropped, told>>
connVars == <<at, broken, inbox, sending, got, missed, since>>
recordingVars == <<registry, recorders, closed, recorder, filed, unwritten>>
streamVars == <<busVars, connVars, recordingVars>>

Events == 1 .. MaxEvents
StreamTypeOK ==
    /\ events \in 0 .. MaxEvents /\ dropped \in Nat /\ told \in Nat
    /\ thirds \in Seq(Events) /\ Len(thirds) <= RingSize
    /\ at \in [Clients -> {"away", "handshake", "wait", "send"}]
    /\ broken \subseteq Clients
    /\ inbox \in [Clients -> Seq(Events)] /\ \A c \in Clients : Len(inbox[c]) <= QueueCap
    /\ \A c \in Clients : Len(sending[c]) = (IF at[c] = "send" THEN 1 ELSE 0)
    /\ got \in [Clients -> Seq(Events)] /\ filed \in [Clients -> Seq(Events)]
    /\ {missed, unwritten} \subseteq [Clients -> SUBSET Events] /\ since \in [Clients -> 0 .. MaxEvents]
    /\ recorders \in 0 .. MaxRecorders /\ registry \in 0 .. recorders
    /\ closed \subseteq 1 .. recorders
    /\ recorder \in [Clients -> 0 .. recorders]

Nothing == [c \in Clients |-> <<>>]
StreamInit ==
    /\ events = 0 /\ thirds = <<>> /\ dropped = 0 /\ told = 0
    /\ at = [c \in Clients |-> "away"] /\ broken = {}
    /\ inbox = Nothing /\ sending = Nothing /\ got = Nothing /\ filed = Nothing
    /\ missed = [c \in Clients |-> {}] /\ unwritten = missed /\ since = [c \in Clients |-> 0]
    /\ registry = 0 /\ recorders = 0 /\ closed = {}
    /\ recorder = [c \in Clients |-> 0]

-------------------------------------------------------------------------------
Subscribers == {c \in Clients : at[c] \in {"wait", "send"}}

(* publish: into every inbox that is not full; for a full one the loss is  *)
(* counted, for all clients together.                                      *)
Full(q) == Len(q) >= QueueCap
Lagging == {c \in Subscribers : Full(inbox[c])}
Enqueued_NewestOnly(q, n) == IF Full(q) THEN Append(Tail(q), n) ELSE Append(q, n)
Enqueued(q, n) == IF Full(q) THEN q ELSE Append(q, n)
Fanout(n) ==
    /\ events' = n
    /\ inbox' = [c \in Clients |-> IF c \in Subscribers THEN Enqueued(inbox[c], n) ELSE inbox[c]]
    /\ missed' = [c \in Clients |-> IF c \in Lagging THEN missed[c] \cup {n} ELSE missed[c]]
    /\ dropped' = dropped + Cardinality(Lagging)
    /\ UNCHANGED <<told, at, broken, sending, got, since, recordingVars>>

PublishEvent ==
    /\ events < MaxEvents /\ events + 1 \notin Thirds
    /\ Fanout(events + 1)
    /\ UNCHANGED thirds

(* push_lower_third: logged in the ring, then published. *)
Logged(log, n) ==
    IF Len(log) < RingSize THEN Append(log, n) ELSE Append(Tail(log), n)
PushLowerThird ==
    /\ events + 1 \in Thirds
    /\ thirds' = Logged(thirds, events + 1)
    /\ Fanout(events + 1)

(* stream_gap: the count is read and reset. *)
AskForGap ==
    /\ dropped > 0 /\ dropped' = 0 /\ told' = told + dropped
    /\ UNCHANGED <<events, thirds, connVars, recordingVars>>

-------------------------------------------------------------------------------
(* ws_stream: accept, hello, and half a second for a replay request; the   *)
(* client is not subscribed yet.                                           *)
Connect(c) ==
    /\ at[c] = "away"
    /\ at' = [at EXCEPT ![c] = "handshake"]
    /\ UNCHANGED <<busVars, broken, inbox, sending, got, missed, since, recordingVars>>

(* The handler ends, and with it the subscription: what is queued is lost. *)
Leave(c) ==
    /\ at' = [at EXCEPT ![c] = "away"]
    /\ inbox' = [inbox EXCEPT ![c] = <<>>] /\ sending' = [sending EXCEPT ![c] = <<>>]
    /\ recorder' = [recorder EXCEPT ![c] = 0]
    /\ broken' = broken \ {c}
    /\ got' = [got EXCEPT ![c] = <<>>] /\ filed' = [filed EXCEPT ![c] = <<>>]
    /\ missed' = [missed EXCEPT ![c] = {}] /\ since' = [since EXCEPT ![c] = 0]
    /\ unwritten' = [unwritten EXCEPT ![c] = {}]
    /\ UNCHANGED <<busVars, registry, recorders, closed>>

(* A replay is served from a manifest and closed; the bus plays no part.   *)
ServeReplay(c) ==
    /\ at[c] = "handshake"
    /\ Leave(c)

(* get_or_create_recorder *)
CurrentRecorder == IF registry # 0 THEN registry ELSE recorders + 1
OpenRecorder(r) ==
    /\ r <= MaxRecorders
    /\ registry' = r
    /\ recorders' = IF r > recorders THEN r ELSE recorders

(* _stream_live: the recorder is looked up, then the bus subscribed to; if *)
(* the file of a new recorder cannot be opened, the connection ends.       *)
GoLive(c) ==
    /\ at[c] = "handshake"
    /\ at' = [at EXCEPT ![c] = "wait"]
    /\ since' = [since EXCEPT ![c] = events]
    /\ IF c \in Taped
       THEN OpenRecorder(CurrentRecorder) /\ recorder' = [recorder EXCEPT ![c] = CurrentRecorder]
       ELSE UNCHANGED <<registry, recorders, recorder>>
    /\ UNCHANGED <<busVars, broken, inbox, sending, got, missed, closed, filed, unwritten>>

NoRecorder(c) ==
    /\ at[c] = "handshake" /\ c \in Taped /\ registry = 0
    /\ Leave(c)

(* WsRecorder.record: nothing once the recorder is closed; a write that    *)
(* fails is swallowed, and all that is left of it is a line in the log.    *)
Recording(c) == recorder[c] \notin closed \cup {0}
Written(c, n) == filed' = [filed EXCEPT ![c] = Append(@, n)] /\ unwritten' = unwritten
WriteFails(c, n) ==
    /\ Cardinality(unwritten[c]) < MaxWriteErrors
    /\ unwritten' = [unwritten EXCEPT ![c] = @ \cup {n}] /\ filed' = filed
Record(c, n) ==
    IF Recording(c) THEN Written(c, n) \/ WriteFails(c, n) ELSE UNCHANGED <<filed, unwritten>>

(* An event is recorded and then sent. *)
Take(c) ==
    /\ at' = [at EXCEPT ![c] = "send"]
    /\ sending' = [sending EXCEPT ![c] = <<Head(inbox[c])>>]
    /\ inbox' = [inbox EXCEPT ![c] = Tail(@)]
    /\ Record(c, Head(inbox[c]))
    /\ UNCHANGED <<busVars, broken, missed, since, registry, recorders, closed, recorder>>

(* The get that found the inbox empty returns: however much arrived         *)
(* meanwhile, it hands over one event.                                      *)
TakeEvent(c) ==
    /\ at[c] = "wait" /\ inbox[c] # <<>>
    /\ Take(c)
    /\ UNCHANGED got

(* The top of the loop, after a frame was sent: a client that is behind by *)
(* more than SlowAt events is told to go away; an event that is there is   *)
(* taken without giving up control.                                        *)
Slow(c) == Len(inbox[c]) > SlowAt
Received(c) == got' = [got EXCEPT ![c] = @ \o sending[c]]
EventSent(c) ==
    /\ at[c] = "send" /\ c \notin broken
    /\ \/ Slow(c) /\ Leave(c)
       \/ ~Slow(c) /\ inbox[c] # <<>> /\ Received(c) /\ Take(c)
       \/ /\ inbox[c] = <<>>
          /\ Received(c)
          /\ at' = [at EXCEPT ![c] = "wait"]
          /\ sending' = [sending EXCEPT ![c] = <<>>]
          /\ UNCHANGED <<busVars, broken, inbox, missed, since, recordingVars>>
SendFails(c) ==
    /\ at[c] = "send" /\ c \in broken
    /\ Leave(c)

(* The environment: a socket breaks. *)
Disconnect(c) ==
    /\ at[c] # "away" /\ c \notin broken
    /\ broken' = broken \cup {c}
    /\ UNCHANGED <<busVars, at, inbox, sending, got, missed, since, recordingVars>>

-------------------------------------------------------------------------------
(* start_ws_recording: before a client of the session has connected, or again. *)
StartRecording ==
    /\ registry = 0
    /\ OpenRecorder(CurrentRecorder)
    /\ UNCHANGED <<busVars, connVars, closed, recorder, filed, unwritten>>
(* stop_ws_recording *)
StopRecording ==
    /\ registry # 0
    /\ closed' = closed \cup {registry} /\ registry' = 0
    /\ UNCHANGED <<busVars, connVars, recorders, recorder, filed, unwritten>>

StreamNext ==
    \/ PublishEvent
    \/ PushLowerThird
    \/ AskForGap
    \/ \E c \in Clients : Connect(c)
    \/ \E c \in Clients : ServeReplay(c)
    \/ \E c \in Clients : GoLive(c)
    \/ \E c \in Clients : NoRecorder(c)
    \/ \E c \in Clients : TakeEvent(c)
    \/ \E c \in Clients : EventSent(c)
    \/ \E c \in Clients : SendFails(c)
    \/ \E c \in Clients : Disconnect(c)
    \/ StartRecording
    \/ StopRecording

StreamSpec == StreamInit /\ [][StreamNext]_streamVars
(* The event loop keeps running a handler that is ready, and a socket that  *)
(* is not broken takes its frame at some time.                              *)
FairSpec ==
    /\ StreamSpec
    /\ \A c \in Clients :
          WF_streamVars(TakeEvent(c)) /\ WF_streamVars(EventSent(c)) /\ WF_streamVars(SendFails(c))

-------------------------------------------------------------------------------
(* Nothing is lost uncounted while a client is connected: every event      *)
(* since it subscribed was received, is being sent or is in its inbox, in  *)
(* order as long as none was dropped, or it was dropped; and of all that   *)
(* was dropped for those now connected the counter shows, or an answer     *)
(* about the gap has told, no less.                                        *)
Pipeline(c) == got[c] \o sending[c] \o inbox[c]
Lost == UNION {{c} \X missed[c] : c \in Clients}
NothingLostSilently ==
    /\ \A c \in Subscribers :
          /\ since[c] + 1 .. events \subseteq
                ToSet(got[c]) \cup ToSet(sending[c]) \cup ToSet(inbox[c]) \cup missed[c]
          /\ missed[c] = {} => Pipeline(c) = [i \in 1 .. events - since[c] |-> since[c] + i]
    /\ Cardinality(Lost) <= dropped + told

(* Losses start late: an event is dropped only for a client that has a full *)
(* backlog, which it will be sent away for, and what it has received by then*)
(* has no gap.                                                              *)
NoGapOnScreen ==
    \A c \in Subscribers :
        got[c] \o sending[c] = [i \in 1 .. Len(got[c] \o sending[c]) |-> since[c] + i]

(* There is at most one open recorder of the session, the one the registry  *)
(* knows.                                                                   *)
OneOpenRecorder == (1 .. recorders) \ closed = {registry} \ {0}

(* A connection of the session asks for a recording and has one: until the *)
(* recorder is closed, every frame that flowed through it is in the file,  *)
(* once and in order, or its write failed and is in the log; and nothing   *)
(* else of the connection is in the file.                                  *)
InOrder(s) == \A i, j \in DOMAIN s : i < j => s[i] < s[j]
RecordingIsComplete ==
    \A c \in Subscribers \cap Taped :
        recorder[c] \notin closed =>
            /\ ToSet(got[c] \o sending[c]) = ToSet(filed[c]) \cup unwritten[c]
            /\ InOrder(filed[c])

(* The stream is whole for every client: nothing is lost uncounted, no gap *)
(* reaches a screen, and the session's one open recorder has filed every   *)
(* frame it could write (the four above).                                  *)
StreamIsWhole ==
    NothingLostSilently /\ NoGapOnScreen /\ OneOpenRecorder /\ RecordingIsComplete

(* A client that is sent away as slow, with events it will not get, finds  *)
(* a loss when it asks for the gap.                                         *)
GapIsReported ==
    [][\A c \in Clients :
         (c \notin broken /\ at'[c] = "away" /\ inbox[c] # <<>>) => dropped' > 0]_streamVars
===============================================================================
