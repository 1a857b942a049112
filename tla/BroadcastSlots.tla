---------------------------- MODULE BroadcastSlots ----------------------------
(***************************************************************************)
(* orchestrator/broadcast_scheduler.py: which broadcast moments occupy the *)
(* presentation outputs (banner, ticker, ...), and which wait in the queue.*)
(* publish_broadcast_moment submits every moment here and publishes one    *)
(* slot event per moment whose state changed.                              *)
(*                                                                         *)
(* submit_slots is synchronous.  Its drain loop is one action per round,   *)
(* so a submission is  Submit Activate* Announce  with nothing between.    *)
(*                                                                         *)
(* The clock is monotonic, so ordering the queue by (enqueued_at, sequence)*)
(* is ordering it by sequence.  The suite's shutdown and the texts of the  *)
(* moments are left out.                                                   *)
(***************************************************************************)
EXTENDS Integers, FiniteSets

CONSTANTS
    Outputs,      \* the presentation outputs
    Moments,      \* the moments producers may submit
    Free,         \* an output nobody occupies
    MaxQueue,     \* max_queue_size
    MaxTime,      \* bound on the clock
    MaxSubmits    \* bound on the submissions

Ids == {m.id : m \in Moments}

(* Priorities and TTLs are the clamped ones of _priority and _ttl_sec.     *)
ASSUME BroadcastSlotsAssumption ==
    /\ \A m \in Moments : /\ DOMAIN m = {"id", "priority", "ttl", "outputs"}
                          /\ m.priority \in 0 .. 100
                          /\ m.ttl \in Nat \ {0}
                          /\ m.outputs \subseteq Outputs /\ m.outputs # {}
    /\ Free \notin [moment : Moments, expires : Nat]
    /\ MaxQueue \in Nat \ {0}
    /\ MaxTime \in Nat /\ MaxSubmits \in Nat

VARIABLES
    active,       \* _active_by_output: what occupies each output
    queue,        \* _queued: the waiting moments, with their sequence number
    sequence,     \* _sequence
    now,          \* the clock
    draining,     \* is a submission being processed?
    submitted,    \* the moments of that submission (one, or none when idle)
    started,      \* the moments its drain has activated
    bumped,       \* the moments its drain has preempted
    shown         \* the last state published for each moment id
vars == <<active, queue, sequence, now, draining, submitted, started, bumped, shown>>

Slot == [moment : Moments, expires : Nat]
Item == [moment : Moments, seq : Nat]
States == {"none", "active", "queued", "preempted"}

Types ==
    /\ active \in [Outputs -> Slot \cup {Free}]
    /\ queue \subseteq Item
    /\ sequence \in Nat /\ now \in Nat
    /\ draining \in BOOLEAN
    /\ submitted \subseteq Moments /\ started \subseteq Moments /\ bumped \subseteq Moments
    /\ shown \in [Ids -> States]

TypeOK == Types /\ Cardinality(queue) <= MaxQueue

Init ==
    /\ active = [o \in Outputs |-> Free]
    /\ queue = {}
    /\ sequence = 0 /\ now = 0
    /\ draining = FALSE
    /\ submitted = {} /\ started = {} /\ bumped = {}
    /\ shown = [i \in Ids |-> "none"]

-------------------------------------------------------------------------------
(* Time passes between submissions.  Nothing expires by itself: expire is  *)
(* called by enqueue and drain only.                                       *)
Advance ==
    /\ ~draining /\ now < MaxTime
    /\ now' = now + 1
    /\ UNCHANGED <<active, queue, sequence, draining, submitted, started, bumped, shown>>

(* The outputs in use, and the slots without the moments of some ids. *)
Taken(slots) == {o \in Outputs : slots[o] # Free}
Without(slots, ids) ==
    [o \in Outputs |-> IF o \in Taken(slots) /\ slots[o].moment.id \in ids THEN Free ELSE slots[o]]

(* expire: a moment whose TTL has elapsed gives back all its outputs. *)
ExpiredIds == {active[o].moment.id : o \in {p \in Taken(active) : active[p].expires <= now}}
Unexpired == Without(active, ExpiredIds)

Occupies(slots, id) == \E o \in Taken(slots) : slots[o].moment.id = id
Queued(id) == \E i \in queue : i.moment.id = id

(* Queue order: priority first, then first come. *)
Before(i, j) ==
    \/ i.moment.priority > j.moment.priority
    \/ i.moment.priority = j.moment.priority /\ i.seq < j.seq

(* _trim_queue: over the limit, the last in queue order is dropped. *)
Trimmed(q) ==
    IF Cardinality(q) <= MaxQueue THEN q ELSE {i \in q : \E j \in q : Before(i, j)}

(* A moment with the id of a queued one takes its place in the queue. *)
Waiting(m) ==
    [moment |-> m,
     seq    |-> IF Queued(m.id) THEN (CHOOSE i \in queue : i.moment.id = m.id).seq ELSE sequence + 1]

(* submit: expire and enqueue, unless a moment of that id is on an output; *)
(* then the drain.                                                         *)
Submit(m) ==
    /\ ~draining /\ sequence < MaxSubmits
    /\ active' = Unexpired
    /\ IF Occupies(Unexpired, m.id)
       THEN UNCHANGED <<queue, sequence>>
       ELSE /\ queue' = Trimmed({i \in queue : i.moment.id # m.id} \cup {Waiting(m)})
            /\ sequence' = IF Queued(m.id) THEN sequence ELSE sequence + 1
    /\ draining' = TRUE
    /\ submitted' = {m}
    /\ UNCHANGED <<now, started, bumped, shown>>

(* An output is no obstacle if it is free or its occupant ranks below. *)
CanActivate_TakesEqual(m) ==
    \A o \in m.outputs : active[o] # Free => active[o].moment.priority <= m.priority
CanActivate(m) ==
    \A o \in m.outputs : active[o] # Free => active[o].moment.priority < m.priority

NextReady_AnyReady(i) == i \in queue /\ CanActivate(i.moment)
NextReady(i) ==
    /\ i \in queue /\ CanActivate(i.moment)
    /\ \A j \in queue : CanActivate(j.moment) => j = i \/ Before(i, j)

IdsOf(ms) == {m.id : m \in ms}

(* The occupants a moment pushes off lose all their outputs. *)
InTheWay(m) == {active[o].moment : o \in m.outputs \cap Taken(active)}

Occupied(m) ==
    [o \in Outputs |->
        IF o \in m.outputs THEN [moment |-> m, expires |-> now + m.ttl]
        ELSE Without(active, IdsOf(InTheWay(m)))[o]]

(* One round of the drain loop: the first moment in queue order that can   *)
(* start does.                                                             *)
Activate ==
    /\ draining
    /\ \E i \in queue :
         /\ NextReady(i)
         /\ queue' = queue \ {i}
         /\ active' = Occupied(i.moment)
         /\ started' = started \cup {i.moment}
         /\ bumped' = bumped \cup InTheWay(i.moment)
    /\ UNCHANGED <<sequence, now, draining, submitted, shown>>

(* The loop ends; submit_slots reports what started, what was bumped and   *)
(* whether the submitted moment waits, and each is published.              *)
Announce_AfterOneRound ==
    /\ draining /\ (started # {} \/ \A i \in queue : ~CanActivate(i.moment))
    /\ shown' = [id \in Ids |-> IF id \in IdsOf(submitted) /\ Queued(id) THEN "queued"
                                ELSE IF id \in IdsOf(bumped) THEN "preempted"
                                ELSE IF id \in IdsOf(started) THEN "active"
                                ELSE shown[id]]
    /\ draining' = FALSE
    /\ submitted' = {} /\ started' = {} /\ bumped' = {}
    /\ UNCHANGED <<active, queue, sequence, now>>
Announce ==
    /\ draining /\ \A i \in queue : ~CanActivate(i.moment)
    /\ shown' = [id \in Ids |-> IF id \in IdsOf(submitted) /\ Queued(id) THEN "queued"
                                ELSE IF id \in IdsOf(bumped) THEN "preempted"
                                ELSE IF id \in IdsOf(started) THEN "active"
                                ELSE shown[id]]
    /\ draining' = FALSE
    /\ submitted' = {} /\ started' = {} /\ bumped' = {}
    /\ UNCHANGED <<active, queue, sequence, now>>

Next == Advance \/ (\E m \in Moments : Submit(m)) \/ Activate \/ Announce

Spec == Init /\ [][Next]_vars

-------------------------------------------------------------------------------
(* A moment is on all of its outputs or on none: preemption and expiry     *)
(* take every output from it, not only the contested one.                  *)
AllOrNothing ==
    \A o \in Outputs : active[o] # Free =>
        /\ o \in active[o].moment.outputs
        /\ \A p \in active[o].moment.outputs : active[p] = active[o]

(* An id is on air or waiting, never both, and waits at most once: a       *)
(* moment is not shown twice by one submission.                            *)
ShownOnce ==
    /\ \A i \in queue : ~Occupies(active, i.moment.id)
    /\ \A i, j \in queue : i.moment.id = j.moment.id => i = j

(* A drain never takes back what it gave: the preemptions of one round     *)
(* cannot hit a moment that an earlier round of the same drain started.    *)
NoFlash ==
    /\ started \cap bumped = {}
    /\ \A m \in started : \A o \in m.outputs : active[o] # Free /\ active[o].moment = m

(* The three together: at every point of a drain the slots are shared out  *)
(* soundly among the moments (AllOrNothing, ShownOnce, NoFlash).           *)
SlotsAreSound == AllOrNothing /\ ShownOnce /\ NoFlash

(* Between submissions whatever waits is blocked by an occupant of at      *)
(* least its priority, also after a preemption freed further outputs.      *)
WaitsForAReason == ~draining => \A i \in queue : ~CanActivate(i.moment)

(* The last state published for a moment on air is "active" and for one    *)
(* that waits "queued", however often it was replaced or bumped before.    *)
Announced ==
    ~draining =>
        /\ \A o \in Outputs : active[o] # Free => shown[active[o].moment.id] = "active"
        /\ \A i \in queue : shown[i.moment.id] = "queued"

(* Between submissions a moment waits only behind an occupant of at least  *)
(* its priority, and the overlay has last been told the truth about every  *)
(* moment on air and in the queue (WaitsForAReason, Announced).            *)
QueueIsExplained == WaitsForAReason /\ Announced

(* A moment leaves the air when its TTL has elapsed or a moment of higher  *)
(* priority took one of its outputs, for no other reason.                  *)
LeavesForAReason ==
    [][\A o \in Outputs :
          active[o] # Free /\ active'[o] # active[o] =>
              \/ active[o].expires <= now
              \/ \E p \in active[o].moment.outputs :
                    active'[p] # Free /\ active'[p].moment.priority > active[o].moment.priority]_vars
===============================================================================
