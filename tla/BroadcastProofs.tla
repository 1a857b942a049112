---------------------------- MODULE BroadcastProofs ---------------------------
(***************************************************************************)
(* Proofs about BroadcastSlots, for any outputs, moments and queue size;   *)
(* about Suite, for any sidecars, orders, days and faults; about           *)
(* LiveStream, for any clients, queue sizes and thresholds (as long as the *)
(* slow one is below the full one) and any recorders; about AutoDirector   *)
(* and StreakWatcher, for any agents, thresholds, cooldowns and histories; *)
(* about Commentary, for any notional values, claims and factor.           *)
(*                                                                         *)
(* The drain loop takes one ready moment after the other while preemptions *)
(* change which moments are ready.  The invariant that carries its proofs  *)
(* is Ranked: a queued moment that outranks one started by this drain is   *)
(* blocked, and stays so, because whoever blocks it outranks everything    *)
(* the drain can still start.  Told is what the overlay has heard or is    *)
(* about to hear.                                                          *)
(*                                                                         *)
(* Counted says where every recap of a day has gone: to a row that was     *)
(* lost, to the row of the day, or to the step between the two in which    *)
(* the loop is.  Without the last part no step of the loop would keep it.  *)
(* Aired adds what a poll of the window leaves behind.                     *)
(*                                                                         *)
(* The events a client lacks are behind a full backlog, and such a client  *)
(* is sent away before it gets past it: InStep.  What it was shown is a    *)
(* run of numbers, so the recording's part can be said of them: FiledUpTo. *)
(* LossInv sets the drops of all clients against the one counter.          *)
(*                                                                         *)
(* DirInv relates the director's snapshot to what has moved since, and     *)
(* Compared the leaders to the trades a poll has already looked at.        *)
(* TalkInv holds the snapshot of a call to the biggest fill there has been.*)
(*                                                                         *)
(* The last section bounds what every component keeps, from the invariants *)
(* above it.                                                               *)
(***************************************************************************)
EXTENDS MCBroadcastSlots, FoldProofs, SequenceTheorems

-------------------------------------------------------------------------------
(* The slots and their queue.                                              *)

(* Nothing of a drain is left once it is over. *)
AtRest == ~draining => submitted = {} /\ started = {} /\ bumped = {}

(* An id on air is that of one slot. *)
OneSlotPerId ==
    \A o, p \in Outputs :
        active[o] # Free /\ active[p] # Free /\ active[o].moment.id = active[p].moment.id
        => active[o] = active[p]

(* What a drain has bumped or started is not in the queue. *)
Gone == \A i \in queue : i.moment.id \notin IdsOf(started) \cup IdsOf(bumped)

Ranked ==
    \A m \in started, j \in queue :
        j.moment.priority > m.priority => ~CanActivate(j.moment)

IInv == Types /\ AtRest /\ AllOrNothing /\ OneSlotPerId /\ ShownOnce /\ Gone /\ Ranked /\ NoFlash

-------------------------------------------------------------------------------
(* Expiry only takes slots away, and takes them whole. *)
LEMMA UnexpiredSlots ==
    ASSUME Types, NEW o \in Outputs
    PROVE  /\ Unexpired[o] \in {active[o], Free}
           /\ active[o] = Free => Unexpired[o] = Free
           /\ active[o] # Free => (Unexpired[o] = Free <=> active[o].moment.id \in ExpiredIds)
  BY DEF Types, Unexpired, Without, Taken

(* The item a submission adds. *)
LEMMA WaitingType ==
    ASSUME Types, NEW m \in Moments
    PROVE  Waiting(m) \in Item /\ Waiting(m).moment = m
<1>1. CASE Queued(m.id)
  <2>1. \E i \in queue : i.moment.id = m.id
    BY <1>1 DEF Queued
  <2>2. (CHOOSE i \in queue : i.moment.id = m.id) \in queue
    BY <2>1
  <2>3. (CHOOSE i \in queue : i.moment.id = m.id).seq \in Nat
    BY <2>2 DEF Types, Item
  <2>4. QED
    BY <1>1, <2>3 DEF Waiting, Item
<1>2. CASE ~Queued(m.id)
  BY <1>2 DEF Waiting, Item, Types
<1>3. QED
  BY <1>1, <1>2

(* What a starting moment makes of the outputs. *)
LEMMA OccupiedSlots ==
    ASSUME Types, NEW m \in Moments, NEW o \in Outputs
    PROVE  /\ o \in m.outputs => Occupied(m)[o] = [moment |-> m, expires |-> now + m.ttl]
           /\ o \notin m.outputs => Occupied(m)[o] \in {active[o], Free}
           /\ o \notin m.outputs /\ active[o] = Free => Occupied(m)[o] = Free
           /\ o \notin m.outputs /\ active[o] # Free =>
                (Occupied(m)[o] = Free <=> active[o].moment.id \in IdsOf(InTheWay(m)))
  BY DEF Types, Occupied, Without, Taken

LEMMA NewSlot ==
    ASSUME Types, NEW m \in Moments
    PROVE  /\ [moment |-> m, expires |-> now + m.ttl] \in Slot
           /\ [moment |-> m, expires |-> now + m.ttl] # Free
  BY BroadcastSlotsAssumption DEF Types, Slot

(* Who is in the way of a ready moment ranks below it, and is on an output *)
(* that the moment needs.                                                  *)
LEMMA InTheWayRanks ==
    ASSUME Types, NEW m \in Moments, CanActivate(m), NEW x \in InTheWay(m)
    PROVE  /\ x \in Moments
           /\ x.priority < m.priority
           /\ \E o \in m.outputs : o \in Outputs /\ active[o] # Free /\ active[o].moment = x
  BY BroadcastSlotsAssumption DEF Types, InTheWay, Taken, CanActivate, Slot

-------------------------------------------------------------------------------
LEMMA InitIInv == Init => IInv
<1> SUFFICES ASSUME Init PROVE IInv
  OBVIOUS
<1>1. \A o \in Outputs : active[o] = Free
  BY DEF Init
<1>2. Types
  BY DEF Init, Types, States
<1>3. AtRest /\ Gone /\ Ranked /\ NoFlash
  BY DEF Init, AtRest, Gone, Ranked, NoFlash
<1>4. AllOrNothing /\ OneSlotPerId /\ ShownOnce
  BY <1>1 DEF Init, AllOrNothing, OneSlotPerId, ShownOnce
<1>5. QED
  BY <1>2, <1>3, <1>4 DEF IInv

LEMMA AdvanceIInv == IInv /\ Advance => IInv'
  BY DEF Advance, IInv, Types, AtRest, AllOrNothing, OneSlotPerId, ShownOnce, Gone, Ranked,
         NoFlash, Occupies, Taken, CanActivate

(* The end of a drain: only the published states change. *)
LEMMA AnnounceIInv == IInv /\ Announce => IInv'
<1> SUFFICES ASSUME IInv, Announce PROVE IInv'
  OBVIOUS
<1>1. Types'
  BY DEF IInv, Announce, Types, States, IdsOf
<1>2. (AtRest /\ Gone /\ Ranked /\ NoFlash)'
  BY DEF Announce, AtRest, Gone, Ranked, NoFlash, IdsOf, IInv, ShownOnce
<1>3. (AllOrNothing /\ OneSlotPerId /\ ShownOnce)'
  BY DEF IInv, Announce, AllOrNothing, OneSlotPerId, ShownOnce, Occupies, Taken
<1>4. QED
  BY <1>1, <1>2, <1>3 DEF IInv

(* A submission expires slots and puts one item into the queue. *)
LEMMA SubmitIInv == ASSUME NEW m \in Moments PROVE IInv /\ Submit(m) => IInv'
<1> SUFFICES ASSUME IInv, Submit(m) PROVE IInv'
  OBVIOUS
<1> USE DEF IInv
<1>1. /\ active' = Unexpired
      /\ started = {} /\ bumped = {} /\ started' = {} /\ bumped' = {}
      /\ draining' = TRUE /\ submitted' = {m} /\ now' = now /\ shown' = shown
  BY DEF Submit, AtRest
<1>2. \A i \in queue' : i \in queue \/ i = Waiting(m)
  BY DEF Submit, Trimmed
<1>3. queue' # queue => ~Occupies(Unexpired, m.id) /\ \A i \in queue' : i.moment.id = m.id => i = Waiting(m)
  BY WaitingType DEF Submit, Trimmed
<1>4. \A i \in queue' : i.moment \in Moments
  BY <1>2, WaitingType DEF Types, Item
<1>5. Types'
  <2>1. active' \in [Outputs -> Slot \cup {Free}]
    <3>1. \A o \in Outputs : Unexpired[o] \in Slot \cup {Free}
      BY UnexpiredSlots DEF Types
    <3>2. Unexpired = [o \in Outputs |-> Unexpired[o]]
      BY DEF Unexpired, Without
    <3>3. QED
      BY <1>1, <3>1, <3>2
  <2>2. queue' \subseteq Item
    BY <1>2, WaitingType DEF Types
  <2>3. sequence' \in Nat
    BY DEF Submit, Types
  <2>4. QED
    BY <1>1, <2>1, <2>2, <2>3 DEF Types
<1>6. AllOrNothing'
  <2> SUFFICES ASSUME NEW o \in Outputs, Unexpired[o] # Free
               PROVE  /\ o \in Unexpired[o].moment.outputs
                      /\ \A p \in Unexpired[o].moment.outputs : Unexpired[p] = Unexpired[o]
    BY <1>1 DEF AllOrNothing
  <2>1. Unexpired[o] = active[o] /\ active[o] # Free /\ active[o].moment.id \notin ExpiredIds
    BY UnexpiredSlots
  <2>2. \A p \in active[o].moment.outputs : p \in Outputs
    BY <2>1, BroadcastSlotsAssumption DEF Types, Slot
  <2>3. QED
    BY <2>1, <2>2, UnexpiredSlots DEF AllOrNothing
<1>7. OneSlotPerId'
  BY <1>1, UnexpiredSlots DEF OneSlotPerId
<1>8. ShownOnce'
  <2>1. \A id : Occupies(Unexpired, id) => Occupies(active, id)
    BY UnexpiredSlots DEF Occupies, Taken
  <2>2. ASSUME NEW i \in queue' PROVE ~Occupies(active', i.moment.id)
    BY <1>1, <1>2, <1>3, <2>1, WaitingType DEF ShownOnce
  <2>3. ASSUME NEW i \in queue', NEW j \in queue', i.moment.id = j.moment.id PROVE i = j
    BY <1>2, <1>3, <2>3, WaitingType DEF ShownOnce
  <2>4. QED
    BY <2>2, <2>3 DEF ShownOnce, Occupies, Taken
<1>9. (AtRest /\ Gone /\ Ranked /\ NoFlash)'
  BY <1>1 DEF AtRest, Gone, Ranked, NoFlash, IdsOf
<1>10. QED
  BY <1>5, <1>6, <1>7, <1>8, <1>9

(* One round of the drain.  x is any moment in the way of the one that     *)
(* starts: x lost all its outputs.                                         *)
LEMMA ActivateIInv == IInv /\ Activate => IInv'
<1> SUFFICES ASSUME IInv, draining, UNCHANGED <<sequence, now, draining, submitted, shown>>,
                    NEW i \in queue, NextReady(i),
                    queue' = queue \ {i}, active' = Occupied(i.moment),
                    started' = started \cup {i.moment}, bumped' = bumped \cup InTheWay(i.moment)
             PROVE  IInv'
  BY DEF Activate
<1> DEFINE m == i.moment
           new == [moment |-> m, expires |-> now + m.ttl]
<1> USE DEF IInv
<1>1. /\ m \in Moments /\ m.outputs \subseteq Outputs /\ m.outputs # {}
      /\ m.priority \in Int /\ CanActivate(m)
      /\ new \in Slot /\ new # Free
  BY NewSlot, BroadcastSlotsAssumption DEF Types, Item, NextReady
<1>2. \A o \in m.outputs : active'[o] = new
  BY <1>1, OccupiedSlots
<1>3. \A o \in Outputs \ m.outputs : active'[o] # Free => active'[o] = active[o]
  BY <1>1, OccupiedSlots
(* A slot outside the new moment's outputs goes exactly if its moment was in the way. *)
<1>4. \A o \in Outputs \ m.outputs :
         active'[o] # Free => /\ active[o].moment.id \notin IdsOf(InTheWay(m))
                             /\ active[o].moment \notin InTheWay(m)
  BY <1>1, <1>3, OccupiedSlots DEF IdsOf
<1>5. \A o \in Outputs : active[o] # Free => active[o].moment.id # m.id
  BY DEF ShownOnce, Occupies, Taken
(* Nothing that this drain started is in the way. *)
<1>6. ASSUME NEW x \in InTheWay(m) PROVE x \in Moments /\ x \notin started
  <2>1. x \in Moments /\ x.priority < m.priority
    BY <1>1, InTheWayRanks
  <2>2. x \in started => m.priority > x.priority
    BY <1>1, <2>1, BroadcastSlotsAssumption
  <2>3. QED
    BY <1>1, <2>1, <2>2 DEF Ranked
<1>7. Types'
  <2>1. \A o \in Outputs : Occupied(m)[o] \in Slot \cup {Free}
    BY <1>1, OccupiedSlots DEF Types
  <2>2. Occupied(m) = [o \in Outputs |-> Occupied(m)[o]]
    BY DEF Occupied
  <2>3. bumped' \subseteq Moments
    BY <1>6 DEF Types
  <2>4. QED
    BY <1>1, <2>1, <2>2, <2>3 DEF Types
<1>8. AllOrNothing'
  <2> SUFFICES ASSUME NEW o \in Outputs, active'[o] # Free
               PROVE  /\ o \in active'[o].moment.outputs
                      /\ \A p \in active'[o].moment.outputs : active'[p] = active'[o]
    BY DEF AllOrNothing
  <2>1. CASE o \in m.outputs
    BY <1>2, <2>1
  <2>2. CASE o \notin m.outputs
    <3>1. active'[o] = active[o] /\ active[o] # Free /\ o \in active[o].moment.outputs
      BY <1>3, <2>2 DEF AllOrNothing
    <3>2. ASSUME NEW p \in active[o].moment.outputs PROVE active'[p] = active[o]
      <4>1. p \in Outputs /\ active[p] = active[o]
        BY <3>1, BroadcastSlotsAssumption DEF AllOrNothing, Types, Slot
      <4>2. p \notin m.outputs
        BY <1>4, <2>2, <3>1, <4>1 DEF InTheWay, Taken
      <4>3. Occupied(m)[p] # Free
        BY <1>1, <1>4, <2>2, <3>1, <4>1, <4>2, OccupiedSlots
      <4>4. QED
        BY <1>3, <4>1, <4>2, <4>3
    <3>3. QED
      BY <3>1, <3>2
  <2>3. QED
    BY <2>1, <2>2
<1>9. OneSlotPerId'
  <2> SUFFICES ASSUME NEW o \in Outputs, NEW p \in Outputs, active'[o] # Free, active'[p] # Free,
                      active'[o].moment.id = active'[p].moment.id
               PROVE  active'[o] = active'[p]
    BY DEF OneSlotPerId
  <2>1. CASE o \in m.outputs /\ p \in m.outputs
    BY <1>2, <2>1
  <2>2. CASE o \notin m.outputs /\ p \notin m.outputs
    BY <1>3, <2>2 DEF OneSlotPerId
  <2>3. CASE o \in m.outputs /\ p \notin m.outputs
    BY <1>2, <1>3, <1>5, <2>3
  <2>4. CASE o \notin m.outputs /\ p \in m.outputs
    BY <1>2, <1>3, <1>5, <2>4
  <2>5. QED
    BY <2>1, <2>2, <2>3, <2>4
<1>10. ShownOnce'
  <2>1. ASSUME NEW j \in queue', NEW o \in Outputs, active'[o] # Free
        PROVE  active'[o].moment.id # j.moment.id
    <3>1. CASE o \in m.outputs
      BY <1>2, <3>1 DEF ShownOnce
    <3>2. CASE o \notin m.outputs
      BY <1>3, <2>1, <3>2 DEF ShownOnce, Occupies, Taken
    <3>3. QED
      BY <3>1, <3>2
  <2>2. QED
    BY <2>1 DEF ShownOnce, Occupies, Taken
<1>11. Gone'
  <2> SUFFICES ASSUME NEW j \in queue'
               PROVE  j.moment.id \notin IdsOf(started') \cup IdsOf(bumped')
    BY DEF Gone, IdsOf
  <2>1. j.moment.id # m.id
    BY DEF ShownOnce
  <2>2. \A x \in InTheWay(m) : j.moment.id # x.id
    BY DEF ShownOnce, Occupies, InTheWay, Taken
  <2>3. \A x \in started \cup bumped : j.moment.id # x.id
    BY DEF Gone, IdsOf
  <2>4. QED
    BY <2>1, <2>2, <2>3 DEF IdsOf
<1>12. NoFlash'
  <2>1. m \notin bumped /\ m \notin InTheWay(m)
    BY <1>5 DEF Gone, IdsOf, InTheWay, Taken
  <2>2. started' \cap bumped' = {}
    BY <1>6, <2>1 DEF NoFlash
  <2>3. ASSUME NEW x \in started, NEW o \in x.outputs PROVE active'[o] # Free /\ active'[o].moment = x
    <3>1. o \in Outputs /\ active[o] # Free /\ active[o].moment = x
      BY BroadcastSlotsAssumption DEF Types, NoFlash
    <3>2. x \notin InTheWay(m)
      BY <1>6
    <3>3. o \notin m.outputs
      BY <3>1, <3>2 DEF InTheWay, Taken
    <3>4. x.id \notin IdsOf(InTheWay(m))
      <4> SUFFICES ASSUME NEW y \in InTheWay(m), y.id = x.id PROVE FALSE
        BY DEF IdsOf
      <4>1. PICK p \in Outputs : active[p] # Free /\ active[p].moment = y
        BY <1>1, InTheWayRanks
      <4>2. active[p] = active[o]
        BY <3>1, <4>1 DEF OneSlotPerId
      <4>3. QED
        BY <3>1, <3>2, <4>1, <4>2
    <3>5. active'[o] # Free
      BY <1>1, <3>1, <3>3, <3>4, OccupiedSlots
    <3>6. QED
      BY <1>3, <3>1, <3>3, <3>5
  <2>4. QED
    BY <1>1, <1>2, <2>2, <2>3 DEF NoFlash
(* Whoever blocks a queued j that outranks a started x, outranks m: it stays. *)
<1>13. Ranked'
  <2> SUFFICES ASSUME NEW x \in started \cup {m}, NEW j \in queue', j.moment.priority > x.priority
               PROVE  ~CanActivate(j.moment)'
    BY DEF Ranked
  <2>1. j \in queue /\ j # i /\ j.moment \in Moments /\ x \in Moments
    BY <1>1 DEF Types, Item
  <2>2. j.moment.priority \in Int /\ x.priority \in Int /\ j.moment.outputs \subseteq Outputs
    BY <2>1, BroadcastSlotsAssumption
  <2>3. ~CanActivate(j.moment)
    <3>1. CASE x \in started
      BY <3>1, <2>1 DEF Ranked
    <3>2. CASE x = m
      BY <1>1, <2>1, <2>2, <3>2 DEF NextReady, Before
    <3>3. QED
      BY <3>1, <3>2
  <2>4. x.priority >= m.priority
    <3>1. CASE x \in started
      <4>1. ~(m.priority > x.priority)
        BY <1>1, <3>1 DEF Ranked
      <4>2. QED
        BY <1>1, <2>2, <4>1
    <3>2. QED
      BY <1>1, <3>1
  <2>5. PICK o \in j.moment.outputs :
           active[o] # Free /\ ~(active[o].moment.priority < j.moment.priority)
    BY <2>3 DEF CanActivate
  <2>6. o \in Outputs /\ active[o].moment \in Moments /\ active[o].moment.priority \in Int
    BY <2>2, <2>5, BroadcastSlotsAssumption DEF Types, Slot
  <2>7. active[o].moment.priority > m.priority
    BY <1>1, <2>2, <2>4, <2>5, <2>6
  <2>8. active[o].moment.id \notin IdsOf(InTheWay(m))
    <3> SUFFICES ASSUME NEW y \in InTheWay(m), y.id = active[o].moment.id PROVE FALSE
      BY DEF IdsOf
    <3>1. PICK p \in Outputs : active[p] # Free /\ active[p].moment = y
      BY <1>1, InTheWayRanks
    <3>2. active[p] = active[o]
      BY <2>5, <2>6, <3>1 DEF OneSlotPerId
    <3>3. y.priority < m.priority
      BY <1>1, InTheWayRanks
    <3>4. QED
      BY <1>1, <2>6, <2>7, <3>1, <3>2, <3>3
  <2>9. o \notin m.outputs
    BY <1>1, <2>5, <2>6, <2>7 DEF CanActivate
  <2>10. active'[o] # Free /\ active'[o] = active[o]
    BY <1>1, <1>3, <2>5, <2>6, <2>8, <2>9, OccupiedSlots
  <2>11. QED
    BY <2>5, <2>10 DEF CanActivate
<1>14. QED
  BY <1>7, <1>8, <1>9, <1>10, <1>11, <1>12, <1>13 DEF AtRest

-------------------------------------------------------------------------------
LEMMA IInvHolds == Spec => []IInv
<1>1. ASSUME IInv, [Next]_vars PROVE IInv'
  <2>1. CASE Advance
    BY <1>1, <2>1, AdvanceIInv
  <2>2. CASE \E m \in Moments : Submit(m)
    BY <1>1, <2>2, SubmitIInv
  <2>3. CASE Activate
    BY <1>1, <2>3, ActivateIInv
  <2>4. CASE Announce
    BY <1>1, <2>4, AnnounceIInv
  <2>5. CASE UNCHANGED vars
    BY <1>1, <2>5 DEF vars, IInv, Types, AtRest, AllOrNothing, OneSlotPerId, ShownOnce, Gone,
                      Ranked, NoFlash, Occupies, Taken, CanActivate
  <2>6. QED
    BY <1>1, <2>1, <2>2, <2>3, <2>4, <2>5 DEF Next
<1>2. QED
  BY <1>1, InitIInv, PTL DEF Spec

(* A moment is on all of its outputs or on none: expire, preemption and    *)
(* activation of broadcast_scheduler.py move whole moments.                *)
THEOREM AllOrNothingHolds == Spec => []AllOrNothing
<1>1. IInv => AllOrNothing
  BY DEF IInv
<1>2. QED
  BY <1>1, IInvHolds, PTL

(* An id is on air or waits, never both, and waits once: enqueue's checks  *)
(* for the id in the active slots and in the queue suffice, whatever the   *)
(* drain does between them.                                                *)
THEOREM ShownOnceHolds == Spec => []ShownOnce
<1>1. IInv => ShownOnce
  BY DEF IInv
<1>2. QED
  BY <1>1, IInvHolds, PTL

(* A drain never preempts a moment that it started itself, so no slot      *)
(* event of one submission contradicts another: the loop takes the ready   *)
(* moments in an order in which none can push off an earlier one.          *)
THEOREM NoFlashHolds == Spec => []NoFlash
<1>1. IInv => NoFlash
  BY DEF IInv
<1>2. QED
  BY <1>1, IInvHolds, PTL

(* At every point of a drain the slots are shared out soundly: whole       *)
(* moments, each once, and none that the same drain has pushed off.        *)
THEOREM SlotsAreSoundHolds == Spec => []SlotsAreSound
<1>1. IInv => SlotsAreSound
  BY DEF IInv, SlotsAreSound
<1>2. QED
  BY <1>1, IInvHolds, PTL

(* A moment leaves the air for one of two reasons, both its own: its TTL   *)
(* has elapsed, or a moment that outranks it took one of its outputs.      *)
THEOREM LeavesForAReasonHolds == Spec => LeavesForAReason
<1> DEFINE Step == \A o \in Outputs :
                      active[o] # Free /\ active'[o] # active[o] =>
                          \/ active[o].expires <= now
                          \/ \E p \in active[o].moment.outputs :
                                active'[p] # Free /\ active'[p].moment.priority > active[o].moment.priority
<1>1. ASSUME IInv, [Next]_vars PROVE [Step]_vars
  <2> DEFINE Reason(o) == \/ active[o].expires <= now
                          \/ \E p \in active[o].moment.outputs :
                                /\ active'[p] # Free
                                /\ active'[p].moment.priority > active[o].moment.priority
  <2> SUFFICES ASSUME Next, NEW o \in Outputs, active[o] # Free, active'[o] # active[o]
               PROVE  Reason(o)
    BY <1>1
  <2> USE <1>1 DEF IInv
  <2>1. CASE Advance \/ Announce
    BY <2>1 DEF Advance, Announce
  <2>2. ASSUME NEW m \in Moments, Submit(m) PROVE Reason(o)
    <3>1. active[o].moment.id \in ExpiredIds
      BY <2>2, UnexpiredSlots DEF Submit
    <3>2. PICK p \in Outputs : /\ active[p] # Free /\ active[p].expires <= now
                               /\ active[p].moment.id = active[o].moment.id
      BY <3>1 DEF ExpiredIds, Taken
    <3>3. active[p] = active[o]
      BY <3>2 DEF OneSlotPerId
    <3>4. QED
      BY <3>2, <3>3
  <2>3. CASE Activate
    <3>1. PICK i \in queue : NextReady(i) /\ active' = Occupied(i.moment)
      BY <2>3 DEF Activate
    <3> DEFINE m == i.moment
    <3>2. m \in Moments /\ CanActivate(m)
      BY <3>1 DEF NextReady, Types, Item
    <3>3. \A p \in m.outputs \cap Outputs : active'[p] # Free /\ active'[p].moment = m
      <4> DEFINE new == [moment |-> m, expires |-> now + m.ttl]
      <4>1. \A p \in m.outputs \cap Outputs : active'[p] = new
        BY <3>1, <3>2, OccupiedSlots
      <4>2. new # Free /\ new.moment = m
        BY <3>2, NewSlot
      <4> HIDE DEF new
      <4>3. QED
        BY <4>1, <4>2
    <3>4. PICK p \in m.outputs \cap Outputs : active[p] # Free /\ active[p] = active[o]
      <4>1. CASE o \in m.outputs
        BY <4>1
      <4>2. CASE o \notin m.outputs
        <5>1. active[o].moment.id \in IdsOf(InTheWay(m))
          BY <3>1, <3>2, <4>2, OccupiedSlots
        <5>2. PICK p \in m.outputs \cap Outputs :
                 active[p] # Free /\ active[p].moment.id = active[o].moment.id
          BY <5>1 DEF IdsOf, InTheWay, Taken
        <5>3. active[p] = active[o]
          BY <5>2 DEF OneSlotPerId
        <5>4. QED
          BY <5>2, <5>3
      <4>3. QED
        BY <4>1, <4>2
    <3>5. p \in active[o].moment.outputs
      BY <3>4 DEF AllOrNothing
    <3>6. active'[p] # Free /\ active'[p].moment.priority > active[o].moment.priority
      <4>1. active[p].moment.priority < m.priority
        BY <3>2, <3>4 DEF CanActivate
      <4>2. m.priority \in Int /\ active[p].moment.priority \in Int
        BY <3>2, <3>4, BroadcastSlotsAssumption DEF Types, Slot
      <4>3. QED
        BY <3>3, <3>4, <4>1, <4>2
    <3>7. QED
      BY <3>5, <3>6
  <2>4. QED
    BY <2>1, <2>2, <2>3 DEF Next
<1>2. QED
  BY <1>1, IInvHolds, PTL DEF Spec, LeavesForAReason

(* What the overlay was told, or is about to be told: a moment on air is   *)
(* shown as active unless this drain started it, a waiting one as queued   *)
(* unless this drain submitted it.                                         *)
Told ==
    /\ \A o \in Outputs : active[o] # Free =>
          /\ active[o].moment.id \notin IdsOf(bumped)
          /\ shown[active[o].moment.id] = "active" \/ active[o].moment.id \in IdsOf(started)
    /\ \A i \in queue : shown[i.moment.id] = "queued" \/ i.moment.id \in IdsOf(submitted)

QueueInv == IInv /\ WaitsForAReason /\ Told

LEMMA IdTypes ==
    ASSUME Types
    PROVE  /\ \A i \in queue : i.moment \in Moments /\ i.moment.id \in Ids
           /\ \A o \in Outputs : active[o] # Free => active[o].moment \in Moments /\ active[o].moment.id \in Ids
  BY DEF Types, Item, Slot, Ids

LEMMA QueueInvStep == ASSUME QueueInv, [Next]_vars PROVE (WaitsForAReason /\ Told)'
<1> USE DEF QueueInv, IInv
<1>1. CASE Advance \/ UNCHANGED vars
  <2>1. UNCHANGED <<active, queue, draining, submitted, started, bumped, shown>>
    BY <1>1 DEF Advance, vars
  <2>2. QED
    BY <2>1 DEF WaitsForAReason, Told, CanActivate, IdsOf
<1>2. ASSUME NEW m \in Moments, Submit(m) PROVE (WaitsForAReason /\ Told)'
  <2>1. /\ active' = Unexpired /\ started' = {} /\ bumped' = {} /\ started = {}
        /\ draining' = TRUE /\ submitted' = {m} /\ submitted = {} /\ shown' = shown
    BY <1>2 DEF Submit, AtRest
  <2>2. \A i \in queue' : i \in queue \/ i.moment = m
    BY <1>2, WaitingType DEF Submit, Trimmed
  <2>3. \A o \in Outputs : active'[o] # Free => active'[o] = active[o] /\ active[o] # Free
    BY <2>1, UnexpiredSlots
  <2>4. QED
    BY <2>1, <2>2, <2>3 DEF WaitsForAReason, Told, IdsOf
<1>3. CASE Activate
  <2>1. PICK i \in queue :
          /\ NextReady(i) /\ queue' = queue \ {i} /\ active' = Occupied(i.moment)
          /\ started' = started \cup {i.moment} /\ bumped' = bumped \cup InTheWay(i.moment)
          /\ draining /\ UNCHANGED <<draining, submitted, shown>>
    BY <1>3 DEF Activate
  <2> DEFINE m == i.moment
             new == [moment |-> m, expires |-> now + m.ttl]
  <2>2. m \in Moments /\ CanActivate(m) /\ new.moment = m
    BY <2>1, IdTypes DEF NextReady
  <2>3. \A o \in Outputs : active[o] # Free => active[o].moment.id # m.id
    BY DEF ShownOnce, Occupies, Taken
  <2>4. ASSUME NEW o \in Outputs, active'[o] # Free
        PROVE  /\ active'[o].moment.id \notin IdsOf(bumped')
               /\ shown[active'[o].moment.id] = "active" \/ active'[o].moment.id \in IdsOf(started')
    <3>1. CASE o \in m.outputs
      <4>1. active'[o].moment = m
        BY <2>1, <2>2, <3>1, OccupiedSlots
      <4>2. m.id \notin IdsOf(bumped) /\ m.id \notin IdsOf(InTheWay(m))
        BY <2>1, <2>3 DEF Gone, IdsOf, InTheWay, Taken
      <4>3. QED
        BY <2>1, <4>1, <4>2 DEF IdsOf
    <3>2. CASE o \notin m.outputs
      <4>1. active'[o] = active[o] /\ active[o] # Free /\ active[o].moment.id \notin IdsOf(InTheWay(m))
        BY <2>1, <2>2, <2>4, <3>2, OccupiedSlots
      <4>2. /\ active[o].moment.id \notin IdsOf(bumped)
            /\ shown[active[o].moment.id] = "active" \/ active[o].moment.id \in IdsOf(started)
        BY <4>1 DEF Told
      <4>3. QED
        BY <2>1, <4>1, <4>2 DEF IdsOf
    <3>3. QED
      BY <3>1, <3>2
  <2>5. QED
    BY <2>1, <2>4 DEF WaitsForAReason, Told
<1>4. CASE Announce
  <2>1. /\ UNCHANGED <<active, queue>> /\ \A i \in queue : ~CanActivate(i.moment)
        /\ submitted' = {} /\ started' = {} /\ bumped' = {}
        /\ \A id \in Ids : shown'[id] = IF id \in IdsOf(submitted) /\ Queued(id) THEN "queued"
                                         ELSE IF id \in IdsOf(bumped) THEN "preempted"
                                         ELSE IF id \in IdsOf(started) THEN "active"
                                         ELSE shown[id]
    BY <1>4 DEF Announce
  <2>2. WaitsForAReason'
    BY <2>1 DEF WaitsForAReason, CanActivate
  <2>3. ASSUME NEW o \in Outputs, active[o] # Free PROVE shown'[active[o].moment.id] = "active"
    <3>1. active[o].moment.id \in Ids /\ ~Queued(active[o].moment.id)
      BY <2>3, IdTypes DEF Queued, ShownOnce, Occupies, Taken
    <3>2. QED
      BY <2>1, <2>3, <3>1 DEF Told
  <2>4. ASSUME NEW i \in queue PROVE shown'[i.moment.id] = "queued"
    <3>1. i.moment.id \in Ids /\ Queued(i.moment.id)
      BY IdTypes DEF Queued
    <3>2. i.moment.id \notin IdsOf(bumped) /\ i.moment.id \notin IdsOf(started)
      BY DEF Gone
    <3>3. QED
      BY <2>1, <3>1, <3>2 DEF Told
  <2>5. Told'
    BY <2>1, <2>3, <2>4 DEF Told, IdsOf
  <2>6. QED
    BY <2>2, <2>5
<1>5. QED
  BY <1>1, <1>2, <1>3, <1>4 DEF Next

(* Between submissions what waits is blocked by an occupant of at least    *)
(* its priority, and the last slot event of a moment is the truth about    *)
(* it: submit_slots may report what started, was bumped or was queued all  *)
(* at once after the drain, in that order.                                 *)
THEOREM QueueIsExplainedHolds == Spec => []QueueIsExplained
<1>1. Init => WaitsForAReason /\ Told
  BY DEF Init, WaitsForAReason, Told
<1>2. IInv /\ WaitsForAReason /\ Told => QueueIsExplained
  <2> SUFFICES ASSUME IInv, Told, ~draining PROVE Announced
    BY DEF QueueIsExplained, Announced
  <2>1. IdsOf(started) = {} /\ IdsOf(submitted) = {}
    BY DEF IInv, AtRest, IdsOf
  <2>2. QED
    BY <2>1 DEF Told, Announced
<1>3. IInv /\ WaitsForAReason /\ Told /\ [Next]_vars => (WaitsForAReason /\ Told)'
  BY QueueInvStep DEF QueueInv
<1>4. QED
  BY <1>1, <1>2, <1>3, IInvHolds, PTL DEF Spec

(* A finite queue has a last item: of the lowest priority, the latest. *)
LEMMA LastInQueue ==
    ASSUME NEW q \in SUBSET Item, q # {}, NEW s \in Nat, \A i \in q : i.seq <= s
    PROVE  \E i \in q : \A j \in q : ~Before(i, j)
<1>1. \A i \in q : i.moment.priority \in Nat /\ i.seq \in Nat
  BY BroadcastSlotsAssumption DEF Item
<1>2. PICK p \in {i.moment.priority : i \in q} : \A r \in {i.moment.priority : i \in q} : p <= r
  <2> DEFINE P == {i.moment.priority : i \in q}
  <2>1. P \in SUBSET Nat /\ P # {}
    BY <1>1
  <2> HIDE DEF P
  <2>2. \E p \in P : \A r \in P : p <= r
    BY <2>1, LeastNumber
  <2>3. QED
    BY <2>2 DEF P
<1> DEFINE L == {i \in q : i.moment.priority = p}
           S == {s - i.seq : i \in L}
<1>3. S \in SUBSET Nat /\ S # {}
  <2>1. PICK i \in L : TRUE
    BY <1>2
  <2>2. s - i.seq \in S
    BY <2>1
  <2>3. \A j \in L : s - j.seq \in Nat
    BY <1>1
  <2>4. QED
    BY <2>2, <2>3
<1>4. PICK d \in S : \A e \in S : d <= e
  <2> HIDE DEF S
  <2>1. QED
    BY <1>3, LeastNumber
<1>5. PICK i \in L : d = s - i.seq
  BY <1>4
<1>6. ASSUME NEW j \in q PROVE ~Before(i, j)
  <2>1. p <= j.moment.priority /\ p \in Nat /\ j.moment.priority \in Nat /\ i.seq \in Nat /\ j.seq \in Nat
    BY <1>1, <1>2
  <2>2. j.moment.priority = p => s - i.seq <= s - j.seq
    BY <1>4, <1>5
  <2>3. QED
    BY <1>5, <2>1, <2>2 DEF Before
<1>7. QED
  BY <1>5, <1>6

QueueBound ==
    /\ IsFiniteSet(queue) /\ Cardinality(queue) <= MaxQueue
    /\ \A i \in queue : i.seq <= sequence

LEMMA QueueBoundStep == ASSUME Types, QueueBound, [Next]_vars PROVE QueueBound'
<1>1. CASE Advance \/ Announce \/ UNCHANGED vars
  BY <1>1 DEF Advance, Announce, vars, QueueBound
<1>2. CASE Activate
  <2>1. PICK i \in queue : queue' = queue \ {i} /\ sequence' = sequence
    BY <1>2 DEF Activate
  <2>2. IsFiniteSet(queue') /\ Cardinality(queue') = Cardinality(queue) - 1 /\ Cardinality(queue) \in Nat
    BY <2>1, FS_RemoveElement, FS_CardinalityType DEF QueueBound
  <2>3. Cardinality(queue') <= MaxQueue
    BY <2>2, BroadcastSlotsAssumption DEF QueueBound
  <2>4. QED
    BY <2>1, <2>2, <2>3 DEF QueueBound
<1>3. ASSUME NEW m \in Moments, Submit(m) PROVE QueueBound'
  <2>1. CASE Occupies(Unexpired, m.id)
    BY <1>3, <2>1 DEF Submit, QueueBound
  <2>2. CASE ~Occupies(Unexpired, m.id)
    <3> DEFINE rest == {i \in queue : i.moment.id # m.id}
               q == rest \cup {Waiting(m)}
    <3>1. queue' = Trimmed(q) /\ sequence' = (IF Queued(m.id) THEN sequence ELSE sequence + 1)
      BY <1>3, <2>2 DEF Submit
    <3>2. sequence' \in Nat /\ \A i \in q : i.seq <= sequence'
      <4>1. Waiting(m).seq <= sequence'
        <5>1. CASE Queued(m.id)
          <6>1. (CHOOSE i \in queue : i.moment.id = m.id) \in queue
            BY <5>1 DEF Queued
          <6>2. QED
            BY <3>1, <5>1, <6>1 DEF Waiting, QueueBound
        <5>2. CASE ~Queued(m.id)
          BY <3>1, <5>2 DEF Waiting, Types
        <5>3. QED
          BY <5>1, <5>2
      <4>2. \A i \in rest : i.seq \in Nat /\ i.seq <= sequence
        BY DEF QueueBound, Types, Item
      <4>3. QED
        BY <3>1, <4>1, <4>2 DEF Types
    <3>3. IsFiniteSet(rest) /\ Cardinality(rest) <= Cardinality(queue)
      BY FS_Subset DEF QueueBound
    <3>4. /\ IsFiniteSet(q) /\ Cardinality(q) <= Cardinality(queue) + 1
          /\ Cardinality(q) \in Nat /\ Cardinality(queue) \in Nat
      <4>1. /\ IsFiniteSet(q)
            /\ Cardinality(q) = IF Waiting(m) \in rest THEN Cardinality(rest) ELSE Cardinality(rest) + 1
        BY <3>3, FS_AddElement
      <4>2. Cardinality(rest) \in Nat /\ Cardinality(queue) \in Nat
        BY <3>3, FS_CardinalityType DEF QueueBound
      <4>3. QED
        BY <3>3, <4>1, <4>2
    <3>5. q \in SUBSET Item /\ q # {}
      BY WaitingType DEF Types
    <3> HIDE DEF rest, q
    <3>6. CASE Cardinality(q) <= MaxQueue
      <4>1. queue' = q
        BY <3>1, <3>6 DEF Trimmed
      <4>2. QED
        BY <3>2, <3>4, <3>6, <4>1 DEF QueueBound
    <3>7. CASE ~(Cardinality(q) <= MaxQueue)
      <4>1. queue' = {i \in q : \E j \in q : Before(i, j)}
        BY <3>1, <3>7 DEF Trimmed
      <4>2. PICK last \in q : \A j \in q : ~Before(last, j)
        BY <3>2, <3>5, LastInQueue
      <4>3. queue' \subseteq q \ {last}
        BY <4>1, <4>2
      <4>4. IsFiniteSet(q \ {last}) /\ Cardinality(q \ {last}) = Cardinality(q) - 1
        BY <3>4, <4>2, FS_RemoveElement
      <4>5. IsFiniteSet(queue') /\ Cardinality(queue') <= Cardinality(q) - 1 /\ Cardinality(queue') \in Nat
        BY <4>3, <4>4, FS_Subset, FS_CardinalityType
      <4>6. Cardinality(queue') <= MaxQueue
        BY <3>4, <4>5, BroadcastSlotsAssumption DEF QueueBound
      <4>7. \A i \in queue' : i.seq <= sequence'
        BY <3>2, <4>1
      <4>8. QED
        BY <4>5, <4>6, <4>7 DEF QueueBound
    <3>8. QED
      BY <3>6, <3>7
  <2>3. QED
    BY <2>1, <2>2
<1>4. QED
  BY <1>1, <1>2, <1>3 DEF Next

(* The queue never holds more than max_queue_size moments: one is trimmed  *)
(* for one that is submitted, and there always is a last one to trim.      *)
THEOREM TypeOKHolds == Spec => []TypeOK
<1>1. Init => QueueBound
  <2> SUFFICES ASSUME Init PROVE QueueBound
    OBVIOUS
  <2>1. queue = {}
    BY DEF Init
  <2>2. QED
    BY <2>1, FS_EmptySet, BroadcastSlotsAssumption DEF QueueBound
<1>2. IInv /\ QueueBound => TypeOK
  BY DEF IInv, TypeOK, QueueBound
<1>3. IInv /\ QueueBound /\ [Next]_vars => QueueBound'
  BY QueueBoundStep DEF IInv
<1>4. QED
  BY <1>1, <1>2, <1>3, IInvHolds, PTL DEF Spec

-------------------------------------------------------------------------------
(* The sidecars and the recap of the day.                                  *)

SuiteKinds ==
    /\ phase \in {"down", "boot", "up", "drain", "bare"}
    /\ recapTask \in {"off", "poll", "write"}
    /\ day \in Days
    /\ recaps \in [Days -> Nat] /\ unnoted \in [Days -> Nat]

(* Whoever runs does so under an installed arbiter; the recap loop starts  *)
(* last.                                                                   *)
Routed ==
    /\ arbiter <=> phase \in {"boot", "up", "drain"}
    /\ phase \in {"down", "boot"} => recapTask = "off"
    /\ phase \in {"down", "bare"} => running = {}

InRows(d) == IF d \in recapRows THEN 1 ELSE 0
UnderWay(d) == IF recapTask = "write" /\ d = day THEN 1 ELSE 0
Counted ==
    /\ \A d \in Days : recaps[d] = unnoted[d] + InRows(d) + UnderWay(d)
    /\ recapTask = "write" => day \notin recapRows

(* A poll in the window of a trading day has shown the recap, or found the *)
(* row of one that was; no other day has one.                              *)
Aired ==
    /\ polled /\ day \in TradingDays => recaps[day] > 0
    /\ \A d \in Days \ TradingDays : recaps[d] = 0

SuiteInv == SuiteKinds /\ Routed /\ SidecarsAreRouted /\ Counted /\ Aired

-------------------------------------------------------------------------------
LEMMA SuiteInit_Inv == SuiteInit => SuiteInv
<1> SUFFICES ASSUME SuiteInit PROVE SuiteInv
  OBVIOUS
<1>1. MaxDay \in Nat \ {0}
  BY SuiteAssumption
<1>2. SuiteKinds
  BY <1>1 DEF SuiteInit, SuiteKinds, Days
<1>3. Routed /\ SidecarsAreRouted
  BY DEF SuiteInit, Routed, SidecarsAreRouted
<1>4. Counted
  BY DEF SuiteInit, Counted, InRows, UnderWay
<1>5. Aired
  BY DEF SuiteInit, Aired
<1>6. QED
  BY <1>2, <1>3, <1>4, <1>5 DEF SuiteInv

(* Steps that leave the recap loop alone keep the count. *)
LEMMA CountedStays ==
    ASSUME Counted, UNCHANGED <<recapTask, day, recapRows, recaps, unnoted>>
    PROVE  Counted'
  BY DEF Counted, InRows, UnderWay
LEMMA AiredStays ==
    ASSUME Aired, UNCHANGED <<day, recaps>>, polled' => polled
    PROVE  Aired'
  BY DEF Aired

LEMMA SidecarPublishes_Inv ==
    ASSUME SuiteInv, NEW s \in Sidecars, SidecarPublishes(s)
    PROVE  SuiteInv'
<1>1. SuiteKinds' /\ Routed'
  BY DEF SuiteInv, SuiteKinds, Routed, SidecarPublishes, processVars, recapVars
<1>2. SidecarsAreRouted'
  BY DEF SuiteInv, SuiteKinds, Routed, SidecarPublishes, SidecarsAreRouted
<1>3. Counted'
  BY CountedStays DEF SuiteInv, SidecarPublishes, processVars, recapVars
<1>4. Aired'
  BY AiredStays DEF SuiteInv, SidecarPublishes, recapVars
<1>5. QED
  BY <1>1, <1>2, <1>3, <1>4 DEF SuiteInv

(* Boot and orderly shutdown, up to the moment the arbiter has left. *)
LEMMA Lifecycle_Inv ==
    ASSUME SuiteInv,
           BootBegins \/ SidecarStarts \/ ShutdownBegins \/ SidecarStops \/ ArbiterLeaves \/ OperatorPushes
    PROVE  SuiteInv'
<1>1. SuiteKinds'
  BY DEF SuiteInv, SuiteKinds, recapVars, processVars, BootBegins, SidecarStarts, ShutdownBegins,
         DrainBegins, SidecarStops, ArbiterLeaves, OperatorPushes
<1>2. Routed'
  BY DEF SuiteInv, SuiteKinds, Routed, processVars, BootBegins, SidecarStarts, ShutdownBegins,
         DrainBegins, SidecarStops, ArbiterLeaves, OperatorPushes
<1>3. SidecarsAreRouted'
  BY DEF SuiteInv, SidecarsAreRouted, BootBegins, SidecarStarts, ShutdownBegins,
         DrainBegins, SidecarStops, ArbiterLeaves, OperatorPushes
<1>4. Counted'
  BY CountedStays DEF SuiteInv, recapVars, processVars, BootBegins, SidecarStarts, ShutdownBegins,
         DrainBegins, SidecarStops, ArbiterLeaves, OperatorPushes
<1>5. Aired'
  BY AiredStays DEF SuiteInv, recapVars, BootBegins, SidecarStarts, ShutdownBegins,
         DrainBegins, SidecarStops, ArbiterLeaves, OperatorPushes
<1>6. QED
  BY <1>1, <1>2, <1>3, <1>4, <1>5 DEF SuiteInv

LEMMA BootEnds_Inv == SuiteInv /\ BootEnds => SuiteInv'
<1> SUFFICES ASSUME SuiteInv, BootEnds PROVE SuiteInv'
  OBVIOUS
<1>1. SuiteKinds' /\ Routed' /\ SidecarsAreRouted'
  BY DEF SuiteInv, SuiteKinds, Routed, SidecarsAreRouted, BootEnds, recapVars
<1>2. recapTask = "off" /\ recapTask' = "poll" /\ UNCHANGED <<day, recapRows, recaps, unnoted>>
  BY DEF SuiteInv, Routed, BootEnds, recapVars
<1>3. Counted'
  BY <1>2 DEF SuiteInv, Counted, InRows, UnderWay
<1>4. Aired'
  BY AiredStays DEF SuiteInv, BootEnds, recapVars
<1>5. QED
  BY <1>1, <1>3, <1>4 DEF SuiteInv

(* The end of the process takes a recap that has no row yet for lost. *)
LEMMA ProcessEnds_Inv == SuiteInv /\ ProcessEnds => SuiteInv'
<1> SUFFICES ASSUME SuiteInv, ProcessEnds PROVE SuiteInv'
  OBVIOUS
<1>1. SuiteKinds'
  BY DEF SuiteInv, SuiteKinds, ProcessEnds
<1>2. Routed' /\ SidecarsAreRouted'
  BY DEF SuiteInv, Routed, SidecarsAreRouted, ProcessEnds
<1>3. Counted'
  <2> SUFFICES ASSUME NEW d \in Days
               PROVE  recaps'[d] = unnoted'[d] + InRows(d)' + UnderWay(d)'
    BY DEF Counted, ProcessEnds
  <2>1. recaps[d] = unnoted[d] + InRows(d) + UnderWay(d) /\ unnoted[d] \in Nat
    BY DEF SuiteInv, Counted, SuiteKinds
  <2>2. recaps'[d] = recaps[d] /\ InRows(d)' = InRows(d) /\ UnderWay(d)' = 0
    BY DEF ProcessEnds, InRows, UnderWay
  <2>3. unnoted'[d] = unnoted[d] + UnderWay(d)
    BY <2>1 DEF SuiteInv, SuiteKinds, ProcessEnds, UnderWay
  <2>4. InRows(d) \in Nat /\ UnderWay(d) \in Nat
    BY DEF InRows, UnderWay
  <2>5. QED
    BY <2>1, <2>2, <2>3, <2>4
<1>4. Aired'
  BY AiredStays DEF SuiteInv, ProcessEnds
<1>5. QED
  BY <1>1, <1>2, <1>3, <1>4 DEF SuiteInv

LEMMA RecapPolls_Inv == SuiteInv /\ RecapPolls => SuiteInv'
<1> SUFFICES ASSUME SuiteInv, RecapPolls PROVE SuiteInv'
  OBVIOUS
<1>1. SuiteKinds' /\ Routed' /\ SidecarsAreRouted'
  BY DEF SuiteInv, SuiteKinds, Routed, SidecarsAreRouted, RecapPolls
<1>2. CASE ~ShouldFire
  <2>1. Counted' /\ UNCHANGED <<day, recaps>>
    BY <1>2, CountedStays DEF SuiteInv, RecapPolls
  <2>2. ASSUME day \in TradingDays PROVE recaps[day] > 0
    <3>1. day \in recapRows
      BY <1>2, <2>2 DEF RecapPolls, ShouldFire
    <3>2. recaps[day] = unnoted[day] + 1 /\ unnoted[day] \in Nat
      BY <3>1 DEF SuiteInv, SuiteKinds, Counted, InRows, UnderWay
    <3>3. QED
      BY <3>2
  <2>3. Aired'
    BY <2>1, <2>2 DEF SuiteInv, Aired
  <2>4. QED
    BY <1>1, <2>1, <2>3 DEF SuiteInv
<1>3. CASE ShouldFire
  <2>1. day \notin recapRows /\ recapTask = "poll" /\ recapTask' = "write"
        /\ recaps' = [recaps EXCEPT ![day] = @ + 1]
        /\ UNCHANGED <<day, recapRows, unnoted>>
    BY <1>3 DEF RecapPolls, ShouldFire
  <2>2. \A d \in Days : recaps[d] = unnoted[d] + InRows(d) /\ recaps[d] \in Nat /\ unnoted[d] \in Nat
    BY <2>1 DEF SuiteInv, Counted, SuiteKinds, UnderWay, InRows
  <2>3. Counted'
    BY <2>1, <2>2 DEF SuiteInv, SuiteKinds, Counted, InRows, UnderWay
  <2>4. day \in Days /\ day \in TradingDays /\ recaps \in [Days -> Nat]
    BY <1>3 DEF SuiteInv, SuiteKinds, ShouldFire
  <2>5. recaps'[day] > 0 /\ \A d \in Days \ TradingDays : recaps'[d] = recaps[d]
    BY <2>1, <2>2, <2>4
  <2>6. Aired'
    BY <2>1, <2>5 DEF SuiteInv, Aired
  <2>7. QED
    BY <1>1, <2>3, <2>6 DEF SuiteInv
<1>4. QED
  BY <1>2, <1>3

LEMMA RecapIsNoted_Inv == SuiteInv /\ RecapIsNoted => SuiteInv'
<1> SUFFICES ASSUME SuiteInv, RecapIsNoted PROVE SuiteInv'
  OBVIOUS
<1>1. SuiteKinds' /\ Routed' /\ SidecarsAreRouted'
  BY DEF SuiteInv, SuiteKinds, Routed, SidecarsAreRouted, RecapIsNoted
<1>2. /\ recapTask = "write" /\ recapTask' = "poll" /\ day \notin recapRows /\ day \in Days
      /\ UNCHANGED <<day, recaps>>
  BY DEF SuiteInv, SuiteKinds, Counted, RecapIsNoted
<1>3. \A d \in Days : /\ recaps[d] = unnoted[d] + InRows(d) + (IF d = day THEN 1 ELSE 0)
                      /\ recaps[d] \in Nat /\ unnoted[d] \in Nat
  BY <1>2 DEF SuiteInv, SuiteKinds, Counted, UnderWay
<1>4. Counted'
  <2>1. CASE recapRows' = recapRows \cup {day} /\ unnoted' = unnoted
    BY <1>2, <1>3, <2>1 DEF Counted, InRows, UnderWay
  <2>2. CASE recapRows' = recapRows /\ unnoted' = [unnoted EXCEPT ![day] = @ + 1]
    BY <1>2, <1>3, <2>2 DEF SuiteInv, SuiteKinds, Counted, InRows, UnderWay
  <2>3. QED
    BY <2>1, <2>2 DEF RecapIsNoted, RowWritten
<1>5. Aired'
  BY AiredStays DEF SuiteInv, RecapIsNoted
<1>6. QED
  BY <1>1, <1>4, <1>5 DEF SuiteInv

LEMMA ClockMoves_Inv == SuiteInv /\ ClockMoves => SuiteInv'
<1> SUFFICES ASSUME SuiteInv, ClockMoves PROVE SuiteInv'
  OBVIOUS
<1>1. MaxDay \in Nat
  BY SuiteAssumption
<1>2. SuiteKinds'
  BY <1>1 DEF SuiteInv, SuiteKinds, ClockMoves, processVars, recapVars, Days
<1>3. Routed' /\ SidecarsAreRouted'
  BY DEF SuiteInv, Routed, SidecarsAreRouted, ClockMoves, processVars
<1>4. Counted'
  BY DEF SuiteInv, Counted, InRows, UnderWay, ClockMoves, processVars, recapVars
<1>5. Aired'
  BY DEF SuiteInv, Aired, ClockMoves, recapVars
<1>6. QED
  BY <1>2, <1>3, <1>4, <1>5 DEF SuiteInv

LEMMA SuiteStutter_Inv == SuiteInv /\ UNCHANGED suiteVars => SuiteInv'
<1> SUFFICES ASSUME SuiteInv, UNCHANGED suiteVars PROVE SuiteInv'
  OBVIOUS
<1>1. SuiteKinds' /\ Routed' /\ SidecarsAreRouted'
  BY DEF SuiteInv, SuiteKinds, Routed, SidecarsAreRouted, suiteVars
<1>2. QED
  BY <1>1, CountedStays, AiredStays DEF SuiteInv, suiteVars

(* Boots, shutdowns, crashes and the recap loop keep the invariant. *)
THEOREM SuiteInvHolds == SuiteSpec => []SuiteInv
<1>1. SuiteInv /\ [SuiteNext]_suiteVars => SuiteInv'
  BY SidecarPublishes_Inv, Lifecycle_Inv, BootEnds_Inv, ProcessEnds_Inv, RecapPolls_Inv,
     RecapIsNoted_Inv, ClockMoves_Inv, SuiteStutter_Inv
  DEF SuiteNext, ShutdownEnds, SuiteCrash
<1>2. QED
  BY SuiteInit_Inv, <1>1, PTL DEF SuiteSpec

(* What the coordinators publish is always routed, from the start of the   *)
(* first to the stop of the last (orchestrator/broadcast_suite.py).        *)
THEOREM SidecarsAreRoutedHolds == SuiteSpec => []SidecarsAreRouted
<1>1. SuiteInv => SidecarsAreRouted
  BY DEF SuiteInv
<1>2. QED
  BY SuiteInvHolds, <1>1, PTL

(* A day's recap is published again only if the row of the one before was  *)
(* lost, over any number of restarts (orchestrator/broadcast_suite.py).    *)
THEOREM RecapRepeatsForAReasonHolds == SuiteSpec => []RecapRepeatsForAReason
<1>1. SuiteInv => RecapRepeatsForAReason
  <2> SUFFICES ASSUME SuiteInv, NEW d \in Days
               PROVE  recaps[d] <= 1 + unnoted[d] /\ (d \in recapRows => recaps[d] > unnoted[d])
    BY DEF RecapRepeatsForAReason
  <2>1. recaps[d] = unnoted[d] + InRows(d) + UnderWay(d) /\ recaps[d] \in Nat /\ unnoted[d] \in Nat
    BY DEF SuiteInv, Counted, SuiteKinds
  <2>2. ~(d \in recapRows /\ recapTask = "write" /\ d = day)
    BY DEF SuiteInv, Counted
  <2>3. QED
    BY <2>1, <2>2 DEF InRows, UnderWay
<1>2. QED
  BY SuiteInvHolds, <1>1, PTL

(* When the window of a trading day closes on a running loop, its recap    *)
(* has been shown; no other day has one (orchestrator/broadcast_suite.py). *)
THEOREM RecapIsShownHolds == SuiteSpec => RecapIsShown
<1> DEFINE Step ==
        /\ (stretch = "window" /\ stretch' = "after" /\ recapTask = "poll" /\ day \in TradingDays
              => recaps[day] > 0)
        /\ \A d \in Days \ TradingDays : recaps'[d] = 0
<1>1. ASSUME SuiteInv, SuiteInv', [SuiteNext]_suiteVars PROVE [Step]_suiteVars
  <2> SUFFICES ASSUME SuiteNext PROVE Step
    BY <1>1
  <2>1. \A d \in Days \ TradingDays : recaps'[d] = 0
    BY <1>1 DEF SuiteInv, Aired
  <2>2. ASSUME stretch = "window", stretch' = "after", recapTask = "poll", day \in TradingDays
        PROVE  recaps[day] > 0
    <3>1. ClockMoves
      BY <2>2 DEF SuiteNext, BootBegins, SidecarStarts, BootEnds, ShutdownBegins, SidecarStops,
             ArbiterLeaves, ShutdownEnds, SuiteCrash, ProcessEnds, RecapPolls, RecapIsNoted,
             OperatorPushes, SidecarPublishes
    <3>2. polled
      BY <2>2, <3>1 DEF ClockMoves
    <3>3. QED
      BY <1>1, <2>2, <3>2 DEF SuiteInv, Aired
  <2>3. QED
    BY <2>1, <2>2
<1>2. QED
  BY SuiteInvHolds, <1>1, PTL DEF SuiteSpec, RecapIsShown

(* The recap of a trading day is shown, and twice only for a lost row      *)
(* (orchestrator/broadcast_suite.py).                                      *)
THEOREM RecapOncePerDayHolds == SuiteSpec => RecapOncePerDay
<1>1. QED
  BY RecapRepeatsForAReasonHolds, RecapIsShownHolds, PTL DEF RecapOncePerDay

-------------------------------------------------------------------------------
(* The stream and its recording.                                           *)

Places == {"away", "handshake", "wait", "send"}
StreamTypes ==
    /\ events \in Nat
    /\ at \in [Clients -> Places] /\ broken \subseteq Clients
    /\ inbox \in [Clients -> Seq(Nat)] /\ sending \in [Clients -> Seq(Nat)]
    /\ got \in [Clients -> Seq(Nat)] /\ filed \in [Clients -> Seq(Nat)]
    /\ missed \in [Clients -> SUBSET Nat] /\ unwritten \in [Clients -> SUBSET Nat]
    /\ since \in [Clients -> Nat]
    /\ recorders \in Nat /\ registry \in 0 .. recorders
    /\ closed \subseteq 1 .. recorders
    /\ recorder \in [Clients -> 0 .. recorders]

(* What a client has received and is being sent. *)
Shown(c) == got[c] \o sending[c]

(* Nothing is left of a connection that is not subscribed. *)
Fresh(c) ==
    /\ at[c] \in {"away", "handshake"} =>
          /\ got[c] = <<>> /\ inbox[c] = <<>> /\ sending[c] = <<>> /\ filed[c] = <<>>
          /\ missed[c] = {} /\ unwritten[c] = {}
    /\ at[c] = "wait" => sending[c] = <<>>
    /\ at[c] = "send" => Len(sending[c]) = 1

(* A subscriber that missed nothing has everything up to now; one that did *)
(* still has a full backlog, the first of which comes next.                *)
InStep(c) ==
    at[c] \in {"wait", "send"} =>
        LET L == Len(Shown(c)) IN
        /\ \A i \in 1 .. L : Shown(c)[i] = since[c] + i
        /\ missed[c] = {} =>
              /\ L + Len(inbox[c]) = events - since[c]
              /\ \A j \in 1 .. Len(inbox[c]) : inbox[c][j] = since[c] + L + j
        /\ missed[c] # {} =>
              /\ at[c] = "wait" => Len(inbox[c]) >= QueueCap /\ inbox[c][1] = since[c] + L + 1
              /\ at[c] = "send" => Len(inbox[c]) >= QueueCap - 1

(* What is yet to come was dropped or waits in the inbox. *)
Accounted(c) ==
    at[c] \in {"wait", "send"} =>
        \A n \in since[c] + Len(Shown(c)) + 1 .. events :
            n \in missed[c] \/ \E j \in 1 .. Len(inbox[c]) : inbox[c][j] = n

(* All the events of a connection up to last are filed or failed to be,    *)
(* and no others are.                                                      *)
FiledUpTo(c, last) ==
    /\ unwritten[c] \subseteq since[c] + 1 .. last
    /\ \A i \in 1 .. Len(filed[c]) : filed[c][i] \in since[c] + 1 .. last
    /\ \A n \in since[c] + 1 .. last :
          n \in unwritten[c] \/ \E i \in 1 .. Len(filed[c]) : filed[c][i] = n
    /\ InOrder(filed[c])

(* A taped subscriber has a recorder, which has been given all it is shown. *)
Filed(c) ==
    at[c] \in {"wait", "send"} /\ c \in Taped =>
        recorder[c] # 0 /\ (recorder[c] \notin closed => FiledUpTo(c, since[c] + Len(Shown(c))))

PerClient == \A c \in Clients : Fresh(c) /\ InStep(c) /\ Filed(c) /\ Accounted(c)
StreamInv == StreamTypes /\ PerClient /\ OneOpenRecorder

Sizes == /\ {SlowAt, QueueCap} \subseteq Nat \ {0} /\ SlowAt + 1 < QueueCap
LEMMA SizesHold == Sizes
  BY LiveStreamAssumption DEF Sizes

-------------------------------------------------------------------------------
(* A step that leaves all there is of a client alone, and publishes and    *)
(* closes nothing.                                                         *)
Untouched(c) ==
    /\ at'[c] = at[c] /\ inbox'[c] = inbox[c] /\ sending'[c] = sending[c] /\ got'[c] = got[c]
    /\ filed'[c] = filed[c] /\ unwritten'[c] = unwritten[c] /\ missed'[c] = missed[c]
    /\ since'[c] = since[c] /\ recorder'[c] = recorder[c]

LEMMA UntouchedStays ==
    ASSUME NEW c \in Clients, Fresh(c), InStep(c), Filed(c), Accounted(c), Untouched(c),
           events' = events, closed \subseteq closed'
    PROVE  Fresh(c)' /\ InStep(c)' /\ Filed(c)' /\ Accounted(c)'
<1>1. Shown(c)' = Shown(c)
  BY DEF Untouched, Shown
<1>2. Fresh(c)' /\ InStep(c)'
  BY <1>1 DEF Untouched, Fresh, InStep
<1>3. Filed(c)'
  BY <1>1 DEF Untouched, Filed, FiledUpTo
<1>4. Accounted(c)'
  BY <1>1 DEF Untouched, Accounted
<1>5. QED
  BY <1>2, <1>3, <1>4

(* What a connection that has ended is like. *)
Departed(c) ==
    /\ at'[c] = "away" /\ inbox'[c] = <<>> /\ sending'[c] = <<>> /\ got'[c] = <<>>
    /\ filed'[c] = <<>> /\ missed'[c] = {} /\ unwritten'[c] = {}

LEMMA LeavesClean ==
    ASSUME StreamInv, NEW c \in Clients, Leave(c)
    PROVE  StreamInv'
<1>1. StreamTypes'
  <2>1. <<>> \in Seq(Nat)
    OBVIOUS
  <2>2. QED
    BY <2>1 DEF StreamInv, StreamTypes, Places, Leave, busVars
<1>2. ASSUME NEW d \in Clients
      PROVE  Fresh(d)' /\ InStep(d)' /\ Filed(d)' /\ Accounted(d)'
  <2>1. CASE d = c
    <3>1. Departed(c)
      BY DEF StreamInv, StreamTypes, Leave, Departed
    <3>2. QED
      BY <2>1, <3>1 DEF Departed, Fresh, InStep, Filed, Accounted
  <2>2. CASE d # c
    <3>1. Untouched(d)
      BY <2>2 DEF StreamInv, StreamTypes, Leave, Untouched
    <3>2. events' = events /\ closed' = closed
      BY DEF Leave, busVars
    <3>3. QED
      BY <3>1, <3>2, UntouchedStays DEF StreamInv, PerClient
  <2>3. QED
    BY <2>1, <2>2
<1>3. OneOpenRecorder'
  BY DEF StreamInv, Leave, OneOpenRecorder
<1>4. QED
  BY <1>1, <1>2, <1>3 DEF StreamInv, PerClient

-------------------------------------------------------------------------------
LEMMA StreamInit_Inv == StreamInit => StreamInv
<1> SUFFICES ASSUME StreamInit PROVE StreamInv
  OBVIOUS
<1>1. <<>> \in Seq(Nat) /\ <<>> \o <<>> = <<>>
  OBVIOUS
<1>2. StreamTypes
  BY <1>1 DEF StreamInit, StreamTypes, Nothing, Places
<1>3. PerClient
  BY DEF StreamInit, PerClient, Fresh, InStep, Filed, Accounted, Nothing
<1>4. OneOpenRecorder
  BY DEF StreamInit, OneOpenRecorder
<1>5. QED
  BY <1>2, <1>3, <1>4 DEF StreamInv

(* Publishing reaches every subscriber that is not full. *)
LEMMA Fanout_Inv ==
    ASSUME StreamInv, Fanout(events + 1)
    PROVE  StreamInv'
<1>1. Sizes /\ events \in Nat
  BY SizesHold DEF StreamInv, StreamTypes
<1>2. \A c \in Clients : inbox[c] \in Seq(Nat) /\ Len(inbox[c]) \in Nat
  BY DEF StreamInv, StreamTypes
<1>3. ASSUME NEW c \in Clients
      PROVE  /\ Enqueued(inbox[c], events + 1) \in Seq(Nat)
             /\ ~Full(inbox[c]) => Enqueued(inbox[c], events + 1) = Append(inbox[c], events + 1)
             /\ Full(inbox[c]) => Enqueued(inbox[c], events + 1) = inbox[c]
  BY <1>1, <1>2, AppendProperties DEF Enqueued
<1>4. StreamTypes'
  <2>1. inbox' \in [Clients -> Seq(Nat)]
    BY <1>2, <1>3 DEF Fanout
  <2>2. missed' \in [Clients -> SUBSET Nat]
    BY <1>1 DEF Fanout, StreamInv, StreamTypes
  <2>3. QED
    BY <1>1, <2>1, <2>2 DEF Fanout, StreamInv, StreamTypes, recordingVars
<1>5. ASSUME NEW c \in Clients
      PROVE  Fresh(c)' /\ InStep(c)' /\ Filed(c)' /\ Accounted(c)'
  <2>1. /\ at' = at /\ sending' = sending /\ got' = got /\ filed' = filed /\ since' = since
        /\ recorder' = recorder /\ closed' = closed /\ events' = events + 1
        /\ unwritten' = unwritten
    BY DEF Fanout, recordingVars
  <2>2. Fresh(c) /\ InStep(c) /\ Filed(c) /\ Accounted(c)
    BY DEF StreamInv, PerClient
  <2>3. /\ Filed(c)' /\ Shown(c)' = Shown(c)
        /\ Len(Shown(c)) \in Nat /\ since[c] \in Nat
    BY <2>1, <2>2 DEF Filed, FiledUpTo, Shown, StreamInv, StreamTypes
  <2>4. CASE at[c] \notin {"wait", "send"}
    <3>1. inbox'[c] = inbox[c] /\ missed'[c] = missed[c]
      BY <2>4 DEF Fanout, Subscribers, Lagging
    <3>2. QED
      BY <2>1, <2>2, <2>3, <2>4, <3>1 DEF Fresh, InStep, Accounted
  <2>5. CASE at[c] \in {"wait", "send"} /\ Full(inbox[c])
    <3>1. inbox'[c] = inbox[c] /\ missed'[c] = missed[c] \cup {events + 1}
      BY <2>5 DEF Fanout, Subscribers, Lagging, Enqueued
    <3>2. Fresh(c)'
      BY <2>1, <2>2, <2>5 DEF Fresh
    <3>3. InStep(c)'
      <4>1. Len(inbox[c]) >= QueueCap /\ QueueCap \in Nat \ {0}
        BY <1>1, <1>2, <2>5 DEF Full, Sizes
      <4>2. at[c] = "wait" => inbox[c][1] = since[c] + Len(Shown(c)) + 1
        BY <1>2, <2>2, <2>3, <2>5, <4>1 DEF InStep
      <4>3. /\ missed'[c] # {} /\ at'[c] = at[c] /\ inbox'[c] = inbox[c] /\ since'[c] = since[c]
            /\ Len(inbox[c]) >= QueueCap - 1
        BY <2>1, <3>1, <4>1
      <4>4. /\ Shown(c)' = Shown(c)
            /\ \A i \in 1 .. Len(Shown(c)) : Shown(c)[i] = since[c] + i
        BY <2>2, <2>3, <2>5 DEF InStep
      <4>5. QED
        BY <4>1, <4>2, <4>3, <4>4 DEF InStep
    <3>4. Accounted(c)'
      <4> DEFINE last == since[c] + Len(Shown(c))
      <4>1. last \in Nat /\ \A m \in last + 1 .. events + 1 : m \in last + 1 .. events \/ m = events + 1
        BY <1>1, <2>3
      <4>2. \A m \in last + 1 .. events :
               m \in missed[c] \/ \E j \in 1 .. Len(inbox[c]) : inbox[c][j] = m
        BY <2>2, <2>5 DEF Accounted
      <4>3. \A m \in last + 1 .. events + 1 :
               m \in missed'[c] \/ \E j \in 1 .. Len(inbox[c]) : inbox[c][j] = m
        BY <3>1, <4>1, <4>2
      <4>4. QED
        BY <2>1, <2>3, <3>1, <4>3 DEF Accounted
    <3>6. QED
      BY <2>3, <3>2, <3>3, <3>4
  <2>6. CASE at[c] \in {"wait", "send"} /\ ~Full(inbox[c])
    <3>1. inbox'[c] = Append(inbox[c], events + 1) /\ missed'[c] = missed[c]
      BY <1>3, <2>6 DEF Fanout, Subscribers, Lagging
    <3>2. /\ Len(inbox'[c]) = Len(inbox[c]) + 1
          /\ \A j \in 1 .. Len(inbox[c]) : inbox'[c][j] = inbox[c][j]
          /\ inbox'[c][Len(inbox[c]) + 1] = events + 1
      BY <1>1, <1>2, <3>1, AppendProperties
    <3>3. Fresh(c)'
      BY <2>1, <2>2, <2>6 DEF Fresh
    <3>4. ASSUME missed[c] = {} PROVE InStep(c)'
      <4> DEFINE L == Len(Shown(c))
                 n == Len(inbox[c])
      <4>1. /\ L + n = events - since[c]
            /\ \A j \in 1 .. n : inbox[c][j] = since[c] + L + j
            /\ \A i \in 1 .. L : Shown(c)[i] = since[c] + i
        BY <2>2, <2>6, <3>4 DEF InStep
      <4>2. L \in Nat /\ n \in Nat /\ since[c] \in Nat /\ events \in Nat
        BY <1>1, <1>2, <2>3
      <4> HIDE DEF L, n
      <4>3. L + (n + 1) = events + 1 - since[c]
        BY <4>1, <4>2
      <4>4. ASSUME NEW j \in 1 .. n + 1
            PROVE  inbox'[c][j] = since[c] + L + j
        <5>1. CASE j = n + 1
          <6>1. inbox'[c][n + 1] = events + 1
            BY <3>2 DEF n
          <6>2. events + 1 = since[c] + L + (n + 1)
            BY <4>1, <4>2
          <6>3. QED
            BY <5>1, <6>1, <6>2
        <5>2. CASE j # n + 1
          <6>1. j \in 1 .. n
            BY <4>2, <5>2
          <6>2. QED
            BY <3>2, <4>1, <6>1 DEF n
        <5>3. QED
          BY <5>1, <5>2
      <4>5. InStep(c)'
        <5>1. Len(Shown(c)') = L /\ Shown(c)' = Shown(c) /\ Len(inbox'[c]) = n + 1
          BY <2>3, <3>2 DEF L, n
        <5>2. /\ missed'[c] = {} /\ since'[c] = since[c] /\ events' = events + 1
          BY <2>1, <3>1, <3>4
        <5>3. \A i \in 1 .. L : Shown(c)'[i] = since'[c] + i
          BY <4>1, <5>1, <5>2
        <5>4. \A j \in 1 .. n + 1 : inbox'[c][j] = since'[c] + L + j
          BY <4>4, <5>2
        <5>5. L + (n + 1) = events' - since'[c]
          BY <4>2, <4>3, <5>2
        <5>6. QED
          BY <5>1, <5>2, <5>3, <5>4, <5>5 DEF InStep
      <4>6. QED
        BY <4>5
    <3>5. ASSUME missed[c] # {} PROVE InStep(c)'
      <4>1. at[c] = "send" /\ Len(inbox[c]) >= QueueCap - 1
        BY <1>1, <1>2, <2>2, <2>6, <3>5 DEF InStep, Full, Sizes
      <4>2. /\ at'[c] = "send" /\ missed'[c] # {}
            /\ Len(inbox'[c]) >= QueueCap - 1
        BY <1>1, <1>2, <2>1, <3>1, <3>2, <3>5, <4>1 DEF Sizes
      <4>3. /\ Shown(c)' = Shown(c)
            /\ \A i \in 1 .. Len(Shown(c)) : Shown(c)[i] = since'[c] + i
        BY <2>1, <2>2, <2>3, <2>6 DEF InStep
      <4>4. QED
        BY <4>2, <4>3 DEF InStep
    <3>6. Accounted(c)'
      <4> DEFINE last == since[c] + Len(Shown(c))
      <4>1. last \in Nat /\ \A m \in last + 1 .. events + 1 : m \in last + 1 .. events \/ m = events + 1
        BY <1>1, <2>3
      <4>2. \A m \in last + 1 .. events :
               m \in missed[c] \/ \E j \in 1 .. Len(inbox[c]) : inbox[c][j] = m
        BY <2>2, <2>6 DEF Accounted
      <4>3. \A m \in last + 1 .. events + 1 :
               m \in missed'[c] \/ \E j \in 1 .. Len(inbox'[c]) : inbox'[c][j] = m
        <5>1. \A j \in 1 .. Len(inbox[c]) : j \in 1 .. Len(inbox'[c])
          BY <1>2, <3>2
        <5>2. Len(inbox[c]) + 1 \in 1 .. Len(inbox'[c])
          BY <1>2, <3>2
        <5>3. QED
          BY <3>1, <3>2, <4>1, <4>2, <5>1, <5>2
      <4>4. QED
        BY <2>1, <2>3, <4>3 DEF Accounted
    <3>7. QED
      BY <2>3, <3>3, <3>4, <3>5, <3>6
  <2>7. QED
    BY <2>4, <2>5, <2>6
<1>6. OneOpenRecorder'
  BY DEF StreamInv, Fanout, recordingVars, OneOpenRecorder
<1>7. QED
  BY <1>4, <1>5, <1>6 DEF StreamInv, PerClient

-------------------------------------------------------------------------------
(* Steps that touch neither a client's connection nor the recorders.       *)
LEMMA ConnectionStarts_Inv ==
    ASSUME StreamInv, AskForGap \/ \E c \in Clients : Connect(c) \/ Disconnect(c)
    PROVE  StreamInv'
<1>1. StreamTypes'
  BY DEF StreamInv, StreamTypes, Places, Connect, Disconnect, AskForGap, busVars, connVars, recordingVars
<1>2. /\ UNCHANGED <<events, inbox, sending, got, filed, unwritten, missed, since, recorder, closed>>
      /\ \A d \in Clients : at'[d] = at[d] \/ (at[d] = "away" /\ at'[d] = "handshake")
  BY DEF StreamInv, StreamTypes, Connect, Disconnect, AskForGap, busVars, connVars, recordingVars
<1>3. PerClient'
  <2> SUFFICES ASSUME NEW d \in Clients PROVE Fresh(d)' /\ InStep(d)' /\ Filed(d)' /\ Accounted(d)'
    BY DEF PerClient
  <2>1. Fresh(d) /\ InStep(d) /\ Filed(d) /\ Accounted(d)
    BY DEF StreamInv, PerClient
  <2>2. Shown(d)' = Shown(d)
    BY <1>2 DEF Shown
  <2>3. QED
    BY <1>2, <2>1, <2>2 DEF Fresh, InStep, Filed, FiledUpTo, Accounted
<1>4. OneOpenRecorder'
  BY DEF StreamInv, OneOpenRecorder, Connect, Disconnect, AskForGap, busVars, connVars, recordingVars
<1>5. QED
  BY <1>1, <1>3, <1>4 DEF StreamInv

(* There is an open recorder, the current one, or the next is opened. *)
LEMMA Current ==
    ASSUME StreamInv
    PROVE  /\ CurrentRecorder \in Nat \ {0}
           /\ CurrentRecorder > recorders => registry = 0 /\ CurrentRecorder = recorders + 1
           /\ CurrentRecorder <= recorders => CurrentRecorder = registry
           /\ CurrentRecorder \notin closed
<1>1. recorders \in Nat /\ registry \in 0 .. recorders /\ closed \subseteq 1 .. recorders
  BY DEF StreamInv, StreamTypes
<1>2. registry # 0 => registry \notin closed
  BY DEF StreamInv, OneOpenRecorder
<1>3. QED
  BY <1>1, <1>2 DEF CurrentRecorder

LEMMA Opened ==
    ASSUME StreamInv, OpenRecorder(CurrentRecorder), closed' = closed
    PROVE  /\ recorders' \in Nat /\ recorders <= recorders' /\ CurrentRecorder <= recorders'
           /\ registry' = CurrentRecorder /\ registry' \in 0 .. recorders'
           /\ OneOpenRecorder'
<1> DEFINE r == CurrentRecorder
<1>1. /\ r \in Nat \ {0} /\ r \notin closed
      /\ r > recorders => registry = 0 /\ r = recorders + 1
      /\ r <= recorders => r = registry
  BY Current
<1>2. recorders \in Nat /\ closed \subseteq 1 .. recorders /\ registry \in 0 .. recorders
  BY DEF StreamInv, StreamTypes
<1>3. (1 .. recorders) \ closed = {registry} \ {0}
  BY DEF StreamInv, OneOpenRecorder
<1>4. registry' = r /\ recorders' = (IF r > recorders THEN r ELSE recorders)
  BY DEF OpenRecorder
<1> HIDE DEF r
<1>5. (1 .. recorders') \ closed = {r} \ {0}
  <2>1. CASE r > recorders
    <3>1. 1 .. recorders' = (1 .. recorders) \cup {r}
      BY <1>1, <1>2, <1>4, <2>1
    <3>2. (1 .. recorders) \ closed = {}
      BY <1>1, <1>3, <2>1
    <3>3. QED
      BY <1>1, <3>1, <3>2
  <2>2. CASE ~(r > recorders)
    BY <1>1, <1>2, <1>3, <1>4, <2>2
  <2>3. QED
    BY <2>1, <2>2
<1>6. QED
  BY <1>1, <1>2, <1>4, <1>5 DEF OneOpenRecorder, r

LEMMA GoLive_Inv ==
    ASSUME StreamInv, NEW c \in Clients, GoLive(c)
    PROVE  StreamInv'
<1>1. /\ recorders' \in Nat /\ recorders <= recorders' /\ registry' \in 0 .. recorders'
      /\ OneOpenRecorder' /\ closed' = closed
      /\ c \in Taped => recorder' = [recorder EXCEPT ![c] = CurrentRecorder]
                         /\ CurrentRecorder \in 1 .. recorders'
      /\ c \notin Taped => recorder' = recorder
  <2>1. CASE c \in Taped
    BY <2>1, Opened, Current DEF GoLive
  <2>2. CASE c \notin Taped
    BY <2>2 DEF GoLive, StreamInv, StreamTypes, OneOpenRecorder
  <2>3. QED
    BY <2>1, <2>2
<1>2. /\ at' = [at EXCEPT ![c] = "wait"] /\ since' = [since EXCEPT ![c] = events]
      /\ UNCHANGED <<events, broken, inbox, sending, got, filed, unwritten, missed>>
  BY DEF GoLive, busVars
<1>3. StreamTypes'
  <2>1. recorder' \in [Clients -> 0 .. recorders']
    <3>1. recorder \in [Clients -> 0 .. recorders'] /\ recorders \in Nat
      BY <1>1 DEF StreamInv, StreamTypes
    <3>2. c \in Taped => CurrentRecorder \in 0 .. recorders'
      BY <1>1
    <3>3. QED
      BY <1>1, <3>1, <3>2
  <2>2. closed' \subseteq 1 .. recorders'
    BY <1>1 DEF StreamInv, StreamTypes
  <2>3. QED
    BY <1>1, <1>2, <2>1, <2>2 DEF StreamInv, StreamTypes, Places
<1>4. PerClient'
  <2> SUFFICES ASSUME NEW d \in Clients PROVE Fresh(d)' /\ InStep(d)' /\ Filed(d)' /\ Accounted(d)'
    BY DEF PerClient
  <2>1. CASE d = c
    <3>1. /\ got[c] = <<>> /\ inbox[c] = <<>> /\ sending[c] = <<>> /\ filed[c] = <<>>
          /\ missed[c] = {} /\ unwritten[c] = {}
      BY DEF StreamInv, PerClient, Fresh, GoLive
    <3>2. Shown(c)' = <<>>
      BY <1>2, <3>1 DEF Shown
    <3>3. at'[c] = "wait" /\ since'[c] = events /\ events' = events /\ events \in Nat
      BY <1>2 DEF StreamInv, StreamTypes
    <3>4. Fresh(c)'
      BY <1>2, <3>1, <3>3 DEF Fresh
    <3>5. InStep(c)'
      BY <1>2, <3>1, <3>2, <3>3 DEF InStep
    <3>6. Filed(c)'
      <4>1. c \in Taped => recorder'[c] # 0
        BY <1>1 DEF StreamInv, StreamTypes
      <4>2. since'[c] + Len(<<>>) = since'[c] /\ Len(<<>>) = 0
        BY <3>3
      <4>3. FiledUpTo(c, since[c] + Len(Shown(c)))'
        BY <1>2, <3>1, <3>2, <3>3, <4>2 DEF FiledUpTo, InOrder
      <4>4. QED
        BY <4>1, <4>3 DEF Filed
    <3>7. Accounted(c)'
      BY <3>2, <3>3 DEF Accounted
    <3>8. QED
      BY <2>1, <3>4, <3>5, <3>6, <3>7
  <2>2. CASE d # c
    <3>1. Untouched(d)
      BY <1>1, <1>2, <2>2 DEF StreamInv, StreamTypes, Untouched
    <3>2. QED
      BY <1>1, <1>2, <3>1, UntouchedStays DEF StreamInv, PerClient
  <2>3. QED
    BY <2>1, <2>2
<1>5. QED
  BY <1>1, <1>3, <1>4 DEF StreamInv

LEMMA Recording_Inv ==
    ASSUME StreamInv, StartRecording \/ StopRecording
    PROVE  StreamInv'
<1>1. /\ recorders' \in Nat /\ recorders <= recorders' /\ registry' \in 0 .. recorders'
      /\ closed' \subseteq 1 .. recorders' /\ closed \subseteq closed' /\ OneOpenRecorder'
  <2>1. CASE StartRecording
    <3>1. closed' = closed
      BY <2>1 DEF StartRecording
    <3>2. closed \subseteq 1 .. recorders /\ recorders \in Nat
      BY DEF StreamInv, StreamTypes
    <3>3. QED
      BY <2>1, <3>1, <3>2, Opened DEF StartRecording
  <2>2. CASE StopRecording
    BY <2>2 DEF StopRecording, StreamInv, StreamTypes, OneOpenRecorder
  <2>3. QED
    BY <2>1, <2>2
<1>2. UNCHANGED <<events, at, broken, inbox, sending, got, missed, since, recorder, filed, unwritten>>
  BY DEF StartRecording, StopRecording, busVars, connVars
<1>3. StreamTypes'
  BY <1>1, <1>2 DEF StreamInv, StreamTypes, Places
<1>4. PerClient'
  <2> SUFFICES ASSUME NEW d \in Clients PROVE Fresh(d)' /\ InStep(d)' /\ Filed(d)' /\ Accounted(d)'
    BY DEF PerClient
  <2>1. QED
    BY <1>1, <1>2, UntouchedStays DEF StreamInv, PerClient, Untouched
<1>5. QED
  BY <1>1, <1>3, <1>4 DEF StreamInv

-------------------------------------------------------------------------------
(* The event that comes next is the one after what was shown: a client     *)
(* that is not slow has missed nothing but what is behind a full backlog.  *)
LEMMA NextInLine ==
    ASSUME StreamInv, NEW c \in Clients, at[c] \in {"wait", "send"}, inbox[c] # <<>>,
           at[c] = "send" => ~Slow(c)
    PROVE  /\ Head(inbox[c]) \in Nat /\ Head(inbox[c]) = since[c] + Len(Shown(c)) + 1
           /\ at[c] = "send" => missed[c] = {}
<1>1. Sizes /\ inbox[c] \in Seq(Nat) /\ Len(inbox[c]) \in Nat \ {0}
  BY SizesHold, EmptySeq DEF StreamInv, StreamTypes
<1>2. InStep(c) /\ Len(Shown(c)) \in Nat /\ since[c] \in Nat
  BY DEF StreamInv, PerClient, StreamTypes, Shown
<1>3. Head(inbox[c]) = inbox[c][1] /\ inbox[c][1] \in Nat
  BY <1>1
<1>4. at[c] = "send" => missed[c] = {}
  BY <1>1, <1>2 DEF InStep, Slow, Sizes
<1>5. inbox[c][1] = since[c] + Len(Shown(c)) + 1
  BY <1>1, <1>2, <1>4 DEF InStep
<1>6. QED
  BY <1>3, <1>4, <1>5

(* A frame is added to the file, or to what could not be written. *)
LEMMA RecordWrites ==
    ASSUME StreamInv, NEW c \in Clients, NEW n \in Nat, Record(c, n)
    PROVE  /\ filed' \in [Clients -> Seq(Nat)] /\ unwritten' \in [Clients -> SUBSET Nat]
           /\ \A d \in Clients \ {c} : filed'[d] = filed[d] /\ unwritten'[d] = unwritten[d]
           /\ Recording(c) => \/ filed'[c] = Append(filed[c], n) /\ unwritten'[c] = unwritten[c]
                              \/ filed'[c] = filed[c] /\ unwritten'[c] = unwritten[c] \cup {n}
<1>1. filed \in [Clients -> Seq(Nat)] /\ unwritten \in [Clients -> SUBSET Nat]
  BY DEF StreamInv, StreamTypes
<1>2. Append(filed[c], n) \in Seq(Nat) /\ unwritten[c] \cup {n} \in SUBSET Nat
  BY <1>1, AppendProperties
<1>3. CASE Written(c, n)
  BY <1>1, <1>2, <1>3 DEF Written
<1>4. CASE WriteFails(c, n)
  BY <1>1, <1>2, <1>4 DEF WriteFails
<1>5. CASE ~Recording(c)
  BY <1>1, <1>5 DEF Record
<1>6. QED
  BY <1>3, <1>4, <1>5 DEF Record

(* The file stays in order, since what is recorded next is the next event. *)
LEMMA FiledOneMore ==
    ASSUME NEW c \in Clients, NEW h \in Nat, since[c] \in Nat, since[c] < h, since'[c] = since[c],
           filed[c] \in Seq(Nat), FiledUpTo(c, h - 1),
           \/ filed'[c] = Append(filed[c], h) /\ unwritten'[c] = unwritten[c]
           \/ filed'[c] = filed[c] /\ unwritten'[c] = unwritten[c] \cup {h}
    PROVE  FiledUpTo(c, h)'
<1> DEFINE f == filed[c]
           first == since[c] + 1
<1>1. /\ f \in Seq(Nat) /\ Len(f) \in Nat /\ DOMAIN f = 1 .. Len(f)
      /\ first \in Nat /\ first <= h
  BY LenProperties
<1>2. /\ unwritten[c] \subseteq first .. h - 1
      /\ \A i \in 1 .. Len(f) : f[i] \in first .. h - 1
      /\ \A n \in first .. h - 1 : n \in unwritten[c] \/ \E i \in 1 .. Len(f) : f[i] = n
      /\ \A i, j \in 1 .. Len(f) : i < j => f[i] < f[j]
  BY <1>1 DEF FiledUpTo, InOrder
<1> HIDE DEF f, first
<1>3. /\ h \in first .. h /\ \A n \in first .. h - 1 : n \in first .. h
      /\ \A n \in first .. h : n \in first .. h - 1 \/ n = h
  BY <1>1
<1>4. CASE filed'[c] = f /\ unwritten'[c] = unwritten[c] \cup {h}
  <2>1. /\ unwritten'[c] \subseteq first .. h
        /\ \A i \in 1 .. Len(f) : f[i] \in first .. h
        /\ \A n \in first .. h : n \in unwritten'[c] \/ \E i \in 1 .. Len(f) : f[i] = n
    BY <1>2, <1>3, <1>4
  <2>2. QED
    BY <1>1, <1>2, <1>4, <2>1 DEF FiledUpTo, InOrder, first
<1>5. CASE filed'[c] = Append(f, h) /\ unwritten'[c] = unwritten[c]
  <2> DEFINE g == Append(f, h)
  <2>1. /\ g \in Seq(Nat) /\ Len(g) = Len(f) + 1 /\ g[Len(f) + 1] = h
        /\ \A i \in 1 .. Len(f) : g[i] = f[i]
    BY <1>1, AppendProperties
  <2>2. DOMAIN g = 1 .. Len(f) + 1
    BY <2>1, LenProperties
  <2> HIDE DEF g
  <2>3. \A i \in 1 .. Len(f) + 1 : i \in 1 .. Len(f) \/ i = Len(f) + 1
    BY <1>1
  <2>4. \A i \in 1 .. Len(f) + 1 : g[i] \in first .. h
    BY <1>2, <1>3, <2>1, <2>3
  <2>5. \A n \in first .. h : n \in unwritten[c] \/ \E i \in 1 .. Len(f) + 1 : g[i] = n
    <3>1. \A i \in 1 .. Len(f) : i \in 1 .. Len(f) + 1
      BY <1>1
    <3>2. Len(f) + 1 \in 1 .. Len(f) + 1
      BY <1>1
    <3>3. QED
      BY <1>2, <1>3, <2>1, <3>1, <3>2
  <2>6. ASSUME NEW i \in 1 .. Len(f) + 1, NEW j \in 1 .. Len(f) + 1, i < j PROVE g[i] < g[j]
    <3>1. i \in 1 .. Len(f) /\ g[i] = f[i] /\ f[i] \in first .. h - 1
      BY <1>1, <1>2, <2>1, <2>6
    <3>2. CASE j = Len(f) + 1
      BY <1>1, <2>1, <3>1, <3>2
    <3>3. CASE j \in 1 .. Len(f)
      BY <1>2, <2>1, <2>6, <3>1, <3>3
    <3>4. QED
      BY <2>3, <3>2, <3>3
  <2>7. unwritten[c] \subseteq first .. h
    BY <1>2, <1>3
  <2>8. filed'[c] = g /\ DOMAIN g = 1 .. Len(g) /\ Len(g) = Len(f) + 1
    BY <1>5, <2>1, <2>2 DEF g
  <2>9. QED
    BY <1>5, <2>4, <2>5, <2>6, <2>7, <2>8 DEF FiledUpTo, InOrder, first
<1>6. QED
  BY <1>4, <1>5 DEF f

LEMMA Take_Inv ==
    ASSUME StreamInv, NEW c \in Clients, at[c] \in {"wait", "send"}, inbox[c] # <<>>,
           at[c] = "send" => ~Slow(c),
           Take(c), got' = [got EXCEPT ![c] = Shown(c)]
    PROVE  StreamInv'
<1> DEFINE h == Head(inbox[c])
           L == Len(Shown(c))
           n == Len(inbox[c])
<1>1. h \in Nat /\ h = since[c] + L + 1 /\ (at[c] = "send" => missed[c] = {})
  BY NextInLine
<1>2. /\ inbox[c] \in Seq(Nat) /\ Shown(c) \in Seq(Nat) /\ filed[c] \in Seq(Nat)
      /\ L \in Nat /\ n \in Nat \ {0} /\ since[c] \in Nat /\ events \in Nat
  BY EmptySeq, ConcatProperties DEF StreamInv, StreamTypes, Shown
<1>3. /\ Tail(inbox[c]) \in Seq(Nat) /\ Len(Tail(inbox[c])) = n - 1
      /\ \A j \in 1 .. n - 1 : Tail(inbox[c])[j] = inbox[c][j + 1]
  BY <1>2, HeadTailProperties
<1>4. <<h>> \in Seq(Nat) /\ Len(<<h>>) = 1 /\ <<h>>[1] = h
  BY <1>1
<1>5. /\ Shown(c) \o <<h>> \in Seq(Nat) /\ Len(Shown(c) \o <<h>>) = L + 1
      /\ \A i \in 1 .. L : (Shown(c) \o <<h>>)[i] = Shown(c)[i]
      /\ (Shown(c) \o <<h>>)[L + 1] = h
  <2> HIDE DEF h
  <2>1. /\ Shown(c) \o <<h>> \in Seq(Nat) /\ Len(Shown(c) \o <<h>>) = L + Len(<<h>>)
        /\ \A i \in 1 .. L + Len(<<h>>) :
              (Shown(c) \o <<h>>)[i] = IF i <= L THEN Shown(c)[i] ELSE <<h>>[i - L]
    BY <1>2, <1>4, ConcatProperties
  <2>2. QED
    BY <1>2, <1>4, <2>1
<1>7. /\ at' = [at EXCEPT ![c] = "send"] /\ sending' = [sending EXCEPT ![c] = <<h>>]
      /\ inbox' = [inbox EXCEPT ![c] = Tail(inbox[c])]
      /\ UNCHANGED <<events, broken, missed, since, registry, recorders, closed, recorder>>
  BY DEF Take, busVars
<1>8. /\ filed' \in [Clients -> Seq(Nat)] /\ unwritten' \in [Clients -> SUBSET Nat]
      /\ \A d \in Clients \ {c} : filed'[d] = filed[d] /\ unwritten'[d] = unwritten[d]
      /\ Recording(c) => \/ filed'[c] = Append(filed[c], h) /\ unwritten'[c] = unwritten[c]
                         \/ filed'[c] = filed[c] /\ unwritten'[c] = unwritten[c] \cup {h}
  BY <1>1, RecordWrites DEF Take
<1> HIDE DEF h, L, n
<1>9. L \in Nat /\ n \in Nat \ {0} /\ since[c] \in Nat
  BY <1>2
<1>10. StreamTypes'
  BY <1>2, <1>3, <1>4, <1>5, <1>7, <1>8 DEF StreamInv, StreamTypes, Places
<1>11. ASSUME NEW d \in Clients PROVE Fresh(d)' /\ InStep(d)' /\ Filed(d)' /\ Accounted(d)'
  <2>1. CASE d = c
    <3>1. /\ at'[c] = "send" /\ sending'[c] = <<h>> /\ inbox'[c] = Tail(inbox[c])
          /\ got'[c] = Shown(c) /\ missed'[c] = missed[c] /\ since'[c] = since[c]
          /\ recorder'[c] = recorder[c] /\ events' = events /\ closed' = closed
      BY <1>7 DEF StreamInv, StreamTypes
    <3>2. Shown(c)' = Shown(c) \o <<h>>
      BY <3>1 DEF Shown
    <3>3. Fresh(c)'
      BY <1>4, <3>1 DEF Fresh
    <3>4. InStep(c)'
      <4>1. InStep(c)
        BY DEF StreamInv, PerClient
      <4>2. Len(Shown(c)') = L + 1 /\ Len(inbox'[c]) = n - 1
        BY <1>3, <1>5, <3>1, <3>2
      <4>3. \A i \in 1 .. L + 1 : Shown(c)'[i] = since[c] + i
        <5>1. \A i \in 1 .. L : Shown(c)[i] = since[c] + i
          BY <4>1, <2>1 DEF InStep, L
        <5>2. \A i \in 1 .. L : Shown(c)'[i] = since[c] + i
          BY <1>5, <3>2, <5>1
        <5>3. Shown(c)'[L + 1] = since[c] + (L + 1)
          <6>1. Shown(c)'[L + 1] = h
            BY <1>5, <3>2
          <6>2. h = since[c] + L + 1
            BY <1>1 DEF L
          <6>3. since[c] + L + 1 = since[c] + (L + 1)
            BY <1>9
          <6>4. QED
            BY <6>1, <6>2, <6>3
        <5>4. \A i \in 1 .. L + 1 : i \in 1 .. L \/ i = L + 1
          BY <1>2
        <5>5. QED
          BY <5>2, <5>3, <5>4
      <4>4. CASE missed[c] = {}
        <5>1. L + n = events - since[c] /\ \A j \in 1 .. n : inbox[c][j] = since[c] + L + j
          BY <4>1, <4>4 DEF InStep, L, n
        <5>2. (L + 1) + (n - 1) = events - since[c]
          BY <1>2, <5>1
        <5>3. \A j \in 1 .. n - 1 : inbox'[c][j] = since[c] + (L + 1) + j
          <6> SUFFICES ASSUME NEW j \in 1 .. n - 1
                       PROVE  inbox'[c][j] = since[c] + (L + 1) + j
            OBVIOUS
          <6>1. j + 1 \in 1 .. n /\ inbox'[c][j] = inbox[c][j + 1]
            BY <1>2, <1>3, <3>1
          <6>2. inbox[c][j + 1] = since[c] + L + (j + 1)
            BY <5>1, <6>1
          <6>3. since[c] + L + (j + 1) = since[c] + (L + 1) + j
            BY <1>9
          <6>4. QED
            BY <6>1, <6>2, <6>3
        <5>4. QED
          BY <3>1, <4>2, <4>3, <4>4, <5>2, <5>3 DEF InStep
      <4>5. CASE missed[c] # {}
        <5>1. n >= QueueCap
          BY <1>1, <4>1, <4>5 DEF InStep, n
        <5>2. n - 1 >= QueueCap - 1
          BY <1>2, <5>1, SizesHold DEF Sizes
        <5>3. QED
          BY <3>1, <4>2, <4>3, <4>5, <5>2 DEF InStep
      <4>6. QED
        BY <4>4, <4>5
    <3>5. Filed(c)'
      <4>1. Filed(c)
        BY DEF StreamInv, PerClient
      <4>2. ASSUME c \in Taped, recorder[c] \notin closed
            PROVE  FiledUpTo(c, since[c] + Len(Shown(c)))'
        <5>1. Recording(c) /\ FiledUpTo(c, h - 1)
          BY <1>1, <1>9, <4>1, <4>2, <2>1 DEF Filed, Recording, L
        <5>2. PICK k \in Nat : k = h
          BY <1>1
        <5>3. since[c] < k
          BY <1>1, <1>9, <5>2 DEF L
        <5>4. FiledUpTo(c, k)'
          BY <1>2, <1>8, <3>1, <5>1, <5>2, <5>3, FiledOneMore
        <5>5. k = since'[c] + Len(Shown(c)')
          <6>1. Len(Shown(c)') = L + 1
            BY <1>5, <3>2
          <6>2. h = since[c] + L + 1
            BY <1>1 DEF L
          <6>3. QED
            BY <1>9, <3>1, <5>2, <6>1, <6>2
        <5>6. QED
          BY <5>4, <5>5 DEF FiledUpTo
      <4>3. QED
        BY <3>1, <4>1, <4>2 DEF Filed
    <3>6. Accounted(c)'
      <4>1. Len(Shown(c)') = L + 1 /\ Len(inbox'[c]) = n - 1
        BY <1>3, <1>5, <3>1, <3>2
      <4>2. \A m \in since[c] + L + 1 .. events :
               m \in missed[c] \/ \E j \in 1 .. n : inbox[c][j] = m
        BY DEF StreamInv, PerClient, Accounted, L, n
      <4>3. inbox[c][1] = h
        BY <1>2, <1>9, HeadTailProperties DEF h, n
      <4>4. ASSUME NEW m \in since[c] + (L + 1) + 1 .. events, m \notin missed[c]
            PROVE  \E j \in 1 .. n - 1 : inbox'[c][j] = m
        <5>1. m \in since[c] + L + 1 .. events /\ m # h
          BY <1>1, <1>9, <1>2 DEF L
        <5>2. PICK j \in 1 .. n : inbox[c][j] = m
          BY <4>2, <4>4, <5>1
        <5>3. j # 1
          BY <4>3, <5>1, <5>2
        <5>4. j - 1 \in 1 .. n - 1 /\ (j - 1) + 1 = j
          BY <1>9, <5>3
        <5>5. inbox'[c][j - 1] = m
          BY <1>3, <3>1, <5>2, <5>4
        <5>6. QED
          BY <5>4, <5>5
      <4>5. QED
        BY <3>1, <4>1, <4>4 DEF Accounted
    <3>7. QED
      BY <2>1, <3>3, <3>4, <3>5, <3>6
  <2>2. CASE d # c
    <3>1. Untouched(d)
      BY <1>7, <1>8, <2>2 DEF StreamInv, StreamTypes, Untouched
    <3>2. QED
      BY <1>7, <3>1, UntouchedStays DEF StreamInv, PerClient
  <2>3. QED
    BY <2>1, <2>2
<1>12. OneOpenRecorder'
  BY <1>7 DEF StreamInv, OneOpenRecorder
<1>13. QED
  BY <1>10, <1>11, <1>12 DEF StreamInv, PerClient

LEMMA TakeEvent_Inv ==
    ASSUME StreamInv, NEW c \in Clients, TakeEvent(c)
    PROVE  StreamInv'
<1>1. at[c] = "wait" /\ inbox[c] # <<>> /\ Take(c) /\ got' = got
  BY DEF TakeEvent
<1>2. Shown(c) = got[c]
  <2>1. sending[c] = <<>> /\ got[c] \in Seq(Nat)
    BY <1>1 DEF StreamInv, PerClient, Fresh, StreamTypes
  <2>2. QED
    BY <2>1, ConcatEmptySeq DEF Shown
<1>3. got' = [got EXCEPT ![c] = Shown(c)]
  BY <1>1, <1>2 DEF StreamInv, StreamTypes
<1>4. QED
  BY <1>1, <1>3, Take_Inv

(* A frame was sent and nothing waits: what was being sent is received.    *)
LEMMA Drained_Inv ==
    ASSUME StreamInv, NEW c \in Clients, at[c] = "send", inbox[c] = <<>>, Received(c),
           at' = [at EXCEPT ![c] = "wait"], sending' = [sending EXCEPT ![c] = <<>>],
           UNCHANGED <<busVars, broken, inbox, missed, since, recordingVars>>
    PROVE  StreamInv'
<1>1. /\ Shown(c) \in Seq(Nat) /\ Len(Shown(c)) \in Nat /\ since[c] \in Nat /\ events \in Nat
  BY ConcatProperties DEF StreamInv, StreamTypes, Shown
<1>2. got' = [got EXCEPT ![c] = Shown(c)]
  BY DEF Received, Shown
<1>3. UNCHANGED <<events, filed, unwritten, recorder, closed, recorders, registry>>
  BY DEF busVars, recordingVars
<1>4. <<>> \in Seq(Nat) /\ Len(<<>>) = 0
  OBVIOUS
<1>5. StreamTypes'
  BY <1>1, <1>2, <1>3, <1>4 DEF StreamInv, StreamTypes, Places
<1>6. ASSUME NEW d \in Clients PROVE Fresh(d)' /\ InStep(d)' /\ Filed(d)' /\ Accounted(d)'
  <2>1. CASE d = c
    <3>1. /\ at'[c] = "wait" /\ sending'[c] = <<>> /\ inbox'[c] = <<>> /\ got'[c] = Shown(c)
          /\ missed'[c] = missed[c] /\ since'[c] = since[c] /\ recorder'[c] = recorder[c]
          /\ filed'[c] = filed[c] /\ unwritten'[c] = unwritten[c] /\ events' = events
          /\ closed' = closed
      BY <1>2, <1>3 DEF StreamInv, StreamTypes
    <3>2. Shown(c)' = Shown(c)
      <4>1. Shown(c)' = Shown(c) \o <<>>
        BY <3>1 DEF Shown
      <4>2. QED
        BY <1>1, <4>1, ConcatEmptySeq
    <3>3. Fresh(c) /\ InStep(c) /\ Filed(c) /\ Accounted(c)
      BY DEF StreamInv, PerClient
    <3>4. missed[c] = {}
      <4>1. Len(inbox[c]) < QueueCap - 1
        BY <1>4, SizesHold DEF Sizes
      <4>2. QED
        BY <1>4, <3>3, <4>1, SizesHold DEF InStep, Sizes
    <3>5. InStep(c)'
      BY <1>1, <1>4, <3>1, <3>2, <3>3, <3>4 DEF InStep
    <3>6. Fresh(c)' /\ Filed(c)'
      BY <3>1, <3>2, <3>3 DEF Fresh, Filed, FiledUpTo
    <3>7. Accounted(c)'
      BY <3>1, <3>2, <3>3 DEF Accounted
    <3>8. QED
      BY <2>1, <3>5, <3>6, <3>7
  <2>2. CASE d # c
    <3>1. Untouched(d)
      BY <1>2, <1>3, <2>2 DEF StreamInv, StreamTypes, Untouched
    <3>2. QED
      BY <1>3, <3>1, UntouchedStays DEF StreamInv, PerClient
  <2>3. QED
    BY <2>1, <2>2
<1>7. OneOpenRecorder'
  BY <1>3 DEF StreamInv, OneOpenRecorder
<1>8. QED
  BY <1>5, <1>6, <1>7 DEF StreamInv, PerClient

LEMMA EventSent_Inv ==
    ASSUME StreamInv, NEW c \in Clients, EventSent(c)
    PROVE  StreamInv'
<1>1. CASE Slow(c) /\ Leave(c)
  BY <1>1, LeavesClean
<1>2. CASE ~Slow(c) /\ inbox[c] # <<>> /\ Received(c) /\ Take(c)
  <2>1. at[c] = "send" /\ got' = [got EXCEPT ![c] = Shown(c)]
    BY <1>2 DEF EventSent, Received, Shown
  <2>2. QED
    BY <1>2, <2>1, Take_Inv
<1>3. CASE /\ inbox[c] = <<>> /\ Received(c)
           /\ at' = [at EXCEPT ![c] = "wait"] /\ sending' = [sending EXCEPT ![c] = <<>>]
           /\ UNCHANGED <<busVars, broken, inbox, missed, since, recordingVars>>
  BY <1>3, Drained_Inv DEF EventSent
<1>4. QED
  BY <1>1, <1>2, <1>3 DEF EventSent

LEMMA StreamStutter_Inv == StreamInv /\ UNCHANGED streamVars => StreamInv'
<1> SUFFICES ASSUME StreamInv, UNCHANGED streamVars PROVE StreamInv'
  OBVIOUS
<1>1. StreamTypes' /\ OneOpenRecorder'
  BY DEF StreamInv, StreamTypes, OneOpenRecorder, streamVars, busVars, connVars, recordingVars
<1>2. PerClient'
  <2> SUFFICES ASSUME NEW d \in Clients PROVE Fresh(d)' /\ InStep(d)' /\ Filed(d)' /\ Accounted(d)'
    BY DEF PerClient
  <2>1. QED
    BY UntouchedStays DEF StreamInv, PerClient, Untouched, streamVars, busVars, connVars, recordingVars
<1>3. QED
  BY <1>1, <1>2 DEF StreamInv

(* Every step of the bus, of the clients and of the recorders keeps the    *)
(* invariant.                                                              *)
THEOREM StreamInvHolds == StreamSpec => []StreamInv
<1>1. ASSUME StreamInv, [StreamNext]_streamVars PROVE StreamInv'
  <2>1. CASE PublishEvent \/ PushLowerThird
    BY <1>1, <2>1, Fanout_Inv DEF PublishEvent, PushLowerThird
  <2>2. ASSUME NEW c \in Clients, ServeReplay(c) \/ NoRecorder(c) \/ SendFails(c) PROVE StreamInv'
    BY <1>1, <2>2, LeavesClean DEF ServeReplay, NoRecorder, SendFails
  <2>3. QED
    BY <1>1, <2>1, <2>2, ConnectionStarts_Inv, GoLive_Inv, TakeEvent_Inv, EventSent_Inv,
       Recording_Inv, StreamStutter_Inv DEF StreamNext
<1>2. QED
  BY StreamInit_Inv, <1>1, PTL DEF StreamSpec

(* What a client is shown has no gap, for any sizes of queue and backlog   *)
(* (api/events.py, api/ws.py).                                             *)
THEOREM NoGapOnScreenHolds == StreamSpec => []NoGapOnScreen
<1>1. StreamInv => NoGapOnScreen
  <2> SUFFICES ASSUME StreamInv, NEW c \in Clients, at[c] \in {"wait", "send"}
               PROVE  Shown(c) = [i \in 1 .. Len(Shown(c)) |-> since[c] + i]
    BY DEF NoGapOnScreen, Subscribers, Shown
  <2>1. Shown(c) \in Seq(Nat) /\ Len(Shown(c)) \in Nat
    BY ConcatProperties DEF StreamInv, StreamTypes, Shown
  <2>2. Shown(c) = [i \in 1 .. Len(Shown(c)) |-> Shown(c)[i]]
    BY <2>1
  <2>3. \A i \in 1 .. Len(Shown(c)) : Shown(c)[i] = since[c] + i
    BY DEF StreamInv, PerClient, InStep
  <2>4. QED
    BY <2>2, <2>3
<1>2. QED
  BY StreamInvHolds, <1>1, PTL

(* The registry knows the one recorder that is open (api/ws_recording.py). *)
THEOREM OneOpenRecorderHolds == StreamSpec => []OneOpenRecorder
<1>1. StreamInv => OneOpenRecorder
  BY DEF StreamInv
<1>2. QED
  BY StreamInvHolds, <1>1, PTL

(* What a client is shown are the events since it subscribed, in order. *)
LEMMA ShownIs ==
    ASSUME StreamInv, NEW c \in Clients, at[c] \in {"wait", "send"}
    PROVE  /\ Shown(c) \in Seq(Nat) /\ Len(Shown(c)) \in Nat /\ since[c] \in Nat
           /\ ToSet(Shown(c)) = since[c] + 1 .. since[c] + Len(Shown(c))
<1> DEFINE s == Shown(c)
<1>1. s \in Seq(Nat) /\ Len(s) \in Nat /\ since[c] \in Nat
  BY ConcatProperties DEF StreamInv, StreamTypes, Shown
<1>2. \A i \in 1 .. Len(s) : s[i] = since[c] + i
  BY DEF StreamInv, PerClient, InStep
<1> HIDE DEF s
<1>3. ToSet(s) = {s[i] : i \in 1 .. Len(s)}
  BY <1>1 DEF ToSet
<1>4. \A n \in since[c] + 1 .. since[c] + Len(s) :
         n - since[c] \in 1 .. Len(s) /\ n = since[c] + (n - since[c])
  BY <1>1
<1>5. \A i \in 1 .. Len(s) : since[c] + i \in since[c] + 1 .. since[c] + Len(s)
  BY <1>1
<1>6. ASSUME NEW n \in since[c] + 1 .. since[c] + Len(s) PROVE n \in ToSet(s)
  <2>1. s[n - since[c]] = since[c] + (n - since[c]) /\ n - since[c] \in 1 .. Len(s)
    BY <1>2, <1>4
  <2>2. s[n - since[c]] = n
    BY <1>4, <2>1
  <2>3. QED
    BY <1>3, <2>1, <2>2
<1>7. ToSet(s) = since[c] + 1 .. since[c] + Len(s)
  BY <1>2, <1>3, <1>5, <1>6
<1>8. QED
  BY <1>1, <1>7 DEF s

(* What is in a concatenation is in one of its parts. *)
LEMMA ShownIsBoth ==
    ASSUME NEW s \in Seq(Nat), NEW t \in Seq(Nat)
    PROVE  ToSet(s \o t) \subseteq ToSet(s) \cup ToSet(t)
<1>1. /\ s \o t \in Seq(Nat) /\ Len(s \o t) = Len(s) + Len(t)
      /\ \A i \in 1 .. Len(s) + Len(t) : (s \o t)[i] = IF i <= Len(s) THEN s[i] ELSE t[i - Len(s)]
      /\ Len(s) \in Nat /\ Len(t) \in Nat
  BY ConcatProperties, LenProperties
<1>2. \A i \in 1 .. Len(s) + Len(t) : i \in 1 .. Len(s) \/ (~(i <= Len(s)) /\ i - Len(s) \in 1 .. Len(t))
  BY <1>1
<1>3. /\ ToSet(s \o t) = {(s \o t)[i] : i \in 1 .. Len(s) + Len(t)}
      /\ ToSet(s) = {s[i] : i \in 1 .. Len(s)} /\ ToSet(t) = {t[i] : i \in 1 .. Len(t)}
  BY <1>1 DEF ToSet
<1>4. \A i \in 1 .. Len(s) : i <= Len(s)
  BY <1>1
<1>5. QED
  BY <1>1, <1>2, <1>3, <1>4

(* As long as its recorder is open, all a taped client is shown is in the  *)
(* file, in order, or its write failed (api/ws.py, api/ws_recording.py).   *)
THEOREM RecordingIsCompleteHolds == StreamSpec => []RecordingIsComplete
<1>1. StreamInv => RecordingIsComplete
  <2> SUFFICES ASSUME StreamInv, NEW c \in Clients, at[c] \in {"wait", "send"}, c \in Taped,
                      recorder[c] \notin closed
               PROVE  ToSet(Shown(c)) = ToSet(filed[c]) \cup unwritten[c] /\ InOrder(filed[c])
    BY DEF RecordingIsComplete, Subscribers, Shown
  <2>1. filed[c] \in Seq(Nat)
    BY DEF StreamInv, StreamTypes
  <2>2. FiledUpTo(c, since[c] + Len(Shown(c)))
    BY DEF StreamInv, PerClient, Filed
  <2>3. ToSet(filed[c]) = {filed[c][i] : i \in 1 .. Len(filed[c])}
    BY <2>1 DEF ToSet
  <2>4. ToSet(Shown(c)) = since[c] + 1 .. since[c] + Len(Shown(c))
    BY ShownIs
  <2>5. QED
    BY <2>2, <2>3, <2>4 DEF FiledUpTo
<1>2. QED
  BY StreamInvHolds, <1>1, PTL

(* All of a connection's events are accounted for: shown, in the inbox or  *)
(* known to be dropped; and if none was dropped they are one pipeline, in  *)
(* order (api/events.py).                                                  *)
LEMMA InPipeline ==
    ASSUME StreamInv, NEW c \in Clients, at[c] \in {"wait", "send"}, missed[c] = {}
    PROVE  Pipeline(c) = [i \in 1 .. events - since[c] |-> since[c] + i]
<1> DEFINE s == Shown(c)
           q == inbox[c]
<1>1. Pipeline(c) = s \o q
  BY DEF Pipeline, Shown
<1>2. s \in Seq(Nat) /\ q \in Seq(Nat) /\ since[c] \in Nat /\ events \in Nat
  BY ConcatProperties DEF StreamInv, StreamTypes, Shown
<1>3. /\ Len(s) + Len(q) = events - since[c]
      /\ \A i \in 1 .. Len(s) : s[i] = since[c] + i
      /\ \A j \in 1 .. Len(q) : q[j] = since[c] + Len(s) + j
  BY DEF StreamInv, PerClient, InStep
<1> HIDE DEF s, q
<1>4. /\ s \o q \in Seq(Nat) /\ Len(s \o q) = Len(s) + Len(q)
      /\ \A i \in 1 .. Len(s) + Len(q) : (s \o q)[i] = IF i <= Len(s) THEN s[i] ELSE q[i - Len(s)]
  BY <1>2, ConcatProperties
<1>5. Len(s) \in Nat /\ Len(q) \in Nat
  BY <1>2
<1>6. ASSUME NEW i \in 1 .. Len(s) + Len(q) PROVE (s \o q)[i] = since[c] + i
  <2>1. CASE i <= Len(s)
    BY <1>3, <1>4, <1>5, <2>1
  <2>2. CASE ~(i <= Len(s))
    <3>1. i - Len(s) \in 1 .. Len(q) /\ (s \o q)[i] = q[i - Len(s)]
      BY <1>4, <1>5, <2>2
    <3>2. q[i - Len(s)] = since[c] + Len(s) + (i - Len(s))
      BY <1>3, <3>1
    <3>3. since[c] + Len(s) + (i - Len(s)) = since[c] + i
      BY <1>2, <1>5
    <3>4. QED
      BY <3>1, <3>2, <3>3
  <2>3. QED
    BY <2>1, <2>2
<1>7. s \o q = [i \in 1 .. Len(s) + Len(q) |-> (s \o q)[i]]
  <2> DEFINE t == s \o q
  <2>1. t \in Seq(Nat) /\ Len(t) = Len(s) + Len(q)
    BY <1>4
  <2> HIDE DEF t
  <2>2. t = [i \in 1 .. Len(t) |-> t[i]]
    BY <2>1
  <2>3. QED
    BY <2>1, <2>2 DEF t
<1>8. QED
  BY <1>1, <1>3, <1>6, <1>7

LEMMA InReach ==
    ASSUME StreamInv, NEW c \in Clients, at[c] \in {"wait", "send"}
    PROVE  since[c] + 1 .. events \subseteq
              ToSet(got[c]) \cup ToSet(sending[c]) \cup ToSet(inbox[c]) \cup missed[c]
<1> DEFINE L == Len(Shown(c))
<1>1. ToSet(Shown(c)) = since[c] + 1 .. since[c] + L /\ L \in Nat /\ since[c] \in Nat /\ events \in Nat
  BY ShownIs DEF StreamInv, StreamTypes
<1>2. \A n \in since[c] + L + 1 .. events :
         n \in missed[c] \/ \E j \in 1 .. Len(inbox[c]) : inbox[c][j] = n
  BY DEF StreamInv, PerClient, Accounted
<1>3. got[c] \in Seq(Nat) /\ sending[c] \in Seq(Nat) /\ inbox[c] \in Seq(Nat)
  BY DEF StreamInv, StreamTypes
<1>4. ToSet(Shown(c)) \subseteq ToSet(got[c]) \cup ToSet(sending[c])
  BY <1>3, ShownIsBoth DEF Shown
<1>5. ToSet(inbox[c]) = {inbox[c][j] : j \in 1 .. Len(inbox[c])}
  <2>1. DOMAIN inbox[c] = 1 .. Len(inbox[c])
    BY <1>3
  <2>2. QED
    BY <2>1 DEF ToSet
<1> HIDE DEF L
<1>6. \A n \in since[c] + 1 .. events :
         n \in since[c] + 1 .. since[c] + L \/ n \in since[c] + L + 1 .. events
  BY <1>1
<1>7. QED
  BY <1>1, <1>2, <1>4, <1>5, <1>6

(* The losses are counted: of the pairs of a connected client and an event *)
(* it was dropped for, the counter and the answers so far show no less.    *)
LossInv ==
    /\ dropped \in Nat /\ told \in Nat
    /\ missed \in [Clients -> SUBSET (1 .. events)]
    /\ Cardinality(Lost) <= dropped + told

LEMMA LostIsFinite == StreamTypes /\ LossInv => IsFiniteSet(Lost)
<1> SUFFICES ASSUME StreamTypes, LossInv PROVE IsFiniteSet(Lost)
  OBVIOUS
<1>1. Lost \subseteq Clients \X (1 .. events)
  BY DEF Lost, LossInv
<1>2. events \in Nat
  BY DEF StreamTypes
<1>3. IsFiniteSet(Clients \X (1 .. events))
  <2>1. IsFiniteSet(Clients) /\ IsFiniteSet(1 .. events)
    BY <1>2, FS_Interval, LiveStreamAssumption
  <2>2. QED
    BY <2>1, FS_Product
<1>4. QED
  BY <1>1, <1>3, FS_Subset

LEMMA LossCounted ==
    ASSUME StreamTypes, LossInv, [StreamNext]_streamVars
    PROVE  LossInv'
<1>1. /\ events \in Nat /\ dropped \in Nat /\ told \in Nat
      /\ missed \in [Clients -> SUBSET (1 .. events)] /\ IsFiniteSet(Lost)
      /\ Cardinality(Lost) \in Nat /\ Cardinality(Lost) <= dropped + told
  BY LostIsFinite, FS_CardinalityType DEF StreamTypes, LossInv
<1>2. ASSUME Fanout(events + 1) PROVE LossInv'
  <2> DEFINE n == events + 1
             new == Lagging \X {n}
  <2>1. /\ events' = n /\ told' = told /\ dropped' = dropped + Cardinality(Lagging)
        /\ missed' = [c \in Clients |-> IF c \in Lagging THEN missed[c] \cup {n} ELSE missed[c]]
    BY <1>2 DEF Fanout
  <2>2. Lost' = Lost \cup new
    BY <1>1, <2>1 DEF Lost, Lagging, Subscribers
  <2>3. IsFiniteSet(Lagging)
    <3>1. Lagging \subseteq Clients
      BY DEF Lagging, Subscribers
    <3>2. QED
      BY <3>1, FS_Subset, LiveStreamAssumption
  <2>4. IsFiniteSet(new) /\ Cardinality(new) = Cardinality(Lagging)
    <3>1. IsFiniteSet({n}) /\ Cardinality({n}) = 1
      BY FS_Singleton
    <3>2. Cardinality(Lagging) \in Nat
      BY <2>3, FS_CardinalityType
    <3>3. IsFiniteSet(new) /\ Cardinality(new) = Cardinality(Lagging) * Cardinality({n})
      BY <2>3, <3>1, FS_Product
    <3>4. QED
      BY <3>1, <3>2, <3>3
  <2>5. Cardinality(Lost \cup new) <= Cardinality(Lost) + Cardinality(Lagging)
    <3>1. Cardinality(Lost \cup new) = Cardinality(Lost) + Cardinality(new) - Cardinality(Lost \cap new)
      BY <1>1, <2>4, FS_Union
    <3>2. Cardinality(Lost \cap new) \in Nat
      BY <1>1, FS_Subset, FS_CardinalityType
    <3>3. Cardinality(new) \in Nat
      BY <2>4, FS_CardinalityType
    <3>4. QED
      BY <1>1, <2>4, <3>1, <3>2, <3>3
  <2>6. Cardinality(Lagging) \in Nat /\ Cardinality(Lost \cup new) \in Nat
    BY <1>1, <2>3, <2>4, FS_Union, FS_CardinalityType
  <2>7. missed' \in [Clients -> SUBSET (1 .. events')]
    <3>1. 1 .. events \subseteq 1 .. n /\ n \in 1 .. n
      BY <1>1
    <3>2. QED
      BY <1>1, <2>1, <3>1
  <2> HIDE DEF new, n
  <2>8. QED
    BY <1>1, <2>1, <2>2, <2>5, <2>6, <2>7 DEF LossInv
<1>3. ASSUME UNCHANGED <<events, missed>>, dropped' \in Nat, told' \in Nat,
             dropped' + told' = dropped + told
      PROVE  LossInv'
  BY <1>1, <1>3 DEF LossInv, Lost
<1>4. ASSUME UNCHANGED <<events, dropped, told, missed>> PROVE LossInv'
  BY <1>1, <1>3, <1>4
<1>5. ASSUME NEW c \in Clients, Leave(c) PROVE LossInv'
  <2>1. missed' = [missed EXCEPT ![c] = {}] /\ UNCHANGED <<events, dropped, told>>
    BY <1>5 DEF Leave, busVars
  <2>2. missed' \in [Clients -> SUBSET (1 .. events)] /\ Lost' \subseteq Lost
    BY <1>1, <2>1 DEF Lost
  <2>3. Cardinality(Lost') <= Cardinality(Lost) /\ Cardinality(Lost') \in Nat
    BY <1>1, <2>2, FS_Subset, FS_CardinalityType
  <2>4. QED
    BY <1>1, <2>1, <2>2, <2>3 DEF LossInv
<1>6. CASE AskForGap
  <2>1. dropped' = 0 /\ told' = told + dropped /\ UNCHANGED <<events, missed>>
    BY <1>6 DEF AskForGap, connVars
  <2>2. QED
    BY <1>1, <1>3, <2>1
<1>7. CASE PublishEvent \/ PushLowerThird
  BY <1>2, <1>7 DEF PublishEvent, PushLowerThird
<1>8. ASSUME NEW c \in Clients, ServeReplay(c) \/ NoRecorder(c) \/ SendFails(c) PROVE LossInv'
  BY <1>5, <1>8 DEF ServeReplay, NoRecorder, SendFails
<1>9. ASSUME NEW c \in Clients, Connect(c) \/ GoLive(c) \/ TakeEvent(c) \/ Disconnect(c)
      PROVE  LossInv'
  BY <1>4, <1>9 DEF Connect, GoLive, TakeEvent, Take, Disconnect, busVars
<1>10. ASSUME NEW c \in Clients, EventSent(c) PROVE LossInv'
  <2>1. Leave(c) \/ UNCHANGED <<events, dropped, told, missed>>
    BY <1>10 DEF EventSent, Take, busVars
  <2>2. QED
    BY <1>4, <1>5, <2>1
<1>11. CASE StartRecording \/ StopRecording
  BY <1>4, <1>11 DEF StartRecording, StopRecording, busVars, connVars
<1>12. CASE UNCHANGED streamVars
  BY <1>4, <1>12 DEF streamVars, busVars, connVars
<1>13. QED
  BY <1>6, <1>7, <1>8, <1>9, <1>10, <1>11, <1>12 DEF StreamNext

THEOREM LossInvHolds == StreamSpec => []LossInv
<1>1. StreamInit => LossInv
  <2> SUFFICES ASSUME StreamInit PROVE LossInv
    OBVIOUS
  <2>1. missed = [c \in Clients |-> {}] /\ dropped = 0 /\ told = 0 /\ events = 0
    BY DEF StreamInit
  <2>2. Lost = {}
    BY <2>1 DEF Lost
  <2>3. Cardinality(Lost) = 0
    BY <2>2, FS_EmptySet
  <2>4. QED
    BY <2>1, <2>3 DEF LossInv
<1>2. StreamInv => StreamTypes
  BY DEF StreamInv
<1>3. QED
  BY <1>1, <1>2, LossCounted, StreamInvHolds, PTL DEF StreamSpec

(* No event is lost to a connected client uncounted, for any number of     *)
(* clients and any sizes (api/events.py, api/ws.py).                       *)
THEOREM NothingLostSilentlyHolds == StreamSpec => []NothingLostSilently
<1>1. StreamInv /\ LossInv => NothingLostSilently
  BY InReach, InPipeline DEF NothingLostSilently, Subscribers, LossInv
<1>2. QED
  BY StreamInvHolds, LossInvHolds, <1>1, PTL

(* The stream is whole for any number of clients and any sizes: nothing is *)
(* lost uncounted, no gap is shown, and the recording is complete.         *)
THEOREM StreamIsWholeHolds == StreamSpec => []StreamIsWhole
<1>1. QED
  BY NothingLostSilentlyHolds, NoGapOnScreenHolds, OneOpenRecorderHolds, RecordingIsCompleteHolds, PTL
  DEF StreamIsWhole

-------------------------------------------------------------------------------
(* The director.                                                           *)

(* What an agent has climbed since the last poll is what parts its rank    *)
(* from the one in the snapshot; what was fired was published.             *)
DirInv ==
    /\ standing \in [Farm -> Standings] /\ grade \in [Farm -> Grades] /\ snapshot \in [Farm -> Grades]
    /\ dirFired \in [MacroIds -> Ages] /\ dirAired = dirFired
    /\ climbed \in [Farm -> Int] /\ \A a \in Farm : snapshot[a] + climbed[a] = grade[a]

LEMMA AgesKept ==
    ASSUME NEW age \in [MacroIds -> Ages]
    PROVE  /\ Rested(MacroIds, DirCooldown) \in [MacroIds -> Ages]
           /\ Older(age, DirCooldown) \in [MacroIds -> Ages]
           /\ \A ids : /\ Fired(ids, age, DirCooldown) \in [MacroIds -> Ages]
                       /\ Fired(ids, age, DirCooldown) =
                            [id \in MacroIds |-> IF id \in Firing(ids, age, DirCooldown) THEN 0 ELSE age[id]]
<1>1. DirCooldown \in Nat \ {0}
  BY AutoDirectorAssumption
<1>2. \A id \in MacroIds : age[id] \in 0 .. DirCooldown
  BY DEF Ages
<1>3. QED
  BY <1>1, <1>2 DEF Rested, Older, Fired, Ages

LEMMA DirInit_Inv == DirInit => DirInv
<1>1. Rested(MacroIds, DirCooldown) \in [MacroIds -> Ages] /\ 0 \in Grades
  BY AutoDirectorAssumption DEF Rested, Ages, Grades
<1>2. QED
  BY <1>1 DEF DirInit, DirInv, SnapshotRanks, Standings

LEMMA DirNext_Inv == DirInv /\ [DirNext]_dirVars => DirInv'
<1> SUFFICES ASSUME DirInv, [DirNext]_dirVars PROVE DirInv'
  OBVIOUS
<1> USE DEF DirInv
<1>0. \A a \in Farm : grade[a] + 0 = grade[a]
  BY AutoDirectorAssumption DEF Grades
<1>1. CASE DirPolls
  BY <1>0, <1>1, AgesKept DEF DirPolls, Fired
<1>2. ASSUME NEW a \in Farm, EquityMoves(a) PROVE DirInv'
  BY <1>2 DEF EquityMoves
<1>3. CASE SpyMoves \/ UNCHANGED dirVars
  BY <1>3 DEF SpyMoves, dirVars
<1>4. ASSUME NEW a \in Farm, GradeMoves(a) PROVE DirInv'
  <2>1. PICK step \in {-1, 1} :
           /\ grade[a] + step \in Grades
           /\ grade' = [grade EXCEPT ![a] = @ + step]
           /\ climbed' = [climbed EXCEPT ![a] = @ + step]
    BY <1>4 DEF GradeMoves
  <2>2. UNCHANGED <<standing, snapshot, dirFired, dirAired>>
    BY <1>4 DEF GradeMoves
  <2>3. \A b \in Farm : snapshot[b] \in Nat /\ grade[b] \in Nat /\ climbed[b] \in Int
    BY AutoDirectorAssumption DEF Grades
  <2>4. grade' \in [Farm -> Grades] /\ climbed' \in [Farm -> Int]
    BY <2>1, <2>3
  <2>5. \A b \in Farm : snapshot[b] + climbed'[b] = grade'[b]
    BY <2>1, <2>3
  <2>6. QED
    BY <2>2, <2>4, <2>5
<1>5. CASE DirTimePasses
  BY <1>5, AgesKept DEF DirTimePasses
<1>6. CASE DirRestarts
  BY <1>0, <1>6, AgesKept DEF DirRestarts, SnapshotRanks
<1>7. QED
  BY <1>1, <1>2, <1>3, <1>4, <1>5, <1>6 DEF DirNext

(* The director tells of every standing while it stands, and of a rank     *)
(* exactly when it rose since the last poll: each poll takes the snapshot  *)
(* that the next one compares with, start takes the first, and _maybe_fire *)
(* holds back only what was published within the cooldown.                 *)
THEOREM DirectorTellsTheNewsHolds == DirInit /\ [][DirNext]_dirVars => DirectorTellsTheNews
<1> DEFINE Ranks == DirPolls => \A a \in Farm :
                       /\ <<"rank", a>> \in dirAiring' => climbed[a] > 0
                       /\ climbed[a] > 0 => dirAired'[<<"rank", a>>] < DirCooldown
           Tells == DirPolls => \A a \in Farm :
                       standing[a] # "even" => dirAired'[<<standing[a], a>>] < DirCooldown
<1>a. ASSUME DirInv, DirPolls, NEW id \in MacroIds, id \in Collected
      PROVE  dirAired'[id] < DirCooldown
  <2>1. dirAired'[id] = IF id \in Firing(Collected, dirFired, DirCooldown) THEN 0 ELSE dirFired[id]
    BY <1>a DEF DirPolls, DirInv
  <2>2. dirFired[id] \in Int /\ DirCooldown \in Nat \ {0}
    BY <1>a, AutoDirectorAssumption DEF DirInv, Ages
  <2>3. QED
    BY <1>a, <2>1, <2>2 DEF Firing
<1>1. ASSUME DirInv PROVE Ranks
  <2> SUFFICES ASSUME DirPolls, NEW a \in Farm
               PROVE  /\ <<"rank", a>> \in dirAiring' => climbed[a] > 0
                      /\ climbed[a] > 0 => dirAired'[<<"rank", a>>] < DirCooldown
    OBVIOUS
  <2>1. /\ grade[a] \in Nat /\ snapshot[a] \in Nat /\ climbed[a] \in Int
        /\ snapshot[a] + climbed[a] = grade[a]
    BY <1>1, AutoDirectorAssumption DEF DirInv, Grades
  <2>2. ASSUME <<"rank", a>> \in dirAiring' PROVE climbed[a] > 0
    <3>1. <<"rank", a>> \in Collected
      BY <2>2 DEF DirPolls, Firing
    <3>2. <<"rank", a>> \notin MarketMacros
      BY DEF MarketMacros
    <3>3. <<"rank", a>> \notin PnlMacros
      BY <1>1 DEF PnlMacros, DirInv, Standings
    <3>4. <<"rank", a>> \in PromotionMacros
      BY <3>1, <3>2, <3>3 DEF Collected
    <3>5. QED
      BY <2>1, <3>4 DEF PromotionMacros
  <2>3. ASSUME climbed[a] > 0 PROVE dirAired'[<<"rank", a>>] < DirCooldown
    <3>1. grade[a] > snapshot[a]
      BY <2>1, <2>3
    <3>2. <<"rank", a>> \in MacroIds /\ <<"rank", a>> \in Collected
      BY <3>1 DEF MacroIds, Collected, PromotionMacros
    <3>3. QED
      BY <1>1, <1>a, <3>2
  <2>4. QED
    BY <2>2, <2>3
<1>2. ASSUME DirInv PROVE Tells
  <2> SUFFICES ASSUME DirPolls, NEW a \in Farm, standing[a] # "even"
               PROVE  dirAired'[<<standing[a], a>>] < DirCooldown
    OBVIOUS
  <2>1. PICK s \in Standings \ {"even"} : s = standing[a]
    BY <1>2 DEF DirInv
  <2>2. <<s, a>> \in MacroIds /\ <<s, a>> \in Collected
    BY <2>1 DEF MacroIds, Standings, Collected, PnlMacros
  <2>3. QED
    BY <1>2, <1>a, <2>1, <2>2
<1>3. DirInv /\ [DirNext]_dirVars => [Ranks]_dirVars /\ [Tells]_dirVars
  BY <1>1, <1>2
<1>4. QED
  BY <1>3, DirInit_Inv, DirNext_Inv, PTL DEF DirectorTellsTheNews, OnlyRisesAreTold, StandingIsTold

-------------------------------------------------------------------------------
(* The watcher of streaks and day leaders.                                 *)

KindOf(t) == IF t.won THEN "bigwin" ELSE "bigloss"
StTypes ==
    /\ trades \in [Crew -> Seq(Trades)]
    /\ todays \in [Crew -> Nat] /\ unpolled \in [Crew -> Nat]
    /\ \A a \in Crew : /\ Len(trades[a]) <= HistoryLimit
                       /\ todays[a] <= Len(trades[a]) /\ unpolled[a] <= Len(trades[a])
    /\ leaders \in [Kinds -> Nat] /\ toldLeaders \in [Kinds -> Nat]
    /\ seeded \in BOOLEAN /\ dayOver \in BOOLEAN

(* A trade of the day that closed before a poll last read its agent is no  *)
(* bigger than the leader; what was told is not either, and is of this     *)
(* day; no agent was read on a day whose first poll is still to come.      *)
Compared ==
    ~dayOver => \A a \in Crew \ unread : \A i \in 1 .. todays[a] :
                    i > unpolled[a] => trades[a][i].by <= leaders[KindOf(trades[a][i])]
ToldLeads ==
    \A k \in Kinds :
        /\ toldLeaders[k] \in {0} \cup Gains \cup Losses
        /\ IF dayOver THEN toldLeaders[k] = 0 ELSE toldLeaders[k] <= leaders[k]
NoneRead == unread \subseteq Crew /\ (dayOver => unread = Crew)
StInv == StTypes /\ Compared /\ ToldLeads /\ NoneRead

LEMMA TradeTypes ==
    ASSUME StTypes, NEW a \in Crew, NEW i \in 1 .. Len(trades[a])
    PROVE  /\ trades[a][i] \in Trades /\ trades[a][i].by \in Nat \ {0} /\ trades[a][i].won \in BOOLEAN
           /\ trades[a][i].by \in Gains \cup Losses
           /\ KindOf(trades[a][i]) \in Kinds
           /\ trades[a][i] = [won |-> trades[a][i].won, by |-> trades[a][i].by]
<1>1. trades[a][i] \in Trades
  BY DEF StTypes
<1>2. QED
  BY <1>1, StreakWatcherAssumption DEF Trades, KindOf, Kinds

(* The biggest trade of the day is one of the day's, if there is any. *)
LEMMA BiggestOfDay ==
    ASSUME StTypes, NEW read \in SUBSET Crew, NEW k \in Kinds
    PROVE  /\ Biggest(read, k) \in Nat /\ Biggest(read, k) \in {0} \cup Gains \cup Losses
           /\ Biggest(read, k) # 0 => \E a \in read : \E i \in 1 .. todays[a] :
                                   trades[a][i] = [won |-> k = "bigwin", by |-> Biggest(read, k)]
           /\ \A a \in read : \A i \in 1 .. todays[a] :
                 KindOf(trades[a][i]) = k => trades[a][i].by <= Biggest(read, k)
<1> DEFINE won == k = "bigwin"
           S == TodaysSizes(read, won)
           by(p) == trades[p[1]][p[2]].by
           T == {by(p) : p \in Crew \X (1 .. HistoryLimit)}
<1>1. \A a \in Crew : \A i \in 1 .. todays[a] : i \in 1 .. Len(trades[a]) /\ i \in 1 .. HistoryLimit
  <2> TAKE a \in Crew
  <2>1. todays[a] \in Nat /\ Len(trades[a]) \in Nat /\ todays[a] <= Len(trades[a]) /\ Len(trades[a]) <= HistoryLimit
    BY LenProperties DEF StTypes
  <2>2. QED
    BY <2>1, StreakWatcherAssumption
<1>2. S \subseteq T
  <2> SUFFICES ASSUME NEW s \in S PROVE s \in T
    OBVIOUS
  <2>1. PICK a \in read : \E i \in 1 .. todays[a] : trades[a][i] = [won |-> won, by |-> s]
    BY DEF TodaysSizes
  <2>2. PICK i \in 1 .. todays[a] : trades[a][i].by = s
    BY <2>1
  <2>3. <<a, i>> \in Crew \X (1 .. HistoryLimit) /\ by(<<a, i>>) = s
    BY <1>1, <2>2
  <2>4. QED
    BY <2>3
<1>3. IsFiniteSet(T)
  <2> DEFINE P == Crew \X (1 .. HistoryLimit)
             f == [p \in P |-> by(p)]
  <2>1. IsFiniteSet(Crew) /\ IsFiniteSet(1 .. HistoryLimit)
    BY FS_Interval, StreakWatcherAssumption
  <2>2. IsFiniteSet(P)
    BY <2>1, FS_Product, Zenon
  <2>3. f \in Surjection(P, T)
    BY DEF Surjection
  <2> HIDE DEF P, T, f
  <2>4. QED
    BY <2>2, <2>3, FS_Surjection
<1>4. S \cup {0} \in SUBSET Int /\ S \subseteq Nat \ {0} /\ IsFiniteSet(S \cup {0})
  <2>1. S \subseteq Nat \ {0}
    BY StreakWatcherAssumption DEF TodaysSizes
  <2>2. IsFiniteSet(S)
    BY <1>2, <1>3, FS_Subset
  <2> HIDE DEF S
  <2>3. IsFiniteSet(S \cup {0})
    BY <2>2, FS_AddElement
  <2>4. QED
    BY <2>1, <2>3
<1>5. Biggest(read, k) = Max(S \cup {0})
  BY DEF Biggest
<1>6. Biggest(read, k) \in S \cup {0} /\ \A y \in S \cup {0} : y <= Biggest(read, k)
  <2> HIDE DEF S
  <2>1. QED
    BY <1>4, <1>5, FiniteMax
<1>7. ASSUME NEW a \in read, NEW i \in 1 .. todays[a], KindOf(trades[a][i]) = k
      PROVE  trades[a][i].by \in S
  <2>1. i \in 1 .. Len(trades[a])
    BY <1>1
  <2>2. trades[a][i].won = won
    BY <1>7, <2>1, TradeTypes DEF KindOf, Kinds
  <2>3. trades[a][i] = [won |-> won, by |-> trades[a][i].by] /\ trades[a][i].by \in Gains \cup Losses
    BY <2>1, <2>2, TradeTypes
  <2>4. QED
    BY <2>3 DEF TodaysSizes
<1>8. Biggest(read, k) \in S => \E a \in read : \E i \in 1 .. todays[a] :
                             trades[a][i] = [won |-> won, by |-> Biggest(read, k)]
  BY DEF TodaysSizes
<1>9. S \subseteq Gains \cup Losses
  BY DEF TodaysSizes
<1>10. QED
  BY <1>4, <1>6, <1>7, <1>8, <1>9

(* A close puts a trade in front of the agent's history and cuts that off. *)
LEMMA ClosedTrades ==
    ASSUME StTypes, NEW a \in Crew, Closes(a)
    PROVE  /\ trades' \in [Crew -> Seq(Trades)]
           /\ todays' \in [Crew -> Nat] /\ unpolled' \in [Crew -> Nat]
           /\ \A c \in Crew \ {a} : /\ trades'[c] = trades[c] /\ todays'[c] = todays[c]
                                    /\ unpolled'[c] = unpolled[c]
           /\ Len(trades'[a]) <= HistoryLimit
           /\ todays'[a] <= Len(trades'[a]) /\ unpolled'[a] <= Len(trades'[a])
           /\ todays'[a] <= todays[a] + 1
           /\ unpolled'[a] \in {unpolled[a] + 1, HistoryLimit}
           /\ \A i \in 1 .. Len(trades'[a]) : i > 1 => trades'[a][i] = trades[a][i - 1]
<1>1. PICK t \in Trades :
         trades' = [trades EXCEPT ![a] = SubSeq(<<t>> \o trades[a], 1, Min({Len(<<t>> \o trades[a]), HistoryLimit}))]
  <2>1. PICK won \in BOOLEAN, size \in Gains \cup Losses :
           trades' = [trades EXCEPT ![a] =
               SubSeq(<<[won |-> won, by |-> size]>> \o trades[a], 1,
                      Min({Len(<<[won |-> won, by |-> size]>> \o trades[a]), HistoryLimit}))]
    BY DEF Closes
  <2>2. [won |-> won, by |-> size] \in Trades
    BY DEF Trades
  <2>3. QED
    BY <2>1, <2>2
<1> DEFINE all == <<t>> \o trades[a]
           n == Min({Len(all), HistoryLimit})
<1>2. trades[a] \in Seq(Trades) /\ <<t>> \in Seq(Trades) /\ Len(<<t>>) = 1 /\ Len(trades[a]) \in Nat
      /\ todays[a] \in Nat /\ unpolled[a] \in Nat /\ HistoryLimit \in Nat
  BY StreakWatcherAssumption DEF StTypes
<1>3. /\ all \in Seq(Trades) /\ Len(all) = 1 + Len(trades[a])
      /\ \A i \in 1 .. Len(all) : i > 1 => all[i] = trades[a][i - 1]
  <2>1. /\ all \in Seq(Trades) /\ Len(all) = Len(<<t>>) + Len(trades[a])
        /\ \A i \in 1 .. Len(<<t>>) + Len(trades[a]) :
              all[i] = IF i <= Len(<<t>>) THEN <<t>>[i] ELSE trades[a][i - Len(<<t>>)]
    BY <1>2, ConcatProperties
  <2> HIDE DEF all
  <2>2. QED
    BY <1>2, <2>1
<1>4. ASSUME NEW x \in Int, NEW y \in Int
      PROVE  Min({x, y}) = IF x <= y THEN x ELSE y
  <2>1. \E z \in {x, y} : \A w \in {x, y} : z =< w
    BY <1>4
  <2>2. Min({x, y}) \in {x, y} /\ \A w \in {x, y} : Min({x, y}) =< w
    BY <2>1 DEF Min
  <2>3. QED
    BY <1>4, <2>2
<1>5. n = (IF Len(all) <= HistoryLimit THEN Len(all) ELSE HistoryLimit) /\ n \in Nat
  <2>1. Len(all) \in Nat
    BY <1>2, <1>3
  <2>2. Len(all) \in Int /\ HistoryLimit \in Int
    BY <1>2, <2>1
  <2> HIDE DEF all
  <2>3. QED
    BY <1>4, <2>1, <2>2, <1>2
<1>6. /\ SubSeq(all, 1, n) \in Seq(Trades) /\ Len(SubSeq(all, 1, n)) = n
      /\ \A i \in 1 .. n : SubSeq(all, 1, n)[i] = all[i]
  <2>1. Len(all) \in Nat /\ \A i \in 1 .. n : i \in 1 .. Len(all)
    BY <1>2, <1>3, <1>5
  <2>2. \A i \in 1 .. n : all[i] \in Trades
    BY <1>3, <2>1, ElementOfSeq
  <2>3. 1 \in Int /\ n \in Int
    BY <1>5
  <2> HIDE DEF n, all
  <2>4. /\ SubSeq(all, 1, n) \in Seq(Trades)
        /\ Len(SubSeq(all, 1, n)) = IF 1 <= n THEN n - 1 + 1 ELSE 0
        /\ \A i \in 1 .. n - 1 + 1 : SubSeq(all, 1, n)[i] = all[1 + i - 1]
    BY <2>2, <2>3, SubSeqProperties
  <2>5. QED
    BY <1>5, <2>3, <2>4
<1>7. trades' = [trades EXCEPT ![a] = SubSeq(all, 1, n)] /\ trades \in [Crew -> Seq(Trades)]
  BY <1>1 DEF StTypes
<1>8. trades'[a] = SubSeq(all, 1, n) /\ \A c \in Crew \ {a} : trades'[c] = trades[c]
  BY <1>7
<1>9. trades' \in [Crew -> Seq(Trades)]
  BY <1>6, <1>7
<1>10. /\ todays' = [todays EXCEPT ![a] = Min({todays[a] + 1, HistoryLimit})]
       /\ unpolled' = [unpolled EXCEPT ![a] = Min({unpolled[a] + 1, HistoryLimit})]
       /\ todays \in [Crew -> Nat] /\ unpolled \in [Crew -> Nat]
       /\ todays[a] <= Len(trades[a]) /\ unpolled[a] <= Len(trades[a])
       /\ Len(trades[a]) <= HistoryLimit
  BY DEF Closes, StTypes
<1>11. /\ Min({todays[a] + 1, HistoryLimit}) = (IF todays[a] + 1 <= HistoryLimit THEN todays[a] + 1 ELSE HistoryLimit)
       /\ Min({unpolled[a] + 1, HistoryLimit}) = (IF unpolled[a] + 1 <= HistoryLimit THEN unpolled[a] + 1 ELSE HistoryLimit)
  BY <1>2, <1>4
<1>12. /\ todays'[a] = (IF todays[a] + 1 <= HistoryLimit THEN todays[a] + 1 ELSE HistoryLimit)
       /\ unpolled'[a] = (IF unpolled[a] + 1 <= HistoryLimit THEN unpolled[a] + 1 ELSE HistoryLimit)
       /\ todays' \in [Crew -> Nat] /\ unpolled' \in [Crew -> Nat]
       /\ \A c \in Crew \ {a} : todays'[c] = todays[c] /\ unpolled'[c] = unpolled[c]
  BY <1>2, <1>10, <1>11
<1>13. Len(trades'[a]) = n /\ \A i \in 1 .. n : i > 1 => trades'[a][i] = trades[a][i - 1]
  <2>1. \A i \in 1 .. n : i \in 1 .. Len(all)
    BY <1>2, <1>3, <1>5
  <2>2. QED
    BY <1>3, <1>6, <1>8, <2>1
<1> HIDE DEF n, all
<1>14. QED
  BY <1>2, <1>3, <1>5, <1>8, <1>9, <1>10, <1>12, <1>13, SMTT(30)

LEMMA StInit_Inv == StInit => StInv
<1> SUFFICES ASSUME StInit PROVE StInv
  OBVIOUS
<1>1. \A a \in Crew : trades[a] = <<>> /\ todays[a] = 0 /\ unpolled[a] = 0
  BY DEF StInit
<1>2. StTypes
  <2>1. trades \in [Crew -> Seq(Trades)]
    BY DEF StInit
  <2>2. \A a \in Crew : Len(trades[a]) = 0
    BY <1>1
  <2>3. leaders \in [Kinds -> Nat] /\ toldLeaders \in [Kinds -> Nat]
    BY DEF StInit, NoLeaders, Kinds
  <2>4. /\ todays \in [Crew -> Nat] /\ unpolled \in [Crew -> Nat]
        /\ seeded \in BOOLEAN /\ dayOver \in BOOLEAN
    BY DEF StInit
  <2>5. \A a \in Crew : Len(trades[a]) <= HistoryLimit /\ todays[a] <= Len(trades[a])
                       /\ unpolled[a] <= Len(trades[a])
    BY <1>1, <2>2, StreakWatcherAssumption
  <2>6. QED
    BY <2>1, <2>3, <2>4, <2>5 DEF StTypes
<1>3. Compared /\ ToldLeads /\ NoneRead
  BY DEF StInit, Compared, ToldLeads, NoneRead, NoLeaders, Kinds
<1>4. QED
  BY <1>2, <1>3 DEF StInv

(* After a poll no trade of the day it read is bigger than the leader, and *)
(* no leader is smaller than before.                                       *)
LEMMA LeadersAfterPoll ==
    ASSUME StTypes, NEW read \in SUBSET Crew, PollOf(read), NEW k \in Kinds
    PROVE  /\ leaders'[k] \in Nat /\ Biggest(read, k) <= leaders'[k] /\ Cached(k) <= leaders'[k]
           /\ Cached(k) \in Nat
           /\ toldLeaders'[k] =
                IF <<"day", k>> \in stAiring' THEN Biggest(read, k) ELSE toldLeaders[k]
<1>1. /\ leaders'[k] = IF Outdone(read, k) THEN Biggest(read, k) ELSE Cached(k)
      /\ toldLeaders'[k] = IF <<"day", k>> \in stAiring' THEN Biggest(read, k) ELSE toldLeaders[k]
  BY DEF PollOf, LeadersNow
<1>2. Biggest(read, k) \in Nat /\ Cached(k) \in Nat
  BY BiggestOfDay DEF Cached, StTypes
<1>3. QED
  BY <1>1, <1>2 DEF Outdone

(* A day leader is aired only if it outdoes the cached one of this day. *)
LEMMA AiredLeader ==
    ASSUME StTypes, NEW read \in SUBSET Crew, PollOf(read), NEW k \in Kinds,
           <<"day", k>> \in stAiring'
    PROVE  ~dayOver /\ Biggest(read, k) > leaders[k] /\ Biggest(read, k) # 0
<1>1. <<"day", k>> \in (UNION {AgentMacros(a) : a \in read}) \cup LeaderMacros(read)
  BY DEF PollOf, Firing
<1>2. \A a \in read : <<"day", k>> \notin AgentMacros(a)
  BY DEF AgentMacros
<1>3. <<"day", k>> \in LeaderMacros(read)
  BY <1>1, <1>2
<1>4. Known /\ Outdone(read, k)
  BY <1>3 DEF LeaderMacros
<1>5. Biggest(read, k) \in Nat /\ leaders[k] \in Nat
  BY BiggestOfDay DEF StTypes
<1>6. QED
  BY <1>4, <1>5 DEF Known, Outdone, Cached

LEMMA PollOf_Inv == ASSUME StInv, NEW read \in SUBSET Crew, PollOf(read) PROVE StInv'
<1> USE DEF StInv
<1>1. /\ UNCHANGED <<trades, todays>> /\ dayOver' = FALSE /\ seeded' \in BOOLEAN
      /\ unpolled' = [a \in Crew |-> IF a \in read THEN 0 ELSE unpolled[a]]
      /\ unread' = unread \ read
      /\ leaders' = [k \in Kinds |-> IF Outdone(read, k) THEN Biggest(read, k) ELSE Cached(k)]
      /\ toldLeaders' = [k \in Kinds |->
             IF <<"day", k>> \in stAiring' THEN Biggest(read, k) ELSE toldLeaders[k]]
  BY DEF PollOf, LeadersNow, StTypes
<1>2. ASSUME NEW k \in Kinds PROVE toldLeaders'[k] \in Nat /\ leaders'[k] \in Nat
  <2>1. Biggest(read, k) \in Nat /\ toldLeaders[k] \in Nat
    BY BiggestOfDay DEF StTypes
  <2>2. QED
    BY <2>1, LeadersAfterPoll
<1>3. leaders' \in [Kinds -> Nat] /\ toldLeaders' \in [Kinds -> Nat]
  BY <1>1, <1>2
<1>4. StTypes'
  <2>1. \A a \in Crew : Len(trades[a]) \in Nat
    BY LenProperties DEF StTypes
  <2>2. \A a \in Crew : /\ Len(trades'[a]) <= HistoryLimit
                       /\ todays'[a] <= Len(trades'[a]) /\ unpolled'[a] <= Len(trades'[a])
    BY <1>1, <2>1 DEF StTypes
  <2>3. /\ trades' \in [Crew -> Seq(Trades)] /\ todays' \in [Crew -> Nat]
        /\ unpolled' \in [Crew -> Nat] /\ seeded' \in BOOLEAN /\ dayOver' \in BOOLEAN
    BY <1>1 DEF StTypes
  <2>4. QED
    BY <1>3, <2>2, <2>3 DEF StTypes
<1>5. ASSUME NEW a \in Crew, NEW i \in 1 .. todays[a]
      PROVE  /\ KindOf(trades[a][i]) \in Kinds /\ trades[a][i].by \in Nat
             /\ a \in read => trades[a][i].by <= leaders'[KindOf(trades[a][i])]
  <2>1. i \in 1 .. Len(trades[a])
    <3>1. todays[a] \in Nat /\ Len(trades[a]) \in Nat /\ todays[a] <= Len(trades[a])
      BY LenProperties DEF StTypes
    <3>2. QED
      BY <3>1
  <2>2. PICK k \in Kinds : k = KindOf(trades[a][i])
    BY <2>1, TradeTypes
  <2>3. /\ a \in read => trades[a][i].by <= Biggest(read, k)
        /\ Biggest(read, k) <= leaders'[k] /\ Biggest(read, k) \in Nat /\ leaders'[k] \in Nat
    BY <2>2, BiggestOfDay, LeadersAfterPoll
  <2>4. trades[a][i].by \in Nat
    BY <2>1, TradeTypes
  <2>5. QED
    BY <2>2, <2>3, <2>4
<1>6. Compared'
  <2> SUFFICES ASSUME NEW a \in Crew \ unread', NEW i \in 1 .. todays[a], i > unpolled'[a]
               PROVE  trades[a][i].by <= leaders'[KindOf(trades[a][i])]
    BY <1>1 DEF Compared, KindOf
  <2>1. CASE a \in read
    BY <1>5, <2>1
  <2>2. CASE a \notin read
    <3>1. ~dayOver /\ a \in Crew \ unread /\ i > unpolled[a]
      BY <1>1, <2>2 DEF NoneRead
    <3>2. PICK k \in Kinds : k = KindOf(trades[a][i])
      BY <1>5
    <3>3. trades[a][i].by <= leaders[k] /\ trades[a][i].by \in Nat
      BY <1>5, <3>1, <3>2 DEF Compared
    <3>4. leaders[k] <= leaders'[k] /\ leaders[k] \in Nat /\ leaders'[k] \in Nat
      BY <3>1, LeadersAfterPoll DEF Cached, StTypes
    <3>5. QED
      BY <3>2, <3>3, <3>4
  <2>3. QED
    BY <2>1, <2>2
<1>7. ToldLeads'
  <2> SUFFICES ASSUME NEW k \in Kinds
               PROVE  toldLeaders'[k] \in {0} \cup Gains \cup Losses /\ toldLeaders'[k] <= leaders'[k]
    BY <1>1 DEF ToldLeads
  <2>1. Biggest(read, k) <= leaders'[k] /\ Cached(k) <= leaders'[k] /\ Cached(k) \in Nat /\ leaders'[k] \in Nat
    BY LeadersAfterPoll
  <2>2. toldLeaders[k] <= Cached(k) /\ toldLeaders[k] \in Nat
    BY DEF ToldLeads, Cached, StTypes
  <2>3. toldLeaders[k] \in {0} \cup Gains \cup Losses /\ Biggest(read, k) \in {0} \cup Gains \cup Losses
    BY BiggestOfDay DEF ToldLeads
  <2>4. toldLeaders'[k] = IF <<"day", k>> \in stAiring' THEN Biggest(read, k) ELSE toldLeaders[k]
    BY LeadersAfterPoll
  <2>5. Biggest(read, k) \in Nat
    BY BiggestOfDay
  <2>6. CASE toldLeaders'[k] = Biggest(read, k)
    BY <2>1, <2>3, <2>6
  <2>7. CASE toldLeaders'[k] = toldLeaders[k]
    BY <2>1, <2>2, <2>3, <2>7
  <2>8. QED
    BY <2>4, <2>6, <2>7
<1>8. NoneRead'
  BY <1>1 DEF NoneRead
<1>9. QED
  BY <1>4, <1>6, <1>7, <1>8

LEMMA StPolls_Inv == ASSUME StInv, StPolls PROVE StInv'
  BY PollOf_Inv DEF StPolls

LEMMA Closes_StInv == ASSUME StInv, NEW a \in Crew, Closes(a) PROVE StInv'
<1> USE DEF StInv
<1>1. UNCHANGED <<leaders, seeded, dayOver, unread, toldLeaders>>
  BY DEF Closes
<1>2. StTypes'
  <2> SUFFICES ASSUME NEW c \in Crew
               PROVE  /\ Len(trades'[c]) <= HistoryLimit
                      /\ todays'[c] <= Len(trades'[c]) /\ unpolled'[c] <= Len(trades'[c])
    BY <1>1, ClosedTrades DEF StTypes
  <2>1. QED
    BY ClosedTrades DEF StTypes
<1>3. ToldLeads' /\ NoneRead'
  BY <1>1 DEF ToldLeads, NoneRead
<1>4. Compared'
  <2> SUFFICES ASSUME ~dayOver, NEW c \in Crew \ unread, NEW i \in 1 .. todays'[c], i > unpolled'[c]
               PROVE  trades'[c][i].by <= leaders[KindOf(trades'[c][i])]
    BY <1>1 DEF Compared, KindOf
  <2>1. CASE c # a
    BY <2>1, ClosedTrades, ZenonT(30) DEF Compared
  <2>2. CASE c = a
    <3>1. /\ todays[a] \in Nat /\ unpolled[a] \in Nat /\ todays'[a] \in Nat /\ HistoryLimit \in Nat
          /\ todays'[a] <= Len(trades'[a]) /\ todays'[a] <= todays[a] + 1
          /\ Len(trades'[a]) <= HistoryLimit /\ Len(trades'[a]) \in Nat
          /\ unpolled'[a] \in {unpolled[a] + 1, HistoryLimit}
      BY <1>2, ClosedTrades, LenProperties, StreakWatcherAssumption DEF StTypes
    <3>2. unpolled'[a] = unpolled[a] + 1 /\ i > 1 /\ i \in 1 .. Len(trades'[a])
      BY <2>2, <3>1
    <3>3. trades'[a][i] = trades[a][i - 1] /\ i - 1 \in 1 .. todays[a] /\ i - 1 > unpolled[a]
      BY <2>2, <3>1, <3>2, ClosedTrades
    <3>4. QED
      BY <2>2, <3>3 DEF Compared
  <2>3. QED
    BY <2>1, <2>2
<1>5. QED
  BY <1>2, <1>3, <1>4

LEMMA StNext_Inv == StInv /\ [StNext]_stVars => StInv'
<1> SUFFICES ASSUME StInv, [StNext]_stVars PROVE StInv'
  OBVIOUS
<1>1. CASE StTimePasses \/ UNCHANGED stVars
  BY <1>1 DEF StTimePasses, stVars, StInv, StTypes, Compared, ToldLeads, NoneRead, KindOf
<1>2. CASE Midnight
  <2>1. /\ todays' = [a \in Crew |-> 0] /\ dayOver' = TRUE /\ toldLeaders' = NoLeaders
        /\ unread' = Crew /\ UNCHANGED <<trades, leaders, seeded, unpolled>>
    BY <1>2 DEF Midnight
  <2>2. \A a \in Crew : Len(trades[a]) \in Nat
    BY LenProperties DEF StInv, StTypes
  <2>3. QED
    BY <2>1, <2>2 DEF StInv, StTypes, Compared, ToldLeads, NoneRead, NoLeaders, Kinds
<1>3. CASE StRestarts
  <2>1. /\ unpolled' = [a \in Crew |-> 0] /\ dayOver' = TRUE /\ seeded' = FALSE
        /\ unread' = Crew /\ toldLeaders' = NoLeaders /\ leaders' = NoLeaders /\ UNCHANGED <<trades, todays>>
    BY <1>3 DEF StRestarts
  <2>2. \A a \in Crew : Len(trades[a]) \in Nat
    BY LenProperties DEF StInv, StTypes
  <2>3. \A a \in Crew : unpolled'[a] = 0 /\ trades'[a] = trades[a] /\ todays'[a] = todays[a]
    BY <2>1
  <2>4. leaders' \in [Kinds -> Nat] /\ toldLeaders' \in [Kinds -> Nat]
    BY <2>1 DEF NoLeaders, Kinds
  <2>5. unpolled' \in [Crew -> Nat]
    BY <2>1
  <2>6. \A a \in Crew : unpolled'[a] <= Len(trades'[a])
    BY <2>2, <2>3
  <2>7. StTypes'
    BY <2>1, <2>3, <2>4, <2>5, <2>6 DEF StInv, StTypes
  <2>8. (Compared /\ ToldLeads /\ NoneRead)'
    BY <2>1 DEF Compared, ToldLeads, NoneRead, NoLeaders, Kinds
  <2>9. QED
    BY <2>7, <2>8 DEF StInv
<1>4. QED
  BY <1>1, <1>2, <1>3, StPolls_Inv, Closes_StInv DEF StNext

(* A day leader that is announced closed since a poll last read its agent, *)
(* unless no poll of the process could, and beats every one that this      *)
(* process announced today: _maybe_reset_day and the seeding of the cache  *)
(* let nothing old be celebrated that they were shown, also when trades    *)
(* have scrolled out of the history the watcher reads.                     *)
THEOREM LeadersAreRecordsHolds == StInit /\ [][StNext]_stVars => LeadersAreRecords
<1> DEFINE News == \A k \in Kinds : <<"day", k>> \in stAiring' /\ StPolls =>
                      \E a \in Crew : \E i \in 1 .. todays[a] :
                         /\ i <= unpolled[a] \/ a \in unread
                         /\ trades[a][i] = [won |-> k = "bigwin", by |-> toldLeaders'[k]]
           Rise == \A k \in Kinds : toldLeaders[k] # 0 =>
                      toldLeaders'[k] \in {0} \cup {n \in Gains \cup Losses : n >= toldLeaders[k]}
                      /\ (<<"day", k>> \in stAiring' /\ StPolls => toldLeaders'[k] > toldLeaders[k])
<1>1. ASSUME StInv, StPolls, NEW k \in Kinds, <<"day", k>> \in stAiring'
      PROVE  /\ \E a \in Crew : \E i \in 1 .. todays[a] :
                   /\ i <= unpolled[a] \/ a \in unread
                   /\ trades[a][i] = [won |-> k = "bigwin", by |-> toldLeaders'[k]]
             /\ toldLeaders'[k] > toldLeaders[k] /\ toldLeaders'[k] \in Gains \cup Losses
  <2> USE <1>1 DEF StInv
  <2>0. PICK read \in SUBSET Crew : PollOf(read)
    BY DEF StPolls
  <2>1. ~dayOver /\ Biggest(read, k) > leaders[k] /\ Biggest(read, k) # 0
        /\ toldLeaders'[k] = Biggest(read, k)
        /\ Biggest(read, k) \in Nat /\ leaders[k] \in Nat /\ toldLeaders[k] \in Nat
    BY <2>0, AiredLeader, LeadersAfterPoll, BiggestOfDay DEF StTypes
  <2>2. PICK a \in Crew : \E i \in 1 .. todays[a] :
           trades[a][i] = [won |-> k = "bigwin", by |-> Biggest(read, k)]
    BY <2>1, BiggestOfDay
  <2>3. PICK i \in 1 .. todays[a] : trades[a][i] = [won |-> k = "bigwin", by |-> Biggest(read, k)]
    BY <2>2
  <2>4. trades[a][i].by = Biggest(read, k) /\ KindOf(trades[a][i]) = k
    <3>1. CASE k = "bigwin"
      <4>1. trades[a][i] = [won |-> TRUE, by |-> Biggest(read, k)]
        BY <2>3, <3>1, Zenon
      <4>2. QED
        BY <3>1, <4>1 DEF KindOf
    <3>2. CASE k = "bigloss"
      <4>1. trades[a][i] = [won |-> FALSE, by |-> Biggest(read, k)]
        <5>1. (k = "bigwin") = FALSE
          BY <3>2
        <5>2. QED
          BY <2>3, <5>1, Zenon
      <4>2. QED
        BY <3>2, <4>1 DEF KindOf
    <3>3. QED
      BY <3>1, <3>2 DEF Kinds
  <2>5. ~(i > unpolled[a]) \/ a \in unread
    BY <2>1, <2>4 DEF Compared
  <2>6. todays[a] \in Nat /\ unpolled[a] \in Nat /\ Len(trades[a]) \in Nat /\ todays[a] <= Len(trades[a])
    BY LenProperties DEF StTypes
  <2>7. i <= unpolled[a] \/ a \in unread
    BY <2>5, <2>6
  <2>8. Biggest(read, k) \in Gains \cup Losses
    <3>1. i \in 1 .. Len(trades[a])
      BY <2>6
    <3>2. QED
      BY <2>4, <3>1, TradeTypes
  <2>9. toldLeaders[k] <= leaders[k]
    BY <2>1 DEF ToldLeads
  <2>10. trades[a][i] = [won |-> k = "bigwin", by |-> toldLeaders'[k]]
    <3>1. CASE k = "bigwin"
      BY <2>1, <2>3, <3>1
    <3>2. CASE k = "bigloss"
      BY <2>1, <2>3, <3>2
    <3>3. QED
      BY <3>1, <3>2 DEF Kinds
  <2>11. \E j \in 1 .. todays[a] :
            /\ j <= unpolled[a] \/ a \in unread
            /\ trades[a][j] = [won |-> k = "bigwin", by |-> toldLeaders'[k]]
    BY <2>7, <2>10
  <2>12. toldLeaders'[k] > toldLeaders[k] /\ toldLeaders'[k] \in Gains \cup Losses
    BY <2>1, <2>8, <2>9
  <2>13. QED
    BY <2>11, <2>12
<1>2. StInv => News
  BY <1>1
<1>3. ASSUME StInv, [StNext]_stVars, NEW k \in Kinds
      PROVE  toldLeaders'[k] = toldLeaders[k] \/ toldLeaders'[k] = 0
             \/ (StPolls /\ <<"day", k>> \in stAiring')
  <2>1. CASE StPolls
    BY <1>3, <2>1, LeadersAfterPoll DEF StInv, StPolls
  <2>2. CASE Midnight \/ StRestarts
    BY <2>2 DEF Midnight, StRestarts, NoLeaders, Kinds
  <2>3. CASE UNCHANGED toldLeaders
    BY <2>3
  <2>4. QED
    BY <1>3, <2>1, <2>2, <2>3 DEF StNext, StTimePasses, Closes, stVars
<1>4. StInv /\ [StNext]_stVars => Rise
  <2> SUFFICES ASSUME StInv, [StNext]_stVars, NEW k \in Kinds, toldLeaders[k] # 0
               PROVE  /\ toldLeaders'[k] \in {0} \cup {n \in Gains \cup Losses : n >= toldLeaders[k]}
                      /\ (<<"day", k>> \in stAiring' /\ StPolls => toldLeaders'[k] > toldLeaders[k])
    OBVIOUS
  <2>1. toldLeaders[k] \in Gains \cup Losses /\ toldLeaders[k] \in Nat
    BY DEF StInv, StTypes, ToldLeads
  <2>2. toldLeaders'[k] \in Gains \cup Losses => toldLeaders'[k] \in Nat
    BY StreakWatcherAssumption
  <2>3. CASE StPolls /\ <<"day", k>> \in stAiring'
    <3>1. toldLeaders'[k] > toldLeaders[k] /\ toldLeaders'[k] \in Gains \cup Losses
      BY <1>1, <2>3, Zenon
    <3>2. QED
      BY <2>1, <2>2, <3>1
  <2>4. CASE toldLeaders'[k] = 0 /\ ~(StPolls /\ <<"day", k>> \in stAiring')
    BY <2>4
  <2>5. CASE toldLeaders'[k] = toldLeaders[k] /\ ~(StPolls /\ <<"day", k>> \in stAiring')
    BY <2>1, <2>5
  <2>6. QED
    BY <1>3, <2>3, <2>4, <2>5
<1>5. StInv /\ [StNext]_stVars => [News]_stVars /\ [Rise]_stVars
  BY <1>2, <1>4
<1>6. QED
  BY <1>5, StInit_Inv, StNext_Inv, PTL DEF LeadersAreRecords, LeadersAreNews, LeadersRise

-------------------------------------------------------------------------------
(* The commentary.                                                         *)

SnapType == [fills : Nat, largest : Nat, spy : Bands]

(* The biggest fill is no smaller than any on the tape, now or when a      *)
(* snapshot was taken.                                                     *)
TalkInv ==
    /\ tape \in Seq(Notionals) /\ Len(tape) <= RecentFills
    /\ spyBand \in Bands
    /\ asking = <<>> \/ \E snap \in SnapType : asking = <<snap>>
    /\ said = <<>> \/ \E sentence \in Said : said = <<sentence>>
    /\ fillCount \in 0 .. MaxFills /\ biggest \in {0} \cup Notionals
    /\ \A i \in 1 .. Len(tape) : tape[i] <= biggest
    /\ asking # <<>> => asking[1].largest <= biggest /\ (asking[1].largest = 0 => asking[1].fills = 0)

LEMMA LargestOnTape ==
    ASSUME TalkInv
    PROVE  /\ Snapshot \in SnapType /\ Snapshot.largest <= biggest
           /\ Snapshot.largest = 0 => Snapshot.fills = 0
<1> DEFINE sizes == {0} \cup ToSet(tape)
<1> DEFINE entry == [i \in 1 .. Len(tape) |-> tape[i]]
<1>0. tape \in Seq(Notionals) /\ Notionals \subseteq Nat \ {0}
  BY CommentaryAssumption DEF TalkInv
<1>1. Len(tape) \in Nat /\ \A i \in 1 .. Len(tape) : tape[i] \in Nat \ {0}
  BY <1>0, LenProperties, ElementOfSeq
<1>2. ToSet(tape) = {tape[i] : i \in 1 .. Len(tape)}
  BY DEF TalkInv, ToSet
<1>3. IsFiniteSet(sizes) /\ sizes # {} /\ \A n \in sizes : n \in Nat /\ n <= biggest
  <2>1. IsFiniteSet(1 .. Len(tape))
    BY <1>1, FS_Interval
  <2>2. IsFiniteSet(ToSet(tape))
    <3>1. entry \in Surjection(1 .. Len(tape), ToSet(tape))
      BY <1>2 DEF Surjection
    <3>2. QED
      BY <2>1, <3>1, FS_Surjection
  <2>3. IsFiniteSet(sizes)
    BY <2>2, FS_AddElement
  <2>4. biggest \in Nat
    BY CommentaryAssumption DEF TalkInv
  <2>5. QED
    BY <1>1, <1>2, <2>3, <2>4 DEF TalkInv
<1>4. Max(sizes) \in sizes /\ \A n \in sizes : n <= Max(sizes)
  BY <1>3, FiniteMax
<1>5. QED
  BY <1>1, <1>2, <1>3, <1>4 DEF Snapshot, SnapType, TalkInv

LEMMA TalkInit_Inv == TalkInit => TalkInv
<1>1. <<>> \in Seq(Notionals) /\ Len(<<>>) = 0
  OBVIOUS
<1>2. QED
  BY <1>1, CommentaryAssumption DEF TalkInit, TalkInv, Bands

LEMMA Asks_Inv == ASSUME TalkInv, Asks PROVE TalkInv'
<1>1. /\ asking' = <<Snapshot>> /\ asking'[1] = Snapshot /\ said' = <<>>
      /\ UNCHANGED <<tape, spyBand, fillCount, biggest>>
  BY DEF Asks
<1>2. /\ Snapshot \in SnapType /\ Snapshot.largest <= biggest
      /\ Snapshot.largest = 0 => Snapshot.fills = 0
  BY LargestOnTape
<1>3. QED
  BY <1>1, <1>2 DEF TalkInv

(* What goes on air after an answer. *)
LEMMA OnAirIs ==
    ASSUME TalkInv, NEW snap \in SnapType, NEW answer \in Answers
    PROVE  \E sentence \in Said :
              /\ OnAir(answer, snap) = <<sentence>>
              /\ sentence.marked <= Factor * snap.largest \/ snap.largest = 0
<1>1. /\ snap.largest \in Nat /\ Factor \in Nat \ {0} /\ Factor * snap.largest \in Nat
      /\ Claims \subseteq Nat /\ 0 \in Claims
  BY CommentaryAssumption DEF SnapType
<1>2. CASE answer = <<>> \/ Exaggerates(answer[1], snap)
  <2>1. OnAir(answer, snap) = <<Fallback(snap)>>
    BY <1>2 DEF OnAir
  <2>2. PICK by \in Moods : Fallback(snap) = [by |-> by, marked |-> 0, plain |-> 0]
    <3>1. (IF snap.spy \in {"up", "down"} THEN snap.spy
           ELSE IF snap.fills >= 3 THEN "active" ELSE "quiet") \in Moods
      BY DEF Moods
    <3>2. QED
      BY <3>1 DEF Fallback
  <2>3. Fallback(snap) \in Said /\ Fallback(snap).marked = 0 /\ 0 <= Factor * snap.largest
    BY <1>1, <2>2 DEF Said
  <2>4. QED
    BY <2>1, <2>3
<1>3. CASE ~(answer = <<>> \/ Exaggerates(answer[1], snap))
  <2>1. PICK sentence \in Said : answer = <<sentence>>
    BY <1>3 DEF Answers
  <2>2. answer[1] = sentence /\ OnAir(answer, snap) = <<sentence>>
    BY <1>3, <2>1 DEF OnAir
  <2>3. ~(snap.largest > 0 /\ sentence.marked > Factor * snap.largest) /\ sentence.marked \in Nat
    BY <1>1, <1>3, <2>2 DEF Exaggerates, Said
  <2>4. QED
    BY <1>1, <2>2, <2>3
<1>4. QED
  BY <1>2, <1>3

LEMMA Speaks_Inv ==
    ASSUME TalkInv, Speaks
    PROVE  TalkInv' /\ (Head(said').marked <= Factor * biggest \/ asking[1].fills = 0)
<1>1. PICK snap \in SnapType : asking = <<snap>>
  BY DEF TalkInv, Speaks
<1>2. asking[1] = snap /\ snap.largest <= biggest /\ (snap.largest = 0 => snap.fills = 0)
  BY <1>1 DEF TalkInv
<1>3. PICK answer \in Answers : said' = OnAir(answer, snap)
  BY <1>2 DEF Speaks
<1>4. PICK sentence \in Said :
         /\ said' = <<sentence>>
         /\ sentence.marked <= Factor * snap.largest \/ snap.largest = 0
  BY <1>3, OnAirIs
<1>5. asking' = <<>> /\ UNCHANGED <<tape, spyBand, fillCount, biggest>>
  BY DEF Speaks
<1>6. TalkInv'
  BY <1>4, <1>5 DEF TalkInv
<1>7. sentence.marked <= Factor * biggest \/ snap.largest = 0
  <2>1. snap.largest \in Nat /\ biggest \in Nat /\ Factor \in Nat /\ sentence.marked \in Nat
    BY CommentaryAssumption DEF TalkInv, SnapType, Said
  <2>2. PICK d \in Nat : biggest = snap.largest + d
    <3>1. biggest - snap.largest \in Nat /\ biggest = snap.largest + (biggest - snap.largest)
      BY <1>2, <2>1
    <3>2. QED
      BY <3>1
  <2>3. Factor * biggest = Factor * snap.largest + Factor * d /\ Factor * d \in Nat
        /\ Factor * snap.largest \in Nat
    BY <2>1, <2>2
  <2>4. QED
    BY <1>4, <2>1, <2>3
<1>8. Head(said') = sentence
  BY <1>4
<1>9. QED
  BY <1>2, <1>6, <1>7, <1>8

LEMMA FarmFills_Inv == ASSUME TalkInv, FarmFills PROVE TalkInv'
<1>1. PICK n \in Notionals :
         /\ tape' = IF Len(tape) < RecentFills THEN Append(tape, n) ELSE Append(Tail(tape), n)
         /\ biggest' = IF n > biggest THEN n ELSE biggest
  BY DEF FarmFills
<1>2. /\ n \in Nat \ {0} /\ biggest \in Nat /\ RecentFills \in Nat \ {0} /\ Len(tape) \in Nat
      /\ tape \in Seq(Notionals) /\ Notionals \subseteq Nat
  BY CommentaryAssumption DEF TalkInv
<1>3. biggest <= biggest' /\ n <= biggest' /\ biggest' \in {0} \cup Notionals /\ biggest' \in Nat
  BY <1>1, <1>2 DEF TalkInv
<1>4. \A i \in 1 .. Len(tape) : tape[i] \in Nat /\ tape[i] <= biggest'
  <2> SUFFICES ASSUME NEW i \in 1 .. Len(tape) PROVE tape[i] \in Nat /\ tape[i] <= biggest'
    OBVIOUS
  <2>1. tape[i] \in Nat
    BY <1>2, ElementOfSeq
  <2>2. tape[i] <= biggest
    BY DEF TalkInv
  <2>3. QED
    BY <1>2, <1>3, <2>1, <2>2
<1>5. /\ tape' \in Seq(Notionals) /\ Len(tape') <= RecentFills
      /\ \A i \in 1 .. Len(tape') : tape'[i] <= biggest'
  <2>1. CASE Len(tape) < RecentFills
    <3>1. /\ tape' \in Seq(Notionals) /\ Len(tape') = Len(tape) + 1 /\ tape'[Len(tape) + 1] = n
          /\ \A i \in 1 .. Len(tape) : tape'[i] = tape[i]
      BY <1>1, <1>2, <2>1, AppendProperties
    <3>2. QED
      BY <1>2, <1>3, <1>4, <2>1, <3>1
  <2>2. CASE ~(Len(tape) < RecentFills)
    <3> DEFINE rest == Tail(tape)
    <3>1. /\ rest \in Seq(Notionals) /\ Len(rest) = Len(tape) - 1
          /\ \A i \in 1 .. Len(rest) : rest[i] = tape[i + 1]
      BY <1>2, <2>2, HeadTailProperties
    <3> HIDE DEF rest
    <3>2. /\ Append(rest, n) \in Seq(Notionals) /\ Len(Append(rest, n)) = Len(tape)
          /\ Append(rest, n)[Len(tape)] = n
          /\ \A i \in 1 .. Len(tape) - 1 : Append(rest, n)[i] = tape[i + 1]
      BY <1>2, <3>1, AppendProperties
    <3>3. tape' = Append(rest, n) /\ Len(tape) <= RecentFills
      BY <1>1, <2>2 DEF rest, TalkInv
    <3>4. ASSUME NEW i \in 1 .. Len(tape') PROVE tape'[i] <= biggest'
      <4>1. CASE i = Len(tape)
        BY <1>2, <1>3, <3>2, <3>3, <4>1
      <4>2. CASE i # Len(tape)
        <5>1. i \in 1 .. Len(tape) - 1 /\ i + 1 \in 1 .. Len(tape)
          BY <1>2, <3>2, <3>3, <4>2
        <5>2. QED
          BY <1>4, <3>2, <3>3, <5>1
      <4>3. QED
        BY <4>1, <4>2
    <3>5. QED
      BY <3>2, <3>3, <3>4
  <2>3. QED
    BY <2>1, <2>2
<1>6. UNCHANGED <<spyBand, asking>> /\ said' = <<>> /\ fillCount' \in 0 .. MaxFills
  BY CommentaryAssumption DEF FarmFills, TalkInv
<1>7. asking # <<>> => asking[1].largest <= biggest'
  <2>1. CASE asking = <<>>
    BY <2>1
  <2>2. CASE asking # <<>>
    <3>1. PICK snap \in SnapType : asking = <<snap>> /\ asking[1] = snap
      BY <2>2 DEF TalkInv
    <3>2. QED
      BY <1>2, <1>3, <2>2, <3>1 DEF TalkInv, SnapType
  <2>3. QED
    BY <2>1, <2>2
<1>8. QED
  BY <1>3, <1>5, <1>6, <1>7 DEF TalkInv

LEMMA TalkNext_Inv == TalkInv /\ [TalkNext]_talkVars => TalkInv'
<1> SUFFICES ASSUME TalkInv, [TalkNext]_talkVars PROVE TalkInv'
  OBVIOUS
<1>1. CASE SpyDrifts \/ UNCHANGED talkVars
  BY <1>1 DEF SpyDrifts, talkVars, TalkInv
<1>2. QED
  BY <1>1, Asks_Inv, Speaks_Inv, FarmFills_Inv DEF TalkNext

(* What a sentence on air claims with a suffix is no more than ten times   *)
(* what any fill was worth, or nothing was filled yet: the guard           *)
(* (_strip_hallucinated_magnitudes) weighs what its patterns read against  *)
(* the snapshot of the call.                                               *)
THEOREM ClaimsAreBackedHolds == TalkInit /\ [][TalkNext]_talkVars => ClaimsAreBacked
<1> DEFINE Backed == said' # <<>> => Head(said').marked <= Factor * biggest \/ asking[1].fills = 0
<1>1. TalkInv /\ [TalkNext]_talkVars => [Backed]_talkVars
  <2> SUFFICES ASSUME TalkInv, TalkNext PROVE Backed
    OBVIOUS
  <2>1. QED
    BY Speaks_Inv DEF TalkNext, Asks, FarmFills, SpyDrifts
<1>2. QED
  BY <1>1, TalkInit_Inv, TalkNext_Inv, PTL DEF ClaimsAreBacked

LEMMA TalkTypes == TalkInv => TalkTypeOK
<1> SUFFICES ASSUME TalkInv PROVE TalkTypeOK
  OBVIOUS
<1>1. Len(asking) <= 1
  <2>1. CASE asking = <<>>
    BY <2>1
  <2>2. ASSUME NEW snap \in SnapType, asking = <<snap>> PROVE Len(asking) <= 1
    BY <2>2
  <2>3. QED
    BY <2>1, <2>2 DEF TalkInv
<1>2. Len(said) <= 1 /\ ToSet(said) \subseteq Said
  <2>1. CASE said = <<>>
    BY <2>1 DEF ToSet
  <2>2. ASSUME NEW sentence \in Said, said = <<sentence>>
        PROVE  Len(said) <= 1 /\ ToSet(said) \subseteq Said
    BY <2>2 DEF ToSet
  <2>3. QED
    BY <2>1, <2>2 DEF TalkInv
<1>3. QED
  BY <1>1, <1>2 DEF TalkInv, TalkTypeOK

-------------------------------------------------------------------------------
(* The types of all variables.  Those of a component rest on its invariant *)
(* and on what its own guards and assignments bound.                       *)

DirTypes ==
    /\ DirInv /\ {spy, baseline} \subseteq SpyMarks \cup {0}
    /\ dirAiring \subseteq MacroIds /\ dirRestarts \in 0 .. MaxDirRestarts

LEMMA DirTypesStart == DirInit => DirTypes
<1>1. DirInit => {spy, baseline} \subseteq SpyMarks \cup {0} /\ dirAiring \subseteq MacroIds
                 /\ dirRestarts \in 0 .. MaxDirRestarts
  BY AutoDirectorAssumption DEF DirInit
<1>2. QED
  BY <1>1, DirInit_Inv DEF DirTypes

LEMMA DirTypesStep == ASSUME DirTypes, [DirNext]_dirVars PROVE DirTypes'
<1>1. DirInv'
  BY DirNext_Inv DEF DirTypes
<1>2. CASE DirPolls
  <2>1. Collected \subseteq MacroIds
    <3>1. PnlMacros \subseteq MacroIds
      <4>1. \A a \in Farm : standing[a] # "even" => standing[a] \in {"win", "crash"}
        BY DEF DirTypes, DirInv, Standings
      <4>2. QED
        BY <4>1 DEF PnlMacros, MacroIds
    <3>2. MarketMacros \subseteq MacroIds /\ PromotionMacros \subseteq MacroIds
      BY DEF MarketMacros, PromotionMacros, MacroIds
    <3>3. QED
      BY <3>1, <3>2 DEF Collected
  <2>2. dirAiring' \subseteq MacroIds
    BY <1>2, <2>1 DEF DirPolls, Firing
  <2>3. QED
    BY <1>1, <1>2, <2>2 DEF DirPolls, DirTypes
<1>3. ASSUME NEW a \in Farm, EquityMoves(a) \/ GradeMoves(a) PROVE DirTypes'
  BY <1>1, <1>3 DEF EquityMoves, GradeMoves, DirTypes
<1>4. CASE SpyMoves \/ DirTimePasses \/ UNCHANGED dirVars
  BY <1>1, <1>4 DEF SpyMoves, DirTimePasses, dirVars, DirTypes
<1>5. CASE DirRestarts
  <2>1. dirRestarts' \in 0 .. MaxDirRestarts
    BY <1>5, AutoDirectorAssumption DEF DirRestarts, DirTypes
  <2>2. QED
    BY <1>1, <1>5, <2>1 DEF DirRestarts, DirTypes
<1>6. QED
  BY <1>2, <1>3, <1>4, <1>5 DEF DirNext

LEMMA DirTypesAre == DirTypes => DirTypeOK
<1>1. ASSUME DirTypes PROVE climbed \in [Farm -> (- TopGrade) .. TopGrade]
  <2> SUFFICES ASSUME NEW a \in Farm PROVE climbed[a] \in (- TopGrade) .. TopGrade
    BY <1>1 DEF DirTypes, DirInv
  <2>1. {grade[a], snapshot[a]} \subseteq 0 .. TopGrade /\ climbed[a] \in Int
        /\ snapshot[a] + climbed[a] = grade[a]
    BY <1>1 DEF DirTypes, DirInv, Grades
  <2>2. QED
    BY <2>1, AutoDirectorAssumption
<1>2. QED
  BY <1>1 DEF DirTypes, DirInv, DirTypeOK

-------------------------------------------------------------------------------
StMore ==
    /\ StInv
    /\ sinceLast \in [Crew -> 0 .. QuietGap] /\ woke \in [Crew -> BOOLEAN]
    /\ stFired \in [StreakIds -> 0 .. StCooldown] /\ stAiring \subseteq StreakIds
    /\ leaders \in [Kinds -> {0} \cup Gains \cup Losses]

LEMMA StMoreStart == StInit => StMore
<1>1. {QuietGap, StCooldown} \subseteq Nat
  BY StreakWatcherAssumption
<1>2. StInit => /\ sinceLast \in [Crew -> 0 .. QuietGap] /\ woke \in [Crew -> BOOLEAN]
                /\ stFired \in [StreakIds -> 0 .. StCooldown] /\ stAiring \subseteq StreakIds
                /\ leaders \in [Kinds -> {0} \cup Gains \cup Losses]
  BY <1>1 DEF StInit, Rested, NoLeaders, Kinds
<1>3. QED
  BY <1>2, StInit_Inv DEF StMore

(* Ages get older, up to the cooldown, or start again. *)
LEMMA StAgesKept ==
    ASSUME NEW ids, NEW top \in Nat, NEW age \in [ids -> 0 .. top]
    PROVE  /\ Older(age, top) \in [ids -> 0 .. top]
           /\ \A some : Fired(some, age, top) \in [ids -> 0 .. top]
<1>1. \A id \in ids : age[id] \in 0 .. top
  OBVIOUS
<1>2. QED
  BY <1>1 DEF Older, Fired

LEMMA StMoreStep == ASSUME StMore, [StNext]_stVars PROVE StMore'
<1>1. StInv'
  BY StNext_Inv DEF StMore
<1>2. QuietGap \in Nat /\ StCooldown \in Nat
  BY StreakWatcherAssumption
<1>3. CASE StPolls
  <2>0. PICK read \in SUBSET Crew : PollOf(read)
    BY <1>3 DEF StPolls
  <2> DEFINE ids == (UNION {AgentMacros(a) : a \in read}) \cup LeaderMacros(read)
  <2>1. ids \subseteq StreakIds
    <3>1. ASSUME NEW a \in read PROVE AgentMacros(a) \subseteq StreakIds
      <4>1. AgentMacros(a) \subseteq {<<"win3", a>>, <<"loss5", a>>, <<"awake", a>>}
        BY DEF AgentMacros
      <4>2. QED
        BY <4>1 DEF StreakIds
    <3>2. LeaderMacros(read) \subseteq StreakIds
      BY DEF LeaderMacros, Kinds, StreakIds
    <3>3. QED
      BY <3>1, <3>2
  <2>2. stAiring' = Firing(ids, stFired, StCooldown) /\ stFired' = Fired(ids, stFired, StCooldown)
        /\ UNCHANGED <<sinceLast, woke>>
    BY <2>0 DEF PollOf
  <2>3. leaders' = [k \in Kinds |-> IF Outdone(read, k) THEN Biggest(read, k) ELSE Cached(k)]
    BY <2>0 DEF PollOf, LeadersNow
  <2>4. \A k \in Kinds : Biggest(read, k) \in {0} \cup Gains \cup Losses /\ Cached(k) \in {0} \cup Gains \cup Losses
    BY BiggestOfDay DEF StMore, StInv, Cached
  <2>5. leaders' \in [Kinds -> {0} \cup Gains \cup Losses]
    BY <2>3, <2>4
  <2>6. stAiring' \subseteq StreakIds /\ stFired' \in [StreakIds -> 0 .. StCooldown]
    <3> HIDE DEF ids
    <3>1. QED
      BY <1>2, <2>1, <2>2, StAgesKept DEF StMore, Firing
  <2>7. QED
    BY <1>1, <2>2, <2>5, <2>6 DEF StMore
<1>4. CASE StTimePasses
  BY <1>1, <1>2, <1>4, StAgesKept DEF StTimePasses, StMore
<1>5. CASE Midnight \/ UNCHANGED stVars
  BY <1>1, <1>5 DEF Midnight, stVars, StMore
<1>6. CASE StRestarts
  BY <1>1, <1>2, <1>6 DEF StRestarts, StMore, Rested, NoLeaders, Kinds
<1>7. ASSUME NEW a \in Crew, Closes(a) PROVE StMore'
  BY <1>1, <1>2, <1>7 DEF Closes, StMore
<1>8. QED
  BY <1>3, <1>4, <1>5, <1>6, <1>7 DEF StNext

LEMMA StTypesAre == StMore => StTypeOK
<1> SUFFICES ASSUME StMore PROVE StTypeOK
  OBVIOUS
<1>1. ASSUME NEW a \in Crew
      PROVE  /\ trades[a] \in Seq(Trades) /\ Len(trades[a]) <= HistoryLimit
             /\ {todays[a], unpolled[a]} \subseteq 0 .. Len(trades[a])
  <2>1. /\ trades[a] \in Seq(Trades) /\ Len(trades[a]) <= HistoryLimit
        /\ todays[a] \in Nat /\ unpolled[a] \in Nat
        /\ todays[a] <= Len(trades[a]) /\ unpolled[a] <= Len(trades[a])
    BY DEF StMore, StInv, StTypes
  <2>2. Len(trades[a]) \in Nat
    BY <2>1, LenProperties
  <2>3. QED
    BY <2>1, <2>2
<1>2. toldLeaders \in [Kinds -> {0} \cup Gains \cup Losses]
  BY DEF StMore, StInv, StTypes, ToldLeads
<1>3. QED
  BY <1>1, <1>2 DEF StMore, StInv, StTypes, StTypeOK, NoneRead

-------------------------------------------------------------------------------
SuiteMore ==
    /\ SuiteInv /\ running \subseteq Sidecars /\ arbiter \in BOOLEAN /\ polled \in BOOLEAN
    /\ ledger \in Seq(Sidecars \cup {"recap"}) /\ Len(ledger) <= MaxMoments
    /\ stretch \in {"before", "window", "after"}
    /\ recapRows \subseteq Days /\ attributed \subseteq Days /\ faults \in 0 .. MaxFaults

LEMMA SuiteMoreStart == SuiteInit => SuiteMore
<1>1. <<>> \in Seq(Sidecars \cup {"recap"}) /\ Len(<<>>) = 0
  OBVIOUS
<1> SUFFICES ASSUME SuiteInit PROVE SuiteMore
  OBVIOUS
<1>2. ledger \in Seq(Sidecars \cup {"recap"}) /\ Len(ledger) <= MaxMoments
  BY <1>1, SuiteAssumption DEF SuiteInit
<1>3. running \subseteq Sidecars /\ arbiter \in BOOLEAN /\ polled \in BOOLEAN
  BY DEF SuiteInit
<1>4. stretch \in {"before", "window", "after"} /\ recapRows \subseteq Days /\ attributed \subseteq Days
  BY DEF SuiteInit
<1>5. faults \in 0 .. MaxFaults
  BY SuiteAssumption DEF SuiteInit
<1>6. QED
  BY <1>2, <1>3, <1>4, <1>5, SuiteInit_Inv DEF SuiteMore

(* The ledger forgets its oldest moment for the newest. *)
LEMMA LedgerKept ==
    ASSUME SuiteMore, NEW who \in Sidecars \cup {"recap"}, Published(who)
    PROVE  ledger' \in Seq(Sidecars \cup {"recap"}) /\ Len(ledger') <= MaxMoments
<1> DEFINE Who == Sidecars \cup {"recap"}
<1>1. ledger \in Seq(Who) /\ Len(ledger) <= MaxMoments /\ Len(ledger) \in Nat /\ MaxMoments \in Nat \ {0}
  BY SuiteAssumption, LenProperties DEF SuiteMore
<1>2. CASE ledger' = ledger
  BY <1>1, <1>2
<1>3. CASE ledger' = Append(ledger, who) /\ Len(ledger) < MaxMoments
  <2>1. Append(ledger, who) \in Seq(Who) /\ Len(Append(ledger, who)) = Len(ledger) + 1
    BY <1>1, AppendProperties
  <2>2. QED
    BY <1>1, <1>3, <2>1
<1>4. CASE ledger' = Append(Tail(ledger), who) /\ ~(Len(ledger) < MaxMoments)
  <2>1. Tail(ledger) \in Seq(Who) /\ Len(Tail(ledger)) = Len(ledger) - 1
    BY <1>1, <1>4, HeadTailProperties
  <2>2. Append(Tail(ledger), who) \in Seq(Who) /\ Len(Append(Tail(ledger), who)) = Len(ledger)
    BY <1>1, <2>1, AppendProperties
  <2>3. QED
    BY <1>1, <1>4, <2>2
<1>5. QED
  BY <1>2, <1>3, <1>4 DEF Published, Recorded

(* A boot that is not through finds the next coordinator of its order. *)
LEMMA NextToStart ==
    ASSUME running # Sidecars, running \subseteq Sidecars
    PROVE  StartOrder[NextIn(StartOrder, running)] \in Sidecars
<1> DEFINE waiting == {i \in 1 .. Cardinality(Sidecars) : StartOrder[i] \notin running}
<1>1. StartOrder \in [1 .. Cardinality(Sidecars) -> Sidecars]
  BY SuiteAssumption
<1>2. waiting \in SUBSET Nat /\ waiting # {}
  <2>1. PICK s \in Sidecars : s \notin running
    OBVIOUS
  <2>2. PICK i \in 1 .. Cardinality(Sidecars) : StartOrder[i] = s
    BY SuiteAssumption
  <2>3. QED
    BY <2>1, <2>2
<1>3. PICK n \in waiting : \A m \in waiting : n <= m
  BY <1>2, LeastNumber
<1>4. n \in DOMAIN StartOrder /\ StartOrder[n] \notin running /\ \A j \in 1 .. n - 1 : StartOrder[j] \in running
  <2>1. ASSUME NEW j \in 1 .. n - 1 PROVE StartOrder[j] \in running
    <3>1. n \in Nat /\ j \in 1 .. Cardinality(Sidecars) /\ ~(n <= j)
      <4>1. n \in 1 .. Cardinality(Sidecars) /\ Cardinality(Sidecars) \in Nat
        BY SuiteAssumption, FS_CardinalityType
      <4>2. QED
        BY <4>1
    <3>2. QED
      BY <1>3, <3>1
  <2>2. QED
    BY <1>1, <2>1
<1>5. NextIn(StartOrder, running) \in DOMAIN StartOrder
  BY <1>4 DEF NextIn
<1>6. QED
  BY <1>1, <1>5

LEMMA SuiteMoreStep == ASSUME SuiteMore, [SuiteNext]_suiteVars, SuiteInv' PROVE SuiteMore'
<1> USE DEF SuiteMore
<1>1. MaxFaults \in Nat /\ day \in Days
  BY SuiteAssumption DEF SuiteInv, SuiteKinds
<1>2. Fault \/ NoFault => faults' \in 0 .. MaxFaults
  BY <1>1 DEF Fault, NoFault
<1>3. ASSUME NEW s \in Sidecars, SidecarPublishes(s) PROVE SuiteMore'
  BY <1>3, LedgerKept DEF SidecarPublishes, processVars, recapVars
<1>4. CASE OperatorPushes
  BY <1>4, LedgerKept DEF OperatorPushes, processVars, recapVars
<1>5. CASE BootBegins
  BY <1>5, SuiteAssumption DEF BootBegins, recapVars
<1>6. CASE SidecarStarts
  BY <1>6, NextToStart DEF SidecarStarts, recapVars
<1>7. CASE BootEnds \/ ShutdownBegins \/ SidecarStops \/ ArbiterLeaves
  BY <1>7 DEF BootEnds, ShutdownBegins, DrainBegins, SidecarStops, ArbiterLeaves, recapVars
<1>8. CASE ShutdownEnds \/ SuiteCrash
  <2>1. ProcessEnds /\ faults' \in 0 .. MaxFaults
    BY <1>2, <1>8 DEF ShutdownEnds, SuiteCrash
  <2>2. <<>> \in Seq(Sidecars \cup {"recap"}) /\ Len(<<>>) = 0 /\ MaxMoments \in Nat
    BY SuiteAssumption
  <2>3. ledger' \in Seq(Sidecars \cup {"recap"}) /\ Len(ledger') <= MaxMoments
    BY <2>1, <2>2 DEF ProcessEnds
  <2>4. QED
    BY <2>1, <2>3 DEF ProcessEnds
<1>9. CASE RecapPolls
  <2>1. ledger' \in Seq(Sidecars \cup {"recap"}) /\ Len(ledger') <= MaxMoments
    BY <1>9, LedgerKept DEF RecapPolls
  <2>2. QED
    BY <1>9, <2>1 DEF RecapPolls
<1>10. CASE RecapIsNoted
  BY <1>1, <1>2, <1>10 DEF RecapIsNoted, RowWritten
<1>11. CASE ClockMoves
  BY <1>11 DEF ClockMoves, processVars, recapVars
<1>12. CASE UNCHANGED suiteVars
  BY <1>12 DEF suiteVars
<1>13. QED
  BY <1>3, <1>4, <1>5, <1>6, <1>7, <1>8, <1>9, <1>10, <1>11, <1>12 DEF SuiteNext

LEMMA SuiteTypesAre == SuiteMore => SuiteTypeOK
  BY DEF SuiteMore, SuiteInv, SuiteKinds, Routed, SidecarsAreRouted, SuiteTypeOK

-------------------------------------------------------------------------------
StreamMore ==
    /\ StreamInv /\ events <= MaxEvents /\ dropped \in Nat /\ recorders <= MaxRecorders
    /\ thirds \in Seq(Events) /\ Len(thirds) <= RingSize
    /\ inbox \in [Clients -> Seq(Events)] /\ \A c \in Clients : Len(inbox[c]) <= QueueCap
    /\ {sending, got, filed} \subseteq [Clients -> Seq(Events)] /\ told \in Nat
    /\ {missed, unwritten} \subseteq [Clients -> SUBSET Events] /\ since \in [Clients -> 0 .. MaxEvents]

LEMMA StreamMoreStart == StreamInit => StreamMore
<1> SUFFICES ASSUME StreamInit PROVE StreamMore
  OBVIOUS
<1>1. <<>> \in Seq(Events) /\ Len(<<>>) = 0
  OBVIOUS
<1>2. Nothing \in [Clients -> Seq(Events)]
  BY <1>1 DEF Nothing
<1>3. thirds \in Seq(Events) /\ Len(thirds) <= RingSize
  BY <1>1, LiveStreamAssumption DEF StreamInit
<1>4. \A c \in Clients : Len(inbox[c]) <= QueueCap
  BY <1>1, LiveStreamAssumption DEF StreamInit, Nothing
<1>5. QED
  BY <1>2, <1>3, <1>4, StreamInit_Inv, LiveStreamAssumption DEF StreamInit, StreamMore

LEMMA StreamNumbers ==
    /\ {SlowAt, QueueCap, RingSize} \subseteq Nat \ {0} /\ {MaxEvents, MaxRecorders} \subseteq Nat
    /\ Thirds \subseteq Events
  BY LiveStreamAssumption DEF Events

(* A new event goes where there is room. *)
LEMMA Fanout_More ==
    ASSUME StreamMore, StreamInv', Fanout(events + 1), events + 1 \in Events,
           thirds' \in Seq(Events), Len(thirds') <= RingSize
    PROVE  StreamMore'
<1> DEFINE n == events + 1
<1> USE DEF StreamMore
<1>1. /\ events' = n /\ dropped' = dropped + Cardinality(Lagging)
      /\ inbox' = [c \in Clients |-> IF c \in Subscribers THEN Enqueued(inbox[c], n) ELSE inbox[c]]
      /\ missed' = [c \in Clients |-> IF c \in Lagging THEN missed[c] \cup {n} ELSE missed[c]]
      /\ UNCHANGED <<told, at, broken, sending, got, since, registry, recorders, closed, recorder>>
      /\ UNCHANGED <<filed, unwritten>>
  BY DEF Fanout, recordingVars
<1>2. dropped' \in Nat
  <2>1. Lagging \subseteq Clients
    BY DEF Lagging, Subscribers
  <2>2. IsFiniteSet(Lagging)
    BY <2>1, FS_Subset, LiveStreamAssumption
  <2>3. Cardinality(Lagging) \in Nat
    BY <2>2, FS_CardinalityType
  <2>4. QED
    BY <1>1, <2>3
<1>3. ASSUME NEW c \in Clients PROVE inbox'[c] \in Seq(Events) /\ Len(inbox'[c]) <= QueueCap
  <2>1. inbox[c] \in Seq(Events) /\ Len(inbox[c]) <= QueueCap /\ Len(inbox[c]) \in Nat /\ QueueCap \in Nat
    BY StreamNumbers, LenProperties
  <2>2. CASE inbox'[c] = inbox[c]
    BY <2>1, <2>2
  <2>3. CASE inbox'[c] = Append(inbox[c], n) /\ ~Full(inbox[c])
    <3>1. Append(inbox[c], n) \in Seq(Events) /\ Len(Append(inbox[c], n)) = Len(inbox[c]) + 1
      BY <2>1, AppendProperties
    <3>2. QED
      BY <2>1, <2>3, <3>1 DEF Full
  <2>4. QED
    BY <1>1, <2>2, <2>3 DEF Enqueued
<1>4. inbox' \in [Clients -> Seq(Events)]
  <2>1. inbox' = [c \in Clients |-> inbox'[c]]
    BY <1>1
  <2>2. QED
    BY <1>3, <2>1
<1>5. missed' \in [Clients -> SUBSET Events]
  BY <1>1
<1>6. events' <= MaxEvents
  BY <1>1, StreamNumbers DEF Events
<1>7. QED
  BY <1>1, <1>2, <1>3, <1>4, <1>5, <1>6

(* The ring forgets its oldest lower third for the newest. *)
LEMMA LoggedKept ==
    ASSUME StreamMore, NEW n \in Events
    PROVE  Logged(thirds, n) \in Seq(Events) /\ Len(Logged(thirds, n)) <= RingSize
<1>1. /\ thirds \in Seq(Events) /\ Len(thirds) <= RingSize /\ Len(thirds) \in Nat
      /\ RingSize \in Nat \ {0}
  BY StreamNumbers, LenProperties DEF StreamMore
<1>2. CASE Len(thirds) < RingSize
  <2>1. Append(thirds, n) \in Seq(Events) /\ Len(Append(thirds, n)) = Len(thirds) + 1
    BY <1>1, AppendProperties
  <2>2. QED
    BY <1>1, <1>2, <2>1 DEF Logged
<1>3. CASE ~(Len(thirds) < RingSize)
  <2>1. Tail(thirds) \in Seq(Events) /\ Len(Tail(thirds)) = Len(thirds) - 1
    BY <1>1, <1>3, HeadTailProperties
  <2>2. Append(Tail(thirds), n) \in Seq(Events) /\ Len(Append(Tail(thirds), n)) = Len(thirds)
    BY <1>1, <2>1, AppendProperties
  <2>3. QED
    BY <1>1, <1>3, <2>2 DEF Logged
<1>4. QED
  BY <1>2, <1>3

LEMMA Leave_More == ASSUME StreamMore, StreamInv', NEW c \in Clients, Leave(c) PROVE StreamMore'
<1>1. <<>> \in Seq(Events) /\ Len(<<>>) = 0 /\ {} \in SUBSET Events /\ 0 \in 0 .. MaxEvents
      /\ QueueCap \in Nat
  BY StreamNumbers
<1>2. /\ inbox' \in [Clients -> Seq(Events)] /\ {sending', got', filed'} \subseteq [Clients -> Seq(Events)]
      /\ {missed', unwritten'} \subseteq [Clients -> SUBSET Events] /\ since' \in [Clients -> 0 .. MaxEvents]
  BY <1>1 DEF Leave, StreamMore
<1>3. \A d \in Clients : Len(inbox'[d]) <= QueueCap
  BY <1>1 DEF Leave, StreamMore
<1>4. QED
  BY <1>2, <1>3 DEF Leave, StreamMore, busVars

(* The next event leaves the inbox to be filed and sent. *)
LEMMA Take_More ==
    ASSUME StreamMore, StreamInv', NEW c \in Clients, inbox[c] # <<>>, Take(c),
           got' \in [Clients -> Seq(Events)]
    PROVE  StreamMore'
<1> USE DEF StreamMore
<1>1. /\ inbox[c] \in Seq(Events) /\ Len(inbox[c]) \in Nat /\ Len(inbox[c]) <= QueueCap
      /\ QueueCap \in Nat
  BY StreamNumbers, LenProperties
<1>2. /\ Head(inbox[c]) \in Events /\ Tail(inbox[c]) \in Seq(Events)
      /\ Len(Tail(inbox[c])) = Len(inbox[c]) - 1
  BY <1>1, HeadTailProperties
<1>3. <<Head(inbox[c])>> \in Seq(Events)
  BY <1>2
<1>4. inbox' \in [Clients -> Seq(Events)] /\ sending' \in [Clients -> Seq(Events)]
  BY <1>2, <1>3 DEF Take
<1>5. \A d \in Clients : Len(inbox'[d]) <= QueueCap
  BY <1>1, <1>2 DEF Take
<1>6. filed' \in [Clients -> Seq(Events)] /\ unwritten' \in [Clients -> SUBSET Events]
  <2> DEFINE h == Head(inbox[c])
  <2>1. filed[c] \in Seq(Events) /\ h \in Events /\ Append(filed[c], h) \in Seq(Events)
    BY <1>2, AppendProperties
  <2>2. Record(c, h)
    BY DEF Take
  <2> HIDE DEF h
  <2>3. \/ filed' = [filed EXCEPT ![c] = Append(filed[c], h)] /\ unwritten' = unwritten
        \/ filed' = filed /\ unwritten' = [unwritten EXCEPT ![c] = unwritten[c] \cup {h}]
        \/ filed' = filed /\ unwritten' = unwritten
    BY <2>2 DEF Record, Written, WriteFails
  <2>4. QED
    BY <2>1, <2>3
<1>7. UNCHANGED <<events, thirds, dropped, told, missed, since, recorders>>
  BY DEF Take, busVars
<1>8. QED
  BY <1>4, <1>5, <1>6, <1>7

LEMMA EventSent_More == ASSUME StreamMore, StreamInv', NEW c \in Clients, EventSent(c) PROVE StreamMore'
<1>1. CASE Leave(c)
  BY <1>1, Leave_More
<1>2. ASSUME Received(c) PROVE got' \in [Clients -> Seq(Events)]
  <2>1. got[c] \in Seq(Events) /\ sending[c] \in Seq(Events) /\ got \in [Clients -> Seq(Events)]
    BY DEF StreamMore
  <2>2. got[c] \o sending[c] \in Seq(Events)
    BY <2>1, ConcatProperties
  <2>3. got' = [got EXCEPT ![c] = got[c] \o sending[c]]
    BY <1>2 DEF Received
  <2>4. QED
    BY <2>1, <2>2, <2>3
<1>3. CASE inbox[c] # <<>> /\ Received(c) /\ Take(c)
  BY <1>2, <1>3, Take_More
<1>4. CASE /\ Received(c) /\ sending' = [sending EXCEPT ![c] = <<>>]
           /\ UNCHANGED <<busVars, broken, inbox, missed, since, recordingVars>>
  <2>1. <<>> \in Seq(Events)
    OBVIOUS
  <2>2. sending' \in [Clients -> Seq(Events)]
    BY <1>4, <2>1 DEF StreamMore
  <2>3. QED
    BY <1>2, <1>4, <2>2 DEF StreamMore, busVars, recordingVars
<1>5. QED
  BY <1>1, <1>3, <1>4 DEF EventSent

LEMMA StreamMoreStep == ASSUME StreamMore, [StreamNext]_streamVars, StreamInv' PROVE StreamMore'
<1> USE DEF StreamMore
<1>1. events \in Nat /\ MaxEvents \in Nat /\ MaxRecorders \in Nat /\ recorders \in Nat
  BY StreamNumbers DEF StreamInv, StreamTypes
<1>2. ASSUME OpenRecorder(CurrentRecorder) PROVE recorders' <= MaxRecorders
  BY <1>1, <1>2 DEF OpenRecorder
<1>3. CASE PublishEvent
  <2>1. events + 1 \in Events
    BY <1>1, <1>3 DEF PublishEvent, Events
  <2>2. QED
    BY <1>3, <2>1, Fanout_More DEF PublishEvent
<1>4. CASE PushLowerThird
  <2>1. events + 1 \in Events
    BY <1>4, StreamNumbers DEF PushLowerThird
  <2>2. QED
    BY <1>4, <2>1, Fanout_More, LoggedKept DEF PushLowerThird
<1>5. CASE AskForGap
  BY <1>5 DEF AskForGap, connVars, recordingVars
<1>6. ASSUME NEW c \in Clients, Connect(c) \/ Disconnect(c) PROVE StreamMore'
  BY <1>6 DEF Connect, Disconnect, busVars, recordingVars
<1>7. ASSUME NEW c \in Clients, ServeReplay(c) \/ NoRecorder(c) \/ SendFails(c) PROVE StreamMore'
  BY <1>7, Leave_More DEF ServeReplay, NoRecorder, SendFails
<1>8. ASSUME NEW c \in Clients, GoLive(c) PROVE StreamMore'
  <2>1. recorders' <= MaxRecorders
    BY <1>2, <1>8 DEF GoLive
  <2>2. since' \in [Clients -> 0 .. MaxEvents]
    BY <1>1, <1>8 DEF GoLive
  <2>3. UNCHANGED <<events, thirds, dropped, told, inbox, sending, got, missed, filed, unwritten>>
    BY <1>8 DEF GoLive, busVars
  <2>4. QED
    BY <2>1, <2>2, <2>3
<1>9. ASSUME NEW c \in Clients, TakeEvent(c) PROVE StreamMore'
  BY <1>9, Take_More DEF TakeEvent
<1>10. ASSUME NEW c \in Clients, EventSent(c) PROVE StreamMore'
  BY <1>10, EventSent_More
<1>11. CASE StartRecording \/ StopRecording
  BY <1>2, <1>11 DEF StartRecording, StopRecording, busVars, connVars
<1>12. CASE UNCHANGED streamVars
  BY <1>12 DEF streamVars, busVars, connVars, recordingVars
<1>13. QED
  BY <1>3, <1>4, <1>5, <1>6, <1>7, <1>8, <1>9, <1>10, <1>11, <1>12 DEF StreamNext

LEMMA StreamTypesAre == StreamMore => StreamTypeOK
<1> SUFFICES ASSUME StreamMore PROVE StreamTypeOK
  OBVIOUS
<1>1. \A c \in Clients : Len(sending[c]) = (IF at[c] = "send" THEN 1 ELSE 0)
  <2>1. ASSUME NEW c \in Clients PROVE Len(sending[c]) = (IF at[c] = "send" THEN 1 ELSE 0)
    <3>1. at[c] \in Places /\ Fresh(c)
      BY DEF StreamMore, StreamInv, StreamTypes, PerClient
    <3>2. Len(<<>>) = 0
      OBVIOUS
    <3>3. QED
      BY <3>1, <3>2 DEF Fresh, Places
  <2>2. QED
    BY <2>1
<1>2. events \in 0 .. MaxEvents /\ recorders \in 0 .. MaxRecorders
  BY StreamNumbers DEF StreamMore, StreamInv, StreamTypes
<1>3. QED
  BY <1>1, <1>2 DEF StreamMore, StreamInv, StreamTypes, StreamTypeOK, Places

-------------------------------------------------------------------------------
(* A step of the whole is a step of every component, if only one that      *)
(* changes nothing.                                                        *)
LEMMA PartsOfAStep ==
    ASSUME [BroadcastNext]_broadcastVars
    PROVE  /\ [Next]_vars /\ [DirNext]_dirVars /\ [StNext]_stVars
           /\ [TalkNext]_talkVars /\ [SuiteNext]_suiteVars /\ [StreamNext]_streamVars
  BY DEF BroadcastNext, broadcastVars, slotVars

(* Every variable of the broadcast stays within its type, and every queue, *)
(* ring, ledger and inbox within its bound, for any number of agents,      *)
(* clients, coordinators, moments and trades.                              *)
THEOREM BroadcastTypeOKHolds == BroadcastSpec => []BroadcastTypeOK
<1> DEFINE Own == DirTypes /\ StMore /\ TalkInv /\ SuiteMore /\ StreamMore
<1>1. BroadcastInit => Init /\ SuiteInit /\ StreamInit /\ Own
  BY DirTypesStart, StMoreStart, TalkInit_Inv, SuiteMoreStart, StreamMoreStart DEF BroadcastInit
<1>2. [BroadcastNext]_broadcastVars => [Next]_vars /\ [SuiteNext]_suiteVars /\ [StreamNext]_streamVars
  BY PartsOfAStep
<1>3. BroadcastSpec => Spec /\ SuiteSpec /\ StreamSpec
  BY <1>1, <1>2, PTL DEF BroadcastSpec, Spec, SuiteSpec, StreamSpec
<1>4. Own /\ SuiteInv' /\ StreamInv' /\ [BroadcastNext]_broadcastVars => Own'
  BY PartsOfAStep, DirTypesStep, StMoreStep, TalkNext_Inv, SuiteMoreStep, StreamMoreStep
<1>5. TypeOK /\ Own => BroadcastTypeOK
  BY DirTypesAre, StTypesAre, TalkTypes, SuiteTypesAre, StreamTypesAre DEF BroadcastTypeOK
<1>6. QED
  BY <1>1, <1>3, <1>4, <1>5, TypeOKHolds, SuiteInvHolds, StreamInvHolds, PTL DEF BroadcastSpec
===============================================================================
