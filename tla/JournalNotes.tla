----------------------------- MODULE JournalNotes -----------------------------
(***************************************************************************)
(* storage/journal.py as the tick uses it: a note before every order, and  *)
(* for the fill that realizes P&L an outcome stamped on the oldest entry   *)
(* note that has none.                                                     *)
(*                                                                         *)
(* Notes are scoped by agent, symbol and session, so one agent trading its *)
(* one symbol is the whole story.  It buys while flat and sells all it     *)
(* holds, one lot; the price is a choice.  The model runs over orders, so  *)
(* the tick around them is left out, with the texts and the reading side.  *)
(***************************************************************************)
EXTENDS VirtualBook, Sequences, SequencesExt

CONSTANTS
    NoteCapital,      \* settings.agent_starting_capital
    NotePrices,       \* marks
    Faults,       \* what may go wrong, see below
    MaxOrders,    \* bound on the orders of a behaviour
    MaxCrashes    \* bound on the restarts of a behaviour

(***************************************************************************)
(*   "note"    a note cannot be written; the error is swallowed            *)
(*   "refuse"  the order is refused, off-hours or by the broker            *)
(*   "db"      the transaction that records the fill fails                 *)
(*   "stamp"   an outcome cannot be written; the error is swallowed        *)
(*   "crash"   the process dies and is started again                       *)
(***************************************************************************)
ASSUME JournalNotesAssumption ==
    /\ NoteCapital \in Nat
    /\ NotePrices \subseteq Nat \ {0}
    /\ Faults \subseteq {"note", "refuse", "db", "stamp", "crash"}
    /\ MaxOrders \in Nat /\ MaxCrashes \in Nat

VARIABLES
    noteBook,     \* the agent's VirtualBook
    order,        \* the order being worked on
    orders,       \* how many orders there were
    opened,       \* history: the order that opened the last position
    realized,     \* what on_fill returned for the order
    notes,        \* the agent_notes table, oldest first
    crashes,      \* history: restarts so far
    intact        \* history: no write failed and no process died so far
notesVars == <<noteBook, order, orders, opened, realized, notes, crashes, intact>>

Steps == {"none", "noted", "filled"}
OrderIds == 1 .. MaxOrders
(* A note, with the number of its order; once stamped, with the outcome    *)
(* and the number of the order whose position was closed.                  *)
Note == [kind : {"entry", "exit"}, order : OrderIds, stamped : BOOLEAN,
         outcome : Int, closes : 0 .. MaxOrders]
(* Outcomes are for entries, and only of fills that realized something.    *)
Sound(n) == n.stamped <=> n.outcome # 0 /\ n.kind = "entry"

NotesTypeOK ==
    /\ noteBook \in Book
    /\ order \in [step : Steps, side : Sides, price : NotePrices \cup {0}]
    /\ orders \in 0 .. MaxOrders /\ opened \in 0 .. MaxOrders
    /\ realized \in Int
    /\ notes \in Seq(Note) /\ \A i \in DOMAIN notes : Sound(notes[i])
    /\ crashes \in 0 .. MaxCrashes /\ intact \in BOOLEAN

NoOrder == [step |-> "none", side |-> "buy", price |-> 0]

NotesInit ==
    /\ noteBook = NewBook(NoteCapital)
    /\ order = NoOrder /\ orders = 0
    /\ opened = 0 /\ realized = 0
    /\ notes = <<>>
    /\ crashes = 0 /\ intact = TRUE

(* write_note: one row, or none if the write fails. *)
NoteOf(side) ==
    [kind |-> IF side = "buy" THEN "entry" ELSE "exit", order |-> orders + 1,
     stamped |-> FALSE, outcome |-> 0, closes |-> 0]

(* The note of a signal is written before its order is submitted. *)
WriteNote(side, price) ==
    /\ order.step = "none" /\ orders < MaxOrders
    /\ side = "buy" <=> noteBook.qty = 0
    /\ orders' = orders + 1
    /\ order' = [step |-> "noted", side |-> side, price |-> price]
    /\ \/ notes' = Append(notes, NoteOf(side)) /\ intact' = intact
       \/ "note" \in Faults /\ notes' = notes /\ intact' = FALSE
    /\ UNCHANGED <<noteBook, opened, realized, crashes>>

(* No fill: the note stays. *)
Refused ==
    /\ order.step = "noted" /\ "refuse" \in Faults
    /\ order' = NoOrder
    /\ UNCHANGED <<noteBook, orders, opened, realized, notes, crashes, intact>>

(* on_fill books the fill and returns the P&L it realized. *)
CloseFill ==
    /\ order.step = "noted"
    /\ noteBook' = RecordFill(noteBook, order.side, 1, order.price)
    /\ realized' = noteBook'.realized - noteBook.realized
    /\ opened' = IF order.side = "buy" THEN orders ELSE opened
    /\ order' = [order EXCEPT !.step = "filled"]
    /\ UNCHANGED <<orders, notes, crashes, intact>>

(* The exception of a failed transaction skips the outcome. *)
RecordFillFails ==
    /\ order.step = "filled" /\ "db" \in Faults
    /\ order' = NoOrder /\ intact' = FALSE
    /\ UNCHANGED <<noteBook, orders, opened, realized, notes, crashes>>

(* The oldest entry note without an outcome. *)
Open == {i \in DOMAIN notes : notes[i].kind = "entry" /\ ~notes[i].stamped}
Oldest_Newest(i) == i \in Open /\ \A j \in Open : j <= i
Oldest(i) == i \in Open /\ \A j \in Open : i <= j
Stamp(i) == [notes EXCEPT ![i].stamped = TRUE, ![i].outcome = realized, ![i].closes = opened]

(* close_outcome, for a fill that realized something. *)
CloseOutcome ==
    /\ order.step = "filled"
    /\ IF realized # 0 /\ Open # {}
       THEN \E i \in DOMAIN notes : Oldest(i) /\ notes' = Stamp(i)
       ELSE notes' = notes
    /\ order' = NoOrder
    /\ UNCHANGED <<noteBook, orders, opened, realized, crashes, intact>>

CloseOutcomeFails ==
    /\ order.step = "filled" /\ "stamp" \in Faults
    /\ order' = NoOrder /\ intact' = FALSE
    /\ UNCHANGED <<noteBook, orders, opened, realized, notes, crashes>>

(* The notes survive the process; the books start afresh. *)
Restart ==
    /\ "crash" \in Faults /\ crashes < MaxCrashes
    /\ crashes' = crashes + 1
    /\ noteBook' = NewBook(NoteCapital)
    /\ order' = NoOrder /\ opened' = 0 /\ realized' = 0 /\ intact' = FALSE
    /\ UNCHANGED <<orders, notes>>

NotesNext ==
    \/ \E side \in Sides, price \in NotePrices : WriteNote(side, price)
    \/ Refused \/ CloseFill \/ RecordFillFails \/ CloseOutcome \/ CloseOutcomeFails \/ Restart

NotesSpec == NotesInit /\ [][NotesNext]_notesVars

-------------------------------------------------------------------------------
(* An outcome once written stays as it is and where it is, whatever is     *)
(* refused, fails or restarts: no later close takes the note again.        *)
OutcomesAreFinal ==
    [][\A i \in DOMAIN notes : notes[i].stamped => i \in DOMAIN notes' /\ notes'[i] = notes[i]]_notesVars

(* Oldest first: no entry note with an outcome comes after one without.    *)
OutcomesInOrder ==
    \A i, j \in DOMAIN notes :
        /\ notes[i].kind = "entry" /\ notes[j].kind = "entry"
        /\ i < j /\ notes[j].stamped
        => notes[i].stamped

(* However many orders are refused, as long as no write fails the outcomes *)
(* add up to the agent's realized P&L: no close is missing and none counts *)
(* twice.                                                                  *)
Outcomes == FoldLeft(LAMBDA sum, n : sum + n.outcome, 0, notes)
OutcomesAddUp == intact /\ order.step = "none" => Outcomes = noteBook.realized

(* Outcomes are stamped oldest first, stay where they are and add up to    *)
(* the realized P&L (the three above).                                     *)
OutcomesStay == [](OutcomesInOrder /\ OutcomesAddUp) /\ OutcomesAreFinal
===============================================================================
