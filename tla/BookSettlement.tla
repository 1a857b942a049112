---------------------------- MODULE BookSettlement ----------------------------
(***************************************************************************)
(* One virtual book used through the two calls the scheduler makes on it:  *)
(* record_fill when an order is booked at the optimistic mark, and         *)
(* apply_reconciled_fill when the broker later reports the price paid.     *)
(* The reports may come late, in any order, and more than once.            *)
(*                                                                         *)
(* The reference is the book that the same fills would have produced had   *)
(* each been booked at the best price known for it.                        *)
(*                                                                         *)
(* Abstractions: prices and quantities are small integers, broker order    *)
(* ids are the positions of the fills in the history "fills".              *)
(***************************************************************************)
EXTENDS VirtualBook, Sequences, SequencesExt

CONSTANTS
    Capital,      \* starting cash
    Quantities,   \* order sizes
    Prices,       \* marks and actual prices
    MaxHeld,      \* bound on the size of the position
    MaxFills,     \* bound on the number of fills
    IdCap,        \* _RECONCILED_IDS_LRU_CAP
    Orderly,      \* do reports arrive before the position is closed or reopened?
    Oversell      \* may a fill ask for more than the position holds?

ASSUME BookSettlementAssumption ==
    /\ Capital \in Nat
    /\ Quantities \subseteq Nat \ {0}
    /\ Prices \subseteq Nat \ {0}
    /\ {MaxHeld, MaxFills, IdCap} \subseteq Nat \ {0}
    /\ {Orderly, Oversell} \subseteq BOOLEAN

VARIABLES
    book,         \* the VirtualBook
    reconciled,   \* _reconciled_ids, oldest first
    fills         \* history: every fill booked, at the best price known
vars == <<book, reconciled, fills>>

Fill == [side : Sides, n : Quantities, price : Prices, mark : Prices,
         settled : BOOLEAN, excess : Nat]

TypeOK ==
    /\ book \in Book
    /\ fills \in Seq(Fill)
    /\ reconciled \in Seq(DOMAIN fills)
    /\ Len(reconciled) <= IdCap

Init ==
    /\ book = NewBook(Capital)
    /\ reconciled = <<>>
    /\ fills = <<>>

(* What the position lacks to execute a fill: the part record_fill clamps. *)
Excess(side, n) == n - ClampFlip(book.qty, side, n)

(* The order in which a tick every five minutes and a poll every ten       *)
(* seconds leave things: a fill is booked once all earlier ones have been  *)
(* reported, or it goes on in their direction without having passed flat.  *)
InOrder(side) ==
    \/ \A i \in DOMAIN fills : fills[i].settled
    \/ /\ book.qty # 0
       /\ \A i \in DOMAIN fills : fills[i].settled \/ fills[i].side = side

(* record_fill: the scheduler books a fill at the mark. *)
Record(side, n, mark) ==
    /\ Len(fills) < MaxFills
    /\ Abs(book.qty + Signed(side, ClampFlip(book.qty, side, n))) <= MaxHeld
    /\ Oversell \/ Excess(side, n) = 0
    /\ Orderly => InOrder(side)
    /\ book' = RecordFill(book, side, n, mark)
    /\ fills' = Append(fills, [side |-> side, n |-> n, price |-> mark, mark |-> mark,
                               settled |-> FALSE, excess |-> Excess(side, n)])
    /\ UNCHANGED reconciled

(* _add_reconciled_id: append, and drop the oldest id beyond the cap. *)
AddReconciledId(i) ==
    LET added == Append(reconciled, i)
    IN  IF Len(added) > IdCap THEN Tail(added) ELSE added

(* apply_reconciled_fill: the report of fill i at the actual price.  An id *)
(* already consumed makes the call a no-op.                                *)
Reconcile(i, actual) ==
    IF i \in ToSet(reconciled)
    THEN UNCHANGED vars
    ELSE /\ book' = ReconcileFill(book, fills[i].side, fills[i].n, fills[i].mark, actual)
         /\ fills' = [fills EXCEPT ![i].price = actual, ![i].settled = TRUE]
         /\ reconciled' = AddReconciledId(i)

(* The broker reports one price per order.  A report is repeated only      *)
(* while its id is remembered: the reconciler drops repetitions by itself, *)
(* having consumed the mark of the order, and the set here backs it up.    *)
Report(i, actual) ==
    /\ fills[i].settled => i \in ToSet(reconciled) /\ actual = fills[i].price
    /\ Reconcile(i, actual)

Next ==
    \/ \E side \in Sides, n \in Quantities, mark \in Prices : Record(side, n, mark)
    \/ \E i \in DOMAIN fills, actual \in Prices : Report(i, actual)

Spec == Init /\ [][Next]_vars

-------------------------------------------------------------------------------
(* The reference: the fills booked one after the other at their best price. *)
Reference ==
    FoldLeft(LAMBDA b, f : RecordFill(b, f.side, f.n, f.price), NewBook(Capital), fills)

(* The docstring of apply_reconciled_fill promises that a late price       *)
(* replaces the optimistic one in cash, realized P&L and average price:    *)
(* whatever was reported so far, and as long as no fill was cut down, the  *)
(* book is the one the fills would have made at the best prices known.     *)
SettledExact == (\A i \in DOMAIN fills : fills[i].excess = 0) => book = Reference

(* The dashboards add the three figures up: at every mark, equity is the   *)
(* starting capital plus realized plus unrealized P&L.  A correction that  *)
(* moves cash without its counterpart in the average price or in the       *)
(* realized P&L shows as money from nowhere.                               *)
PnlAddsUp ==
    \A m \in Prices : Equity(book, m) = Capital + book.realized + UnrealizedPnl(book, m)

(* "Flat-only invariant": no single step carries a position through zero   *)
(* to the other side, and a report never changes the quantity held.        *)
NeverThroughZero ==
    [][/\ book.qty > 0 => book'.qty >= 0
       /\ book.qty < 0 => book'.qty <= 0
       /\ Len(fills') = Len(fills) => book'.qty = book.qty]_vars

(* The "KNOWN BOUND" comment: after an over-sell was clamped, the report   *)
(* of it may leave cash and realized P&L off by at most the excess times   *)
(* the price difference, while quantity and average price stay right.      *)
ExcessError ==
    FoldLeft(LAMBDA e, f : e + f.excess * Abs(f.price - f.mark), 0, fills)
OversellErrorBounded ==
    /\ book.qty = Reference.qty
    /\ book.basis = Reference.basis
    /\ Abs(book.cash - Reference.cash) <= ExcessError
    /\ Abs(book.realized - Reference.realized) <= ExcessError

(* The books add up: to the fills at their best prices, at every mark to   *)
(* the capital and the gains, and within the known bound after an          *)
(* over-sell (SettledExact, PnlAddsUp, OversellErrorBounded).              *)
BooksAddUp == SettledExact /\ PnlAddsUp /\ OversellErrorBounded
===============================================================================
