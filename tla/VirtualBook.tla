----------------------------- MODULE VirtualBook -----------------------------
(***************************************************************************)
(* The per-agent virtual book of execution/virtual_book.py, as operators   *)
(* on a record.                                                            *)
(*                                                                         *)
(* A book holds cash, the realized P&L and one position.  Every strategy   *)
(* under agents/ trades a single symbol, so one position per book is what  *)
(* an agent has.  The position is kept as its signed quantity and its cost *)
(* basis,  basis = qty * avg_price,  which stays an integer where the      *)
(* average price would be a fraction.  "known" says whether the symbol is  *)
(* in the book's positions dict: it enters it at the first fill and never  *)
(* leaves, also not when the quantity returns to zero.                     *)
(*                                                                         *)
(* Money is Decimal in the code, hence exact; here it is an integer number *)
(* of price units.  The one division is the share of the basis that a      *)
(* partial close gives up; instances choose prices for which it is exact.  *)
(***************************************************************************)
EXTENDS Integers

Sides == {"buy", "sell"}

Book == [cash : Int, realized : Int, known : BOOLEAN, qty : Int, basis : Int]

Abs(x) == IF x < 0 THEN -x ELSE x

(* A quantity with the sign it gives the position. *)
Signed(side, n) == IF side = "buy" THEN n ELSE -n

(* Do a position of quantity q and a fill of signed quantity s point the   *)
(* same way?  Zero counts as pointing down, as in the code's comparison.   *)
SameSide(q, s) == (q > 0) = (s > 0)

(* A fresh book, as build_default makes it for each agent. *)
NewBook(capital) ==
    [cash |-> capital, realized |-> 0, known |-> FALSE, qty |-> 0, basis |-> 0]

(* The quantity executed: a fill against the position is cut down to it,   *)
(* so that one fill never carries the position through zero.               *)
ClampFlip_NoClamp(q, side, n) == n
ClampFlip(q, side, n) ==
    IF q = 0 \/ SameSide(q, Signed(side, n)) \/ n <= Abs(q) THEN n ELSE Abs(q)

(* The basis left in a position of quantity q once s (of the other sign)   *)
(* has been closed: the average price of what remains is unchanged.        *)
BasisLeft(b, s) == (b.basis * Abs(b.qty + s)) \div Abs(b.qty)

(* The basis after an executed fill of signed quantity s at a price. *)
BasisAfter(b, s, price) ==
    IF b.qty = 0 \/ SameSide(b.qty, s) THEN b.basis + price * s ELSE BasisLeft(b, s)

(* record_fill: clamp, move cash by the executed notional, apply the fill  *)
(* and add the P&L it realizes.  An opening fill realizes nothing; a close *)
(* realizes the notional against the basis it gives up.                    *)
RecordFill(b, side, n, price) ==
    LET s == Signed(side, ClampFlip(b.qty, side, n))
        left == BasisAfter(b, s, price)
    IN  [cash     |-> b.cash - price * s,
         realized |-> b.realized - price * s + left - b.basis,
         known    |-> TRUE,
         qty      |-> b.qty + s,
         basis    |-> left]

(***************************************************************************)
(* apply_reconciled_fill: replace the optimistic price of a fill that was  *)
(* already booked by the price the broker reports.  The quantity held      *)
(* before the fill is recovered as  prev = qty - s;  the sign of prev says *)
(* whether the fill opened, added or closed.                               *)
(***************************************************************************)
IsClose(prev, s) == prev # 0 /\ ~SameSide(prev, s)

(* The basis when the fill opened (nothing was held before it) or added. *)
CorrectedBasis_NotReopened(b, s, mark, actual) == b.basis - (actual - mark) * s
CorrectedBasis(b, s, mark, actual) ==
    IF b.qty - s = 0 THEN actual * s ELSE b.basis + (actual - mark) * s

CorrectOpening(b, s, mark, actual) ==
    [b EXCEPT !.cash  = @ - (actual - mark) * s,
              !.basis = CorrectedBasis(b, s, mark, actual)]

(* The realized P&L of a close moves with its price: the proceeds of a     *)
(* sale that closed a long, the cost of a purchase that closed a short.    *)
CorrectClosing(b, s, delta) ==
    [b EXCEPT !.cash = @ - delta * s, !.realized = @ - delta * s]

ReconcileFill(b, side, n, mark, actual) ==
    LET s     == Signed(side, n)
        prev  == b.qty - s
        delta == actual - mark
    IN  IF delta = 0 THEN b
        ELSE IF ~b.known THEN [b EXCEPT !.cash = @ - delta * s]
        ELSE IF IsClose(prev, s) THEN CorrectClosing(b, Signed(side, ClampFlip(prev, side, n)), delta)
        ELSE CorrectOpening(b, s, mark, actual)

(* What the book is worth at cost.  Fills move value between cash, basis   *)
(* and realized P&L; they neither create nor destroy it.                   *)
AtCost(b) == b.cash + b.basis - b.realized

(* Mark-to-market equity and unrealized P&L at a mark. *)
Equity(b, mark) == b.cash + b.qty * mark
UnrealizedPnl(b, mark) == b.qty * mark - b.basis
==============================================================================
