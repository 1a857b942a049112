-------------------------- MODULE VirtualBookProofs ---------------------------
(***************************************************************************)
(* What record_fill and apply_reconciled_fill of execution/virtual_book.py *)
(* do to the quantity held and to the book's value at cost, for any book,  *)
(* size and price.                                                         *)
(***************************************************************************)
EXTENDS VirtualBook, TLAPS

LEMMA SignedType == ASSUME NEW side \in Sides, NEW n \in Nat
                    PROVE  /\ Signed(side, n) \in Int
                           /\ side = "buy" => Signed(side, n) = n
                           /\ side = "sell" => Signed(side, n) = -n
  BY DEF Signed, Sides

LEMMA ClampFlipBounds ==
    ASSUME NEW q \in Int, NEW side \in Sides, NEW n \in Nat
    PROVE  /\ ClampFlip(q, side, n) \in Nat /\ ClampFlip(q, side, n) <= n
           /\ q >= 0 /\ side = "buy" => ClampFlip(q, side, n) = n
           /\ q <= 0 /\ side = "sell" => ClampFlip(q, side, n) = n
           /\ q > 0 /\ side = "sell" => ClampFlip(q, side, n) <= q
           /\ q < 0 /\ side = "buy" => ClampFlip(q, side, n) <= -q
  BY SignedType DEF ClampFlip, SameSide, Abs, Sides

(* A fill never carries the position through zero. *)
LEMMA RecordFillQuantity ==
    ASSUME NEW b \in Book, NEW side \in Sides, NEW n \in Nat, NEW price \in Int
    PROVE  /\ RecordFill(b, side, n, price).qty \in Int
           /\ RecordFill(b, side, n, price).qty = b.qty + Signed(side, ClampFlip(b.qty, side, n))
           /\ b.qty > 0 => RecordFill(b, side, n, price).qty >= 0
           /\ b.qty < 0 => RecordFill(b, side, n, price).qty <= 0
<1> DEFINE c == ClampFlip(b.qty, side, n)
<1>1. c \in Nat /\ b.qty \in Int
  BY ClampFlipBounds DEF Book
<1>2. /\ Signed(side, c) \in Int
      /\ side = "buy" => Signed(side, c) = c
      /\ side = "sell" => Signed(side, c) = -c
  BY <1>1, SignedType
<1>3. RecordFill(b, side, n, price).qty = b.qty + Signed(side, c)
  BY DEF RecordFill
<1>4. /\ b.qty > 0 /\ side = "sell" => c <= b.qty
      /\ b.qty < 0 /\ side = "buy" => c <= -b.qty
  BY <1>1, ClampFlipBounds
<1>5. side = "buy" \/ side = "sell"
  BY DEF Sides
<1> DEFINE s == Signed(side, c)
           after == RecordFill(b, side, n, price).qty
<1> HIDE DEF c, s, after
<1>6. after = b.qty + s
  BY <1>3 DEF s, after
<1>7. /\ s \in Int
      /\ side = "buy" => s = c
      /\ side = "sell" => s = -c
  BY <1>2 DEF s
<1>8. after \in Int /\ (b.qty > 0 => after >= 0) /\ (b.qty < 0 => after <= 0)
  BY <1>1, <1>4, <1>5, <1>6, <1>7
<1>9. QED
  BY <1>3, <1>8 DEF after, c

(* A book opens a short only by selling what it does not hold at all. *)
LEMMA RecordFillStaysLong ==
    ASSUME NEW b \in Book, NEW side \in Sides, NEW n \in Nat, NEW price \in Int,
           b.qty >= 0, side = "sell" => b.qty > 0
    PROVE  RecordFill(b, side, n, price).qty >= 0
<1> DEFINE c == ClampFlip(b.qty, side, n)
           after == RecordFill(b, side, n, price).qty
<1>1. b.qty \in Int
  BY DEF Book
<1>2. CASE side = "sell"
  BY <1>2, RecordFillQuantity
<1>3. CASE side = "buy"
  <2>1. c \in Nat
    BY <1>1, ClampFlipBounds
  <2>2. Signed(side, c) = c
    BY <1>3 DEF Signed
  <2>3. after = b.qty + Signed(side, c)
    BY RecordFillQuantity
  <2> HIDE DEF c, after
  <2>4. after >= 0
    BY <1>1, <2>1, <2>2, <2>3
  <2>5. QED
    BY <2>4 DEF after
<1>4. QED
  BY <1>2, <1>3 DEF Sides

LEMMA BasisAfterType ==
    ASSUME NEW b \in Book, NEW s \in Int, NEW price \in Int
    PROVE  BasisAfter(b, s, price) \in Int
<1>1. b.qty \in Int /\ b.basis \in Int /\ price * s \in Int
  BY DEF Book
<1>2. CASE b.qty = 0 \/ SameSide(b.qty, s)
  BY <1>1, <1>2 DEF BasisAfter
<1>3. CASE ~(b.qty = 0 \/ SameSide(b.qty, s))
  <2>1. Abs(b.qty) \in Int /\ Abs(b.qty) > 0 /\ Abs(b.qty + s) \in Int
    BY <1>1, <1>3 DEF Abs
  <2>2. b.basis * Abs(b.qty + s) \in Int
    BY <1>1, <2>1
  <2>3. (b.basis * Abs(b.qty + s)) \div Abs(b.qty) \in Int
    BY <2>1, <2>2
  <2>4. QED
    BY <1>3, <2>3 DEF BasisAfter, BasisLeft
<1>4. QED
  BY <1>2, <1>3

(* A fill moves value between cash, basis and realized P&L. *)
LEMMA RecordFillAtCost ==
    ASSUME NEW b \in Book, NEW side \in Sides, NEW n \in Nat, NEW price \in Int
    PROVE  /\ RecordFill(b, side, n, price) \in Book
           /\ AtCost(RecordFill(b, side, n, price)) = AtCost(b)
<1> DEFINE s == Signed(side, ClampFlip(b.qty, side, n))
           left == BasisAfter(b, s, price)
           moved == price * s
<1>1. s \in Int
  BY ClampFlipBounds, SignedType DEF Book
<1>2. left \in Int /\ moved \in Int
  BY <1>1, BasisAfterType
<1>3. RecordFill(b, side, n, price) =
         [cash |-> b.cash - moved, realized |-> b.realized - moved + left - b.basis,
          known |-> TRUE, qty |-> b.qty + s, basis |-> left]
  BY DEF RecordFill
<1>4. b.cash \in Int /\ b.realized \in Int /\ b.basis \in Int /\ b.qty \in Int
  BY DEF Book
<1> HIDE DEF s, left, moved
<1>5. QED
  BY <1>1, <1>2, <1>3, <1>4 DEF Book, AtCost

LEMMA BookUpdates ==
    ASSUME NEW b \in Book, NEW x \in Int, NEW y \in Int
    PROVE  /\ [b EXCEPT !.cash = x, !.basis = y] \in Book
           /\ [b EXCEPT !.cash = x, !.realized = y] \in Book
           /\ AtCost([b EXCEPT !.cash = x, !.basis = y]) = x + y - b.realized
           /\ AtCost([b EXCEPT !.cash = x, !.realized = y]) = x + b.basis - y
  BY DEF Book, AtCost

(* A report never changes the quantity held. *)
LEMMA ReconcileFillQuantity ==
    ASSUME NEW b \in Book, NEW side \in Sides, NEW n \in Nat, NEW mark \in Int, NEW actual \in Int
    PROVE  ReconcileFill(b, side, n, mark, actual).qty = b.qty
  BY DEF ReconcileFill, CorrectOpening, CorrectClosing, Book

(* It makes no money either, if the fill opened the position only when all *)
(* of the basis is still the fill's own.                                   *)
LEMMA ReconcileFillAtCost ==
    ASSUME NEW b \in Book, NEW side \in Sides, NEW n \in Nat \ {0}, NEW mark \in Int,
           NEW actual \in Int, b.known,
           b.qty = Signed(side, n) => b.basis = mark * Signed(side, n)
    PROVE  /\ ReconcileFill(b, side, n, mark, actual) \in Book
           /\ AtCost(ReconcileFill(b, side, n, mark, actual)) = AtCost(b)
<1> DEFINE s == Signed(side, n)
           delta == actual - mark
           closed == Signed(side, ClampFlip(b.qty - s, side, n))
<1>1. s \in Int /\ delta \in Int /\ b.qty \in Int /\ delta * s \in Int
  BY SignedType DEF Book
<1>2. closed \in Int
  <2> DEFINE prev == b.qty - s
             executed == ClampFlip(prev, side, n)
  <2>1. prev \in Int /\ n \in Nat
    BY <1>1
  <2> HIDE DEF s, prev
  <2>2. executed \in Nat
    BY <2>1, ClampFlipBounds
  <2> HIDE DEF executed
  <2>3. Signed(side, executed) \in Int
    BY <2>2, SignedType
  <2>4. QED
    BY <2>3 DEF s, prev, executed
<1>3. b.cash \in Int /\ b.realized \in Int /\ b.basis \in Int /\ b.known \in BOOLEAN
  BY DEF Book
<1>4. CASE delta = 0
  BY <1>4 DEF ReconcileFill
<1>5. CASE delta # 0 /\ IsClose(b.qty - s, s)
  <2>1. ReconcileFill(b, side, n, mark, actual) = CorrectClosing(b, closed, delta)
    BY <1>5 DEF ReconcileFill
  <2> DEFINE moved == delta * closed
             cash == b.cash - moved
             realized == b.realized - moved
  <2>2. moved \in Int
    BY <1>1, <1>2
  <2>3. CorrectClosing(b, closed, delta) = [b EXCEPT !.cash = cash, !.realized = realized]
    BY DEF CorrectClosing
  <2> HIDE DEF moved
  <2>4. cash \in Int /\ realized \in Int /\ cash + b.basis - realized = AtCost(b)
    BY <1>3, <2>2 DEF AtCost
  <2> HIDE DEF cash, realized
  <2>5. /\ [b EXCEPT !.cash = cash, !.realized = realized] \in Book
        /\ AtCost([b EXCEPT !.cash = cash, !.realized = realized]) = cash + b.basis - realized
    BY <2>4, BookUpdates
  <2>6. ReconcileFill(b, side, n, mark, actual) = [b EXCEPT !.cash = cash, !.realized = realized]
    BY <2>1, <2>3
  <2>7. QED
    BY <2>4, <2>5, <2>6
<1>6. CASE delta # 0 /\ ~IsClose(b.qty - s, s)
  <2>1. ReconcileFill(b, side, n, mark, actual) = CorrectOpening(b, s, mark, actual)
    BY <1>6 DEF ReconcileFill
  <2>2. CorrectedBasis(b, s, mark, actual) = b.basis + delta * s
    <3>1. CASE b.qty - s = 0
      <4>1. b.qty = s
        BY <1>1, <3>1
      <4>2. b.basis = mark * s
        BY <4>1
      <4>3. actual * s = mark * s + (actual - mark) * s
        BY <1>1
      <4>4. QED
        BY <3>1, <4>2, <4>3 DEF CorrectedBasis
    <3>2. CASE b.qty - s # 0
      BY <3>2 DEF CorrectedBasis
    <3>3. QED
      BY <3>1, <3>2
  <2> DEFINE moved == delta * s
             cash == b.cash - moved
             basis == b.basis + moved
  <2>3. moved \in Int
    BY <1>1
  <2>4. CorrectOpening(b, s, mark, actual) = [b EXCEPT !.cash = cash, !.basis = basis]
    BY <2>2 DEF CorrectOpening
  <2> HIDE DEF moved
  <2>5. cash \in Int /\ basis \in Int /\ cash + basis - b.realized = AtCost(b)
    BY <1>3, <2>3 DEF AtCost
  <2> HIDE DEF cash, basis
  <2>6. /\ [b EXCEPT !.cash = cash, !.basis = basis] \in Book
        /\ AtCost([b EXCEPT !.cash = cash, !.basis = basis]) = cash + basis - b.realized
    BY <2>5, BookUpdates
  <2>7. ReconcileFill(b, side, n, mark, actual) = [b EXCEPT !.cash = cash, !.basis = basis]
    BY <2>1, <2>4
  <2>8. QED
    BY <2>5, <2>6, <2>7
<1>7. QED
  BY <1>4, <1>5, <1>6

LEMMA ReconcileFillType ==
    ASSUME NEW b \in Book, NEW side \in Sides, NEW n \in Nat, NEW mark \in Int, NEW actual \in Int
    PROVE  ReconcileFill(b, side, n, mark, actual) \in Book
<1> DEFINE s == Signed(side, n)
           delta == actual - mark
           prev == b.qty - s
           closed == Signed(side, ClampFlip(prev, side, n))
<1>1. s \in Int /\ delta \in Int /\ prev \in Int
  BY SignedType DEF Book
<1>2. closed \in Int
  <2>1. prev \in Int /\ n \in Nat
    BY <1>1
  <2> HIDE DEF s, prev
  <2>2. ClampFlip(prev, side, n) \in Nat
    BY <2>1, ClampFlipBounds
  <2>3. QED
    BY <2>2, SignedType
<1>3. b.cash \in Int /\ b.realized \in Int /\ b.basis \in Int
  BY DEF Book
<1>4. /\ b.cash - delta * s \in Int /\ b.cash - delta * closed \in Int
      /\ b.realized - delta * closed \in Int
  BY <1>1, <1>2, <1>3
<1>5. CorrectedBasis(b, s, mark, actual) \in Int
  BY <1>1, <1>3 DEF CorrectedBasis
<1>6. /\ [b EXCEPT !.cash = @ - delta * s] \in Book
      /\ CorrectClosing(b, closed, delta) \in Book
      /\ CorrectOpening(b, s, mark, actual) \in Book
  BY <1>4, <1>5, BookUpdates DEF Book, CorrectClosing, CorrectOpening
<1>7. QED
  BY <1>6 DEF ReconcileFill
===============================================================================
