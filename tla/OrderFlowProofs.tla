--------------------------- MODULE OrderFlowProofs ----------------------------
(***************************************************************************)
(* Proofs about OrderFlow, for any number of agents and orders, any sizes  *)
(* and prices, either mode and every combination of faults.                *)
(*                                                                         *)
(* record_fill opens a short when it books a sale of an agent that holds   *)
(* nothing.  So LongOnly rests on what travels from the decision to the    *)
(* booking: a sale that is signalled, or sent and not yet booked, is one   *)
(* of an agent that holds something.  The reconcile loop runs in between,  *)
(* and cannot break this because a correction leaves quantities alone.     *)
(***************************************************************************)
EXTENDS OrderFlow, VirtualBookProofs, FoldProofs

(* A signalled sale is of something held. *)
SignalledSalesAreHeld ==
    \A a \in Agents : signals[a].side = "sell" => books[a].qty > 0

(* So is a sale on its way, and its agent has no further signal. *)
SentSaleIsHeld ==
    tick.step = "submitting" =>
        /\ signals[orders[sent].agent] = NoSignal
        /\ orders[sent].side = "sell" => books[orders[sent].agent].qty > 0

(* While an order is on its way or being recorded, it is the turn of an    *)
(* agent; while a report is being applied, there is one.                   *)
TasksAreBusyWithSomething ==
    /\ tick.step \in {"submitting", "booking"} => tick.at \in Agents /\ sent \in OrderIds
    /\ applying.step \in {"trade", "sync"} => applying.order \in OrderIds

IInv == /\ TypeOK
        /\ LongOnly
        /\ SignalledSalesAreHeld
        /\ SentSaleIsHeld
        /\ TasksAreBusyWithSomething

-------------------------------------------------------------------------------
(* The newest of some orders is one of them, and none is newer. *)
LEMMA MaxOfOrders ==
    ASSUME NEW N \in Nat, NEW T \in SUBSET (1 .. N), T # {}
    PROVE  Max(T) \in T /\ \A y \in T : y <= Max(T)
<1> DEFINE D == {N - x : x \in T}
<1>1. D \in SUBSET Nat /\ D # {}
  <2>1. \A x \in T : N - x \in Nat
    OBVIOUS
  <2>2. PICK x \in T : TRUE
    OBVIOUS
  <2>3. N - x \in D
    OBVIOUS
  <2>4. QED
    BY <2>1, <2>3
<1>2. PICK d \in D : \A e \in D : d <= e
  <2> HIDE DEF D
  <2>1. QED
    BY <1>1, LeastNumber
<1>3. PICK x \in T : d = N - x
  OBVIOUS
<1>4. \A y \in T : x >= y
  <2> TAKE y \in T
  <2>1. N - y \in D /\ x \in Int /\ y \in Int
    OBVIOUS
  <2>2. N - x <= N - y
    BY <1>2, <1>3, <2>1
  <2>3. QED
    BY <2>1, <2>2
<1>5. \E m \in T : \A y \in T : m >= y
  BY <1>4
<1>6. Max(T) \in T /\ \A y \in T : Max(T) >= y
  BY <1>5 DEF Max
<1>7. QED
  BY <1>6

LEMMA ConstantTypes ==
    /\ NumAgents \in Nat /\ NumAgents > 0 /\ MaxOrders \in Nat /\ MaxCrashes \in Nat
    /\ Capital \in Nat
    /\ \A p \in Prices \cup {NoMark} : p \in Nat
    /\ \A n \in Quantities : n \in Nat
    /\ Agents \subseteq Nat /\ 0 \in Agents /\ OrderIds \subseteq Nat
    /\ NoSignal \in Signal /\ Unsent \in Order
    /\ NewBook(Capital) \in Book
  BY OrderFlowAssumption
  DEF Agents, OrderIds, NoSignal, Signal, NoMark, Unsent, Order, Statuses, Sides, NewBook, Book

LEMMA InitIInv == Init => IInv
<1> SUFFICES ASSUME Init PROVE IInv
  OBVIOUS
<1>1. TypeOK
  <2>1. /\ books \in [Agents -> Book] /\ signals \in [Agents -> Signal]
        /\ orders \in [OrderIds -> Order] /\ positions \in [Agents -> Position]
        /\ trades \in [OrderIds -> TradeRows]
    BY ConstantTypes DEF Init, NoPosition, Position, TradeRows
  <2>2. /\ tick \in [step : TickSteps, at : 0 .. NumAgents]
        /\ applying \in [step : ApplySteps, order : 0 .. MaxOrders]
    BY ConstantTypes DEF Init, Idle, TickSteps, Ready, ApplySteps
  <2>3. QED
    BY <2>1, <2>2, ConstantTypes DEF Init, TypeOK
<1>2. LongOnly
  BY ConstantTypes DEF Init, LongOnly, NewBook
<1>3. SignalledSalesAreHeld /\ SentSaleIsHeld /\ TasksAreBusyWithSomething
  BY DEF Init, SignalledSalesAreHeld, SentSaleIsHeld, TasksAreBusyWithSomething, NoSignal, Idle,
         Ready
<1>4. QED
  BY <1>1, <1>2, <1>3 DEF IInv

-------------------------------------------------------------------------------
(* The tick. *)

LEMMA StartTickIInv == IInv /\ StartTick => IInv'
<1> SUFFICES ASSUME IInv, StartTick PROVE IInv'
  OBVIOUS
<1>1. PICK mark \in [Agents -> Prices \cup {NoMark}], stale \in SUBSET pendingExits,
           exits \in SUBSET Agents :
        /\ \A a \in exits : MayExit(a, pendingExits \ stale)
        /\ pendingExits' = (pendingExits \ stale) \cup exits
        /\ signals' \in SignalsFrom([a \in Agents |->
                 IF a \in exits THEN {SellAll(a, mark[a])} ELSE Decisions(a, mark[a])])
  BY DEF StartTick
<1>2. \A a \in Agents : /\ books[a] \in Book /\ books[a].qty \in Nat
                        /\ mark[a] \in Prices \cup {NoMark}
  BY DEF IInv, TypeOK, LongOnly, Book
<1>3. \A a \in Agents : /\ Decisions(a, mark[a]) \subseteq Signal
                        /\ \A s \in Decisions(a, mark[a]) : s.side = "sell" => books[a].qty > 0
  BY <1>2, ConstantTypes DEF Decisions, Buy, SellAll, Signal, Sides, NoSignal
<1>4. \A a \in exits : SellAll(a, mark[a]) \in Signal /\ books[a].qty > 0
  BY <1>1, <1>2 DEF SellAll, Signal, Sides, MayExit
<1>5. \A a \in Agents : signals'[a] \in Signal /\ (signals'[a].side = "sell" => books[a].qty > 0)
  BY <1>1, <1>3, <1>4 DEF SignalsFrom
<1>6. signals' \in [Agents -> Signal]
  BY <1>1, <1>5 DEF SignalsFrom
<1>7. /\ tick' = [step |-> "orders", at |-> 0]
      /\ UNCHANGED <<books, brokerVars, marks, reconciled, pollVars, dbVars, booked, crashes, mode>>
  BY DEF StartTick
<1>8. TypeOK'
  BY <1>1, <1>6, <1>7, ConstantTypes
  DEF IInv, TypeOK, TickSteps, brokerVars, pollVars, dbVars
<1>9. LongOnly' /\ SignalledSalesAreHeld' /\ SentSaleIsHeld' /\ TasksAreBusyWithSomething'
  BY <1>5, <1>7 DEF IInv, LongOnly, SignalledSalesAreHeld, SentSaleIsHeld,
                   TasksAreBusyWithSomething, brokerVars, pollVars
<1>10. QED
  BY <1>8, <1>9 DEF IInv

(* Taking the signal of the agent whose turn it is. *)
LEMMA SignalConsumedTypes ==
    ASSUME IInv, tick.step = "orders", tick.at < NumAgents, SignalConsumed
    PROVE  /\ tick.at \in Agents /\ tick.at + 1 \in 0 .. NumAgents
           /\ signals' \in [Agents -> Signal]
           /\ signals'[tick.at] = NoSignal
           /\ \A a \in Agents : a # tick.at => signals'[a] = signals[a]
<1>1. tick.at \in 0 .. NumAgents
  BY DEF IInv, TypeOK
<1>2. tick.at \in Agents /\ tick.at + 1 \in 0 .. NumAgents
  BY <1>1, ConstantTypes DEF Agents
<1>3. signals \in [Agents -> Signal] /\ signals' = [signals EXCEPT ![tick.at] = NoSignal]
  BY DEF IInv, TypeOK, SignalConsumed
<1>4. QED
  BY <1>2, <1>3, ConstantTypes

LEMMA SkipIInv == IInv /\ (SkipSignal \/ SkipOffHours) => IInv'
<1> SUFFICES ASSUME IInv, SkipSignal \/ SkipOffHours PROVE IInv'
  OBVIOUS
<1>1. /\ tick.step = "orders" /\ tick.at < NumAgents /\ SignalConsumed
      /\ tick' = [step |-> "orders", at |-> tick.at + 1]
      /\ UNCHANGED <<books, pendingExits, brokerVars, marks, reconciled, pollVars, dbVars, booked,
                     crashes, mode>>
  BY DEF SkipSignal, SkipOffHours, NextAgent
<1>2. /\ signals' \in [Agents -> Signal] /\ tick.at + 1 \in 0 .. NumAgents
      /\ \A a \in Agents : signals'[a] = signals[a] \/ signals'[a].side = "none"
  BY <1>1, SignalConsumedTypes DEF NoSignal
<1>3. TypeOK'
  BY <1>1, <1>2 DEF IInv, TypeOK, TickSteps, brokerVars, pollVars, dbVars
<1>4. LongOnly' /\ SignalledSalesAreHeld' /\ SentSaleIsHeld' /\ TasksAreBusyWithSomething'
  BY <1>1, <1>2 DEF IInv, LongOnly, SignalledSalesAreHeld, SentSaleIsHeld,
                    TasksAreBusyWithSomething, brokerVars, pollVars
<1>5. QED
  BY <1>3, <1>4 DEF IInv

LEMMA SubmitIInv == IInv /\ Submit => IInv'
<1> SUFFICES ASSUME IInv, Submit PROVE IInv'
  OBVIOUS
<1> DEFINE o == sent + 1
           s == signals[tick.at]
           new == [agent |-> tick.at, side |-> s.side, n |-> s.n, mark |-> s.mark,
                   status |-> IF mode = "simulated" THEN "filled" ELSE "sent",
                   price |-> IF mode = "simulated" THEN s.mark ELSE 0]
<1>1. /\ tick.step = "orders" /\ tick.at < NumAgents /\ SignalConsumed
      /\ s.side # "none" /\ sent < MaxOrders
      /\ sent' = o /\ orders' = [orders EXCEPT ![o] = new]
      /\ tick' = [tick EXCEPT !.step = "submitting"]
      /\ marks' = IF mode = "simulated" THEN marks ELSE marks \cup {o}
      /\ UNCHANGED <<books, pendingExits, reconciled, pollVars, dbVars, booked, crashes, mode>>
  BY DEF Submit, Signalled
<1>2. /\ tick.at \in Agents
      /\ signals' \in [Agents -> Signal] /\ signals'[tick.at] = NoSignal
      /\ \A a \in Agents : signals'[a] = signals[a] \/ signals'[a].side = "none"
  BY <1>1, SignalConsumedTypes DEF NoSignal
<1>3. o \in OrderIds /\ o \in 0 .. MaxOrders
  BY <1>1, ConstantTypes DEF IInv, TypeOK, OrderIds
<1>4. s \in Signal /\ (s.side = "sell" => books[tick.at].qty > 0)
  BY <1>2 DEF IInv, TypeOK, SignalledSalesAreHeld
<1>5. s.side \in Sides /\ s.n \in Nat /\ s.mark \in Prices \cup {NoMark}
  BY <1>1, <1>4 DEF Signal
<1>6. new \in Order /\ new.agent = tick.at /\ new.side = s.side
  BY <1>2, <1>5 DEF Order, Statuses, NoMark
<1> HIDE DEF o, s, new
<1>7. orders' \in [OrderIds -> Order] /\ orders'[sent'] = new
  BY <1>1, <1>3, <1>6 DEF IInv, TypeOK
<1>8. tick' \in [step : TickSteps, at : 0 .. NumAgents] /\ tick'.at = tick.at
      /\ tick'.step = "submitting"
  BY <1>1 DEF IInv, TypeOK, TickSteps
<1>9. TypeOK'
  BY <1>1, <1>2, <1>3, <1>7, <1>8 DEF IInv, TypeOK, pollVars, dbVars
<1>10. LongOnly' /\ SignalledSalesAreHeld'
  BY <1>1, <1>2 DEF IInv, LongOnly, SignalledSalesAreHeld
<1>11. SentSaleIsHeld'
  BY <1>1, <1>2, <1>4, <1>6, <1>7 DEF SentSaleIsHeld
<1>12. TasksAreBusyWithSomething'
  BY <1>1, <1>2, <1>3, <1>8 DEF IInv, TasksAreBusyWithSomething, pollVars
<1>13. QED
  BY <1>9, <1>10, <1>11, <1>12 DEF IInv

(* The booking: the one step that could open a short. *)
LEMMA SubmitReturnsIInv == IInv /\ SubmitReturns => IInv'
<1> SUFFICES ASSUME IInv, SubmitReturns PROVE IInv'
  OBVIOUS
<1> DEFINE o == orders[sent]
           b == books[o.agent]
           after == RecordFill(b, o.side, o.n, o.mark)
<1>1. /\ tick.step = "submitting"
      /\ books' = [books EXCEPT ![o.agent] = after]
      /\ pendingExits' \subseteq pendingExits
      /\ booked' = booked \cup {sent}
      /\ tick' = [tick EXCEPT !.step = "booking"]
      /\ UNCHANGED <<signals, brokerVars, marks, reconciled, pollVars, dbVars, crashes, mode>>
  BY DEF SubmitReturns
<1>2. sent \in OrderIds /\ tick.at \in Agents
  BY <1>1 DEF IInv, TasksAreBusyWithSomething
<1>3. o \in Order
  BY <1>2 DEF IInv, TypeOK
<1>4. o.agent \in Agents /\ o.side \in Sides /\ o.n \in Nat /\ o.mark \in Int
  BY <1>3, ConstantTypes DEF Order
<1>5. b \in Book /\ b.qty \in Nat /\ (o.side = "sell" => b.qty > 0) /\ signals[o.agent] = NoSignal
  BY <1>1, <1>4 DEF IInv, TypeOK, LongOnly, SentSaleIsHeld, Book
<1>6. after \in Book /\ after.qty \in Int /\ after.qty >= 0
  <2> DEFINE side == o.side
             n == o.n
             mark == o.mark
  <2>1. /\ side \in Sides /\ n \in Nat /\ mark \in Int
        /\ b \in Book /\ b.qty >= 0 /\ (side = "sell" => b.qty > 0)
    BY <1>4, <1>5
  <2> HIDE DEF b, side, n, mark
  <2>2. RecordFill(b, side, n, mark) \in Book
    BY <2>1, RecordFillAtCost
  <2>3. RecordFill(b, side, n, mark).qty >= 0
    BY <2>1, RecordFillStaysLong
  <2>4. QED
    BY <2>2, <2>3 DEF Book, side, n, mark
<1> HIDE DEF after
<1>7. /\ books' \in [Agents -> Book] /\ books'[o.agent] = after
      /\ \A a \in Agents : a # o.agent => books'[a] = books[a]
  BY <1>1, <1>4, <1>6 DEF IInv, TypeOK
<1>8. tick' \in [step : TickSteps, at : 0 .. NumAgents] /\ tick'.at = tick.at
      /\ tick'.step = "booking"
  BY <1>1 DEF IInv, TypeOK, TickSteps
<1>9. TypeOK'
  BY <1>1, <1>2, <1>7, <1>8 DEF IInv, TypeOK, brokerVars, pollVars, dbVars
<1>10. LongOnly'
  BY <1>6, <1>7 DEF IInv, LongOnly
<1>11. SignalledSalesAreHeld'
  BY <1>1, <1>5, <1>7 DEF IInv, SignalledSalesAreHeld, NoSignal
<1>12. SentSaleIsHeld' /\ TasksAreBusyWithSomething'
  BY <1>1, <1>2, <1>8 DEF IInv, SentSaleIsHeld, TasksAreBusyWithSomething, brokerVars, pollVars
<1>13. QED
  BY <1>9, <1>10, <1>11, <1>12 DEF IInv

(* The end of a tick, whether by an exception or not, drops every signal. *)
LEMMA TickEndsIInv ==
    IInv /\ (SubmitRaises \/ RecordFillFails \/ EndTick) => IInv'
<1> SUFFICES ASSUME IInv, SubmitRaises \/ RecordFillFails \/ EndTick PROVE IInv'
  OBVIOUS
<1>1. /\ tick' = Idle
      /\ signals' = [a \in Agents |-> NoSignal]
      /\ UNCHANGED <<books, pendingExits, brokerVars, marks, reconciled, pollVars, dbVars, booked,
                     crashes, mode>>
  BY DEF SubmitRaises, RecordFillFails, EndTick
<1>2. /\ tick' \in [step : TickSteps, at : 0 .. NumAgents] /\ tick'.step = "idle"
      /\ signals' \in [Agents -> Signal] /\ \A a \in Agents : signals'[a].side = "none"
  BY <1>1, ConstantTypes DEF Idle, TickSteps, NoSignal
<1>3. TypeOK'
  BY <1>1, <1>2 DEF IInv, TypeOK, brokerVars, pollVars, dbVars
<1>4. LongOnly' /\ SignalledSalesAreHeld' /\ SentSaleIsHeld' /\ TasksAreBusyWithSomething'
  BY <1>1, <1>2 DEF IInv, LongOnly, SignalledSalesAreHeld, SentSaleIsHeld,
                    TasksAreBusyWithSomething, pollVars
<1>5. QED
  BY <1>3, <1>4 DEF IInv

LEMMA PositionType ==
    ASSUME NEW b \in Book
    PROVE  PositionOf(b) \in Position
  BY DEF PositionOf, Position, NoPosition, Book

LEMMA RecordFillAtomicIInv == IInv /\ RecordFillAtomic => IInv'
<1> SUFFICES ASSUME IInv, RecordFillAtomic PROVE IInv'
  OBVIOUS
<1> DEFINE a == orders[sent].agent
<1>1. /\ tick.step = "booking" /\ tick' = [step |-> "orders", at |-> tick.at + 1]
      /\ \/ UNCHANGED <<trades, positions>>
         \/ /\ trades' = [trades EXCEPT ![sent] = "optimistic"]
            /\ positions' = [positions EXCEPT ![a] = PositionOf(books[a])]
      /\ UNCHANGED <<books, signals, pendingExits, brokerVars, marks, reconciled, pollVars, booked,
                     crashes, mode>>
  BY DEF RecordFillAtomic, dbVars, NextAgent
<1>2. sent \in OrderIds /\ tick.at \in Agents
  BY <1>1 DEF IInv, TasksAreBusyWithSomething
<1>3. a \in Agents /\ PositionOf(books[a]) \in Position
  BY <1>2, PositionType DEF IInv, TypeOK, Order
<1>4. trades' \in [OrderIds -> TradeRows] /\ positions' \in [Agents -> Position]
  BY <1>1, <1>3 DEF IInv, TypeOK, TradeRows
<1>5. tick' \in [step : TickSteps, at : 0 .. NumAgents] /\ tick'.step = "orders"
  BY <1>1, <1>2, ConstantTypes DEF Agents, TickSteps
<1>6. TypeOK'
  BY <1>1, <1>4, <1>5 DEF IInv, TypeOK, brokerVars, pollVars
<1>7. LongOnly' /\ SignalledSalesAreHeld' /\ SentSaleIsHeld' /\ TasksAreBusyWithSomething'
  BY <1>1, <1>5 DEF IInv, LongOnly, SignalledSalesAreHeld, SentSaleIsHeld,
                    TasksAreBusyWithSomething, pollVars
<1>8. QED
  BY <1>6, <1>7 DEF IInv

-------------------------------------------------------------------------------
(* The broker changes the state and the price of orders, not what they are. *)
LEMMA BrokerIInv == IInv /\ Broker => IInv'
<1> SUFFICES ASSUME IInv, Broker PROVE IInv'
  OBVIOUS
<1>1. UNCHANGED <<books, tickVars, sent, marks, reconciled, pollVars, dbVars, booked, crashes, mode>>
  BY DEF Broker, BrokerAccepts, BrokerRejects, BrokerFills, BrokerCancels, BrokerPrices
<1>2. orders \in [OrderIds -> Order]
  BY DEF IInv, TypeOK
<1>3. \E o \in OrderIds, status \in Statuses, price \in Prices \cup {0} :
         \/ orders' = [orders EXCEPT ![o].status = status]
         \/ orders' = [orders EXCEPT ![o].status = status, ![o].price = price]
         \/ orders' = [orders EXCEPT ![o].price = price]
  <2>1. CASE BrokerAccepts \/ BrokerRejects \/ BrokerCancels
    BY <2>1 DEF BrokerAccepts, BrokerRejects, BrokerCancels, Statuses
  <2>2. CASE BrokerFills
    BY <2>2 DEF BrokerFills, Statuses
  <2>3. CASE BrokerPrices
    BY <2>3 DEF BrokerPrices, Statuses
  <2>4. QED
    BY <2>1, <2>2, <2>3 DEF Broker
<1>4. orders' \in [OrderIds -> Order]
  BY <1>2, <1>3 DEF Order
<1>5. \A i \in OrderIds : orders'[i].agent = orders[i].agent /\ orders'[i].side = orders[i].side
  BY <1>2, <1>3 DEF Order
<1>6. TypeOK'
  BY <1>1, <1>4 DEF IInv, TypeOK, tickVars, pollVars, dbVars
<1>7. LongOnly' /\ SignalledSalesAreHeld'
  BY <1>1 DEF IInv, LongOnly, SignalledSalesAreHeld, tickVars
<1>8. SentSaleIsHeld' /\ TasksAreBusyWithSomething'
  BY <1>1, <1>5 DEF IInv, SentSaleIsHeld, TasksAreBusyWithSomething, tickVars, pollVars
<1>9. QED
  BY <1>6, <1>7, <1>8 DEF IInv

-------------------------------------------------------------------------------
(* The reconcile loop. *)

LEMMA PollIInv == IInv /\ Poll => IInv'
<1> SUFFICES ASSUME IInv, Poll PROVE IInv'
  OBVIOUS
<1>1. /\ Visible # {} /\ batch' = Reportable \cap marks /\ marks' = marks \ Reportable
      /\ seen' = seen \cup Reportable /\ cursor' = Max(Visible)
      /\ UNCHANGED <<books, tickVars, brokerVars, reconciled, applying, dbVars, booked, crashes, mode>>
  BY DEF Poll
<1>2. Visible \subseteq 1 .. MaxOrders /\ Reportable \subseteq OrderIds
  BY DEF Visible, Reportable, OrderIds
<1>3. cursor' \in 0 .. MaxOrders
  <2> DEFINE T == Visible
  <2>1. T \in SUBSET (1 .. MaxOrders) /\ T # {} /\ cursor' = Max(T) /\ MaxOrders \in Nat
    BY <1>1, <1>2, ConstantTypes
  <2> HIDE DEF T
  <2>2. Max(T) \in T
    BY <2>1, MaxOfOrders
  <2>3. cursor' \in 1 .. MaxOrders
    BY <2>1, <2>2
  <2>4. QED
    BY <2>1, <2>3
<1>4. TypeOK'
  BY <1>1, <1>2, <1>3 DEF IInv, TypeOK, tickVars, brokerVars, dbVars
<1>5. LongOnly' /\ SignalledSalesAreHeld' /\ SentSaleIsHeld' /\ TasksAreBusyWithSomething'
  BY <1>1 DEF IInv, LongOnly, SignalledSalesAreHeld, SentSaleIsHeld, TasksAreBusyWithSomething,
              tickVars, brokerVars
<1>6. QED
  BY <1>4, <1>5 DEF IInv

(* A correction leaves every quantity as it is. *)
LEMMA ApplyReportIInv == IInv /\ ApplyReport => IInv'
<1> SUFFICES ASSUME IInv, ApplyReport PROVE IInv'
  OBVIOUS
<1>1. UNCHANGED <<tickVars, brokerVars, marks, cursor, seen, dbVars, booked, crashes, mode>>
  BY DEF ApplyReport
<1>2. PICK o \in batch :
         /\ batch' = batch \ {o}
         /\ \/ UNCHANGED <<books, reconciled, applying>>
            \/ /\ books' = [books EXCEPT ![orders[o].agent] =
                               ReconcileFill(@, orders[o].side, orders[o].n, orders[o].mark,
                                             orders[o].price)]
               /\ reconciled' = reconciled \cup {o}
               /\ applying' = [step |-> "trade", order |-> o]
  BY DEF ApplyReport
<1>3. o \in OrderIds /\ orders[o] \in Order /\ o \in 0 .. MaxOrders
  BY ConstantTypes DEF IInv, TypeOK, OrderIds
<1> DEFINE a == orders[o].agent
           side == orders[o].side
           n == orders[o].n
           mark == orders[o].mark
           price == orders[o].price
           b == books[a]
<1>4. /\ a \in Agents /\ side \in Sides /\ n \in Nat /\ mark \in Int /\ price \in Int
      /\ b \in Book
  <2>1. a \in Agents /\ side \in Sides /\ n \in Nat
    BY <1>3 DEF Order
  <2>2. mark \in Int /\ price \in Int
    BY <1>3, ConstantTypes DEF Order, NoMark
  <2>3. b \in Book
    BY <2>1 DEF IInv, TypeOK
  <2>4. QED
    BY <2>1, <2>2, <2>3
<1> HIDE DEF a, side, n, mark, price, b
<1>5. ReconcileFill(b, side, n, mark, price) \in Book
  BY <1>4, ReconcileFillType
<1>6. ReconcileFill(b, side, n, mark, price).qty = b.qty
  BY <1>4, ReconcileFillQuantity
<1>7. \/ UNCHANGED books
      \/ books' = [books EXCEPT ![a] = ReconcileFill(b, side, n, mark, price)]
  BY <1>2 DEF a, side, n, mark, price, b
<1>8. books' \in [Agents -> Book] /\ \A c \in Agents : books'[c].qty = books[c].qty
  BY <1>4, <1>5, <1>6, <1>7 DEF IInv, TypeOK, b
<1>9. /\ reconciled' \subseteq OrderIds /\ batch' \subseteq OrderIds
      /\ applying' \in [step : ApplySteps, order : 0 .. MaxOrders]
      /\ applying'.step \in {"trade", "sync"} => applying'.order \in OrderIds
  <2>1. /\ reconciled \subseteq OrderIds /\ batch \subseteq OrderIds
        /\ applying \in [step : ApplySteps, order : 0 .. MaxOrders]
        /\ applying.step \in {"trade", "sync"} => applying.order \in OrderIds
    BY DEF IInv, TypeOK, TasksAreBusyWithSomething
  <2>2. batch' = batch \ {o}
    BY <1>2
  <2>3. CASE UNCHANGED <<books, reconciled, applying>>
    BY <2>1, <2>2, <2>3
  <2>4. CASE reconciled' = reconciled \cup {o} /\ applying' = [step |-> "trade", order |-> o]
    BY <1>3, <2>1, <2>2, <2>4 DEF ApplySteps
  <2>5. QED
    BY <1>2, <2>3, <2>4
<1>10. TypeOK'
  BY <1>1, <1>8, <1>9 DEF IInv, TypeOK, tickVars, brokerVars, dbVars
<1>11. LongOnly' /\ SignalledSalesAreHeld'
  BY <1>1, <1>8 DEF IInv, LongOnly, SignalledSalesAreHeld, tickVars
<1>12. SentSaleIsHeld'
  <2> SUFFICES ASSUME tick.step = "submitting"
               PROVE  /\ signals[orders[sent].agent] = NoSignal
                      /\ orders[sent].side = "sell" => books'[orders[sent].agent].qty > 0
    BY <1>1 DEF SentSaleIsHeld, tickVars, brokerVars
  <2>1. orders[sent].agent \in Agents
    BY DEF IInv, TypeOK, TasksAreBusyWithSomething, Order
  <2>2. QED
    BY <1>8, <2>1 DEF IInv, SentSaleIsHeld
<1>13. TasksAreBusyWithSomething'
  BY <1>1, <1>9 DEF IInv, TasksAreBusyWithSomething, tickVars, brokerVars
<1>14. QED
  BY <1>10, <1>11, <1>12, <1>13 DEF IInv

LEMMA RestOfReportIInv ==
    IInv /\ (RecordReport \/ SyncPositions \/ ReportFails) => IInv'
<1> SUFFICES ASSUME IInv, RecordReport \/ SyncPositions \/ ReportFails PROVE IInv'
  OBVIOUS
<1>1. /\ UNCHANGED <<books, tick, signals, brokerVars, marks, reconciled, cursor, seen, booked,
                     crashes, mode>>
      /\ pendingExits' \subseteq pendingExits /\ batch' \subseteq batch
  BY DEF RecordReport, SyncPositions, ReportFails, tickVars
<1>2. applying' \in [step : ApplySteps, order : 0 .. MaxOrders]
  BY ConstantTypes
  DEF IInv, TypeOK, RecordReport, SyncPositions, ReportFails, Ready, ApplySteps
<1>3. applying'.step \in {"trade", "sync"} => applying'.order \in OrderIds
  BY DEF IInv, TypeOK, TasksAreBusyWithSomething, RecordReport, SyncPositions, ReportFails, Ready
<1>4. trades' \in [OrderIds -> TradeRows]
  BY DEF IInv, TypeOK, RecordReport, SyncPositions, ReportFails, dbVars, TradeRows
<1>5. positions' \in [Agents -> Position]
  <2>1. CASE SyncPositions
    <3>1. orders[applying.order].agent \in Agents
      BY <2>1 DEF SyncPositions, IInv, TypeOK, TasksAreBusyWithSomething, Order
    <3>2. PositionOf(books[orders[applying.order].agent]) \in Position
      BY <3>1, PositionType DEF IInv, TypeOK
    <3>3. QED
      BY <2>1, <3>1, <3>2 DEF SyncPositions, IInv, TypeOK
  <2>2. CASE RecordReport \/ ReportFails
    BY <2>2 DEF IInv, TypeOK, RecordReport, ReportFails, dbVars
  <2>3. QED
    BY <2>1, <2>2
<1>6. TypeOK'
  BY <1>1, <1>2, <1>4, <1>5 DEF IInv, TypeOK, brokerVars
<1>7. LongOnly' /\ SignalledSalesAreHeld' /\ SentSaleIsHeld' /\ TasksAreBusyWithSomething'
  BY <1>1, <1>3 DEF IInv, LongOnly, SignalledSalesAreHeld, SentSaleIsHeld,
                    TasksAreBusyWithSomething, brokerVars
<1>8. QED
  BY <1>6, <1>7 DEF IInv

LEMMA RestartIInv == IInv /\ Restart => IInv'
<1> SUFFICES ASSUME IInv, Restart PROVE IInv'
  OBVIOUS
<1>1. /\ books' \in [Agents -> Book] /\ \A a \in Agents : books'[a].qty = 0
      /\ signals' \in [Agents -> Signal] /\ \A a \in Agents : signals'[a].side = "none"
  BY ConstantTypes DEF Restart, NewBook, NoSignal
<1>2. /\ tick' \in [step : TickSteps, at : 0 .. NumAgents] /\ tick'.step = "idle"
      /\ applying' \in [step : ApplySteps, order : 0 .. MaxOrders] /\ applying'.step = "ready"
  BY ConstantTypes DEF Restart, Idle, Ready, TickSteps, ApplySteps
<1>3. cursor' \in 0 .. MaxOrders /\ crashes' \in 0 .. MaxCrashes
  BY ConstantTypes DEF Restart, IInv, TypeOK
<1>4. TypeOK'
  BY <1>1, <1>2, <1>3 DEF Restart, IInv, TypeOK, brokerVars, dbVars
<1>5. LongOnly' /\ SignalledSalesAreHeld' /\ SentSaleIsHeld' /\ TasksAreBusyWithSomething'
  BY <1>1, <1>2 DEF LongOnly, SignalledSalesAreHeld, SentSaleIsHeld, TasksAreBusyWithSomething
<1>6. QED
  BY <1>4, <1>5 DEF IInv

-------------------------------------------------------------------------------
LEMMA IInvHolds == Spec => []IInv
<1>1. ASSUME IInv, [Next]_vars PROVE IInv'
  <2>1. CASE Tick
    BY <1>1, <2>1, StartTickIInv, SkipIInv, SubmitIInv, SubmitReturnsIInv, TickEndsIInv,
       RecordFillAtomicIInv DEF Tick, RestOfTick
  <2>2. CASE Broker
    BY <1>1, <2>2, BrokerIInv
  <2>3. CASE Reconcile
    BY <1>1, <2>3, PollIInv, ApplyReportIInv, RestOfReportIInv DEF Reconcile, RestOfBatch
  <2>4. CASE Restart
    BY <1>1, <2>4, RestartIInv
  <2>5. CASE UNCHANGED vars
    BY <1>1, <2>5 DEF vars, tickVars, brokerVars, pollVars, dbVars, IInv, TypeOK, LongOnly,
                      SignalledSalesAreHeld, SentSaleIsHeld, TasksAreBusyWithSomething
  <2>6. QED
    BY <1>1, <2>1, <2>2, <2>3, <2>4, <2>5 DEF Next
<1>2. QED
  BY <1>1, InitIInv, PTL DEF Spec

(* The state of the tick, the broker, the reconcile loop and the tables    *)
(* stays within its types: every signal is for a whole number of shares,   *)
(* every order and report belongs to an agent.                             *)
THEOREM TypeOKHolds == Spec => []TypeOK
<1>1. IInv => TypeOK
  BY DEF IInv
<1>2. QED
  BY <1>1, IInvHolds, PTL

(* "Shorts aren't supported in v1": whatever the interleaving of the tick  *)
(* with the reconcile loop, and with every fault allowed, no agent's book  *)
(* ever holds a negative quantity.                                         *)
THEOREM LongOnlyHolds == Spec => []LongOnly
<1>1. IInv => LongOnly
  BY DEF IInv
<1>2. QED
  BY <1>1, IInvHolds, PTL

-------------------------------------------------------------------------------
(* What each action does to the orders, the books and the bookkeeping of   *)
(* the two tasks.                                                          *)

(* What the types say of one order.                                        *)
LEMMA OrderTypes ==
    ASSUME IInv, NEW o \in OrderIds
    PROVE  /\ orders[o] \in Order /\ orders[o].agent \in Agents /\ orders[o].side \in Sides
           /\ orders[o].n \in Nat /\ orders[o].mark \in Nat /\ orders[o].price \in Nat
           /\ books[orders[o].agent] \in Book
<1>1. orders[o] \in Order
  BY DEF IInv, TypeOK
<1>2. /\ orders[o].agent \in Agents /\ orders[o].side \in Sides /\ orders[o].n \in Nat
      /\ orders[o].mark \in Prices \cup {NoMark} /\ orders[o].price \in Prices \cup {0}
  BY <1>1 DEF Order
<1>3. orders[o].mark \in Nat /\ orders[o].price \in Nat
  BY <1>2, ConstantTypes DEF NoMark
<1>4. books[orders[o].agent] \in Book
  BY <1>2 DEF IInv, TypeOK
<1>5. QED
  BY <1>1, <1>2, <1>3, <1>4

(* Steps of the tick that neither send nor book an order. *)
Aside == StartTick \/ SkipSignal \/ SkipOffHours \/ SubmitRaises \/ RecordFillAtomic
            \/ RecordFillFails \/ EndTick

(* They touch no order and no book.                                        *)
LEMMA AsideStep ==
    ASSUME Aside
    PROVE  /\ UNCHANGED <<mode, books, orders, sent, marks, reconciled, cursor, seen, batch,
                          applying, booked>>
           /\ tick'.step \in {"idle", "orders"}
<1>1. CASE StartTick
  BY <1>1 DEF StartTick, brokerVars, pollVars
<1>2. CASE SkipSignal \/ SkipOffHours
  BY <1>2 DEF SkipSignal, SkipOffHours, NextAgent, brokerVars, pollVars
<1>3. CASE SubmitRaises \/ RecordFillFails \/ EndTick
  BY <1>3 DEF SubmitRaises, RecordFillFails, EndTick, Idle, brokerVars, pollVars
<1>4. CASE RecordFillAtomic
  BY <1>4 DEF RecordFillAtomic, NextAgent, brokerVars, pollVars
<1>5. QED
  BY <1>1, <1>2, <1>3, <1>4 DEF Aside

(* The order that Submit sends. *)
NewOrder ==
    [agent |-> tick.at, side |-> Signalled.side, n |-> Signalled.n, mark |-> Signalled.mark,
     status |-> IF mode = "simulated" THEN "filled" ELSE "sent",
     price |-> IF mode = "simulated" THEN Signalled.mark ELSE 0]

(* Submit sends one more order and uses up its signal.                     *)
LEMMA SubmitStep ==
    ASSUME IInv, Submit
    PROVE  /\ UNCHANGED <<mode, books, reconciled, cursor, seen, batch, applying, trades, positions,
                          booked>>
           /\ tick.step = "orders" /\ tick'.step = "submitting"
           /\ sent \in Nat /\ sent' = sent + 1 /\ sent + 1 \in OrderIds
           /\ marks' = IF mode = "simulated" THEN marks ELSE marks \cup {sent + 1}
           /\ orders'[sent + 1] = NewOrder
           /\ \A o \in OrderIds : o # sent + 1 => orders'[o] = orders[o]
           /\ tick.at \in Agents /\ Signalled \in Signal /\ Signalled.side \in Sides /\ MaySubmit
           /\ signals'[tick.at] = NoSignal
           /\ \A a \in Agents : a # tick.at => signals'[a] = signals[a]
<1>1. /\ tick.step = "orders" /\ tick.at < NumAgents /\ SignalConsumed
      /\ Signalled.side # "none" /\ MaySubmit /\ sent < MaxOrders
      /\ sent' = sent + 1 /\ orders' = [orders EXCEPT ![sent + 1] = NewOrder]
      /\ tick' = [tick EXCEPT !.step = "submitting"]
      /\ marks' = IF mode = "simulated" THEN marks ELSE marks \cup {sent + 1}
      /\ UNCHANGED <<mode, books, reconciled, pollVars, dbVars, booked>>
  BY DEF Submit, NewOrder
<1>2. /\ tick.at \in Agents /\ signals'[tick.at] = NoSignal
      /\ \A a \in Agents : a # tick.at => signals'[a] = signals[a]
  BY <1>1, SignalConsumedTypes
<1>3. Signalled \in Signal /\ Signalled.side \in Sides
  <2>1. Signalled \in Signal
    BY <1>2 DEF IInv, TypeOK, Signalled
  <2>2. QED
    BY <1>1, <2>1 DEF Signal
<1>4. sent \in Nat /\ sent + 1 \in OrderIds
  BY <1>1, ConstantTypes DEF IInv, TypeOK, OrderIds
<1>5. orders \in [OrderIds -> Order] /\ tick \in [step : TickSteps, at : 0 .. NumAgents]
  BY DEF IInv, TypeOK
<1>6. /\ orders'[sent + 1] = NewOrder
      /\ \A o \in OrderIds : o # sent + 1 => orders'[o] = orders[o]
  BY <1>1, <1>4, <1>5
<1>7. tick'.step = "submitting"
  BY <1>1, <1>5
<1>8. QED
  BY <1>1, <1>2, <1>3, <1>4, <1>6, <1>7 DEF pollVars, dbVars

(* SubmitReturns books the order that was on its way, at its mark.         *)
LEMMA SubmitReturnsStep ==
    ASSUME IInv, SubmitReturns
    PROVE  /\ UNCHANGED <<mode, orders, sent, signals, marks, reconciled, cursor, seen, batch,
                          applying, trades, positions>>
           /\ tick.step = "submitting" /\ tick'.step = "booking" /\ tick'.at = tick.at
           /\ sent \in OrderIds /\ orders[sent] \in Order
           /\ orders[sent].status \notin {"sent", "rejected"}
           /\ booked' = booked \cup {sent}
           /\ books'[orders[sent].agent] =
                 RecordFill(books[orders[sent].agent], orders[sent].side, orders[sent].n,
                            orders[sent].mark)
           /\ \A a \in Agents : a # orders[sent].agent => books'[a] = books[a]
<1>1. /\ tick.step = "submitting" /\ orders[sent].status \notin {"sent", "rejected"}
      /\ books' = [books EXCEPT ![orders[sent].agent] =
                     RecordFill(@, orders[sent].side, orders[sent].n, orders[sent].mark)]
      /\ booked' = booked \cup {sent} /\ tick' = [tick EXCEPT !.step = "booking"]
      /\ UNCHANGED <<mode, signals, brokerVars, marks, reconciled, pollVars, dbVars>>
  BY DEF SubmitReturns
<1>2. sent \in OrderIds
  BY <1>1 DEF IInv, TasksAreBusyWithSomething
<1>3. /\ orders[sent] \in Order /\ orders[sent].agent \in Agents /\ books \in [Agents -> Book]
      /\ tick \in [step : TickSteps, at : 0 .. NumAgents]
  BY <1>2 DEF IInv, TypeOK, Order
<1>4. /\ tick'.step = "booking" /\ tick'.at = tick.at
      /\ books'[orders[sent].agent] =
            RecordFill(books[orders[sent].agent], orders[sent].side, orders[sent].n,
                       orders[sent].mark)
      /\ \A a \in Agents : a # orders[sent].agent => books'[a] = books[a]
  BY <1>1, <1>3
<1>5. QED
  BY <1>1, <1>2, <1>3, <1>4 DEF brokerVars, pollVars, dbVars

(* What the broker may do to an order. *)
SameDeal(o) ==
    /\ orders'[o].agent = orders[o].agent /\ orders'[o].side = orders[o].side
    /\ orders'[o].n = orders[o].n /\ orders'[o].mark = orders[o].mark
Moves(o) ==
    \/ /\ orders[o].status = "sent" /\ orders'[o].status = "new"
       /\ orders'[o].price = orders[o].price
    \/ /\ orders[o].status = "sent" /\ orders'[o].status = "rejected"
       /\ orders'[o].price = orders[o].price
    \/ /\ orders[o].status = "new" /\ orders'[o].status = "canceled" /\ "cancel" \in Faults
       /\ orders'[o].price = orders[o].price
    \/ /\ orders[o].status = "new" /\ orders'[o].status = "filled"
       /\ "race" \in Faults \/ o \in booked \/ tick.step # "submitting" \/ o # sent
       /\ orders'[o].price = 0 => "unpriced" \in Faults
    \/ /\ orders[o].status = "filled" /\ orders'[o].status = "filled"
       /\ orders[o].price = 0 /\ orders'[o].price # 0

(* The broker changes nothing but states and prices of orders.             *)
LEMMA BrokerStep ==
    ASSUME IInv, Broker
    PROVE  /\ UNCHANGED <<mode, books, tick, signals, sent, marks, reconciled, cursor, seen, batch,
                          applying, trades, positions, booked>>
           /\ \A o \in OrderIds : SameDeal(o) /\ (orders'[o] = orders[o] \/ Moves(o))
<1>1. UNCHANGED <<books, tickVars, sent, marks, reconciled, pollVars, dbVars, booked, crashes, mode>>
  BY DEF Broker, BrokerAccepts, BrokerRejects, BrokerFills, BrokerCancels, BrokerPrices
<1>2. orders \in [OrderIds -> Order]
  BY DEF IInv, TypeOK
<1>3. \A o \in OrderIds : orders[o] \in Order
  BY <1>2
<1>4. \A o \in OrderIds : SameDeal(o) /\ (orders'[o] = orders[o] \/ Moves(o))
  <2>1. CASE BrokerAccepts
    BY <1>2, <1>3, <2>1 DEF BrokerAccepts, SameDeal, Moves, Order
  <2>2. CASE BrokerRejects
    BY <1>2, <1>3, <2>2 DEF BrokerRejects, SameDeal, Moves, Order
  <2>3. CASE BrokerCancels
    BY <1>2, <1>3, <2>3 DEF BrokerCancels, SameDeal, Moves, Order
  <2>4. CASE BrokerFills
    BY <1>2, <1>3, <2>4 DEF BrokerFills, SameDeal, Moves, Order
  <2>5. CASE BrokerPrices
    BY <1>2, <1>3, <2>5, OrderFlowAssumption DEF BrokerPrices, SameDeal, Moves, Order
  <2>6. QED
    BY <2>1, <2>2, <2>3, <2>4, <2>5 DEF Broker
<1>5. QED
  BY <1>1, <1>4 DEF tickVars, pollVars, dbVars

(* A poll takes reports of filled orders, none of them twice. *)
LEMMA PollStep ==
    ASSUME IInv, Poll
    PROVE  /\ UNCHANGED <<mode, books, tick, signals, orders, sent, reconciled, applying, trades,
                          positions, booked>>
           /\ mode = "alpaca_paper" /\ batch = {} /\ applying = Ready
           /\ batch' = Reportable \cap marks /\ seen' = seen \cup Reportable
           /\ marks' = marks \ Reportable
           /\ cursor' \in Visible
           /\ \A o \in Visible : o <= cursor'
           /\ "slow" \in Faults \/ \A o \in Visible : orders[o].status # "new"
<1>1. /\ mode = "alpaca_paper" /\ Visible # {} /\ batch = {} /\ applying = Ready
      /\ batch' = Reportable \cap marks /\ marks' = marks \ Reportable
      /\ seen' = seen \cup Reportable /\ cursor' = Max(Visible)
      /\ "slow" \in Faults \/ \A o \in Visible : orders[o].status # "new"
      /\ UNCHANGED <<books, tickVars, brokerVars, reconciled, applying, dbVars, booked, mode>>
  BY DEF Poll
<1>2. Max(Visible) \in Visible /\ \A o \in Visible : o <= Max(Visible)
  <2> DEFINE T == Visible
  <2>1. T \in SUBSET (1 .. MaxOrders) /\ T # {} /\ MaxOrders \in Nat
    BY <1>1, ConstantTypes DEF Visible, OrderIds
  <2> HIDE DEF T
  <2>2. Max(T) \in T /\ \A o \in T : o <= Max(T)
    BY <2>1, MaxOfOrders
  <2>3. QED
    BY <2>2 DEF T
<1>3. QED
  BY <1>1, <1>2 DEF tickVars, brokerVars, dbVars

(* A report is applied, or was so before. *)
Corrected(o) ==
    ReconcileFill(books[orders[o].agent], orders[o].side, orders[o].n, orders[o].mark,
                  orders[o].price)
(* A report is applied once, to the book of the order's agent.             *)
LEMMA ApplyReportStep ==
    ASSUME IInv, ApplyReport
    PROVE  /\ UNCHANGED <<mode, tick, signals, orders, sent, marks, cursor, seen, trades, positions,
                          booked>>
           /\ applying = Ready
           /\ \E o \in batch :
                 /\ o \in OrderIds /\ orders[o] \in Order
                 /\ batch' = batch \ {o}
                 /\ \/ o \in reconciled /\ UNCHANGED <<books, reconciled, applying>>
                    \/ /\ o \notin reconciled /\ reconciled' = reconciled \cup {o}
                       /\ applying' = [step |-> "trade", order |-> o]
                       /\ books'[orders[o].agent] = Corrected(o)
                       /\ \A a \in Agents : a # orders[o].agent => books'[a] = books[a]
<1>1. /\ UNCHANGED <<tickVars, brokerVars, marks, cursor, seen, dbVars, booked, mode>>
      /\ applying = Ready
  BY DEF ApplyReport
<1>2. PICK o \in batch :
         /\ batch' = batch \ {o}
         /\ IF o \in reconciled
            THEN UNCHANGED <<books, reconciled, applying>>
            ELSE /\ books' = [books EXCEPT ![orders[o].agent] =
                                ReconcileFill(@, orders[o].side, orders[o].n, orders[o].mark,
                                              orders[o].price)]
                 /\ reconciled' = reconciled \cup {o}
                 /\ applying' = [step |-> "trade", order |-> o]
  BY DEF ApplyReport
<1>3. /\ o \in OrderIds /\ orders[o] \in Order /\ orders[o].agent \in Agents
      /\ books \in [Agents -> Book]
  BY DEF IInv, TypeOK, Order
<1>4. CASE o \in reconciled
  BY <1>1, <1>2, <1>3, <1>4 DEF tickVars, brokerVars, dbVars
<1>5. CASE o \notin reconciled
  <2>1. /\ books'[orders[o].agent] = Corrected(o)
        /\ \A a \in Agents : a # orders[o].agent => books'[a] = books[a]
    BY <1>2, <1>3, <1>5 DEF Corrected
  <2>2. QED
    BY <1>1, <1>2, <1>3, <1>5, <2>1 DEF tickVars, brokerVars, dbVars
<1>6. QED
  BY <1>4, <1>5

(* It changes what was paid, not what is held.                             *)
LEMMA ApplyReportQuantities ==
    ASSUME IInv, ApplyReport
    PROVE  \A a \in Agents : books'[a].qty = books[a].qty
<1>1. PICK o \in batch :
         /\ o \in OrderIds /\ orders[o] \in Order
         /\ \/ UNCHANGED books
            \/ /\ books'[orders[o].agent] = Corrected(o)
               /\ \A a \in Agents : a # orders[o].agent => books'[a] = books[a]
  BY ApplyReportStep
<1>2. /\ orders[o].agent \in Agents /\ orders[o].side \in Sides /\ orders[o].n \in Nat
      /\ orders[o].mark \in Int /\ orders[o].price \in Int
      /\ books[orders[o].agent] \in Book
  BY <1>1, OrderTypes
<1>3. Corrected(o).qty = books[orders[o].agent].qty
  BY <1>2, ReconcileFillQuantity DEF Corrected
<1>4. QED
  BY <1>1, <1>3

(* The rest of its handling is done with the books.                        *)
LEMMA RestOfReportStep ==
    ASSUME IInv, RecordReport \/ SyncPositions \/ ReportFails
    PROVE  /\ UNCHANGED <<mode, books, tick, signals, orders, sent, marks, reconciled, cursor, seen,
                          booked>>
           /\ batch' \subseteq batch
           /\ \/ applying' = Ready
              \/ /\ applying.step = "trade" /\ applying'.step = "sync"
                 /\ applying'.order = applying.order
<1>1. /\ UNCHANGED <<books, tick, signals, brokerVars, marks, reconciled, cursor, seen, booked,
                     mode>>
      /\ batch' \subseteq batch
  BY DEF RecordReport, SyncPositions, ReportFails, tickVars
<1>2. \/ applying' = Ready
      \/ /\ applying.step = "trade" /\ applying'.step = "sync"
         /\ applying'.order = applying.order
  <2>1. applying \in [step : ApplySteps, order : 0 .. MaxOrders]
    BY DEF IInv, TypeOK
  <2>2. QED
    BY <2>1 DEF RecordReport, SyncPositions, ReportFails
<1>3. QED
  BY <1>1, <1>2 DEF brokerVars

(* A restart forgets all but the broker's orders and the tables.           *)
LEMMA RestartStep ==
    ASSUME IInv, Restart
    PROVE  /\ UNCHANGED <<mode, orders, sent, trades, positions>>
           /\ \A a \in Agents : books'[a] = NewBook(Capital) /\ signals'[a] = NoSignal
           /\ tick' = Idle /\ applying' = Ready
           /\ marks' = {} /\ reconciled' = {} /\ seen' = {} /\ batch' = {} /\ booked' = {}
           /\ cursor' \in 0 .. sent
           /\ "crash" \in Faults
  BY DEF Restart, brokerVars, dbVars

(* The variables that the proofs speak of.                                 *)
LEMMA StutterStep ==
    ASSUME UNCHANGED vars
    PROVE  UNCHANGED <<mode, books, tick, signals, orders, sent, marks, reconciled, cursor, seen,
                       batch, applying, trades, positions, booked>>
  BY DEF vars, tickVars, brokerVars, pollVars, dbVars

(* Every step is one of these.                                             *)
LEMMA StepCases ==
    ASSUME [Next]_vars
    PROVE  \/ Aside \/ Submit \/ SubmitReturns
           \/ Broker
           \/ Poll \/ ApplyReport \/ RecordReport \/ SyncPositions \/ ReportFails
           \/ Restart
           \/ UNCHANGED vars
  BY DEF Next, Tick, RestOfTick, Reconcile, RestOfBatch, Aside

-------------------------------------------------------------------------------
(* An order is for the whole of what its agent may trade: an entry while   *)
(* nothing is held, an exit of all that is.                                *)
Fits(side, n, b) == n \in Quantities /\ b.qty = (IF side = "sell" THEN n ELSE 0)
Lots ==
    /\ \A a \in Agents : books[a].qty \in {0} \cup Quantities
    /\ \A a \in Agents :
          signals[a].side # "none" => Fits(signals[a].side, signals[a].n, books[a])
    /\ tick.step = "submitting" =>
          Fits(orders[sent].side, orders[sent].n, books[orders[sent].agent])

(* Such a fill is booked as it is: nothing of it is cut down. *)
LEMMA FillOfLot ==
    ASSUME NEW b \in Book, NEW side \in Sides, NEW n \in Nat, NEW price \in Int, Fits(side, n, b)
    PROVE  /\ RecordFill(b, side, n, price).qty = b.qty + Signed(side, n)
           /\ RecordFill(b, side, n, price).qty = (IF side = "sell" THEN 0 ELSE n)
           /\ RecordFill(b, side, n, price).cash = b.cash - price * Signed(side, n)
<1>1. ClampFlip(b.qty, side, n) = n
  BY DEF Fits, ClampFlip, Sides, Abs
<1>2. b.qty \in Int
  BY DEF Book
<1>3. /\ RecordFill(b, side, n, price).qty = b.qty + Signed(side, n)
      /\ RecordFill(b, side, n, price).cash = b.cash - price * Signed(side, n)
  BY <1>1 DEF RecordFill
<1>4. RecordFill(b, side, n, price).qty = (IF side = "sell" THEN 0 ELSE n)
  BY <1>2, <1>3 DEF Fits, Signed, Sides
<1>5. QED
  BY <1>3, <1>4

(* After the decisions a tick only uses signals up.                        *)
LEMMA SignalsDropped ==
    ASSUME IInv, Aside, ~StartTick
    PROVE  \A a \in Agents : signals'[a] = signals[a] \/ signals'[a] = NoSignal
<1>1. CASE SkipSignal \/ SkipOffHours
  <2>1. tick.step = "orders" /\ tick.at < NumAgents /\ SignalConsumed
    BY <1>1 DEF SkipSignal, SkipOffHours
  <2>2. QED
    BY <2>1, SignalConsumedTypes
<1>2. CASE SubmitRaises \/ RecordFillFails \/ EndTick
  BY <1>2 DEF SubmitRaises, RecordFillFails, EndTick
<1>3. CASE RecordFillAtomic
  BY <1>3 DEF RecordFillAtomic
<1>4. QED
  BY <1>1, <1>2, <1>3 DEF Aside

(* The decisions are for whole lots.                                       *)
LEMMA StartTickLots == ASSUME IInv, Lots, StartTick PROVE Lots'
<1>1. PICK mark \in [Agents -> Prices \cup {NoMark}], stale \in SUBSET pendingExits,
           exits \in SUBSET Agents :
        /\ \A a \in exits : MayExit(a, pendingExits \ stale)
        /\ signals' \in SignalsFrom([a \in Agents |->
                 IF a \in exits THEN {SellAll(a, mark[a])} ELSE Decisions(a, mark[a])])
  BY DEF StartTick
<1>2. \A a \in Agents : books[a].qty \in Nat /\ books[a].qty \in {0} \cup Quantities
  BY DEF IInv, TypeOK, LongOnly, Book, Lots
<1>3. \A a \in Agents : \A s \in Decisions(a, mark[a]) :
         s.side # "none" => Fits(s.side, s.n, books[a])
  <2> TAKE a \in Agents
  <2> TAKE s \in Decisions(a, mark[a])
  <2>1. CASE s = NoSignal
    BY <2>1 DEF NoSignal
  <2>2. CASE /\ s \in {Buy(n, mark[a]) : n \in Quantities} /\ ~(books[a].qty > 0)
    BY <1>2, <2>2 DEF Buy, Fits
  <2>3. CASE s = SellAll(a, mark[a]) /\ books[a].qty > 0
    BY <1>2, <2>3 DEF SellAll, Fits
  <2>4. QED
    BY <2>1, <2>2, <2>3 DEF Decisions, Buy, SellAll
<1>4. \A a \in exits : Fits("sell", SellAll(a, mark[a]).n, books[a])
  BY <1>1, <1>2 DEF SellAll, Fits, MayExit
<1>5. \A a \in Agents : signals'[a].side # "none" => Fits(signals'[a].side, signals'[a].n, books[a])
  <2> TAKE a \in Agents
  <2>1. CASE a \in exits
    <3>1. signals'[a] = SellAll(a, mark[a])
      BY <1>1, <2>1 DEF SignalsFrom
    <3>2. QED
      BY <1>4, <2>1, <3>1 DEF SellAll
  <2>2. CASE a \notin exits
    BY <1>1, <1>3, <2>2 DEF SignalsFrom
  <2>3. QED
    BY <2>1, <2>2
<1>6. /\ UNCHANGED <<books, orders, sent>> /\ tick'.step = "orders"
  BY DEF StartTick, brokerVars
<1>7. QED
  BY <1>5, <1>6 DEF Lots, Fits

(* They still are when the order is booked: no other action changes the    *)
(* quantity of an agent whose order is on its way.                         *)
LEMMA LotsInvariant == ASSUME IInv, Lots, [Next]_vars PROVE Lots'
<1>1. CASE Aside
  <2>1. CASE StartTick
    BY <2>1, StartTickLots
  <2>2. CASE ~StartTick
    <3>1. UNCHANGED <<books, orders, sent>> /\ tick'.step \in {"idle", "orders"}
      BY <1>1, AsideStep
    <3>2. \A a \in Agents : signals'[a] = signals[a] \/ signals'[a] = NoSignal
      BY <1>1, <2>2, SignalsDropped
    <3>3. QED
      BY <3>1, <3>2 DEF Lots, NoSignal, Fits
  <2>3. QED
    BY <2>1, <2>2
<1>2. CASE Submit
  <2>1. /\ UNCHANGED books /\ orders'[sent'] = NewOrder /\ tick.at \in Agents
        /\ Signalled \in Signal /\ Signalled.side \in Sides
        /\ \A a \in Agents : signals'[a] = signals[a] \/ signals'[a] = NoSignal
    BY <1>2, SubmitStep
  <2>2. Fits(NewOrder.side, NewOrder.n, books[NewOrder.agent])
    BY <2>1 DEF Lots, NewOrder, Signalled, Sides
  <2>3. QED
    BY <2>1, <2>2 DEF Lots, NoSignal, Fits
<1>3. CASE SubmitReturns
  <2> DEFINE o == orders[sent]
  <2>1. /\ tick.step = "submitting" /\ tick'.step = "booking" /\ UNCHANGED signals
        /\ sent \in OrderIds
        /\ books'[o.agent] = RecordFill(books[o.agent], o.side, o.n, o.mark)
        /\ \A a \in Agents : a # o.agent => books'[a] = books[a]
    BY <1>3, SubmitReturnsStep
  <2>2. /\ o.agent \in Agents /\ o.side \in Sides /\ o.n \in Nat /\ o.mark \in Int
        /\ books[o.agent] \in Book /\ Fits(o.side, o.n, books[o.agent])
    BY <2>1, OrderTypes DEF Lots
  <2>3. books'[o.agent].qty \in {0} \cup Quantities
    BY <2>1, <2>2, FillOfLot DEF Fits
  <2>4. signals[o.agent] = NoSignal
    BY <2>1 DEF IInv, SentSaleIsHeld
  <2> HIDE DEF o
  <2>5. QED
    BY <2>1, <2>2, <2>3, <2>4 DEF Lots, NoSignal, Fits
<1>4. CASE Broker
  <2>1. /\ UNCHANGED <<books, tick, signals, sent>> /\ \A o \in OrderIds : SameDeal(o)
    BY <1>4, BrokerStep
  <2>2. QED
    BY <2>1 DEF Lots, SameDeal, IInv, TasksAreBusyWithSomething, Fits
<1>5. CASE Poll
  BY <1>5, PollStep DEF Lots, Fits
<1>6. CASE ApplyReport
  <2>1. UNCHANGED <<tick, signals, orders, sent>>
    BY <1>6, ApplyReportStep
  <2>2. \A a \in Agents : books'[a].qty = books[a].qty
    BY <1>6, ApplyReportQuantities
  <2>3. tick.step = "submitting" => orders[sent].agent \in Agents
    BY DEF IInv, TypeOK, TasksAreBusyWithSomething, Order
  <2>4. QED
    BY <2>1, <2>2, <2>3 DEF Lots, Fits
<1>7. CASE RecordReport \/ SyncPositions \/ ReportFails
  BY <1>7, RestOfReportStep DEF Lots, Fits
<1>8. CASE Restart
  BY <1>8, RestartStep DEF Lots, NewBook, NoSignal, Idle
<1>9. CASE UNCHANGED vars
  BY <1>9, StutterStep DEF Lots, Fits
<1>10. QED
  BY <1>1, <1>2, <1>3, <1>4, <1>5, <1>6, <1>7, <1>8, <1>9, StepCases

-------------------------------------------------------------------------------
(* Orders are numbered as they are sent, for a size and at a mark the      *)
(* strategies chose; whatever the other tables name was sent; the order on *)
(* its way is not booked, the one being recorded is.                       *)
Numbered ==
    /\ \A o \in OrderIds : orders[o].status = "unsent" <=> o > sent
    /\ \A o \in OrderIds : o <= sent => orders[o].n \in Quantities /\ orders[o].mark \in Prices
    /\ cursor <= sent
    /\ \A o \in booked \cup marks \cup seen \cup reconciled \cup batch : o <= sent
    /\ tick.step = "submitting" => sent \notin booked
    /\ tick.step = "booking" => sent \in booked
    /\ \A o \in OrderIds : orders[o].price # 0 => orders[o].status = "filled"

(* The types of the bookkeeping.                                           *)
LEMMA StateTypes ==
    ASSUME IInv
    PROVE  /\ sent \in Nat /\ cursor \in Nat /\ mode \in {"simulated", "alpaca_paper"}
           /\ booked \subseteq OrderIds /\ marks \subseteq OrderIds /\ seen \subseteq OrderIds
           /\ reconciled \subseteq OrderIds /\ batch \subseteq OrderIds
           /\ OrderIds \subseteq Nat
  BY ConstantTypes, OrderFlowAssumption DEF IInv, TypeOK

(* Numbered and Lots are inductive.                                        *)
LEMMA InitNumbered == ASSUME Init PROVE Lots /\ Numbered
<1>1. Lots
  BY DEF Init, Lots, NewBook, NoSignal, Idle
<1>2. \A o \in OrderIds : o > 0
  BY DEF OrderIds
<1>3. Numbered
  BY <1>2, ConstantTypes DEF Init, Numbered, Unsent, Idle
<1>4. QED
  BY <1>1, <1>3

LEMMA NumberedInvariant == ASSUME IInv, Lots, Numbered, [Next]_vars PROVE Numbered'
<1>1. CASE Aside
  BY <1>1, AsideStep DEF Numbered
<1>2. CASE Submit
  <2>1. /\ UNCHANGED <<reconciled, cursor, seen, batch, booked>>
        /\ tick'.step = "submitting"
        /\ sent \in Nat /\ sent' = sent + 1 /\ sent + 1 \in OrderIds
        /\ marks' \subseteq marks \cup {sent + 1}
        /\ orders'[sent + 1] = NewOrder
        /\ \A o \in OrderIds : o # sent + 1 => orders'[o] = orders[o]
    BY <1>2, SubmitStep
  <2>2. /\ NewOrder.price # 0 => NewOrder.status = "filled"
        /\ NewOrder.status # "unsent" /\ NewOrder.n \in Quantities /\ NewOrder.mark \in Prices
    <3>1. /\ tick.at \in Agents /\ Signalled \in Signal /\ Signalled.side \in Sides /\ MaySubmit
      BY <1>2, SubmitStep
    <3>2. Signalled.n \in Quantities
      BY <3>1 DEF Lots, Fits, Signalled, Sides
    <3>3. Signalled.mark \in Prices
      BY <3>1 DEF Signal, MaySubmit
    <3>4. QED
      BY <3>2, <3>3 DEF NewOrder
  <2>3. /\ booked \cup marks \cup seen \cup reconciled \cup batch \subseteq OrderIds
        /\ OrderIds \subseteq Nat /\ cursor \in Nat
    BY StateTypes
  <2> HIDE DEF NewOrder
  <2>4. ASSUME NEW o \in OrderIds
        PROVE  /\ orders'[o].status = "unsent" <=> o > sent'
               /\ o <= sent' => orders'[o].n \in Quantities /\ orders'[o].mark \in Prices
               /\ orders'[o].price # 0 => orders'[o].status = "filled"
    <3>1. CASE o = sent + 1
      BY <2>1, <2>2, <3>1
    <3>2. CASE o # sent + 1
      <4>1. o \in Nat /\ (o > sent' <=> o > sent) /\ (o <= sent' <=> o <= sent)
        BY <2>1, <2>3, <3>2
      <4>2. QED
        BY <2>1, <3>2, <4>1 DEF Numbered
    <3>3. QED
      BY <3>1, <3>2
  <2> DEFINE named == booked \cup marks \cup seen \cup reconciled \cup batch
  <2>5. cursor' <= sent' /\ sent' \notin booked' /\ \A o \in named \cup {sent + 1} : o <= sent'
    <3>1. cursor <= sent /\ \A o \in named : o <= sent /\ o \in Nat
      BY <2>3 DEF Numbered
    <3>2. booked' \subseteq named
      BY <2>1
    <3> HIDE DEF named
    <3>3. QED
      BY <2>1, <2>3, <3>1, <3>2
  <2>6. QED
    BY <2>1, <2>4, <2>5 DEF Numbered
<1>3. CASE SubmitReturns
  <2>1. /\ UNCHANGED <<orders, sent, marks, reconciled, cursor, seen, batch>>
        /\ tick'.step = "booking" /\ booked' = booked \cup {sent}
    BY <1>3, SubmitReturnsStep
  <2>2. sent \in Nat
    BY StateTypes
  <2>3. QED
    BY <2>1, <2>2 DEF Numbered
<1>4. CASE Broker
  <2>1. /\ UNCHANGED <<tick, sent, marks, reconciled, cursor, seen, batch, booked>>
        /\ \A o \in OrderIds : SameDeal(o) /\ (orders'[o] = orders[o] \/ Moves(o))
    BY <1>4, BrokerStep
  <2>2. \A o \in OrderIds :
           /\ orders'[o].status = "unsent" <=> orders[o].status = "unsent"
           /\ orders'[o].price # 0 => orders'[o].status = "filled"
    BY <2>1 DEF Moves, Numbered
  <2>3. QED
    BY <2>1, <2>2 DEF Numbered, SameDeal
<1>5. CASE Poll
  <2>1. /\ UNCHANGED <<tick, orders, sent, reconciled, booked>>
        /\ batch' = Reportable \cap marks /\ seen' = seen \cup Reportable
        /\ marks' = marks \ Reportable /\ cursor' \in Visible
    BY <1>5, PollStep
  <2>2. \A o \in Visible : o <= sent
    BY StateTypes DEF Visible, Numbered
  <2>3. QED
    BY <2>1, <2>2 DEF Numbered, Reportable
<1>6. CASE ApplyReport
  <2>1. /\ UNCHANGED <<tick, orders, sent, marks, cursor, seen, booked>>
        /\ batch' \subseteq batch /\ reconciled' \subseteq reconciled \cup batch
    BY <1>6, ApplyReportStep
  <2>2. QED
    BY <2>1 DEF Numbered
<1>7. CASE RecordReport \/ SyncPositions \/ ReportFails
  BY <1>7, RestOfReportStep DEF Numbered
<1>8. CASE Restart
  BY <1>8, RestartStep, StateTypes DEF Numbered, Idle
<1>9. CASE UNCHANGED vars
  BY <1>9, StutterStep DEF Numbered
<1>10. QED
  BY <1>1, <1>2, <1>3, <1>4, <1>5, <1>6, <1>7, <1>8, <1>9, StepCases

-------------------------------------------------------------------------------
(* What the reconcile loop works on are orders filled at a known price,    *)
(* which will not change any more; in the default mode it has nothing to   *)
(* do.                                                                     *)
ReportsAreFills ==
    /\ \A o \in seen \cup batch \cup reconciled :
          orders[o].status = "filled" /\ orders[o].price \in Prices
    /\ batch \subseteq seen /\ reconciled \subseteq seen
    /\ applying.step # "ready" => applying.order \in reconciled
    /\ \A o \in seen : o <= cursor
    /\ mode = "simulated" => seen = {} /\ applying = Ready

(* ReportsAreFills is inductive.                                           *)
LEMMA InitReportsAreFills == ASSUME Init PROVE ReportsAreFills
  BY DEF Init, ReportsAreFills, Ready

LEMMA ReportsAreFillsInvariant ==
    ASSUME IInv, Numbered, ReportsAreFills, [Next]_vars
    PROVE  ReportsAreFills'
<1>1. CASE Aside
  BY <1>1, AsideStep DEF ReportsAreFills
<1>2. CASE Submit
  <2>1. /\ UNCHANGED <<mode, reconciled, cursor, seen, batch, applying>>
        /\ \A o \in OrderIds : o # sent + 1 => orders'[o] = orders[o]
    BY <1>2, SubmitStep
  <2>2. \A o \in seen \cup batch \cup reconciled : o \in OrderIds /\ o # sent + 1
    BY StateTypes DEF Numbered
  <2>3. QED
    BY <2>1, <2>2 DEF ReportsAreFills
<1>3. CASE SubmitReturns
  BY <1>3, SubmitReturnsStep DEF ReportsAreFills
<1>4. CASE Broker
  <2>1. /\ UNCHANGED <<mode, reconciled, cursor, seen, batch, applying>>
        /\ \A o \in OrderIds : SameDeal(o) /\ (orders'[o] = orders[o] \/ Moves(o))
    BY <1>4, BrokerStep
  <2>2. 0 \notin Prices
    BY OrderFlowAssumption
  <2>3. \A o \in seen \cup batch \cup reconciled : orders'[o] = orders[o]
    BY <2>1, <2>2, StateTypes DEF ReportsAreFills, Moves
  <2>4. QED
    BY <2>1, <2>3 DEF ReportsAreFills
<1>5. CASE Poll
  <2>1. /\ UNCHANGED <<mode, orders, reconciled, applying>> /\ mode = "alpaca_paper"
        /\ batch' \subseteq Reportable /\ seen' = seen \cup Reportable
        /\ cursor' \in Visible /\ \A o \in Visible : o <= cursor'
    BY <1>5, PollStep
  <2>2. \A o \in Reportable : /\ o \in Visible /\ orders[o].status = "filled"
                              /\ orders[o].price \in Prices
    <3> TAKE o \in Reportable
    <3>1. /\ o \in Visible /\ o \in OrderIds /\ orders[o].price # 0
          /\ orders[o].status \in {"new", "filled", "canceled"}
      BY DEF Reportable, Visible
    <3>2. orders[o].price \in Prices
      BY <3>1, OrderTypes DEF Order
    <3>3. orders[o].status = "filled"
      BY <3>1 DEF Numbered
    <3>4. QED
      BY <3>1, <3>2, <3>3
  <2>3. \A o \in seen : o <= cursor'
    BY <2>1, StateTypes DEF ReportsAreFills, Visible
  <2>4. QED
    BY <2>1, <2>2, <2>3 DEF ReportsAreFills
<1>6. CASE ApplyReport
  <2>1. /\ UNCHANGED <<mode, orders, cursor, seen>>
        /\ \E o \in batch :
              /\ batch' = batch \ {o}
              /\ \/ UNCHANGED <<reconciled, applying>>
                 \/ /\ reconciled' = reconciled \cup {o}
                    /\ applying' = [step |-> "trade", order |-> o]
    BY <1>6, ApplyReportStep
  <2>2. QED
    BY <2>1 DEF ReportsAreFills
<1>7. CASE RecordReport \/ SyncPositions \/ ReportFails
  BY <1>7, RestOfReportStep DEF ReportsAreFills, Ready
<1>8. CASE Restart
  BY <1>8, RestartStep DEF ReportsAreFills, Ready
<1>9. CASE UNCHANGED vars
  BY <1>9, StutterStep DEF ReportsAreFills
<1>10. QED
  BY <1>1, <1>2, <1>3, <1>4, <1>5, <1>6, <1>7, <1>8, <1>9, StepCases

-------------------------------------------------------------------------------
(* The sum of what was booked.                                             *)

Executions == [o \in OrderIds |-> Executed(o)]
HoldsSum == \A a \in Agents : books[a].qty = SumOf(Executions, BookedBy(a))

(* The library's sum is a sum. *)
LEMMA SumOfExecuted ==
    ASSUME NEW S \in SUBSET OrderIds, IsFiniteSet(S)
    PROVE  MapThenSumSet(Executed, S) = SumOf(Executions, S)
<1> DEFINE f == Executions
           R(g) == g = [s \in SUBSET S |->
                          IF s = {} THEN 0
                          ELSE Executed(CHOOSE x \in s : TRUE) + g[s \ {CHOOSE x \in s : TRUE}]]
           g == CHOOSE h : R(h)
<1>1. \A s \in SUBSET S : s # {} =>
         LET x == CHOOSE x \in s : TRUE IN x \in S /\ f[x] = Executed(x)
  BY DEF Executions
<1>2. \A h : R(h) <=> IsSum(h, f, S)
  BY <1>1 DEF IsSum, Pick
<1>3. R(g)
  <2> HIDE DEF R, f
  <2>1. PICK h : IsSum(h, f, S)
    BY SumExists, Zenon
  <2>2. R(h)
    BY <1>2, <2>1, Zenon
  <2>3. QED
    BY <2>2, Zenon
<1>4. MapThenSumSet(Executed, S) = g[S]
  BY DEF MapThenSumSet, MapThenFoldSet
<1> HIDE DEF g, R
<1>5. SumOf(f, S) = g[S]
  BY <1>2, <1>3, SumOfIs
<1>6. QED
  BY <1>4, <1>5

(* The sums are over finite sets of integers.                              *)
LEMMA OrderSetsAreFinite == ASSUME NEW S \in SUBSET OrderIds PROVE IsFiniteSet(S)
<1>1. MaxOrders \in Nat /\ 1 \in Int
  BY ConstantTypes
<1>2. IsFiniteSet(1 .. MaxOrders)
  BY <1>1, FS_Interval
<1>3. QED
  BY <1>2, FS_Subset DEF OrderIds

LEMMA ExecutionType == ASSUME IInv, NEW o \in OrderIds PROVE Executed(o) \in Int /\ Executions[o] = Executed(o)
  BY OrderTypes, SignedType DEF Executed, Executions

(* What is held is the sum of what was booked, in every step: a fill adds  *)
(* its order to both, and a restart empties both.                          *)
LEMMA HoldsInvariant ==
    ASSUME IInv, Lots, Numbered, HoldsSum, [Next]_vars
    PROVE  HoldsSum'
<1>1. ASSUME NEW S \in SUBSET OrderIds,
             \A o \in S : orders'[o].side = orders[o].side /\ orders'[o].n = orders[o].n
      PROVE  SumOf(Executions, S) = SumOf(Executions', S)
  <2>1. \A o \in S : Executions[o] = Executions'[o]
    BY <1>1 DEF Executions, Executed, Signed
  <2>2. QED
    BY <2>1, OrderSetsAreFinite, SumOfSame
<1>2. ASSUME NEW a \in Agents, BookedBy(a)' = BookedBy(a), books'[a].qty = books[a].qty,
             \A o \in BookedBy(a) : orders'[o].side = orders[o].side /\ orders'[o].n = orders[o].n
      PROVE  books'[a].qty = SumOf(Executions', BookedBy(a)')
  <2>1. BookedBy(a) \in SUBSET OrderIds
    BY StateTypes DEF BookedBy
  <2>2. SumOf(Executions, BookedBy(a)) = SumOf(Executions', BookedBy(a))
    BY <1>1, <1>2, <2>1
  <2>3. QED
    BY <1>2, <2>2 DEF HoldsSum
<1>3. CASE \/ Aside \/ Poll \/ RecordReport \/ SyncPositions \/ ReportFails \/ UNCHANGED vars
  <2>1. UNCHANGED <<books, orders, booked>>
    BY <1>3, AsideStep, PollStep, RestOfReportStep, StutterStep
  <2>2. QED
    BY <1>2, <2>1 DEF HoldsSum, BookedBy
<1>4. CASE Submit
  <2>1. UNCHANGED <<books, booked>> /\ \A o \in OrderIds : o # sent + 1 => orders'[o] = orders[o]
    BY <1>4, SubmitStep
  <2>2. \A o \in booked : o \in OrderIds /\ o # sent + 1
    BY StateTypes DEF Numbered
  <2>3. QED
    BY <1>2, <2>1, <2>2 DEF HoldsSum, BookedBy
<1>5. CASE SubmitReturns
  <2>1. /\ UNCHANGED orders /\ tick.step = "submitting" /\ sent \in OrderIds
        /\ booked' = booked \cup {sent}
        /\ books'[orders[sent].agent] =
              RecordFill(books[orders[sent].agent], orders[sent].side, orders[sent].n,
                         orders[sent].mark)
        /\ \A a \in Agents : a # orders[sent].agent => books'[a] = books[a]
    BY <1>5, SubmitReturnsStep
  <2>2. /\ orders[sent].agent \in Agents /\ orders[sent].side \in Sides
        /\ orders[sent].n \in Nat /\ orders[sent].mark \in Int
        /\ books[orders[sent].agent] \in Book
        /\ Fits(orders[sent].side, orders[sent].n, books[orders[sent].agent])
    BY <2>1, OrderTypes DEF Lots
  <2>3. PICK c \in Agents : c = orders[sent].agent
    BY <2>2
  <2>4. /\ books'[c].qty = books[c].qty + Executed(sent)
        /\ books[c].qty \in Int /\ Executed(sent) \in Int
    BY <2>1, <2>2, <2>3, FillOfLot, ExecutionType DEF Executed, Book
  <2>5. booked \subseteq OrderIds /\ sent \notin booked
    BY <2>1, StateTypes DEF Numbered
  <2>6. \A a \in Agents : BookedBy(a)' = {i \in booked \cup {sent} : orders[i].agent = a}
    BY <2>1 DEF BookedBy
  <2>7. \A a \in Agents : a # c => BookedBy(a)' = BookedBy(a)
    BY <2>3, <2>6 DEF BookedBy
  <2> DEFINE T == BookedBy(c)
  <2>8. T \in SUBSET OrderIds /\ sent \notin T /\ BookedBy(c)' = T \cup {sent}
    BY <2>3, <2>5, <2>6 DEF BookedBy
  <2>9. SumOf(Executions, T \cup {sent}) = Executed(sent) + SumOf(Executions, T)
    <3>1. \A x \in T \cup {sent} : Executions[x] \in Int /\ Executions[x] = Executed(x)
      BY <2>1, <2>8, ExecutionType
    <3>2. IsFiniteSet(T)
      BY <2>8, OrderSetsAreFinite
    <3> HIDE DEF T
    <3>3. QED
      BY <2>8, <3>1, <3>2, SumOfAdd, SMTT(30)
  <2>10. books[c].qty = SumOf(Executions, T)
    BY DEF HoldsSum
  <2>11. Executions' = Executions
    BY <2>1 DEF Executions, Executed
  <2>12. books'[c].qty = SumOf(Executions', BookedBy(c)')
    BY <2>4, <2>8, <2>9, <2>10, <2>11
  <2>13. \A a \in Agents : a # c => books'[a].qty = SumOf(Executions', BookedBy(a)')
    BY <1>2, <2>1, <2>3, <2>7
  <2>14. \A a \in Agents : books'[a].qty = SumOf(Executions', BookedBy(a)')
    BY <2>12, <2>13
  <2>15. QED
    BY <2>14 DEF HoldsSum
<1>6. CASE Broker
  <2>1. UNCHANGED <<books, booked>> /\ \A o \in OrderIds : SameDeal(o)
    BY <1>6, BrokerStep
  <2>2. \A o \in booked : o \in OrderIds
    BY StateTypes
  <2>3. QED
    BY <1>2, <2>1, <2>2 DEF HoldsSum, BookedBy, SameDeal
<1>7. CASE ApplyReport
  <2>1. UNCHANGED <<orders, booked>> /\ \A a \in Agents : books'[a].qty = books[a].qty
    BY <1>7, ApplyReportStep, ApplyReportQuantities
  <2>2. QED
    BY <1>2, <2>1 DEF HoldsSum, BookedBy
<1>8. CASE Restart
  <2>1. \A a \in Agents : books'[a].qty = 0 /\ BookedBy(a)' = {}
    BY <1>8, RestartStep DEF NewBook, BookedBy
  <2>2. QED
    BY <2>1, SumOfEmpty DEF HoldsSum
<1>9. QED
  BY <1>3, <1>4, <1>5, <1>6, <1>7, <1>8, StepCases

-------------------------------------------------------------------------------
(* In the default mode an agent can pay for what it has sent. *)
Solvent ==
    mode = "simulated" =>
        /\ \A a \in Agents : books[a].cash >= 0
        /\ tick.step = "submitting" /\ orders[sent].side = "buy" =>
              books[orders[sent].agent].cash >= orders[sent].n * orders[sent].mark

(* Solvent is inductive: what an agent spends was checked against its      *)
(* cash.                                                                   *)
LEMMA InitSolvent == ASSUME Init PROVE Solvent
  BY ConstantTypes DEF Init, Solvent, NewBook, Idle

LEMMA SolventInvariant ==
    ASSUME IInv, Lots, ReportsAreFills, Solvent, [Next]_vars
    PROVE  Solvent'
<1>1. CASE \/ Aside \/ Poll \/ RecordReport \/ SyncPositions \/ ReportFails \/ UNCHANGED vars
  <2>1. /\ UNCHANGED <<mode, books, orders, sent>>
        /\ UNCHANGED tick \/ tick'.step \in {"idle", "orders"}
    BY <1>1, AsideStep, PollStep, RestOfReportStep, StutterStep
  <2>2. QED
    BY <2>1 DEF Solvent
<1>2. CASE Submit
  <2>1. /\ UNCHANGED <<mode, books>> /\ orders'[sent'] = NewOrder
        /\ Signalled.side \in Sides /\ MaySubmit
    BY <1>2, SubmitStep
  <2>2. NewOrder.side = "buy" => books[NewOrder.agent].cash >= NewOrder.n * NewOrder.mark
    BY <2>1 DEF NewOrder, MaySubmit, CheckEntry
  <2> HIDE DEF NewOrder
  <2>3. QED
    BY <2>1, <2>2 DEF Solvent
<1>3. CASE SubmitReturns
  <2>1. /\ UNCHANGED mode /\ tick.step = "submitting" /\ tick'.step = "booking"
        /\ sent \in OrderIds
        /\ books'[orders[sent].agent] =
              RecordFill(books[orders[sent].agent], orders[sent].side, orders[sent].n,
                         orders[sent].mark)
        /\ \A a \in Agents : a # orders[sent].agent => books'[a] = books[a]
    BY <1>3, SubmitReturnsStep
  <2>2. /\ orders[sent].agent \in Agents /\ orders[sent].side \in Sides
        /\ orders[sent].n \in Nat /\ orders[sent].mark \in Nat
        /\ books[orders[sent].agent] \in Book
        /\ Fits(orders[sent].side, orders[sent].n, books[orders[sent].agent])
    BY <2>1, OrderTypes DEF Lots
  <2> DEFINE c == orders[sent].agent
             side == orders[sent].side
             n == orders[sent].n
             mark == orders[sent].mark
             b == books[c]
  <2>3. books'[c].cash = b.cash - mark * Signed(side, n)
    BY <2>1, <2>2, FillOfLot
  <2>4. mode = "simulated" => b.cash >= 0 /\ (side = "buy" => b.cash >= n * mark)
    BY <2>1, <2>2 DEF Solvent
  <2>5. mode = "simulated" => books'[c].cash >= 0
    <3>1. b.cash \in Int /\ n * mark \in Nat /\ mark * n = n * mark /\ mark * (-n) = -(n * mark)
      BY <2>2 DEF Book
    <3>2. CASE side = "buy"
      BY <2>3, <2>4, <3>1, <3>2 DEF Signed
    <3>3. CASE side = "sell"
      BY <2>3, <2>4, <3>1, <3>3 DEF Signed
    <3>4. QED
      BY <2>2, <3>2, <3>3 DEF Sides
  <2>6. QED
    BY <2>1, <2>5 DEF Solvent
<1>4. CASE Broker
  <2>1. UNCHANGED <<mode, books, tick, sent>> /\ \A o \in OrderIds : SameDeal(o)
    BY <1>4, BrokerStep
  <2>2. tick.step = "submitting" => sent \in OrderIds
    BY DEF IInv, TasksAreBusyWithSomething
  <2>3. QED
    BY <2>1, <2>2 DEF Solvent, SameDeal
<1>5. CASE ApplyReport
  <2>1. UNCHANGED mode /\ batch # {}
    BY <1>5, ApplyReportStep
  <2>2. QED
    BY <2>1 DEF Solvent, ReportsAreFills
<1>6. CASE Restart
  BY <1>6, RestartStep, ConstantTypes DEF Solvent, NewBook, Idle
<1>7. QED
  BY <1>1, <1>2, <1>3, <1>4, <1>5, <1>6, StepCases

-------------------------------------------------------------------------------
NoneOf(faults) == Faults \cap faults = {}

(* A booked order was accepted by the broker, which cancels none unless it *)
(* is a fault considered.                                                  *)
Accepted ==
    \A o \in OrderIds :
        /\ o \in booked => orders[o].status \in {"new", "filled", "canceled"}
        /\ orders[o].status = "canceled" => "cancel" \in Faults

(* Unless an answer is lost or the process dies, every order that was sent *)
(* is booked, is refused or is the one on its way.                         *)
NoneAstray ==
    NoneOf({"lost", "crash"}) =>
        \A o \in OrderIds :
            o <= sent => \/ o \in booked
                         \/ orders[o].status = "rejected"
                         \/ o = sent /\ tick.step = "submitting"

(* Accepted and NoneAstray are inductive.                                  *)
LEMMA InitNoneAstray == ASSUME Init PROVE Accepted /\ NoneAstray
  BY DEF Init, Accepted, NoneAstray, Unsent, OrderIds

LEMMA AcceptedInvariant ==
    ASSUME IInv, Numbered, Accepted, [Next]_vars
    PROVE  Accepted'
<1>1. CASE \/ Aside \/ Poll \/ ApplyReport \/ RecordReport \/ SyncPositions \/ ReportFails
           \/ UNCHANGED vars
  <2>1. UNCHANGED <<orders, booked>>
    BY <1>1, AsideStep, PollStep, ApplyReportStep, RestOfReportStep, StutterStep
  <2>2. QED
    BY <2>1 DEF Accepted
<1>2. CASE Submit
  <2>1. /\ UNCHANGED booked /\ orders'[sent + 1] = NewOrder
        /\ \A o \in OrderIds : o # sent + 1 => orders'[o] = orders[o]
    BY <1>2, SubmitStep
  <2>2. \A o \in booked : o # sent + 1
    BY StateTypes DEF Numbered
  <2>3. QED
    BY <2>1, <2>2 DEF Accepted, NewOrder
<1>3. CASE SubmitReturns
  <2>1. /\ UNCHANGED orders /\ booked' = booked \cup {sent} /\ sent \in OrderIds
        /\ orders[sent].status \notin {"sent", "rejected"} /\ orders[sent] \in Order
    BY <1>3, SubmitReturnsStep
  <2>2. orders[sent].status \in {"new", "filled", "canceled"}
    BY <2>1, StateTypes DEF Order, Statuses, Numbered
  <2>3. QED
    BY <2>1, <2>2 DEF Accepted
<1>4. CASE Broker
  <2>1. UNCHANGED booked /\ \A o \in OrderIds : orders'[o] = orders[o] \/ Moves(o)
    BY <1>4, BrokerStep
  <2>2. QED
    BY <2>1 DEF Accepted, Moves
<1>5. CASE Restart
  BY <1>5, RestartStep DEF Accepted
<1>6. QED
  BY <1>1, <1>2, <1>3, <1>4, <1>5, StepCases

LEMMA NoneAstrayInvariant ==
    ASSUME IInv, Numbered, NoneAstray, [Next]_vars
    PROVE  NoneAstray'
<1> SUFFICES ASSUME NoneOf({"lost", "crash"}), NEW o \in OrderIds, o <= sent'
             PROVE  \/ o \in booked'
                    \/ orders'[o].status = "rejected"
                    \/ o = sent' /\ tick'.step = "submitting"
  BY DEF NoneAstray, NoneOf
<1>1. o <= sent => \/ o \in booked
                   \/ orders[o].status = "rejected"
                   \/ o = sent /\ tick.step = "submitting"
  BY DEF NoneAstray
<1>2. CASE Aside
  <2>1. UNCHANGED <<orders, sent, booked>>
    BY <1>2, AsideStep
  <2>2. tick.step # "submitting" \/ orders[sent].status = "rejected"
    BY <1>2 DEF Aside, StartTick, SkipSignal, SkipOffHours, SubmitRaises, RecordFillAtomic,
                RecordFillFails, EndTick, NoneOf
  <2>3. QED
    BY <1>1, <2>1, <2>2
<1>3. CASE Submit
  <2>1. /\ UNCHANGED booked /\ tick.step = "orders" /\ tick'.step = "submitting"
        /\ sent \in Nat /\ sent' = sent + 1
        /\ o # sent + 1 => orders'[o] = orders[o]
    BY <1>3, SubmitStep
  <2>2. o \in Nat
    BY ConstantTypes
  <2>3. QED
    BY <1>1, <2>1, <2>2
<1>4. CASE SubmitReturns
  BY <1>1, <1>4, SubmitReturnsStep
<1>5. CASE Broker
  <2>1. UNCHANGED <<tick, sent, booked>> /\ (orders'[o] = orders[o] \/ Moves(o))
    BY <1>5, BrokerStep
  <2>2. QED
    BY <1>1, <2>1 DEF Moves
<1>6. CASE \/ Poll \/ ApplyReport \/ RecordReport \/ SyncPositions \/ ReportFails
           \/ UNCHANGED vars
  <2>1. UNCHANGED <<tick, orders, sent, booked>>
    BY <1>6, PollStep, ApplyReportStep, RestOfReportStep, StutterStep
  <2>2. QED
    BY <1>1, <2>1
<1>7. CASE Restart
  BY <1>7, RestartStep DEF NoneOf
<1>8. QED
  BY <1>2, <1>3, <1>4, <1>5, <1>6, <1>7, StepCases

(* So at the broker an agent owns what its book shows, plus the order on   *)
(* its way; and that order, if it is a sale, sells just what the book has. *)
LEMMA NotShortAtTheBroker ==
    ASSUME IInv, Lots, Numbered, HoldsSum, Accepted, NoneAstray, NoneOf({"lost", "crash", "cancel"})
    PROVE  BrokerNeverShort
<1> SUFFICES ASSUME NEW a \in Agents
             PROVE  MapThenSumSet(Executed, AtBroker(a)) >= 0
  BY DEF BrokerNeverShort
<1> DEFINE T == BookedBy(a)
<1>1. /\ T \in SUBSET OrderIds /\ AtBroker(a) \in SUBSET OrderIds
      /\ books[a].qty \in Nat /\ books[a].qty = SumOf(Executions, T)
  BY StateTypes DEF BookedBy, AtBroker, IInv, TypeOK, Book, LongOnly, HoldsSum
<1>2. MapThenSumSet(Executed, AtBroker(a)) = SumOf(Executions, AtBroker(a))
  BY <1>1, OrderSetsAreFinite, SumOfExecuted
<1>3. \A o \in OrderIds :
         o \in AtBroker(a) <=> /\ orders[o].agent = a
                               /\ \/ o \in booked
                                  \/ /\ o = sent /\ tick.step = "submitting"
                                     /\ orders[o].status # "rejected"
  <2> TAKE o \in OrderIds
  <2>1. /\ o \in booked => orders[o].status \in {"new", "filled"}
        /\ orders[o].status # "canceled"
    BY DEF Accepted, NoneOf
  <2>2. orders[o].status # "unsent" =>
           o \in booked \/ orders[o].status = "rejected" \/ (o = sent /\ tick.step = "submitting")
    BY StateTypes DEF Numbered, NoneAstray, NoneOf
  <2>3. o = sent => orders[o].status # "unsent"
    BY StateTypes DEF Numbered
  <2>4. orders[o].status \in Statuses
    BY OrderTypes DEF Order
  <2>5. QED
    BY <2>1, <2>2, <2>3, <2>4 DEF AtBroker, Statuses
<1>4. CASE /\ tick.step = "submitting" /\ orders[sent].agent = a
           /\ orders[sent].status # "rejected"
  <2>1. sent \in OrderIds /\ sent \notin T
    BY <1>4 DEF IInv, TasksAreBusyWithSomething, Numbered, BookedBy
  <2>2. AtBroker(a) = T \cup {sent}
    BY <1>1, <1>3, <1>4, <2>1 DEF BookedBy
  <2>3. SumOf(Executions, T \cup {sent}) = Executed(sent) + SumOf(Executions, T)
    <3>1. \A x \in T \cup {sent} : Executions[x] \in Int /\ Executions[x] = Executed(x)
      BY <1>1, <2>1, ExecutionType
    <3>2. IsFiniteSet(T)
      BY <1>1, OrderSetsAreFinite
    <3>3. Executions[sent] = Executed(sent)
      BY <3>1
    <3> HIDE DEF T
    <3>4. QED
      BY <2>1, <3>1, <3>2, <3>3, SumOfAdd
  <2>4. /\ orders[sent].side \in Sides /\ orders[sent].n \in Nat
        /\ Fits(orders[sent].side, orders[sent].n, books[a])
    BY <1>4, <2>1, OrderTypes DEF Lots
  <2>5. Executed(sent) + books[a].qty >= 0
    BY <1>1, <2>4 DEF Executed, Signed, Fits, Sides
  <2>6. QED
    BY <1>1, <1>2, <2>2, <2>3, <2>5
<1>5. CASE ~(/\ tick.step = "submitting" /\ orders[sent].agent = a
             /\ orders[sent].status # "rejected")
  <2>1. AtBroker(a) = T
    BY <1>1, <1>3, <1>5 DEF BookedBy
  <2>2. QED
    BY <1>1, <1>2, <2>1
<1>6. QED
  BY <1>4, <1>5

-------------------------------------------------------------------------------
(* What the books need, together inductive. *)
BookingInv ==
    /\ IInv /\ Lots /\ Numbered /\ ReportsAreFills
    /\ HoldsSum
    /\ Solvent
    /\ Accepted /\ NoneAstray

LEMMA InitHoldsSum == ASSUME Init PROVE HoldsSum
<1>1. \A a \in Agents : books[a].qty = 0 /\ BookedBy(a) = {}
  BY DEF Init, NewBook, BookedBy
<1>2. QED
  BY <1>1, SumOfEmpty DEF HoldsSum

LEMMA BookingInvHolds == Spec => []BookingInv
<1>1. Init => BookingInv
  BY InitIInv, InitNumbered, InitReportsAreFills, InitHoldsSum, InitSolvent, InitNoneAstray
     DEF BookingInv
<1>2. BookingInv /\ IInv' /\ [Next]_vars => BookingInv'
  BY LotsInvariant, NumberedInvariant, ReportsAreFillsInvariant, HoldsInvariant, SolventInvariant,
     AcceptedInvariant, NoneAstrayInvariant DEF BookingInv
<1>3. QED
  BY <1>1, <1>2, IInvHolds, PTL DEF Spec

(* The quantity in a book is the sum of the signed sizes of the orders     *)
(* booked to it, with every fault allowed: record_fill cuts nothing off    *)
(* the orders this program sends, and reconcile_fill moves no quantity.    *)
THEOREM HoldsWhatItBookedHolds == Spec => []HoldsWhatItBooked
<1>1. IInv /\ HoldsSum => HoldsWhatItBooked
  <2> SUFFICES ASSUME IInv, HoldsSum, NEW a \in Agents
               PROVE  books[a].qty = MapThenSumSet(Executed, BookedBy(a))
    BY DEF HoldsWhatItBooked
  <2>1. BookedBy(a) \in SUBSET OrderIds
    BY StateTypes DEF BookedBy
  <2>2. QED
    BY <2>1, OrderSetsAreFinite, SumOfExecuted DEF HoldsSum
<1>2. QED
  BY <1>1, BookingInvHolds, PTL DEF BookingInv

(* An agent in the default mode spends no more cash than it has, and none  *)
(* owes shares at the broker, if no answer of the broker is lost, nothing  *)
(* is cancelled there and the process lives on.  The second half is about  *)
(* sixty seconds after which a pending exit is forgotten and sent again.   *)
THEOREM NothingBorrowedHolds ==
    ASSUME Faults \cap {"lost", "crash", "cancel"} = {}
    PROVE  Spec => []NothingBorrowed
<1>1. BookingInv => NothingBorrowed
  BY NotShortAtTheBroker DEF BookingInv, NothingBorrowed, NeverOverdrawn, Solvent, NoneOf
<1>2. QED
  BY <1>1, BookingInvHolds, PTL

-------------------------------------------------------------------------------
(***************************************************************************)
(* What OrderFlow keeps on record: the rows of the trades and positions    *)
(* tables, against the fills at the broker and the books of the agents,    *)
(* and the cash, against the ledger of FillLedger.                         *)
(*                                                                         *)
(* Tick and reconcile loop write the same rows, each after awaits in which *)
(* the other runs.  So no invariant says that tables and books agree; the  *)
(* ones here say who is still going to write what they lack.  Each holds   *)
(* under the faults it names and no others, and the runs with those faults *)
(* show that it needs them.                                                *)
(***************************************************************************)

(* The two writers of the tables: RecordFillAtomic and the reconcile loop. *)
LEMMA TablesStep ==
    ASSUME IInv, [Next]_vars
    PROVE  \/ UNCHANGED <<trades, positions>>
           \/ RecordFillAtomic /\ trades[sent] = "none"
           \/ RecordReport \/ SyncPositions
<1>1. CASE \/ StartTick \/ SkipSignal \/ SkipOffHours \/ SubmitRaises \/ RecordFillFails \/ EndTick
  BY <1>1 DEF StartTick, SkipSignal, SkipOffHours, SubmitRaises, RecordFillFails, EndTick, dbVars
<1>2. CASE RecordFillAtomic
  BY <1>2 DEF RecordFillAtomic, dbVars
<1>3. CASE Submit \/ SubmitReturns
  BY <1>3, SubmitStep, SubmitReturnsStep
<1>4. CASE Broker \/ Poll \/ ApplyReport
  BY <1>4, BrokerStep, PollStep, ApplyReportStep
<1>5. CASE ReportFails \/ Restart
  BY <1>5, RestartStep DEF ReportFails, dbVars
<1>6. CASE UNCHANGED vars
  BY <1>6, StutterStep
<1>7. QED
  BY <1>1, <1>2, <1>3, <1>4, <1>5, <1>6, StepCases DEF Aside

(* The tick writes the row of the order it booked, and the position.       *)
LEMMA RecordFillAtomicStep ==
    ASSUME IInv, RecordFillAtomic, trades[sent] = "none"
    PROVE  /\ tick.step = "booking" /\ sent \in OrderIds /\ orders[sent].agent \in Agents
           /\ trades'[sent] = "optimistic"
           /\ \A o \in OrderIds : o # sent => trades'[o] = trades[o]
           /\ positions'[orders[sent].agent] = PositionOf(books[orders[sent].agent])
           /\ \A a \in Agents : a # orders[sent].agent => positions'[a] = positions[a]
<1>1. /\ tick.step = "booking"
      /\ trades' = [trades EXCEPT ![sent] = "optimistic"]
      /\ positions' = [positions EXCEPT ![orders[sent].agent] = PositionOf(books[orders[sent].agent])]
  BY DEF RecordFillAtomic
<1>2. sent \in OrderIds
  BY <1>1 DEF IInv, TasksAreBusyWithSomething
<1>3. orders[sent].agent \in Agents
  BY <1>2, OrderTypes
<1>4. trades \in [OrderIds -> TradeRows] /\ positions \in [Agents -> Position]
  BY DEF IInv, TypeOK
<1>5. QED
  BY <1>1, <1>2, <1>3, <1>4

(* The reconcile loop overwrites or inserts the row of its order.          *)
LEMMA RecordReportStep ==
    ASSUME IInv, RecordReport
    PROVE  /\ applying.step = "trade" /\ applying.order \in OrderIds
           /\ applying'.step = "sync" /\ applying'.order = applying.order
           /\ UNCHANGED <<batch, positions>>
           /\ trades'[applying.order] # "none"
           /\ \A o \in OrderIds : o # applying.order => trades'[o] = trades[o]
           /\ \A o \in OrderIds : trades[o] # "none" => trades'[o] # "none"
<1>1. /\ applying.step = "trade"
      /\ trades' = [trades EXCEPT ![applying.order] = IF @ = "none" THEN "reconciled" ELSE @]
      /\ applying' = [applying EXCEPT !.step = "sync"]
      /\ UNCHANGED <<batch, positions>>
  BY DEF RecordReport
<1>2. /\ applying.order \in OrderIds /\ trades \in [OrderIds -> TradeRows]
      /\ applying \in [step : ApplySteps, order : 0 .. MaxOrders]
  BY <1>1 DEF IInv, TypeOK, TasksAreBusyWithSomething
<1>3. QED
  BY <1>1, <1>2

(* It then copies the agent's position from the book.                      *)
LEMMA SyncPositionsStep ==
    ASSUME IInv, SyncPositions
    PROVE  /\ applying.step = "sync" /\ applying.order \in OrderIds
           /\ applying' = Ready /\ UNCHANGED <<batch, trades>>
           /\ orders[applying.order].agent \in Agents
           /\ positions'[orders[applying.order].agent] =
                 PositionOf(books[orders[applying.order].agent])
           /\ \A a \in Agents : a # orders[applying.order].agent => positions'[a] = positions[a]
<1>1. /\ applying.step = "sync" /\ applying' = Ready /\ UNCHANGED <<batch, trades>>
      /\ positions' = [positions EXCEPT ![orders[applying.order].agent] =
                         PositionOf(books[orders[applying.order].agent])]
  BY DEF SyncPositions
<1>2. applying.order \in OrderIds
  BY <1>1 DEF IInv, TasksAreBusyWithSomething
<1>3. orders[applying.order].agent \in Agents
  BY <1>2, OrderTypes
<1>4. positions \in [Agents -> Position]
  BY DEF IInv, TypeOK
<1>5. QED
  BY <1>1, <1>2, <1>3, <1>4

(* No order has a row before it is sent. *)
RowsAreSent == \A o \in OrderIds : HasRow(o) => o <= sent

LEMMA RowsAreSentInvariant ==
    ASSUME IInv, Numbered, ReportsAreFills, RowsAreSent, [Next]_vars
    PROVE  RowsAreSent'
<1> SUFFICES ASSUME NEW o \in OrderIds, trades'[o] # "none" PROVE o <= sent'
  BY DEF RowsAreSent, HasRow
<1>1. sent' = sent \/ sent' = sent + 1
  BY AsideStep, SubmitStep, SubmitReturnsStep, BrokerStep, PollStep, ApplyReportStep,
     RestOfReportStep, RestartStep, StutterStep, StepCases
<1>2. o \in Nat /\ sent \in Nat
  BY StateTypes
<1>3. o <= sent
  <2>1. CASE trades[o] # "none"
    BY <2>1 DEF RowsAreSent, HasRow
  <2>2. CASE trades[o] = "none"
    <3>1. CASE RecordFillAtomic /\ trades[sent] = "none"
      BY <1>2, <2>2, <3>1, RecordFillAtomicStep
    <3>2. CASE RecordReport
      <4>1. o = applying.order /\ applying.step = "trade"
        BY <2>2, <3>2, RecordReportStep
      <4>2. QED
        BY <4>1 DEF ReportsAreFills, Numbered
    <3>3. CASE SyncPositions \/ UNCHANGED <<trades, positions>>
      BY <2>2, <3>3, SyncPositionsStep
    <3>4. QED
      BY <3>1, <3>2, <3>3, TablesStep
  <2>3. QED
    BY <2>1, <2>2
<1>4. QED
  BY <1>1, <1>2, <1>3

-------------------------------------------------------------------------------
(* Without that race an order on its way is not filled yet, except in the  *)
(* default mode, where the broker fills it at once.                        *)
NotFilledOnItsWay ==
    "race" \notin Faults =>
        (tick.step = "submitting" /\ mode # "simulated" => orders[sent].status # "filled")

LEMMA NotFilledOnItsWayInvariant ==
    ASSUME IInv, Numbered, NotFilledOnItsWay, [Next]_vars
    PROVE  NotFilledOnItsWay'
<1> SUFFICES ASSUME "race" \notin Faults, tick'.step = "submitting", mode' # "simulated"
             PROVE  orders'[sent'].status # "filled"
  BY DEF NotFilledOnItsWay
<1>1. tick.step = "submitting" /\ mode # "simulated" => orders[sent].status # "filled"
  BY DEF NotFilledOnItsWay
<1>2. CASE Submit
  BY <1>2, SubmitStep DEF NewOrder
<1>3. CASE Broker
  <2>1. /\ UNCHANGED <<mode, tick, sent>>
        /\ \A o \in OrderIds : orders'[o] = orders[o] \/ Moves(o)
    BY <1>3, BrokerStep
  <2>2. sent \in OrderIds /\ sent \notin booked
    BY <2>1 DEF IInv, TasksAreBusyWithSomething, Numbered
  <2>3. QED
    BY <1>1, <2>1, <2>2 DEF Moves
<1>4. CASE \/ Poll \/ ApplyReport \/ RecordReport \/ SyncPositions \/ ReportFails
           \/ UNCHANGED vars
  BY <1>1, <1>4, PollStep, ApplyReportStep, RestOfReportStep, StutterStep
<1>5. ~Aside /\ ~SubmitReturns /\ ~Restart
  BY AsideStep, SubmitReturnsStep, RestartStep DEF Idle
<1>6. QED
  BY <1>2, <1>3, <1>4, <1>5, StepCases

-------------------------------------------------------------------------------
(* Where the positions table differs from the book of an agent, a row of   *)
(* one of its fills is still to be written, or a report of one is being    *)
(* applied.  An order on its way has no row, and was not reported.         *)
Mirrored ==
    NoneOf({"race", "loop", "crash"}) =>
        /\ tick.step = "submitting" => trades[sent] = "none" /\ sent \notin seen
        /\ \A a \in Agents :
              \/ positions[a] = PositionOf(books[a])
              \/ \E o \in BookedBy(a) : ~HasRow(o)
              \/ applying.step # "ready" /\ orders[applying.order].agent = a

(* These three are inductive.                                              *)
LEMMA InitMirrored == ASSUME Init PROVE RowsAreSent /\ NotFilledOnItsWay /\ Mirrored
  BY DEF Init, NotFilledOnItsWay, RowsAreSent, HasRow, Mirrored, Idle, PositionOf, NewBook

LEMMA MirroredInvariant ==
    ASSUME IInv, Numbered, ReportsAreFills, RowsAreSent, NotFilledOnItsWay, Mirrored, [Next]_vars
    PROVE  Mirrored'
<1> SUFFICES ASSUME NoneOf({"race", "loop", "crash"})
             PROVE  /\ tick'.step = "submitting" => trades'[sent'] = "none" /\ sent' \notin seen'
                    /\ \A a \in Agents :
                          \/ positions'[a] = PositionOf(books'[a])
                          \/ \E o \in BookedBy(a)' : trades'[o] = "none"
                          \/ applying'.step # "ready" /\ orders'[applying'.order].agent = a
  BY DEF Mirrored, NoneOf, HasRow
<1> USE DEF HasRow
<1>1. "race" \notin Faults /\ "loop" \notin Faults /\ "crash" \notin Faults
  BY DEF NoneOf
<1>2. /\ tick.step = "submitting" => trades[sent] = "none" /\ sent \notin seen
      /\ tick.step = "submitting" /\ mode # "simulated" => orders[sent].status # "filled"
      /\ \A a \in Agents :
            \/ positions[a] = PositionOf(books[a])
            \/ \E o \in BookedBy(a) : trades[o] = "none"
            \/ applying.step # "ready" /\ orders[applying.order].agent = a
  BY <1>1 DEF Mirrored, NotFilledOnItsWay
<1>3. booked \subseteq OrderIds
  BY StateTypes
<1>4. CASE Aside
  <2>1. /\ UNCHANGED <<books, orders, applying, booked>> /\ tick'.step \in {"idle", "orders"}
    BY <1>4, AsideStep
  <2>2. CASE UNCHANGED <<trades, positions>>
    BY <1>2, <2>1, <2>2 DEF BookedBy
  <2>3. CASE RecordFillAtomic /\ trades[sent] = "none"
    BY <1>2, <1>3, <2>1, <2>3, RecordFillAtomicStep DEF BookedBy
  <2>4. UNCHANGED <<trades, positions>> \/ (RecordFillAtomic /\ trades[sent] = "none")
    BY <1>4 DEF Aside, StartTick, SkipSignal, SkipOffHours, SubmitRaises, RecordFillAtomic,
                RecordFillFails, EndTick, dbVars
  <2>5. QED
    BY <2>2, <2>3, <2>4
<1>5. CASE Submit
  <2>1. /\ UNCHANGED <<mode, books, seen, applying, trades, positions, booked>>
        /\ sent \in Nat /\ sent' = sent + 1 /\ sent + 1 \in OrderIds
        /\ orders'[sent + 1] = NewOrder
        /\ \A o \in OrderIds : o # sent + 1 => orders'[o] = orders[o]
    BY <1>5, SubmitStep
  <2>2. \A o \in booked \cup seen \cup reconciled : o # sent + 1 /\ o \in OrderIds
    BY <2>1, StateTypes DEF Numbered
  <2>3. trades[sent + 1] = "none"
    BY <2>1 DEF RowsAreSent
  <2>4. \A a \in Agents : BookedBy(a)' = BookedBy(a)
    BY <2>1, <2>2 DEF BookedBy
  <2>5. applying.step # "ready" => orders'[applying.order] = orders[applying.order]
    BY <2>1, <2>2 DEF ReportsAreFills
  <2> HIDE DEF NewOrder
  <2>6. QED
    BY <1>2, <2>1, <2>2, <2>3, <2>4, <2>5
<1>6. CASE SubmitReturns
  <2>1. /\ UNCHANGED <<orders, applying, trades, positions>>
        /\ tick.step = "submitting" /\ tick'.step = "booking"
        /\ booked' = booked \cup {sent}
        /\ \A a \in Agents : a # orders[sent].agent => books'[a] = books[a]
    BY <1>6, SubmitReturnsStep
  <2>2. QED
    BY <1>2, <2>1 DEF BookedBy
<1>7. CASE Broker
  <2>1. /\ UNCHANGED <<mode, books, tick, sent, seen, applying, trades, positions, booked>>
        /\ \A o \in OrderIds : SameDeal(o) /\ (orders'[o] = orders[o] \/ Moves(o))
    BY <1>7, BrokerStep
  <2>2. \A a \in Agents : BookedBy(a)' = BookedBy(a)
    BY <1>3, <2>1 DEF BookedBy, SameDeal
  <2>3. applying.step # "ready" => orders'[applying.order].agent = orders[applying.order].agent
    BY <2>1, StateTypes DEF SameDeal, ReportsAreFills
  <2>4. QED
    BY <1>2, <2>1, <2>2, <2>3
<1>8. CASE Poll
  <2>1. /\ UNCHANGED <<mode, books, tick, orders, sent, applying, trades, positions, booked>>
        /\ mode = "alpaca_paper" /\ seen' = seen \cup Reportable
    BY <1>8, PollStep
  <2>2. \A o \in Reportable : orders[o].status = "filled"
    BY DEF Reportable, Visible, Numbered
  <2>3. QED
    BY <1>2, <2>1, <2>2 DEF BookedBy
<1>9. CASE ApplyReport
  <2>1. /\ UNCHANGED <<mode, tick, orders, sent, seen, trades, positions, booked>>
        /\ applying = Ready
    BY <1>9, ApplyReportStep
  <2>2. \/ UNCHANGED <<books, applying>>
        \/ \E o \in OrderIds :
              /\ applying' = [step |-> "trade", order |-> o]
              /\ \A a \in Agents : a # orders[o].agent => books'[a] = books[a]
    BY <1>9, ApplyReportStep
  <2>3. QED
    BY <1>2, <2>1, <2>2 DEF BookedBy, Ready
<1>10. CASE RecordReport
  <2>1. UNCHANGED <<mode, books, tick, orders, sent, seen, booked>>
    BY <1>10, RestOfReportStep
  <2>2. tick.step = "submitting" => sent # applying.order /\ sent \in OrderIds
    BY <1>2, <1>10, RecordReportStep DEF ReportsAreFills, IInv, TasksAreBusyWithSomething
  <2>3. QED
    BY <1>2, <1>3, <1>10, <2>1, <2>2, RecordReportStep DEF BookedBy
<1>11. CASE SyncPositions
  <2>1. UNCHANGED <<mode, books, tick, orders, sent, seen, booked>>
    BY <1>11, RestOfReportStep
  <2>2. QED
    BY <1>2, <1>11, <2>1, SyncPositionsStep DEF BookedBy
<1>12. CASE UNCHANGED vars
  BY <1>2, <1>12, StutterStep DEF BookedBy
<1>13. ~ReportFails /\ ~Restart
  BY <1>1 DEF ReportFails, Restart
<1>14. QED
  BY <1>4, <1>5, <1>6, <1>7, <1>8, <1>9, <1>10, <1>11, <1>12, <1>13, StepCases

-------------------------------------------------------------------------------
(* Under which faults rows and fills come together again: an answer lost   *)
(* or a restart parts them for good, and a fill the tick failed to record  *)
(* is recorded only if the reconcile loop is certain to report it.         *)
RowFaults ==
    /\ NoneOf({"lost", "crash"})
    /\ \/ "db" \notin Faults
       \/ Modes = {"alpaca_paper"} /\ NoneOf({"slow", "unpriced", "cancel", "loop"})

(* The reconcile loop will come to this order, or is about to write its    *)
(* row.                                                                    *)
ToBeRecorded(o) ==
    \/ o > cursor /\ o \in marks
    \/ o \in batch /\ o \notin reconciled
    \/ applying.step = "trade" /\ applying.order = o
OnItsWay(o) == o = sent /\ tick.step = "submitting"

RowsOfFills ==
    NoneOf({"lost", "crash"}) =>
        \A o \in OrderIds :
            HasRow(o) => o \in booked \/ (OnItsWay(o) /\ orders[o].status = "filled")
FillsGetRows ==
    RowFaults =>
        \A o \in OrderIds :
            /\ "db" \notin Faults /\ o \in booked =>
                  HasRow(o) \/ (o = sent /\ tick.step = "booking")
            /\ "db" \in Faults /\ (o \in booked \/ (OnItsWay(o) /\ orders[o].status # "rejected")) =>
                  HasRow(o) \/ ToBeRecorded(o)

(* A filled order has a price, unless the broker may withhold it. *)
Priced ==
    \A o \in OrderIds : orders[o].status = "filled" /\ orders[o].price = 0 => "unpriced" \in Faults

(* RowsOfFills, FillsGetRows and Priced are inductive.                     *)
LEMMA InitRows == ASSUME Init PROVE RowsOfFills /\ FillsGetRows /\ Priced
  BY DEF Init, RowsOfFills, FillsGetRows, Priced, HasRow, OnItsWay, Unsent, Idle

LEMMA PricedInvariant ==
    ASSUME IInv, Numbered, Lots, Priced, [Next]_vars
    PROVE  Priced'
<1>1. CASE \/ Aside \/ SubmitReturns \/ Poll \/ ApplyReport \/ RecordReport \/ SyncPositions
           \/ ReportFails \/ Restart \/ UNCHANGED vars
  <2>1. UNCHANGED orders
    BY <1>1, AsideStep, SubmitReturnsStep, PollStep, ApplyReportStep, RestOfReportStep,
       RestartStep, StutterStep
  <2>2. QED
    BY <2>1 DEF Priced
<1>2. CASE Submit
  <2>1. /\ orders'[sent + 1] = NewOrder /\ MaySubmit
        /\ \A o \in OrderIds : o # sent + 1 => orders'[o] = orders[o]
    BY <1>2, SubmitStep
  <2>2. NewOrder.status = "filled" => NewOrder.price # 0
    BY <2>1 DEF NewOrder, MaySubmit, NoMark
  <2> HIDE DEF NewOrder
  <2>3. QED
    BY <2>1, <2>2 DEF Priced
<1>3. CASE Broker
  BY <1>3, BrokerStep DEF Priced, Moves
<1>4. QED
  BY <1>1, <1>2, <1>3, StepCases

(* Rows are never deleted. *)
LEMMA RowsStay ==
    ASSUME IInv, [Next]_vars, NEW o \in OrderIds, trades[o] # "none"
    PROVE  trades'[o] # "none"
<1>1. CASE RecordFillAtomic /\ trades[sent] = "none"
  BY <1>1, RecordFillAtomicStep
<1>2. CASE RecordReport
  BY <1>2, RecordReportStep
<1>3. CASE SyncPositions
  BY <1>3, SyncPositionsStep
<1>4. QED
  BY <1>1, <1>2, <1>3, TablesStep

(* Rows are of fills.                                                      *)
LEMMA RowsOfFillsInvariant ==
    ASSUME IInv, Numbered, ReportsAreFills, NoneAstray, RowsOfFills, [Next]_vars
    PROVE  RowsOfFills'
<1> SUFFICES ASSUME NoneOf({"lost", "crash"}), NEW o \in OrderIds, trades'[o] # "none"
             PROVE  o \in booked' \/ (OnItsWay(o)' /\ orders'[o].status = "filled")
  BY DEF RowsOfFills, NoneOf, HasRow
<1>1. o \in booked \/ (OnItsWay(o) /\ orders[o].status = "filled")
  <2>1. CASE trades[o] # "none"
    BY <2>1 DEF RowsOfFills, HasRow
  <2>2. CASE trades[o] = "none"
    <3>1. CASE RecordFillAtomic /\ trades[sent] = "none"
      BY <2>2, <3>1, RecordFillAtomicStep DEF Numbered
    <3>2. CASE RecordReport
      <4>1. o = applying.order /\ applying.step = "trade"
        BY <2>2, <3>2, RecordReportStep
      <4>2. o \in reconciled
        BY <4>1 DEF ReportsAreFills
      <4>3. o <= sent /\ orders[o].status = "filled"
        BY <4>2 DEF ReportsAreFills, Numbered
      <4>4. QED
        BY <4>3 DEF NoneAstray, OnItsWay
    <3>3. CASE SyncPositions \/ UNCHANGED <<trades, positions>>
      BY <2>2, <3>3, SyncPositionsStep
    <3>4. QED
      BY <3>1, <3>2, <3>3, TablesStep
  <2>3. QED
    BY <2>1, <2>2
<1>2. CASE Aside
  <2>1. UNCHANGED <<orders, sent, booked>>
    BY <1>2, AsideStep
  <2>2. tick.step # "submitting" \/ orders[sent].status = "rejected"
    BY <1>2 DEF Aside, StartTick, SkipSignal, SkipOffHours, SubmitRaises, RecordFillAtomic,
                RecordFillFails, EndTick, NoneOf
  <2>3. QED
    BY <1>1, <2>1, <2>2 DEF OnItsWay
<1>3. CASE Submit
  BY <1>1, <1>3, SubmitStep DEF OnItsWay
<1>4. CASE SubmitReturns
  BY <1>1, <1>4, SubmitReturnsStep DEF OnItsWay
<1>5. CASE Broker
  <2>1. UNCHANGED <<tick, sent, booked>> /\ (orders'[o] = orders[o] \/ Moves(o))
    BY <1>5, BrokerStep
  <2>2. QED
    BY <1>1, <2>1 DEF Moves, OnItsWay
<1>6. CASE \/ Poll \/ ApplyReport \/ RecordReport \/ SyncPositions \/ ReportFails
           \/ UNCHANGED vars
  <2>1. UNCHANGED <<tick, orders, sent, booked>>
    BY <1>6, PollStep, ApplyReportStep, RestOfReportStep, StutterStep
  <2>2. QED
    BY <1>1, <2>1 DEF OnItsWay
<1>7. CASE Restart
  BY <1>7, RestartStep DEF NoneOf
<1>8. QED
  BY <1>2, <1>3, <1>4, <1>5, <1>6, <1>7, StepCases

(* Without failing transactions the tick writes the row of what it booked. *)
LEMMA RowsWithoutFailures ==
    ASSUME IInv, Numbered, FillsGetRows, RowFaults, "db" \notin Faults, [Next]_vars,
           NEW o \in OrderIds, o \in booked'
    PROVE  trades'[o] # "none" \/ (o = sent' /\ tick'.step = "booking")
<1>1. CASE SubmitReturns
  BY <1>1, SubmitReturnsStep, RowsStay DEF FillsGetRows, HasRow
<1>2. CASE RecordFillAtomic
  <2>1. tick.step = "booking" /\ booked' = booked
    BY <1>2 DEF RecordFillAtomic
  <2>2. trades[o] # "none" \/ o = sent
    BY <2>1 DEF FillsGetRows, HasRow
  <2>3. trades'[sent] # "none"
    <3>1. CASE trades[sent] = "none"
      BY <1>2, <3>1, RecordFillAtomicStep
    <3>2. CASE trades[sent] # "none"
      BY <1>2, <3>2 DEF RecordFillAtomic, dbVars
    <3>3. QED
      BY <3>1, <3>2
  <2>4. QED
    BY <2>2, <2>3, RowsStay
<1>3. CASE Aside /\ ~RecordFillAtomic
  <2>1. UNCHANGED booked
    BY <1>3, AsideStep
  <2>2. tick.step # "booking"
    BY <1>3 DEF Aside, StartTick, SkipSignal, SkipOffHours, SubmitRaises, RecordFillFails, EndTick,
                RowFaults
  <2>3. QED
    BY <2>1, <2>2, RowsStay DEF FillsGetRows, HasRow
<1>4. CASE Submit
  BY <1>4, SubmitStep, RowsStay DEF FillsGetRows, HasRow
<1>5. CASE \/ Broker \/ Poll \/ ApplyReport \/ RecordReport \/ SyncPositions \/ ReportFails
           \/ UNCHANGED vars
  <2>1. UNCHANGED <<tick, sent, booked>>
    BY <1>5, BrokerStep, PollStep, ApplyReportStep, RestOfReportStep, StutterStep
  <2>2. QED
    BY <2>1, RowsStay DEF FillsGetRows, HasRow
<1>6. CASE Restart
  BY <1>6, RestartStep DEF RowFaults, NoneOf
<1>7. QED
  BY <1>1, <1>2, <1>3, <1>4, <1>5, <1>6, StepCases DEF Aside

(* With them the reconcile loop does, of every order the broker took.      *)
LEMMA RowsDespiteFailures ==
    ASSUME IInv, Numbered, ReportsAreFills, Accepted, NoneAstray, Priced, FillsGetRows, RowFaults,
           "db" \in Faults, [Next]_vars, NEW o \in OrderIds,
           o \in booked' \/ (OnItsWay(o)' /\ orders'[o].status # "rejected")
    PROVE  trades'[o] # "none" \/ ToBeRecorded(o)'
<1> USE DEF HasRow
<1>1. /\ mode = "alpaca_paper"
      /\ "slow" \notin Faults /\ "unpriced" \notin Faults /\ "cancel" \notin Faults
      /\ "loop" \notin Faults /\ "lost" \notin Faults /\ "crash" \notin Faults
  BY DEF RowFaults, NoneOf, IInv, TypeOK
<1>2. o \in booked \/ (OnItsWay(o) /\ orders[o].status # "rejected") =>
         trades[o] # "none" \/ ToBeRecorded(o)
  BY DEF FillsGetRows
<1>3. CASE Submit
  <2>1. /\ UNCHANGED <<reconciled, cursor, batch, applying, trades, booked>>
        /\ tick.step = "orders" /\ sent \in Nat /\ sent' = sent + 1 /\ marks' = marks \cup {sent + 1}
    BY <1>1, <1>3, SubmitStep
  <2>2. CASE o = sent + 1
    BY <2>1, <2>2, StateTypes DEF ToBeRecorded, Numbered
  <2>3. CASE o # sent + 1
    BY <1>2, <2>1, <2>3 DEF ToBeRecorded, OnItsWay
  <2>4. QED
    BY <2>2, <2>3
<1>4. trades[o] # "none" \/ ToBeRecorded(o) \/ Submit
  <2>1. CASE Aside
    BY <1>2, <2>1, AsideStep DEF OnItsWay
  <2>2. CASE SubmitReturns
    BY <1>2, <2>2, SubmitReturnsStep DEF OnItsWay
  <2>3. CASE Broker
    <3>1. UNCHANGED <<tick, sent, booked>> /\ (orders'[o] = orders[o] \/ Moves(o))
      BY <2>3, BrokerStep
    <3>2. QED
      BY <1>2, <3>1 DEF OnItsWay, Moves
  <2>4. CASE \/ Poll \/ ApplyReport \/ RecordReport \/ SyncPositions \/ ReportFails
             \/ UNCHANGED vars
    <3>1. UNCHANGED <<tick, orders, sent, booked>>
      BY <2>4, PollStep, ApplyReportStep, RestOfReportStep, StutterStep
    <3>2. QED
      BY <1>2, <3>1 DEF OnItsWay
  <2>5. CASE Restart
    BY <1>1, <2>5, RestartStep
  <2>6. QED
    BY <2>1, <2>2, <2>3, <2>4, <2>5, StepCases
<1>5. CASE trades[o] # "none"
  BY <1>5, RowsStay
<1>6. CASE ToBeRecorded(o)
  <2>1. CASE \/ Aside \/ SubmitReturns \/ Broker \/ SyncPositions \/ UNCHANGED vars
    <3>1. UNCHANGED <<marks, reconciled, cursor>>
      BY <2>1, AsideStep, SubmitReturnsStep, BrokerStep, RestOfReportStep, StutterStep
    <3>2. CASE SyncPositions
      BY <1>6, <3>1, <3>2, SyncPositionsStep DEF ToBeRecorded
    <3>3. CASE ~SyncPositions
      <4>1. UNCHANGED <<batch, applying>>
        BY <2>1, <3>3, AsideStep, SubmitReturnsStep, BrokerStep, StutterStep
      <4>2. QED
        BY <1>6, <3>1, <4>1 DEF ToBeRecorded
    <3>4. QED
      BY <3>2, <3>3
  <2>2. CASE Poll
    <3>1. /\ UNCHANGED reconciled /\ batch = {} /\ applying = Ready
          /\ batch' = Reportable \cap marks /\ marks' = marks \ Reportable
          /\ cursor' \in Visible
          /\ \A i \in Visible : orders[i].status # "new"
          /\ UNCHANGED <<tick, orders, sent, booked>>
      BY <1>1, <2>2, PollStep
    <3>2. o > cursor /\ o \in marks
      BY <1>6, <3>1 DEF ToBeRecorded, Ready
    <3>3. CASE o \in Visible
      <4>1. orders[o].status = "filled" /\ orders[o].price # 0
        BY <1>1, <3>1, <3>3 DEF Visible, Accepted, Priced
      <4>2. o \notin seen
        BY <3>2, StateTypes DEF ReportsAreFills
      <4>3. o \in batch' /\ o \notin reconciled'
        BY <3>1, <3>2, <3>3, <4>1, <4>2 DEF Reportable, ReportsAreFills
      <4>4. QED
        BY <4>3 DEF ToBeRecorded
    <3>4. CASE o \notin Visible
      <4>1. o = sent
        <5>1. o \in booked => orders[o].status \in {"new", "filled", "canceled"}
          BY DEF Accepted
        <5>2. o \notin booked
          BY <3>2, <3>4, <5>1 DEF Visible
        <5>3. QED
          BY <3>1, <5>2 DEF OnItsWay
      <4>2. o > cursor'
        BY <3>1, <3>4, <4>1, StateTypes DEF Visible, Numbered
      <4>3. o \in marks'
        BY <3>1, <3>2, <3>4 DEF Reportable
      <4>4. QED
        BY <4>2, <4>3 DEF ToBeRecorded
    <3>5. QED
      BY <3>3, <3>4
  <2>3. CASE ApplyReport
    <3>1. /\ UNCHANGED <<marks, cursor>> /\ applying = Ready
          /\ \E i \in batch :
                /\ batch' = batch \ {i}
                /\ \/ i \in reconciled /\ UNCHANGED <<reconciled, applying>>
                   \/ /\ reconciled' = reconciled \cup {i}
                      /\ applying' = [step |-> "trade", order |-> i]
      BY <2>3, ApplyReportStep
    <3>2. QED
      BY <1>6, <3>1 DEF ToBeRecorded, Ready
  <2>4. CASE RecordReport
    <3>1. UNCHANGED <<marks, reconciled, cursor>>
      BY <2>4, RestOfReportStep
    <3>2. QED
      BY <1>6, <2>4, <3>1, RecordReportStep DEF ToBeRecorded
  <2>5. ~ReportFails /\ ~Restart
    BY <1>1 DEF ReportFails, Restart
  <2>6. QED
    BY <1>3, <2>1, <2>2, <2>3, <2>4, <2>5, StepCases
<1>7. QED
  BY <1>3, <1>4, <1>5, <1>6

(* Every fill has its row or will get one.                                 *)
LEMMA FillsGetRowsInvariant ==
    ASSUME IInv, Numbered, ReportsAreFills, Accepted, NoneAstray, Priced, FillsGetRows, [Next]_vars
    PROVE  FillsGetRows'
<1>1. ASSUME RowFaults, NEW o \in OrderIds
      PROVE  /\ "db" \notin Faults /\ o \in booked' =>
                   trades'[o] # "none" \/ (o = sent' /\ tick'.step = "booking")
             /\ "db" \in Faults /\ (o \in booked' \/ (OnItsWay(o)' /\ orders'[o].status # "rejected"))
                   => trades'[o] # "none" \/ ToBeRecorded(o)'
  BY <1>1, RowsWithoutFailures, RowsDespiteFailures
<1>2. QED
  BY <1>1 DEF FillsGetRows, RowFaults, NoneOf, HasRow

(* When all is quiet, then, rows and fills are the same. *)
LEMMA QuietRowsAreFills ==
    ASSUME IInv, ReportsAreFills, RowsOfFills, FillsGetRows, RowFaults
    PROVE  RowsAreFills
<1> SUFFICES ASSUME Quiet PROVE {o \in OrderIds : trades[o] # "none"} = booked
  BY DEF RowsAreFills
<1>1. tick.step = "idle" /\ applying = Ready /\ CaughtUp
  BY DEF Quiet, Idle
<1>2. \A o \in OrderIds : trades[o] # "none" => o \in booked
  BY <1>1 DEF RowsOfFills, RowFaults, HasRow, OnItsWay
<1>3. ASSUME NEW o \in booked PROVE o \in OrderIds /\ trades[o] # "none"
  <2>1. o \in OrderIds
    BY StateTypes
  <2>2. CASE "db" \notin Faults
    BY <1>1, <2>1, <2>2 DEF FillsGetRows, HasRow
  <2>3. CASE "db" \in Faults
    <3>1. mode = "alpaca_paper"
      BY <2>3 DEF RowFaults, IInv, TypeOK
    <3>2. SUFFICES ASSUME ToBeRecorded(o) PROVE FALSE
      BY <2>1, <2>3 DEF FillsGetRows, HasRow
    <3>3. (o > cursor \/ o \in batch) /\ o \notin reconciled
      BY <1>1, <2>1, <3>2, StateTypes DEF ToBeRecorded, Ready, ReportsAreFills
    <3>4. o \in Unreported
      BY <3>3 DEF Unreported
    <3>5. QED
      BY <1>1, <3>1, <3>4 DEF CaughtUp
  <2>4. QED
    BY <2>1, <2>2, <2>3
<1>4. QED
  BY <1>2, <1>3

-------------------------------------------------------------------------------
(***************************************************************************)
(* The clamp of a correction has nothing to cut as long as no order of the *)
(* agent comes between the fill and its report: an entry is then still all *)
(* that is held.  Ticks that start too early, orders reported before their *)
(* submission returns, lost answers and restarts would let one come.       *)
(***************************************************************************)
Settling ==
    NoneOf({"race", "late", "lost", "crash"}) =>
        /\ reconciled \subseteq booked /\ batch \subseteq booked
        /\ mode # "simulated" =>
              \A o \in Unreported :
                  /\ signals[orders[o].agent] = NoSignal
                  /\ tick.step = "submitting" => orders[sent].agent # orders[o].agent
                  /\ orders[o].side = "buy" => books[orders[o].agent].qty = orders[o].n

(* Settling is inductive.                                                  *)
LEMMA InitSettling == ASSUME Init PROVE Settling
  BY DEF Init, Settling, Unreported

LEMMA SettlingInvariant ==
    ASSUME IInv, Lots, Numbered, ReportsAreFills, NoneAstray, NotFilledOnItsWay, Settling,
           [Next]_vars
    PROVE  Settling'
<1> SUFFICES ASSUME NoneOf({"race", "late", "lost", "crash"})
             PROVE  /\ reconciled' \subseteq booked' /\ batch' \subseteq booked'
                    /\ mode' # "simulated" =>
                          \A o \in Unreported' :
                              /\ signals'[orders'[o].agent] = NoSignal
                              /\ tick'.step = "submitting" =>
                                    orders'[sent'].agent # orders'[o].agent
                              /\ orders'[o].side = "buy" =>
                                    books'[orders'[o].agent].qty = orders'[o].n
  BY DEF Settling, NoneOf
<1>1. /\ "race" \notin Faults /\ "late" \notin Faults /\ "lost" \notin Faults
      /\ "crash" \notin Faults /\ NoneOf({"lost", "crash"})
  BY DEF NoneOf
<1>2. /\ reconciled \subseteq booked /\ batch \subseteq booked /\ booked \subseteq OrderIds
      /\ mode # "simulated" =>
            \A o \in Unreported :
                /\ signals[orders[o].agent] = NoSignal
                /\ tick.step = "submitting" => orders[sent].agent # orders[o].agent
                /\ orders[o].side = "buy" => books[orders[o].agent].qty = orders[o].n
  BY StateTypes DEF Settling
<1>3. \A o \in Unreported : o \in OrderIds /\ orders[o].agent \in Agents
  BY <1>2, OrderTypes DEF Unreported
<1>4. CASE StartTick
  <2>1. UNCHANGED <<mode, orders, books, reconciled, batch, cursor, booked>> /\ CaughtUp
    BY <1>1, <1>4 DEF StartTick, brokerVars, pollVars
  <2>2. mode' # "simulated" => Unreported' = {}
    BY <2>1 DEF CaughtUp, Unreported
  <2>3. QED
    BY <1>2, <2>1, <2>2
<1>5. CASE Aside /\ ~StartTick
  <2>1. /\ UNCHANGED <<mode, books, orders, sent, reconciled, cursor, batch, booked>>
        /\ tick'.step # "submitting"
    BY <1>5, AsideStep
  <2>2. \A a \in Agents : signals'[a] = signals[a] \/ signals'[a] = NoSignal
    BY <1>5, SignalsDropped
  <2>3. Unreported' = Unreported
    BY <2>1 DEF Unreported
  <2>4. QED
    BY <1>2, <1>3, <2>1, <2>2, <2>3
<1>6. CASE Submit
  <2>1. /\ UNCHANGED <<mode, books, reconciled, cursor, batch, booked>>
        /\ sent' = sent + 1 /\ orders'[sent + 1] = NewOrder
        /\ \A o \in OrderIds : o # sent + 1 => orders'[o] = orders[o]
        /\ Signalled.side \in Sides
        /\ \A a \in Agents : a # tick.at => signals'[a] = signals[a]
    BY <1>6, SubmitStep
  <2>2. \A o \in booked : o # sent + 1
    BY StateTypes DEF Numbered
  <2>3. Unreported' = Unreported /\ \A o \in Unreported : orders'[o] = orders[o]
    BY <1>3, <2>1, <2>2 DEF Unreported
  <2>4. mode # "simulated" => \A o \in Unreported : orders[o].agent # tick.at
    BY <1>2, <2>1 DEF Signalled, NoSignal, Sides
  <2>5. NewOrder.agent = tick.at
    BY DEF NewOrder
  <2>6. QED
    BY <1>2, <1>3, <2>1, <2>3, <2>4, <2>5
<1>7. CASE SubmitReturns
  <2>1. /\ UNCHANGED <<mode, orders, sent, signals, reconciled, cursor, batch>>
        /\ tick.step = "submitting" /\ tick'.step = "booking"
        /\ sent \in OrderIds /\ booked' = booked \cup {sent}
        /\ books'[orders[sent].agent] =
              RecordFill(books[orders[sent].agent], orders[sent].side, orders[sent].n,
                         orders[sent].mark)
        /\ \A a \in Agents : a # orders[sent].agent => books'[a] = books[a]
    BY <1>7, SubmitReturnsStep
  <2>2. /\ orders[sent].agent \in Agents /\ orders[sent].side \in Sides
        /\ orders[sent].n \in Nat /\ orders[sent].mark \in Int
        /\ books[orders[sent].agent] \in Book
        /\ Fits(orders[sent].side, orders[sent].n, books[orders[sent].agent])
    BY <2>1, OrderTypes DEF Lots
  <2>3. /\ signals[orders[sent].agent] = NoSignal
        /\ orders[sent].side = "buy" => books'[orders[sent].agent].qty = orders[sent].n
    BY <2>1, <2>2, FillOfLot DEF IInv, SentSaleIsHeld
  <2>4. \A o \in Unreported' : o \in Unreported \/ o = sent
    BY <2>1 DEF Unreported
  <2>5. QED
    BY <1>2, <1>3, <2>1, <2>3, <2>4
<1>8. CASE Broker
  <2>1. /\ UNCHANGED <<mode, books, tick, signals, sent, reconciled, cursor, batch, booked>>
        /\ \A o \in OrderIds : SameDeal(o)
    BY <1>8, BrokerStep
  <2>2. Unreported' = Unreported
    BY <2>1 DEF Unreported
  <2>3. tick.step = "submitting" => sent \in OrderIds
    BY DEF IInv, TasksAreBusyWithSomething
  <2>4. QED
    BY <1>2, <1>3, <2>1, <2>2, <2>3 DEF SameDeal
<1>9. CASE Poll
  <2>1. /\ UNCHANGED <<mode, books, tick, signals, orders, sent, reconciled, booked>>
        /\ mode = "alpaca_paper" /\ batch' = Reportable \cap marks /\ cursor' \in Visible
    BY <1>9, PollStep
  <2>2. ASSUME NEW o \in Reportable PROVE o \in booked
    <3>1. o \in OrderIds /\ orders[o].status = "filled" /\ ~(o > sent)
      BY DEF Reportable, Visible, Numbered
    <3>2. o <= sent
      BY <3>1, StateTypes
    <3>3. QED
      BY <1>1, <2>1, <3>1, <3>2 DEF NoneAstray, NotFilledOnItsWay
  <2>3. \A o \in OrderIds : o > cursor' \/ o \in batch' => o > cursor
    BY <2>1, StateTypes DEF Reportable, Visible
  <2>4. Unreported' \subseteq Unreported
    BY <1>2, <2>1, <2>3 DEF Unreported
  <2>5. QED
    BY <1>2, <2>1, <2>2, <2>4
<1>10. CASE ApplyReport
  <2>1. /\ UNCHANGED <<mode, tick, signals, orders, sent, cursor, booked>>
        /\ batch' \subseteq batch /\ reconciled \subseteq reconciled'
        /\ reconciled' \subseteq reconciled \cup batch
    BY <1>10, ApplyReportStep
  <2>2. \A a \in Agents : books'[a].qty = books[a].qty
    BY <1>10, ApplyReportQuantities
  <2>3. Unreported' \subseteq Unreported
    BY <2>1 DEF Unreported
  <2>4. QED
    BY <1>2, <1>3, <2>1, <2>2, <2>3
<1>11. CASE RecordReport \/ SyncPositions \/ ReportFails
  <2>1. /\ UNCHANGED <<mode, books, tick, signals, orders, sent, reconciled, cursor, booked>>
        /\ batch' \subseteq batch
    BY <1>11, RestOfReportStep
  <2>2. Unreported' \subseteq Unreported
    BY <2>1 DEF Unreported
  <2>3. QED
    BY <1>2, <2>1, <2>2
<1>12. CASE UNCHANGED vars
  <2>1. UNCHANGED <<mode, books, tick, signals, orders, sent, reconciled, cursor, batch, booked>>
    BY <1>12, StutterStep
  <2>2. Unreported' = Unreported
    BY <2>1 DEF Unreported
  <2>3. QED
    BY <1>2, <2>1, <2>2
<1>13. ~Restart
  BY <1>1 DEF Restart
<1>14. QED
  BY <1>4, <1>5, <1>6, <1>7, <1>8, <1>9, <1>10, <1>11, <1>12, <1>13, StepCases

-------------------------------------------------------------------------------
(* Then a correction moves the cash by the price difference, times what    *)
(* the order executed.                                                     *)
LEMMA CorrectedCash ==
    ASSUME NEW b \in Book, NEW side \in Sides, NEW n \in Nat, NEW mark \in Int, NEW actual \in Int,
           b.qty >= 0, side = "buy" => b.qty = n
    PROVE  ReconcileFill(b, side, n, mark, actual).cash = b.cash - (actual - mark) * Signed(side, n)
<1> DEFINE s == Signed(side, n)
           delta == actual - mark
           prev == b.qty - s
<1>1. s \in Int /\ delta \in Int /\ b.qty \in Int /\ b.cash \in Int /\ prev \in Int
  BY SignedType DEF Book
<1>2. IsClose(prev, s) => ClampFlip(prev, side, n) = n
  <2>1. CASE side = "buy"
    BY <1>1, <2>1 DEF IsClose, Signed
  <2>2. CASE side = "sell"
    <3>1. prev = b.qty + n /\ prev >= n /\ n <= Abs(prev)
      BY <1>1, <2>2 DEF Signed, Abs
    <3>2. QED
      BY <3>1 DEF ClampFlip
  <2>3. QED
    BY <2>1, <2>2 DEF Sides
<1>3. CASE delta = 0
  <2>1. ReconcileFill(b, side, n, mark, actual) = b
    BY <1>3 DEF ReconcileFill
  <2>2. (actual - mark) * s = 0
    BY <1>1, <1>3
  <2>3. QED
    BY <1>1, <2>1, <2>2
<1>4. CASE delta # 0
  BY <1>2, <1>4 DEF ReconcileFill, CorrectClosing, CorrectOpening, Book
<1>5. QED
  BY <1>3, <1>4

(* The entry of an order in the ledger. *)
EntryOf(o) ==
    [agent |-> orders[o].agent, side |-> orders[o].side, n |-> orders[o].n,
     price |-> IF o \in reconciled THEN orders[o].price ELSE orders[o].mark,
     settled |-> o \in reconciled]
Entered == [o \in booked |-> EntryOf(o)]
CashOf == [a \in Agents |-> books[a].cash]

(* Initial states are initial states of the ledger.                        *)
LEMMA LedgerInit == ASSUME Init PROVE Ledger!Init
<1>1. booked = {} /\ \A a \in Agents : books[a].cash = Capital
  BY DEF Init, NewBook
<1>2. QED
  BY <1>1 DEF Ledger!Init

(* A step that changes neither cash nor entries is a stutter of the        *)
(* ledger.                                                                 *)
LEMMA LedgerStutters ==
    ASSUME \A a \in Agents : books'[a].cash = books[a].cash, booked' = booked,
           \A o \in booked : EntryOf(o)' = EntryOf(o)
    PROVE  UNCHANGED Ledger!vars
  BY DEF Ledger!vars, EntryOf

(* Booking an order enters it.                                             *)
LEMMA LedgerEnters ==
    ASSUME IInv, Lots, Numbered, Settling, NoneOf({"race", "late", "lost", "crash"}), SubmitReturns
    PROVE  Ledger!Next
<1>1. /\ UNCHANGED <<orders, reconciled>>
      /\ tick.step = "submitting" /\ sent \in OrderIds
      /\ booked' = booked \cup {sent}
      /\ books'[orders[sent].agent] =
            RecordFill(books[orders[sent].agent], orders[sent].side, orders[sent].n,
                       orders[sent].mark)
      /\ \A a \in Agents : a # orders[sent].agent => books'[a] = books[a]
  BY SubmitReturnsStep
<1>2. /\ orders[sent].agent \in Agents /\ orders[sent].side \in Sides
      /\ orders[sent].n \in Nat /\ orders[sent].mark \in Int
      /\ books[orders[sent].agent] \in Book
      /\ Fits(orders[sent].side, orders[sent].n, books[orders[sent].agent])
  BY <1>1, OrderTypes DEF Lots
<1>3. orders[sent].n \in Quantities /\ orders[sent].mark \in Prices
  BY <1>1, StateTypes DEF Numbered
<1>4. PICK o \in OrderIds, c \in Agents, side \in Sides, n \in Quantities, mark \in Prices :
         /\ o = sent /\ c = orders[sent].agent /\ side = orders[sent].side
         /\ n = orders[sent].n /\ mark = orders[sent].mark
  BY <1>1, <1>2, <1>3
<1> DEFINE e == [agent |-> c, side |-> side, n |-> n, price |-> mark, settled |-> FALSE]
<1>5. o \notin booked /\ o \notin reconciled
  BY <1>1, <1>4 DEF Numbered, Settling
<1>6. Entered' = [i \in booked \cup {o} |-> IF i = o THEN e ELSE Entered[i]]
  <2>1. Entered' = [i \in booked' |-> EntryOf(i)']
    BY DEF Entered
  <2>2. \A i \in booked : EntryOf(i)' = EntryOf(i) /\ Entered[i] = EntryOf(i)
    BY <1>1, <1>5 DEF Entered, EntryOf
  <2>3. EntryOf(o)' = e
    <3>1. EntryOf(o)' = [agent |-> c, side |-> side, n |-> n,
                         price |-> IF o \in reconciled THEN orders[o].price ELSE mark,
                         settled |-> o \in reconciled]
      BY <1>1, <1>4 DEF EntryOf
    <3>2. (o \in reconciled) = FALSE
      BY <1>5
    <3>3. QED
      BY <3>1, <3>2
  <2> HIDE DEF e
  <2>4. \A i \in booked' : EntryOf(i)' = IF i = o THEN e ELSE Entered[i]
    BY <1>1, <1>4, <1>5, <2>2, <2>3
  <2>5. QED
    BY <1>1, <1>4, <2>1, <2>4
<1>7. CashOf' = [CashOf EXCEPT ![c] = @ - mark * Signed(side, n)]
  <2>1. books'[c].cash = books[c].cash - mark * Signed(side, n)
    BY <1>1, <1>2, <1>4, FillOfLot
  <2>2. QED
    BY <1>1, <1>4, <2>1 DEF CashOf
<1>8. Ledger!Enter(o, e)
  <2>1. DOMAIN Entered = booked
    BY DEF Entered
  <2>2. /\ e.agent = c /\ e.price = mark /\ e.side = side /\ e.n = n /\ ~e.settled
    OBVIOUS
  <2> HIDE DEF e
  <2>3. QED
    BY <1>5, <1>6, <1>7, <2>1, <2>2
    DEF Ledger!Enter, Ledger!Signed, Signed, Entered, EntryOf, CashOf
<1>9. Ledger!Sides = Sides
  BY DEF Ledger!Sides, Sides
<1>10. QED
  BY <1>8, <1>9 DEF Ledger!Next

(* Applying its report settles it.                                         *)
LEMMA LedgerSettles ==
    ASSUME IInv, Lots, Numbered, ReportsAreFills, Settling,
           NoneOf({"race", "late", "lost", "crash"}), ApplyReport
    PROVE  Ledger!Next \/ UNCHANGED Ledger!vars
<1>1. UNCHANGED <<orders, booked>>
  BY ApplyReportStep
<1>2. PICK o \in batch :
         /\ o \in OrderIds
         /\ \/ UNCHANGED <<books, reconciled>>
            \/ /\ o \notin reconciled /\ reconciled' = reconciled \cup {o}
               /\ books'[orders[o].agent] = Corrected(o)
               /\ \A a \in Agents : a # orders[o].agent => books'[a] = books[a]
  BY ApplyReportStep
<1>3. CASE UNCHANGED <<books, reconciled>>
  <2>1. \A i \in booked : EntryOf(i)' = EntryOf(i)
    BY <1>1, <1>3 DEF EntryOf
  <2>2. QED
    BY <1>1, <1>3, <2>1, LedgerStutters
<1>4. CASE /\ o \notin reconciled /\ reconciled' = reconciled \cup {o}
           /\ books'[orders[o].agent] = Corrected(o)
           /\ \A a \in Agents : a # orders[o].agent => books'[a] = books[a]
  <2>1. o \in booked /\ orders[o].price \in Prices /\ o \in Unreported /\ mode # "simulated"
    BY <1>2, <1>4 DEF Settling, ReportsAreFills, Unreported
  <2>2. PICK c \in Agents, side \in Sides, n \in Nat, mark \in Nat, actual \in Prices :
           /\ c = orders[o].agent /\ side = orders[o].side /\ n = orders[o].n
           /\ mark = orders[o].mark /\ actual = orders[o].price
    BY <1>2, <2>1, OrderTypes
  <2>3. /\ mark \in Int /\ actual \in Int /\ books[c] \in Book /\ books[c].qty >= 0
        /\ side = "buy" => books[c].qty = n
    BY <1>2, <2>1, <2>2, OrderTypes DEF Settling, IInv, LongOnly
  <2>4. books'[c].cash = books[c].cash - (actual - mark) * Signed(side, n)
    BY <1>4, <2>2, <2>3, CorrectedCash DEF Corrected
  <2>5. CashOf' = [CashOf EXCEPT ![c] = @ - (actual - mark) * Signed(side, n)]
    BY <1>4, <2>2, <2>4 DEF CashOf
  <2>6. Entered' = [Entered EXCEPT ![o].price = actual, ![o].settled = TRUE]
    <3>1. Entered' = [i \in booked' |-> EntryOf(i)']
      BY DEF Entered
    <3>2. \A i \in booked : i # o => EntryOf(i)' = EntryOf(i)
      BY <1>1, <1>4 DEF EntryOf
    <3>3. EntryOf(o)' = [EntryOf(o) EXCEPT !.price = actual, !.settled = TRUE]
      <4>1. PICK r, was, now : r = EntryOf(o) /\ was = FALSE /\ now = TRUE
        OBVIOUS
      <4>2. r = [agent |-> c, side |-> side, n |-> n, price |-> mark, settled |-> was]
        <5>1. (o \in reconciled) = FALSE
          BY <1>4
        <5>2. (o \in reconciled) = was
          BY <4>1, <5>1
        <5>3. QED
          BY <1>4, <2>2, <4>1, <5>2 DEF EntryOf
      <4>3. EntryOf(o)' = [agent |-> c, side |-> side, n |-> n, price |-> actual, settled |-> now]
        <5>1. EntryOf(o)' = [agent |-> c, side |-> side, n |-> n,
                             price |-> IF o \in reconciled' THEN actual ELSE mark,
                             settled |-> o \in reconciled']
          BY <1>1, <2>2 DEF EntryOf
        <5>2. (o \in reconciled') = now
          BY <1>4, <4>1
        <5>3. QED
          BY <1>4, <5>1, <5>2
      <4> DEFINE D == {"agent", "side", "n", "price", "settled"}
                 after == [i \in D |->
                             IF i = "settled" THEN now ELSE IF i = "price" THEN actual ELSE r[i]]
      <4>4. DOMAIN r = D /\ r.agent = c /\ r.side = side /\ r.n = n
        BY <4>2
      <4>5. [r EXCEPT !.price = actual, !.settled = now] = after
        BY <4>4
      <4>6. [agent |-> c, side |-> side, n |-> n, price |-> actual, settled |-> now] = after
        BY <4>4
      <4>7. QED
        BY <4>1, <4>3, <4>5, <4>6
    <3>4. Entered = [i \in booked |-> EntryOf(i)]
      BY DEF Entered
    <3>5. QED
      BY <1>1, <2>1, <3>1, <3>2, <3>3, <3>4
  <2>7. /\ o \in DOMAIN Entered /\ ~Entered[o].settled
        /\ Entered[o].agent = c /\ Entered[o].side = side /\ Entered[o].n = n
        /\ Entered[o].price = mark
    BY <1>4, <2>1, <2>2 DEF Entered, EntryOf
  <2>8. Ledger!Settle(o, actual)
    BY <2>5, <2>6, <2>7 DEF Ledger!Settle, Ledger!Signed, Signed, Entered, EntryOf, CashOf
  <2>9. QED
    BY <1>2, <2>1, <2>8 DEF Ledger!Next
<1>5. QED
  BY <1>2, <1>3, <1>4

(* Nothing else moves cash or changes what was booked. *)
LEMMA LedgerKept ==
    ASSUME IInv, Numbered, ReportsAreFills, Settling,
           NoneOf({"race", "late", "lost", "crash"}),
           [Next]_vars, ~SubmitReturns, ~ApplyReport
    PROVE  UNCHANGED Ledger!vars
<1>1. UNCHANGED <<books, reconciled, booked>>
  <2>1. ~Restart
    BY DEF Restart, NoneOf
  <2>2. QED
    BY <2>1, AsideStep, SubmitStep, BrokerStep, PollStep, RestOfReportStep, StutterStep, StepCases
<1>2. ASSUME NEW o \in booked
      PROVE  SameDeal(o) /\ (o \in reconciled => orders'[o].price = orders[o].price)
  <2>1. CASE Submit
    BY <2>1, SubmitStep, StateTypes DEF Numbered, SameDeal
  <2>2. CASE Broker
    <3>1. SameDeal(o) /\ (orders'[o] = orders[o] \/ Moves(o))
      BY <2>2, BrokerStep, StateTypes
    <3>2. o \in reconciled => orders[o].status = "filled" /\ orders[o].price # 0
      BY OrderFlowAssumption DEF ReportsAreFills
    <3>3. QED
      BY <3>1, <3>2 DEF Moves
  <2>3. CASE ~Submit /\ ~Broker
    <3>1. UNCHANGED orders
      BY <2>3, AsideStep, PollStep, RestOfReportStep, RestartStep, StutterStep, StepCases
    <3>2. QED
      BY <3>1 DEF SameDeal
  <2>4. QED
    BY <2>1, <2>2, <2>3
<1>3. \A o \in booked : EntryOf(o)' = EntryOf(o)
  BY <1>1, <1>2 DEF EntryOf, SameDeal
<1>4. QED
  BY <1>1, <1>3, LedgerStutters

-------------------------------------------------------------------------------
(* All of these together are inductive. *)
RecordInv ==
    /\ BookingInv
    /\ RowsAreSent /\ NotFilledOnItsWay /\ Mirrored
    /\ Priced /\ RowsOfFills /\ FillsGetRows
    /\ Settling

LEMMA RecordInvHolds == Spec => []RecordInv
<1>1. Init /\ BookingInv => RecordInv
  <2>1. Init => NotFilledOnItsWay
    BY DEF Init, NotFilledOnItsWay, Idle
  <2>2. QED
    BY <2>1, InitMirrored, InitRows, InitSettling DEF RecordInv
<1>2. RecordInv /\ BookingInv' /\ [Next]_vars => RecordInv'
  BY RowsAreSentInvariant, NotFilledOnItsWayInvariant, MirroredInvariant, PricedInvariant,
     RowsOfFillsInvariant, FillsGetRowsInvariant, SettlingInvariant DEF RecordInv, BookingInv
<1>3. QED
  BY <1>1, <1>2, BookingInvHolds, PTL DEF Spec

(* When neither task is at work, the positions table has what the books    *)
(* have, even if transactions of the tick fail: the reconcile loop writes  *)
(* what they left.  An order reported while its submission is awaited, a   *)
(* failing transaction of the loop and a restart can part them.            *)
THEOREM DbMirrorsBooksHolds ==
    ASSUME Faults \cap {"race", "loop", "crash"} = {}
    PROVE  Spec => []DbMirrorsBooks
<1>1. RecordInv => DbMirrorsBooks
  BY DEF RecordInv, BookingInv, Mirrored, NoneOf, DbMirrorsBooks, Quiet, Ready
<1>2. QED
  BY <1>1, RecordInvHolds, PTL

(* When neither task is at work, the orders with a row are the ones that   *)
(* were filled, and the books hold the sum of what was booked.  With       *)
(* failing transactions of the tick this needs the reconcile loop to see   *)
(* every fill, and none of its own transactions to fail: RowFaults.        *)
THEOREM BooksAndRowsAreFillsHolds ==
    ASSUME RowFaults
    PROVE  Spec => []BooksAndRowsAreFills
<1>1. RecordInv => RowsAreFills
  BY QuietRowsAreFills DEF RecordInv, BookingInv
<1>2. QED
  BY <1>1, RecordInvHolds, HoldsWhatItBookedHolds, PTL DEF BooksAndRowsAreFills

(* The order flow implements FillLedger: whatever tick and reconcile loop  *)
(* do in between, an agent's cash is the starting capital less what each   *)
(* of its orders costs, at its mark until it is reported and at the        *)
(* broker's price from then on, counted once.                              *)
THEOREM ImplementsLedgerHolds ==
    ASSUME Faults \cap {"race", "late", "lost", "crash"} = {}
    PROVE  Spec => ImplementsLedger
<1>1. Init => Ledger!Init
  BY LedgerInit
<1>2. RecordInv /\ [Next]_vars => [Ledger!Next]_(Ledger!vars)
  BY LedgerEnters, LedgerSettles, LedgerKept DEF RecordInv, BookingInv, NoneOf
<1>3. QED
  BY <1>1, <1>2, RecordInvHolds, PTL DEF Spec, ImplementsLedger, Ledger!Spec
===============================================================================
