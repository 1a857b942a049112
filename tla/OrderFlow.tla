------------------------------ MODULE OrderFlow ------------------------------
(***************************************************************************)
(* The life of an order: the tick of orchestrator/scheduler.py decides and *)
(* submits it, the broker accepts and fills it, the tick books it at the   *)
(* optimistic mark and persists it, and the reconcile loop, a second task  *)
(* of the same event loop, corrects it to the price the broker reports.    *)
(*                                                                         *)
(* The two tasks interleave at every await.  The tick holds _tick_lock, so *)
(* there is one tick at a time; the reconcile loop takes no lock.          *)
(*                                                                         *)
(* Orders are numbered in the order they are submitted.  The number stands *)
(* for the client_order_id, the broker_order_id and submitted_at alike.    *)
(*                                                                         *)
(* An action is what one task does between two awaits whose effects the    *)
(* other can see.  Submit holds the risk check and the submission together *)
(* although the journal note is awaited between them: the submission only  *)
(* adds an order and its mark, and what the loop or the broker does during *)
(* the wait does not depend on an order not yet sent, so it may as well    *)
(* come after it.  Poll is the moment the broker takes its snapshot.       *)
(*                                                                         *)
(* Left out: what strategies and risk rules compute (any decision they can *)
(* take is a choice of the model), journal notes, snapshots and events.    *)
(***************************************************************************)
EXTENDS VirtualBook, FiniteSets, FiniteSetsExt

CONSTANTS
    NumAgents,      \* settings.agent_count
    Capital,        \* settings.agent_starting_capital
    Quantities,     \* order sizes the strategies choose from
    Prices,         \* marks and fill prices
    PositionPct,    \* per-symbol cap, percent of the anchor
    Modes,          \* values settings.execution_mode may have
    Faults,         \* what the environment may do, see below
    MaxOrders,      \* bound on the orders of a behaviour
    MaxCrashes      \* bound on the restarts of a behaviour

(***************************************************************************)
(* What the environment may do beyond the ordinary:                        *)
(*   "race"      an order is reported filled before the response to its    *)
(*               own submission has been processed                         *)
(*   "slow"      a poll sees an order that is accepted and not yet filled  *)
(*   "unpriced"  a filled order carries no price for a while               *)
(*   "late"      a tick starts before the polls have caught up             *)
(*   "reject"    the broker refuses an order, submit_order raises          *)
(*   "lost"      the order is accepted, but submit_order raises            *)
(*   "cancel"    the broker accepts an order and never fills it            *)
(*   "db"        the transaction that records a fill of the tick fails     *)
(*   "loop"      a transaction of the reconcile loop fails                 *)
(*   "crash"     the process dies and is started again                     *)
(***************************************************************************)
AllFaults ==
    {"race", "slow", "unpriced", "late", "reject", "lost", "cancel", "db", "loop", "crash"}

ASSUME OrderFlowAssumption ==
    /\ NumAgents \in Nat \ {0}
    /\ Capital \in Nat
    /\ Quantities \subseteq Nat \ {0}
    /\ Prices \subseteq Nat \ {0}
    /\ PositionPct \in Nat
    /\ Modes \subseteq {"simulated", "alpaca_paper"}
    /\ Faults \subseteq AllFaults
    /\ MaxOrders \in Nat
    /\ MaxCrashes \in Nat

Agents == 0 .. NumAgents - 1
OrderIds == 1 .. MaxOrders

(* No bars for the symbol this tick: marks.get(...) is None. *)
NoMark == 0
NoSignal == [side |-> "none", n |-> 0, mark |-> NoMark]
Signal == [side : Sides \cup {"none"}, n : Nat, mark : Prices \cup {NoMark}]

(* An order at the broker.  "unsent" ids are unused so far, "sent" is on   *)
(* its way to the broker, price 0 means that the broker reports none.      *)
Unsent == [agent |-> 0, side |-> "buy", n |-> 0, mark |-> NoMark, status |-> "unsent", price |-> 0]
Statuses == {"unsent", "sent", "rejected", "new", "filled", "canceled"}
Order == [agent : Agents, side : Sides, n : Nat, mark : Prices \cup {NoMark},
          status : Statuses, price : Prices \cup {0}]

VARIABLES
    mode,           \* settings.execution_mode, fixed while the system runs
    books,          \* the VirtualBook of each agent
    tick,           \* the tick: its step, and the agent whose turn it is
    signals,        \* what each agent wants this tick
    pendingExits,   \* _pending_exits: agents whose risk exit is under way
    orders,         \* the broker's view of every order
    sent,           \* how many orders were submitted
    marks,          \* _optimistic_marks: orders whose mark is registered
    reconciled,     \* the books' _reconciled_ids
    cursor,         \* OrderReconciler._last_poll_ts
    seen,           \* OrderReconciler._seen_order_ids
    batch,          \* reports of the last poll still to be applied
    applying,       \* the report being applied: its step and its order
    trades,         \* the trades table: which write produced each row
    positions,      \* the positions table
    booked,         \* history: orders booked by this process
    crashes         \* history: restarts so far

tickVars == <<tick, signals, pendingExits>>
brokerVars == <<orders, sent>>
pollVars == <<cursor, seen, batch, applying>>
dbVars == <<trades, positions>>
vars == <<mode, books, tickVars, brokerVars, marks, reconciled, pollVars, dbVars, booked, crashes>>

TickSteps == {"idle", "orders", "submitting", "booking"}
ApplySteps == {"ready", "trade", "sync"}
TradeRows == {"none", "optimistic", "reconciled"}
Position == [qty : Int, basis : Int]

TypeOK ==
    /\ mode \in Modes
    /\ books \in [Agents -> Book]
    /\ tick \in [step : TickSteps, at : 0 .. NumAgents]
    /\ signals \in [Agents -> Signal]
    /\ pendingExits \subseteq Agents
    /\ orders \in [OrderIds -> Order]
    /\ sent \in 0 .. MaxOrders
    /\ marks \subseteq OrderIds
    /\ reconciled \subseteq OrderIds
    /\ cursor \in 0 .. MaxOrders
    /\ seen \subseteq OrderIds
    /\ batch \subseteq OrderIds
    /\ applying \in [step : ApplySteps, order : 0 .. MaxOrders]
    /\ trades \in [OrderIds -> TradeRows]
    /\ positions \in [Agents -> Position]
    /\ booked \subseteq OrderIds
    /\ crashes \in 0 .. MaxCrashes

(* The row an agent's position has in the table; flat positions have none. *)
NoPosition == [qty |-> 0, basis |-> 0]
PositionOf(b) == IF b.qty = 0 THEN NoPosition ELSE [qty |-> b.qty, basis |-> b.basis]
Ready == [step |-> "ready", order |-> 0]
Idle == [step |-> "idle", at |-> 0]

Init ==
    /\ mode \in Modes
    /\ books = [a \in Agents |-> NewBook(Capital)]
    /\ tick = Idle
    /\ signals = [a \in Agents |-> NoSignal]
    /\ pendingExits = {}
    /\ orders = [o \in OrderIds |-> Unsent]
    /\ sent = 0
    /\ marks = {}
    /\ reconciled = {}
    /\ cursor = 0
    /\ seen = {}
    /\ batch = {}
    /\ applying = Ready
    /\ trades = [o \in OrderIds |-> "none"]
    /\ positions = [a \in Agents |-> NoPosition]
    /\ booked = {}
    /\ crashes = 0

-------------------------------------------------------------------------------
(* The tick. *)

Buy(n, mark) == [side |-> "buy", n |-> n, mark |-> mark]
(* Exits are always for the whole position. *)
SellAll_Oversized(a, mark) == [side |-> "sell", n |-> books[a].qty + 1, mark |-> mark]
SellAll(a, mark) == [side |-> "sell", n |-> books[a].qty, mark |-> mark]

(* What decide() of an agent may return: nothing, an entry while it holds  *)
(* nothing, or the exit of what it holds.  Without bars it returns nothing.*)
Decisions(a, mark) ==
    {NoSignal} \cup {s \in {Buy(n, mark) : n \in Quantities} \cup {SellAll(a, mark)} :
                        mark # NoMark /\ (s.side = "sell" <=> books[a].qty > 0)}

(* Risk exits replace what the agent decided for the same symbol, unless   *)
(* one is pending already.  Which rule fires is left open.                 *)
MayExit(a, pending) == books[a].qty > 0 /\ books[a].basis > 0 /\ a \notin pending

(* Orders the reconcile loop has still to report, if it will ever do so.   *)
Unreported == {o \in booked : o \notin reconciled /\ (o > cursor \/ o \in batch)}
CaughtUp == mode = "simulated" \/ (Unreported = {} /\ batch = {})

(* One signal per agent, each from the agent's own choices. *)
SignalsFrom(choices) ==
    {f \in [Agents -> UNION {choices[a] : a \in Agents}] : \A a \in Agents : f[a] \in choices[a]}

(* Load bars, gather the decisions, prune stale pending exits and queue    *)
(* the risk exits.                                                         *)
StartTick ==
    /\ tick.step = "idle"
    /\ "late" \in Faults \/ CaughtUp
    /\ \E mark \in [Agents -> Prices \cup {NoMark}], stale \in SUBSET pendingExits :
         LET kept == pendingExits \ stale
         IN  \E exits \in SUBSET {a \in Agents : MayExit(a, kept)} :
               /\ pendingExits' = kept \cup exits
               /\ signals' \in SignalsFrom([a \in Agents |->
                                   IF a \in exits THEN {SellAll(a, mark[a])} ELSE Decisions(a, mark[a])])
    /\ tick' = [step |-> "orders", at |-> 0]
    /\ UNCHANGED <<books, brokerVars, marks, reconciled, pollVars, dbVars, booked, crashes, mode>>

(* RiskManager.check_entry: the symbol's notional, what is held included,  *)
(* against the cap, and the cash against the order.  The scheduler passes  *)
(* no marks, so equity is cash plus the holding at the order's own price.  *)
CheckEntry(b, n, price) ==
    LET held   == Abs(b.qty) * price
        equity == b.cash + held
        anchor == Min({Capital, Max({0, equity})})
    IN  /\ n > 0 /\ price > 0
        /\ (n * price + held) * 100 <= anchor * PositionPct
        /\ b.cash >= n * price

NextAgent == [step |-> "orders", at |-> tick.at + 1]
Signalled == signals[tick.at]
SignalConsumed == signals' = [signals EXCEPT ![tick.at] = NoSignal]
MaySubmit ==
    /\ Signalled.mark # NoMark
    /\ Signalled.side = "buy" => CheckEntry(books[tick.at], Signalled.n, Signalled.mark)

(* The turn of an agent that has no signal, no mark for it, or is blocked  *)
(* by the risk check.                                                      *)
SkipSignal ==
    /\ tick.step = "orders" /\ tick.at < NumAgents
    /\ Signalled.side = "none" \/ ~MaySubmit
    /\ tick' = NextAgent
    /\ SignalConsumed
    /\ UNCHANGED <<books, pendingExits, brokerVars, marks, reconciled, pollVars, dbVars, booked,
                   crashes, mode>>

(* The broker refuses off-hours: no order, and the mark registered for it  *)
(* is popped in the same step.  A pending exit stays.                      *)
SkipOffHours ==
    /\ tick.step = "orders" /\ tick.at < NumAgents
    /\ Signalled.side # "none" /\ MaySubmit
    /\ mode = "alpaca_paper"
    /\ tick' = NextAgent
    /\ SignalConsumed
    /\ UNCHANGED <<books, pendingExits, brokerVars, marks, reconciled, pollVars, dbVars, booked,
                   crashes, mode>>

(* Register the mark and hand the order to a worker thread.  The simulated *)
(* broker needs neither: it fills at the mark at once.                     *)
Submit_MarkAfterwards ==
    LET o == sent + 1
    IN  /\ tick.step = "orders" /\ tick.at < NumAgents
        /\ Signalled.side # "none" /\ MaySubmit
        /\ sent < MaxOrders
        /\ sent' = o
        /\ orders' = [orders EXCEPT ![o] =
                        [agent |-> tick.at, side |-> Signalled.side, n |-> Signalled.n,
                         mark |-> Signalled.mark, status |-> "sent", price |-> 0]]
        /\ tick' = [tick EXCEPT !.step = "submitting"]
        /\ SignalConsumed
        /\ UNCHANGED <<books, pendingExits, marks, reconciled, pollVars, dbVars, booked, crashes, mode>>
Submit ==
    LET o == sent + 1
        simulated == mode = "simulated"
    IN  /\ tick.step = "orders" /\ tick.at < NumAgents
        /\ Signalled.side # "none" /\ MaySubmit
        /\ sent < MaxOrders
        /\ sent' = o
        /\ orders' = [orders EXCEPT ![o] =
                        [agent |-> tick.at, side |-> Signalled.side, n |-> Signalled.n,
                         mark |-> Signalled.mark,
                         status |-> IF simulated THEN "filled" ELSE "sent",
                         price |-> IF simulated THEN Signalled.mark ELSE 0]]
        /\ marks' = IF simulated THEN marks ELSE marks \cup {o}
        /\ tick' = [tick EXCEPT !.step = "submitting"]
        /\ SignalConsumed
        /\ UNCHANGED <<books, pendingExits, reconciled, pollVars, dbVars, booked, crashes, mode>>

(* submit_market returns: book the fill at the mark, and a sale ends the   *)
(* agent's pending exit.  The transaction that records it starts.          *)
SubmitReturns_Twice ==
    LET o == orders[sent]
        once == RecordFill(books[o.agent], o.side, o.n, o.mark)
    IN  /\ tick.step = "submitting" /\ o.status \notin {"sent", "rejected"}
        /\ books' = [books EXCEPT ![o.agent] = RecordFill(once, o.side, o.n, o.mark)]
        /\ pendingExits' = IF o.side = "sell" THEN pendingExits \ {o.agent} ELSE pendingExits
        /\ booked' = booked \cup {sent}
        /\ tick' = [tick EXCEPT !.step = "booking"]
        /\ UNCHANGED <<signals, brokerVars, marks, reconciled, pollVars, dbVars, crashes, mode>>
SubmitReturns ==
    LET o == orders[sent]
    IN  /\ tick.step = "submitting" /\ o.status \notin {"sent", "rejected"}
        /\ books' = [books EXCEPT ![o.agent] = RecordFill(@, o.side, o.n, o.mark)]
        /\ pendingExits' = IF o.side = "sell" THEN pendingExits \ {o.agent} ELSE pendingExits
        /\ booked' = booked \cup {sent}
        /\ tick' = [tick EXCEPT !.step = "booking"]
        /\ UNCHANGED <<signals, brokerVars, marks, reconciled, pollVars, dbVars, crashes, mode>>

(* submit_order raises, because the broker refused the order or because    *)
(* its answer was lost: the exception ends the tick for every agent.  The  *)
(* registered mark and the pending exit stay behind.                       *)
SubmitRaises ==
    /\ tick.step = "submitting"
    /\ \/ "reject" \in Faults /\ orders[sent].status = "rejected"
       \/ "lost" \in Faults /\ orders[sent].status \notin {"sent", "rejected"}
    /\ tick' = Idle
    /\ signals' = [a \in Agents |-> NoSignal]
    /\ UNCHANGED <<books, pendingExits, brokerVars, marks, reconciled, pollVars, dbVars, booked,
                   crashes, mode>>

(* record_fill_atomic: the trade row and the agent's positions in one      *)
(* transaction, unless the order has a row already (UNIQUE violation: the  *)
(* whole transaction is rolled back).  Then the next agent's turn.         *)
RecordFillAtomic ==
    LET a == orders[sent].agent
    IN  /\ tick.step = "booking"
        /\ IF trades[sent] = "none"
           THEN /\ trades' = [trades EXCEPT ![sent] = "optimistic"]
                /\ positions' = [positions EXCEPT ![a] = PositionOf(books[a])]
           ELSE UNCHANGED dbVars
        /\ tick' = NextAgent
        /\ UNCHANGED <<books, signals, pendingExits, brokerVars, marks, reconciled, pollVars, booked,
                       crashes, mode>>

(* The transaction fails: the exception ends the tick. *)
RecordFillFails ==
    /\ tick.step = "booking" /\ "db" \in Faults
    /\ tick' = Idle
    /\ signals' = [a \in Agents |-> NoSignal]
    /\ UNCHANGED <<books, pendingExits, brokerVars, marks, reconciled, pollVars, dbVars, booked,
                   crashes, mode>>

EndTick ==
    /\ tick.step = "orders" /\ tick.at = NumAgents
    /\ tick' = Idle
    /\ signals' = [a \in Agents |-> NoSignal]
    /\ UNCHANGED <<books, pendingExits, brokerVars, marks, reconciled, pollVars, dbVars, booked,
                   crashes, mode>>

-------------------------------------------------------------------------------
(* The broker, as the code uses it. *)

BrokerAccepts ==
    /\ \E o \in OrderIds :
         /\ orders[o].status = "sent"
         /\ orders' = [orders EXCEPT ![o].status = "new"]
    /\ UNCHANGED <<books, tickVars, sent, marks, reconciled, pollVars, dbVars, booked, crashes, mode>>

BrokerRejects ==
    /\ "reject" \in Faults
    /\ \E o \in OrderIds :
         /\ orders[o].status = "sent"
         /\ orders' = [orders EXCEPT ![o].status = "rejected"]
    /\ UNCHANGED <<books, tickVars, sent, marks, reconciled, pollVars, dbVars, booked, crashes, mode>>

(* The market fills the order at some price, or reports it filled before   *)
(* it reports the price.                                                   *)
BrokerFills ==
    /\ \E o \in OrderIds, price \in Prices \cup {0} :
         /\ orders[o].status = "new"
         /\ "race" \in Faults \/ o \in booked \/ tick.step # "submitting" \/ o # sent
         /\ price = 0 => "unpriced" \in Faults
         /\ orders' = [orders EXCEPT ![o].status = "filled", ![o].price = price]
    /\ UNCHANGED <<books, tickVars, sent, marks, reconciled, pollVars, dbVars, booked, crashes, mode>>

(* A market order may also be rejected after it was accepted, expire or be *)
(* cancelled.  No code of the project looks at these states.               *)
BrokerCancels ==
    /\ "cancel" \in Faults
    /\ \E o \in OrderIds :
         /\ orders[o].status = "new"
         /\ orders' = [orders EXCEPT ![o].status = "canceled"]
    /\ UNCHANGED <<books, tickVars, sent, marks, reconciled, pollVars, dbVars, booked, crashes, mode>>

BrokerPrices ==
    /\ \E o \in OrderIds, price \in Prices :
         /\ orders[o].status = "filled" /\ orders[o].price = 0
         /\ orders' = [orders EXCEPT ![o].price = price]
    /\ UNCHANGED <<books, tickVars, sent, marks, reconciled, pollVars, dbVars, booked, crashes, mode>>

-------------------------------------------------------------------------------
(* The reconcile loop. *)

(* poll_once: get_orders(after = cursor) and its processing.  Orders that  *)
(* are not filled, or have no price, are left for a later poll, but the    *)
(* cursor moves past every order returned.  A fill whose mark is not       *)
(* registered is dropped for good.  (An empty answer moves the cursor to   *)
(* the time of the poll, which is after no order: no change here.)         *)
Visible == {o \in OrderIds : o > cursor /\ orders[o].status \in {"new", "filled", "canceled"}}
Reportable == {o \in Visible : orders[o].price # 0 /\ o \notin seen}

Poll_CursorPastNewest ==
    /\ mode = "alpaca_paper"
    /\ batch = {} /\ applying = Ready
    /\ Visible # {}
    /\ "slow" \in Faults \/ \A o \in Visible : orders[o].status # "new"
    /\ batch' = Reportable \cap marks
    /\ marks' = marks \ Reportable
    /\ seen' = seen \cup Reportable
    /\ cursor' = Max(Visible) + 1
    /\ UNCHANGED <<books, tickVars, brokerVars, reconciled, applying, dbVars, booked, crashes, mode>>
Poll ==
    /\ mode = "alpaca_paper"
    /\ batch = {} /\ applying = Ready
    /\ Visible # {}
    /\ "slow" \in Faults \/ \A o \in Visible : orders[o].status # "new"
    /\ batch' = Reportable \cap marks
    /\ marks' = marks \ Reportable
    /\ seen' = seen \cup Reportable
    /\ cursor' = Max(Visible)
    /\ UNCHANGED <<books, tickVars, brokerVars, reconciled, applying, dbVars, booked, crashes, mode>>

(* _apply_reconciled, one report at a time: correct the book, insert the   *)
(* trade row if there is none, re-sync the positions.                      *)
ApplyReport ==
    /\ applying = Ready
    /\ \E o \in batch :
         /\ batch' = batch \ {o}
         /\ IF o \in reconciled
            THEN UNCHANGED <<books, reconciled, applying>>
            ELSE /\ books' = [books EXCEPT ![orders[o].agent] =
                                ReconcileFill(@, orders[o].side, orders[o].n, orders[o].mark,
                                              orders[o].price)]
                 /\ reconciled' = reconciled \cup {o}
                 /\ applying' = [step |-> "trade", order |-> o]
    /\ UNCHANGED <<tickVars, brokerVars, marks, cursor, seen, dbVars, booked, crashes, mode>>

RecordReport_ExpectsRow ==
    /\ applying.step = "trade"
    /\ applying' = [applying EXCEPT !.step = "sync"]
    /\ UNCHANGED <<books, tickVars, brokerVars, marks, reconciled, cursor, seen, batch, dbVars,
                   booked, crashes, mode>>
RecordReport ==
    /\ applying.step = "trade"
    /\ trades' = [trades EXCEPT ![applying.order] = IF @ = "none" THEN "reconciled" ELSE @]
    /\ applying' = [applying EXCEPT !.step = "sync"]
    /\ UNCHANGED <<books, tickVars, brokerVars, marks, reconciled, cursor, seen, batch, positions,
                   booked, crashes, mode>>

SyncPositions_NoSync ==
    LET o == orders[applying.order]
    IN  /\ applying.step = "sync"
        /\ pendingExits' = IF o.side = "sell" THEN pendingExits \ {o.agent} ELSE pendingExits
        /\ applying' = Ready
        /\ UNCHANGED <<books, tick, signals, brokerVars, marks, reconciled, cursor, seen, batch,
                       dbVars, booked, crashes, mode>>
SyncPositions ==
    LET o == orders[applying.order]
    IN  /\ applying.step = "sync"
        /\ positions' = [positions EXCEPT ![o.agent] = PositionOf(books[o.agent])]
        /\ pendingExits' = IF o.side = "sell" THEN pendingExits \ {o.agent} ELSE pendingExits
        /\ applying' = Ready
        /\ UNCHANGED <<books, tick, signals, brokerVars, marks, reconciled, cursor, seen, batch,
                       trades, booked, crashes, mode>>

(* A transaction fails: the exception ends this round of the loop, and the *)
(* reports still in the batch go with it.                                  *)
ReportFails ==
    /\ "loop" \in Faults /\ applying # Ready
    /\ applying' = Ready
    /\ batch' = {}
    /\ UNCHANGED <<books, tickVars, brokerVars, marks, reconciled, cursor, seen, dbVars, booked,
                   crashes, mode>>

-------------------------------------------------------------------------------
(* The process dies and is started again.  The database and the broker     *)
(* stay as they are; everything else is rebuilt: build_default gives every *)
(* agent a fresh book, the reconciler looks back a fixed time.             *)
Restart ==
    /\ "crash" \in Faults /\ crashes < MaxCrashes
    /\ crashes' = crashes + 1
    /\ books' = [a \in Agents |-> NewBook(Capital)]
    /\ tick' = Idle
    /\ signals' = [a \in Agents |-> NoSignal]
    /\ pendingExits' = {}
    /\ marks' = {} /\ reconciled' = {} /\ seen' = {} /\ batch' = {} /\ applying' = Ready
    /\ cursor' \in 0 .. sent
    /\ booked' = {}
    /\ UNCHANGED <<brokerVars, dbVars, mode>>

RestOfTick == \/ SkipSignal \/ SkipOffHours \/ Submit \/ SubmitReturns \/ SubmitRaises
              \/ RecordFillAtomic \/ RecordFillFails \/ EndTick
RestOfBatch == ApplyReport \/ RecordReport \/ SyncPositions \/ ReportFails
Tick == StartTick \/ RestOfTick
Broker == BrokerAccepts \/ BrokerRejects \/ BrokerFills \/ BrokerCancels \/ BrokerPrices
Reconcile == Poll \/ RestOfBatch

Next == Tick \/ Broker \/ Reconcile \/ Restart

Spec == Init /\ [][Next]_vars

(* The event loop runs every ready task and the poll timer keeps firing;   *)
(* the broker answers submissions and fills market orders.  No fairness on *)
(* the decision to start a tick or to trade.                               *)
Fairness ==
    /\ WF_vars(RestOfTick)
    /\ WF_vars(Poll)
    /\ WF_vars(RestOfBatch)
    /\ WF_vars(BrokerAccepts \/ BrokerRejects)
    /\ WF_vars(BrokerFills \/ BrokerCancels)
    /\ WF_vars(BrokerPrices)
FairSpec == Spec /\ Fairness

-------------------------------------------------------------------------------
(* What the order flow must get right. *)

BookedBy(a) == {o \in booked : orders[o].agent = a}
Executed(o) == Signed(orders[o].side, orders[o].n)

(* "Shorts aren't supported in v1 -- we don't open them": whatever the     *)
(* interleaving and the faults, no agent's book goes short.                *)
LongOnly == \A a \in Agents : books[a].qty >= 0

(* No order is booked twice and none is cut down: an agent holds exactly   *)
(* the sum of the orders booked for it.                                    *)
HoldsWhatItBooked ==
    \A a \in Agents : books[a].qty = MapThenSumSet(Executed, BookedBy(a))

(* A sale already sent must not be sent again while it is in flight:       *)
(* "that's how a position flips short under alpaca_paper".  At the broker  *)
(* an agent never sells more than it has bought.                           *)
AtBroker(a) == {o \in OrderIds : orders[o].agent = a /\ orders[o].status \in {"sent", "new", "filled"}}
BrokerNeverShort ==
    \A a \in Agents : MapThenSumSet(Executed, AtBroker(a)) >= 0

(* The default mode fills at the very mark the risk check used, so no      *)
(* sequence of entries and exits spends cash an agent does not have.       *)
NeverOverdrawn == mode = "simulated" => \A a \in Agents : books[a].cash >= 0

(* Nobody sells or spends what it does not have: neither shares at the     *)
(* broker nor, in the default mode, cash.                                  *)
NothingBorrowed == NeverOverdrawn /\ BrokerNeverShort

(* Nothing is under way: no tick, no report the loop will still produce.   *)
Quiet == tick = Idle /\ applying = Ready /\ CaughtUp

(* Of two tasks that write the trade row of one fill, one does: when all   *)
(* is quiet every fill booked has a row, and every row is of such a fill.  *)
RowsAreFills ==
    Quiet => {o \in OrderIds : trades[o] # "none"} = booked

(* Books, rows and fills tell the same story (HoldsWhatItBooked,           *)
(* RowsAreFills).                                                          *)
BooksAndRowsAreFills == HoldsWhatItBooked /\ RowsAreFills

(* ... and the positions table shows what the book of an agent holds, at   *)
(* the corrected average price, if all its fills have their rows.          *)
HasRow(o) == trades[o] # "none"
DbMirrorsBooks ==
    Quiet => \A a \in Agents :
                (\A o \in BookedBy(a) : HasRow(o)) => positions[a] = PositionOf(books[a])

(* A fill booked optimistically is corrected to the price the broker       *)
(* reports: no booked order stays at its mark for ever.                    *)
EventuallySettled ==
    \A o \in OrderIds : o \in booked ~> o \in reconciled

(* As far as an agent's cash goes, booking at the mark and correcting      *)
(* later is a ledger in which each order is entered once and settled once. *)
Ledger == INSTANCE FillLedger WITH
    ledger <- [o \in booked |->
                 [agent |-> orders[o].agent, side |-> orders[o].side, n |-> orders[o].n,
                  price |-> IF o \in reconciled THEN orders[o].price ELSE orders[o].mark,
                  settled |-> o \in reconciled]],
    cash <- [a \in Agents |-> books[a].cash]
ImplementsLedger == Ledger!Spec
==============================================================================
