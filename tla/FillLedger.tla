------------------------------ MODULE FillLedger ------------------------------
(***************************************************************************)
(* What the order flow promises to an agent's cash, without books, ticks,  *)
(* polls or a database: a ledger of fills.  A fill is entered once, at the *)
(* optimistic mark; it may be settled once, at the price the broker paid;  *)
(* and the agent's cash moves by exactly the notional of these two steps.  *)
(***************************************************************************)
EXTENDS VirtualBook, FiniteSets, FiniteSetsExt

CONSTANTS
    Agents,
    Capital,      \* what each agent starts with
    Quantities,   \* sizes of fills
    Prices,
    OrderIds

VARIABLES
    ledger,       \* the fills entered, by order
    cash          \* the cash of each agent
vars == <<ledger, cash>>

Entry == [agent : Agents, side : Sides, n : Nat, price : Prices, settled : BOOLEAN]

TypeOK ==
    /\ DOMAIN ledger \subseteq OrderIds
    /\ \A o \in DOMAIN ledger : ledger[o] \in Entry
    /\ cash \in [Agents -> Int]

Init ==
    /\ ledger = [o \in {} |-> 0]
    /\ cash = [a \in Agents |-> Capital]

Enter(o, e) ==
    /\ o \notin DOMAIN ledger /\ ~e.settled
    /\ ledger' = [p \in DOMAIN ledger \cup {o} |-> IF p = o THEN e ELSE ledger[p]]
    /\ cash' = [cash EXCEPT ![e.agent] = @ - e.price * Signed(e.side, e.n)]

Settle(o, actual) ==
    LET e == ledger[o]
    IN  /\ o \in DOMAIN ledger /\ ~e.settled
        /\ ledger' = [ledger EXCEPT ![o].price = actual, ![o].settled = TRUE]
        /\ cash' = [cash EXCEPT ![e.agent] = @ - (actual - e.price) * Signed(e.side, e.n)]

Next ==
    \/ \E o \in OrderIds, a \in Agents, side \in Sides, n \in Quantities, mark \in Prices :
         Enter(o, [agent |-> a, side |-> side, n |-> n, price |-> mark, settled |-> FALSE])
    \/ \E o \in OrderIds, actual \in Prices : Settle(o, actual)

Spec == Init /\ [][Next]_vars
===============================================================================
