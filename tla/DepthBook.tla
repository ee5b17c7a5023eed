------------------------------ MODULE DepthBook ------------------------------
(* What an order book promises, whatever its table and its scan: it keeps the *)
(* live orders by reference and shows, for each side, the NLevels best prices *)
(* with the shares resting at each.  An add is shown at once.  An edit is     *)
(* asked for and served later; when it concerns a price shown the book may be *)
(* busy for a time, and shows what it showed until it has caught up.          *)
EXTENDS BookDepth

CONSTANTS Refs, Prices   \* order references and prices

VARIABLES orders,  \* live orders by reference, each with side, price, shares
          shown,   \* a ladder for each side
          asked,   \* the edit that is to be served, or NoRequest
          busy     \* shown is yet to be refreshed

vars == <<orders, shown, asked, busy>>

Order == [side : Side, price : Prices, shares : Size]

\* What is asked for order ref: take shares off it, remove it, or replace it.
Request == [kind : {"reduce", "remove", "replace"}, ref : Refs, nref : Refs,
            shares : Size, price : Prices \cup {0}]
NoRequest == [kind |-> "none"]

Init == orders = NoOrders /\ shown = EmptyLevels /\ asked = NoRequest /\ busy = FALSE

\* A new order under a free reference is shown at once.
Add(r) == /\ ~busy /\ asked = NoRequest
          /\ r \notin DOMAIN orders
          /\ orders' \in [DOMAIN orders \cup {r} -> Order]
          /\ \A x \in DOMAIN orders : orders'[x] = orders[x]
          /\ shown' = Depth(orders')
          /\ UNCHANGED <<asked, busy>>

Ask == /\ ~busy /\ asked = NoRequest
       /\ asked' \in Request
       /\ UNCHANGED <<orders, shown, busy>>

\* Either what is shown is not concerned, or the book becomes busy.
Serve == /\ asked # NoRequest
         /\ orders' = ServedBy(orders, asked)
         /\ asked'  = NoRequest
         /\ busy' \in BOOLEAN
         /\ shown'  = shown
         /\ ~busy' => shown' = Depth(orders')

Refresh == /\ busy
           /\ shown' = Depth(orders)
           /\ busy'  = FALSE
           /\ UNCHANGED <<orders, asked>>

Reset == /\ orders' = NoOrders /\ shown' = EmptyLevels
         /\ asked' = NoRequest /\ busy' = FALSE

Next == \/ Ask
        \/ Serve
        \/ Refresh
        \/ Reset
        \/ \E r \in Refs : Add(r)

Spec == Init /\ [][Next]_vars /\ WF_vars(Serve) /\ WF_vars(Refresh)
=============================================================================
