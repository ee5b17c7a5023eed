------------------------------ MODULE BookDepth ------------------------------
(* The depth of a set of orders, from its definition: what a ladder built by  *)
(* side_insert has to be; and what an edit makes of the orders.  O maps any   *)
(* identifiers to orders.                                                     *)
EXTENDS PriceLevels, FiniteSets, Functions

\* The orders resting at one price of a side, and their prices.
RestingAt(O, s, p) == {r \in DOMAIN O : O[r].side = s /\ O[r].price = p}
Quoted(O, s)       == {O[r].price : r \in {x \in DOMAIN O : O[x].side = s}}

\* Their shares, in a register of SizeMod values.
Resting(O, s, p) ==
  SumFunctionOnSet([r \in DOMAIN O |-> O[r].shares], RestingAt(O, s, p)) % SizeMod

\* The place of price p among those quoted.
Rank(O, s, p) == 1 + Cardinality({q \in Quoted(O, s) : Better(s, q, p)})

\* The NLevels best prices of a side and what rests at each.
DepthOf(O, s) ==
  LET best  == {p \in Quoted(O, s) : Rank(O, s, p) <= NLevels}
      at(i) == CHOOSE p \in best : Rank(O, s, p) = i
  IN  [i \in 1 .. Cardinality(best) |-> [price |-> at(i), size |-> Resting(O, s, at(i))]]

Depth(O) == [s \in Side |-> DepthOf(O, s)]

\* No orders; O with order o under reference r; and O without r.
NoOrders      == [x \in {} |-> x]
With(O, r, o) == [x \in DOMAIN O \cup {r} |-> IF x = r THEN o ELSE O[x]]
Without(O, r) == [x \in DOMAIN O \ {r} |-> O[x]]

\* The orders once edit q is served; an unknown reference changes nothing.
ServedBy(O, q) ==
  LET o == O[q.ref]
  IN  CASE q.ref \notin DOMAIN O -> O
        [] q.ref \in DOMAIN O /\ q.kind = "reduce" /\ o.shares > q.shares ->
             With(O, q.ref, [o EXCEPT !.shares = @ - q.shares])
        [] q.ref \in DOMAIN O /\ q.kind = "replace" ->
             With(Without(O, q.ref), q.nref,
                  [side |-> o.side, price |-> q.price, shares |-> q.shares])
        [] OTHER -> Without(O, q.ref)
=============================================================================
