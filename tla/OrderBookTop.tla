---------------------------- MODULE OrderBookTop ----------------------------
(***************************************************************************)
(* order_book_top.sv, the book of milestone 1, and golden/order_book.py,   *)
(* the model its test bench compares it with.  Both remember the touch as  *)
(* the best of all orders ever added: an order that leaves does not change *)
(* it.  They differ in what holds the orders (slots by the low bits of the *)
(* reference, or a dict), in when a side counts as seen, and in the width  *)
(* of a size.                                                              *)
(***************************************************************************)
EXTENDS Integers, TLC

CONSTANTS M1_DEPTH,     \* ORDER_DEPTH of this book
          M1_WORD       \* 2^32

Nothing == [x \in {} |-> x]

(* The touch after reset, of both. *)
BookState == [bid |-> [price |-> 0, size |-> 0, seen |-> FALSE],
              ask |-> [price |-> M1_WORD - 1, size |-> 0, seen |-> FALSE]]

Empty == [orders |-> Nothing, touch |-> BookState]

valid(b) == b.touch.bid.seen /\ b.touch.ask.seen

improves(side, p, q) == IF side = "bid" THEN p > q ELSE p < q

(* The orders by key after a message: the slot in the RTL, the reference in *)
(* the golden book.                                                        *)
Recorded(orders, key, msg) ==
    LET known == key \in DOMAIN orders /\ orders[key].ref = msg.ref
        without == [k \in DOMAIN orders \ {key} |-> orders[k]]
    IN  CASE msg.type = "A" ->
               (key :> [ref |-> msg.ref, side |-> msg.side, price |-> msg.price,
                        shares |-> msg.shares]) @@ orders
          [] msg.type = "D" /\ known -> without
          [] msg.type \in {"X", "E"} /\ known ->
               IF orders[key].shares <= msg.shares THEN without
                 ELSE [orders EXCEPT ![key].shares = @ - msg.shares]
          [] OTHER -> orders

-----------------------------------------------------------------------------
(* The RTL: seen is read before the edge, and sizes wrap. *)

\* Mutant: an order counts only if it beats the price that the side has
\* after reset.
TouchedIfBetter(side, t, msg) ==
    IF improves(side, msg.price, t.price)
      THEN [price |-> msg.price, size |-> msg.shares, seen |-> TRUE]
    ELSE IF msg.price = t.price THEN [t EXCEPT !.size = (@ + msg.shares) % M1_WORD]
    ELSE t

Touched(side, t, msg) ==
    IF improves(side, msg.price, t.price) \/ ~t.seen
      THEN [price |-> msg.price, size |-> msg.shares, seen |-> TRUE]
    ELSE IF msg.price = t.price THEN [t EXCEPT !.size = (@ + msg.shares) % M1_WORD]
    ELSE t

M1Edge(b, msg) ==
    [orders |-> Recorded(b.orders, msg.ref % M1_DEPTH, msg),
     touch  |-> IF msg.type # "A" THEN b.touch
                  ELSE [b.touch EXCEPT ![msg.side] = Touched(msg.side, @, msg)]]

-----------------------------------------------------------------------------
(* The golden book: a side is seen from here on, so that the first order   *)
(* has to beat, or to match, the price of the empty side.                  *)
GoldenTouched(side, t, msg) ==
    LET s == [t EXCEPT !.seen = TRUE]
    IN  IF improves(side, msg.price, s.price)
          THEN [s EXCEPT !.price = msg.price, !.size = msg.shares]
        ELSE IF msg.price = s.price THEN [s EXCEPT !.size = @ + msg.shares]
        ELSE s

apply(b, msg) ==
    [orders |-> Recorded(b.orders, msg.ref, msg),
     touch  |-> IF msg.type # "A" THEN b.touch
                  ELSE [b.touch EXCEPT ![msg.side] = GoldenTouched(msg.side, @, msg)]]
=============================================================================
