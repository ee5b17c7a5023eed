-------------------------- MODULE SoftwareStrategy --------------------------
(***************************************************************************)
(* strategy_sw.SoftwareStrategy: one evaluation of one quote.  A quote has *)
(* a flag for book_valid and the touch of both sides.                      *)
(***************************************************************************)
EXTENDS Integers

CONSTANTS SW_BID_THRESH, SW_ASK_THRESH, LOT_SIZE

None == [some |-> FALSE]
Decision(action, price) ==
    [some |-> TRUE, action |-> action, price |-> price, size |-> LOT_SIZE]

(* prev_valid: book_valid of the evaluation before. *)
evaluate(q, prev_valid) ==
    IF ~(q.book_valid /\ prev_valid) THEN None
    ELSE IF q.bid_size * 10 > SW_BID_THRESH * q.ask_size /\ q.ask > 0 THEN Decision("BUY", q.ask)
    ELSE IF q.ask_size * 10 > SW_ASK_THRESH * q.bid_size /\ q.bid > 0 THEN Decision("SELL", q.bid)
    ELSE None
=============================================================================
