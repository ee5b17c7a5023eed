----------------------------- MODULE TbRiskCheck -----------------------------
(***************************************************************************)
(* tb_risk_check.py: the tests of the risk check, which propose orders to  *)
(* it; its reference price is REF throughout.                              *)
(***************************************************************************)
EXTENDS BenchOps

CONSTANTS MAX_ORDER_SIZE, MAX_PRICE_BAND

REF == 1500000

reset == Clocks(4, [rst |-> TRUE, halt |-> FALSE]) \o Clocks(1, Unwritten)

(* The answer e is there before the edge; the position follows at the edge. *)
propose(action, price, size, halt, e) ==
    Clocks(1, [order |-> [valid |-> TRUE, action |-> action, price |-> price, size |-> size],
               halt  |-> halt])
    \o Check(e) \o Clocks(1, Unwritten)

Passes == [out_valid |-> TRUE, reject_reason |-> "OK"]
Blocked(reason) == [out_valid |-> FALSE, reject_reason |-> reason]

-----------------------------------------------------------------------------
test_normal_order_passes == reset \o propose(BUY, REF + 100, 100, FALSE, Passes)

test_oversized_blocked ==
    reset \o propose(BUY, REF + 100, MAX_ORDER_SIZE + 1, FALSE, Blocked("SIZE"))

test_price_collar_blocked == reset \o propose(BUY, REF + 10000, 100, FALSE, Blocked("PRICE"))

test_price_collar_edge_ok == reset \o propose(SELL, REF - MAX_PRICE_BAND, 100, FALSE, Passes)

test_position_limit ==
    reset \o propose(BUY, REF, 500, FALSE, [out_valid |-> TRUE])
    \o propose(BUY, REF, 500, FALSE, [out_valid |-> TRUE])
    \o propose(BUY, REF, 500, FALSE, Blocked("POSITION"))

test_position_nets_out ==
    reset \o propose(BUY, REF, 500, FALSE, Unwritten) \o propose(SELL, REF, 500, FALSE, Unwritten)
    \o propose(BUY, REF, 500, FALSE, Passes)

test_halt_blocks_all ==
    reset \o propose(BUY, REF + 100, 100, TRUE, Blocked("HALT"))
    \o propose(BUY, REF + 100, 100, FALSE, Passes)

Tests == test_normal_order_passes \o test_oversized_blocked \o test_price_collar_blocked
         \o test_price_collar_edge_ok \o test_position_limit \o test_position_nets_out
         \o test_halt_blocks_all
=============================================================================
