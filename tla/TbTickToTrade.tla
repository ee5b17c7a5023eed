---------------------------- MODULE TbTickToTrade ----------------------------
(***************************************************************************)
(* tb_tick_to_trade.py: the tests of the single-symbol card, from bytes to *)
(* the order on m_axis.  The stock locate, 1 here, is not looked at.       *)
(***************************************************************************)
EXTENDS BenchOps

reset == Clocks(8, [rst |-> TRUE, halt |-> FALSE]) \o Clocks(1, Unwritten)

drive_stream(c) == Send(c, TRUE, Unwritten)

drive_framed(c, halt) == Send(c, TRUE, [halt |-> halt])

(* An order d within so many edges; then its latency is read. *)
await_decision(max_cycles, d) ==
    Until(max_cycles, "valid", 1, Unwritten) \o Check(d) \o Read(<<"last", 0>>, {})

-----------------------------------------------------------------------------
test_buy_decision_end_to_end ==
    reset \o drive_framed(add(1, 1, "ask", 100, 1500100), FALSE)
    \o drive_framed(add(1, 2, "bid", 200, 1499900), FALSE)
    \o await_decision(200, [action |-> BUY, price |-> 1500100, size |-> 100])

test_sell_decision_end_to_end ==
    reset \o drive_framed(add(1, 10, "bid", 100, 1499900), FALSE)
    \o drive_framed(add(1, 11, "ask", 200, 1500100), FALSE)
    \o await_decision(200, [action |-> SELL, price |-> 1499900, size |-> 100])

test_no_decision_balanced_book ==
    reset \o drive_framed(add(1, 20, "ask", 100, 1500100), FALSE)
    \o drive_framed(add(1, 21, "bid", 100, 1499900), FALSE)
    \o Each(100, [valid |-> FALSE], Unwritten)

(* The decisions are logged, not checked. *)
test_scenario_basic_pipeline ==
    reset \o ForEach(scenario_basic(1), drive_stream) \o Clocks(50, Unwritten)

test_backpressure_no_drop ==
    reset \o ForEach(<<add(1, 1, "ask", 100, 1500100), add(1, 2, "bid", 100, 1499900),
                       execute(1, 1, 100), add(1, 3, "ask", 100, 1500100),
                       add(1, 4, "bid", 300, 1499900)>>, LAMBDA c : drive_framed(c, FALSE))
    \o await_decision(700, [action |-> BUY, price |-> 1500100]) \o Check([stalled |-> TRUE])

test_halt_blocks_decision ==
    reset \o drive_framed(add(1, 1, "ask", 100, 1500100), TRUE)
    \o drive_framed(add(1, 2, "bid", 200, 1499900), TRUE)
    \o Each(60, [valid |-> FALSE, only_halt |-> TRUE], Unwritten)

Tests == test_buy_decision_end_to_end \o test_sell_decision_end_to_end
         \o test_no_decision_balanced_book \o test_scenario_basic_pipeline
         \o test_backpressure_no_drop \o test_halt_blocks_decision
=============================================================================
