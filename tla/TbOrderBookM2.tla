---------------------------- MODULE TbOrderBookM2 ----------------------------
(***************************************************************************)
(* tb_order_book_m2.py: the tests of one book, which drive a message in    *)
(* one edge without looking at msg_ready and give a rescan RESCAN_CYCLES   *)
(* edges.  Levels are checked from the touch down.                         *)
(***************************************************************************)
EXTENDS BenchOps

CONSTANT OrderDepth

\* Mutant: what the head of the file says that a rescan takes.
RESCAN_CYCLES_Documented == OrderDepth + 1

RESCAN_CYCLES == OrderDepth + 8

setup == Clocks(5, [rst |-> TRUE]) \o Clocks(1, Unwritten)

drive_msg(type, ref, side, shares, price, nref) ==
    Clocks(1, [msg |-> {[locate |-> 0,
                         msg |-> [type |-> type, ref |-> ref, nref |-> nref, side |-> side,
                                  shares |-> shares, price |-> price]]}])
    \o Clocks(1, Unwritten)

wait_rescan == Clocks(RESCAN_CYCLES, Unwritten)

-----------------------------------------------------------------------------
test_reset_state == setup \o Check([valid |-> FALSE])

test_add_bid_basic ==
    setup \o drive_msg("A", 1, "bid", 100, 15000000, 0)
    \o Check([bid_p |-> 15000000, bid_s |-> 100, valid |-> FALSE])

test_add_ask_basic ==
    setup \o drive_msg("A", 2, "ask", 50, 15100000, 0)
    \o Check([ask_p |-> 15100000, ask_s |-> 50, valid |-> FALSE])

test_book_valid_requires_both_sides ==
    setup \o drive_msg("A", 1, "bid", 100, 15000000, 0) \o Check([valid |-> FALSE])
    \o drive_msg("A", 2, "ask", 50, 15100000, 0) \o Check([valid |-> TRUE])

test_add_bid_higher_price_wins ==
    setup \o drive_msg("A", 1, "bid", 50, 9000000, 0)
    \o drive_msg("A", 2, "bid", 80, 10000000, 0) \o Check([bid_p |-> 10000000, bid_s |-> 80])

test_add_bid_same_price_aggregates ==
    setup \o drive_msg("A", 1, "bid", 50, 10000000, 0)
    \o drive_msg("A", 2, "bid", 30, 10000000, 0) \o Check([bid_p |-> 10000000, bid_s |-> 80])

test_add_ask_lower_price_wins ==
    setup \o drive_msg("A", 10, "ask", 40, 11000000, 0)
    \o drive_msg("A", 11, "ask", 20, 10500000, 0) \o Check([ask_p |-> 10500000, ask_s |-> 20])

test_delete_best_bid_reveals_second ==
    setup \o drive_msg("A", 1, "bid", 50, 10000000, 0) \o drive_msg("A", 2, "bid", 30, 9000000, 0)
    \o Check([bid_p |-> 10000000, bid_s |-> 50])
    \o drive_msg("D", 1, "bid", 0, 0, 0) \o wait_rescan
    \o Check([bid_p |-> 9000000, bid_s |-> 30])

test_delete_non_best_bid_unchanged ==
    setup \o drive_msg("A", 1, "bid", 50, 10000000, 0) \o drive_msg("A", 2, "bid", 30, 9000000, 0)
    \o Check([bid_p |-> 10000000, bid_s |-> 50])
    \o drive_msg("D", 2, "bid", 0, 0, 0) \o wait_rescan
    \o Check([bid_p |-> 10000000, bid_s |-> 50])

test_cancel_partial_reduces_size ==
    setup \o drive_msg("A", 1, "bid", 80, 10000000, 0)
    \o drive_msg("X", 1, "bid", 50, 0, 0) \o wait_rescan
    \o Check([bid_p |-> 10000000, bid_s |-> 30])

test_cancel_full_empties_book ==
    setup \o drive_msg("A", 1, "bid", 50, 10000000, 0) \o drive_msg("A", 2, "ask", 20, 11000000, 0)
    \o Check([valid |-> TRUE])
    \o drive_msg("X", 1, "bid", 50, 0, 0) \o wait_rescan
    \o Check([bid_s |-> 0, valid |-> FALSE])

test_execute_reduces_size ==
    setup \o drive_msg("A", 1, "bid", 80, 10000000, 0)
    \o drive_msg("E", 1, "bid", 30, 0, 0) \o wait_rescan
    \o Check([bid_p |-> 10000000, bid_s |-> 50])

test_execute_full_removes_entry ==
    setup \o drive_msg("A", 1, "bid", 50, 10000000, 0)
    \o drive_msg("E", 1, "bid", 50, 0, 0) \o wait_rescan
    \o Check([bid_s |-> 0, valid |-> FALSE])

test_two_asks_delete_best_reveals_higher ==
    setup \o drive_msg("A", 10, "ask", 40, 10000000, 0)
    \o drive_msg("A", 11, "ask", 25, 11000000, 0)
    \o Check([ask_p |-> 10000000, ask_s |-> 40])
    \o drive_msg("D", 10, "ask", 0, 0, 0) \o wait_rescan
    \o Check([ask_p |-> 11000000, ask_s |-> 25])

test_aggregate_then_partial_cancel ==
    setup \o drive_msg("A", 1, "bid", 50, 10000000, 0)
    \o drive_msg("A", 2, "bid", 30, 10000000, 0)
    \o Check([bid_p |-> 10000000, bid_s |-> 80])
    \o drive_msg("X", 2, "bid", 20, 0, 0) \o wait_rescan
    \o Check([bid_p |-> 10000000, bid_s |-> 60])

-----------------------------------------------------------------------------
test_exec_with_price_reduces_size ==
    setup \o drive_msg("A", 1, "bid", 80, 10000000, 0)
    \o drive_msg("C", 1, "bid", 30, 9900000, 0) \o wait_rescan
    \o Check([bid_p |-> 10000000, bid_s |-> 50])

test_exec_with_price_full_removes ==
    setup \o drive_msg("A", 1, "bid", 50, 10000000, 0) \o drive_msg("A", 2, "ask", 20, 11000000, 0)
    \o Check([valid |-> TRUE])
    \o drive_msg("C", 1, "bid", 50, 9900000, 0) \o wait_rescan
    \o Check([bid_s |-> 0, valid |-> FALSE])

test_replace_moves_bid_price ==
    setup \o drive_msg("A", 1, "bid", 50, 10000000, 0) \o drive_msg("A", 2, "ask", 20, 11000000, 0)
    \o Check([bid_p |-> 10000000, bid_s |-> 50, valid |-> TRUE])
    \o drive_msg("U", 1, "bid", 70, 10500000, 3) \o wait_rescan
    \o Check([bid_p |-> 10500000, bid_s |-> 70])

test_replace_keeps_ask_side ==
    setup \o drive_msg("A", 10, "ask", 40, 11000000, 0)
    \o drive_msg("A", 1, "bid", 50, 10000000, 0)
    \o Check([ask_p |-> 11000000, ask_s |-> 40, valid |-> TRUE])
    \o drive_msg("U", 10, "bid", 25, 10900000, 11) \o wait_rescan
    \o Check([ask_p |-> 10900000, ask_s |-> 25])

test_replace_same_slot ==
    setup \o drive_msg("A", 1, "bid", 50, 10000000, 0) \o drive_msg("A", 2, "ask", 20, 11000000, 0)
    \o Check([bid_p |-> 10000000, bid_s |-> 50, valid |-> TRUE])
    \o drive_msg("U", 1, "bid", 80, 10050000, 257) \o wait_rescan
    \o Check([bid_p |-> 10050000, bid_s |-> 80])

-----------------------------------------------------------------------------
test_two_bid_levels ==
    setup \o drive_msg("A", 1, "bid", 50, 10000000, 0) \o drive_msg("A", 2, "bid", 30, 9000000, 0)
    \o Check([bid_prices |-> <<10000000, 9000000>>, bid_sizes |-> <<50, 30>>])

test_bid_levels_insert_sorted ==
    setup \o drive_msg("A", 1, "bid", 10, 9000000, 0) \o drive_msg("A", 2, "bid", 20, 10000000, 0)
    \o drive_msg("A", 3, "bid", 30, 9500000, 0)
    \o Check([bid_prices |-> <<10000000, 9500000, 9000000>>])

test_ask_levels_ascending ==
    setup \o drive_msg("A", 10, "ask", 40, 11000000, 0)
    \o drive_msg("A", 11, "ask", 20, 10500000, 0)
    \o drive_msg("A", 12, "ask", 10, 10800000, 0)
    \o Check([ask_prices |-> <<10500000, 10800000, 11000000>>])

test_level_size_aggregation ==
    setup \o drive_msg("A", 1, "bid", 50, 10000000, 0)
    \o drive_msg("A", 2, "bid", 30, 10000000, 0)
    \o Check([bid_prices |-> <<10000000>>, bid_sizes |-> <<80, 0>>])

prices == <<10000000, 9900000, 9800000, 9700000, 9600000>>

FiveBids ==
    ForEach([i \in DOMAIN prices |-> i],
            LAMBDA i : drive_msg("A", i, "bid", 10 * i, prices[i], 0))

test_depth_cap_and_rescan_recovery ==
    setup \o FiveBids \o Check([bid_prices |-> SubSeq(prices, 1, 4)])
    \o drive_msg("D", 1, "bid", 0, 0, 0) \o wait_rescan
    \o Check([bid_prices |-> SubSeq(prices, 2, 5)])

test_msg_ready_backpressure ==
    setup \o Check([msg_ready |-> TRUE])
    \o drive_msg("A", 1, "bid", 50, 10000000, 0) \o drive_msg("A", 2, "ask", 20, 11000000, 0)
    \o Check([msg_ready |-> TRUE])
    \o drive_msg("D", 1, "bid", 0, 0, 0) \o Check([msg_ready |-> FALSE])
    \o wait_rescan \o Check([msg_ready |-> TRUE])

test_rescan_skipped_below_depth ==
    setup \o FiveBids \o Check([bid_prices |-> SubSeq(prices, 1, 4)])
    \o drive_msg("D", 5, "bid", 0, 0, 0) \o Clocks(5, Unwritten)
    \o Check([msg_ready |-> TRUE, bid_prices |-> SubSeq(prices, 1, 4)])
    \o drive_msg("D", 1, "bid", 0, 0, 0) \o Check([msg_ready |-> FALSE])
    \o wait_rescan \o Check([bid_prices |-> SubSeq(prices, 2, 4) \o <<0>>])

test_trade_print_is_noop ==
    LET both == Check([bid_p |-> 10000000, bid_s |-> 50, ask_p |-> 11000000, ask_s |-> 20,
                       valid |-> TRUE])
    IN  setup \o drive_msg("A", 1, "bid", 50, 10000000, 0)
        \o drive_msg("A", 2, "ask", 20, 11000000, 0) \o both
        \o drive_msg("P", 99, "bid", 999, 10500000, 0) \o Check([msg_ready |-> TRUE]) \o both

-----------------------------------------------------------------------------
Tests == FlattenSeq(<<
    test_reset_state, test_add_bid_basic, test_add_ask_basic,
    test_book_valid_requires_both_sides, test_add_bid_higher_price_wins,
    test_add_bid_same_price_aggregates, test_add_ask_lower_price_wins,
    test_delete_best_bid_reveals_second, test_delete_non_best_bid_unchanged,
    test_cancel_partial_reduces_size, test_cancel_full_empties_book,
    test_execute_reduces_size, test_execute_full_removes_entry,
    test_two_asks_delete_best_reveals_higher, test_aggregate_then_partial_cancel,
    test_exec_with_price_reduces_size, test_exec_with_price_full_removes,
    test_replace_moves_bid_price, test_replace_keeps_ask_side, test_replace_same_slot,
    test_two_bid_levels, test_bid_levels_insert_sorted, test_ask_levels_ascending,
    test_level_size_aggregation, test_depth_cap_and_rescan_recovery,
    test_msg_ready_backpressure, test_rescan_skipped_below_depth, test_trade_print_is_noop >>)
=============================================================================
