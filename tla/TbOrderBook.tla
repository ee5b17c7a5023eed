----------------------------- MODULE TbOrderBook -----------------------------
(***************************************************************************)
(* tb_order_book.py: the tests of the milestone 1 book, which compare its  *)
(* outputs with those of the golden book (output golden: they are equal).  *)
(***************************************************************************)
EXTENDS BenchOps

reset == Clocks(5, [rst |-> TRUE]) \o Clocks(1, Unwritten)

drive_msg(msg) == Clocks(1, [msg |-> {[locate |-> 0, msg |-> msg]}]) \o Clocks(1, Unwritten)

check == Check([golden |-> TRUE])

(* The device and the golden book, message by message. *)
Both(msgs) == ForEach(msgs, LAMBDA m : drive_msg(m) \o Apply(m))

-----------------------------------------------------------------------------
test_single_bid ==
    reset \o Both(parse_stream(<<add(1, 1, "bid", 500, 1500000)>>)) \o check
    \o Check([valid |-> FALSE, bid_p |-> 1500000, bid_s |-> 500])

test_single_ask ==
    reset \o Both(parse_stream(<<add(1, 1, "ask", 300, 1500100)>>)) \o check
    \o Check([valid |-> FALSE, ask_p |-> 1500100, ask_s |-> 300])

test_bid_ask_spread ==
    reset \o Both(parse_stream(<<add(1, 1, "bid", 200, 1499900), add(1, 2, "ask", 150, 1500100)>>))
    \o check \o Check([valid |-> TRUE])

test_better_bid_wins ==
    reset \o Both(parse_stream(<<add(1, 10, "bid", 100, 1490000),
                                 add(1, 11, "bid", 200, 1499900)>>))
    \o check \o Check([bid_p |-> 1499900, bid_s |-> 200])

test_better_ask_wins ==
    reset \o Both(parse_stream(<<add(1, 20, "ask", 100, 1510000),
                                 add(1, 21, "ask", 250, 1500500)>>))
    \o check \o Check([ask_p |-> 1500500, ask_s |-> 250])

test_same_level_accumulate ==
    reset \o Both(parse_stream(<<add(1, 30, "bid", 100, 1500000),
                                 add(1, 31, "bid", 300, 1500000)>>))
    \o check \o Check([bid_s |-> 400])

test_cancel_partial ==
    reset \o Both(parse_stream(<<add(1, 40, "bid", 500, 1500000), cancel(1, 40, 100)>>)) \o check

test_cancel_full ==
    reset \o Both(parse_stream(<<add(1, 50, "ask", 200, 1501000), cancel(1, 50, 200)>>)) \o check

test_delete ==
    reset \o Both(parse_stream(<<add(1, 60, "ask", 200, 1501000), delete(1, 60)>>)) \o check

test_execute_partial ==
    reset \o Both(parse_stream(<<add(1, 70, "ask", 300, 1502000), execute(1, 70, 100)>>)) \o check

test_golden_stream ==
    reset \o ForEach(parse_stream(scenario_basic(1)), LAMBDA m : Both(<<m>>) \o check)

Tests == FlattenSeq(<<
    test_single_bid, test_single_ask, test_bid_ask_spread, test_better_bid_wins,
    test_better_ask_wins, test_same_level_accumulate, test_cancel_partial,
    test_cancel_full, test_delete, test_execute_partial, test_golden_stream >>)
=============================================================================
