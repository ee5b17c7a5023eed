---------------------------- MODULE TbItchParser ----------------------------
(***************************************************************************)
(* tb_itch_parser.py: the tests of the parser, which drive bytes without   *)
(* looking at s_axis_tready and compare what comes out with the golden     *)
(* parser.                                                                 *)
(***************************************************************************)
EXTENDS BenchOps

reset == Clocks(5, [rst |-> TRUE, m_ready |-> TRUE]) \o Clocks(1, Unwritten)

drive_message(c, w) == Send(c, FALSE, w)

(* The output of the one message so far, in these fields. *)
collect_output(fields) == Until(10, "m_valid", 0, Unwritten) \o Decodes(1, fields)

-----------------------------------------------------------------------------
test_add_order ==
    reset \o drive_message(add(1, 42, "bid", 500, 1234567), Unwritten)
    \o collect_output({"type", "ts", "ref", "side", "shares", "price"})

test_sell_add ==
    reset \o drive_message(add(1, 99, "ask", 200, 9990000), Unwritten)
    \o collect_output({"ref", "side", "shares", "price"}) \o Check([side |-> "ask"])

test_cancel ==
    reset \o drive_message(cancel(1, 7, 100), Unwritten)
    \o collect_output({"type", "ref", "shares"}) \o Check([price |-> 0])

test_delete ==
    reset \o drive_message(delete(1, 13), Unwritten) \o collect_output({"type", "ref"})

test_execute ==
    reset \o drive_message(execute(1, 55, 75), Unwritten)
    \o collect_output({"type", "ref", "shares"})

test_add_mpid ==
    reset \o drive_message(add_mpid(1, 77, "bid", 350, 1555000), Unwritten)
    \o collect_output({"type", "ref", "side", "shares", "price"})

test_execute_with_price ==
    reset \o drive_message(execute_with_price(1, 88, 120, 1499500), Unwritten)
    \o collect_output({"type", "ref", "shares", "price"})

test_replace ==
    reset \o drive_message(replace(1, 10, 20, 250, 1600000), Unwritten)
    \o collect_output({"type", "ref", "nref", "shares", "price"})

test_trade ==
    reset \o drive_message(trade(1, 909, "ask", 250, 1502500), Unwritten)
    \o collect_output({"type", "ref", "side", "shares", "price"})

test_backpressure_holds_output ==
    reset \o drive_message(add(1, 321, "bid", 400, 1234000), [m_ready |-> FALSE])
    \o Until(5, "m_valid", 0, Unwritten) \o Decodes(1, {"ref"})
    \o Each(5, [m_valid |-> TRUE, tready |-> FALSE, ref |-> 321], Unwritten)
    \o Clocks(2, [m_ready |-> TRUE]) \o Check([m_valid |-> FALSE, tready |-> TRUE])

test_back_to_back ==
    reset \o ForEach(<<add(1, 1, "bid", 100, 1000000), add(1, 2, "ask", 200, 1001000),
                       cancel(1, 1, 50)>>, LAMBDA c : drive_message(c, Unwritten))
    \o Clocks(5, Unwritten) \o Check([captured |-> 3])
    \o Captures(1, {"type", "ref", "shares", "price"})
    \o Captures(2, {"type", "ref", "shares", "price"}) \o Captures(3, {"type", "ref"})

Tests == FlattenSeq(<<
    test_add_order, test_sell_add, test_cancel, test_delete, test_execute, test_add_mpid,
    test_execute_with_price, test_replace, test_trade, test_backpressure_holds_output,
    test_back_to_back >>)
=============================================================================
