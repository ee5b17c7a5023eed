-------------------------- MODULE TbMultiSymbolTop --------------------------
(***************************************************************************)
(* tb_multi_symbol_top.py: the tests of the four-symbol card, from the     *)
(* bytes of several stocks to an order with its symbol.                    *)
(***************************************************************************)
EXTENDS BenchOps

reset == Clocks(8, [rst |-> TRUE, halt |-> FALSE]) \o Clocks(1, Unwritten)

drive_framed(c) == Send(c, TRUE, Unwritten)

await_decision(d) == Until(400, "valid", 1, Unwritten) \o Check(d)

-----------------------------------------------------------------------------
test_two_symbols_decide ==
    reset \o drive_framed(add(1, 1, "ask", 100, 1500100))
    \o drive_framed(add(1, 2, "bid", 200, 1499900))
    \o await_decision([sym |-> 1, action |-> BUY, price |-> 1500100])
    \o drive_framed(add(2, 1, "ask", 100, 2500100))
    \o drive_framed(add(2, 2, "bid", 200, 2499900))
    \o await_decision([sym |-> 2, action |-> BUY, price |-> 2500100])

test_symbol_books_isolated_end_to_end ==
    reset \o drive_framed(add(1, 1, "ask", 100, 1500100))
    \o drive_framed(add(1, 2, "bid", 100, 1499900))
    \o drive_framed(add(3, 1, "ask", 100, 3000100))
    \o drive_framed(add(3, 2, "bid", 300, 2999900))
    \o await_decision([sym |-> 3, action |-> BUY, price |-> 3000100])

Tests == test_two_symbols_decide \o test_symbol_books_isolated_end_to_end
=============================================================================
