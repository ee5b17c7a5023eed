-------------------------- MODULE TbMultiSymbolBook --------------------------
(***************************************************************************)
(* tb_multi_symbol_book.py: the tests of the engine of four books, driven  *)
(* as the single book is in tb_order_book_m2.                              *)
(***************************************************************************)
EXTENDS BenchOps

CONSTANT OrderDepth

RESCAN_CYCLES == OrderDepth + 8

setup == Clocks(5, [rst |-> TRUE]) \o Clocks(1, Unwritten)

drive(type, sym, ref, side, shares, price) ==
    Clocks(1, [msg |-> {[locate |-> sym,
                         msg |-> [type |-> type, ref |-> ref, nref |-> 0, side |-> side,
                                  shares |-> shares, price |-> price]]}])
    \o Clocks(1, Unwritten)

wait_rescan == Clocks(RESCAN_CYCLES, Unwritten)

-----------------------------------------------------------------------------
test_two_symbols_independent ==
    setup \o drive("A", 0, 1, "bid", 50, 10000000) \o drive("A", 0, 2, "ask", 20, 11000000)
    \o drive("A", 1, 3, "bid", 30, 20000000) \o drive("A", 1, 4, "ask", 15, 21000000)
    \o Check([bid0 |-> 10000000, ask0 |-> 11000000, bid1 |-> 20000000, ask1 |-> 21000000])

test_active_sym_and_mux ==
    setup \o drive("A", 0, 1, "bid", 50, 10000000) \o drive("A", 0, 2, "ask", 20, 11000000)
    \o Check([active_sym |-> 0, bid_p |-> 10000000, valid |-> TRUE])
    \o drive("A", 1, 3, "bid", 30, 20000000) \o Check([active_sym |-> 1, bid_p |-> 20000000])

test_symbol_isolation ==
    setup \o drive("A", 0, 1, "bid", 50, 10000000) \o drive("A", 1, 3, "bid", 30, 20000000)
    \o Check([bid1 |-> 20000000])
    \o drive("A", 0, 5, "bid", 60, 10500000) \o Check([bid0 |-> 10500000, bid1 |-> 20000000])

test_rescan_global_stall ==
    setup \o drive("A", 0, 1, "bid", 50, 10000000) \o drive("A", 0, 2, "bid", 30, 9000000)
    \o drive("A", 1, 3, "bid", 40, 20000000) \o Check([msg_ready |-> TRUE])
    \o drive("D", 0, 1, "bid", 0, 0) \o Check([msg_ready |-> FALSE])
    \o wait_rescan \o Check([msg_ready |-> TRUE, bid0 |-> 9000000, bid1 |-> 20000000])

Tests == test_two_symbols_independent \o test_active_sym_and_mux
         \o test_symbol_isolation \o test_rescan_global_stall
=============================================================================
