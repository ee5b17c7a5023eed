------------------------- MODULE TbStrategyImbalance -------------------------
(***************************************************************************)
(* tb_strategy_imbalance.py: the tests of the strategy, which show it a    *)
(* book and wait for its decision.                                         *)
(***************************************************************************)
EXTENDS BenchOps

CONSTANTS BID_THRESH, ASK_THRESH, COOLDOWN_CYCLES, BASE_LOT, MAX_LOT

(* Four levels a side; those not given are empty. *)
Packed(sizes) == [i \in 1 .. 4 |-> IF i <= Len(sizes) THEN sizes[i] ELSE 0]

Shows(valid, bid_price, bid_sizes, ask_price, ask_sizes) ==
    [book |-> [sym |-> 0, book_valid |-> valid, bid |-> bid_price, ask |-> ask_price,
               bid_sizes |-> Packed(bid_sizes), ask_sizes |-> Packed(ask_sizes)]]

set_book_levels(bid_price, bid_sizes, ask_price, ask_sizes) ==
    Shows(TRUE, bid_price, bid_sizes, ask_price, ask_sizes)

set_book(bid_price, bid_size, ask_price, ask_size) ==
    Shows(TRUE, bid_price, <<bid_size>>, ask_price, <<ask_size>>)

reset == Clocks(5, [rst |-> TRUE] @@ Shows(FALSE, 0, <<>>, 0, <<>>)) \o Clocks(1, Unwritten)

(* The decision that comes within 20 edges is d. *)
await_decision(book, d) == Until(20, "valid", 1, book) \o Check(d)

assert_no_decision(book, cycles) == Each(cycles, [valid |-> FALSE], book)

(* What the test takes to be called for by a single level. *)
golden_decision(bid_price, bid_size, ask_price, ask_size) ==
    IF bid_size * 10 > BID_THRESH * ask_size /\ ask_price > 0
      THEN [action |-> BUY, price |-> ask_price]
    ELSE IF ask_size * 10 > ASK_THRESH * bid_size /\ bid_price > 0
      THEN [action |-> SELL, price |-> bid_price]
    ELSE Unwritten

-----------------------------------------------------------------------------
test_no_decision_balanced ==
    reset \o assert_no_decision(set_book(1499900, 100, 1500100, 100), 10)

test_buy_signal ==
    reset \o await_decision(set_book(1499900, 200, 1500100, 100),
                            [action |-> BUY, price |-> 1500100, size |-> BASE_LOT])
    \o Check(golden_decision(1499900, 200, 1500100, 100))

test_sell_signal ==
    reset \o await_decision(set_book(1499900, 100, 1500100, 200),
                            [action |-> SELL, price |-> 1499900, size |-> BASE_LOT])
    \o Check(golden_decision(1499900, 100, 1500100, 200))

test_threshold_exact_no_trigger ==
    reset \o assert_no_decision(set_book(1499900, 150, 1500100, 100), 10)

test_threshold_one_above_triggers ==
    reset \o await_decision(set_book(1499900, 151, 1500100, 100), [action |-> BUY])

test_book_invalid_no_decision ==
    reset \o assert_no_decision(Shows(FALSE, 1499900, <<10000>>, 1500100, <<1>>), 10)

test_prev_valid_gate ==
    reset \o Clocks(1, set_book(1499900, 200, 1500100, 100))
    \o assert_no_decision(Shows(FALSE, 1499900, <<200>>, 1500100, <<100>>), 10)

test_buy_order_price_is_ask ==
    reset \o await_decision(set_book(1499750, 300, 1500250, 100),
                            [action |-> BUY, price |-> 1500250, size |-> BASE_LOT])

test_sell_order_price_is_bid ==
    reset \o await_decision(set_book(1499750, 100, 1500250, 300),
                            [action |-> SELL, price |-> 1499750, size |-> BASE_LOT])

test_spread_guard_blocks_wide_market ==
    reset \o assert_no_decision(set_book(1499000, 500, 1501000, 100), 15)

test_spread_at_limit_fires ==
    reset \o await_decision(set_book(1500000, 200, 1501000, 100),
                            [action |-> BUY, price |-> 1501000])

test_crossed_book_blocked ==
    reset \o assert_no_decision(set_book(1500000, 500, 1500000, 100), 15)

test_cooldown_enforced ==
    reset \o await_decision(set_book(1499900, 200, 1500100, 100), Unwritten)
    \o Until(40, "valid", COOLDOWN_CYCLES, Unwritten)

test_lot_tier1_base ==
    reset \o await_decision(set_book(1499900, 200, 1500100, 100),
                            [action |-> BUY, size |-> BASE_LOT])

test_lot_tier2_scales ==
    reset \o await_decision(set_book(1499900, 400, 1500100, 100),
                            [action |-> BUY, size |-> 2 * BASE_LOT])

test_lot_tier3_capped ==
    reset \o await_decision(set_book(1499900, 1000, 1500100, 100),
                            [action |-> BUY, size |-> MAX_LOT])

test_lot_sell_tier2_scales ==
    reset \o await_decision(set_book(1499900, 100, 1500100, 400),
                            [action |-> SELL, size |-> 2 * BASE_LOT])

test_depth_supported_bid_triggers_buy ==
    reset \o await_decision(set_book_levels(1499900, <<100, 100, 100, 100>>, 1500100, <<100>>),
                            [action |-> BUY, price |-> 1500100])

test_depth_supported_ask_triggers_sell ==
    reset \o await_decision(set_book_levels(1499900, <<100>>, 1500100, <<100, 100, 100, 100>>),
                            [action |-> SELL, price |-> 1499900])

test_depth_balanced_no_trade ==
    LET even == <<100, 100, 100, 100>>
    IN  reset \o assert_no_decision(set_book_levels(1499900, even, 1500100, even), 12)

test_depth_strong_imbalance_scales_lot ==
    reset \o await_decision(set_book_levels(1499900, <<400, 400, 400, 400>>, 1500100, <<100>>),
                            [action |-> BUY, size |-> MAX_LOT])

Tests == FlattenSeq(<<
    test_no_decision_balanced, test_buy_signal, test_sell_signal,
    test_threshold_exact_no_trigger, test_threshold_one_above_triggers,
    test_book_invalid_no_decision, test_prev_valid_gate, test_buy_order_price_is_ask,
    test_sell_order_price_is_bid, test_spread_guard_blocks_wide_market,
    test_spread_at_limit_fires, test_crossed_book_blocked, test_cooldown_enforced,
    test_lot_tier1_base, test_lot_tier2_scales, test_lot_tier3_capped,
    test_lot_sell_tier2_scales, test_depth_supported_bid_triggers_buy,
    test_depth_supported_ask_triggers_sell, test_depth_balanced_no_trade,
    test_depth_strong_imbalance_scales_lot >>)
=============================================================================
