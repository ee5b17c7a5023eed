---------------------------- MODULE MCOrderPath ----------------------------
(* Books for the order path: two levels, prices of two symbols far apart   *)
(* (further than the collar), each lot tier, each guard of the strategy.   *)
EXTENDS OrderPath

Book(sym, valid, bid, ask, bids, asks) ==
    [sym |-> sym, book_valid |-> valid, bid |-> bid, ask |-> ask,
     bid_sizes |-> bids, ask_sizes |-> asks]

TwoSymbolBooks ==
    { Book(0, TRUE,  3,  4, <<5, 1>>, <<1, 0>>),     \* buys, third tier
      Book(0, TRUE,  3,  5, <<1, 1>>, <<2, 1>>),     \* sells, first tier
      Book(0, FALSE, 3, 63, <<4, 1>>, <<0, 0>>),     \* no ask: all ones
      Book(1, TRUE, 20, 22, <<2, 0>>, <<4, 1>>),     \* sells, second tier
      Book(1, TRUE, 20, 20, <<4, 0>>, <<1, 0>>),     \* locked
      Book(1, TRUE, 20, 23, <<4, 0>>, <<1, 0>>) }    \* spread too wide
=============================================================================
