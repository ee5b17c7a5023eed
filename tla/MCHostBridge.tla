---------------------------- MODULE MCHostBridge ----------------------------
(* Quotes around 100, one of them far away, one with a side missing; lots  *)
(* of the FPGA of both sides, one above the host's order size.             *)
EXTENDS HostBridge

Quote(valid, bid, bid_size, ask, ask_size) ==
    [book_valid |-> valid, bid |-> bid, bid_size |-> bid_size, ask |-> ask, ask_size |-> ask_size]

MarketQuotes ==
    { Quote(TRUE, 100, 4, 101, 1), Quote(TRUE, 100, 1, 101, 4),
      Quote(TRUE, 120, 4, 121, 1), Quote(FALSE, 100, 4, 0, 0) }

Lot(action, size) == [some |-> TRUE, action |-> action, price |-> 100, size |-> size]
FpgaLots == { Lot("BUY", 1), Lot("SELL", 1), Lot("BUY", 2) }
=============================================================================
