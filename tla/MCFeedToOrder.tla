---------------------------- MODULE MCFeedToOrder ----------------------------
(* A short day of two books: both sides of locate 1 are quoted, and its ask  *)
(* is replaced; the other book gets a bid of locate 2, which is deleted, and *)
(* an ask of locate 4, whose low bits are the same.                          *)
EXTENDS FeedToOrder

TwoSymbolDay ==
    { Content("A", 1, 1, 1, "bid", 4, 10), Content("A", 1, 2, 2, "ask", 1, 11),
      Content("U", 1, 2, 3, "bid", 6, 12),
      Content("A", 2, 1, 1, "bid", 1, 20), Content("D", 2, 1, 1, "bid", 0, 0),
      Content("F", 4, 2, 2, "ask", 4, 21) }

(* What the theorems about the card assume of a feed holds of this one.      *)
ASSUME SlotsAssumption == SlotPerOrder
=============================================================================
