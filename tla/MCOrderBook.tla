----------------------------- MODULE MCOrderBook -----------------------------
(* OrderBookDepth with the small feeds that TLC checks. *)
EXTENDS OrderBookDepth

\* One reference more than there are slots: two share slot 0.
SharedSlotRefs == 0 .. OrderDepth

\* One price more than there are levels: the worst one can be hidden.
HiddenPrices == 1 .. NLevels + 1

\* One type for each way through the state machine.
PathTypes == {"A", "X", "D", "U", "P"}
=============================================================================
