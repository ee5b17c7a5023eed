-------------------------- MODULE MCMultiSymbolBook --------------------------
(* MultiSymbolBook, and its history, with the small feeds that TLC checks: at *)
(* most MAX_MESSAGES from one reset to the next.                              *)
EXTENDS MultiSymbolHistory

CONSTANT MAX_MESSAGES

VARIABLE delivered      \* messages since the reset

\* One locate for each symbol: each of the two books has one stock.
OwnBookLocates == 0 .. NSymbols - 1

Delivers == held = {} /\ held' # {}

MCInit == HInit /\ delivered = 0

MCNext ==
  /\ HNext
  /\ delivered' = IF Reset THEN 0
                  ELSE IF Delivers THEN delivered + 1 ELSE delivered
  /\ delivered' <= MAX_MESSAGES

MCSpec == MCInit /\ [][MCNext]_<<hvars, delivered>>
=============================================================================
