-------------------------- MODULE MultiSymbolHistory --------------------------
(* MultiSymbolBook with a history variable: whether, since the reset, an idle  *)
(* book has been put a message that the rescan of another book withheld.  The  *)
(* feed is not held back: any message may follow any other at full rate.       *)
EXTENDS MultiSymbolBook

VARIABLE crossed

hvars == <<vars, crossed>>

HInit == Init /\ crossed = FALSE

HNext ==
  \/ Reset /\ crossed' = FALSE
  \/ /\ \/ Clock
        \/ \E l \in Locates, msg \in Messages : Deliver(l, msg)
     /\ crossed' = (crossed \/ Crosses)

HSpec == HInit /\ [][HNext]_hvars

-----------------------------------------------------------------------------
(* Until then, a book that is idle shows the exact depth of its orders,        *)
(* however messages of all symbols follow each other and the rescans of a      *)
(* symbol hold its own messages back.                                          *)
ShownUntilCrossed == ~crossed => ShownIsDepth

ActiveMoves == \A s \in Sym : ~msg_ready(books[s]) => active_sym = s

(* Until then, only the book of the last accepted message looks up or rescans, *)
(* so that the outputs, which are those of active_sym, are of the book that is *)
(* moving (multi_symbol_book.sv:13-14).                                        *)
MuxAttributed == ~crossed => ActiveMoves
=============================================================================
