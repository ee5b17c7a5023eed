----------------------------- MODULE OrderBookM2 -----------------------------
(* src/rtl/order_book_m2.sv: the multi-level order book of one symbol.  Each  *)
(* action is one clock edge.  The message on the input is the one the parser  *)
(* holds until msg_ready, so an edge of an idle book takes it at once.        *)
EXTENDS BookFeed

CONSTANT CollisionFree   \* the feed never puts two live orders in one slot

ASSUME CollisionAssumption == CollisionFree \in BOOLEAN

VARIABLE book

Init == book = InitBook

Add(msg) == /\ msg_ready(book)
            /\ CollisionFree => SlotFree(book, msg)
            /\ book' = AddEdge(book, msg)

Read(msg) == /\ msg_ready(book)
             /\ CollisionFree => SlotFree(book, msg)
             /\ book' = ReadEdge(book, msg)

Ignore(msg) == /\ msg_ready(book)
               /\ book' = IgnoreEdge(book, msg)

Miss == /\ book.state = "LOOKUP"
        /\ ~lk_match(book)
        /\ book' = MissEdge(book)

Reduce == /\ book.state = "LOOKUP"
          /\ lk_match(book)
          /\ book.m.type \in ReduceTypes
          /\ book' = ReduceEdge(book)

Delete == /\ book.state = "LOOKUP"
          /\ lk_match(book)
          /\ book.m.type = "D"
          /\ book' = DeleteEdge(book)

Replace == /\ book.state = "LOOKUP"
           /\ lk_match(book)
           /\ book.m.type = "U"
           /\ book' = ReplaceEdge(book)

Scan == /\ book.state = "RESCAN"
        /\ book.scan_addr <= OrderDepth
        /\ book' = ScanEdge(book)

Commit == /\ book.state = "RESCAN"
          /\ book.scan_addr > OrderDepth
          /\ book' = CommitEdge(book)

Reset == book' = ResetEdge(book)

Lookup == Miss \/ Reduce \/ Delete \/ Replace
Rescan == Scan \/ Commit
Accept == \/ \E msg \in AddMessages : Add(msg)
          \/ \E msg \in LookupMessages : Read(msg)
          \/ \E msg \in IgnoredMessages : Ignore(msg)

Next == Accept \/ Lookup \/ Rescan \/ Reset

\* The clock does not stop, so a busy book takes its next edge.
Spec == Init /\ [][Next]_book /\ WF_book(Lookup) /\ WF_book(Rescan)

-----------------------------------------------------------------------------
(* Properties. *)

\* Registers hold values of their width and ladders are no longer than NLEVELS.
TypeOK == book \in Book

(* The ladders shown, and those being rebuilt, are sorted best price first    *)
(* with no price twice: lane 0 is the touch, and aff_displayed may test the   *)
(* last lane only.                                                            *)
LevelsSorted == SortedBook(book)

(* Between rescans, every live order of the table is on a level shown or is   *)
(* worse than all of NLEVELS levels: a scan leaves no slot out, the last one  *)
(* included, and commits no edge early.  That LOOKUP skips only rescans that  *)
(* it may skip is NoPhantomLevel.                                             *)
LiveShown == ShownBook(book)

(* The read data that LOOKUP and RESCAN decide on is that of the slot they    *)
(* take it for, and a scan has put every slot it passed into the ladders.     *)
(* With the above it is inductive.                                            *)
IInv == BookInv(book)

(* Between rescans, every level shown has a live order of its price: no price *)
(* survives the orders that made it.  Needs CollisionFree.                    *)
NoPhantomLevel == book.state # "RESCAN" => Backed(book, book.lv)

\* A book that is looking up or rescanning accepts messages again.
ReadyAgain == book.state # "IDLE" ~> msg_ready(book)
=============================================================================
