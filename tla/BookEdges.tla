------------------------------ MODULE BookEdges ------------------------------
(* One clock edge of order_book_m2.sv as a function of the registers b of one *)
(* book and of the message on its input.  OrderBookM2 runs one book on them,  *)
(* MultiSymbolBook several.  An order lives in the slot that the low bits of  *)
(* its reference select, and nothing resolves two references in one slot.     *)
EXTENDS PriceLevels

CONSTANT OrderDepth     \* ORDER_DEPTH, a power of two

ASSUME OrderDepthAssumption == OrderDepth \in Nat \ {0}

Slot     == 0 .. OrderDepth - 1
Idx(ref) == ref % OrderDepth

\* The entries of the order table (order_entry_t) and the decoded messages.
Entry   == [ref : Nat, side : Side, price : Nat, shares : Size]
MsgType == {"A", "F", "X", "E", "C", "D", "U", "P"}
Message == [type : MsgType, ref : Nat, nref : Nat, side : Side,
            shares : Size, price : Nat]

AddTypes    == {"A", "F"}
ReduceTypes == {"X", "E", "C"}
LookupTypes == ReduceTypes \cup {"D", "U"}

\* The registers of a book.  entry_valid is the set of slots whose bit is set.
Book == [state : {"IDLE", "LOOKUP", "RESCAN"},
         entries : [Slot -> Entry], entry_valid : SUBSET Slot,
         rd_data : Entry, lv : [Side -> Ladder], m : Message,
         scan_addr : 0 .. OrderDepth + 1, proc_idx : Slot,
         proc_en : BOOLEAN, scan_lv : [Side -> Ladder]]

\* Block RAM and unreset registers are zero when the device is configured.
BlankEntry   == [ref |-> 0, side |-> "bid", price |-> 0, shares |-> 0]
BlankMessage == [type |-> "P", ref |-> 0, nref |-> 0, side |-> "bid",
                 shares |-> 0, price |-> 0]

InitBook == [state |-> "IDLE", entries |-> [i \in Slot |-> BlankEntry],
             entry_valid |-> {}, rd_data |-> BlankEntry, lv |-> EmptyLevels,
             m |-> BlankMessage, scan_addr |-> 0, proc_idx |-> 0,
             proc_en |-> FALSE, scan_lv |-> EmptyLevels]

\* rst_n clears the control registers; entries, rd_data and m keep their value.
ResetEdge(b) == [b EXCEPT !.state = "IDLE", !.entry_valid = {},
                          !.lv = EmptyLevels, !.scan_lv = EmptyLevels,
                          !.scan_addr = 0, !.proc_idx = 0, !.proc_en = FALSE]

msg_ready(b) == b.state = "IDLE"

-----------------------------------------------------------------------------
(* IDLE: a message is on the input.  It is latched, and its slot is read. *)

\* Mutant: the slot read is that of the message latched before.
LatchedOldIdx(b, msg) == [b EXCEPT !.m = msg, !.rd_data = b.entries[Idx(b.m.ref)]]

Latched(b, msg) == [b EXCEPT !.m = msg, !.rd_data = b.entries[Idx(msg.ref)]]

EntryOf(msg) == [ref |-> msg.ref, side |-> msg.side, price |-> msg.price,
                 shares |-> msg.shares]

\* Add: the slot is written and the level cache updated in the same cycle.
AddEdge(b, msg) ==
  [Latched(b, msg) EXCEPT
     !.entries[Idx(msg.ref)] = EntryOf(msg),
     !.entry_valid           = @ \cup {Idx(msg.ref)},
     !.lv                    = Inserted(@, msg.side, msg.price, msg.shares)]

\* Cancel, Execute, Delete, Replace: look at the slot next cycle.
ReadEdge(b, msg) == [Latched(b, msg) EXCEPT !.state = "LOOKUP"]

\* Any other type changes nothing of the book.
IgnoreEdge(b, msg) == Latched(b, msg)

-----------------------------------------------------------------------------
(* LOOKUP: rd_data holds the slot of the latched message. *)

lk_match(b) == /\ Idx(b.m.ref) \in b.entry_valid
               /\ b.rd_data.ref = b.m.ref

\* Mutant: the deepest level shown is left out of the test.
aff_displayed_Strict(b) ==
  LET s == b.rd_data.side
  IN  \/ Len(b.lv[s]) # NLevels
      \/ Better(s, b.rd_data.price, b.lv[s][NLevels].price)

\* The price of the order looked up can be among the levels shown.
aff_displayed(b) ==
  LET s == b.rd_data.side
  IN  \/ Len(b.lv[s]) # NLevels
      \/ ~Better(s, b.lv[s][NLevels].price, b.rd_data.price)

\* Mutant: the scan goes on from the ladders of the previous one.
StartRescanDirty(b) == [b EXCEPT !.state = "RESCAN", !.scan_addr = 0,
                                 !.proc_en = FALSE]

\* The cache is rebuilt from the table, shown meanwhile as it was.
StartRescan(b) == [b EXCEPT !.state = "RESCAN", !.scan_addr = 0,
                            !.proc_en = FALSE, !.scan_lv = EmptyLevels]

\* Rescan unless the edit is hidden; dirty is the book with the edited table.
AfterEdit(b, edited) ==
  IF aff_displayed(b) THEN StartRescan(edited) ELSE [edited EXCEPT !.state = "IDLE"]

\* The slot is read again on this edge, and holds what was read before.
Reread(b) == [b EXCEPT !.rd_data = b.entries[Idx(b.m.ref)]]

\* Mutant: a lookup of an order that is not there does not end.
MissEdgeStays(b) == Reread(b)

MissEdge(b) == [Reread(b) EXCEPT !.state = "IDLE"]

\* A reduction by all the shares, or by more, removes the order.
ReduceEdge(b) ==
  LET i == Idx(b.m.ref)
  IN  AfterEdit(b,
        IF b.rd_data.shares > b.m.shares
        THEN [Reread(b) EXCEPT
                !.entries[i] = [b.rd_data EXCEPT !.shares = @ - b.m.shares]]
        ELSE [Reread(b) EXCEPT !.entry_valid = @ \ {i}])

DeleteEdge(b) ==
  AfterEdit(b, [Reread(b) EXCEPT !.entry_valid = @ \ {Idx(b.m.ref)}])

\* Mutant: the two bit assignments the other way round.
ReplaceEdgeSwapped(b) ==
  LET new == [ref |-> b.m.nref, side |-> b.rd_data.side,
              price |-> b.m.price, shares |-> b.m.shares]
  IN  StartRescan([Reread(b) EXCEPT
        !.entries[Idx(b.m.nref)] = new,
        !.entry_valid = (@ \cup {Idx(b.m.nref)}) \ {Idx(b.m.ref)}])

\* The new order takes the side of the old one.  When both have one slot the
\* bit ends up set: it is the later of the two assignments.
ReplaceEdge(b) ==
  LET new == [ref |-> b.m.nref, side |-> b.rd_data.side,
              price |-> b.m.price, shares |-> b.m.shares]
  IN  StartRescan([Reread(b) EXCEPT
        !.entries[Idx(b.m.nref)] = new,
        !.entry_valid = (@ \ {Idx(b.m.ref)}) \cup {Idx(b.m.nref)}])

\* The edge of each kind of message that reaches LOOKUP.
LookupEdge(b) ==
  CASE ~lk_match(b)              -> MissEdge(b)
    [] lk_match(b) /\ b.m.type \in ReduceTypes -> ReduceEdge(b)
    [] lk_match(b) /\ b.m.type = "D" -> DeleteEdge(b)
    [] lk_match(b) /\ b.m.type = "U" -> ReplaceEdge(b)

-----------------------------------------------------------------------------
(* RESCAN: address scan_addr is read while the entry read before, of slot    *)
(* proc_idx, is put into the ladders under construction.                     *)

\* Mutant: a cleared slot is scanned as any other.
ProcessedAlways(b) ==
  IF b.proc_en
  THEN Inserted(b.scan_lv, b.rd_data.side, b.rd_data.price, b.rd_data.shares)
  ELSE b.scan_lv

\* Mutant: the bit tested is that of the slot being read.
ProcessedAhead(b) ==
  IF b.proc_en /\ b.scan_addr % OrderDepth \in b.entry_valid
  THEN Inserted(b.scan_lv, b.rd_data.side, b.rd_data.price, b.rd_data.shares)
  ELSE b.scan_lv

Processed(b) ==
  IF b.proc_en /\ b.proc_idx \in b.entry_valid
  THEN Inserted(b.scan_lv, b.rd_data.side, b.rd_data.price, b.rd_data.shares)
  ELSE b.scan_lv

\* Mutant: the read of the last address is dropped.
ScanEdgeDropsLast(b) == [b EXCEPT !.scan_lv   = Processed(b),
                         !.rd_data   = b.entries[b.scan_addr % OrderDepth],
                         !.proc_idx  = b.scan_addr % OrderDepth,
                         !.proc_en   = b.scan_addr < OrderDepth - 1,
                         !.scan_addr = @ + 1]

\* Mutant: the address counter is as wide as a slot number, and wraps.
ScanEdgeWraps(b) == [b EXCEPT !.scan_lv   = Processed(b),
                              !.rd_data   = b.entries[b.scan_addr % OrderDepth],
                              !.proc_idx  = b.scan_addr % OrderDepth,
                              !.proc_en   = b.scan_addr < OrderDepth,
                              !.scan_addr = (@ + 1) % OrderDepth]

ScanEdge(b) == [b EXCEPT !.scan_lv   = Processed(b),
                         !.rd_data   = b.entries[b.scan_addr % OrderDepth],
                         !.proc_idx  = b.scan_addr % OrderDepth,
                         !.proc_en   = b.scan_addr < OrderDepth,
                         !.scan_addr = @ + 1]

\* The last edge: the ladders that were built are the ones shown from now on.
CommitEdge(b) == [b EXCEPT !.state = "IDLE", !.lv = b.scan_lv,
                           !.scan_lv = Processed(b), !.proc_en = FALSE,
                           !.rd_data = b.entries[b.scan_addr % OrderDepth]]

RescanEdge(b) == IF b.scan_addr <= OrderDepth THEN ScanEdge(b) ELSE CommitEdge(b)

-----------------------------------------------------------------------------
(* A clock edge of a book with message msg on its input if valid.  An idle   *)
(* book also reads the slot the input names, which no later edge looks at.   *)
IdleEdge(b, msg) == CASE msg.type \in AddTypes    -> AddEdge(b, msg)
                      [] msg.type \in LookupTypes -> ReadEdge(b, msg)
                      [] OTHER                    -> IgnoreEdge(b, msg)

BookEdge(b, valid, msg) ==
  CASE b.state = "IDLE"   -> IF valid THEN IdleEdge(b, msg) ELSE b
    [] b.state = "LOOKUP" -> LookupEdge(b)
    [] b.state = "RESCAN" -> RescanEdge(b)

-----------------------------------------------------------------------------
(* What holds of a book between edges.  OrderBookM2 says what each is for. *)

SortedBook(b) == \A s \in Side : Sorted(b.lv[s], s) /\ Sorted(b.scan_lv[s], s)

\* The order in slot i is covered by the ladders L.
CoveredBy(b, L, i) ==
  Covered(L[b.entries[i].side], b.entries[i].side, b.entries[i].price)

ShownBook(b) ==
  b.state # "RESCAN" => \A i \in b.entry_valid : CoveredBy(b, b.lv, i)

\* Each level of the ladders L has a live order of its price.
Backed(b, L) ==
  \A s \in Side : \A k \in 1 .. Len(L[s]) : \E i \in b.entry_valid :
    b.entries[i].side = s /\ b.entries[i].price = L[s][k].price

\* LOOKUP decides on the current content of the slot, for a type that edits.
LookupFresh(b) == b.state = "LOOKUP" => /\ b.m.type \in LookupTypes
                                        /\ b.rd_data = b.entries[Idx(b.m.ref)]

\* The address is one ahead of the slot being processed, whose data has arrived.
ScanAligned(b) ==
  b.state = "RESCAN" =>
    /\ b.proc_en <=> b.scan_addr \in 1 .. OrderDepth
    /\ b.proc_en => /\ b.proc_idx = b.scan_addr - 1
                    /\ b.rd_data = b.entries[b.proc_idx]

\* The slots already processed are in the ladders under construction.
ScanCovers(b) ==
  b.state = "RESCAN" =>
    \A i \in b.entry_valid : i < b.scan_addr - 1 => CoveredBy(b, b.scan_lv, i)

BookInv(b) == /\ b \in Book
              /\ SortedBook(b)
              /\ ShownBook(b)
              /\ LookupFresh(b)
              /\ ScanAligned(b)
              /\ ScanCovers(b)

\* No level without an order, in the ladders shown or under construction.
PhantomFree(b) == IF b.state = "RESCAN" THEN Backed(b, b.scan_lv) ELSE Backed(b, b.lv)
=============================================================================
