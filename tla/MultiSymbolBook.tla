--------------------------- MODULE MultiSymbolBook ---------------------------
(* src/rtl/multi_symbol_book.sv: one order_book_m2 per symbol, all on one     *)
(* clock, behind the message that the parser holds until msg_ready.  Each     *)
(* action is one clock edge of the engine, and moves every book.              *)
EXTENDS BookFeed, BookDepth

CONSTANTS NSymbols,   \* NSYMBOLS, a power of two
          Locates     \* stock_locate values of the feed

ASSUME SymbolAssumption ==
  NSymbols \in Nat \ {0} /\ Locates \subseteq Nat

VARIABLES books,       \* the registers of each book
          held,        \* what the parser holds: at most one message, located
          active_sym   \* symbol of the message accepted last

vars == <<books, held, active_sym>>

Sym == 0 .. NSymbols - 1

\* sym_idx: the low bits of stock_locate.
SymOf(locate) == locate % NSymbols

\* A book sees msg_valid whenever the message held is of its symbol.
Presented(s) == \E h \in held : SymOf(h.locate) = s

Selected(s) == CHOOSE h \in held : SymOf(h.locate) = s

\* msg_ready of the engine: every book is idle.
engine_ready == \A s \in Sym : msg_ready(books[s])

\* The message held is withheld for the rescan of another symbol's book, while
\* its own book, which is idle, takes it.
Crosses == /\ ~engine_ready
           /\ \E h \in held : msg_ready(books[SymOf(h.locate)])

\* Mutant: the books of all symbols take the message.
EveryBookEdgeBroadcast ==
  [s \in Sym |->
     IF held # {} THEN BookEdge(books[s], TRUE, (CHOOSE h \in held : TRUE).msg)
                  ELSE BookEdge(books[s], FALSE, BlankMessage)]

\* The edge of all books.
EveryBookEdge ==
  [s \in Sym |-> IF Presented(s) THEN BookEdge(books[s], TRUE, Selected(s).msg)
                                 ELSE BookEdge(books[s], FALSE, BlankMessage)]

Init == /\ books = [s \in Sym |-> InitBook]
        /\ held = {}
        /\ active_sym = 0

(* No message is held at this edge, and none (Idle) or one (Deliver) from the *)
(* next edge on.  A message takes 19 bytes at least, one a cycle, so the      *)
(* lookup that the previous one caused is over; a rescan need not be.         *)
Idle == /\ held = {}
        /\ books' = EveryBookEdge
        /\ UNCHANGED <<held, active_sym>>

Deliver(l, msg) ==
  /\ held = {}
  /\ \A s \in Sym : books[s].state # "LOOKUP"
  /\ SlotFree(books[SymOf(l)], msg)
  /\ held' = {[locate |-> l, msg |-> msg]}
  /\ books' = EveryBookEdge
  /\ UNCHANGED active_sym

\* The message is offered while some book is busy: the parser keeps it.
Wait == /\ held # {} /\ ~engine_ready
        /\ books' = EveryBookEdge
        /\ UNCHANGED <<held, active_sym>>

\* The message is offered and accepted.
Accept == \E h \in held :
            /\ engine_ready
            /\ books' = EveryBookEdge
            /\ active_sym' = SymOf(h.locate)
            /\ held' = {}

\* rst_n clears the parser's m_valid and every book.
Reset == /\ books' = [s \in Sym |-> ResetEdge(books[s])]
         /\ held' = {}
         /\ active_sym' = 0

Clock == Idle \/ Wait \/ Accept
Next  == Clock \/ (\E l \in Locates, msg \in Messages : Deliver(l, msg)) \/ Reset

\* The clock does not stop.
Spec == Init /\ [][Next]_vars /\ WF_vars(Clock)

-----------------------------------------------------------------------------
(* Properties. *)

TypeOK == /\ books \in [Sym -> Book]
          /\ \A h \in held : h.locate \in Locates /\ h.msg \in Messages
          /\ Cardinality(held) <= 1
          /\ active_sym \in Sym

TableOf(s) == [i \in books[s].entry_valid |-> books[s].entries[i]]

(* Every book keeps its invariants while the others move, also when a message *)
(* it waits for is put to it again at each edge.                              *)
BooksSound == \A s \in Sym : BookInv(books[s])

(* A book that is idle shows the exact depth of its orders, whatever the      *)
(* other books do meanwhile: "the engine accepts a new message only when      *)
(* EVERY book is idle" (multi_symbol_book.sv:11).                             *)
ShownIsDepth ==
  \A s \in Sym : msg_ready(books[s]) => books[s].lv = Depth(TableOf(s))

(* The orders of a symbol change only by a message of that symbol: one that   *)
(* is offered at this edge, or the last one accepted.                         *)
Isolation ==
  [][\A s \in Sym : TableOf(s)' # TableOf(s) =>
       Presented(s) \/ active_sym = s \/ Reset]_vars
=============================================================================
