-------------------------- MODULE MultiSymbolProofs --------------------------
(* Invariants of MultiSymbolBook for every number of symbols.  The books are  *)
(* those of BookEdgesProofs; what is added is who moves when.                 *)
EXTENDS MultiSymbolHistory, BookEdgesProofs, FiniteSetTheorems, TLAPS

\* At most one message is held, one of the feed.
HeldOne == \/ held = {}
           \/ \E l \in Locates, msg \in Messages :
                held = {[locate |-> l, msg |-> msg]}

(* A book that moves has the message accepted last, or is being offered the   *)
(* one held: with the books and the held message this is inductive.           *)
Attributed == \A s \in Sym : msg_ready(books[s]) \/ active_sym = s \/ Presented(s)

MInv == /\ books \in [Sym -> Book]
        /\ BooksSound
        /\ HeldOne
        /\ active_sym \in Sym
        /\ Attributed

LEMMA SymOfType == ASSUME NEW l \in Nat PROVE SymOf(l) \in Sym
PROOF BY SymbolAssumption DEF SymOf, Sym

LEMMA FeedMessage == \A msg \in Messages : msg \in Message
PROOF BY FeedMessages DEF Messages

LEMMA BlankIsMessage == BlankMessage \in Message
PROOF
<1>1. 0 \in Size
  BY SizeModAssumption DEF Size
<1> QED BY <1>1 DEF BlankMessage, Message, MsgType, Side

\* What the edge of all books does to one of them.
LEMMA BooksEdge ==
  ASSUME MInv, books' = EveryBookEdge
  PROVE  /\ books' \in [Sym -> Book]
         /\ BooksSound'
         /\ \A s \in Sym : msg_ready(books[s]) /\ ~Presented(s)
                             => books'[s] = books[s]
PROOF
<1>1. books \in [Sym -> Book] /\ BooksSound /\ HeldOne
  BY DEF MInv
<1>2. ASSUME NEW s \in Sym, Presented(s)
      PROVE  BookInv(books'[s])
  <2>1. PICK l \in Locates, msg \in Messages : held = {[locate |-> l, msg |-> msg]}
    BY <1>1, <1>2 DEF HeldOne, Presented
  <2>2. Selected(s) = [locate |-> l, msg |-> msg]
    <3>1. \E h \in held : SymOf(h.locate) = s
      BY <1>2 DEF Presented
    <3>2. Selected(s) \in held
      BY <3>1 DEF Selected
    <3> QED BY <2>1, <3>2
  <2>3. Selected(s).msg \in Message
    BY <2>2, FeedMessage
  <2>4. books'[s] = BookEdge(books[s], TRUE, Selected(s).msg)
    BY <1>2 DEF EveryBookEdge
  <2>5. BookInv(books[s])
    BY <1>1 DEF BooksSound
  <2> DEFINE b == books[s]  msg1 == Selected(s).msg
  <2> HIDE DEF b, msg1
  <2>6. BookInv(BookEdge(b, TRUE, msg1))
    <3>1. BookInv(b) /\ msg1 \in Message
      BY <2>3, <2>5 DEF b, msg1
    <3> QED BY <3>1, BookEdgeInv
  <2> QED BY <2>4, <2>6 DEF b, msg1
<1>3. ASSUME NEW s \in Sym, ~Presented(s)
      PROVE  BookInv(books'[s]) /\ (msg_ready(books[s]) => books'[s] = books[s])
  <2>1. books'[s] = BookEdge(books[s], FALSE, BlankMessage)
    BY <1>3 DEF EveryBookEdge
  <2>2. BookInv(books[s]) /\ books[s] \in Book
    BY <1>1 DEF BooksSound
  <2> DEFINE b == books[s]
  <2> HIDE DEF b
  <2>3. BookInv(b) /\ b \in Book
    BY <2>2 DEF b
  <2>4. BookInv(BookEdge(b, FALSE, BlankMessage))
    BY <2>3, BookEdgeInv, BlankIsMessage
  <2>5. b.state = "IDLE" => BookEdge(b, FALSE, BlankMessage) = b
    BY <2>3, BookEdgeIdle
  <2> QED BY <2>1, <2>4, <2>5 DEF b, msg_ready
<1>4. \A s \in Sym : BookInv(books'[s])
  BY <1>2, <1>3
<1>5. BooksSound'
  BY <1>4 DEF BooksSound
<1>6. books' \in [Sym -> Book]
  <2>1. \A s \in Sym : books'[s] \in Book
    BY <1>4 DEF BookInv
  <2>2. books' = [s \in Sym |-> books'[s]]
    BY DEF EveryBookEdge
  <2> QED BY <2>1, <2>2
<1> QED BY <1>3, <1>5, <1>6

LEMMA InitMInv == Init => MInv
PROOF
<1> SUFFICES ASSUME Init PROVE MInv
  OBVIOUS
<1>1. BookInv(InitBook)
  BY InitBookInv
<1> DEFINE B == InitBook
<1>2. BookInv(B) /\ B \in Book /\ B.state = "IDLE"
  BY <1>1 DEF BookInv, InitBook
<1>3. books = [s \in Sym |-> B] /\ held = {} /\ active_sym = 0
  BY DEF Init
<1> HIDE DEF B
<1>4. 0 \in Sym
  BY SymbolAssumption DEF Sym
<1> QED BY <1>2, <1>3, <1>4
        DEF MInv, BooksSound, HeldOne, Attributed, msg_ready

LEMMA NextMInv == MInv /\ [Next]_vars => MInv'
PROOF
<1> SUFFICES ASSUME MInv, [Next]_vars PROVE MInv'
  OBVIOUS
<1>1. /\ books \in [Sym -> Book] /\ BooksSound /\ HeldOne /\ active_sym \in Sym
      /\ Attributed
  BY DEF MInv
<1>2. CASE Idle
  <2>1. /\ books' \in [Sym -> Book] /\ BooksSound'
        /\ \A s \in Sym : msg_ready(books[s]) /\ ~Presented(s)
                            => books'[s] = books[s]
    BY <1>2, BooksEdge DEF Idle
  <2>2. held = {} /\ held' = {} /\ active_sym' = active_sym
    BY <1>2 DEF Idle
  <2>3. Attributed'
    BY <1>1, <2>1, <2>2 DEF Attributed, Presented, msg_ready
  <2> QED BY <1>1, <2>1, <2>2, <2>3 DEF MInv, HeldOne
<1>3. ASSUME NEW l \in Locates, NEW msg \in Messages, Deliver(l, msg)
      PROVE  MInv'
  <2>1. /\ books' \in [Sym -> Book] /\ BooksSound'
        /\ \A s \in Sym : msg_ready(books[s]) /\ ~Presented(s)
                            => books'[s] = books[s]
    BY <1>3, BooksEdge DEF Deliver
  <2>2. /\ held = {} /\ held' = {[locate |-> l, msg |-> msg]}
        /\ active_sym' = active_sym
    BY <1>3 DEF Deliver
  <2>3. \A s \in Sym : ~Presented(s)
    BY <2>2 DEF Presented
  <2>4. Attributed'
    BY <1>1, <2>1, <2>2, <2>3 DEF Attributed, msg_ready
  <2> QED BY <1>1, <2>1, <2>2, <2>4 DEF MInv, HeldOne
<1>4. CASE Wait
  <2>1. /\ books' \in [Sym -> Book] /\ BooksSound'
        /\ \A s \in Sym : msg_ready(books[s]) /\ ~Presented(s)
                            => books'[s] = books[s]
    BY <1>4, BooksEdge DEF Wait
  <2>2. held' = held /\ held # {} /\ active_sym' = active_sym
    BY <1>4 DEF Wait
  <2>3. Attributed'
    BY <1>1, <2>1, <2>2 DEF Attributed, Presented, msg_ready
  <2> QED BY <1>1, <2>1, <2>2, <2>3 DEF MInv, HeldOne
<1>5. CASE Accept
  <2>1. /\ books' \in [Sym -> Book] /\ BooksSound'
        /\ \A s \in Sym : msg_ready(books[s]) /\ ~Presented(s)
                            => books'[s] = books[s]
    BY <1>5, BooksEdge DEF Accept
  <2>2. PICK h \in held : engine_ready /\ active_sym' = SymOf(h.locate) /\ held' = {}
    BY <1>5 DEF Accept
  <2>3. PICK l \in Locates, msg \in Messages : held = {[locate |-> l, msg |-> msg]}
    BY <1>1, <2>2 DEF HeldOne
  <2>4. h.locate = l /\ l \in Nat
    BY <2>2, <2>3, SymbolAssumption
  <2>5. active_sym' = SymOf(l) /\ SymOf(l) \in Sym
    BY <2>2, <2>4, SymOfType
  <2>6. \A s \in Sym : Presented(s) => s = SymOf(l)
    BY <2>3 DEF Presented
  <2>7. Attributed'
    BY <2>1, <2>2, <2>5, <2>6 DEF Attributed, engine_ready, msg_ready
  <2> QED BY <2>1, <2>2, <2>5, <2>7 DEF MInv, HeldOne
<1>6. CASE Reset
  <2>1. \A s \in Sym : BookInv(ResetEdge(books[s]))
    BY <1>1, ResetEdgeInv DEF BooksSound
  <2>2. \A s \in Sym : books'[s] = ResetEdge(books[s])
    BY <1>6 DEF Reset
  <2>3. books' = [s \in Sym |-> books'[s]] /\ held' = {} /\ active_sym' = 0
    BY <1>6 DEF Reset
  <2>4. BooksSound'
    BY <2>1, <2>2 DEF BooksSound
  <2>5. books' \in [Sym -> Book]
    <3>1. \A s \in Sym : books'[s] \in Book
      BY <2>1, <2>2 DEF BookInv
    <3> QED BY <2>3, <3>1
  <2>6. \A s \in Sym : books'[s].state = "IDLE"
    <3>1. ASSUME NEW b \in Book PROVE ResetEdge(b).state = "IDLE"
      BY DEF ResetEdge, Book
    <3> QED BY <1>1, <2>2, <3>1
  <2>7. 0 \in Sym
    BY SymbolAssumption DEF Sym
  <2> QED BY <2>3, <2>4, <2>5, <2>6, <2>7
          DEF MInv, HeldOne, Attributed, msg_ready
<1>7. CASE UNCHANGED vars
  BY <1>1, <1>7 DEF vars, MInv, BooksSound, HeldOne, Attributed, Presented
<1> QED BY <1>2, <1>3, <1>4, <1>5, <1>6, <1>7 DEF Next, Clock

LEMMA SpecMInv == Spec => []MInv
PROOF BY InitMInv, NextMInv, PTL DEF Spec

\* The registers of every book, the message held and the symbol are well-formed.
THEOREM EngineTypeCorrect == Spec => []TypeOK
PROOF
<1>1. MInv => TypeOK
  <2> SUFFICES ASSUME MInv PROVE TypeOK
    OBVIOUS
  <2>1. CASE held = {}
    BY <2>1, FS_EmptySet DEF MInv, TypeOK
  <2>2. CASE held # {}
    <3>1. PICK l \in Locates, msg \in Messages :
            held = {[locate |-> l, msg |-> msg]}
      BY <2>2 DEF MInv, HeldOne
    <3>2. Cardinality(held) = 1
      BY <3>1, FS_Singleton
    <3> QED BY <3>1, <3>2 DEF MInv, TypeOK
  <2> QED BY <2>1, <2>2
<1> QED BY <1>1, SpecMInv, PTL

(* No book of the engine misses an order, shows a price twice or decides on   *)
(* stale data, whatever the others do and however long a message waits.       *)
THEOREM EveryBookSound == Spec => []BooksSound
PROOF
<1>1. MInv => BooksSound
  BY DEF MInv
<1> QED BY <1>1, SpecMInv, PTL

\* The table of a symbol is changed by messages of that symbol only.
THEOREM SymbolsIsolated == Spec => Isolation
PROOF
<1>1. ASSUME MInv, [Next]_vars
      PROVE  [\A s \in Sym : TableOf(s)' # TableOf(s) =>
                Presented(s) \/ active_sym = s \/ Reset]_vars
  <2> SUFFICES ASSUME NEW s \in Sym, TableOf(s)' # TableOf(s),
                      ~Presented(s), active_sym # s, ~Reset, ~(UNCHANGED vars)
               PROVE  FALSE
    OBVIOUS
  <2>1. msg_ready(books[s])
    BY <1>1 DEF MInv, Attributed
  <2>2. books' = EveryBookEdge
    BY <1>1 DEF Next, Clock, Idle, Wait, Accept, Deliver
  <2>3. books'[s] = books[s]
    BY <1>1, <2>1, <2>2, BooksEdge
  <2> QED BY <2>3 DEF TableOf
<1> QED BY <1>1, SpecMInv, PTL DEF Spec, Isolation

-----------------------------------------------------------------------------
(* The outputs, and the depth that every book shows, until a message crosses. *)

\* The message held still fits the table of its book, and no book is looking up
\* while it is held.
HeldFits == \A h \in held : /\ SlotFree(books[SymOf(h.locate)], h.msg)
                            /\ \A s \in Sym : books[s].state # "LOOKUP"

DInv == /\ MInv
        /\ ActiveMoves
        /\ HeldFits
        /\ \A s \in Sym : ScanExact(books[s]) /\ ShownExact(books[s])

\* The edge of all books keeps each of them exact: the message on the input of
\* one of them, if it is taken, fits its table.
LEMMA BooksExact ==
  ASSUME DInv, books' = EveryBookEdge
  PROVE  \A s \in Sym : ScanExact(books'[s]) /\ ShownExact(books'[s])
PROOF
<1>1. books \in [Sym -> Book] /\ BooksSound /\ HeldOne
  BY DEF DInv, MInv
<1> SUFFICES ASSUME NEW s \in Sym
             PROVE  ScanExact(books'[s]) /\ ShownExact(books'[s])
  OBVIOUS
<1>2. BookInv(books[s]) /\ ScanExact(books[s]) /\ ShownExact(books[s])
  BY <1>1 DEF DInv, BooksSound
<1>3. CASE Presented(s)
  <2>1. PICK l \in Locates, msg \in Messages : held = {[locate |-> l, msg |-> msg]}
    BY <1>1, <1>3 DEF HeldOne, Presented
  <2>2. Selected(s) = [locate |-> l, msg |-> msg] /\ SymOf(l) = s
    <3>1. \E h \in held : SymOf(h.locate) = s
      BY <1>3 DEF Presented
    <3>2. Selected(s) \in held /\ SymOf(Selected(s).locate) = s
      BY <3>1 DEF Selected
    <3> QED BY <2>1, <3>2
  <2>3. books'[s] = BookEdge(books[s], TRUE, msg)
    <3>1. Selected(s).msg = msg
      BY <2>2
    <3>2. books'[s] = BookEdge(books[s], TRUE, Selected(s).msg)
      BY <1>3 DEF EveryBookEdge
    <3> QED BY <3>1, <3>2
  <2>4. msg \in Message
    BY FeedMessage
  <2>5. SlotFree(books[s], msg)
    <3>1. [locate |-> l, msg |-> msg] \in held
      BY <2>1
    <3>2. SlotFree(books[SymOf([locate |-> l, msg |-> msg].locate)],
                   [locate |-> l, msg |-> msg].msg)
      BY <3>1 DEF DInv, HeldFits
    <3> QED BY <2>2, <3>2
  <2> DEFINE b == books[s]
  <2>6. BookInv(b) /\ ScanExact(b) /\ ShownExact(b) /\ SlotFree(b, msg)
    BY <1>2, <2>5
  <2> HIDE DEF b
  <2>7. msg.type \in AddTypes => Idx(msg.ref) \notin b.entry_valid
    <3> SUFFICES ASSUME msg.type \in AddTypes PROVE Idx(msg.ref) \notin b.entry_valid
      OBVIOUS
    <3> QED BY <2>6, SMT DEF SlotFree, AddTypes
  <2>8. /\ ScanExact(BookEdge(b, TRUE, msg))
        /\ ShownExact(BookEdge(b, TRUE, msg))
    BY <2>4, <2>6, <2>7, BookEdgeExact
  <2> QED BY <2>3, <2>8 DEF b
<1>4. CASE ~Presented(s)
  <2> DEFINE b == books[s]
  <2>1. books'[s] = BookEdge(b, FALSE, BlankMessage)
    BY <1>4 DEF EveryBookEdge
  <2>2. BookInv(b) /\ ScanExact(b) /\ ShownExact(b)
    BY <1>2
  <2> HIDE DEF b
  <2>3. /\ ScanExact(BookEdge(b, FALSE, BlankMessage))
        /\ ShownExact(BookEdge(b, FALSE, BlankMessage))
    BY <2>2, BlankIsMessage, BookEdgeExact
  <2> QED BY <2>1, <2>3
<1> QED BY <1>3, <1>4

\* What a message needs of a book depends on the bits that are set.
LEMMA SlotFreeBits ==
  ASSUME NEW b, NEW c, c.entry_valid = b.entry_valid, NEW msg, SlotFree(b, msg)
  PROVE  SlotFree(c, msg)
PROOF BY DEF SlotFree

\* No message is taken at this edge by a book that is not scanning, when either
\* none is held or the book it is for is busy.
LEMMA BooksQuiet ==
  ASSUME DInv, books' = EveryBookEdge,
         \A s \in Sym : books[s].state # "LOOKUP",
         \A s \in Sym : msg_ready(books[s]) => ~Presented(s)
  PROVE  \A s \in Sym : /\ books'[s].entry_valid = books[s].entry_valid
                        /\ books'[s].state # "LOOKUP"
PROOF
<1> SUFFICES ASSUME NEW s \in Sym
             PROVE  /\ books'[s].entry_valid = books[s].entry_valid
                    /\ books'[s].state # "LOOKUP"
  OBVIOUS
<1>1. books[s] \in Book
  BY DEF DInv, MInv
<1>2. books[s].state = "IDLE" \/ books[s].state = "RESCAN"
  BY <1>1, BookFields
<1>3. CASE books[s].state = "IDLE"
  <2>1. books'[s] = books[s]
    BY <1>3, BooksEdge DEF DInv, msg_ready
  <2> QED BY <1>3, <2>1
<1>4. CASE books[s].state = "RESCAN"
  <2> DEFINE b == books[s]  v == Presented(s)
             m == IF v THEN Selected(s).msg ELSE BlankMessage
  <2>1. books'[s] = BookEdge(b, v, m)
    <3>1. CASE Presented(s)
      <4>1. books'[s] = BookEdge(b, TRUE, Selected(s).msg) /\ (v <=> TRUE)
        BY <3>1 DEF EveryBookEdge
      <4>2. v = TRUE
        BY <3>1 DEF Presented
      <4> QED BY <4>1, <4>2, <3>1
    <3>2. CASE ~Presented(s)
      <4>1. books'[s] = BookEdge(b, FALSE, BlankMessage)
        BY <3>2 DEF EveryBookEdge
      <4>2. v = FALSE
        BY <3>2 DEF Presented
      <4> QED BY <4>1, <4>2, <3>2
    <3> QED BY <3>1, <3>2
  <2>2. b \in Book /\ b.state = "RESCAN"
    BY <1>1, <1>4
  <2> HIDE DEF b, v, m
  <2>3. /\ BookEdge(b, v, m).entry_valid = b.entry_valid
        /\ BookEdge(b, v, m).state # "LOOKUP"
    BY <2>2, BookEdgeRescan
  <2> QED BY <2>1, <2>3 DEF b
<1> QED BY <1>2, <1>3, <1>4

LEMMA InitDInv == Init => DInv
PROOF
<1> SUFFICES ASSUME Init PROVE DInv
  OBVIOUS
<1> DEFINE B == InitBook
<1>1. books = [s \in Sym |-> B] /\ held = {}
  BY DEF Init
<1>2. ScanExact(B) /\ ShownExact(B)
  BY InitBookExact
<1>3. B.state = "IDLE"
  BY DEF B, InitBook
<1> HIDE DEF B
<1> QED BY <1>1, <1>2, <1>3, InitMInv DEF DInv, HeldFits, ActiveMoves, msg_ready

LEMMA ResetDInv == ASSUME MInv, Reset PROVE DInv'
PROOF
<1>1. MInv'
  BY NextMInv DEF Next
<1>2. held' = {} /\ books' = [s \in Sym |-> ResetEdge(books[s])]
  BY DEF Reset
<1>3. ASSUME NEW s \in Sym
      PROVE  ScanExact(books'[s]) /\ ShownExact(books'[s]) /\ msg_ready(books'[s])
  <2>1. books[s] \in Book
    BY DEF MInv
  <2>2. books'[s] = ResetEdge(books[s])
    BY <1>2
  <2>3. ResetEdge(books[s]).state = "IDLE"
    BY <2>1 DEF ResetEdge, Book
  <2> QED BY <2>1, <2>2, <2>3, ResetEdgeExact DEF msg_ready
<1>4. ActiveMoves'
  BY <1>3 DEF ActiveMoves, msg_ready
<1> QED BY <1>1, <1>2, <1>3, <1>4 DEF DInv, HeldFits

\* A message that waits, and does not cross, waits for its own book: the others
\* are idle, and that book is the one of the outputs.
LEMMA OwnBookWaits ==
  ASSUME DInv, Wait, ~Crosses
  PROVE  \E t \in Sym : /\ ~msg_ready(books[t]) /\ active_sym = t
                        /\ \A s \in Sym : Presented(s) <=> s = t
                        /\ \A s \in Sym : s # t => msg_ready(books[s])
PROOF
<1>1. HeldOne /\ ActiveMoves
  BY DEF DInv, MInv
<1>2. PICK l \in Locates, msg \in Messages : held = {[locate |-> l, msg |-> msg]}
  BY <1>1 DEF HeldOne, Wait
<1> DEFINE h == [locate |-> l, msg |-> msg]
<1>3. h \in held /\ h.locate = l
  BY <1>2
<1>4. SymOf(l) \in Sym
  BY SymOfType, SymbolAssumption
<1>5. ~engine_ready
  BY DEF Wait
<1>6. ~msg_ready(books[SymOf(l)])
  BY <1>3, <1>5 DEF Crosses
<1>7. active_sym = SymOf(l)
  BY <1>1, <1>4, <1>6 DEF ActiveMoves
<1>8. \A s \in Sym : s # SymOf(l) => msg_ready(books[s])
  BY <1>1, <1>7 DEF ActiveMoves
<1>9. \A s \in Sym : Presented(s) <=> s = SymOf(l)
  BY <1>2 DEF Presented
<1> QED BY <1>4, <1>6, <1>7, <1>8, <1>9

LEMMA StepDInv ==
  ASSUME DInv, ~Crosses,
         Clock \/ \E l \in Locates, msg \in Messages : Deliver(l, msg)
  PROVE  DInv'
PROOF
<1>1. MInv' /\ MInv /\ HeldOne /\ ActiveMoves
  BY NextMInv DEF DInv, MInv, Next
<1>2. CASE Idle
  <2>1. held = {} /\ held' = {} /\ books' = EveryBookEdge /\ active_sym' = active_sym
    BY <1>2 DEF Idle
  <2>2. \A s \in Sym : msg_ready(books[s]) => books'[s] = books[s]
    BY <1>1, <2>1, BooksEdge DEF Presented
  <2>3. ActiveMoves'
    BY <1>1, <2>1, <2>2 DEF ActiveMoves, msg_ready
  <2> QED BY <1>1, <2>1, <2>3, BooksExact DEF DInv, HeldFits
<1>3. ASSUME NEW l \in Locates, NEW msg \in Messages, Deliver(l, msg)
      PROVE  DInv'
  <2>1. /\ held = {} /\ held' = {[locate |-> l, msg |-> msg]}
        /\ \A s \in Sym : books[s].state # "LOOKUP"
        /\ SlotFree(books[SymOf(l)], msg) /\ books' = EveryBookEdge
        /\ active_sym' = active_sym
    BY <1>3 DEF Deliver
  <2>2. \A s \in Sym : /\ books'[s].entry_valid = books[s].entry_valid
                       /\ books'[s].state # "LOOKUP"
    BY <2>1, BooksQuiet DEF Presented
  <2>3. SymOf(l) \in Sym
    BY SymOfType, SymbolAssumption
  <2>4. SlotFree(books'[SymOf(l)], msg)
    BY <2>1, <2>2, <2>3, SlotFreeBits
  <2>5. HeldFits'
    <3> SUFFICES ASSUME NEW h \in held'
                 PROVE  /\ SlotFree(books'[SymOf(h.locate)], h.msg)
                        /\ \A s \in Sym : books'[s].state # "LOOKUP"
      BY DEF HeldFits, SlotFree, SymOf, Sym
    <3>1. h.locate = l /\ h.msg = msg
      BY <2>1
    <3> QED BY <2>2, <2>4, <3>1
  <2>6. \A s \in Sym : msg_ready(books[s]) => books'[s] = books[s]
    BY <1>1, <2>1, BooksEdge DEF Presented
  <2>7. ActiveMoves'
    BY <1>1, <2>1, <2>6 DEF ActiveMoves, msg_ready
  <2> QED BY <1>1, <2>1, <2>5, <2>7, BooksExact DEF DInv
<1>4. CASE Wait
  <2>1. books' = EveryBookEdge /\ held' = held /\ held # {} /\ active_sym' = active_sym
    BY <1>4 DEF Wait
  <2>2. \A s \in Sym : books[s].state # "LOOKUP"
    BY <2>1 DEF DInv, HeldFits
  <2>3. PICK t \in Sym : /\ ~msg_ready(books[t]) /\ active_sym = t
                         /\ \A s \in Sym : Presented(s) <=> s = t
                         /\ \A s \in Sym : s # t => msg_ready(books[s])
    BY <1>4, OwnBookWaits
  <2>4. \A s \in Sym : msg_ready(books[s]) => ~Presented(s)
    BY <2>3
  <2>5. \A s \in Sym : /\ books'[s].entry_valid = books[s].entry_valid
                       /\ books'[s].state # "LOOKUP"
    BY <2>1, <2>2, <2>4, BooksQuiet
  <2>6. HeldFits'
    <3> SUFFICES ASSUME NEW h \in held
                 PROVE  /\ SlotFree(books'[SymOf(h.locate)], h.msg)
                        /\ \A s \in Sym : books'[s].state # "LOOKUP"
      BY <2>1 DEF HeldFits
    <3>1. SymOf(h.locate) \in Sym
      BY <1>1, SymOfType, SymbolAssumption DEF HeldOne
    <3>2. SlotFree(books[SymOf(h.locate)], h.msg)
      BY DEF DInv, HeldFits
    <3> QED BY <2>5, <3>1, <3>2, SlotFreeBits
  <2>7. \A s \in Sym : s # t => books'[s] = books[s]
    BY <1>1, <2>1, <2>3, <2>4, BooksEdge
  <2>8. ActiveMoves'
    BY <2>1, <2>3, <2>7 DEF ActiveMoves, msg_ready
  <2> QED BY <1>1, <2>1, <2>6, <2>8, BooksExact DEF DInv
<1>5. CASE Accept
  <2>1. PICK h \in held : /\ engine_ready /\ active_sym' = SymOf(h.locate)
                          /\ books' = EveryBookEdge /\ held' = {}
    BY <1>5 DEF Accept
  <2>2. \A s \in Sym : Presented(s) => s = SymOf(h.locate)
    BY <1>1, <2>1 DEF HeldOne, Presented
  <2>3. \A s \in Sym : msg_ready(books[s]) /\ ~Presented(s) => books'[s] = books[s]
    BY <1>1, <2>1, BooksEdge
  <2>4. ActiveMoves'
    BY <2>1, <2>2, <2>3 DEF ActiveMoves, engine_ready, msg_ready
  <2> QED BY <1>1, <2>1, <2>4, BooksExact DEF DInv, HeldFits
<1> QED BY <1>2, <1>3, <1>4, <1>5 DEF Clock

(* With the history: until a message crosses, the messages held and the books  *)
(* are as DInv says; a reset starts anew.                                      *)
HInv == /\ MInv
        /\ crossed \in BOOLEAN
        /\ ~crossed => DInv

LEMMA SpecHInv == HSpec => []HInv
PROOF
<1>1. HInit => HInv
  BY InitDInv DEF HInit, HInv, DInv
<1>2. ASSUME HInv, [HNext]_hvars PROVE HInv'
  <2>1. CASE Reset /\ crossed' = FALSE
    <3>1. DInv'
      BY <1>2, <2>1, ResetDInv DEF HInv
    <3> QED BY <2>1, <3>1 DEF HInv, DInv
  <2>2. CASE /\ Clock \/ \E l \in Locates, msg \in Messages : Deliver(l, msg)
             /\ crossed' = (crossed \/ Crosses)
    <3>1. MInv'
      BY <1>2, <2>2, NextMInv DEF HInv, Next
    <3>2. ~crossed' => DInv'
      BY <1>2, <2>2, StepDInv DEF HInv
    <3>3. crossed' \in BOOLEAN
      BY <2>2
    <3> QED BY <3>1, <3>2, <3>3 DEF HInv
  <2>3. CASE UNCHANGED hvars
    <3>1. UNCHANGED vars /\ crossed' = crossed
      BY <2>3 DEF hvars
    <3>2. MInv'
      BY <1>2, <3>1, NextMInv DEF HInv
    <3>3. DInv => DInv'
      BY <3>1, <3>2 DEF vars, DInv, HeldFits, ActiveMoves
    <3> QED BY <1>2, <3>1, <3>2, <3>3 DEF HInv
  <2> QED BY <1>2, <2>1, <2>2, <2>3 DEF HNext
<1> QED BY <1>1, <1>2, PTL DEF HSpec

(* Until a message crosses, the outputs are of the book that moves, however   *)
(* fast the messages of different symbols follow each other.                  *)
THEOREM OutputsAttributed == HSpec => []MuxAttributed
PROOF
<1>1. HInv => MuxAttributed
  BY DEF HInv, DInv, MuxAttributed
<1> QED BY <1>1, SpecHInv, PTL

(* With a feed that fills free slots, every book that is idle shows the exact *)
(* depth of its own orders, for every number of symbols: neither the rescans  *)
(* of the others nor a message that waits for its own book disturb it, until  *)
(* one waits for the book of another symbol.                                  *)
THEOREM EveryBookShowsDepth == HSpec => []ShownUntilCrossed
PROOF
<1>1. HInv => ShownUntilCrossed
  <2> SUFFICES ASSUME DInv, NEW s \in Sym, msg_ready(books[s])
               PROVE  books[s].lv = Depth(TableOf(s))
    BY DEF HInv, ShownUntilCrossed, ShownIsDepth
  <2> DEFINE b == books[s]
  <2>1. b \in Book /\ ShownExact(b) /\ b.state # "RESCAN"
    BY DEF DInv, MInv, msg_ready
  <2>2. TableOf(s) = Table(b)
    BY DEF TableOf, Table
  <2> HIDE DEF b
  <2>3. b.lv = Depth(Table(b))
    BY <2>1, ShownExactIsDepth
  <2> QED BY <2>2, <2>3 DEF b
<1> QED BY <1>1, SpecHInv, PTL
=============================================================================
