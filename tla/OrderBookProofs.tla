--------------------------- MODULE OrderBookProofs ---------------------------
(* The invariants of OrderBookM2, the depth that it shows and its refinement  *)
(* of DepthBook, for every size of the table, number of levels and feed.      *)
(* The step proofs are those of the edges in BookEdgesProofs; here they are   *)
(* put together along Next.                                                   *)
EXTENDS OrderBookDepth, BookEdgesProofs, TLAPS

\* The sharper invariant, with the phantoms that collisions alone can make.
PInv == IInv /\ (CollisionFree => PhantomFree(book))

LEMMA InitPInv == Init => PInv
PROOF BY InitBookInv DEF Init, PInv, IInv

LEMMA NextPInv == PInv /\ [Next]_book => PInv'
PROOF
<1> SUFFICES ASSUME PInv, [Next]_book PROVE PInv'
  OBVIOUS
<1> USE DEF PInv, IInv, msg_ready
<1>1. ASSUME NEW msg \in AddMessages, Add(msg) PROVE PInv'
  <2>1. /\ msg \in Message /\ msg.type \in AddTypes
        /\ book.state = "IDLE" /\ book' = AddEdge(book, msg)
    BY <1>1, FeedMessages DEF Add
  <2>2. BookInv(book')
    BY <2>1, AddEdgeInv
  <2>3. ASSUME CollisionFree PROVE PhantomFree(book')
    <3>1. Idx(msg.ref) \notin book.entry_valid
      <4>1. SlotFree(book, msg) /\ msg.type \in {"A", "F"}
        BY <1>1, <2>1, <2>3 DEF Add, AddTypes
      <4> QED BY <4>1, SMT DEF SlotFree, AddTypes
    <3> QED BY <2>1, <2>3, <3>1, AddEdgePhantomFree
  <2> QED BY <2>2, <2>3
<1>2. ASSUME NEW msg \in LookupMessages, Read(msg) PROVE PInv'
  BY <1>2, FeedMessages, ReadEdgeInv DEF Read
<1>3. ASSUME NEW msg \in IgnoredMessages, Ignore(msg) PROVE PInv'
  BY <1>3, FeedMessages, IgnoreEdgeInv DEF Ignore
<1>4. CASE Miss
  BY <1>4, MissEdgeInv DEF Miss
<1>5. CASE Reduce
  BY <1>5, ReduceEdgeInv DEF Reduce
<1>6. CASE Delete
  BY <1>6, DeleteEdgeInv DEF Delete
<1>7. CASE Replace
  BY <1>7, ReplaceEdgeInv DEF Replace
<1>8. CASE Scan
  BY <1>8, ScanEdgeInv DEF Scan
<1>9. CASE Commit
  BY <1>9, CommitEdgeInv DEF Commit
<1>10. CASE Reset
  BY <1>10, ResetEdgeInv DEF Reset
<1>11. CASE UNCHANGED book
  BY <1>11
<1> QED
  BY <1>1, <1>2, <1>3, <1>4, <1>5, <1>6, <1>7, <1>8, <1>9, <1>10, <1>11
  DEF Next, Accept, Lookup, Rescan

LEMMA SpecPInv == Spec => []PInv
PROOF BY InitPInv, NextPInv, PTL DEF Spec

(* Whatever the feed, the registers, the order of the ladders, what a scan    *)
(* has covered and what LOOKUP decides on are as IInv says.                   *)
THEOREM BookInvariant == Spec => []IInv
PROOF
<1>1. PInv => IInv
  BY DEF PInv
<1> QED BY <1>1, SpecPInv, PTL

\* Every register of the book holds a value of its width.
THEOREM TypeCorrect == Spec => []TypeOK
PROOF
<1>1. PInv => TypeOK
  BY DEF PInv, IInv, BookInv, TypeOK
<1> QED BY <1>1, SpecPInv, PTL

\* Lane 0 of each side is the touch, and no price has two lanes.
THEOREM SortedLadders == Spec => []LevelsSorted
PROOF
<1>1. PInv => LevelsSorted
  BY DEF PInv, IInv, BookInv, LevelsSorted
<1> QED BY <1>1, SpecPInv, PTL

(* No order is missing from the ladders shown by an idle book, collisions or  *)
(* not: the rescan that LOOKUP skips was not needed.                          *)
THEOREM NoOrderMissing == Spec => []LiveShown
PROOF
<1>1. PInv => LiveShown
  BY DEF PInv, IInv, BookInv, LiveShown
<1> QED BY <1>1, SpecPInv, PTL

\* With one live order in a slot at most, every level shown has an order.
THEOREM NoPhantom == CollisionFree => (Spec => []NoPhantomLevel)
PROOF
<1>1. SUFFICES ASSUME CollisionFree PROVE Spec => []NoPhantomLevel
  OBVIOUS
<1>2. PInv => NoPhantomLevel
  BY <1>1 DEF PInv, PhantomFree, NoPhantomLevel
<1> QED BY <1>2, SpecPInv, PTL

-----------------------------------------------------------------------------
(* The depth. *)

(* What a scan has built is the depth of the slots it has passed, collisions  *)
(* or not; without them what is shown between rescans is that of the table.   *)
DInv == PInv /\ ScanExact(book) /\ (CollisionFree => ShownExact(book))

LEMMA InitDInv == Init => DInv
PROOF BY InitPInv, InitBookExact DEF Init, DInv

LEMMA NextDInv == DInv /\ [Next]_book => DInv'
PROOF
<1> SUFFICES ASSUME DInv, [Next]_book PROVE DInv'
  OBVIOUS
<1>1. /\ BookInv(book) /\ book \in Book /\ ScanExact(book)
      /\ (CollisionFree => ShownExact(book))
  BY DEF DInv, PInv, IInv, BookInv
<1>2. SUFFICES ScanExact(book') /\ (CollisionFree => ShownExact(book'))
  BY NextPInv DEF DInv
<1>3. ASSUME NEW msg \in AddMessages, Add(msg)
      PROVE  ScanExact(book') /\ (CollisionFree => ShownExact(book'))
  <2>1. /\ msg \in Message /\ msg.type \in AddTypes
        /\ book.state = "IDLE" /\ book' = AddEdge(book, msg)
    BY <1>3, FeedMessages DEF Add, msg_ready
  <2>2. ASSUME CollisionFree PROVE Idx(msg.ref) \notin book.entry_valid
    <3>1. SlotFree(book, msg) /\ msg.type \in {"A", "F"}
      BY <1>3, <2>1, <2>2 DEF Add, AddTypes
    <3> QED BY <3>1, SMT DEF SlotFree, AddTypes
  <2> QED BY <1>1, <2>1, <2>2, EdgesScan, AddEdgeExact
<1>4. ASSUME NEW msg \in LookupMessages, Read(msg)
      PROVE  ScanExact(book') /\ (CollisionFree => ShownExact(book'))
  <2>1. msg \in Message /\ book.state = "IDLE" /\ book' = ReadEdge(book, msg)
    BY <1>4, FeedMessages DEF Read, msg_ready
  <2> QED BY <1>1, <2>1, EdgesScan, LatchedExact
<1>5. ASSUME NEW msg \in IgnoredMessages, Ignore(msg)
      PROVE  ScanExact(book') /\ (CollisionFree => ShownExact(book'))
  <2>1. msg \in Message /\ book.state = "IDLE" /\ book' = IgnoreEdge(book, msg)
    BY <1>5, FeedMessages DEF Ignore, msg_ready
  <2> QED BY <1>1, <2>1, EdgesScan, LatchedExact
<1>6. CASE Miss
  BY <1>1, <1>6, EdgesScan, MissEdgeExact DEF Miss
<1>7. CASE Reduce
  BY <1>1, <1>7, EdgesScan, ReduceEdgeExact DEF Reduce
<1>8. CASE Delete
  BY <1>1, <1>8, EdgesScan, DeleteEdgeExact DEF Delete
<1>9. CASE Replace
  BY <1>1, <1>9, ReplaceEdgeExact DEF Replace
<1>10. CASE Scan
  BY <1>1, <1>10, ScanEdgeExact DEF Scan
<1>11. CASE Commit
  BY <1>1, <1>11, CommitEdgeExact DEF Commit
<1>12. CASE Reset
  BY <1>1, <1>12, ResetEdgeExact DEF Reset
<1>13. CASE UNCHANGED book
  BY <1>1, <1>13
<1> QED
  BY <1>3, <1>4, <1>5, <1>6, <1>7, <1>8, <1>9, <1>10, <1>11, <1>12, <1>13
  DEF Next, Accept, Lookup, Rescan

LEMMA SpecDInv == Spec => []DInv
PROOF BY InitDInv, NextDInv, PTL DEF Spec

(* A rescan ends with the exact depth of the table, whatever the feed has     *)
(* done to the table and whatever was shown before: the NLEVELS best prices   *)
(* of each side, with the shares resting at each.                             *)
THEOREM RescanRepairs == Spec => RescanRebuilds
PROOF
<1>1. ASSUME DInv, Commit
      PROVE  \A s \in Side : book'.lv[s] = DepthOf(TableOrders, s)
  <2>1. BookInv(book) /\ ScanExact(book) /\ book.state = "RESCAN"
        /\ book.scan_addr > OrderDepth /\ book' = CommitEdge(book)
    BY <1>1 DEF DInv, PInv, IInv, Commit
  <2>2. /\ BookInv(book') /\ ShownExact(book') /\ book'.state = "IDLE"
        /\ Table(book') = Table(book)
    BY <2>1, CommitEdgeInv, CommitEdgeExact
  <2> DEFINE c == book'
  <2> HIDE DEF c
  <2>3. c \in Book /\ ShownExact(c) /\ c.state # "RESCAN"
    BY <2>2 DEF c, BookInv
  <2>4. c.lv = Depth(Table(c))
    BY <2>3, ShownExactIsDepth
  <2>5. Table(c) = TableOrders
    BY <2>2 DEF c, TableOrders, Table
  <2> QED BY <2>4, <2>5 DEF c, Depth
<1>2. DInv => [Commit => \A s \in Side : book'.lv[s] = DepthOf(TableOrders, s)]_book
  BY <1>1
<1> QED BY <1>2, SpecDInv, PTL DEF RescanRebuilds

-----------------------------------------------------------------------------
(* DepthBook, instantiated, has its own copy of what a depth is. *)

LEMMA PromisedDepth == \A O : Promise!Depth(O) = Depth(O)
PROOF
<1>1. \A s, x, y : Promise!Better(s, x, y) = Better(s, x, y)
  BY DEF Promise!Better, Better
<1>2. \A f, S : Promise!SumFunctionOnSet(f, S) = SumFunctionOnSet(f, S)
  BY Zenon DEF Promise!SumFunctionOnSet, SumFunctionOnSet, Promise!FoldFunctionOnSet,
               FoldFunctionOnSet, Promise!MapThenFoldSet, MapThenFoldSet
<1>3. \A O, s : Promise!Quoted(O, s) = Quoted(O, s)
  BY DEF Promise!Quoted, Quoted
<1>4. \A O, s, p : Promise!RestingAt(O, s, p) = RestingAt(O, s, p)
  BY DEF Promise!RestingAt, RestingAt
<1>5. \A O, s, p : Promise!Resting(O, s, p) = Resting(O, s, p)
  BY <1>2, <1>4 DEF Promise!Resting, Resting
<1>6. \A S : Promise!Cardinality(S) = Cardinality(S)
  BY Zenon DEF Promise!Cardinality, Cardinality
<1>7. \A O, s, p : Promise!Rank(O, s, p) = Rank(O, s, p)
  BY <1>1, <1>3, <1>6 DEF Promise!Rank, Rank
<1>8. \A O, s : Promise!DepthOf(O, s) = DepthOf(O, s)
  <2> SUFFICES ASSUME NEW O, NEW s PROVE Promise!DepthOf(O, s) = DepthOf(O, s)
    OBVIOUS
  <2> DEFINE best   == {p \in Quoted(O, s) : Rank(O, s, p) <= NLevels}
             at(i)  == CHOOSE p \in best : Rank(O, s, p) = i
             best2  == {p \in Promise!Quoted(O, s) : Promise!Rank(O, s, p) <= NLevels}
             at2(i) == CHOOSE p \in best2 : Promise!Rank(O, s, p) = i
  <2>1. best2 = best
    BY <1>3, <1>7
  <2>2. \A i : at2(i) = at(i)
    <3> HIDE DEF best, best2
    <3> QED BY <1>7, <2>1
  <2>3. \A i : Promise!Resting(O, s, at2(i)) = Resting(O, s, at(i))
    <3> HIDE DEF at, at2
    <3> QED BY <1>5, <2>2
  <2>4. Promise!Cardinality(best2) = Cardinality(best)
    <3> HIDE DEF best, best2
    <3> QED BY <1>6, <2>1
  <2>5. DepthOf(O, s) = [i \in 1 .. Cardinality(best) |->
                           [price |-> at(i), size |-> Resting(O, s, at(i))]]
    BY DEF DepthOf
  <2>6. Promise!DepthOf(O, s) = [i \in 1 .. Promise!Cardinality(best2) |->
                           [price |-> at2(i), size |-> Promise!Resting(O, s, at2(i))]]
    BY DEF Promise!DepthOf
  <2> HIDE DEF best, best2, at, at2
  <2> QED BY <2>2, <2>3, <2>4, <2>5, <2>6
<1>9. Promise!Side = Side
  BY DEF Promise!Side, Side
<1> QED BY <1>8, <1>9 DEF Promise!Depth, Depth

LEMMA PromisedTypes ==
  Promise!Side = Side /\ Promise!Size = Size /\ Promise!EmptyLevels = EmptyLevels
PROOF BY DEF Promise!Side, Side, Promise!Size, Size, Promise!EmptyLevels, EmptyLevels

\* Its edits are those of the orders.
LEMMA PromisedEdits ==
  /\ Promise!NoOrders = NoOrders
  /\ \A O, q : Promise!ServedBy(O, q) = ServedBy(O, q)
PROOF
<1>1. \A O, r, o : Promise!With(O, r, o) = With(O, r, o)
  BY DEF Promise!With, With
<1>2. \A O, r : Promise!Without(O, r) = Without(O, r)
  BY DEF Promise!Without, Without
<1>3. \A O, q : Promise!ServedBy(O, q) = ServedBy(O, q)
  BY <1>1, <1>2 DEF Promise!ServedBy, ServedBy
<1> QED BY <1>3 DEF Promise!NoOrders, NoOrders

-----------------------------------------------------------------------------
RInv == DInv /\ Kept(book)

-----------------------------------------------------------------------------
LEMMA InitRInv == Init => RInv
PROOF
<1> SUFFICES ASSUME Init PROVE RInv
  OBVIOUS
<1>1. DInv
  BY InitDInv
<1>2. book.entry_valid = {} /\ book.state = "IDLE"
  BY DEF Init, InitBook
<1> QED BY <1>1, <1>2 DEF RInv, Kept, InSlots, InPlace

\* An accepted message is free to fill its slot.
LEMMA NextRInv == CollisionFree /\ RInv /\ [Next]_book => RInv'
PROOF
<1> SUFFICES ASSUME CollisionFree, RInv, [Next]_book PROVE RInv'
  OBVIOUS
<1>1. BookInv(book) /\ Kept(book)
  BY DEF RInv, DInv, PInv, IInv
<1>2. SUFFICES Kept(book')
  BY NextDInv DEF RInv
<1>3. ASSUME NEW msg \in AddMessages, Add(msg) PROVE Kept(book')
  <2>1. Idx(msg.ref) \notin book.entry_valid
    BY <1>3, AddMessage, SMT DEF Add, SlotFree, AddTypes
  <2> QED BY <1>1, <1>3, <2>1, AddLive DEF Add, msg_ready
<1>4. ASSUME NEW msg \in LookupMessages, Read(msg) PROVE Kept(book')
  BY <1>1, <1>4, SameLive, FeedMessages DEF Read
<1>5. ASSUME NEW msg \in IgnoredMessages, Ignore(msg) PROVE Kept(book')
  BY <1>1, <1>5, SameLive, FeedMessages DEF Ignore, msg_ready
<1>6. CASE Lookup
  BY <1>1, <1>6, EditLive DEF Lookup, Miss, Reduce, Delete, Replace
<1>7. CASE Rescan
  BY <1>1, <1>7, SameLive DEF Rescan, Scan, Commit
<1>8. CASE Reset
  BY <1>1, <1>8, SameLive DEF Reset
<1>9. CASE UNCHANGED book
  BY <1>1, <1>9
<1> QED BY <1>3, <1>4, <1>5, <1>6, <1>7, <1>8, <1>9 DEF Next, Accept

-----------------------------------------------------------------------------
(* The steps. *)

AskedOf(b) == IF b.state = "LOOKUP"
              THEN [kind   |-> CASE b.m.type \in ReduceTypes -> "reduce"
                                 [] b.m.type = "D"           -> "remove"
                                 [] b.m.type = "U"           -> "replace",
                    ref    |-> b.m.ref,    nref  |-> b.m.nref,
                    shares |-> b.m.shares, price |-> b.m.price]
              ELSE [kind |-> "none"]

\* The state of the promise, of the book as it is and as it will be.
LEMMA PromiseState ==
  /\ Live(book) = LiveOrders /\ Live(book') = LiveOrders'
  /\ Promise!vars = <<Live(book), book.lv, AskedOf(book), book.state = "RESCAN">>
  /\ Promise!vars' = <<Live(book'), book'.lv, AskedOf(book'), book'.state = "RESCAN">>
PROOF
<1>1. Live(book) = LiveOrders /\ Live(book') = LiveOrders'
  BY DEF Live, LiveOf, OrderOf, LiveOrders
<1>2. /\ AskedOf(book) = (IF book.state = "LOOKUP" THEN AskedFor ELSE [kind |-> "none"])
      /\ AskedOf(book') = (IF book.state = "LOOKUP" THEN AskedFor ELSE [kind |-> "none"])'
  BY DEF AskedOf, AskedFor
<1> QED BY <1>1, <1>2 DEF Promise!vars

LEMMA AskedFields ==
  /\ AskedOf(book) = (IF book.state = "LOOKUP" THEN AskedFor ELSE [kind |-> "none"])
  /\ AskedOf(book') = (IF book.state = "LOOKUP" THEN AskedFor ELSE [kind |-> "none"])'
  /\ \A b : b.state # "LOOKUP" => AskedOf(b) = Promise!NoRequest
  /\ \A b : b.state = "LOOKUP" => AskedOf(b) # Promise!NoRequest
PROOF
<1>1. \A b : b.state # "LOOKUP" => AskedOf(b) = Promise!NoRequest
  BY DEF AskedOf, Promise!NoRequest
<1>2. ASSUME NEW b, b.state = "LOOKUP" PROVE AskedOf(b) # Promise!NoRequest
  <2>1. "ref" \in DOMAIN AskedOf(b) /\ "ref" \notin DOMAIN Promise!NoRequest
    BY <1>2 DEF AskedOf, Promise!NoRequest
  <2> QED BY <2>1
<1> QED BY <1>1, <1>2 DEF AskedOf, AskedFor

\* The lookup serves what was asked for.
LEMMA ServeStep ==
  ASSUME CollisionFree, RInv, RInv', Lookup
  PROVE  Promise!Serve
PROOF
<1> DEFINE O == Live(book)  o == O[book.m.ref]  q == AskedOf(book)
<1>1. /\ BookInv(book) /\ Kept(book) /\ book.state = "LOOKUP" /\ book' \in Book
      /\ InSlots(book') /\ ShownExact(book')
  BY DEF RInv, DInv, PInv, IInv, BookInv, Kept, Lookup, Miss, Reduce, Delete, Replace
<1>2. book'.lv = book.lv /\ book'.state \in {"IDLE", "RESCAN"}
  <2>1. book' \in {MissEdge(book), ReduceEdge(book), DeleteEdge(book), ReplaceEdge(book)}
    BY DEF Lookup, Miss, Reduce, Delete, Replace
  <2>2. \A c \in {MissEdge(book), ReduceEdge(book), DeleteEdge(book), ReplaceEdge(book)} :
          c.lv = book.lv /\ c.state \in {"IDLE", "RESCAN"}
    BY <1>1, EditFields
  <2> QED BY <2>1, <2>2
<1>3. /\ book.m.ref \in DOMAIN O <=> lk_match(book)
      /\ Live(MissEdge(book)) = O
      /\ lk_match(book) =>
           /\ Live(DeleteEdge(book)) = Without(O, book.m.ref)
           /\ Live(ReduceEdge(book)) =
                IF o.shares > book.m.shares
                THEN With(O, book.m.ref, [o EXCEPT !.shares = @ - book.m.shares])
                ELSE Without(O, book.m.ref)
      /\ lk_match(book) /\ book.m.type = "U" =>
           Live(ReplaceEdge(book)) =
             With(Without(O, book.m.ref), book.m.nref,
               [side |-> o.side, price |-> book.m.price, shares |-> book.m.shares])
  BY <1>1, EditLive
<1>4. /\ q.ref = book.m.ref /\ q.nref = book.m.nref
      /\ q.shares = book.m.shares /\ q.price = book.m.price
      /\ book.m.type \in ReduceTypes => q.kind = "reduce"
      /\ book.m.type = "D" => q.kind = "remove"
      /\ book.m.type = "U" => q.kind = "replace"
  BY <1>1 DEF AskedOf, ReduceTypes
<1>5. O = LiveOrders /\ Live(book') = LiveOrders'
  BY PromiseState
<1> HIDE DEF O, q
<1>6. Live(book') = ServedBy(O, q)
  <2>1. CASE Miss
    BY <1>3, <1>4, <1>5, <2>1 DEF Miss, ServedBy
  <2>2. CASE Reduce
    BY <1>3, <1>4, <1>5, <2>2 DEF Reduce, ServedBy
  <2>3. CASE Delete
    BY <1>3, <1>4, <1>5, <2>3 DEF Delete, ServedBy
  <2>4. CASE Replace
    BY <1>3, <1>4, <1>5, <2>4 DEF Replace, ServedBy
  <2> QED BY <2>1, <2>2, <2>3, <2>4 DEF Lookup
<1>7. book'.state # "RESCAN" => book'.lv = Promise!Depth(Live(book'))
  BY <1>1, LiveShownDepth, PromisedDepth
<1>8. q # Promise!NoRequest /\ AskedOf(book') = Promise!NoRequest
  BY <1>1, <1>2, AskedFields DEF q
<1>9. q = (IF book.state = "LOOKUP" THEN AskedFor ELSE [kind |-> "none"])
  BY AskedFields DEF q
<1>10. AskedOf(book') = (IF book.state = "LOOKUP" THEN AskedFor ELSE [kind |-> "none"])'
  BY AskedFields
<1>11. Live(book') = Promise!ServedBy(O, q)
  BY <1>6, PromisedEdits
<1> QED BY <1>2, <1>5, <1>7, <1>8, <1>9, <1>10, <1>11 DEF Promise!Serve

\* An add of the book is an add of the promise.
LEMMA AddStep ==
  ASSUME CollisionFree, RInv, RInv', NEW msg \in AddMessages, Add(msg)
  PROVE  Promise!Add(msg.ref) /\ msg.ref \in Refs
PROOF
<1> DEFINE O == Live(book)
           o == [side |-> msg.side, price |-> msg.price, shares |-> msg.shares]
<1>1. /\ BookInv(book) /\ Kept(book) /\ book.state = "IDLE" /\ book' = AddEdge(book, msg)
      /\ book' \in Book /\ InSlots(book') /\ ShownExact(book')
  BY DEF RInv, DInv, PInv, IInv, BookInv, Kept, Add, msg_ready
<1>2. Idx(msg.ref) \notin book.entry_valid
  BY AddMessage, SMT DEF Add, SlotFree, AddTypes
<1>3. /\ book'.state = "IDLE" /\ msg.ref \notin DOMAIN O
      /\ Live(book') = With(O, msg.ref, o)
  BY <1>1, <1>2, AddLive
<1>4. msg.ref \in Refs /\ o \in Promise!Order
  BY AddMessage, PromisedTypes DEF Promise!Order
<1>5. O \in [DOMAIN O -> Promise!Order]
  <2>1. O = LiveOf(book.entries, book.entry_valid)
    BY DEF Live
  <2>2. \A r \in DOMAIN O : /\ Idx(r) \in book.entry_valid
                            /\ O[r] = OrderOf(book.entries[Idx(r)])
    BY <1>1, <2>1, LiveAt DEF Kept, InSlots
  <2>3. \A i \in book.entry_valid : OrderOf(book.entries[i]) \in Promise!Order
    <3>1. \A i \in book.entry_valid : book.entries[i] \in Entry /\ book.entries[i].price \in Prices
      BY <1>1, BookFields DEF BookInv, Kept
    <3> QED BY <3>1, PromisedTypes DEF Promise!Order, OrderOf, Entry
  <2>4. O = [r \in DOMAIN O |-> O[r]]
    BY <2>1 DEF LiveOf
  <2> HIDE DEF O
  <2> QED BY <2>2, <2>3, <2>4
<1>6. book'.lv = Promise!Depth(Live(book'))
  BY <1>1, <1>3, LiveShownDepth, PromisedDepth
<1>7. AskedOf(book) = Promise!NoRequest /\ AskedOf(book') = Promise!NoRequest
  BY <1>1, <1>3, AskedFields
<1> HIDE DEF O, o
<1>8. Live(book') \in [DOMAIN O \cup {msg.ref} -> Promise!Order]
  BY <1>3, <1>4, <1>5 DEF With
<1>9. \A x \in DOMAIN O : Live(book')[x] = O[x]
  BY <1>3 DEF With
<1>10. O = LiveOrders /\ Live(book') = LiveOrders'
  BY PromiseState DEF O
<1>11. /\ AskedOf(book) = (IF book.state = "LOOKUP" THEN AskedFor ELSE [kind |-> "none"])
       /\ AskedOf(book') = (IF book.state = "LOOKUP" THEN AskedFor ELSE [kind |-> "none"])'
  BY AskedFields
<1> QED BY <1>1, <1>3, <1>4, <1>6, <1>7, <1>8, <1>9, <1>10, <1>11 DEF Promise!Add

\* A message that is read asks for its edit.
LEMMA AskStep ==
  ASSUME RInv, NEW msg \in LookupMessages, Read(msg)
  PROVE  Promise!Ask
PROOF
<1>1. /\ BookInv(book) /\ Kept(book) /\ book.state = "IDLE" /\ book' = ReadEdge(book, msg)
      /\ msg \in Message
  BY FeedMessages DEF RInv, DInv, PInv, IInv, Read, msg_ready
<1>2. /\ book'.lv = book.lv /\ book'.state = "LOOKUP" /\ book'.m = msg
      /\ Live(book') = Live(book)
  BY <1>1, SameLive
<1>3. AskedOf(book) = Promise!NoRequest
  BY <1>1, AskedFields
<1>4. AskedOf(book') \in Promise!Request
  <2>1. /\ msg.type \in LookupTypes /\ msg.ref \in Refs /\ msg.nref \in Refs
        /\ msg.shares \in Size /\ msg.price \in Prices \cup {0}
    BY LookupMessage
  <2>2. AskedOf(book').kind \in {"reduce", "remove", "replace"}
    BY <1>2, <2>1 DEF AskedOf, LookupTypes, ReduceTypes
  <2> QED BY <1>2, <2>1, <2>2, PromisedTypes DEF AskedOf, Promise!Request
<1>5. Live(book) = LiveOrders /\ Live(book') = LiveOrders'
  BY PromiseState
<1>6. /\ AskedOf(book) = (IF book.state = "LOOKUP" THEN AskedFor ELSE [kind |-> "none"])
      /\ AskedOf(book') = (IF book.state = "LOOKUP" THEN AskedFor ELSE [kind |-> "none"])'
  BY AskedFields
<1> QED BY <1>1, <1>2, <1>3, <1>4, <1>5, <1>6 DEF Promise!Ask

\* The last edge of a rescan refreshes what is shown, and a reset empties it.
LEMMA RefreshStep ==
  ASSUME RInv, RInv', Commit
  PROVE  Promise!Refresh
PROOF
<1>1. /\ BookInv(book) /\ Kept(book) /\ book.state = "RESCAN" /\ book' = CommitEdge(book)
  BY DEF RInv, DInv, PInv, IInv, Commit
<1>2. book'.state = "IDLE" /\ Live(book') = Live(book)
  BY <1>1, SameLive
<1>3. book' \in Book /\ InSlots(book') /\ ShownExact(book')
  <2>1. BookInv(book') /\ InSlots(book')
    BY DEF RInv, DInv, PInv, IInv, Kept
  <2>2. ShownExact(book')
    BY <1>1, CommitEdgeExact DEF RInv, DInv, Commit
  <2> QED BY <2>1, <2>2 DEF BookInv
<1>4. book'.lv = Promise!Depth(Live(book))
  BY <1>2, <1>3, LiveShownDepth, PromisedDepth
<1>5. AskedOf(book) = AskedOf(book')
  BY <1>1, <1>2, AskedFields
<1>6. Live(book) = LiveOrders /\ Live(book') = LiveOrders'
  BY PromiseState
<1>7. /\ AskedOf(book) = (IF book.state = "LOOKUP" THEN AskedFor ELSE [kind |-> "none"])
      /\ AskedOf(book') = (IF book.state = "LOOKUP" THEN AskedFor ELSE [kind |-> "none"])'
  BY AskedFields
<1> QED BY <1>1, <1>2, <1>4, <1>5, <1>6, <1>7 DEF Promise!Refresh

LEMMA ResetStep ==
  ASSUME RInv, Reset
  PROVE  Promise!Reset
PROOF
<1>1. BookInv(book) /\ Kept(book) /\ book' = ResetEdge(book)
  BY DEF RInv, DInv, PInv, IInv, Reset
<1>2. /\ book'.lv = EmptyLevels /\ book'.state = "IDLE" /\ Live(book') = NoOrders
  BY <1>1, SameLive
<1>3. AskedOf(book') = Promise!NoRequest
  BY <1>2, AskedFields
<1>4. Live(book') = LiveOrders'
  BY PromiseState
<1>5. AskedOf(book') = (IF book.state = "LOOKUP" THEN AskedFor ELSE [kind |-> "none"])'
  BY AskedFields
<1> QED BY <1>2, <1>3, <1>4, <1>5, PromisedTypes, PromisedEdits DEF Promise!Reset

\* The other edges change nothing that the promise talks of.
LEMMA QuietStep ==
  ASSUME RInv, Scan \/ (\E msg \in IgnoredMessages : Ignore(msg)) \/ UNCHANGED book
  PROVE  UNCHANGED Promise!vars
PROOF
<1>1. BookInv(book) /\ Kept(book)
  BY DEF RInv, DInv, PInv, IInv
<1>2. /\ Live(book') = Live(book) /\ book'.lv = book.lv
      /\ book'.state = book.state /\ AskedOf(book') = AskedOf(book)
  <2>1. CASE Scan
    <3>1. Live(book') = Live(book) /\ book'.lv = book.lv /\ book'.state = "RESCAN"
          /\ book.state = "RESCAN"
      BY <1>1, <2>1, SameLive DEF Scan
    <3> QED BY <3>1, AskedFields
  <2>2. ASSUME NEW msg \in IgnoredMessages, Ignore(msg)
        PROVE  /\ Live(book') = Live(book) /\ book'.lv = book.lv
               /\ book'.state = book.state /\ AskedOf(book') = AskedOf(book)
    <3>1. Live(book') = Live(book) /\ book'.lv = book.lv /\ book'.state = "IDLE"
          /\ book.state = "IDLE"
      BY <1>1, <2>2, SameLive, FeedMessages DEF Ignore, msg_ready
    <3> QED BY <3>1, AskedFields
  <2>3. CASE UNCHANGED book
    BY <2>3
  <2> QED BY <2>1, <2>2, <2>3
<1> QED BY <1>2, PromiseState

(* With one live order at most in a slot, every step of the book is a step of *)
(* DepthBook: the safety part of ImplementsDepthBook.                         *)
THEOREM RefinesDepthBook ==
  CollisionFree => (Spec => Promise!Init /\ [][Promise!Next]_(Promise!vars))
PROOF
<1>1. SUFFICES ASSUME CollisionFree
               PROVE  Spec => Promise!Init /\ [][Promise!Next]_(Promise!vars)
  OBVIOUS
<1>2. Init => Promise!Init
  <2> SUFFICES ASSUME Init PROVE Promise!Init
    OBVIOUS
  <2>1. /\ book.entry_valid = {} /\ book.state = "IDLE" /\ book.lv = EmptyLevels
    BY DEF Init, InitBook
  <2>2. LiveOrders = [x \in {} |-> x]
    BY <2>1 DEF LiveOrders
  <2> QED BY <2>1, <2>2, PromisedTypes, PromisedEdits
          DEF Promise!Init, NoOrders, Promise!NoRequest
<1>3. RInv /\ RInv' /\ [Next]_book => [Promise!Next]_(Promise!vars)
  <2> SUFFICES ASSUME RInv, RInv', [Next]_book PROVE [Promise!Next]_(Promise!vars)
    OBVIOUS
  <2>1. ASSUME NEW msg \in AddMessages, Add(msg) PROVE Promise!Next
    BY <1>1, <2>1, AddStep DEF Promise!Next
  <2>2. ASSUME NEW msg \in LookupMessages, Read(msg) PROVE Promise!Next
    BY <2>2, AskStep DEF Promise!Next
  <2>3. CASE Lookup
    BY <1>1, <2>3, ServeStep DEF Promise!Next
  <2>4. CASE Commit
    BY <2>4, RefreshStep DEF Promise!Next
  <2>5. CASE Reset
    BY <2>5, ResetStep DEF Promise!Next
  <2>6. CASE Scan \/ (\E msg \in IgnoredMessages : Ignore(msg)) \/ UNCHANGED book
    BY <2>6, QuietStep
  <2> QED BY <2>1, <2>2, <2>3, <2>4, <2>5, <2>6 DEF Next, Accept, Rescan
<1>4. Init => RInv
  BY InitRInv
<1>5. RInv /\ [Next]_book => RInv'
  BY <1>1, NextRInv
<1> QED BY <1>2, <1>3, <1>4, <1>5, PTL DEF Spec
=============================================================================
