----------------------------- MODULE CardProofs -----------------------------
(* The whole card: the parser, the books and the order path on one clock.  An *)
(* instance of a module has operators of its own, so that what is proved of   *)
(* the parts is carried over here: the edges of the books by showing them     *)
(* equal, the alignment of the parser by the same argument on its instance.   *)
EXTENDS FeedToOrder, BookEdgesProofs, TLAPS

(* The books of the engine are those of BookEdges. *)

LEMMA EngineTypes ==
  /\ Engine!Side = Side /\ Engine!Size = Size /\ Engine!Slot = Slot
  /\ Engine!EmptyLevels = EmptyLevels /\ Engine!Ladder = Ladder
  /\ Engine!AddTypes = AddTypes /\ Engine!ReduceTypes = ReduceTypes
  /\ Engine!LookupTypes = LookupTypes /\ Engine!MsgType = MsgType
  /\ Engine!BlankMessage = BlankMessage /\ Engine!InitBook = InitBook
  /\ Engine!Messages = Messages
PROOF
  BY DEF Engine!Side, Side, Engine!Size, Size, Engine!Slot, Slot,
         Engine!EmptyLevels, EmptyLevels, Engine!Ladder, Ladder, Engine!Level, Level,
         Engine!AddTypes, AddTypes, Engine!ReduceTypes, ReduceTypes,
         Engine!LookupTypes, LookupTypes, Engine!MsgType, MsgType,
         Engine!BlankMessage, BlankMessage, Engine!InitBook, InitBook,
         Engine!BlankEntry, BlankEntry,
         Engine!Messages, Messages, Engine!AddMessages, AddMessages,
         Engine!LookupMessages, LookupMessages, Engine!IgnoredMessages, IgnoredMessages,
         Engine!Msg, Msg

LEMMA EngineBook ==
  /\ \A b, v, m : Engine!BookEdge(b, v, m) = BookEdge(b, v, m)
  /\ \A b : Engine!ResetEdge(b) = ResetEdge(b)
  /\ \A b : Engine!msg_ready(b) = msg_ready(b)
  /\ \A b, m : Engine!SlotFree(b, m) = SlotFree(b, m)
PROOF
<1>1. \A r : Engine!Idx(r) = Idx(r)
  BY DEF Engine!Idx, Idx
<1>2. \A s, x, y : Engine!Better(s, x, y) = Better(s, x, y)
  BY DEF Engine!Better, Better
<1>3. \A L, t, p, q : Engine!Inserted(L, t, p, q) = Inserted(L, t, p, q)
  BY DEF Engine!Inserted, Inserted, Engine!side_insert, side_insert, Engine!Matching, Matching,
     Engine!FirstOf, FirstOf, Engine!InsertPos, InsertPos, Engine!Beaten, Beaten,
     Engine!Better, Better, Engine!Shifted, Shifted
<1>4. \A b, m : Engine!Latched(b, m) = Latched(b, m) /\ Engine!EntryOf(m) = EntryOf(m)
  BY <1>1 DEF Engine!Latched, Latched, Engine!EntryOf, EntryOf
<1>5. \A b, m : Engine!AddEdge(b, m) = AddEdge(b, m)
  BY <1>1, <1>3, <1>4, Zenon DEF Engine!AddEdge, AddEdge
<1>6. \A b, m : /\ Engine!ReadEdge(b, m) = ReadEdge(b, m)
                /\ Engine!IgnoreEdge(b, m) = IgnoreEdge(b, m)
  BY <1>4 DEF Engine!ReadEdge, ReadEdge, Engine!IgnoreEdge, IgnoreEdge
<1>7. \A b, m : Engine!IdleEdge(b, m) = IdleEdge(b, m)
  BY <1>5, <1>6, EngineTypes DEF Engine!IdleEdge, IdleEdge
<1>8. \A b, c : Engine!AfterEdit(b, c) = AfterEdit(b, c)
  BY <1>2, EngineTypes DEF Engine!AfterEdit, AfterEdit, Engine!aff_displayed, aff_displayed,
     Engine!StartRescan, StartRescan
<1>9. \A b : Engine!Reread(b) = Reread(b)
  BY <1>1 DEF Engine!Reread, Reread
<1>10. \A b : /\ Engine!MissEdge(b) = MissEdge(b) /\ Engine!ReduceEdge(b) = ReduceEdge(b)
              /\ Engine!DeleteEdge(b) = DeleteEdge(b)
  BY <1>1, <1>8, <1>9 DEF Engine!MissEdge, MissEdge, Engine!ReduceEdge, ReduceEdge,
                          Engine!DeleteEdge, DeleteEdge
<1>11. \A b : Engine!ReplaceEdge(b) = ReplaceEdge(b)
  BY <1>1, <1>9, EngineTypes, Zenon
     DEF Engine!ReplaceEdge, ReplaceEdge, Engine!StartRescan, StartRescan
<1>12. \A b : Engine!LookupEdge(b) = LookupEdge(b)
  BY <1>1, <1>10, <1>11, EngineTypes
     DEF Engine!LookupEdge, LookupEdge, Engine!lk_match, lk_match
<1>13. \A b : Engine!Processed(b) = Processed(b)
  BY <1>3 DEF Engine!Processed, Processed
<1>14. \A b : Engine!RescanEdge(b) = RescanEdge(b)
  BY <1>13 DEF Engine!RescanEdge, RescanEdge, Engine!ScanEdge, ScanEdge,
               Engine!CommitEdge, CommitEdge
<1>15. \A b, v, m : Engine!BookEdge(b, v, m) = BookEdge(b, v, m)
  BY <1>7, <1>12, <1>14 DEF Engine!BookEdge, BookEdge
<1>16. \A b : Engine!ResetEdge(b) = ResetEdge(b)
  BY EngineTypes DEF Engine!ResetEdge, ResetEdge
<1>17. \A b : Engine!msg_ready(b) = msg_ready(b)
  BY DEF Engine!msg_ready, msg_ready
<1>18. \A b, m : Engine!SlotFree(b, m) = SlotFree(b, m)
  BY <1>1, EngineTypes DEF Engine!SlotFree, SlotFree
<1> QED BY <1>15, <1>16, <1>17, <1>18

-----------------------------------------------------------------------------
(* The feed. *)

Sym      == Engine!Sym
SymOf(l) == Engine!SymOf(l)

\* The messages that the parser supports, and the bytes of one.
Kinds      == Parser!Supported
AnyMessage == [id : Nat, type : Kinds \cup {"none"}, sell : BOOLEAN]
AnyByte    == [msg : AnyMessage, pos : Nat]

LEMMA SymOfType == ASSUME NEW l \in Nat PROVE SymOf(l) \in Sym
PROOF BY CardAssumption DEF SymOf, Sym, Engine!SymOf, Engine!Sym

LEMMA MessageOfFeed ==
  ASSUME NEW m \in Messages
  PROVE  /\ m.type \in MsgTypes /\ m.type \in MsgType /\ m.ref \in Refs /\ m.nref \in Refs
         /\ m.type \in AddTypes => m \in AddMessages
         /\ m.type \in LookupTypes => m \in LookupMessages
         /\ m \in Message
PROOF
<1>1. m.type \in MsgTypes /\ m.type \in MsgType /\ m.ref \in Refs /\ m.nref \in Refs
  BY FeedAssumption DEF Messages, AddMessages, LookupMessages, IgnoredMessages, Msg
<1>2. m \in AddMessages => m.type \in AddTypes
  BY FeedMessages
<1>3. m \in LookupMessages => m.type \in LookupTypes
  BY FeedMessages
<1>4. m \in IgnoredMessages => m.type \notin AddTypes \cup LookupTypes
  BY DEF IgnoredMessages, Msg
<1>5. AddTypes \cap LookupTypes = {}
  BY DEF AddTypes, LookupTypes, ReduceTypes
<1>6. m \in Message
  BY FeedMessages DEF Messages
<1>7. m \in AddMessages \/ m \in LookupMessages \/ m \in IgnoredMessages
  BY DEF Messages
<1> QED BY <1>1, <1>2, <1>3, <1>4, <1>5, <1>6, <1>7

\* What is assumed of a message of the feed.
LEMMA Content1 ==
  ASSUME NEW c \in Feed
  PROVE  /\ c.loc \in Locates /\ c.loc \in Nat /\ SymOf(c.loc) \in Sym
         /\ c.side \in Side /\ c.type \in Kinds /\ c.type \in MsgType
         /\ c.ref \in Refs /\ c.new_ref \in Refs /\ c.ref \in Nat /\ c.new_ref \in Nat
PROOF
<1>1. c.loc \in Locates /\ c.loc \in Nat /\ c.side \in Side /\ AsDecoded(c) \in Messages
  BY CardAssumption
<1>2. /\ AsDecoded(c).type = c.type /\ AsDecoded(c).ref = c.ref
      /\ AsDecoded(c).nref = c.new_ref
  BY DEF AsDecoded, Msg
<1>3. c.type \in MsgType /\ c.ref \in Refs /\ c.new_ref \in Refs
  BY <1>1, <1>2, MessageOfFeed
<1>4. c.type \in Kinds
  BY <1>3 DEF MsgType, Kinds, Parser!Supported, Parser!AddFields
<1> QED BY <1>1, <1>3, <1>4, SymOfType, FeedAssumption

LEMMA NumberedType ==
  ASSUME NEW c \in Feed, NEW id \in Nat
  PROVE  LET m == Numbered(id, c)
         IN  /\ m \in AnyMessage /\ m.id = id /\ m.type = c.type /\ m.type \in Kinds
             /\ m.sell \in BOOLEAN /\ (m.sell => m.type \in Parser!AddFields)
             /\ m.sell <=> c.type \in Parser!AddFields /\ c.side = "ask"
             /\ m # Parser!NoMessage
PROOF
<1>1. c.type \in Kinds /\ c.type # "none"
  BY Content1 DEF Kinds, Parser!Supported, Parser!AddFields
<1> QED BY <1>1 DEF Numbered, AnyMessage, Parser!NoMessage

LEMMA NoMessageType == Parser!NoMessage \in AnyMessage
PROOF BY DEF Parser!NoMessage, AnyMessage

-----------------------------------------------------------------------------
(* The parser, as in ItchParserProofs. *)

\* The fields that a message of type t has, and where each of them starts.
Has(t, f) == /\ f = "new_ref" => t = "U"
             /\ f = "pr" => t \in Parser!AddFields \cup {"C", "U"}

First(t, f) == CASE f = "loc" -> 1
                 [] f = "ts"  -> 5
                 [] f = "ref" -> 11
                 [] f = "new_ref" -> 19
                 [] f = "sh" -> IF t \in Parser!AddFields THEN 20
                                  ELSE IF t = "U" THEN 27 ELSE 19
                 [] f = "pr" -> IF t = "U" THEN 31 ELSE 32

Span(t, f) == First(t, f) .. First(t, f) + Parser!Width[f] - 1

\* One past the last byte of the field among the first n of the message.
Reach(t, f, n) ==
    IF n < First(t, f) + Parser!Width[f] THEN n ELSE First(t, f) + Parser!Width[f]

(* Register reg ends with the bytes of field f that are among the first n of *)
(* message m, in their order; what is before them is of earlier messages.    *)
Ends(reg, m, f, n) ==
    \A p \in First(m.type, f) .. Reach(m.type, f, n) - 1 :
        reg[Parser!Width[f] - Reach(m.type, f, n) + p + 1] = [msg |-> m, pos |-> p]

Register(f) == {reg \in Seq(AnyByte) : Len(reg) = Parser!Width[f]}

\* The day so far: contents of the feed, none of them twice, and the last of
\* them on the bus.
Streamed ==
    /\ stream \in Seq(Feed) /\ Len(stream) > 0
    /\ \A j, k \in 1 .. Len(stream) : stream[j] = stream[k] => j = k
    /\ \/ cur = Parser!NoMessage
       \/ cur = Numbered(Len(stream), stream[Len(stream)])

Shifters == /\ DOMAIN sr = Parser!Fields
            /\ \A f \in Parser!Fields : sr[f] \in Register(f)
            /\ side_r \in BOOLEAN /\ m_valid \in BOOLEAN

(* The counter of the parser and the place of the DMA agree. *)
InStep == /\ byte_cnt = at /\ at \in Nat
          /\ cur = Parser!NoMessage => at = 0
          /\ cur # Parser!NoMessage => /\ at < Parser!Length[cur.type]
                                       /\ at > 0 => msg_type_r = cur.type

Holds == /\ \A f \in Parser!Fields : Has(cur.type, f) => Ends(sr[f], cur, f, at)
         /\ at > 19 /\ cur.type \in Parser!AddFields => side_r = cur.sell

PInv == Streamed /\ Shifters /\ InStep /\ Holds

LEMMA LengthTable ==
  ASSUME NEW t \in Kinds
  PROVE  /\ Parser!Length[t] \in 19 .. 44
         /\ t \in Parser!Supported => Parser!Length[t] >= 19
         /\ t \in {"E", "C", "X"} => Parser!Length[t] >= 23
         /\ t \in Parser!AddFields \cup {"C"} => Parser!Length[t] >= 36
         /\ t = "U" => Parser!Length[t] >= 35
PROOF BY DEF Kinds, Parser!Supported, Parser!AddFields, Parser!Length

LEMMA FirstType ==
  ASSUME NEW t, NEW f \in Parser!Fields
  PROVE  /\ First(t, f) \in 1 .. 32 /\ Parser!Width[f] \in 2 .. 8
PROOF BY DEF First, Parser!Fields, Parser!Width

LEMMA Appended ==
  ASSUME NEW S, NEW q \in Seq(S), NEW b \in S
  PROVE  /\ Append(q, b) \in Seq(S) /\ Len(Append(q, b)) = Len(q) + 1
         /\ Append(q, b)[Len(q) + 1] = b
         /\ \A i \in 1 .. Len(q) : Append(q, b)[i] = q[i]
PROOF OBVIOUS

\* One byte more of message m: the register of each field stays in step.
LEMMA ShiftEnds ==
  ASSUME NEW m \in AnyMessage, NEW f \in Parser!Fields, NEW n \in Nat,
         NEW reg \in Register(f), Ends(reg, m, f, n),
         NEW new, new = IF n \in Span(m.type, f)
                          THEN Append(Tail(reg), [msg |-> m, pos |-> n]) ELSE reg
  PROVE  new \in Register(f) /\ Ends(new, m, f, n + 1)
PROOF
<1> DEFINE t == m.type  s == First(t, f)  w == Parser!Width[f]  b == [msg |-> m, pos |-> n]
<1>1. s \in 1 .. 32 /\ w \in 2 .. 8
  BY FirstType
<1>2. reg \in Seq(AnyByte) /\ Len(reg) = w /\ b \in AnyByte
  BY DEF Register, AnyByte
<1>3. \A p \in s .. Reach(t, f, n) - 1 : reg[w - Reach(t, f, n) + p + 1] = [msg |-> m, pos |-> p]
  BY DEF Ends
<1>4. Reach(t, f, n) = (IF n < s + w THEN n ELSE s + w)
      /\ Reach(t, f, n + 1) = (IF n + 1 < s + w THEN n + 1 ELSE s + w)
  BY DEF Reach
<1>5. Span(t, f) = s .. s + w - 1
  BY DEF Span
<1>6. SUFFICES /\ new \in Register(f)
               /\ \A p \in s .. Reach(t, f, n + 1) - 1 :
                    new[w - Reach(t, f, n + 1) + p + 1] = [msg |-> m, pos |-> p]
  BY DEF Ends
<1> HIDE DEF t, s, w
<1>7. CASE n \in Span(t, f)
  <2>1. new = Append(Tail(reg), b)
    BY <1>7 DEF t
  <2>2. /\ Tail(reg) \in Seq(AnyByte) /\ Len(Tail(reg)) = w - 1
        /\ \A i \in 1 .. w - 1 : Tail(reg)[i] = reg[i + 1]
    BY <1>1, <1>2
  <2>3. /\ new \in Seq(AnyByte) /\ Len(new) = w /\ new[w] = b
        /\ \A i \in 1 .. w - 1 : new[i] = reg[i + 1]
    <3> DEFINE q == Tail(reg)
    <3>1. q \in Seq(AnyByte) /\ Len(q) = w - 1 /\ \A i \in 1 .. w - 1 : q[i] = reg[i + 1]
      BY <2>2
    <3>2. new = Append(q, b)
      BY <2>1
    <3> HIDE DEF q, b
    <3>3. /\ new \in Seq(AnyByte) /\ Len(new) = Len(q) + 1 /\ new[Len(q) + 1] = b
          /\ \A i \in 1 .. Len(q) : new[i] = q[i]
      <4>1. q \in Seq(AnyByte) /\ b \in AnyByte
        BY <1>2, <3>1
      <4>2. /\ Append(q, b) \in Seq(AnyByte) /\ Len(Append(q, b)) = Len(q) + 1
            /\ Append(q, b)[Len(q) + 1] = b
            /\ \A i \in 1 .. Len(q) : Append(q, b)[i] = q[i]
        BY <4>1, Appended
      <4> QED BY <3>2, <4>2
    <3>4. Len(q) + 1 = w
      BY <1>1, <3>1
    <3> QED BY <3>1, <3>3, <3>4
  <2>4. Reach(t, f, n) = n /\ Reach(t, f, n + 1) = n + 1 /\ s <= n /\ n < s + w
    BY <1>1, <1>4, <1>5, <1>7
  <2>5. ASSUME NEW p \in s .. n
        PROVE  new[w - (n + 1) + p + 1] = [msg |-> m, pos |-> p]
    <3>1. CASE p = n
      <4> DEFINE i == w - (n + 1) + p + 1
      <4>1. i = w
        BY <1>1, <3>1
      <4> HIDE DEF i
      <4>2. new[i] = [msg |-> m, pos |-> p]
        BY <2>3, <3>1, <4>1
      <4> QED BY <4>2 DEF i
    <3>2. CASE p < n
      <4> DEFINE i == w - (n + 1) + p + 1
      <4>1. i \in 1 .. w - 1 /\ p \in s .. n - 1 /\ i + 1 = w - n + p + 1
        BY <1>1, <2>4, <3>2
      <4>2. reg[w - n + p + 1] = [msg |-> m, pos |-> p]
        BY <1>3, <2>4, <4>1
      <4> HIDE DEF i
      <4>3. new[i] = reg[i + 1]
        BY <2>3, <4>1
      <4> QED BY <4>1, <4>2, <4>3 DEF i
    <3>3. p = n \/ p < n
      BY <1>1, <2>4
    <3> QED BY <3>1, <3>2, <3>3, Zenon
  <2>6. new \in Register(f)
    BY <2>3 DEF Register, w
  <2>7. s .. Reach(t, f, n + 1) - 1 = s .. n
    BY <1>1, <2>4
  <2> QED BY <2>4, <2>5, <2>6, <2>7
<1>8. CASE n \notin Span(t, f)
  <2>1. new = reg /\ new \in Register(f)
    BY <1>8 DEF t
  <2>2. CASE n < s
    <3>1. Reach(t, f, n + 1) = n + 1
      BY <1>1, <1>4, <2>2
    <3>2. s .. Reach(t, f, n + 1) - 1 = {}
      BY <1>1, <2>2, <3>1
    <3> QED BY <2>1, <3>2
  <2>3. CASE n >= s + w
    <3>1. Reach(t, f, n + 1) = Reach(t, f, n)
      BY <1>1, <1>4, <2>3
    <3> QED BY <1>3, <2>1, <3>1
  <2>4. n < s \/ n >= s + w
    BY <1>1, <1>5, <1>8
  <2> QED BY <2>2, <2>3, <2>4, Zenon
<1> QED BY <1>7, <1>8

\* Once its last byte is in, the register is the field.
LEMMA EndsDone ==
  ASSUME NEW m \in AnyMessage, NEW f \in Parser!Fields, NEW n \in Nat,
         NEW reg \in Register(f), Ends(reg, m, f, n),
         n >= First(m.type, f) + Parser!Width[f]
  PROVE  reg = Parser!Slice(m, First(m.type, f), First(m.type, f) + Parser!Width[f] - 1)
PROOF
<1> DEFINE s == First(m.type, f)  w == Parser!Width[f]
<1>1. s \in 1 .. 32 /\ w \in 2 .. 8
  BY FirstType
<1>2. reg \in Seq(AnyByte) /\ Len(reg) = w
  BY DEF Register
<1>3. Reach(m.type, f, n) = s + w
  BY <1>1 DEF Reach
<1>4. \A p \in s .. (s + w) - 1 : reg[w - (s + w) + p + 1] = [msg |-> m, pos |-> p]
  <2>1. \A p \in s .. Reach(m.type, f, n) - 1 :
          reg[w - Reach(m.type, f, n) + p + 1] = [msg |-> m, pos |-> p]
    BY DEF Ends
  <2> HIDE DEF s, w
  <2> QED BY <1>3, <2>1
<1>5. Parser!Slice(m, s, s + w - 1) =
        [i \in 1 .. (s + w - 1) - s + 1 |-> [msg |-> m, pos |-> s + i - 1]]
  BY DEF Parser!Slice
<1> HIDE DEF s, w
<1>6. (s + w - 1) - s + 1 = w
  BY <1>1
<1>7. ASSUME NEW i \in 1 .. w
      PROVE  reg[i] = [msg |-> m, pos |-> s + i - 1]
  <2> DEFINE p == s + i - 1  k == w - (s + w) + p + 1
  <2>1. p \in s .. (s + w) - 1 /\ k = i
    BY <1>1
  <2>2. p \in s .. (s + w) - 1 => reg[k] = [msg |-> m, pos |-> p]
    BY <1>4
  <2> HIDE DEF k
  <2> QED BY <2>1, <2>2
<1>8. reg = [i \in 1 .. w |-> reg[i]]
  BY <1>1, <1>2
<1> QED BY <1>5, <1>6, <1>7, <1>8 DEF s, w

LEMMA TakenSpan ==
  ASSUME NEW f \in Parser!Fields, msg_type_r \in Kinds
  PROVE  Parser!TakenAt(f) = IF Has(msg_type_r, f) THEN Span(msg_type_r, f) ELSE {}
PROOF
<1> USE DEF Parser!TakenAt, Has, First, Parser!Width, Parser!Fields
<1>1. CASE f = "loc"
  BY <1>1 DEF Span
<1>2. CASE f = "ts"
  BY <1>2 DEF Span
<1>3. CASE f = "ref"
  BY <1>3 DEF Span
<1>4. CASE f = "new_ref"
  BY <1>4 DEF Span, Parser!NewRefAt, Parser!is_replace
<1>5. CASE f = "sh"
  <2>1. Parser!TakenAt(f) = Parser!SharesAt /\ Has(msg_type_r, f)
    BY <1>5
  <2>2. Parser!SharesAt = Span(msg_type_r, f)
    <3>1. Parser!Width[f] = 4
      BY <1>5
    <3>2. First(msg_type_r, f) = IF msg_type_r \in Parser!AddFields THEN 20
                                   ELSE IF msg_type_r = "U" THEN 27 ELSE 19
      BY <1>5
    <3> HIDE DEF Parser!TakenAt, Has, First, Parser!Width, Parser!Fields
    <3>3. Span(msg_type_r, f) = First(msg_type_r, f) .. First(msg_type_r, f) + 4 - 1
      BY <3>1 DEF Span
    <3>4. Span(msg_type_r, f) = IF msg_type_r \in Parser!AddFields THEN 20 .. 23
                                  ELSE IF msg_type_r = "U" THEN 27 .. 30 ELSE 19 .. 22
      <4>1. CASE msg_type_r \in Parser!AddFields
        BY <3>2, <3>3, <4>1
      <4>2. CASE msg_type_r \notin Parser!AddFields /\ msg_type_r = "U"
        BY <3>2, <3>3, <4>2
      <4>3. CASE msg_type_r \notin Parser!AddFields /\ msg_type_r # "U"
        BY <3>2, <3>3, <4>3
      <4> QED BY <4>1, <4>2, <4>3
    <3> QED BY <3>4 DEF Parser!SharesAt, Parser!is_addfields, Parser!is_replace
  <2> QED BY <2>1, <2>2, Zenon
<1>6. CASE f = "pr"
  <2>1. Parser!TakenAt(f) = Parser!PriceAt
    BY <1>6
  <2>2. Parser!PriceAt = IF Has(msg_type_r, f) THEN Span(msg_type_r, f) ELSE {}
    <3>1. Parser!Width[f] = 4
      BY <1>6
    <3>2. First(msg_type_r, f) = IF msg_type_r = "U" THEN 31 ELSE 32
      BY <1>6
    <3>3. Has(msg_type_r, f) <=> msg_type_r \in Parser!AddFields \cup {"C", "U"}
      BY <1>6
    <3> HIDE DEF Parser!TakenAt, Has, First, Parser!Width, Parser!Fields
    <3>4. Span(msg_type_r, f) = First(msg_type_r, f) .. First(msg_type_r, f) + 4 - 1
      BY <3>1 DEF Span
    <3>5. Span(msg_type_r, f) = IF msg_type_r = "U" THEN 31 .. 34 ELSE 32 .. 35
      <4>1. CASE msg_type_r = "U"
        BY <3>2, <3>4, <4>1
      <4>2. CASE msg_type_r # "U"
        BY <3>2, <3>4, <4>2
      <4> QED BY <4>1, <4>2
    <3> QED BY <3>3, <3>5
            DEF Parser!PriceAt, Parser!is_addfields, Parser!is_replace, Parser!is_exec_price,
                Parser!AddFields
  <2> QED BY <2>1, <2>2, Zenon
<1> QED BY <1>1, <1>2, <1>3, <1>4, <1>5, <1>6

LEMMA FirstByteNotTaken == \A f \in Parser!Fields : 0 \notin Parser!TakenAt(f)
PROOF BY DEF Parser!TakenAt, Parser!Fields, Parser!NewRefAt, Parser!SharesAt, Parser!PriceAt

\* What is known of the message under way.
LEMMA UnderWay ==
  ASSUME PInv, cur # Parser!NoMessage
  PROVE  /\ cur \in AnyMessage /\ cur.type \in Kinds /\ cur.id = Len(stream)
         /\ cur.sell \in BOOLEAN /\ (cur.sell => cur.type \in Parser!AddFields)
         /\ byte_cnt = at /\ at \in Nat /\ at < Parser!Length[cur.type]
         /\ Parser!Length[cur.type] \in 19 .. 44
         /\ (at > 0 => msg_type_r = cur.type)
PROOF
<1>1. /\ byte_cnt = at /\ at \in Nat /\ at < Parser!Length[cur.type]
      /\ (at > 0 => msg_type_r = cur.type)
  BY DEF PInv, InStep
<1>2. /\ Len(stream) \in Nat /\ stream[Len(stream)] \in Feed
      /\ cur = Numbered(Len(stream), stream[Len(stream)])
  BY DEF PInv, Streamed
<1>3. /\ cur \in AnyMessage /\ cur.type \in Kinds /\ cur.id = Len(stream)
      /\ cur.sell \in BOOLEAN /\ (cur.sell => cur.type \in Parser!AddFields)
  BY <1>2, NumberedType
<1> QED BY <1>1, <1>3, LengthTable

\* The registers with the byte on the bus are in step with the byte after it.
LEMMA NextRegisters ==
  ASSUME PInv, cur # Parser!NoMessage, NEW f \in Parser!Fields
  PROVE  /\ Parser!nxt(Parser!Byte)[f] \in Register(f)
         /\ Has(cur.type, f) => Ends(Parser!nxt(Parser!Byte)[f], cur, f, at + 1)
PROOF
<1>1. /\ cur \in AnyMessage /\ cur.type \in Kinds /\ byte_cnt = at /\ at \in Nat
      /\ (at > 0 => msg_type_r = cur.type)
  BY UnderWay
<1>2. sr[f] \in Register(f) /\ (Has(cur.type, f) => Ends(sr[f], cur, f, at))
  BY DEF PInv, Shifters, Holds
<1>3. Parser!Byte = [msg |-> cur, pos |-> at]
  BY DEF Parser!Byte
<1>4. Parser!nxt(Parser!Byte)[f] =
        IF byte_cnt \in Parser!TakenAt(f) THEN Append(Tail(sr[f]), Parser!Byte) ELSE sr[f]
  BY DEF Parser!nxt
<1>5. Has(cur.type, f) => (at \in Parser!TakenAt(f) <=> at \in Span(cur.type, f))
  <2>1. CASE at = 0
    <3>1. First(cur.type, f) > 0
      BY FirstType
    <3>2. 0 \notin Span(cur.type, f)
      BY <3>1, FirstType DEF Span
    <3> QED BY <2>1, <3>2, FirstByteNotTaken
  <2>2. CASE at > 0
    BY <1>1, <2>2, TakenSpan
  <2> QED BY <1>1, <2>1, <2>2
<1>6. ~Has(cur.type, f) => at \notin Parser!TakenAt(f)
  <2>1. CASE at = 0
    BY <2>1, FirstByteNotTaken
  <2>2. CASE at > 0
    BY <1>1, <2>2, TakenSpan
  <2> QED BY <1>1, <2>1, <2>2
<1>7. CASE Has(cur.type, f)
  <2> DEFINE new == Parser!nxt(Parser!Byte)[f]
  <2>1. new = IF at \in Span(cur.type, f)
                THEN Append(Tail(sr[f]), [msg |-> cur, pos |-> at]) ELSE sr[f]
    BY <1>1, <1>3, <1>4, <1>5, <1>7
  <2> HIDE DEF new
  <2>2. new \in Register(f) /\ Ends(new, cur, f, at + 1)
    BY <1>1, <1>2, <1>7, <2>1, ShiftEnds
  <2> QED BY <2>2 DEF new
<1>8. CASE ~Has(cur.type, f)
  BY <1>1, <1>2, <1>4, <1>6, <1>8
<1> QED BY <1>7, <1>8

LEMMA NextSide ==
  ASSUME PInv, cur # Parser!NoMessage
  PROVE  /\ Parser!side_nxt(Parser!Byte) \in BOOLEAN
         /\ at + 1 > 19 /\ cur.type \in Parser!AddFields => Parser!side_nxt(Parser!Byte) = cur.sell
PROOF
<1>1. /\ byte_cnt = at /\ at \in Nat /\ cur.sell \in BOOLEAN
      /\ (at > 0 => msg_type_r = cur.type)
  BY UnderWay
<1>2. side_r \in BOOLEAN /\ (at > 19 /\ cur.type \in Parser!AddFields => side_r = cur.sell)
  BY DEF PInv, Shifters, Holds
<1>3. Parser!side_nxt(Parser!Byte) =
        IF Parser!is_addfields /\ at = 19 THEN cur.sell /\ at = 19 ELSE side_r
  BY <1>1 DEF Parser!side_nxt, Parser!Byte
<1>4. CASE at = 19
  BY <1>1, <1>2, <1>3, <1>4 DEF Parser!is_addfields
<1>5. CASE at # 19
  BY <1>1, <1>2, <1>3, <1>5
<1> QED BY <1>4, <1>5

\* On the last byte, each field of the message is complete.
LEMMA FieldDone ==
  ASSUME PInv, cur # Parser!NoMessage, Parser!tlast, NEW f \in Parser!Fields, Has(cur.type, f),
         Parser!Length[cur.type] >= First(cur.type, f) + Parser!Width[f]
  PROVE  Parser!nxt(Parser!Byte)[f] =
           Parser!Slice(cur, First(cur.type, f), First(cur.type, f) + Parser!Width[f] - 1)
PROOF
<1>1. cur \in AnyMessage /\ at \in Nat /\ Parser!Length[cur.type] \in 19 .. 44
  BY UnderWay
<1>2. at + 1 = Parser!Length[cur.type]
  BY <1>1 DEF Parser!tlast
<1>3. Parser!nxt(Parser!Byte)[f] \in Register(f) /\ Ends(Parser!nxt(Parser!Byte)[f], cur, f, at + 1)
  BY NextRegisters
<1> DEFINE reg == Parser!nxt(Parser!Byte)[f]
<1>4. reg \in Register(f) /\ Ends(reg, cur, f, at + 1) /\ at + 1 \in Nat
      /\ at + 1 >= First(cur.type, f) + Parser!Width[f]
  BY <1>1, <1>2, <1>3
<1> HIDE DEF reg
<1>5. reg = Parser!Slice(cur, First(cur.type, f), First(cur.type, f) + Parser!Width[f] - 1)
  BY <1>1, <1>4, EndsDone
<1> QED BY <1>5 DEF reg

(* What is put on the output is what the golden parser makes of the message. *)
LEMMA DecodedGolden ==
  ASSUME PInv, cur # Parser!NoMessage, Parser!tlast, cur.type \in Parser!Supported
  PROVE  Parser!Decoded(Parser!Byte) =
            [Parser!parse_message(cur) EXCEPT !.sh = IF cur.type = "D"
                                       THEN Parser!Decoded(Parser!Byte).sh ELSE @]
PROOF
<1> DEFINE t == cur.type  L == Parser!Length[t]  b == Parser!Byte  n == Parser!nxt(b)
<1>1. /\ t \in Kinds /\ cur.sell \in BOOLEAN /\ (cur.sell => t \in Parser!AddFields)
      /\ L \in 19 .. 44 /\ at = L - 1 /\ msg_type_r = t
  <2>1. at = L - 1
    BY DEF Parser!tlast
  <2>2. /\ t \in Kinds /\ cur.sell \in BOOLEAN /\ (cur.sell => t \in Parser!AddFields)
        /\ L \in 19 .. 44 /\ at \in Nat /\ (at > 0 => msg_type_r = t)
    BY UnderWay
  <2> HIDE DEF t, L
  <2>3. at > 0
    BY <2>1, <2>2
  <2> QED BY <2>1, <2>2, <2>3
<1>2. /\ L >= 19
      /\ t \in {"E", "C", "X"} => L >= 23
      /\ t \in Parser!AddFields \cup {"C"} => L >= 36
      /\ t = "U" => L >= 35
  BY <1>1, LengthTable
<1>3. /\ Parser!Width["loc"] = 2 /\ Parser!Width["ts"] = 6 /\ Parser!Width["ref"] = 8
      /\ Parser!Width["new_ref"] = 8 /\ Parser!Width["sh"] = 4 /\ Parser!Width["pr"] = 4
  BY DEF Parser!Width
<1>4. /\ First(t, "loc") = 1 /\ First(t, "ts") = 5 /\ First(t, "ref") = 11
      /\ First(t, "new_ref") = 19
      /\ First(t, "sh") = IF t \in Parser!AddFields THEN 20 ELSE IF t = "U" THEN 27 ELSE 19
      /\ First(t, "pr") = IF t = "U" THEN 31 ELSE 32
  BY DEF First
<1>5. /\ Has(t, "loc") /\ Has(t, "ts") /\ Has(t, "ref") /\ Has(t, "sh")
      /\ Has(t, "new_ref") <=> t = "U"
      /\ Has(t, "pr") <=> t \in Parser!AddFields \cup {"C", "U"}
  BY DEF Has
<1>6. /\ Parser!is_addfields <=> t \in Parser!AddFields
      /\ Parser!is_replace <=> t = "U"
      /\ Parser!is_exec_price <=> t = "C"
  BY <1>1 DEF Parser!is_addfields, Parser!is_replace, Parser!is_exec_price
<1>7. \A f \in Parser!Fields : Has(t, f) /\ L >= First(t, f) + Parser!Width[f]
                => n[f] = Parser!Slice(cur, First(t, f), First(t, f) + Parser!Width[f] - 1)
  BY FieldDone
<1> HIDE DEF t, L, b, n
<1>8. /\ n.loc = Parser!Slice(cur, 1, 2) /\ n.ts = Parser!Slice(cur, 5, 10)
      /\ n.ref = Parser!Slice(cur, 11, 18)
  <2>1. /\ L >= 1 + 2 /\ L >= 5 + 6 /\ L >= 11 + 8
        /\ 1 + 2 - 1 = 2 /\ 5 + 6 - 1 = 10 /\ 11 + 8 - 1 = 18
    BY <1>1, <1>2
  <2>2. "loc" \in Parser!Fields /\ "ts" \in Parser!Fields /\ "ref" \in Parser!Fields
    BY DEF Parser!Fields
  <2> QED BY <1>3, <1>4, <1>5, <1>7, <2>1, <2>2
<1>9. t = "U" => n.new_ref = Parser!Slice(cur, 19, 26)
  <2>1. 19 + 8 - 1 = 26 /\ (t = "U" => L >= 19 + 8) /\ "new_ref" \in Parser!Fields
    BY <1>1, <1>2 DEF Parser!Fields
  <2> QED BY <1>3, <1>4, <1>5, <1>7, <2>1
<1>10. t # "D" => n.sh = Parser!golden_shares(cur)
  <2>1. "sh" \in Parser!Fields
    BY DEF Parser!Fields
  <2>2. CASE t \in Parser!AddFields
    <3>1. 20 + 4 - 1 = 23 /\ L >= 20 + 4 /\ First(t, "sh") = 20
      BY <1>1, <1>2, <1>4, <2>2
    <3>2. n["sh"] = Parser!Slice(cur, 20, 23)
      BY <1>3, <1>5, <1>7, <2>1, <3>1
    <3> QED BY <2>2, <3>2 DEF Parser!golden_shares, Parser!AddFields, t
  <2>3. CASE t = "U"
    <3>1. 27 + 4 - 1 = 30 /\ L >= 27 + 4 /\ First(t, "sh") = 27
      BY <1>1, <1>2, <1>4, <2>3 DEF Parser!AddFields
    <3>2. n["sh"] = Parser!Slice(cur, 27, 30)
      BY <1>3, <1>5, <1>7, <2>1, <3>1
    <3> QED BY <2>3, <3>2 DEF Parser!golden_shares, Parser!AddFields, t
  <2>4. CASE t \in {"E", "C", "X"}
    <3>1. 19 + 4 - 1 = 22 /\ L >= 19 + 4 /\ First(t, "sh") = 19
      BY <1>1, <1>2, <1>4, <2>4 DEF Parser!AddFields
    <3>2. n["sh"] = Parser!Slice(cur, 19, 22)
      BY <1>3, <1>5, <1>7, <2>1, <3>1
    <3> QED BY <2>4, <3>2 DEF Parser!golden_shares, Parser!AddFields, t
  <2>5. t \in Parser!AddFields \cup {"U", "E", "C", "X", "D"}
    BY DEF Parser!Supported, t
  <2> QED BY <2>2, <2>3, <2>4, <2>5
<1>11. (IF Parser!is_addfields \/ Parser!is_exec_price \/ Parser!is_replace
          THEN n.pr ELSE Parser!Zeros(4)) = Parser!golden_price(cur)
  <2>1. "pr" \in Parser!Fields
    BY DEF Parser!Fields
  <2>2. CASE t \in Parser!AddFields \cup {"C"}
    <3>1. 32 + 4 - 1 = 35 /\ L >= 32 + 4 /\ First(t, "pr") = 32
      BY <1>1, <1>2, <1>4, <2>2 DEF Parser!AddFields
    <3>2. n["pr"] = Parser!Slice(cur, 32, 35)
      BY <1>3, <1>5, <1>7, <2>1, <2>2, <3>1
    <3> QED BY <1>6, <2>2, <3>2 DEF Parser!golden_price, Parser!AddFields, t
  <2>3. CASE t = "U"
    <3>1. 31 + 4 - 1 = 34 /\ L >= 31 + 4 /\ First(t, "pr") = 31
      BY <1>1, <1>2, <1>4, <2>3
    <3>2. n["pr"] = Parser!Slice(cur, 31, 34)
      BY <1>3, <1>5, <1>7, <2>1, <2>3, <3>1
    <3> QED BY <1>6, <2>3, <3>2 DEF Parser!golden_price, Parser!AddFields, t
  <2>4. CASE t \notin Parser!AddFields \cup {"C", "U"}
    BY <1>6, <2>4 DEF Parser!golden_price, t
  <2> QED BY <2>2, <2>3, <2>4
<1>12. (Parser!is_addfields /\ Parser!side_nxt(b)) = cur.sell
  <2>1. CASE t \in Parser!AddFields
    <3>1. at + 1 > 19
      BY <1>1, <1>2, <2>1
    <3>2. Parser!side_nxt(Parser!Byte) = cur.sell
      BY <2>1, <3>1, NextSide DEF t
    <3> QED BY <1>1, <1>6, <2>1, <3>2 DEF b
  <2>2. CASE t \notin Parser!AddFields
    BY <1>1, <1>6, <2>2
  <2> QED BY <2>1, <2>2
<1>13. Parser!Decoded(b) =
         [type |-> t, loc |-> n.loc, ts |-> n.ts, ref |-> n.ref,
          new_ref |-> IF Parser!is_replace THEN n.new_ref ELSE n.ref,
          side |-> Parser!is_addfields /\ Parser!side_nxt(b),
          sh |-> n.sh,
          pr |-> IF Parser!is_addfields \/ Parser!is_exec_price \/ Parser!is_replace
                   THEN n.pr ELSE Parser!Zeros(4)]
  BY <1>1 DEF Parser!Decoded, n
<1>14. Parser!parse_message(cur) =
         [type |-> t, loc |-> Parser!Slice(cur, 1, 2), ts |-> Parser!Slice(cur, 5, 10),
          ref |-> Parser!Slice(cur, 11, 18),
          new_ref |-> IF t = "U" THEN Parser!Slice(cur, 19, 26) ELSE Parser!Slice(cur, 11, 18),
          side |-> cur.sell, sh |-> Parser!golden_shares(cur), pr |-> Parser!golden_price(cur)]
  BY DEF Parser!parse_message, t
<1> DEFINE D == Parser!Decoded(b)  P == Parser!parse_message(cur)
           G == [P EXCEPT !.sh = IF t = "D" THEN D.sh ELSE @]
<1>15. D = [type |-> t, loc |-> n.loc, ts |-> n.ts, ref |-> n.ref,
            new_ref |-> IF t = "U" THEN Parser!Slice(cur, 19, 26) ELSE n.ref,
            side |-> cur.sell, sh |-> n.sh, pr |-> Parser!golden_price(cur)]
  BY <1>6, <1>9, <1>11, <1>12, <1>13
<1>16. D.sh = n.sh
  BY <1>15
<1>17. G = [type |-> t, loc |-> Parser!Slice(cur, 1, 2), ts |-> Parser!Slice(cur, 5, 10),
            ref |-> Parser!Slice(cur, 11, 18),
            new_ref |-> IF t = "U" THEN Parser!Slice(cur, 19, 26) ELSE Parser!Slice(cur, 11, 18),
            side |-> cur.sell, sh |-> IF t = "D" THEN D.sh ELSE Parser!golden_shares(cur),
            pr |-> Parser!golden_price(cur)]
  BY <1>14
<1>18. (IF t = "D" THEN D.sh ELSE Parser!golden_shares(cur)) = n.sh
  BY <1>10, <1>16
<1>19. D = G
  BY <1>8, <1>15, <1>17, <1>18
<1> QED BY <1>19 DEF t, b

LEMMA ZerosRegister == \A f \in Parser!Fields : Parser!Zeros(Parser!Width[f]) \in Register(f)
PROOF
<1> TAKE f \in Parser!Fields
<1>1. Parser!Width[f] \in Nat
  BY DEF Parser!Fields, Parser!Width
<1>2. Parser!ZeroByte \in AnyByte
  BY NoMessageType DEF Parser!ZeroByte, AnyByte
<1>3. Parser!Zeros(Parser!Width[f]) \in [1 .. Parser!Width[f] -> AnyByte]
  BY <1>2 DEF Parser!Zeros
<1> HIDE DEF Parser!Zeros
<1>4. /\ Parser!Zeros(Parser!Width[f]) \in Seq(AnyByte)
      /\ Len(Parser!Zeros(Parser!Width[f])) = Parser!Width[f]
  BY <1>1, <1>3
<1> QED BY <1>4 DEF Register

LEMMA NothingYet ==
  ASSUME NEW m, NEW f \in Parser!Fields, NEW reg
  PROVE  Ends(reg, m, f, 0)
PROOF
<1>1. Reach(m.type, f, 0) = 0 /\ First(m.type, f) \in 1 .. 32
  BY FirstType DEF Reach
<1> QED BY <1>1 DEF Ends

-----------------------------------------------------------------------------
(* The message held, and what the books are given of it. *)

(* Between its last byte and its acceptance a message is on the output as the *)
(* golden parser decodes it, except for the shares of a Delete.               *)
Holding ==
    m_valid =>
        LET m == Numbered(Completed, stream[Completed])
        IN  /\ at = 0 /\ Completed \in 1 .. Len(stream) /\ lost < Completed
            /\ out = [Parser!parse_message(m) EXCEPT !.sh = IF m.type = "D" THEN out.sh ELSE @]

LEMMA Counts ==
  ASSUME PInv
  PROVE  /\ Len(stream) \in Nat \ {0} /\ Completed \in 0 .. Len(stream)
         /\ cur # Parser!NoMessage =>
              Completed = Len(stream) - 1 /\ cur = Numbered(Len(stream), stream[Len(stream)])
         /\ \A k \in 1 .. Len(stream) : stream[k] \in Feed
PROOF
<1>1. /\ stream \in Seq(Feed) /\ Len(stream) > 0
      /\ \/ cur = Parser!NoMessage
         \/ cur = Numbered(Len(stream), stream[Len(stream)])
  BY DEF PInv, Streamed
<1>2. Len(stream) \in Nat \ {0} /\ \A k \in 1 .. Len(stream) : stream[k] \in Feed
  BY <1>1
<1> QED BY <1>1, <1>2 DEF Completed

\* A register that holds a field of message k reads back as the number of it.
LEMMA FieldRead ==
  ASSUME NEW k \in Nat, NEW c \in Feed, stream[k] = c, NEW f \in Parser!Fields,
         NEW first \in Nat, NEW last \in Nat, first <= last,
         LET m == Numbered(k, c)
         IN  /\ out[f] = Parser!parse_message(m)[f]
             /\ Parser!parse_message(m)[f] = Parser!Slice(m, first, last)
  PROVE  Number(f) = c[f]
PROOF
<1> DEFINE m == Numbered(k, c)
<1>1. m.id = k /\ m # Parser!NoMessage
  BY NumberedType
<1> HIDE DEF m
<1>2. Parser!Slice(m, first, last)[1].msg = m
  BY DEF Parser!Slice
<1>3. out[f][1].msg = m /\ out[f] = Parser!parse_message(m)[f]
  BY <1>2 DEF m
<1> QED BY <1>1, <1>3 DEF Number

LEMMA HeldRead ==
  ASSUME PInv, Holding, m_valid
  PROVE  /\ stream[Completed] \in Feed /\ Completed \in 1 .. Len(stream)
         /\ Number("loc") = stream[Completed].loc
         /\ BookMessage = AsDecoded(stream[Completed])
PROOF
<1> DEFINE k == Completed  c == stream[k]  m == Numbered(k, c)  P == Parser!parse_message(m)
<1>1. /\ k \in 1 .. Len(stream) /\ c \in Feed /\ k \in Nat /\ Len(stream) \in Nat
      /\ out = [P EXCEPT !.sh = IF m.type = "D" THEN out.sh ELSE @]
  BY Counts DEF Holding
<1>2. /\ m.id = k /\ m.type = c.type
      /\ m.sell <=> c.type \in Parser!AddFields /\ c.side = "ask"
      /\ m.sell \in BOOLEAN
  BY <1>1, NumberedType
<1>3. c.type \in Kinds /\ c.side \in Side
  BY <1>1, Content1
<1>4. P = [type |-> c.type, loc |-> Parser!Slice(m, 1, 2), ts |-> Parser!Slice(m, 5, 10),
           ref |-> Parser!Slice(m, 11, 18),
           new_ref |-> IF c.type = "U" THEN Parser!Slice(m, 19, 26) ELSE Parser!Slice(m, 11, 18),
           side |-> m.sell, sh |-> Parser!golden_shares(m), pr |-> Parser!golden_price(m)]
  BY <1>2 DEF Parser!parse_message
<1> HIDE DEF P
<1>5. /\ out.type = c.type /\ out.side = m.sell /\ out["loc"] = P["loc"]
      /\ out["ref"] = P["ref"] /\ out["new_ref"] = P["new_ref"] /\ out["pr"] = P["pr"]
      /\ c.type # "D" => out["sh"] = P["sh"]
  BY <1>1, <1>2, <1>4
<1>6. /\ P["loc"] = Parser!Slice(m, 1, 2) /\ P["ref"] = Parser!Slice(m, 11, 18)
      /\ P["sh"] = Parser!golden_shares(m) /\ P["pr"] = Parser!golden_price(m)
      /\ P["new_ref"] = IF c.type = "U" THEN Parser!Slice(m, 19, 26) ELSE Parser!Slice(m, 11, 18)
  BY <1>4
<1>7. \A f \in Parser!Fields : \A first, last \in Nat :
        first <= last /\ out[f] = P[f] /\ P[f] = Parser!Slice(m, first, last)
          => Number(f) = c[f]
  BY <1>1, FieldRead DEF P
<1>8. {"loc", "ref", "new_ref", "sh", "pr"} \subseteq Parser!Fields
  BY DEF Parser!Fields
<1> HIDE DEF k, c, m
<1>9. Number("loc") = c["loc"]
  BY <1>5, <1>6, <1>7, <1>8
<1>10. Number("ref") = c["ref"]
  BY <1>5, <1>6, <1>7, <1>8
<1>11. Number("new_ref") = c["new_ref"]
  BY <1>5, <1>6, <1>7, <1>8
<1>12. c.type # "D" => Number("sh") = c["sh"]
  <2>1. CASE c.type \in Parser!AddFields
    <3>1. Parser!golden_shares(m) = Parser!Slice(m, 20, 23)
      BY <1>2, <2>1 DEF Parser!golden_shares, Parser!AddFields
    <3> QED BY <1>5, <1>6, <1>7, <1>8, <2>1, <3>1 DEF Parser!AddFields
  <2>2. CASE c.type \in {"C", "X", "E"}
    <3>1. Parser!golden_shares(m) = Parser!Slice(m, 19, 22)
      BY <1>2, <2>2 DEF Parser!golden_shares, Parser!AddFields
    <3> QED BY <1>5, <1>6, <1>7, <1>8, <2>2, <3>1
  <2>3. CASE c.type = "U"
    <3>1. Parser!golden_shares(m) = Parser!Slice(m, 27, 30)
      BY <1>2, <2>3 DEF Parser!golden_shares, Parser!AddFields
    <3> QED BY <1>5, <1>6, <1>7, <1>8, <2>3, <3>1
  <2> QED BY <1>3, <2>1, <2>2, <2>3 DEF Kinds, Parser!Supported
<1>13. c.type \in {"A", "F", "U"} => Number("pr") = c["pr"]
  <2>1. CASE c.type \in {"A", "F"}
    <3>1. Parser!golden_price(m) = Parser!Slice(m, 32, 35)
      BY <1>2, <2>1 DEF Parser!golden_price, Parser!AddFields
    <3> QED BY <1>5, <1>6, <1>7, <1>8, <3>1
  <2>2. CASE c.type = "U"
    <3>1. Parser!golden_price(m) = Parser!Slice(m, 31, 34)
      BY <1>2, <2>2 DEF Parser!golden_price, Parser!AddFields
    <3> QED BY <1>5, <1>6, <1>7, <1>8, <3>1
  <2> QED BY <2>1, <2>2
<1>14. (IF out.side /\ out.type # "P" THEN "ask" ELSE "bid")
         = (IF c.type \in AddTypes THEN c.side ELSE "bid")
  BY <1>2, <1>3, <1>5 DEF Parser!AddFields, AddTypes, Side
<1>15. (IF out.type \in {"D", "P"} THEN 0 ELSE Number("sh"))
         = (IF c.type \in {"D", "P"} THEN 0 ELSE c.sh)
  BY <1>5, <1>12
<1>16. (IF out.type \in {"A", "F", "U"} THEN Number("pr") ELSE 0)
         = (IF c.type \in AddTypes \cup {"U"} THEN c.pr ELSE 0)
  BY <1>5, <1>13 DEF AddTypes
<1>17. BookMessage = AsDecoded(c)
  BY <1>5, <1>10, <1>11, <1>14, <1>15, <1>16 DEF BookMessage, AsDecoded
<1> QED BY <1>1, <1>9, <1>17 DEF c, k

(* What the books are offered: nothing, or the content of message Completed. *)
HeldIs ==
    HeldMessage = IF m_valid
                    THEN {[locate |-> stream[Completed].loc,
                           msg |-> AsDecoded(stream[Completed])]}
                    ELSE {}

LEMMA HeldMessageIs == PInv /\ Holding => HeldIs
PROOF BY HeldRead DEF HeldMessage, HeldIs

LEMMA NextHeldMessageIs == (PInv /\ Holding)' => HeldIs'
PROOF BY HeldMessageIs, PTL


-----------------------------------------------------------------------------
(* One edge of the parser and the DMA. *)

\* What an edge does to the message held: nothing is held, one is put on the
\* output, it waits for the books, or they take it.
NoneHeld  == ~m_valid /\ ~m_valid' /\ Completed' = Completed
Delivered == ~m_valid /\ m_valid' /\ Completed' = Completed + 1 /\ at >= 18
Waits     == /\ m_valid /\ m_valid' /\ ~Engine!engine_ready
             /\ Completed' = Completed /\ at' = 0
Released  == /\ m_valid /\ Engine!engine_ready /\ ~m_valid'
             /\ Completed' = Completed /\ at' <= 1

HeldEdge == NoneHeld \/ Delivered \/ Waits \/ Released

\* The day goes on, and what was sent of it stays.
Continues == /\ Len(stream') >= Len(stream)
             /\ \A k \in 1 .. Len(stream) : stream'[k] = stream[k]

LEMMA StallStep ==
  ASSUME PInv, Holding, lost' = lost, UNCHANGED bus, Parser!StallEdge(Engine!engine_ready)
  PROVE  PInv' /\ Holding' /\ Continues /\ (NoneHeld \/ Waits \/ Released)
PROOF
<1> DEFINE r == Engine!engine_ready
<1>1. /\ m_valid' = (m_valid /\ ~r) /\ out' = out
      /\ UNCHANGED <<byte_cnt, msg_type_r, sr, side_r, stream, cur, at>>
  BY DEF Parser!StallEdge, bus
<1>2. Completed' = Completed
  BY <1>1 DEF Completed
<1>3. m_valid \in BOOLEAN
  BY DEF PInv, Shifters
<1>4. PInv'
  <2>1. Streamed'
    BY <1>1 DEF PInv, Streamed
  <2>2. Shifters'
    BY <1>1, <1>3 DEF PInv, Shifters
  <2>3. InStep'
    BY <1>1 DEF PInv, InStep
  <2>4. Holds'
    BY <1>1 DEF PInv, Holds
  <2> QED BY <2>1, <2>2, <2>3, <2>4 DEF PInv
<1>5. Holding'
  BY <1>1, <1>2 DEF Holding
<1>6. Continues
  <2>1. Len(stream) \in Nat
    BY Counts
  <2> QED BY <1>1, <2>1 DEF Continues
<1>7. m_valid => at = 0
  BY DEF Holding
<1> HIDE DEF r
<1>8. CASE ~m_valid
  BY <1>1, <1>2, <1>4, <1>5, <1>6, <1>8 DEF NoneHeld
<1>9. CASE m_valid /\ r
  <2>1. ~m_valid' /\ at' <= 1
    <3>1. ~m_valid'
      BY <1>1, <1>9, Zenon
    <3>2. at' = 0
      BY <1>1, <1>7, <1>9, Zenon
    <3> QED BY <3>1, <3>2
  <2>2. Released
    BY <1>2, <1>9, <2>1 DEF Released, r
  <2> QED BY <1>4, <1>5, <1>6, <2>2
<1>10. CASE m_valid /\ ~r
  BY <1>1, <1>2, <1>4, <1>5, <1>6, <1>7, <1>10 DEF Waits, r
<1> QED BY <1>8, <1>9, <1>10

\* What every byte does to the shift registers.
LEMMA ShiftInRegisters ==
  ASSUME PInv, cur # Parser!NoMessage, Parser!ShiftIn
  PROVE  /\ DOMAIN sr' = Parser!Fields /\ \A f \in Parser!Fields : sr'[f] \in Register(f)
         /\ side_r' \in BOOLEAN /\ msg_type_r' = cur.type
PROOF
<1>1. sr' = Parser!nxt(Parser!Byte) /\ side_r' = Parser!side_nxt(Parser!Byte)
  BY DEF Parser!ShiftIn
<1>2. DOMAIN Parser!nxt(Parser!Byte) = Parser!Fields
  BY DEF Parser!nxt
<1>3. msg_type_r' = cur.type
  BY UnderWay DEF Parser!ShiftIn
<1> QED BY <1>1, <1>2, <1>3, NextRegisters, NextSide

LEMMA ShiftStep ==
  ASSUME PInv, Holding, lost' = lost, cur # Parser!NoMessage,
         Parser!tready(Engine!engine_ready), ~Parser!tlast,
         Parser!ShiftEdge(Engine!engine_ready),
         at' = at + 1, UNCHANGED <<stream, cur>>
  PROVE  PInv' /\ Holding' /\ Continues /\ (NoneHeld \/ Released)
PROOF
<1> DEFINE r == Engine!engine_ready
<1>1. /\ Parser!ShiftIn /\ byte_cnt' = (byte_cnt + 1) % 64
      /\ m_valid' = (m_valid /\ ~r) /\ ~(m_valid /\ ~r)
      /\ cur' = cur /\ stream' = stream
  BY DEF Parser!ShiftEdge, Parser!tready
<1>2. /\ DOMAIN sr' = Parser!Fields /\ \A f \in Parser!Fields : sr'[f] \in Register(f)
      /\ side_r' \in BOOLEAN /\ msg_type_r' = cur.type
  BY <1>1, ShiftInRegisters
<1>3. m_valid \in BOOLEAN /\ ~m_valid' /\ m_valid' \in BOOLEAN
  BY <1>1 DEF PInv, Shifters
<1>4. Completed' = Completed
  BY <1>1 DEF Completed
<1>5. Streamed'
  BY <1>1 DEF PInv, Streamed
<1>6. Shifters'
  BY <1>2, <1>3 DEF Shifters
<1>7. InStep'
  <2>1. /\ byte_cnt = at /\ at \in Nat /\ at < Parser!Length[cur.type]
        /\ Parser!Length[cur.type] \in 19 .. 44
    BY UnderWay
  <2>2. at # Parser!Length[cur.type] - 1
    BY DEF Parser!tlast
  <2>3. at + 1 < Parser!Length[cur.type] /\ (at + 1) % 64 = at + 1 /\ at + 1 \in Nat
    BY <2>1, <2>2
  <2> QED BY <1>1, <1>2, <2>1, <2>3 DEF InStep
<1>8. Holds'
  <2>1. \A f \in Parser!Fields :
          Has(cur.type, f) => Ends(Parser!nxt(Parser!Byte)[f], cur, f, at + 1)
    BY NextRegisters
  <2>2. at + 1 > 19 /\ cur.type \in Parser!AddFields => Parser!side_nxt(Parser!Byte) = cur.sell
    BY NextSide
  <2>3. sr' = Parser!nxt(Parser!Byte) /\ side_r' = Parser!side_nxt(Parser!Byte)
    BY <1>1 DEF Parser!ShiftIn
  <2> QED BY <1>1, <2>1, <2>2, <2>3 DEF Holds
<1>9. PInv'
  BY <1>5, <1>6, <1>7, <1>8 DEF PInv
<1>10. Holding'
  BY <1>3 DEF Holding
<1>11. Continues
  <2>1. Len(stream) \in Nat
    BY Counts
  <2> QED BY <1>1, <2>1 DEF Continues
<1>12. m_valid => at = 0
  BY DEF Holding
<1> HIDE DEF r
<1>13. CASE ~m_valid
  BY <1>3, <1>4, <1>9, <1>10, <1>11, <1>13 DEF NoneHeld
<1>14. CASE m_valid
  <2>1. r /\ at' <= 1
    BY <1>1, <1>12, <1>14
  <2> QED BY <1>3, <1>4, <1>9, <1>10, <1>11, <1>14, <2>1 DEF Released, r
<1> QED BY <1>13, <1>14

\* The next message of the day: a new one, or none.
LEMMA NextMessageStreamed ==
  ASSUME PInv, cur # Parser!NoMessage, NextMessage
  PROVE  /\ Streamed' /\ Continues /\ Completed' = Len(stream)
         /\ cur' # Parser!NoMessage => cur'.type \in Kinds
PROOF
<1>1. /\ stream \in Seq(Feed) /\ Len(stream) \in Nat \ {0}
      /\ \A j, k \in 1 .. Len(stream) : stream[j] = stream[k] => j = k
  BY Counts DEF PInv, Streamed
<1>2. CASE \E c \in Feed \ Sent : Starts(c)
  <2>1. PICK c \in Feed \ Sent : Starts(c)
    BY <1>2
  <2>2. stream' = Append(stream, c) /\ cur' = Numbered(Len(stream) + 1, c)
    BY <2>1 DEF Starts
  <2>3. \A k \in 1 .. Len(stream) : stream[k] # c
    BY <2>1 DEF Sent
  <2>4. /\ stream' \in Seq(Feed) /\ Len(stream') = Len(stream) + 1
        /\ stream'[Len(stream) + 1] = c
        /\ \A k \in 1 .. Len(stream) : stream'[k] = stream[k]
    BY <1>1, <2>1, <2>2
  <2>5. ASSUME NEW j \in 1 .. Len(stream'), NEW k \in 1 .. Len(stream'), stream'[j] = stream'[k]
        PROVE  j = k
    <3>1. /\ j = Len(stream) + 1 \/ (j \in 1 .. Len(stream) /\ stream'[j] = stream[j])
          /\ k = Len(stream) + 1 \/ (k \in 1 .. Len(stream) /\ stream'[k] = stream[k])
      BY <1>1, <2>4
    <3> QED BY <1>1, <2>3, <2>4, <2>5, <3>1
  <2>6. cur' # Parser!NoMessage /\ cur'.type \in Kinds
    BY <1>1, <2>1, <2>2, NumberedType
  <2>7. Streamed'
    BY <1>1, <2>2, <2>4, <2>5 DEF Streamed
  <2>8. Completed' = Len(stream)
    BY <1>1, <2>4, <2>6 DEF Completed
  <2>9. Continues
    BY <1>1, <2>4 DEF Continues
  <2> QED BY <2>6, <2>7, <2>8, <2>9
<1>3. CASE cur' = Parser!NoMessage /\ UNCHANGED stream
  <2>1. Streamed'
    BY <1>1, <1>3 DEF Streamed
  <2> QED BY <1>1, <1>3, <2>1 DEF Completed, Continues
<1> QED BY <1>2, <1>3 DEF NextMessage

LEMMA FinishStep ==
  ASSUME PInv, Holding, lost \in 0 .. Completed, lost' = lost, cur # Parser!NoMessage,
         Parser!tready(Engine!engine_ready), Parser!tlast,
         Parser!FinishEdge(Engine!engine_ready), at' = 0, NextMessage
  PROVE  PInv' /\ Holding' /\ Continues /\ Delivered
PROOF
<1>1. Parser!ShiftIn /\ byte_cnt' = 0
  BY DEF Parser!FinishEdge, Parser!NextCount
<1>2. /\ cur.type \in Kinds /\ at \in Nat /\ cur.id = Len(stream)
      /\ Parser!Length[cur.type] \in 19 .. 44 /\ (at > 0 => msg_type_r = cur.type)
  BY UnderWay
<1>3. at >= 18 /\ msg_type_r = cur.type
  <2> DEFINE L == Parser!Length[cur.type]
  <2>1. at = L - 1 /\ L \in 19 .. 44
    BY <1>2 DEF Parser!tlast
  <2> HIDE DEF L
  <2>2. at >= 18
    BY <1>2, <2>1
  <2> QED BY <1>2, <2>2
<1>4. m_valid' = TRUE /\ out' = Parser!Decoded(Parser!Byte)
  BY <1>2, <1>3 DEF Parser!FinishEdge, Parser!is_supported, Kinds
<1>5. ~m_valid
  BY <1>3 DEF Holding
<1>6. /\ DOMAIN sr' = Parser!Fields /\ \A f \in Parser!Fields : sr'[f] \in Register(f)
      /\ side_r' \in BOOLEAN
  BY <1>1, ShiftInRegisters
<1>7. /\ Streamed' /\ Continues /\ Completed' = Len(stream)
      /\ cur' # Parser!NoMessage => cur'.type \in Kinds
  BY NextMessageStreamed
<1>8. Shifters'
  BY <1>4, <1>6 DEF Shifters
<1>9. InStep'
  <2>1. CASE cur' = Parser!NoMessage
    BY <1>1, <2>1 DEF InStep
  <2>2. CASE cur' # Parser!NoMessage
    <3>1. Parser!Length[cur'.type] \in 19 .. 44
      BY <1>7, <2>2, LengthTable
    <3>2. 0 < Parser!Length[cur'.type]
      BY <3>1
    <3> QED BY <1>1, <2>2, <3>2 DEF InStep
  <2> QED BY <2>1, <2>2
<1>10. Holds'
  BY NothingYet DEF Holds
<1>11. PInv'
  BY <1>7, <1>8, <1>9, <1>10 DEF PInv
<1>12. /\ Len(stream) \in Nat \ {0} /\ Completed = Len(stream) - 1
       /\ cur = Numbered(Len(stream), stream[Len(stream)])
  BY Counts
<1>13. Holding'
  <2> DEFINE n == Completed'
  <2>1. n = Len(stream) /\ stream'[n] = stream[n] /\ n <= Len(stream') /\ n \in Nat \ {0}
    BY <1>7, <1>12 DEF Continues
  <2>2. cur = Numbered(n, stream'[n]) /\ cur.type \in Parser!Supported
    BY <1>2, <1>12, <2>1 DEF Kinds
  <2>3. out' = [Parser!parse_message(cur) EXCEPT !.sh = IF cur.type = "D" THEN out'.sh ELSE @]
    BY <1>4, <2>2, DecodedGolden
  <2>4. n \in 1 .. Len(stream') /\ lost < n
    <3>1. Len(stream') \in Nat
      BY <1>7 DEF Streamed
    <3> QED BY <1>12, <2>1, <3>1
  <2> HIDE DEF n
  <2>5. LET m == Numbered(n, stream'[n])
        IN  /\ at' = 0 /\ n \in 1 .. Len(stream') /\ lost' < n
            /\ out' = [Parser!parse_message(m) EXCEPT !.sh = IF m.type = "D" THEN out'.sh ELSE @]
    BY <2>2, <2>3, <2>4
  <2> QED BY <2>5 DEF Holding, n
<1>14. Delivered
  BY <1>3, <1>4, <1>5, <1>7, <1>12 DEF Delivered
<1> QED BY <1>7, <1>11, <1>13, <1>14

LEMMA FeedStep ==
  ASSUME PInv, Holding, lost \in 0 .. Completed, lost' = lost,
         NEW tvalid \in BOOLEAN, tvalid => cur # Parser!NoMessage,
         Parser!ParserEdge(tvalid, Engine!engine_ready), FeedEdge(tvalid)
  PROVE  PInv' /\ Holding' /\ Continues /\ HeldEdge
PROOF
<1> DEFINE taken == tvalid /\ Parser!tready(Engine!engine_ready)
<1>1. rx(tvalid) <=> taken
  BY DEF rx
<1>2. CASE ~taken
  <2>1. UNCHANGED bus /\ Parser!StallEdge(Engine!engine_ready)
    BY <1>1, <1>2 DEF FeedEdge, Parser!ParserEdge
  <2> QED BY <2>1, StallStep DEF HeldEdge
<1>3. CASE taken /\ ~Parser!tlast
  <2>1. /\ cur # Parser!NoMessage /\ Parser!tready(Engine!engine_ready)
        /\ Parser!ShiftEdge(Engine!engine_ready)
        /\ at' = at + 1 /\ UNCHANGED <<stream, cur>>
    BY <1>1, <1>3 DEF FeedEdge, Parser!ParserEdge
  <2> QED BY <1>3, <2>1, ShiftStep DEF HeldEdge
<1>4. CASE taken /\ Parser!tlast
  <2>1. /\ cur # Parser!NoMessage /\ Parser!tready(Engine!engine_ready)
        /\ Parser!FinishEdge(Engine!engine_ready)
        /\ at' = 0 /\ NextMessage
    BY <1>1, <1>4 DEF FeedEdge, Parser!ParserEdge
  <2> QED BY <1>4, <2>1, FinishStep DEF HeldEdge
<1> QED BY <1>2, <1>3, <1>4

-----------------------------------------------------------------------------
(* One edge of the books. *)

LEMMA BlankIsMessage == BlankMessage \in Message
PROOF
<1>1. 0 \in Size
  BY SizeModAssumption DEF Size
<1> QED BY <1>1 DEF BlankMessage, Message, MsgType, Side

\* What the edge of a book does to its state and to the slots in use.
LEMMA EdgeFills ==
  ASSUME NEW b, BookInv(b), NEW valid \in BOOLEAN, NEW msg \in Message
  PROVE  LET c == BookEdge(b, valid, msg)
         IN  /\ c.state = "LOOKUP" => /\ b.state = "IDLE" /\ valid
                                      /\ msg.type \in LookupTypes /\ c.m = msg
             /\ \A i \in c.entry_valid :
                  \/ i \in b.entry_valid
                  \/ /\ b.state = "IDLE" /\ valid
                     /\ msg.type \in AddTypes /\ i = Idx(msg.ref)
                  \/ b.state = "LOOKUP" /\ b.m.type = "U" /\ i = Idx(b.m.nref)
PROOF
<1>1. b \in Book /\ LookupFresh(b) /\ b.state \in {"IDLE", "LOOKUP", "RESCAN"}
  BY BookFields DEF BookInv
<1>2. CASE b.state = "IDLE" /\ ~valid
  <2>1. BookEdge(b, valid, msg) = b
    BY <1>2, Zenon DEF BookEdge
  <2> QED BY <1>2, <2>1
<1>3. CASE b.state = "IDLE" /\ valid
  <2>1. BookEdge(b, valid, msg) = IdleEdge(b, msg)
    BY <1>3, SMT DEF BookEdge
  <2>2. /\ Latched(b, msg) \in Book /\ Latched(b, msg).state = "IDLE"
        /\ Latched(b, msg).entry_valid = b.entry_valid /\ Latched(b, msg).m = msg
    <3>1. b.entries[Idx(msg.ref)] \in Entry
      BY <1>1, BookFields, MessageFields
    <3> QED BY <1>1, <1>3, <3>1 DEF Latched, Book
  <2> DEFINE L == Latched(b, msg)
  <2>3. L \in Book /\ L.state = "IDLE" /\ L.entry_valid = b.entry_valid /\ L.m = msg
    BY <2>2
  <2>4. CASE msg.type \in AddTypes
    <3>1. IdleEdge(b, msg) = AddEdge(b, msg)
      BY <2>4, SMT DEF IdleEdge, AddTypes, LookupTypes, ReduceTypes
    <3> DEFINE c == AddEdge(b, msg)
    <3>2. c = [L EXCEPT !.entries[Idx(msg.ref)] = EntryOf(msg),
                        !.entry_valid = @ \cup {Idx(msg.ref)},
                        !.lv = Inserted(@, msg.side, msg.price, msg.shares)]
      BY DEF AddEdge
    <3> HIDE DEF c, L
    <3>3. c.state = "IDLE" /\ c.entry_valid = b.entry_valid \cup {Idx(msg.ref)}
      BY <2>3, <3>2 DEF Book
    <3> QED BY <1>3, <2>1, <2>4, <3>1, <3>3 DEF c
  <2>5. CASE msg.type \in LookupTypes
    <3>1. IdleEdge(b, msg) = ReadEdge(b, msg)
      BY <2>5, SMT DEF IdleEdge, AddTypes, LookupTypes, ReduceTypes
    <3> DEFINE c == ReadEdge(b, msg)
    <3> HIDE DEF L
    <3>2. c = [L EXCEPT !.state = "LOOKUP"]
      BY DEF ReadEdge, L
    <3> HIDE DEF c
    <3>3. c.m = msg /\ c.entry_valid = b.entry_valid
      BY <2>3, <3>2 DEF Book
    <3> QED BY <1>3, <2>1, <2>5, <3>1, <3>3 DEF c
  <2>6. CASE msg.type \notin AddTypes /\ msg.type \notin LookupTypes
    <3>1. IdleEdge(b, msg) = L
      BY <2>6, SMT DEF IdleEdge, IgnoreEdge
    <3> HIDE DEF L
    <3> QED BY <2>1, <2>3, <3>1
  <2> QED BY <2>4, <2>5, <2>6
<1>4. CASE b.state = "LOOKUP"
  <2>1. BookEdge(b, valid, msg) = LookupEdge(b)
    BY <1>4, SMT DEF BookEdge
  <2> DEFINE S == {MissEdge(b), ReduceEdge(b), DeleteEdge(b)}
  <2>2. \A c \in S \cup {ReplaceEdge(b)} : c.state \in {"IDLE", "RESCAN"}
    BY <1>4, EditFields
  <2>3. /\ \A c \in S : c.entry_valid \subseteq b.entry_valid
        /\ ReplaceEdge(b).entry_valid \subseteq b.entry_valid \cup {Idx(b.m.nref)}
    <3>1. /\ MissEdge(b).entry_valid = b.entry_valid
          /\ DeleteEdge(b).entry_valid = b.entry_valid \ {Idx(b.m.ref)}
          /\ ReplaceEdge(b).entry_valid = (b.entry_valid \ {Idx(b.m.ref)}) \cup {Idx(b.m.nref)}
      BY <1>4, EditFields
    <3>2. \/ ReduceEdge(b).entry_valid = b.entry_valid
          \/ ReduceEdge(b) = DeleteEdge(b)
      BY <1>4, EditFields
    <3> QED BY <3>1, <3>2
  <2>4. \/ LookupEdge(b) \in S
        \/ LookupEdge(b) = ReplaceEdge(b) /\ b.m.type = "U"
    <3>1. b.m.type \in LookupTypes
      BY <1>1, <1>4 DEF LookupFresh
    <3>2. CASE ~lk_match(b)
      BY <3>2, SMT DEF LookupEdge
    <3>3. CASE lk_match(b) /\ b.m.type \in ReduceTypes
      BY <3>3, SMT DEF LookupEdge, ReduceTypes
    <3>4. CASE lk_match(b) /\ b.m.type = "D"
      BY <3>4, SMT DEF LookupEdge, ReduceTypes
    <3>5. CASE lk_match(b) /\ b.m.type = "U"
      BY <3>5, SMT DEF LookupEdge, ReduceTypes
    <3> QED BY <3>1, <3>2, <3>3, <3>4, <3>5 DEF LookupTypes
  <2> DEFINE c == LookupEdge(b)
  <2> HIDE DEF S, c
  <2>5. c.state # "LOOKUP"
    BY <2>2, <2>4 DEF c
  <2>6. \A i \in c.entry_valid :
          i \in b.entry_valid \/ (b.m.type = "U" /\ i = Idx(b.m.nref))
    BY <2>3, <2>4 DEF c
  <2> QED BY <1>4, <2>1, <2>5, <2>6 DEF c
<1>5. CASE b.state = "RESCAN"
  BY <1>1, <1>5, BookEdgeRescan
<1> QED BY <1>1, <1>2, <1>3, <1>4, <1>5

\* What the card does at an edge, and at a reset.
LEMMA EdgeParts ==
  ASSUME Edge
  PROVE  /\ \E tvalid \in BOOLEAN :
              /\ tvalid => cur # Parser!NoMessage
              /\ Parser!ParserEdge(tvalid, Engine!engine_ready) /\ FeedEdge(tvalid)
         /\ EngineEdge /\ PathEdge(FALSE) /\ Remember /\ lost' = lost
PROOF
<1>1. CASE Byte
  BY <1>1 DEF Byte, TopEdge
<1>2. CASE Pause
  BY <1>2 DEF Pause, TopEdge
<1> QED BY <1>1, <1>2 DEF Edge

(* The book of the message held is offered it, the others nothing. *)
Offered(s) == m_valid /\ SymOf(stream[Completed].loc) = s

LEMMA BooksOffered ==
  ASSUME HeldIs, EngineEdge
  PROVE  /\ books' = [s \in Sym |-> books'[s]]
         /\ \A s \in Sym :
              books'[s] = IF Offered(s)
                            THEN BookEdge(books[s], TRUE, AsDecoded(stream[Completed]))
                            ELSE BookEdge(books[s], FALSE, BlankMessage)
PROOF
<1> DEFINE h == [locate |-> stream[Completed].loc, msg |-> AsDecoded(stream[Completed])]
<1>1. HeldMessage = IF m_valid THEN {h} ELSE {}
  BY DEF HeldIs
<1>2. /\ h.locate = stream[Completed].loc
      /\ h.msg = AsDecoded(stream[Completed])
  OBVIOUS
<1> HIDE DEF h
<1>3. books' = Engine!EveryBookEdge
  BY DEF EngineEdge
<1>4. ASSUME NEW s \in Sym, Offered(s)
      PROVE  books'[s] = BookEdge(books[s], TRUE, AsDecoded(stream[Completed]))
  <2>1. HeldMessage = {h} /\ Engine!SymOf(h.locate) = s
    BY <1>1, <1>2, <1>4 DEF Offered, SymOf
  <2>2. Engine!Presented(s) /\ Engine!Selected(s) = h
    BY <2>1 DEF Engine!Presented, Engine!Selected
  <2>3. books'[s] = Engine!BookEdge(books[s], TRUE, Engine!Selected(s).msg)
    BY <1>3, <2>2 DEF Engine!EveryBookEdge, Sym
  <2> QED BY <1>2, <2>2, <2>3, EngineBook
<1>5. ASSUME NEW s \in Sym, ~Offered(s)
      PROVE  books'[s] = BookEdge(books[s], FALSE, BlankMessage)
  <2>1. ~Engine!Presented(s)
    BY <1>1, <1>2, <1>5 DEF Offered, SymOf, Engine!Presented
  <2>2. books'[s] = Engine!BookEdge(books[s], FALSE, Engine!BlankMessage)
    BY <1>3, <2>1 DEF Engine!EveryBookEdge, Sym
  <2> QED BY <2>2, EngineBook, EngineTypes
<1>6. books' = [s \in Sym |-> books'[s]]
  BY <1>3 DEF Engine!EveryBookEdge, Sym
<1> QED BY <1>4, <1>5, <1>6

LEMMA ReadyIs == Engine!engine_ready <=> \A s \in Sym : msg_ready(books[s])
PROOF BY EngineBook DEF Engine!engine_ready, Sym

\* A message that is not taken by all at once is taken by its own book, when
\* that one is idle.
LEMMA CrossesIs ==
  ASSUME HeldIs
  PROVE  Engine!Crosses <=> /\ m_valid /\ ~Engine!engine_ready
                     /\ msg_ready(books[SymOf(stream[Completed].loc)])
PROOF
<1> DEFINE h == [locate |-> stream[Completed].loc, msg |-> AsDecoded(stream[Completed])]
<1>1. HeldMessage = IF m_valid THEN {h} ELSE {}
  BY DEF HeldIs
<1>2. h.locate = stream[Completed].loc
  OBVIOUS
<1> HIDE DEF h
<1>3. (\E x \in HeldMessage : msg_ready(books[SymOf(x.locate)]))
        <=> m_valid /\ msg_ready(books[SymOf(h.locate)])
  BY <1>1
<1> QED BY <1>2, <1>3, EngineBook DEF Engine!Crosses, SymOf

-----------------------------------------------------------------------------
(* The card as a whole: the parser and the message it holds, the books, and   *)
(* which messages they have taken.                                            *)

\* The messages that some book may have taken: those accepted, and once a
\* message has waited for another book the one held as well.
Taken == IF crossed THEN Completed ELSE Accepted

BooksOK == /\ books \in [Sym -> Book] /\ \A s \in Sym : BookInv(books[s])
           /\ active_sym \in Sym /\ crossed \in BOOLEAN

(* A book that looks up has the content of a message of its symbol, and was   *)
(* given it when the first byte of the next one could come in at the earliest. *)
Looking == \A s \in Sym : books[s].state = "LOOKUP" =>
             /\ at <= 1
             /\ \E k \in 1 .. Taken : /\ SymOf(stream[k].loc) = s
                                      /\ books[s].m = AsDecoded(stream[k])

\* A slot is in use by an order that a message of its symbol created.
Filled == \A s \in Sym : \A i \in books[s].entry_valid :
            \E k \in 1 .. Taken : /\ Creates(stream[k]) /\ SymOf(stream[k].loc) = s
                                  /\ Idx(stream[k].new_ref) = i

EInv == /\ PInv /\ Holding /\ lost \in 0 .. Completed
        /\ BooksOK /\ Looking /\ Filled

LEMMA DecodedContent ==
  ASSUME NEW c \in Feed
  PROVE  LET m == AsDecoded(c)
         IN  /\ m \in Messages /\ m \in Message
             /\ m.type = c.type /\ m.ref = c.ref /\ m.nref = c.new_ref
             /\ c.type \in AddTypes => m \in AddMessages /\ m.ref = c.new_ref
             /\ c.type \in LookupTypes => m \in LookupMessages
PROOF
<1> DEFINE m == AsDecoded(c)
<1>1. m \in Messages
  BY CardAssumption
<1>2. m.type = c.type /\ m.ref = c.ref /\ m.nref = c.new_ref
  BY DEF AsDecoded, Msg
<1> HIDE DEF m
<1>3. /\ m \in Message /\ m.type \in AddTypes => m \in AddMessages
      /\ m.type \in LookupTypes => m \in LookupMessages
  BY <1>1, MessageOfFeed
<1>4. m \in AddMessages => m.ref = m.nref
  BY DEF AddMessages, Msg
<1>5. m \in Message
  BY <1>1, MessageOfFeed
<1> QED BY <1>1, <1>2, <1>3, <1>4, <1>5 DEF m

LEMMA CountType == PInv => Completed \in Nat
PROOF BY Counts

LEMMA NextCount == PInv' => (Completed \in Nat)'
PROOF BY CountType, PTL

LEMMA TakenType ==
  ASSUME PInv, Holding, crossed \in BOOLEAN
  PROVE  /\ Accepted \in 0 .. Completed /\ Taken \in 0 .. Completed
         /\ Accepted = IF m_valid THEN Completed - 1 ELSE Completed
PROOF
<1>1. Completed \in Nat /\ (m_valid => Completed >= 1)
  BY Counts DEF Holding
<1> QED BY <1>1 DEF Accepted, Taken

\* What was taken stays, and what a book takes at this edge is taken.
LEMMA TakenOn ==
  ASSUME PInv, Holding, (PInv /\ Holding)', Continues, HeldEdge,
         crossed \in BOOLEAN, crossed' = (crossed \/ Engine!Crosses), HeldIs
  PROVE  /\ \A k \in 1 .. Taken : k \in 1 .. Taken' /\ stream'[k] = stream[k]
         /\ \A s \in Sym : Offered(s) /\ books[s].state = "IDLE"
                             => /\ Completed \in 1 .. Taken'
                                /\ stream'[Completed] = stream[Completed]
         /\ Completed' >= Completed
PROOF
<1>1. /\ Completed \in 0 .. Len(stream) /\ Len(stream) \in Nat
      /\ m_valid => Completed >= 1
      /\ m_valid \in BOOLEAN
  BY Counts DEF Holding, PInv, Shifters
<1>2. Accepted = IF m_valid THEN Completed - 1 ELSE Completed
  BY DEF Accepted
<1>3. Accepted' = IF m_valid' THEN Completed' - 1 ELSE Completed'
  BY DEF Accepted
<1>4. Taken = (IF crossed THEN Completed ELSE Accepted)
      /\ Taken' = IF crossed' THEN Completed' ELSE Accepted'
  BY DEF Taken
<1>5. \/ Completed' = Completed
      \/ Completed' = Completed + 1
  BY DEF HeldEdge, NoneHeld, Delivered, Waits, Released
<1>6. Accepted' >= Accepted
  BY <1>1, <1>2, <1>3 DEF HeldEdge, NoneHeld, Delivered, Waits, Released
<1>7. crossed => crossed'
  OBVIOUS
<1>8. Completed' >= Accepted
  BY <1>1, <1>2, <1>5
<1>9. Taken' >= Taken /\ Taken \in 0 .. Completed /\ Taken' \in Nat
  BY <1>1, <1>2, <1>3, <1>4, <1>5, <1>6, <1>7, <1>8
<1>10. ASSUME NEW s \in Sym, Offered(s), books[s].state = "IDLE"
       PROVE  /\ Completed \in 1 .. Taken'
              /\ stream'[Completed] = stream[Completed]
  <2>1. m_valid /\ SymOf(stream[Completed].loc) = s /\ Completed \in 1 .. Len(stream)
    BY <1>1, <1>10 DEF Offered
  <2>2. stream'[Completed] = stream[Completed]
    BY <2>1 DEF Continues
  <2>3. CASE Engine!engine_ready
    <3>1. Released
      BY <2>1, <2>3 DEF HeldEdge, NoneHeld, Delivered, Waits
    <3>2. Taken' = Completed
      BY <1>3, <1>4, <3>1 DEF Released
    <3> QED BY <2>1, <2>2, <3>2
  <2>4. CASE ~Engine!engine_ready
    <3>1. Engine!Crosses
      BY <1>10, <2>1, <2>4, CrossesIs DEF msg_ready
    <3>2. Waits
      BY <2>1, <2>4 DEF HeldEdge, NoneHeld, Delivered, Released
    <3>3. Taken' = Completed
      BY <1>4, <3>1, <3>2 DEF Waits
    <3> QED BY <2>1, <2>2, <3>3
  <2> QED BY <2>3, <2>4
<1>11. ASSUME NEW k \in 1 .. Taken
       PROVE  k \in 1 .. Taken' /\ stream'[k] = stream[k]
  <2>1. k \in 1 .. Len(stream) /\ k \in 1 .. Taken'
    BY <1>1, <1>9
  <2> QED BY <2>1 DEF Continues
<1>12. Completed' >= Completed
  BY <1>1, <1>5
<1> QED BY <1>10, <1>11, <1>12

LEMMA InitEInv == Init => EInv
PROOF
<1> SUFFICES ASSUME Init PROVE EInv
  OBVIOUS
<1>1. PICK c \in Feed : stream = <<c>> /\ cur = Numbered(1, c)
  BY DEF Init
<1>2. /\ at = 0 /\ lost = 0 /\ crossed = FALSE /\ active_sym = 0
      /\ books = [s \in Engine!Sym |-> InitBook]
      /\ Parser!InitRegisters
  BY DEF Init, InitTop
<1>3. /\ byte_cnt = 0 /\ side_r = FALSE /\ m_valid = FALSE
      /\ sr = [f \in Parser!Fields |-> Parser!Zeros(Parser!Width[f])]
  BY <1>2 DEF Parser!InitRegisters
<1>4. /\ Len(stream) = 1 /\ stream[1] = c /\ stream \in Seq(Feed)
  BY <1>1
<1>5. cur.type \in Kinds /\ cur # Parser!NoMessage
  BY <1>1, NumberedType
<1>6. PInv
  <2>1. Streamed
    BY <1>1, <1>4 DEF Streamed
  <2>2. Shifters
    BY <1>3, ZerosRegister DEF Shifters
  <2>3. InStep
    <3>1. Parser!Length[cur.type] \in 19 .. 44
      BY <1>5, LengthTable
    <3>2. 0 < Parser!Length[cur.type]
      BY <3>1
    <3> QED BY <1>2, <1>3, <1>5, <3>2 DEF InStep
  <2>4. Holds
    BY <1>2, NothingYet DEF Holds
  <2> QED BY <2>1, <2>2, <2>3, <2>4 DEF PInv
<1>7. Holding
  BY <1>3 DEF Holding
<1>8. lost \in 0 .. Completed
  <2>1. Completed \in 0 .. Len(stream)
    BY <1>6, Counts
  <2> QED BY <1>2, <1>4, <2>1
<1> DEFINE B == InitBook
<1>9. BookInv(B) /\ B \in Book /\ B.state = "IDLE" /\ B.entry_valid = {}
  BY InitBookInv DEF BookInv, InitBook
<1>10. books = [s \in Sym |-> B]
  BY <1>2 DEF Sym
<1> HIDE DEF B
<1>11. BooksOK
  <2>1. 0 \in Sym
    BY CardAssumption DEF Sym, Engine!Sym
  <2> QED BY <1>2, <1>9, <1>10, <2>1 DEF BooksOK
<1>12. Looking /\ Filled
  BY <1>9, <1>10 DEF Looking, Filled
<1> QED BY <1>6, <1>7, <1>8, <1>11, <1>12 DEF EInv

\* The parser and the held message at an edge.
LEMMA EdgeFeed ==
  ASSUME EInv, Edge
  PROVE  /\ (PInv /\ Holding)' /\ Continues /\ HeldEdge /\ HeldIs /\ HeldIs'
         /\ EngineEdge /\ crossed' = (crossed \/ Engine!Crosses) /\ lost' = lost
PROOF
<1>1. PInv /\ Holding /\ lost \in 0 .. Completed
  BY DEF EInv
<1>2. EngineEdge /\ crossed' = (crossed \/ Engine!Crosses) /\ lost' = lost
  BY EdgeParts DEF Remember
<1>3. PICK tvalid \in BOOLEAN :
        /\ tvalid => cur # Parser!NoMessage
        /\ Parser!ParserEdge(tvalid, Engine!engine_ready) /\ FeedEdge(tvalid)
  BY EdgeParts
<1>4. PInv' /\ Holding' /\ Continues /\ HeldEdge
  BY <1>1, <1>2, <1>3, FeedStep
<1>5. HeldIs
  BY <1>1, HeldMessageIs
<1>6. HeldIs'
  BY <1>4, NextHeldMessageIs
<1> QED BY <1>2, <1>4, <1>5, <1>6

\* What each book does, and on what.
LEMMA EdgeBook ==
  ASSUME EInv, Edge, NEW s \in Sym
  PROVE  \E valid \in BOOLEAN, msg \in Message :
           /\ books'[s] = BookEdge(books[s], valid, msg) /\ (valid <=> Offered(s))
           /\ Offered(s) => /\ msg = AsDecoded(stream[Completed])
                            /\ stream[Completed] \in Feed
                            /\ Completed \in 1 .. Len(stream)
PROOF
<1>1. HeldIs /\ EngineEdge
  BY EdgeFeed
<1>2. CASE Offered(s)
  <2>1. stream[Completed] \in Feed /\ Completed \in 1 .. Len(stream)
    BY <1>2, HeldRead DEF EInv, Offered
  <2>2. AsDecoded(stream[Completed]) \in Message
    BY <2>1, DecodedContent
  <2>3. books'[s] = BookEdge(books[s], TRUE, AsDecoded(stream[Completed]))
    BY <1>1, <1>2, BooksOffered
  <2> QED BY <1>2, <2>1, <2>2, <2>3
<1>3. CASE ~Offered(s)
  <2>1. books'[s] = BookEdge(books[s], FALSE, BlankMessage)
    BY <1>1, <1>3, BooksOffered
  <2> QED BY <1>3, <2>1, BlankIsMessage
<1> QED BY <1>2, <1>3

LEMMA EdgeEInv == ASSUME EInv, Edge PROVE EInv'
PROOF
<1>1. /\ PInv /\ Holding /\ lost \in 0 .. Completed /\ BooksOK /\ Looking /\ Filled
  BY DEF EInv
<1>2. /\ (PInv /\ Holding)' /\ Continues /\ HeldEdge /\ HeldIs /\ HeldIs'
      /\ EngineEdge /\ crossed' = (crossed \/ Engine!Crosses) /\ lost' = lost
  BY EdgeFeed
<1>3. /\ books \in [Sym -> Book] /\ \A s \in Sym : BookInv(books[s])
      /\ active_sym \in Sym /\ crossed \in BOOLEAN
  BY <1>1 DEF BooksOK
<1>4. /\ \A k \in 1 .. Taken : k \in 1 .. Taken' /\ stream'[k] = stream[k]
      /\ \A s \in Sym : Offered(s) /\ books[s].state = "IDLE"
                          => /\ Completed \in 1 .. Taken'
                             /\ stream'[Completed] = stream[Completed]
      /\ Completed' >= Completed
  BY <1>1, <1>2, <1>3, TakenOn
<1>5. lost' \in 0 .. Completed'
  <2>1. Completed \in Nat /\ Completed' \in Nat
    BY <1>1, <1>2, Counts, NextCount
  <2> QED BY <1>1, <1>2, <1>4, <2>1
<1>6. ASSUME NEW s \in Sym
      PROVE  /\ BookInv(books'[s])
             /\ books'[s].state = "LOOKUP" =>
                  /\ at' <= 1
                  /\ \E k \in 1 .. Taken' : /\ SymOf(stream'[k].loc) = s
                                            /\ books'[s].m = AsDecoded(stream'[k])
             /\ \A i \in books'[s].entry_valid :
                  \E k \in 1 .. Taken' : /\ Creates(stream'[k]) /\ SymOf(stream'[k].loc) = s
                                         /\ Idx(stream'[k].new_ref) = i
  <2>1. PICK valid \in BOOLEAN, msg \in Message :
           /\ books'[s] = BookEdge(books[s], valid, msg) /\ (valid <=> Offered(s))
           /\ Offered(s) => /\ msg = AsDecoded(stream[Completed])
                            /\ stream[Completed] \in Feed
                            /\ Completed \in 1 .. Len(stream)
    BY EdgeBook
  <2> DEFINE b == books[s]  c == BookEdge(b, valid, msg)
  <2>2. BookInv(b)
    BY <1>3
  <2> HIDE DEF b
  <2>3. /\ BookInv(c)
        /\ c.state = "LOOKUP" => /\ b.state = "IDLE" /\ valid
                                 /\ msg.type \in LookupTypes /\ c.m = msg
        /\ \A i \in c.entry_valid :
             \/ i \in b.entry_valid
             \/ b.state = "IDLE" /\ valid /\ msg.type \in AddTypes /\ i = Idx(msg.ref)
             \/ b.state = "LOOKUP" /\ b.m.type = "U" /\ i = Idx(b.m.nref)
    BY <2>2, BookEdgeInv, EdgeFills
  <2>4. c = books'[s]
    BY <2>1 DEF b
  <2> HIDE DEF c
  <2>5. valid /\ b.state = "IDLE" =>
          /\ Completed \in 1 .. Taken' /\ stream'[Completed] = stream[Completed]
          /\ SymOf(stream[Completed].loc) = s /\ m_valid
    BY <1>4, <2>1 DEF b, Offered
  <2>6. ASSUME c.state = "LOOKUP"
        PROVE  /\ at' <= 1
               /\ \E k \in 1 .. Taken' : /\ SymOf(stream'[k].loc) = s
                                         /\ c.m = AsDecoded(stream'[k])
    <3>1. valid /\ b.state = "IDLE" /\ c.m = msg
      BY <2>3, <2>6
    <3>2. at' <= 1
      BY <1>2, <2>5, <3>1 DEF HeldEdge, NoneHeld, Delivered, Waits, Released
    <3> QED BY <2>1, <2>5, <3>1, <3>2
  <2>7. ASSUME NEW i \in c.entry_valid
        PROVE  \E k \in 1 .. Taken' : /\ Creates(stream'[k]) /\ SymOf(stream'[k].loc) = s
                                      /\ Idx(stream'[k].new_ref) = i
    <3>1. CASE i \in b.entry_valid
      <4>1. PICK k \in 1 .. Taken : /\ Creates(stream[k]) /\ SymOf(stream[k].loc) = s
                                    /\ Idx(stream[k].new_ref) = i
        BY <1>1, <3>1 DEF Filled, b
      <4> QED BY <1>4, <4>1
    <3>2. CASE b.state = "IDLE" /\ valid /\ msg.type \in AddTypes /\ i = Idx(msg.ref)
      <4>1. /\ msg = AsDecoded(stream[Completed]) /\ stream[Completed] \in Feed
        BY <2>1, <3>2
      <4>2. Creates(stream[Completed]) /\ msg.ref = stream[Completed].new_ref
        BY <3>2, <4>1, DecodedContent DEF Creates
      <4> QED BY <2>5, <3>2, <4>2
    <3>3. CASE b.state = "LOOKUP" /\ b.m.type = "U" /\ i = Idx(b.m.nref)
      <4>1. PICK k \in 1 .. Taken : /\ SymOf(stream[k].loc) = s
                                    /\ b.m = AsDecoded(stream[k])
        BY <1>1, <3>3 DEF Looking, b
      <4>2. stream[k] \in Feed
        <5>1. Taken \in 0 .. Len(stream) /\ Len(stream) \in Nat
          BY <1>1, <1>3, Counts, TakenType
        <5>2. k \in 1 .. Len(stream)
          BY <5>1
        <5> QED BY <1>1, <5>2, Counts
      <4>3. Creates(stream[k]) /\ b.m.nref = stream[k].new_ref
        BY <3>3, <4>1, <4>2, DecodedContent DEF Creates
      <4> QED BY <1>4, <3>3, <4>1, <4>3
    <3> QED BY <2>3, <3>1, <3>2, <3>3
  <2> QED BY <2>3, <2>4, <2>6, <2>7
<1>7. BooksOK'
  <2>1. books' = [s \in Sym |-> books'[s]]
    BY <1>2, BooksOffered
  <2>2. \A s \in Sym : books'[s] \in Book
    BY <1>6 DEF BookInv
  <2>3. active_sym' \in Sym
    <3>1. CASE m_valid /\ Engine!engine_ready
      <4>1. active_sym' = SymOf(stream[Completed].loc) /\ stream[Completed] \in Feed
        BY <1>1, <3>1, HeldRead, <1>2 DEF EngineEdge, SymOf
      <4> QED BY <4>1, Content1
    <3>2. CASE ~(m_valid /\ Engine!engine_ready)
      BY <1>2, <1>3, <3>2 DEF EngineEdge
    <3> QED BY <3>1, <3>2
  <2>4. crossed' \in BOOLEAN
    BY <1>2 DEF Engine!Crosses
  <2>5. books' \in [Sym -> Book]
    BY <2>1, <2>2
  <2> QED BY <1>6, <2>3, <2>4, <2>5 DEF BooksOK
<1>8. Looking' /\ Filled'
  BY <1>6 DEF Looking, Filled
<1> QED BY <1>2, <1>5, <1>7, <1>8 DEF EInv

LEMMA ResetEInv == ASSUME EInv, Reset PROVE EInv'
PROOF
<1>1. /\ PInv /\ Holding /\ BooksOK
  BY DEF EInv
<1>2. /\ Parser!ResetEdge /\ active_sym' = 0
      /\ books' = [s \in Sym |-> ResetEdge(books[s])]
      /\ lost' = Completed /\ at' = 0 /\ crossed' = FALSE /\ stream' = stream /\ cur' = cur
  BY DEF Reset, TopReset, Sym
<1>3. /\ byte_cnt' = 0 /\ side_r' = FALSE /\ m_valid' = FALSE
      /\ sr' = [f \in Parser!Fields |-> Parser!Zeros(Parser!Width[f])]
  BY <1>2 DEF Parser!ResetEdge
<1>4. PInv'
  <2>1. Streamed'
    BY <1>1, <1>2 DEF PInv, Streamed
  <2>2. Shifters'
    BY <1>3, ZerosRegister DEF Shifters
  <2>3. InStep'
    <3>1. CASE cur = Parser!NoMessage
      BY <1>2, <1>3, <3>1 DEF InStep
    <3>2. CASE cur # Parser!NoMessage
      <4>1. Parser!Length[cur.type] \in 19 .. 44
        BY <1>1, <3>2, UnderWay
      <4>2. 0 < Parser!Length[cur.type]
        BY <4>1
      <4> QED BY <1>2, <1>3, <3>2, <4>2 DEF InStep
    <3> QED BY <3>1, <3>2
  <2>4. Holds'
    BY <1>2, NothingYet DEF Holds
  <2> QED BY <2>1, <2>2, <2>3, <2>4 DEF PInv
<1>5. Holding'
  BY <1>3 DEF Holding
<1>6. lost' \in 0 .. Completed'
  <2>1. Completed' = Completed /\ Completed \in Nat
    BY <1>1, <1>2, Counts DEF Completed
  <2> QED BY <1>2, <2>1
<1>7. ASSUME NEW s \in Sym
      PROVE  /\ BookInv(books'[s]) /\ books'[s].state = "IDLE" /\ books'[s].entry_valid = {}
  <2> DEFINE b == books[s]
  <2>1. BookInv(b) /\ b \in Book /\ books'[s] = ResetEdge(b)
    BY <1>1, <1>2 DEF BooksOK
  <2> HIDE DEF b
  <2>2. BookInv(ResetEdge(b))
    BY <2>1, ResetEdgeInv
  <2>3. ResetEdge(b).state = "IDLE" /\ ResetEdge(b).entry_valid = {}
    BY <2>1 DEF ResetEdge, Book
  <2> QED BY <2>1, <2>2, <2>3
<1>8. BooksOK'
  <2>1. \A s \in Sym : books'[s] \in Book
    BY <1>7 DEF BookInv
  <2>2. books' \in [Sym -> Book]
    BY <1>2, <2>1
  <2>3. 0 \in Sym
    BY CardAssumption DEF Sym, Engine!Sym
  <2> QED BY <1>2, <1>7, <2>2, <2>3 DEF BooksOK
<1>9. Looking' /\ Filled'
  BY <1>7 DEF Looking, Filled
<1> QED BY <1>4, <1>5, <1>6, <1>8, <1>9 DEF EInv

LEMMA NextEInv == EInv /\ [Next]_vars => EInv'
PROOF
<1> SUFFICES ASSUME EInv, [Next]_vars PROVE EInv'
  OBVIOUS
<1>1. CASE Edge
  BY <1>1, EdgeEInv
<1>2. CASE Reset
  BY <1>2, ResetEInv
<1>3. CASE UNCHANGED vars
  <2>1. /\ UNCHANGED <<byte_cnt, msg_type_r, sr, side_r, m_valid, out>>
        /\ UNCHANGED <<books, active_sym, stream, cur, at, lost, crossed>>
    BY <1>3 DEF vars, card, parser, engine, bus
  <2>2. PInv'
    BY <2>1 DEF EInv, PInv, Streamed, Shifters, InStep, Holds
  <2>3. Completed' = Completed /\ Taken' = Taken
    BY <2>1 DEF Completed, Accepted, Taken
  <2>4. Holding'
    BY <2>1, <2>3 DEF EInv, Holding
  <2>5. BooksOK' /\ Looking' /\ Filled' /\ lost' \in 0 .. Completed'
    BY <2>1, <2>3 DEF EInv, BooksOK, Looking, Filled
  <2> QED BY <2>2, <2>4, <2>5 DEF EInv
<1> QED BY <1>1, <1>2, <1>3 DEF Next

LEMMA SpecEInv == Spec => []EInv
PROOF BY InitEInv, NextEInv, PTL DEF Spec

-----------------------------------------------------------------------------
(* The books are used as MultiSymbolBook assumes. *)

\* The message delivered finds its slot free: it was created by no other one.
LEMMA DeliveredFits ==
  ASSUME SlotPerOrder, EInv, Edge, Delivered
  PROVE  LET c == stream'[Completed']
             b == books[SymOf(c.loc)]
         IN  c \in Feed /\ SlotFree(b, AsDecoded(c))
PROOF
<1> DEFINE n == Completed'  c == stream'[n]  b == books[SymOf(c.loc)]  m == AsDecoded(c)
<1>1. PInv /\ Holding /\ BooksOK /\ Filled /\ m_valid' /\ n = Completed + 1
  BY DEF EInv, Delivered
<1>2. (PInv /\ Holding)' /\ Continues
  BY EdgeFeed
<1>3. /\ c \in Feed /\ n \in 1 .. Len(stream') /\ Len(stream') \in Nat
      /\ \A j, k \in 1 .. Len(stream') : stream'[j] = stream'[k] => j = k
  <2>1. Streamed' /\ n \in 1 .. Len(stream')
    BY <1>1, <1>2 DEF PInv, Holding
  <2> HIDE DEF n
  <2>2. stream' \in Seq(Feed) /\ Len(stream') \in Nat
    BY <2>1 DEF Streamed
  <2> QED BY <2>1, <2>2 DEF Streamed
<1>4. SymOf(c.loc) \in Sym
  BY <1>3, Content1
<1>5. ~Creates(c) => m.type \notin AddTypes /\ m.type # "U"
  BY <1>3, DecodedContent DEF Creates
<1>6. ASSUME Creates(c), NEW i \in b.entry_valid
      PROVE  i # Idx(c.new_ref)
  <2>1. PICK k \in 1 .. Taken : /\ Creates(stream[k]) /\ SymOf(stream[k].loc) = SymOf(c.loc)
                                /\ Idx(stream[k].new_ref) = i
    BY <1>1, <1>4 DEF Filled
  <2>2. Taken \in 0 .. Completed /\ Completed \in 0 .. Len(stream) /\ Len(stream) \in Nat
    BY <1>1, Counts, TakenType DEF BooksOK
  <2>3. k \in 1 .. Len(stream) /\ k # n
    BY <1>1, <2>2
  <2>4. stream'[k] = stream[k] /\ stream[k] \in Feed /\ k \in 1 .. Len(stream')
    <3>1. Len(stream) <= Len(stream') /\ stream'[k] = stream[k]
      BY <1>2, <2>3 DEF Continues
    <3> QED BY <1>1, <1>3, <2>2, <2>3, <3>1, Counts
  <2>5. stream[k] # c
    BY <1>3, <2>3, <2>4
  <2> HIDE DEF c
  <2>6. Idx(stream[k].new_ref) # Idx(c.new_ref)
    BY <1>3, <1>6, <2>1, <2>4, <2>5 DEF SlotPerOrder, SymOf
  <2> QED BY <2>1, <2>6
<1>7. SlotFree(b, m)
  <2>1. m.type = c.type /\ m.nref = c.new_ref /\ (c.type \in AddTypes => m.ref = c.new_ref)
    BY <1>3, DecodedContent
  <2> HIDE DEF b, c, m
  <2>2. CASE m.type \in AddTypes
    <3>1. Creates(c) /\ Idx(m.ref) = Idx(c.new_ref)
      BY <2>1, <2>2 DEF Creates
    <3>2. Idx(m.ref) \notin b.entry_valid
      BY <1>6, <3>1
    <3> QED BY <2>2, <3>2, SMT DEF SlotFree, AddTypes
  <2>3. CASE m.type = "U"
    <3>1. Creates(c) /\ Idx(m.nref) = Idx(c.new_ref)
      BY <2>1, <2>3 DEF Creates
    <3>2. Idx(m.nref) \notin b.entry_valid
      BY <1>6, <3>1
    <3> QED BY <2>3, <3>2, SMT DEF SlotFree, AddTypes
  <2>4. CASE m.type \notin AddTypes /\ m.type # "U"
    BY <2>4, SMT DEF SlotFree, AddTypes
  <2> QED BY <2>2, <2>3, <2>4
<1> QED BY <1>3, <1>7

LEMMA EngineInit == Init => Engine!Init
PROOF
<1> SUFFICES ASSUME Init PROVE Engine!Init
  OBVIOUS
<1>1. m_valid = FALSE /\ books = [s \in Engine!Sym |-> InitBook] /\ active_sym = 0
  BY DEF Init, InitTop, Parser!InitRegisters
<1>2. HeldMessage = {}
  BY <1>1 DEF HeldMessage
<1> QED BY <1>1, <1>2, EngineTypes DEF Engine!Init

\* An edge of the card is one of the books' own actions.
LEMMA EngineEdgeStep ==
  ASSUME SlotPerOrder, EInv, Edge
  PROVE  Engine!Next
PROOF
<1> DEFINE c == stream[Completed]
<1>1. PInv /\ Holding /\ BooksOK /\ Looking
  BY DEF EInv
<1>2. /\ (PInv /\ Holding)' /\ Continues /\ HeldEdge /\ HeldIs /\ HeldIs' /\ EngineEdge
  BY EdgeFeed
<1>3. books' = Engine!EveryBookEdge
  BY <1>2 DEF EngineEdge
<1>4. /\ m_valid => HeldMessage = {[locate |-> c.loc, msg |-> AsDecoded(c)]}
      /\ ~m_valid => HeldMessage = {}
      /\ ~m_valid' => HeldMessage' = {}
      /\ m_valid' => HeldMessage' = {[locate |-> stream'[Completed'].loc,
                                      msg |-> AsDecoded(stream'[Completed'])]}
  BY <1>2 DEF HeldIs, AsDecoded, Msg
<1>5. m_valid => Completed \in 1 .. Len(stream) /\ Number("loc") = c.loc
  BY <1>1, HeldRead
<1>6. CASE NoneHeld
  <2>1. HeldMessage = {} /\ HeldMessage' = {} /\ active_sym' = active_sym
    BY <1>2, <1>4, <1>6 DEF NoneHeld, EngineEdge
  <2> QED BY <1>3, <2>1 DEF Engine!Next, Engine!Clock, Engine!Idle
<1>7. CASE Delivered
  <2> DEFINE d == stream'[Completed']
  <2>1. d \in Feed /\ SlotFree(books[SymOf(d.loc)], AsDecoded(d))
    BY <1>7, DeliveredFits
  <2>2. HeldMessage = {} /\ HeldMessage' = {[locate |-> d.loc, msg |-> AsDecoded(d)]}
        /\ active_sym' = active_sym
    BY <1>2, <1>4, <1>7 DEF Delivered, EngineEdge
  <2>3. d.loc \in Locates /\ AsDecoded(d) \in Messages
    BY <2>1, Content1, DecodedContent
  <2>4. \A s \in Sym : books[s].state # "LOOKUP"
    <3>1. at >= 18 /\ at \in Nat
      BY <1>1, <1>7 DEF Delivered, PInv, InStep
    <3>2. ~(at <= 1)
      BY <3>1
    <3> QED BY <1>1, <3>2 DEF Looking
  <2> HIDE DEF d
  <2>5. Engine!Deliver(d.loc, AsDecoded(d))
    BY <1>3, <2>1, <2>2, <2>4, EngineBook DEF Engine!Deliver, Sym, SymOf
  <2> QED BY <2>3, <2>5, EngineTypes DEF Engine!Next
<1>8. CASE Waits
  <2>1. stream'[Completed'] = c
    BY <1>2, <1>5, <1>8 DEF Waits, Continues
  <2>2. HeldMessage # {} /\ HeldMessage' = HeldMessage
    BY <1>4, <1>8, <2>1 DEF Waits
  <2>3. active_sym' = active_sym
    BY <1>2, <1>8 DEF Waits, EngineEdge
  <2> QED BY <1>3, <1>8, <2>2, <2>3
          DEF Waits, Engine!Next, Engine!Clock, Engine!Wait
<1>9. CASE Released
  <2> DEFINE h == [locate |-> c.loc, msg |-> AsDecoded(c)]
  <2>1. HeldMessage = {h} /\ HeldMessage' = {} /\ Engine!engine_ready
    BY <1>4, <1>9 DEF Released
  <2>2. active_sym' = Engine!SymOf(h.locate)
    BY <1>2, <1>5, <1>9 DEF Released, EngineEdge
  <2> HIDE DEF h
  <2>3. Engine!Accept
    BY <1>3, <2>1, <2>2 DEF Engine!Accept
  <2> QED BY <2>3 DEF Engine!Next, Engine!Clock
<1> QED BY <1>2, <1>6, <1>7, <1>8, <1>9 DEF HeldEdge

LEMMA EngineResetStep ==
  ASSUME Reset
  PROVE  Engine!Next
PROOF
<1>1. /\ m_valid' = FALSE /\ books' = [s \in Engine!Sym |-> ResetEdge(books[s])]
      /\ active_sym' = 0
  BY DEF Reset, TopReset, Parser!ResetEdge
<1>2. HeldMessage' = {}
  BY <1>1 DEF HeldMessage
<1> QED BY <1>1, <1>2, EngineBook DEF Engine!Next, Engine!Reset

(* For every feed that gives each order a slot of its own, for every number   *)
(* of symbols and size of the books: the books of the card behave as their    *)
(* own specification says, with the parser for its environment.  Whatever is  *)
(* proved of every behaviour of that one is true of the card.                 *)
THEOREM CardUsesEngine == SlotPerOrder => (Spec => EngineUsedAsSpecified)
PROOF
<1> SUFFICES ASSUME SlotPerOrder PROVE Spec => EngineUsedAsSpecified
  OBVIOUS
<1>1. EInv /\ [Next]_vars => [Engine!Next]_(Engine!vars)
  <2> SUFFICES ASSUME EInv, [Next]_vars PROVE [Engine!Next]_(Engine!vars)
    OBVIOUS
  <2>1. CASE Edge
    BY <2>1, EngineEdgeStep
  <2>2. CASE Reset
    BY <2>2, EngineResetStep
  <2>3. CASE UNCHANGED vars
    <3>1. m_valid' = m_valid /\ out' = out /\ stream' = stream
      BY <2>3 DEF vars, card, parser, bus
    <3>2. HeldMessage' = HeldMessage
      BY <3>1 DEF HeldMessage, BookMessage, Number
    <3> QED BY <2>3, <3>2 DEF vars, card, engine, Engine!vars
  <2> QED BY <2>1, <2>2, <2>3 DEF Next
<1> QED BY <1>1, EngineInit, SpecEInv, PTL DEF Spec, EngineUsedAsSpecified

-----------------------------------------------------------------------------
(* The orders after the messages of a day, one after another.  A recursive    *)
(* function is a choice among those that satisfy its equation: one exists, by *)
(* induction on the number of messages.                                       *)

\* The orders of symbol s after message k, from those before it.
Onto(day, before, s, k, O) ==
    IF k <= before THEN NoOrders
    ELSE IF SymOf(day[k].loc) = s THEN Applied(O, day[k]) ELSE O

IsHistory(t, day, before, s, n) == t = [k \in 0 .. n |-> Onto(day, before, s, k, t[k - 1])]

LEMMA HistoryExists ==
  ASSUME NEW day, NEW before \in Nat, NEW s
  PROVE  \A n \in Nat : \E t : IsHistory(t, day, before, s, n)
PROOF
<1> DEFINE G == {n \in Nat : \E t : IsHistory(t, day, before, s, n)}
<1>1. 0 \in G
  <2> DEFINE t == [k \in 0 .. 0 |-> NoOrders]
  <2>1. \A k \in 0 .. 0 : Onto(day, before, s, k, t[k - 1]) = NoOrders
    BY DEF Onto
  <2> HIDE DEF t
  <2>2. t = [k \in 0 .. 0 |-> Onto(day, before, s, k, t[k - 1])]
    BY <2>1 DEF t
  <2> QED BY <2>2 DEF IsHistory
<1>2. ASSUME NEW n \in G PROVE n + 1 \in G
  <2>1. PICK t : IsHistory(t, day, before, s, n)
    OBVIOUS
  <2> DEFINE u == [k \in 0 .. n + 1 |-> IF k \in 0 .. n THEN t[k]
                                        ELSE Onto(day, before, s, k, t[n])]
  <2>2. ASSUME NEW k \in 0 .. n + 1
        PROVE  u[k] = Onto(day, before, s, k, u[k - 1])
    <3>1. n \in Nat /\ t = [j \in 0 .. n |-> Onto(day, before, s, j, t[j - 1])]
      BY <2>1 DEF IsHistory
    <3>2. CASE k = n + 1
      <4>1. u[k] = Onto(day, before, s, k, t[n])
        BY <3>1, <3>2
      <4>2. k - 1 = n /\ u[n] = t[n]
        BY <3>1, <3>2
      <4> HIDE DEF u
      <4> QED BY <4>1, <4>2
    <3>3. CASE k \in 0 .. n /\ k > 0
      <4> DEFINE j == k - 1
      <4>1. j \in 0 .. n /\ j \in 0 .. n + 1
        BY <3>1, <3>3
      <4> HIDE DEF j
      <4>2. u[k] = t[k] /\ u[j] = t[j]
        BY <3>3, <4>1
      <4>3. t[k] = Onto(day, before, s, k, t[j])
        BY <3>1, <3>3 DEF j
      <4> HIDE DEF u
      <4> QED BY <4>2, <4>3 DEF j
    <3>4. CASE k = 0
      <4>1. \A O : Onto(day, before, s, 0, O) = NoOrders
        BY DEF Onto
      <4>2. u[0] = t[0] /\ t[0] = NoOrders
        BY <3>1, <4>1
      <4> HIDE DEF u
      <4> QED BY <3>4, <4>1, <4>2
    <3>5. k = n + 1 \/ (k \in 0 .. n /\ k > 0) \/ k = 0
      BY <3>1
    <3> QED BY <3>2, <3>3, <3>4, <3>5
  <2>3. u = [k \in 0 .. n + 1 |-> u[k]]
    OBVIOUS
  <2> HIDE DEF u
  <2>4. IsHistory(u, day, before, s, n + 1)
    BY <2>2, <2>3 DEF IsHistory
  <2> QED BY <2>4
<1>3. G \in SUBSET Nat
  OBVIOUS
<1> HIDE DEF G
<1>4. G = Nat
  BY <1>1, <1>2, <1>3, SetInduction
<1> QED BY <1>4 DEF G

History(day, before, s, n) == CHOOSE t : IsHistory(t, day, before, s, n)

LEMMA HistoryStep ==
  ASSUME NEW day, NEW before \in Nat, NEW s, NEW n \in Nat, NEW k \in 0 .. n
  PROVE  History(day, before, s, n)[k] = Onto(day, before, s, k, History(day, before, s, n)[k - 1])
PROOF
<1> DEFINE t == History(day, before, s, n)
<1>1. IsHistory(t, day, before, s, n)
  BY HistoryExists DEF History
<1>2. t = [j \in 0 .. n |-> Onto(day, before, s, j, t[j - 1])]
  BY <1>1 DEF IsHistory
<1> HIDE DEF t
<1>3. t[k] = Onto(day, before, s, k, t[k - 1])
  BY <1>2
<1> QED BY <1>3 DEF t

Agree(day, other, m) == \A k \in 1 .. m : day[k] = other[k]

\* Two days that have the first m messages in common have the orders after them
\* in common.
LEMMA HistoriesAgree ==
  ASSUME NEW day, NEW other, NEW before \in Nat, NEW s, NEW m \in Nat, NEW n \in Nat,
         m <= n, Agree(day, other, m)
  PROVE  History(day, before, s, m)[m] = History(other, before, s, n)[m]
PROOF
<1> DEFINE t == History(day, before, s, m)  u == History(other, before, s, n)
           G == {k \in Nat : k <= m => t[k] = u[k]}
<1>1. /\ \A k \in 0 .. m : t[k] = Onto(day, before, s, k, t[k - 1])
      /\ \A k \in 0 .. n : u[k] = Onto(other, before, s, k, u[k - 1])
  BY HistoryStep
<1> HIDE DEF t, u
<1>2. 0 \in G
  <2>1. \A O : Onto(day, before, s, 0, O) = NoOrders /\ Onto(other, before, s, 0, O) = NoOrders
    BY DEF Onto
  <2>2. 0 \in 0 .. m /\ 0 \in 0 .. n
    OBVIOUS
  <2> QED BY <1>1, <2>1, <2>2
<1>3. ASSUME NEW k \in G PROVE k + 1 \in G
  <2> SUFFICES ASSUME k + 1 <= m PROVE t[k + 1] = u[k + 1]
    OBVIOUS
  <2>1. k \in Nat /\ t[k] = u[k]
    OBVIOUS
  <2> DEFINE j == k + 1
  <2>2. j \in 0 .. m /\ j \in 0 .. n /\ j \in 1 .. m /\ j - 1 = k
    BY <2>1
  <2> HIDE DEF j
  <2>3. t[j] = Onto(day, before, s, j, t[k]) /\ u[j] = Onto(other, before, s, j, u[k])
    BY <1>1, <2>2
  <2>4. day[j] = other[j]
    BY <2>2 DEF Agree
  <2>5. t[j] = u[j]
    BY <2>1, <2>3, <2>4 DEF Onto
  <2> QED BY <2>5 DEF j
<1>4. G \in SUBSET Nat
  OBVIOUS
<1> HIDE DEF G
<1>5. G = Nat
  BY <1>2, <1>3, <1>4, SetInduction
<1>6. t[m] = u[m]
  BY <1>5 DEF G
<1> QED BY <1>6 DEF t, u

LEMMA AfterIsHistory ==
  ASSUME NEW day, NEW before, NEW s, NEW n
  PROVE  After(day, before, s, n) = History(day, before, s, n)[n]
PROOF BY DEF After, History, IsHistory, Onto, SymOf

\* The first messages, which a reset has lost, count for nothing.
LEMMA AfterLost ==
  ASSUME NEW day, NEW before \in Nat, NEW s, NEW n \in Nat, n <= before
  PROVE  After(day, before, s, n) = NoOrders
PROOF
<1>1. n \in 0 .. n
  OBVIOUS
<1>2. History(day, before, s, n)[n] = Onto(day, before, s, n, History(day, before, s, n)[n - 1])
  BY <1>1, HistoryStep
<1> QED BY <1>2, AfterIsHistory DEF Onto

\* What one message more does: it is applied if it is of the symbol.
LEMMA AfterOne ==
  ASSUME NEW day, NEW before \in Nat, NEW s, NEW n \in Nat, n > before
  PROVE  After(day, before, s, n) = IF SymOf(day[n].loc) = s
                                      THEN Applied(After(day, before, s, n - 1), day[n])
                                      ELSE After(day, before, s, n - 1)
PROOF
<1> DEFINE m == n - 1
<1>1. m \in Nat /\ m <= n /\ n \in 0 .. n
  OBVIOUS
<1>2. History(day, before, s, n)[n] = Onto(day, before, s, n, History(day, before, s, n)[m])
  BY <1>1, HistoryStep
<1> HIDE DEF m
<1>3. History(day, before, s, m)[m] = History(day, before, s, n)[m]
  <2>1. Agree(day, day, m)
    BY DEF Agree
  <2> QED BY <1>1, <2>1, HistoriesAgree
<1>4. History(day, before, s, n)[m] = After(day, before, s, m)
  BY <1>3, AfterIsHistory
<1>5. After(day, before, s, n) = Onto(day, before, s, n, After(day, before, s, m))
  BY <1>2, <1>4, AfterIsHistory
<1> QED BY <1>5 DEF Onto, m

\* Only the messages that it counts matter.
LEMMA AfterSame ==
  ASSUME NEW day, NEW other, NEW before \in Nat, NEW s, NEW n \in Nat, Agree(day, other, n)
  PROVE  After(day, before, s, n) = After(other, before, s, n)
PROOF
<1>1. n <= n
  OBVIOUS
<1>2. History(day, before, s, n)[n] = History(other, before, s, n)[n]
  BY <1>1, HistoriesAgree
<1> QED BY <1>2, AfterIsHistory

-----------------------------------------------------------------------------
(* What one edge does to the orders of a book. *)

\* An edit keeps the book sound, and shows what it showed.
LEMMA EditKeeps ==
  ASSUME NEW b, BookInv(b), b.state = "LOOKUP", Kept(b)
  PROVE  LET e == LookupEdge(b)
         IN  Kept(e) /\ e.lv = b.lv /\ e.state \in {"IDLE", "RESCAN"}
PROOF
<1> DEFINE e == LookupEdge(b)
<1>1. \A d \in {MissEdge(b), ReduceEdge(b), DeleteEdge(b), ReplaceEdge(b)} :
        d.lv = b.lv /\ d.state \in {"IDLE", "RESCAN"}
  BY EditFields
<1>2. /\ Kept(MissEdge(b))
      /\ lk_match(b) => Kept(ReduceEdge(b)) /\ Kept(DeleteEdge(b))
      /\ lk_match(b) /\ b.m.type = "U" => Kept(ReplaceEdge(b))
  BY EditLive
<1>3. b.m.type \in LookupTypes
  BY DEF BookInv, LookupFresh
<1>4. CASE ~lk_match(b)
  <2>1. e = MissEdge(b)
    BY <1>4, SMT DEF LookupEdge
  <2> QED BY <1>1, <1>2, <2>1
<1>5. CASE lk_match(b) /\ b.m.type \in ReduceTypes
  <2>1. e = ReduceEdge(b)
    BY <1>5, SMT DEF LookupEdge, ReduceTypes
  <2> QED BY <1>1, <1>2, <1>5, <2>1
<1>6. CASE lk_match(b) /\ b.m.type = "D"
  <2>1. e = DeleteEdge(b)
    BY <1>6, SMT DEF LookupEdge, ReduceTypes
  <2> QED BY <1>1, <1>2, <1>6, <2>1
<1>7. CASE lk_match(b) /\ b.m.type = "U"
  <2>1. e = ReplaceEdge(b)
    BY <1>7, SMT DEF LookupEdge, ReduceTypes
  <2> QED BY <1>1, <1>2, <1>7, <2>1
<1> QED BY <1>3, <1>4, <1>5, <1>6, <1>7 DEF LookupTypes

\* An edit is served as the message asks.
LEMMA EditApplied ==
  ASSUME NEW b, BookInv(b), b.state = "LOOKUP", Kept(b), NEW c \in Feed, b.m = AsDecoded(c)
  PROVE  Live(LookupEdge(b)) = Applied(Live(b), c)
PROOF
<1> DEFINE O == Live(b)  o == O[b.m.ref]  q == AskedFor(c)
<1>1. b.m.type \in LookupTypes
  BY DEF BookInv, LookupFresh
<1>2. /\ b.m.type = c.type /\ b.m.ref = c.ref /\ b.m.nref = c.new_ref
      /\ c.type # "D" => b.m.shares = c.sh
      /\ c.type = "U" => b.m.price = c.pr
  BY <1>1 DEF AsDecoded, Msg, LookupTypes, ReduceTypes
<1>3. /\ q.ref = b.m.ref /\ q.nref = b.m.nref
      /\ b.m.type \in ReduceTypes => q.kind = "reduce" /\ q.shares = b.m.shares
      /\ b.m.type = "D" => q.kind = "remove"
      /\ b.m.type = "U" => q.kind = "replace" /\ q.shares = b.m.shares /\ q.price = b.m.price
  BY <1>2 DEF AskedFor, ReduceTypes
<1>4. Applied(O, c) = ServedBy(O, q)
  <2>1. c.type \in LookupTypes /\ c.type \notin AddTypes
    BY <1>1, <1>2 DEF LookupTypes, ReduceTypes, AddTypes
  <2> HIDE DEF O
  <2> QED BY <2>1, SMT DEF Applied
<1>5. /\ b.m.ref \in DOMAIN O <=> lk_match(b)
      /\ Live(MissEdge(b)) = O
      /\ lk_match(b) =>
           /\ Live(DeleteEdge(b)) = Without(O, b.m.ref)
           /\ Live(ReduceEdge(b)) =
                IF o.shares > b.m.shares
                THEN With(O, b.m.ref, [o EXCEPT !.shares = @ - b.m.shares])
                ELSE Without(O, b.m.ref)
      /\ lk_match(b) /\ b.m.type = "U" =>
           Live(ReplaceEdge(b)) =
             With(Without(O, b.m.ref), b.m.nref,
               [side |-> o.side, price |-> b.m.price, shares |-> b.m.shares])
  BY EditLive
<1> HIDE DEF O, q
<1>6. CASE ~lk_match(b)
  <2>1. LookupEdge(b) = MissEdge(b)
    BY <1>6, SMT DEF LookupEdge
  <2>2. Live(MissEdge(b)) = ServedBy(O, q)
    BY <1>3, <1>5, <1>6 DEF ServedBy
  <2> QED BY <1>4, <2>1, <2>2 DEF O
<1>7. CASE lk_match(b) /\ b.m.type \in ReduceTypes
  <2>1. LookupEdge(b) = ReduceEdge(b)
    BY <1>7, SMT DEF LookupEdge, ReduceTypes
  <2>2. Live(ReduceEdge(b)) = ServedBy(O, q)
    BY <1>3, <1>5, <1>7 DEF ServedBy
  <2> QED BY <1>4, <2>1, <2>2 DEF O
<1>8. CASE lk_match(b) /\ b.m.type = "D"
  <2>1. LookupEdge(b) = DeleteEdge(b)
    BY <1>8, SMT DEF LookupEdge, ReduceTypes
  <2>2. Live(DeleteEdge(b)) = ServedBy(O, q)
    BY <1>3, <1>5, <1>8 DEF ServedBy
  <2> QED BY <1>4, <2>1, <2>2 DEF O
<1>9. CASE lk_match(b) /\ b.m.type = "U"
  <2>1. LookupEdge(b) = ReplaceEdge(b)
    BY <1>9, SMT DEF LookupEdge, ReduceTypes
  <2>2. Live(ReplaceEdge(b)) = ServedBy(O, q)
    BY <1>3, <1>5, <1>9 DEF ServedBy
  <2> QED BY <1>4, <2>1, <2>2 DEF O
<1> QED BY <1>1, <1>6, <1>7, <1>8, <1>9 DEF LookupTypes

\* What holds of a book beside BookInv: its ladders are exact.
Faithful(b) == BookInv(b) /\ ScanExact(b) /\ ShownExact(b) /\ Kept(b)

\* An idle book takes a message.
LEMMA TakeApplied ==
  ASSUME NEW b, Faithful(b), b.state = "IDLE", NEW c \in Feed, SlotFree(b, AsDecoded(c))
  PROVE  LET e == BookEdge(b, TRUE, AsDecoded(c))
         IN  /\ Faithful(e) /\ e.state \in {"IDLE", "LOOKUP"}
             /\ e.state = "IDLE" => Live(e) = Applied(Live(b), c)
             /\ e.state = "LOOKUP" => /\ e.m = AsDecoded(c) /\ Live(e) = Live(b)
                                      /\ e.lv = Depth(Live(b))
PROOF
<1> DEFINE m == AsDecoded(c)  e == BookEdge(b, TRUE, m)
<1>1. /\ m \in Message /\ m.type = c.type /\ m.ref = c.ref
      /\ c.type \in AddTypes => m \in AddMessages
      /\ c.type \in LookupTypes => m \in LookupMessages
  BY DecodedContent
<1>2. c.type \in AddTypes => m.side = c.side /\ m.price = c.pr /\ m.shares = c.sh
  BY DEF AsDecoded, Msg, AddTypes
<1>3. BookInv(b) /\ ScanExact(b) /\ ShownExact(b) /\ Kept(b) /\ b \in Book /\ InSlots(b)
  BY DEF Faithful, BookInv, Kept
<1>4. e = IdleEdge(b, m)
  BY SMT DEF BookEdge
<1>5. SlotFree(b, m)
  OBVIOUS
<1> HIDE DEF m, e
<1>6. m.type \in AddTypes => Idx(m.ref) \notin b.entry_valid
  BY <1>5, SMT DEF SlotFree, AddTypes
<1>7. BookInv(e) /\ ScanExact(e) /\ ShownExact(e)
  <2>1. TRUE \in BOOLEAN
    OBVIOUS
  <2> QED BY <1>1, <1>3, <1>6, <2>1, BookEdgeInv, BookEdgeExact DEF e
<1>8. CASE c.type \in AddTypes
  <2>1. e = AddEdge(b, m)
    BY <1>1, <1>4, <1>8, SMT DEF IdleEdge, AddTypes, LookupTypes, ReduceTypes
  <2>2. /\ Kept(e) /\ e.state = "IDLE"
        /\ Live(e) = With(Live(b), m.ref,
                       [side |-> m.side, price |-> m.price, shares |-> m.shares])
    BY <1>1, <1>3, <1>6, <1>8, <2>1, AddLive
  <2>3. Applied(Live(b), c) =
          With(Live(b), c.ref, [side |-> c.side, price |-> c.pr, shares |-> c.sh])
    BY <1>8, SMT DEF Applied, AddTypes, LookupTypes, ReduceTypes
  <2> QED BY <1>1, <1>2, <1>7, <1>8, <2>2, <2>3 DEF Faithful, e, m
<1>9. CASE c.type \in LookupTypes
  <2>1. e = ReadEdge(b, m)
    BY <1>1, <1>4, <1>9, SMT DEF IdleEdge, AddTypes, LookupTypes, ReduceTypes
  <2>2. /\ e.lv = b.lv /\ e.state = "LOOKUP" /\ e.m = m /\ Live(e) = Live(b) /\ Kept(e)
    BY <1>1, <1>3, <1>5, <1>9, <2>1, SameLive
  <2>3. b.lv = Depth(Live(b))
    BY <1>3, LiveShownDepth
  <2> QED BY <1>7, <2>2, <2>3 DEF Faithful, e, m
<1>10. CASE c.type \notin AddTypes /\ c.type \notin LookupTypes
  <2>1. e = IgnoreEdge(b, m)
    BY <1>1, <1>4, <1>10, SMT DEF IdleEdge
  <2>2. e.state = "IDLE" /\ Live(e) = Live(b) /\ Kept(e)
    BY <1>1, <1>3, <2>1, SameLive
  <2>3. Applied(Live(b), c) = Live(b)
    BY <1>10, SMT DEF Applied
  <2> QED BY <1>7, <2>2, <2>3 DEF Faithful, e, m
<1> QED BY <1>8, <1>9, <1>10

\* A book that takes no message goes on with the one before.
LEMMA QuietApplied ==
  ASSUME NEW b, Faithful(b), NEW valid \in BOOLEAN, NEW msg \in Message,
         ~(b.state = "IDLE" /\ valid)
  PROVE  LET e == BookEdge(b, valid, msg)
         IN  /\ Faithful(e) /\ e.state \in {"IDLE", "RESCAN"}
             /\ e.state # "IDLE" => b.state # "IDLE" /\ e.lv = b.lv
             /\ b.state # "LOOKUP" => Live(e) = Live(b)
             /\ \A c \in Feed : b.state = "LOOKUP" /\ b.m = AsDecoded(c)
                                  => Live(e) = Applied(Live(b), c)
PROOF
<1> DEFINE e == BookEdge(b, valid, msg)
<1>1. BookInv(b) /\ ScanExact(b) /\ ShownExact(b) /\ Kept(b) /\ b \in Book
  BY DEF Faithful, BookInv
<1>2. BookInv(e) /\ ScanExact(e) /\ ShownExact(e)
  BY <1>1, BookEdgeInv, BookEdgeExact
<1>3. CASE b.state = "IDLE"
  <2>1. e = b
    BY <1>3, SMT DEF BookEdge
  <2> QED BY <1>3, <2>1
<1>4. CASE b.state = "LOOKUP"
  <2>1. e = LookupEdge(b)
    BY <1>4, SMT DEF BookEdge
  <2>2. \A c \in Feed : b.m = AsDecoded(c) => Live(e) = Applied(Live(b), c)
    BY <1>1, <1>4, <2>1, EditApplied
  <2>3. Kept(e) /\ e.lv = b.lv /\ e.state \in {"IDLE", "RESCAN"}
    BY <1>1, <1>4, <2>1, EditKeeps
  <2> HIDE DEF e
  <2> QED BY <1>2, <1>4, <2>2, <2>3 DEF Faithful, e
<1>5. CASE b.state = "RESCAN"
  <2>1. e = RescanEdge(b)
    BY <1>5, SMT DEF BookEdge
  <2>2. /\ ScanEdge(b).lv = b.lv /\ ScanEdge(b).state = "RESCAN"
        /\ Live(ScanEdge(b)) = Live(b) /\ Kept(ScanEdge(b))
        /\ CommitEdge(b).state = "IDLE" /\ Live(CommitEdge(b)) = Live(b)
        /\ Kept(CommitEdge(b))
    BY <1>1, <1>5, SameLive
  <2>3. e = ScanEdge(b) \/ e = CommitEdge(b)
    BY <2>1 DEF RescanEdge
  <2> HIDE DEF e
  <2> QED BY <1>2, <1>5, <2>2, <2>3 DEF Faithful, e
<1> QED BY <1>1, <1>3, <1>4, <1>5, BookFields

-----------------------------------------------------------------------------
(* The orders of each book are those that result from the messages accepted,  *)
(* or from all but the last while the book looks that one up; the ladder that *)
(* is shown is of the same orders, or of those before the last message.       *)
BookFollows(s) ==
    LET b == books[s]
    IN  /\ Faithful(b)
        /\ b.state # "LOOKUP" => Live(b) = OrdersAfter(s, Accepted)
        /\ b.state = "LOOKUP" =>
             /\ ~m_valid /\ SymOf(stream[Accepted].loc) = s
             /\ b.m = AsDecoded(stream[Accepted]) /\ Live(b) = OrdersAfter(s, Accepted - 1)
        /\ b.state # "IDLE" =>
             active_sym = s /\ Accepted > lost /\ b.lv = Depth(OrdersAfter(s, Accepted - 1))

Follow == ~crossed => \A s \in Sym : BookFollows(s)

FInv == EInv /\ Follow

\* How many messages are accepted at an edge that no message crosses.
Keeps   == /\ Accepted' = Accepted /\ active_sym' = active_sym
           /\ \A s \in Sym : ~(books[s].state = "IDLE" /\ Offered(s))
Accepts == /\ m_valid /\ ~m_valid' /\ Accepted' = Completed /\ Accepted = Completed - 1
           /\ lost < Completed /\ \A s \in Sym : books[s].state = "IDLE"
           /\ active_sym' = SymOf(stream[Completed].loc)

LEMMA AcceptedStep ==
  ASSUME EInv, Edge, ~crossed'
  PROVE  /\ Keeps \/ Accepts
         /\ m_valid' => m_valid \/ \A s \in Sym : books[s].state # "LOOKUP"
PROOF
<1>1. PInv /\ Holding /\ BooksOK /\ Looking
  BY DEF EInv
<1>2. /\ HeldEdge /\ EngineEdge /\ HeldIs /\ (PInv /\ Holding)' /\ Continues
      /\ ~crossed /\ ~Engine!Crosses
  BY EdgeFeed
<1>3. /\ Accepted = (IF m_valid THEN Completed - 1 ELSE Completed)
      /\ Accepted' = (IF m_valid' THEN Completed' - 1 ELSE Completed')
  BY DEF Accepted
<1>4. Completed \in Nat
  BY <1>1, Counts
<1>5. CASE NoneHeld
  BY <1>2, <1>3, <1>5 DEF NoneHeld, Keeps, Offered, EngineEdge
<1>6. CASE Delivered
  <2>1. \A s \in Sym : books[s].state # "LOOKUP"
    <3>1. at >= 18 /\ at \in Nat
      BY <1>1, <1>6 DEF Delivered, PInv, InStep
    <3>2. ~(at <= 1)
      BY <3>1
    <3> QED BY <1>1, <3>2 DEF Looking
  <2> QED BY <1>2, <1>3, <1>4, <1>6, <2>1 DEF Delivered, Keeps, Offered, EngineEdge
<1>7. CASE Waits
  <2>1. \A s \in Sym : ~(books[s].state = "IDLE" /\ Offered(s))
    BY <1>2, <1>7, CrossesIs DEF Waits, Offered, msg_ready
  <2> QED BY <1>2, <1>3, <1>7, <2>1 DEF Waits, Keeps, EngineEdge
<1>8. CASE Released
  <2>1. \A s \in Sym : books[s].state = "IDLE"
    BY <1>8, ReadyIs DEF Released, msg_ready
  <2>2. active_sym' = SymOf(stream[Completed].loc)
    BY <1>1, <1>2, <1>8, HeldRead DEF Released, EngineEdge, SymOf
  <2>3. lost < Completed
    BY <1>1, <1>8 DEF Released, Holding
  <2> QED BY <1>3, <1>8, <2>1, <2>2, <2>3 DEF Released, Accepts
<1> QED BY <1>2, <1>5, <1>6, <1>7, <1>8 DEF HeldEdge

\* The orders after the messages that have come do not change.
LEMMA OrdersStay ==
  ASSUME EInv, Edge, NEW s, NEW n \in Nat, n <= Len(stream)
  PROVE  After(stream', lost', s, n) = OrdersAfter(s, n)
PROOF
<1>1. Continues /\ lost' = lost
  BY EdgeFeed
<1>2. lost \in Nat
  <2>1. Completed \in Nat /\ lost \in 0 .. Completed
    BY Counts DEF EInv
  <2> QED BY <2>1
<1>3. Agree(stream, stream', n)
  <2>1. Len(stream) \in Nat
    BY Counts DEF EInv
  <2> QED BY <1>1, <2>1 DEF Agree, Continues
<1>4. After(stream, lost, s, n) = After(stream', lost, s, n)
  BY <1>2, <1>3, AfterSame
<1> QED BY <1>1, <1>4 DEF OrdersAfter

\* What one message more does to the orders of a symbol.
LEMMA OrdersStep ==
  ASSUME EInv, NEW s, NEW n \in Nat, n > lost
  PROVE  OrdersAfter(s, n) = IF SymOf(stream[n].loc) = s
                               THEN Applied(OrdersAfter(s, n - 1), stream[n])
                               ELSE OrdersAfter(s, n - 1)
PROOF
<1>1. lost \in Nat
  <2>1. Completed \in Nat /\ lost \in 0 .. Completed
    BY Counts DEF EInv
  <2> QED BY <2>1
<1> QED BY <1>1, AfterOne DEF OrdersAfter

\* The message taken finds its slot free: it was created by no other one.
LEMMA TakenFits ==
  ASSUME SlotPerOrder, EInv, ~crossed, m_valid
  PROVE  LET c == stream[Completed]
         IN  c \in Feed /\ SlotFree(books[SymOf(c.loc)], AsDecoded(c))
PROOF
<1> DEFINE n == Completed  c == stream[n]  b == books[SymOf(c.loc)]  m == AsDecoded(c)
<1>1. PInv /\ Holding /\ BooksOK /\ Filled
  BY DEF EInv
<1>2. n \in 1 .. Len(stream) /\ Len(stream) \in Nat /\ c \in Feed /\ Taken = n - 1
  BY <1>1, Counts DEF Holding, Taken, Accepted
<1>3. \A j, k \in 1 .. Len(stream) : stream[j] = stream[k] => j = k
  BY <1>1 DEF PInv, Streamed
<1>4. SymOf(c.loc) \in Sym
  BY <1>2, Content1
<1> HIDE DEF n
<1>5. ASSUME Creates(c), NEW i \in b.entry_valid
      PROVE  i # Idx(c.new_ref)
  <2>1. PICK k \in 1 .. Taken : /\ Creates(stream[k]) /\ SymOf(stream[k].loc) = SymOf(c.loc)
                                /\ Idx(stream[k].new_ref) = i
    BY <1>1, <1>4 DEF Filled
  <2>2. k \in 1 .. Len(stream) /\ k # n
    BY <1>2
  <2>3. stream[k] \in Feed /\ stream[k] # c
    BY <1>1, <1>2, <1>3, <2>2, Counts
  <2> HIDE DEF c
  <2>4. Idx(stream[k].new_ref) # Idx(c.new_ref)
    BY <1>2, <1>5, <2>1, <2>3 DEF SlotPerOrder, SymOf
  <2> QED BY <2>1, <2>4
<1>6. m.type = c.type /\ m.nref = c.new_ref /\ (c.type \in AddTypes => m.ref = c.new_ref)
  BY <1>2, DecodedContent
<1> HIDE DEF b, c, m
<1>7. CASE m.type \in AddTypes
  <2>1. Idx(m.ref) \notin b.entry_valid
    BY <1>5, <1>6, <1>7 DEF Creates
  <2>2. SlotFree(b, m)
    BY <1>7, <2>1, SMT DEF SlotFree, AddTypes
  <2> QED BY <1>2, <2>2 DEF b, c, m, n
<1>8. CASE m.type = "U"
  <2>1. Idx(m.nref) \notin b.entry_valid
    BY <1>5, <1>6, <1>8 DEF Creates
  <2>2. SlotFree(b, m)
    BY <1>8, <2>1, SMT DEF SlotFree, AddTypes
  <2> QED BY <1>2, <2>2 DEF b, c, m, n
<1>9. CASE m.type \notin AddTypes /\ m.type # "U"
  <2>1. SlotFree(b, m)
    BY <1>9, SMT DEF SlotFree, AddTypes
  <2> QED BY <1>2, <2>1 DEF b, c, m, n
<1> QED BY <1>7, <1>8, <1>9

\* An edge that accepts nothing.
LEMMA KeepFollows ==
  ASSUME EInv, Follow, Edge, ~crossed', Keeps, NEW s \in Sym,
         m_valid' => m_valid \/ books[s].state # "LOOKUP"
  PROVE  BookFollows(s)'
PROOF
<1> DEFINE b == books[s]  A == Accepted
<1>1. ~crossed /\ BookFollows(s) /\ lost' = lost
  BY EdgeFeed DEF Follow
<1>2. PICK valid \in BOOLEAN, msg \in Message :
        books'[s] = BookEdge(b, valid, msg) /\ (valid <=> Offered(s))
  BY EdgeBook
<1>3. ~(b.state = "IDLE" /\ valid) /\ Accepted' = A /\ active_sym' = active_sym
  BY <1>2 DEF Keeps
<1>4. /\ Faithful(b)
      /\ b.state # "LOOKUP" => Live(b) = OrdersAfter(s, A)
      /\ b.state = "LOOKUP" =>
           /\ ~m_valid /\ SymOf(stream[A].loc) = s
           /\ b.m = AsDecoded(stream[A]) /\ Live(b) = OrdersAfter(s, A - 1)
      /\ b.state # "IDLE" =>
           active_sym = s /\ A > lost /\ b.lv = Depth(OrdersAfter(s, A - 1))
  BY <1>1 DEF BookFollows
<1>5. A \in 0 .. Len(stream) /\ Len(stream) \in Nat /\ lost \in Nat
      /\ \A k \in 1 .. Len(stream) : stream[k] \in Feed
  <2>1. /\ A \in 0 .. Completed /\ Completed \in 0 .. Len(stream) /\ Len(stream) \in Nat
        /\ lost \in 0 .. Completed
        /\ \A k \in 1 .. Len(stream) : stream[k] \in Feed
    BY Counts, TakenType DEF EInv, BooksOK
  <2> QED BY <2>1
<1> HIDE DEF A
<1>6. /\ After(stream', lost', s, A) = OrdersAfter(s, A)
      /\ A > lost => After(stream', lost', s, A - 1) = OrdersAfter(s, A - 1)
  <2>1. After(stream', lost', s, A) = OrdersAfter(s, A)
    BY <1>5, OrdersStay
  <2>2. ASSUME A > lost PROVE After(stream', lost', s, A - 1) = OrdersAfter(s, A - 1)
    <3>1. A - 1 \in Nat /\ A - 1 <= Len(stream)
      BY <1>5, <2>2
    <3> QED BY <3>1, OrdersStay
  <2> QED BY <2>1, <2>2
<1> HIDE DEF b
<1> DEFINE c == books'[s]
<1>7. /\ Faithful(c) /\ c.state \in {"IDLE", "RESCAN"}
      /\ c.state # "IDLE" => b.state # "IDLE" /\ c.lv = b.lv
      /\ b.state # "LOOKUP" => Live(c) = Live(b)
      /\ \A d \in Feed : b.state = "LOOKUP" /\ b.m = AsDecoded(d)
                           => Live(c) = Applied(Live(b), d)
  BY <1>2, <1>3, <1>4, QuietApplied
<1> HIDE DEF c
<1>8. Live(c) = OrdersAfter(s, A)
  <2>1. CASE b.state # "LOOKUP"
    BY <1>4, <1>7, <2>1
  <2>2. CASE b.state = "LOOKUP"
    <3>1. A > lost /\ A \in Nat /\ A \in 1 .. Len(stream)
      BY <1>4, <1>5, <2>2
    <3>2. OrdersAfter(s, A) = Applied(OrdersAfter(s, A - 1), stream[A])
      BY <1>4, <2>2, <3>1, OrdersStep
    <3>3. stream[A] \in Feed
      BY <1>5, <3>1
    <3> QED BY <1>4, <1>7, <2>2, <3>2, <3>3
  <2> QED BY <2>1, <2>2
<1>9. c.state # "IDLE" =>
        active_sym' = s /\ A > lost' /\ c.lv = Depth(After(stream', lost', s, A - 1))
  BY <1>1, <1>3, <1>4, <1>6, <1>7
<1>10. /\ Faithful(c)
       /\ c.state # "LOOKUP" => Live(c) = After(stream', lost', s, Accepted')
       /\ c.state # "LOOKUP"
       /\ c.state # "IDLE" =>
            /\ active_sym' = s /\ Accepted' > lost'
            /\ c.lv = Depth(After(stream', lost', s, Accepted' - 1))
  BY <1>3, <1>6, <1>7, <1>8, <1>9
<1> QED BY <1>10 DEF BookFollows, OrdersAfter, c

\* An edge at which the books take the message held.
LEMMA AcceptFollows ==
  ASSUME SlotPerOrder, EInv, Follow, Edge, ~crossed', Accepts, NEW s \in Sym
  PROVE  BookFollows(s)'
PROOF
<1> DEFINE b == books[s]  n == Completed
<1>1. ~crossed /\ BookFollows(s) /\ lost' = lost /\ Continues
  BY EdgeFeed DEF Follow
<1>2. /\ m_valid /\ ~m_valid' /\ Accepted' = n /\ Accepted = n - 1 /\ lost < n
      /\ b.state = "IDLE" /\ active_sym' = SymOf(stream[n].loc)
  BY DEF Accepts
<1>3. Faithful(b) /\ Live(b) = OrdersAfter(s, n - 1)
  BY <1>1, <1>2 DEF BookFollows
<1>4. /\ n \in 1 .. Len(stream) /\ Len(stream) \in Nat /\ lost \in Nat
      /\ stream[n] \in Feed /\ SlotFree(books[SymOf(stream[n].loc)], AsDecoded(stream[n]))
  <2>1. PInv /\ Holding /\ lost \in 0 .. Completed
    BY DEF EInv
  <2>2. n \in 1 .. Len(stream) /\ Len(stream) \in Nat
    BY <1>2, <2>1, Counts DEF Holding
  <2>3. stream[n] \in Feed /\ SlotFree(books[SymOf(stream[n].loc)], AsDecoded(stream[n]))
    BY <1>1, <1>2, TakenFits
  <2> QED BY <2>1, <2>2, <2>3
<1>5. PICK valid \in BOOLEAN, msg \in Message :
        /\ books'[s] = BookEdge(b, valid, msg) /\ (valid <=> Offered(s))
        /\ Offered(s) => msg = AsDecoded(stream[n])
  BY EdgeBook
<1>6. Offered(s) <=> SymOf(stream[n].loc) = s
  BY <1>2 DEF Offered
<1> HIDE DEF n
<1>7. /\ n \in Nat /\ n > lost /\ n <= Len(stream) /\ n - 1 \in Nat /\ n - 1 <= Len(stream)
  BY <1>2, <1>4
<1>8. /\ After(stream', lost', s, n) = OrdersAfter(s, n)
      /\ After(stream', lost', s, n - 1) = OrdersAfter(s, n - 1)
  BY <1>7, OrdersStay
<1>9. OrdersAfter(s, n) = IF SymOf(stream[n].loc) = s
                            THEN Applied(OrdersAfter(s, n - 1), stream[n])
                            ELSE OrdersAfter(s, n - 1)
  BY <1>7, OrdersStep
<1>10. stream'[n] = stream[n]
  BY <1>1, <1>4 DEF Continues
<1> DEFINE c == books'[s]
<1>11. CASE ~Offered(s)
  <2>1. c = b
    BY <1>2, <1>5, <1>11, SMT DEF BookEdge
  <2> HIDE DEF b, c
  <2>2. /\ Faithful(c) /\ c.state = "IDLE"
        /\ Live(c) = After(stream', lost', s, Accepted')
    BY <1>2, <1>3, <1>6, <1>8, <1>9, <1>11, <2>1
  <2> QED BY <2>2 DEF BookFollows, OrdersAfter, c
<1>12. CASE Offered(s)
  <2>1. c = BookEdge(b, TRUE, AsDecoded(stream[n])) /\ SlotFree(b, AsDecoded(stream[n]))
    BY <1>4, <1>5, <1>6, <1>12
  <2> HIDE DEF b, c
  <2>2. /\ Faithful(c) /\ c.state \in {"IDLE", "LOOKUP"}
        /\ c.state = "IDLE" => Live(c) = Applied(Live(b), stream[n])
        /\ c.state = "LOOKUP" => /\ c.m = AsDecoded(stream[n]) /\ Live(c) = Live(b)
                                 /\ c.lv = Depth(Live(b))
    BY <1>2, <1>3, <1>4, <2>1, TakeApplied DEF b
  <2>3. /\ Faithful(c)
        /\ c.state # "LOOKUP" => Live(c) = After(stream', lost', s, Accepted')
        /\ c.state = "LOOKUP" =>
             /\ ~m_valid' /\ SymOf(stream'[Accepted'].loc) = s
             /\ c.m = AsDecoded(stream'[Accepted'])
             /\ Live(c) = After(stream', lost', s, Accepted' - 1)
        /\ c.state # "IDLE" =>
             /\ active_sym' = s /\ Accepted' > lost'
             /\ c.lv = Depth(After(stream', lost', s, Accepted' - 1))
    BY <1>1, <1>2, <1>3, <1>6, <1>7, <1>8, <1>9, <1>10, <1>12, <2>2
  <2> QED BY <2>3 DEF BookFollows, OrdersAfter, c
<1> QED BY <1>11, <1>12

LEMMA EdgeFInv == ASSUME SlotPerOrder, FInv, Edge PROVE FInv'
PROOF
<1>1. EInv /\ Follow /\ EInv'
  BY EdgeEInv DEF FInv
<1>2. ASSUME ~crossed', NEW s \in Sym PROVE BookFollows(s)'
  <2>1. /\ Keeps \/ Accepts
        /\ m_valid' => m_valid \/ books[s].state # "LOOKUP"
    BY <1>1, <1>2, AcceptedStep
  <2> QED BY <1>1, <1>2, <2>1, KeepFollows, AcceptFollows
<1> QED BY <1>1, <1>2 DEF FInv, Follow

\* Books that have nothing hold the orders after the messages that a reset lost.
Cleared == /\ \A s \in Sym : /\ Faithful(books[s]) /\ books[s].state = "IDLE"
                             /\ Live(books[s]) = NoOrders
           /\ Accepted <= lost

LEMMA ClearedFollow == EInv /\ Cleared => Follow
PROOF
<1> SUFFICES ASSUME EInv, Cleared PROVE Follow
  OBVIOUS
<1>1. Accepted \in Nat /\ lost \in Nat
  <2>1. Completed \in Nat /\ lost \in 0 .. Completed /\ Accepted \in 0 .. Completed
    BY Counts, TakenType DEF EInv, BooksOK
  <2> QED BY <2>1
<1>2. \A s \in Sym : OrdersAfter(s, Accepted) = NoOrders
  BY <1>1, AfterLost DEF OrdersAfter, Cleared
<1> QED BY <1>2 DEF Follow, BookFollows, Cleared

LEMMA NextClearedFollow == (EInv /\ Cleared)' => Follow'
PROOF BY ClearedFollow, PTL

LEMMA InitFInv == Init => FInv
PROOF
<1> SUFFICES ASSUME Init PROVE FInv
  OBVIOUS
<1>1. EInv
  BY InitEInv
<1> DEFINE B == InitBook
<1>2. books = [s \in Sym |-> B] /\ lost = 0 /\ m_valid = FALSE
  BY DEF Init, InitTop, Sym, Parser!InitRegisters
<1>3. Faithful(B) /\ B.state = "IDLE" /\ Live(B) = NoOrders
  <2>1. BookInv(B) /\ ScanExact(B) /\ ShownExact(B)
    BY InitBookInv, InitBookExact
  <2>2. B.entry_valid = {} /\ B.state = "IDLE"
    BY DEF InitBook
  <2> HIDE DEF B
  <2>3. Kept(B)
    BY <2>2 DEF Kept, InSlots, InPlace
  <2>4. Live(B) = NoOrders
    BY <2>2 DEF Live, LiveOf, NoOrders
  <2> QED BY <2>1, <2>2, <2>3, <2>4 DEF Faithful
<1>4. Accepted <= lost
  <2>1. PICK c \in Feed : stream = <<c>> /\ cur = Numbered(1, c)
    BY DEF Init
  <2>2. Len(stream) = 1 /\ cur # Parser!NoMessage
    BY <2>1, NumberedType
  <2> QED BY <1>2, <2>2 DEF Accepted, Completed
<1> HIDE DEF B
<1>5. Follow
  BY <1>1, <1>2, <1>3, <1>4, ClearedFollow DEF Cleared
<1> QED BY <1>1, <1>5 DEF FInv

LEMMA ResetFInv == ASSUME FInv, Reset PROVE FInv'
PROOF
<1>1. EInv /\ EInv'
  BY ResetEInv DEF FInv
<1>2. /\ books' = [s \in Sym |-> ResetEdge(books[s])] /\ m_valid' = FALSE
      /\ lost' = Completed /\ stream' = stream /\ cur' = cur
  BY DEF Reset, TopReset, Sym, Parser!ResetEdge
<1>3. ASSUME NEW s \in Sym
      PROVE  /\ Faithful(books'[s]) /\ books'[s].state = "IDLE"
             /\ Live(books'[s]) = NoOrders
  <2> DEFINE b == books[s]
  <2>1. BookInv(b) /\ b \in Book /\ books'[s] = ResetEdge(b)
    BY <1>1, <1>2 DEF EInv, BooksOK
  <2> HIDE DEF b
  <2> DEFINE c == ResetEdge(b)
  <2>2. BookInv(c) /\ ScanExact(c) /\ ShownExact(c)
    BY <2>1, ResetEdgeInv, ResetEdgeExact
  <2>3. c.state = "IDLE" /\ c.entry_valid = {}
    BY <2>1 DEF ResetEdge, Book
  <2>4. books'[s] = c
    BY <2>1
  <2> HIDE DEF c
  <2>5. Kept(c)
    BY <2>3 DEF Kept, InSlots, InPlace
  <2>6. Live(c) = NoOrders
    BY <2>3 DEF Live, LiveOf, NoOrders
  <2> QED BY <2>2, <2>3, <2>4, <2>5, <2>6 DEF Faithful
<1>4. Accepted' <= lost'
  <2>1. Completed' = Completed /\ Completed \in Nat
    BY <1>1, <1>2, Counts DEF Completed, EInv
  <2> QED BY <1>2, <2>1 DEF Accepted
<1>5. Follow'
  BY <1>1, <1>3, <1>4, NextClearedFollow DEF Cleared
<1> QED BY <1>1, <1>5 DEF FInv

LEMMA NextFInv == ASSUME SlotPerOrder PROVE FInv /\ [Next]_vars => FInv'
PROOF
<1> SUFFICES ASSUME FInv, [Next]_vars PROVE FInv'
  OBVIOUS
<1>1. CASE Edge
  BY <1>1, EdgeFInv
<1>2. CASE Reset
  BY <1>2, ResetFInv
<1>3. CASE UNCHANGED vars
  <2>1. UNCHANGED <<m_valid, books, active_sym, stream, cur, lost, crossed>>
    BY <1>3 DEF vars, card, parser, engine, bus
  <2>2. Accepted' = Accepted
    BY <2>1 DEF Completed, Accepted
  <2>3. ASSUME ~crossed', NEW s \in Sym PROVE BookFollows(s)'
    <3>1. BookFollows(s)
      BY <2>1, <2>3 DEF FInv, Follow
    <3> QED BY <2>1, <2>2, <3>1 DEF BookFollows, OrdersAfter
  <2>4. Follow'
    BY <2>3 DEF Follow
  <2>5. EInv'
    BY NextEInv DEF FInv
  <2> QED BY <2>4, <2>5 DEF FInv
<1> QED BY <1>1, <1>2, <1>3 DEF Next

LEMMA SpecFInv == ASSUME SlotPerOrder PROVE Spec => []FInv
PROOF
<1>1. FInv /\ [Next]_vars => FInv'
  BY NextFInv
<1> QED BY <1>1, InitFInv, PTL DEF Spec

(* For every feed that gives each order a slot of its own, whatever its       *)
(* length, pauses and resets: until a message crosses, an idle book holds the *)
(* orders that result from the messages of its symbol, and shows their depth. *)
THEOREM CardBooksFollow == SlotPerOrder => (Spec => []BooksFollowFeed)
PROOF
<1> SUFFICES ASSUME SlotPerOrder PROVE Spec => []BooksFollowFeed
  OBVIOUS
<1>1. FInv => BooksFollowFeed
  <2> SUFFICES ASSUME FInv, ~crossed, NEW s \in Sym, msg_ready(books[s])
               PROVE  LET O == OrdersAfter(s, Accepted)
                      IN  OrdersOf(books[s]) = O /\ books[s].lv = Depth(O)
    BY DEF BooksFollowFeed, BooksAlwaysFollow, Sym
  <2> DEFINE b == books[s]
  <2>1. Faithful(b) /\ b.state = "IDLE" /\ Live(b) = OrdersAfter(s, Accepted)
    BY DEF FInv, Follow, BookFollows, msg_ready
  <2> HIDE DEF b
  <2>2. b.lv = Depth(Live(b))
    BY <2>1, LiveShownDepth DEF Faithful, BookInv, Kept
  <2>3. OrdersOf(b) = Live(b)
    BY DEF OrdersOf, Live, LiveOf, OrderOf
  <2> QED BY <2>1, <2>2, <2>3 DEF b
<1> QED BY <1>1, SpecFInv, PTL

-----------------------------------------------------------------------------
(* The order path: each of its registers is about the ladder shown at its own *)
(* age, and edition says which messages that ladder reflects.                 *)
SnapIn(day, before, e) == SnapshotOf(e.sym, Depth(After(day, before, e.sym, e.upto)))

Snap(e) == SnapIn(stream, lost, e)

Staged(s) == /\ Path!Tradable(s) /\ stage1.bid_p = s.bid /\ stage1.ask_p = s.ask
             /\ stage1.w_bid = Path!WeightedVolume(s.bid_sizes)
             /\ stage1.w_ask = Path!WeightedVolume(s.ask_sizes)

Called(s, order) == Path!Tradable(s) /\ Path!Calls(s, order)

Piped ==
    /\ "valid" \in DOMAIN decision
    /\ ~crossed =>
         /\ \A i \in 1 .. 3 : edition[i].upto \in 0 .. Len(stream)
         /\ stage1.elig    => Staged(Snap(edition[1]))
         /\ decision.valid => Called(Snap(edition[2]), decision)
         /\ risk.valid     => Called(Snap(edition[3]), risk)
         /\ tag = [d1 |-> edition[1].sym, d2 |-> edition[2].sym, out |-> edition[3].sym]

OInv == FInv /\ Piped

\* The path is shown the depth of the orders that Reflected names.
LEMMA TopIs ==
  ASSUME FInv, ~crossed
  PROVE  TopOfBook = Snap(Reflected) /\ Reflected.upto \in 0 .. Len(stream)
PROOF
<1> DEFINE s == active_sym  b == books[s]
<1>1. BookFollows(s)
  BY DEF FInv, Follow, EInv, BooksOK
<1>2. Accepted \in 0 .. Len(stream) /\ Len(stream) \in Nat /\ lost \in Nat
  <2>1. /\ Accepted \in 0 .. Completed /\ Completed \in 0 .. Len(stream)
        /\ Len(stream) \in Nat /\ lost \in 0 .. Completed
    BY Counts, TakenType DEF FInv, EInv, BooksOK
  <2> QED BY <2>1
<1>3. CASE b.state = "IDLE"
  <2>1. Reflected.sym = s /\ Reflected.upto = Accepted
    BY <1>3 DEF Reflected, msg_ready
  <2>2. Faithful(b) /\ Live(b) = OrdersAfter(s, Accepted)
    BY <1>1, <1>3 DEF BookFollows
  <2> HIDE DEF b
  <2>3. b.lv = Depth(Live(b))
    BY <1>3, <2>2, LiveShownDepth DEF Faithful, BookInv, Kept
  <2>4. TopOfBook = SnapshotOf(s, b.lv)
    BY DEF TopOfBook, b
  <2> QED BY <1>2, <2>1, <2>2, <2>3, <2>4 DEF Snap, SnapIn, OrdersAfter
<1>4. CASE b.state # "IDLE"
  <2>1. Reflected.sym = s /\ Reflected.upto = Accepted - 1
    BY <1>4 DEF Reflected, msg_ready
  <2>2. Accepted > lost /\ b.lv = Depth(OrdersAfter(s, Accepted - 1))
    BY <1>1, <1>4 DEF BookFollows
  <2> HIDE DEF b
  <2>3. TopOfBook = SnapshotOf(s, b.lv)
    BY DEF TopOfBook, b
  <2>4. Accepted - 1 \in 0 .. Len(stream)
    BY <1>2, <2>2
  <2> QED BY <2>1, <2>2, <2>3, <2>4 DEF Snap, SnapIn, OrdersAfter
<1> QED BY <1>3, <1>4

LEMMA SnapStays ==
  ASSUME EInv, Edge, NEW e, e.upto \in 0 .. Len(stream)
  PROVE  SnapIn(stream', lost', e) = Snap(e)
PROOF
<1>1. e.upto \in Nat /\ e.upto <= Len(stream)
  BY Counts DEF EInv
<1>2. After(stream', lost', e.sym, e.upto) = OrdersAfter(e.sym, e.upto)
  BY <1>1, OrdersStay
<1> QED BY <1>2 DEF Snap, SnapIn, OrdersAfter

\* A decision is what the snapshot of stage 1 calls for.
LEMMA DecideCalls ==
  ASSUME "valid" \in DOMAIN decision, NEW s, stage1.elig => Staged(s),
         Path!Decide, decision'.valid
  PROVE  Called(s, decision')
PROOF
<1>1. Path!ready /\ (Path!buy_cond \/ Path!sell_cond)
  <2>1. CASE ~(Path!ready /\ (Path!buy_cond \/ Path!sell_cond))
    BY <2>1 DEF Path!Decide
  <2> QED BY <2>1
<1>2. Staged(s)
  BY <1>1 DEF Path!ready
<1>3. CASE Path!buy_cond
  <2>1. decision' = [valid |-> TRUE, action |-> Path!BUY, price |-> stage1.ask_p,
                     size |-> Path!Lot(stage1.w_bid, stage1.w_ask, BID_THRESH)]
    BY <1>1, <1>3 DEF Path!Decide
  <2>2. /\ decision'.action = Path!BUY /\ decision'.price = s.ask
        /\ decision'.size = Path!Lot(Path!WeightedVolume(s.bid_sizes),
                                     Path!WeightedVolume(s.ask_sizes), BID_THRESH)
    BY <1>2, <2>1 DEF Staged
  <2> QED BY <1>2, <1>3, <2>2 DEF Staged, Called, Path!Calls, Path!buy_cond
<1>4. CASE ~Path!buy_cond /\ Path!sell_cond
  <2>1. decision' = [valid |-> TRUE, action |-> Path!SELL, price |-> stage1.bid_p,
                     size |-> Path!Lot(stage1.w_ask, stage1.w_bid, ASK_THRESH)]
    BY <1>1, <1>4 DEF Path!Decide
  <2>2. /\ decision'.action = Path!SELL /\ decision'.price = s.bid
        /\ decision'.size = Path!Lot(Path!WeightedVolume(s.ask_sizes),
                                     Path!WeightedVolume(s.bid_sizes), ASK_THRESH)
    BY <1>2, <2>1 DEF Staged
  <2> QED BY <1>2, <1>4, <2>2 DEF Staged, Called, Path!Calls, Path!buy_cond, Path!sell_cond
<1> QED BY <1>1, <1>3, <1>4

LEMMA DecideType ==
  ASSUME "valid" \in DOMAIN decision, Path!Decide
  PROVE  "valid" \in DOMAIN decision'
PROOF BY DEF Path!Decide

LEMMA EdgeOInv == ASSUME SlotPerOrder, OInv, Edge PROVE OInv'
PROOF
<1>1. FInv /\ EInv /\ Piped /\ FInv'
  BY EdgeFInv DEF OInv, FInv
<1>2. PathEdge(FALSE) /\ Remember /\ Continues /\ lost' = lost
  BY EdgeParts, EdgeFeed, <1>1
<1>3. /\ Path!Decide /\ stage1' = Path!Stage1(TopOfBook)
      /\ risk' = [valid |-> Path!out_valid(FALSE), action |-> decision.action,
                  price |-> decision.price, size |-> decision.size,
                  reject |-> decision.valid /\ ~Path!out_valid(FALSE),
                  reason |-> Path!reject_reason(FALSE)]
      /\ tag' = [d1 |-> active_sym, d2 |-> tag.d1, out |-> tag.d2]
  BY <1>2 DEF PathEdge, Path!StrategyEdge, Path!OutputEdge, Path!TagEdge, TopOfBook, SnapshotOf
<1>4. "valid" \in DOMAIN decision /\ "valid" \in DOMAIN decision'
  BY <1>1, <1>3, DecideType DEF Piped
<1> SUFFICES ASSUME ~crossed'
             PROVE  /\ \A i \in 1 .. 3 : edition'[i].upto \in 0 .. Len(stream')
                    /\ stage1'.elig    => Staged(Snap(edition[1]))'
                    /\ decision'.valid => Called(Snap(edition[2]), decision)'
                    /\ risk'.valid     => Called(Snap(edition[3]), risk)'
                    /\ tag' = [d1 |-> edition'[1].sym, d2 |-> edition'[2].sym,
                               out |-> edition'[3].sym]
  BY <1>1, <1>4 DEF OInv, Piped
<1> DEFINE e == Reflected  e1 == edition[1]  e2 == edition[2]
<1>5. ~crossed /\ edition' = <<e, e1, e2>>
  BY <1>2 DEF Remember
<1>6. edition'[1] = e /\ edition'[2] = e1 /\ edition'[3] = e2
  BY <1>5
<1>7. /\ e1.upto \in 0 .. Len(stream) /\ e2.upto \in 0 .. Len(stream)
      /\ stage1.elig    => Staged(Snap(e1))
      /\ decision.valid => Called(Snap(e2), decision)
      /\ tag.d1 = e1.sym /\ tag.d2 = e2.sym
  BY <1>1, <1>5 DEF Piped
<1>8. TopOfBook = Snap(e) /\ e.upto \in 0 .. Len(stream) /\ e.sym = active_sym
  <2>1. TopOfBook = Snap(e) /\ e.upto \in 0 .. Len(stream)
    BY <1>1, <1>5, TopIs
  <2> QED BY <2>1 DEF Reflected
<1> HIDE DEF e, e1, e2
<1>9. /\ SnapIn(stream', lost', e) = Snap(e) /\ SnapIn(stream', lost', e1) = Snap(e1)
      /\ SnapIn(stream', lost', e2) = Snap(e2)
  BY <1>1, <1>7, <1>8, SnapStays
<1>10. \A i \in 1 .. 3 : edition'[i].upto \in 0 .. Len(stream')
  <2>1. Len(stream) \in Nat /\ Len(stream') \in Nat /\ Len(stream') >= Len(stream)
    <3>1. Len(stream) \in Nat
      BY <1>1, Counts DEF EInv
    <3>2. Len(stream') \in Nat
      BY <1>1 DEF FInv, EInv, PInv, Streamed
    <3> QED BY <1>2, <3>1, <3>2 DEF Continues
  <2>2. \A i \in 1 .. 3 : i = 1 \/ i = 2 \/ i = 3
    OBVIOUS
  <2>3. \A n \in 0 .. Len(stream) : n \in 0 .. Len(stream')
    BY <2>1
  <2> QED BY <1>6, <1>7, <1>8, <2>2, <2>3
<1>11. stage1'.elig => Staged(Snap(edition[1]))'
  <2> DEFINE t == TopOfBook
  <2>1. stage1'.elig =>
          /\ Path!Tradable(t) /\ stage1'.bid_p = t.bid /\ stage1'.ask_p = t.ask
          /\ stage1'.w_bid = Path!WeightedVolume(t.bid_sizes)
          /\ stage1'.w_ask = Path!WeightedVolume(t.ask_sizes)
    BY <1>3 DEF Path!Stage1
  <2>2. t = SnapIn(stream', lost', edition'[1])
    BY <1>6, <1>8, <1>9
  <2> HIDE DEF t
  <2> QED BY <2>1, <2>2 DEF Staged, Snap
<1>12. decision'.valid => Called(Snap(edition[2]), decision)'
  <2>1. decision'.valid => Called(Snap(e1), decision')
    BY <1>3, <1>4, <1>7, DecideCalls
  <2> QED BY <1>6, <1>9, <2>1 DEF Called, Snap
<1>13. risk'.valid => Called(Snap(edition[3]), risk)'
  <2>1. risk'.valid => decision.valid
    BY <1>3 DEF Path!out_valid
  <2>2. /\ risk'.action = decision.action /\ risk'.price = decision.price
        /\ risk'.size = decision.size
    BY <1>3
  <2>3. \A s : Called(s, decision) => Called(s, risk')
    BY <2>2 DEF Called, Path!Calls
  <2> QED BY <1>6, <1>7, <1>9, <2>1, <2>3 DEF Called, Snap
<1>14. tag' = [d1 |-> edition'[1].sym, d2 |-> edition'[2].sym, out |-> edition'[3].sym]
  BY <1>3, <1>6, <1>7, <1>8
<1> QED BY <1>10, <1>11, <1>12, <1>13, <1>14

\* After a reset, and in the beginning, the path holds nothing.
Silent == /\ stage1 = Path!Stage1Reset /\ decision = Path!NoOrder /\ risk = Path!NoRisk
          /\ tag = Path!NoTag /\ edition = <<Blank, Blank, Blank>>

LEMMA SilentPiped == EInv /\ Silent => Piped
PROOF
<1> SUFFICES ASSUME EInv, Silent PROVE Piped
  OBVIOUS
<1>1. /\ "valid" \in DOMAIN decision /\ decision.valid = FALSE /\ stage1.elig = FALSE
      /\ risk.valid = FALSE /\ tag = [d1 |-> 0, d2 |-> 0, out |-> 0]
  BY DEF Silent, Path!Stage1Reset, Path!NoOrder, Path!NoRisk, Path!NoTag
<1>2. \A i \in 1 .. 3 : edition[i] = Blank
  BY DEF Silent
<1>3. Blank.upto = 0 /\ Blank.sym = 0
  BY DEF Blank
<1>4. 0 \in 0 .. Len(stream)
  BY Counts DEF EInv
<1> QED BY <1>1, <1>2, <1>3, <1>4 DEF Piped

LEMMA NextSilentPiped == (EInv /\ Silent)' => Piped'
PROOF BY SilentPiped, PTL

LEMMA NextOInv == ASSUME SlotPerOrder PROVE OInv /\ [Next]_vars => OInv'
PROOF
<1> SUFFICES ASSUME OInv, [Next]_vars PROVE OInv'
  OBVIOUS
<1>1. FInv' /\ EInv'
  BY NextFInv DEF OInv, FInv
<1>2. CASE Edge
  BY <1>2, EdgeOInv
<1>3. CASE Reset
  <2>1. Silent'
    BY <1>3 DEF Reset, TopReset, Silent
  <2> QED BY <1>1, <2>1, NextSilentPiped DEF OInv
<1>4. CASE UNCHANGED vars
  <2>1. UNCHANGED <<stage1, decision, risk, tag, stream, lost, edition, crossed>>
    BY <1>4 DEF vars, card, strategy, gate, bus
  <2>2. Piped'
    BY <2>1 DEF OInv, Piped, Staged, Called, Snap
  <2> QED BY <1>1, <2>2 DEF OInv
<1> QED BY <1>2, <1>3, <1>4 DEF Next

(* For every such feed and every value of the path's parameters: until a      *)
(* message crosses, an order that leaves is the one called for by the depth   *)
(* of its symbol after the messages that its book had taken three edges ago.  *)
THEOREM CardOrdersReflect == SlotPerOrder => (Spec => []OrderReflectsFeed)
PROOF
<1> SUFFICES ASSUME SlotPerOrder PROVE Spec => []OrderReflectsFeed
  OBVIOUS
<1>1. Init => OInv
  <2> SUFFICES ASSUME Init PROVE OInv
    OBVIOUS
  <2>1. FInv /\ EInv
    BY InitFInv DEF FInv
  <2>2. Silent
    BY DEF Init, InitTop, Silent
  <2> QED BY <2>1, <2>2, SilentPiped DEF OInv
<1>2. OInv => OrderReflectsFeed
  <2> SUFFICES ASSUME OInv, risk.valid, ~crossed
               PROVE  LET e == edition[3]
                          s == SnapshotOf(e.sym, Depth(OrdersAfter(e.sym, e.upto)))
                      IN  Path!Tradable(s) /\ Path!Calls(s, risk) /\ tag.out = e.sym
    BY DEF OrderReflectsFeed
  <2>1. Called(Snap(edition[3]), risk) /\ tag.out = edition[3].sym
    BY DEF OInv, Piped
  <2> QED BY <2>1 DEF Called, Snap, SnapIn, OrdersAfter
<1>3. OInv /\ [Next]_vars => OInv'
  BY NextOInv
<1> QED BY <1>1, <1>2, <1>3, PTL DEF Spec

-----------------------------------------------------------------------------
(* With one symbol no message can cross: the book that it is for is the one   *)
(* that keeps it waiting.                                                     *)
LEMMA OneNeverCrosses ==
  ASSUME NSymbols = 1, HeldIs, PInv, Holding
  PROVE  ~Engine!Crosses
PROOF
<1> SUFFICES ASSUME Engine!Crosses PROVE FALSE
  OBVIOUS
<1>1. /\ m_valid /\ ~Engine!engine_ready
      /\ msg_ready(books[SymOf(stream[Completed].loc)])
  BY CrossesIs
<1>2. stream[Completed] \in Feed
  BY <1>1, HeldRead
<1>3. Sym = {0}
  BY DEF Sym, Engine!Sym
<1>4. SymOf(stream[Completed].loc) = 0
  BY <1>2, <1>3, Content1
<1> QED BY <1>1, <1>3, <1>4, ReadyIs

(* A card of one symbol follows its feed without exception.                   *)
THEOREM OneSymbolFollows ==
  SlotPerOrder /\ NSymbols = 1 => (Spec => []BooksAlwaysFollow)
PROOF
<1> SUFFICES ASSUME SlotPerOrder, NSymbols = 1 PROVE Spec => []BooksAlwaysFollow
  OBVIOUS
<1>1. Spec => []BooksFollowFeed
  BY CardBooksFollow
<1>2. Spec => []EInv
  BY SpecEInv
<1>3. Init => crossed = FALSE
  BY DEF Init
<1>4. crossed = FALSE /\ EInv /\ [Next]_vars => (crossed = FALSE)'
  <2> SUFFICES ASSUME crossed = FALSE, EInv, [Next]_vars PROVE crossed' = FALSE
    OBVIOUS
  <2>1. CASE Edge
    <3>1. crossed' = (crossed \/ Engine!Crosses) /\ HeldIs
      BY <2>1, EdgeFeed
    <3>2. ~Engine!Crosses
      BY <3>1, OneNeverCrosses DEF EInv
    <3> QED BY <3>1, <3>2
  <2>2. CASE Reset
    BY <2>2 DEF Reset
  <2>3. CASE UNCHANGED vars
    BY <2>3 DEF vars
  <2> QED BY <2>1, <2>2, <2>3 DEF Next
<1>5. crossed = FALSE /\ BooksFollowFeed => BooksAlwaysFollow
  BY DEF BooksFollowFeed
<1> QED BY <1>1, <1>2, <1>3, <1>4, <1>5, PTL DEF Spec
=============================================================================
