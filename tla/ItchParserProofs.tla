-------------------------- MODULE ItchParserProofs --------------------------
(* The parser loses, repeats, reorders and mixes nothing, for any sequence of *)
(* messages.  The invariant says which byte each place of each shift register *)
(* holds after any number of bytes of the message under way.                  *)
EXTENDS ItchParser, SequenceTheorems, TLAPS

Kinds      == Supported \cup {"S"}
AnyMessage == [id : Nat, type : Kinds \cup {"none"}, sell : BOOLEAN]
AnyByte    == [msg : AnyMessage, pos : Nat]

\* The fields that a message of type t has, and where each of them starts.
Has(t, f) == /\ f = "new_ref" => t = "U"
             /\ f = "pr" => t \in AddFields \cup {"C", "U"}

First(t, f) == CASE f = "loc" -> 1
                 [] f = "ts"  -> 5
                 [] f = "ref" -> 11
                 [] f = "new_ref" -> 19
                 [] f = "sh" -> IF t \in AddFields THEN 20 ELSE IF t = "U" THEN 27 ELSE 19
                 [] f = "pr" -> IF t = "U" THEN 31 ELSE 32

Span(t, f) == First(t, f) .. First(t, f) + Width[f] - 1

\* One past the last byte of the field among the first n of the message.
Reach(t, f, n) ==
    IF n < First(t, f) + Width[f] THEN n ELSE First(t, f) + Width[f]

(* Register reg ends with the bytes of field f that are among the first n of *)
(* message m, in their order; what is before them is of earlier messages.    *)
Ends(reg, m, f, n) ==
    \A p \in First(m.type, f) .. Reach(m.type, f, n) - 1 :
        reg[Width[f] - Reach(m.type, f, n) + p + 1] = [msg |-> m, pos |-> p]

Register(f) == {reg \in Seq(AnyByte) : Len(reg) = Width[f]}

Registers == /\ DOMAIN sr = Fields
             /\ \A f \in Fields : sr[f] \in Register(f)
             /\ side_r \in BOOLEAN /\ m_valid \in BOOLEAN /\ msg_unsupported \in BOOLEAN
             /\ msg_type_r \in Types \cup {"none", "data"}

(* The counter of the parser and the place of the DMA agree. *)
InStep == /\ byte_cnt = at /\ at \in Nat
          /\ \/ cur = NoMessage /\ at = 0
             \/ /\ cur \in Message(cur.id) /\ cur.id \in 1 .. MAX_MESSAGES
                /\ at < Length[cur.type]
                /\ at > 0 => msg_type_r = cur.type

Holds == /\ \A f \in Fields : Has(cur.type, f) => Ends(sr[f], cur, f, at)
         /\ at > 19 /\ cur.type \in AddFields => side_r = cur.sell

PInv == /\ Registers /\ InStep /\ Holds
        /\ owed \in Seq(AnyMessage)
        /\ PresentsOwed

-----------------------------------------------------------------------------
LEMMA Table ==
  ASSUME NEW t \in Kinds
  PROVE  /\ Length[t] \in 12 .. 44
         /\ t \in Supported => Length[t] >= 19
         /\ t \in {"E", "C", "X"} => Length[t] >= 23
         /\ t \in AddFields \cup {"C"} => Length[t] >= 36
         /\ t = "U" => Length[t] >= 35
PROOF BY DEF Kinds, Supported, AddFields, Length

LEMMA FirstType ==
  ASSUME NEW t, NEW f \in Fields
  PROVE  /\ First(t, f) \in 1 .. 32 /\ Width[f] \in 2 .. 8
PROOF BY DEF First, Fields, Width

LEMMA KnownTypes == Types \subseteq Kinds
PROOF BY FeedAssumption DEF Kinds, Supported, AddFields, Length

LEMMA MessageType ==
  ASSUME NEW id \in Nat, NEW m \in Message(id)
  PROVE  /\ m \in AnyMessage /\ m.id = id /\ m.type \in Types /\ m.type \in Kinds
         /\ m.sell \in BOOLEAN /\ (m.sell => m.type \in AddFields) /\ m # NoMessage
PROOF
<1>1. m \in [id : {id}, type : Types, sell : BOOLEAN] /\ (m.sell => m.type \in AddFields)
  BY DEF Message
<1>2. m.type \in Types /\ m.type \in Kinds
  BY <1>1, KnownTypes
<1>3. m.type # "none"
  BY <1>2 DEF Kinds, Supported, AddFields
<1> QED BY <1>1, <1>2, <1>3 DEF AnyMessage, NoMessage

LEMMA NoMessageType == NoMessage \in AnyMessage
PROOF BY DEF NoMessage, AnyMessage

\* One byte more of message m: the register of each field stays in step.
LEMMA ShiftEnds ==
  ASSUME NEW m \in AnyMessage, NEW f \in Fields, NEW n \in Nat,
         NEW reg \in Register(f), Ends(reg, m, f, n),
         NEW new, new = IF n \in Span(m.type, f)
                          THEN Append(Tail(reg), [msg |-> m, pos |-> n]) ELSE reg
  PROVE  new \in Register(f) /\ Ends(new, m, f, n + 1)
PROOF
<1> DEFINE t == m.type  s == First(t, f)  w == Width[f]  b == [msg |-> m, pos |-> n]
<1>1. s \in 1 .. 32 /\ w \in 2 .. 8
  BY FirstType
<1>2. reg \in Seq(AnyByte) /\ Len(reg) = w /\ b \in AnyByte
  BY DEF Register, AnyByte
<1>3. \A p \in s .. Reach(t, f, n) - 1 : reg[w - Reach(t, f, n) + p + 1] = [msg |-> m, pos |-> p]
  BY DEF Ends
<1>4. Reach(t, f, n) = (IF n < s + w THEN n ELSE s + w)
      /\ Reach(t, f, n + 1) = (IF n + 1 < s + w THEN n + 1 ELSE s + w)
  BY DEF Reach
<1>5. Span(t, f) = s .. s + w - 1
  BY DEF Span
<1>6. SUFFICES /\ new \in Register(f)
               /\ \A p \in s .. Reach(t, f, n + 1) - 1 :
                    new[w - Reach(t, f, n + 1) + p + 1] = [msg |-> m, pos |-> p]
  BY DEF Ends
<1> HIDE DEF t, s, w
<1>7. CASE n \in Span(t, f)
  <2>1. new = Append(Tail(reg), b)
    BY <1>7 DEF t
  <2>2. /\ Tail(reg) \in Seq(AnyByte) /\ Len(Tail(reg)) = w - 1
        /\ \A i \in 1 .. w - 1 : Tail(reg)[i] = reg[i + 1]
    BY <1>1, <1>2
  <2>3. /\ new \in Seq(AnyByte) /\ Len(new) = w /\ new[w] = b
        /\ \A i \in 1 .. w - 1 : new[i] = reg[i + 1]
    BY <1>1, <1>2, <2>1, <2>2
  <2>4. Reach(t, f, n) = n /\ Reach(t, f, n + 1) = n + 1 /\ s <= n /\ n < s + w
    BY <1>1, <1>4, <1>5, <1>7
  <2>5. ASSUME NEW p \in s .. n
        PROVE  new[w - (n + 1) + p + 1] = [msg |-> m, pos |-> p]
    <3>1. CASE p = n
      <4> DEFINE i == w - (n + 1) + p + 1
      <4>1. i = w
        BY <1>1, <3>1
      <4> HIDE DEF i
      <4>2. new[i] = [msg |-> m, pos |-> p]
        BY <2>3, <3>1, <4>1
      <4> QED BY <4>2 DEF i
    <3>2. CASE p < n
      <4> DEFINE i == w - (n + 1) + p + 1
      <4>1. i \in 1 .. w - 1 /\ p \in s .. n - 1 /\ i + 1 = w - n + p + 1
        BY <1>1, <2>4, <3>2
      <4>2. reg[w - n + p + 1] = [msg |-> m, pos |-> p]
        BY <1>3, <2>4, <4>1
      <4> HIDE DEF i
      <4>3. new[i] = reg[i + 1]
        BY <2>3, <4>1
      <4> QED BY <4>1, <4>2, <4>3 DEF i
    <3>3. p = n \/ p < n
      BY <1>1, <2>4
    <3> QED BY <3>1, <3>2, <3>3, Zenon
  <2>6. new \in Register(f)
    BY <2>3 DEF Register, w
  <2>7. s .. Reach(t, f, n + 1) - 1 = s .. n
    BY <1>1, <2>4
  <2> QED BY <2>4, <2>5, <2>6, <2>7
<1>8. CASE n \notin Span(t, f)
  <2>1. new = reg /\ new \in Register(f)
    BY <1>8 DEF t
  <2>2. CASE n < s
    <3>1. Reach(t, f, n + 1) = n + 1
      BY <1>1, <1>4, <2>2
    <3>2. s .. Reach(t, f, n + 1) - 1 = {}
      BY <1>1, <2>2, <3>1
    <3> QED BY <2>1, <3>2
  <2>3. CASE n >= s + w
    <3>1. Reach(t, f, n + 1) = Reach(t, f, n)
      BY <1>1, <1>4, <2>3
    <3> QED BY <1>3, <2>1, <3>1
  <2>4. n < s \/ n >= s + w
    BY <1>1, <1>5, <1>8
  <2> QED BY <2>2, <2>3, <2>4, Zenon
<1> QED BY <1>7, <1>8

\* Once its last byte is in, the register is the field.
LEMMA EndsDone ==
  ASSUME NEW m \in AnyMessage, NEW f \in Fields, NEW n \in Nat,
         NEW reg \in Register(f), Ends(reg, m, f, n),
         n >= First(m.type, f) + Width[f]
  PROVE  reg = Slice(m, First(m.type, f), First(m.type, f) + Width[f] - 1)
PROOF
<1> DEFINE s == First(m.type, f)  w == Width[f]
<1>1. s \in 1 .. 32 /\ w \in 2 .. 8
  BY FirstType
<1>2. reg \in Seq(AnyByte) /\ Len(reg) = w
  BY DEF Register
<1>3. Reach(m.type, f, n) = s + w
  BY <1>1 DEF Reach
<1>4. \A p \in s .. (s + w) - 1 : reg[w - (s + w) + p + 1] = [msg |-> m, pos |-> p]
  <2>1. \A p \in s .. Reach(m.type, f, n) - 1 :
          reg[w - Reach(m.type, f, n) + p + 1] = [msg |-> m, pos |-> p]
    BY DEF Ends
  <2> HIDE DEF s, w
  <2> QED BY <1>3, <2>1
<1>5. Slice(m, s, s + w - 1) = [i \in 1 .. (s + w - 1) - s + 1 |-> [msg |-> m, pos |-> s + i - 1]]
  BY DEF Slice
<1> HIDE DEF s, w
<1>6. (s + w - 1) - s + 1 = w
  BY <1>1
<1>7. ASSUME NEW i \in 1 .. w
      PROVE  reg[i] = [msg |-> m, pos |-> s + i - 1]
  <2> DEFINE p == s + i - 1  k == w - (s + w) + p + 1
  <2>1. p \in s .. (s + w) - 1 /\ k = i
    BY <1>1
  <2>2. p \in s .. (s + w) - 1 => reg[k] = [msg |-> m, pos |-> p]
    BY <1>4
  <2> HIDE DEF k
  <2> QED BY <2>1, <2>2
<1>8. reg = [i \in 1 .. w |-> reg[i]]
  BY <1>1, <1>2
<1> QED BY <1>5, <1>6, <1>7, <1>8 DEF s, w

-----------------------------------------------------------------------------
LEMMA TakenSpan ==
  ASSUME NEW f \in Fields, msg_type_r \in Kinds
  PROVE  TakenAt(f) = IF Has(msg_type_r, f) THEN Span(msg_type_r, f) ELSE {}
PROOF
<1> USE DEF TakenAt, Has, First, Width, Fields
<1>1. CASE f = "loc"
  BY <1>1 DEF Span
<1>2. CASE f = "ts"
  BY <1>2 DEF Span
<1>3. CASE f = "ref"
  BY <1>3 DEF Span
<1>4. CASE f = "new_ref"
  BY <1>4 DEF Span, NewRefAt, is_replace
<1>5. CASE f = "sh"
  <2>1. TakenAt(f) = SharesAt /\ Has(msg_type_r, f)
    BY <1>5
  <2>2. SharesAt = Span(msg_type_r, f)
    <3>1. Width[f] = 4
      BY <1>5
    <3>2. First(msg_type_r, f) = IF msg_type_r \in AddFields THEN 20
                                   ELSE IF msg_type_r = "U" THEN 27 ELSE 19
      BY <1>5
    <3> HIDE DEF TakenAt, Has, First, Width, Fields
    <3>3. Span(msg_type_r, f) = First(msg_type_r, f) .. First(msg_type_r, f) + 4 - 1
      BY <3>1 DEF Span
    <3>4. Span(msg_type_r, f) = IF msg_type_r \in AddFields THEN 20 .. 23
                                  ELSE IF msg_type_r = "U" THEN 27 .. 30 ELSE 19 .. 22
      <4>1. CASE msg_type_r \in AddFields
        BY <3>2, <3>3, <4>1
      <4>2. CASE msg_type_r \notin AddFields /\ msg_type_r = "U"
        BY <3>2, <3>3, <4>2
      <4>3. CASE msg_type_r \notin AddFields /\ msg_type_r # "U"
        BY <3>2, <3>3, <4>3
      <4> QED BY <4>1, <4>2, <4>3
    <3> QED BY <3>4 DEF SharesAt, is_addfields, is_replace
  <2> QED BY <2>1, <2>2, Zenon
<1>6. CASE f = "pr"
  <2>1. TakenAt(f) = PriceAt
    BY <1>6
  <2>2. PriceAt = IF Has(msg_type_r, f) THEN Span(msg_type_r, f) ELSE {}
    <3>1. Width[f] = 4
      BY <1>6
    <3>2. First(msg_type_r, f) = IF msg_type_r = "U" THEN 31 ELSE 32
      BY <1>6
    <3>3. Has(msg_type_r, f) <=> msg_type_r \in AddFields \cup {"C", "U"}
      BY <1>6
    <3> HIDE DEF TakenAt, Has, First, Width, Fields
    <3>4. Span(msg_type_r, f) = First(msg_type_r, f) .. First(msg_type_r, f) + 4 - 1
      BY <3>1 DEF Span
    <3>5. Span(msg_type_r, f) = IF msg_type_r = "U" THEN 31 .. 34 ELSE 32 .. 35
      <4>1. CASE msg_type_r = "U"
        BY <3>2, <3>4, <4>1
      <4>2. CASE msg_type_r # "U"
        BY <3>2, <3>4, <4>2
      <4> QED BY <4>1, <4>2
    <3> QED BY <3>3, <3>5
            DEF PriceAt, is_addfields, is_replace, is_exec_price, AddFields
  <2> QED BY <2>1, <2>2, Zenon
<1> QED BY <1>1, <1>2, <1>3, <1>4, <1>5, <1>6

LEMMA FirstByteNotTaken == \A f \in Fields : 0 \notin TakenAt(f)
PROOF BY DEF TakenAt, Fields, NewRefAt, SharesAt, PriceAt

\* What is known of the message under way.
LEMMA UnderWay ==
  ASSUME PInv, cur # NoMessage
  PROVE  /\ cur \in AnyMessage /\ cur \in Message(cur.id) /\ cur.id \in 1 .. MAX_MESSAGES
         /\ cur.type \in Types /\ cur.type \in Kinds
         /\ cur.sell \in BOOLEAN /\ (cur.sell => cur.type \in AddFields)
         /\ byte_cnt = at /\ at \in Nat /\ at < Length[cur.type] /\ Length[cur.type] \in 12 .. 44
         /\ (at > 0 => msg_type_r = cur.type)
PROOF
<1>1. /\ cur \in Message(cur.id) /\ cur.id \in 1 .. MAX_MESSAGES
      /\ byte_cnt = at /\ at \in Nat /\ at < Length[cur.type]
      /\ (at > 0 => msg_type_r = cur.type)
  BY DEF PInv, InStep
<1>2. cur.id \in Nat
  BY <1>1, FeedAssumption
<1> QED BY <1>1, <1>2, MessageType, Table

\* The registers with the byte on the bus are in step with the byte after it.
LEMMA NextRegisters ==
  ASSUME PInv, cur # NoMessage, NEW f \in Fields
  PROVE  /\ nxt(Byte)[f] \in Register(f)
         /\ Has(cur.type, f) => Ends(nxt(Byte)[f], cur, f, at + 1)
PROOF
<1>1. /\ cur \in AnyMessage /\ cur.type \in Kinds /\ byte_cnt = at /\ at \in Nat
      /\ (at > 0 => msg_type_r = cur.type)
  BY UnderWay
<1>2. sr[f] \in Register(f) /\ (Has(cur.type, f) => Ends(sr[f], cur, f, at))
  BY DEF PInv, Registers, Holds
<1>3. Byte = [msg |-> cur, pos |-> at]
  BY DEF Byte
<1>4. nxt(Byte)[f] = IF byte_cnt \in TakenAt(f) THEN Append(Tail(sr[f]), Byte) ELSE sr[f]
  BY DEF nxt
<1>5. Has(cur.type, f) => (at \in TakenAt(f) <=> at \in Span(cur.type, f))
  <2>1. CASE at = 0
    <3>1. First(cur.type, f) > 0
      BY FirstType
    <3>2. 0 \notin Span(cur.type, f)
      BY <3>1, FirstType DEF Span
    <3> QED BY <2>1, <3>2, FirstByteNotTaken
  <2>2. CASE at > 0
    BY <1>1, <2>2, TakenSpan
  <2> QED BY <1>1, <2>1, <2>2
<1>6. ~Has(cur.type, f) => at \notin TakenAt(f)
  <2>1. CASE at = 0
    BY <2>1, FirstByteNotTaken
  <2>2. CASE at > 0
    BY <1>1, <2>2, TakenSpan
  <2> QED BY <1>1, <2>1, <2>2
<1>7. CASE Has(cur.type, f)
  <2> DEFINE new == nxt(Byte)[f]
  <2>1. new = IF at \in Span(cur.type, f)
                THEN Append(Tail(sr[f]), [msg |-> cur, pos |-> at]) ELSE sr[f]
    BY <1>1, <1>3, <1>4, <1>5, <1>7
  <2> HIDE DEF new
  <2>2. new \in Register(f) /\ Ends(new, cur, f, at + 1)
    BY <1>1, <1>2, <1>7, <2>1, ShiftEnds
  <2> QED BY <2>2 DEF new
<1>8. CASE ~Has(cur.type, f)
  BY <1>1, <1>2, <1>4, <1>6, <1>8
<1> QED BY <1>7, <1>8

LEMMA NextSide ==
  ASSUME PInv, cur # NoMessage
  PROVE  /\ side_nxt(Byte) \in BOOLEAN
         /\ at + 1 > 19 /\ cur.type \in AddFields => side_nxt(Byte) = cur.sell
PROOF
<1>1. /\ byte_cnt = at /\ at \in Nat /\ cur.sell \in BOOLEAN
      /\ (at > 0 => msg_type_r = cur.type)
  BY UnderWay
<1>2. side_r \in BOOLEAN /\ (at > 19 /\ cur.type \in AddFields => side_r = cur.sell)
  BY DEF PInv, Registers, Holds
<1>3. side_nxt(Byte) = IF is_addfields /\ at = 19 THEN cur.sell /\ at = 19 ELSE side_r
  BY <1>1 DEF side_nxt, Byte
<1>4. CASE at = 19
  BY <1>1, <1>2, <1>3, <1>4 DEF is_addfields
<1>5. CASE at # 19
  BY <1>1, <1>2, <1>3, <1>5
<1> QED BY <1>4, <1>5

-----------------------------------------------------------------------------
LEMMA ZerosRegister == \A f \in Fields : Zeros(Width[f]) \in Register(f)
PROOF
<1> TAKE f \in Fields
<1>1. Width[f] \in Nat
  BY DEF Fields, Width
<1>2. ZeroByte \in AnyByte
  BY NoMessageType DEF ZeroByte, AnyByte
<1>3. Zeros(Width[f]) \in [1 .. Width[f] -> AnyByte]
  BY <1>2 DEF Zeros
<1> HIDE DEF Zeros
<1>4. Zeros(Width[f]) \in Seq(AnyByte) /\ Len(Zeros(Width[f])) = Width[f]
  BY <1>1, <1>3
<1> QED BY <1>4 DEF Register

LEMMA PInvInit == Init => PInv
PROOF
<1> SUFFICES ASSUME Init PROVE PInv
  OBVIOUS
<1>1. /\ byte_cnt = 0 /\ msg_type_r = "none" /\ side_r = FALSE
      /\ sr = [f \in Fields |-> Zeros(Width[f])]
      /\ m_valid = FALSE /\ msg_unsupported = FALSE
      /\ cur \in Message(1) /\ at = 0 /\ owed = <<>>
  BY DEF Init, InitRegisters
<1>2. \A f \in Fields : Zeros(Width[f]) \in Register(f)
  BY ZerosRegister
<1>3. Registers
  BY <1>1, <1>2 DEF Registers
<1>4. cur \in AnyMessage /\ cur.id = 1 /\ cur # NoMessage /\ cur.type \in Kinds
  BY <1>1, MessageType
<1>5. InStep
  <2>1. Length[cur.type] \in 12 .. 44
    BY <1>4, Table
  <2>2. cur \in Message(cur.id) /\ cur.id \in 1 .. MAX_MESSAGES
    BY <1>1, <1>4, FeedAssumption
  <2>3. at < Length[cur.type] /\ at \in Nat /\ ~(at > 0) /\ byte_cnt = at
    <3>1. at = 0 /\ byte_cnt = 0
      BY <1>1
    <3> QED BY <2>1, <3>1
  <2> QED BY <2>2, <2>3 DEF InStep
<1>6. ASSUME NEW f \in Fields PROVE Ends(sr[f], cur, f, 0)
  <2>1. Reach(cur.type, f, 0) = 0 /\ First(cur.type, f) \in 1 .. 32
    BY FirstType DEF Reach
  <2> QED BY <2>1 DEF Ends
<1>7. Holds
  BY <1>1, <1>6 DEF Holds
<1>8. PresentsOwed /\ owed \in Seq(AnyMessage)
  BY <1>1 DEF PresentsOwed
<1> QED BY <1>3, <1>5, <1>7, <1>8 DEF PInv

-----------------------------------------------------------------------------
(* What the parser does with a message it holds, when no other is put there. *)
LEMMA KeptOwed ==
  ASSUME PInv, NEW m_ready \in BOOLEAN
  PROVE  /\ Kept(m_ready) \in Seq(AnyMessage)
         /\ m_valid /\ ~m_ready => Kept(m_ready) = owed
         /\ ~(m_valid /\ ~m_ready) => Kept(m_ready) = <<>>
PROOF
<1>1. owed \in Seq(AnyMessage) /\ Len(owed) = (IF m_valid THEN 1 ELSE 0) /\ m_valid \in BOOLEAN
  BY DEF PInv, PresentsOwed, Registers
<1>2. CASE m_valid /\ m_ready
  <2>1. Kept(m_ready) = Tail(owed)
    BY <1>2 DEF Kept, Taken
  <2>2. Tail(owed) \in Seq(AnyMessage) /\ Len(Tail(owed)) = 0
    BY <1>1, <1>2
  <2>3. Tail(owed) = <<>>
    BY <2>2, EmptySeq
  <2> QED BY <1>2, <2>1, <2>2, <2>3
<1>3. CASE ~(m_valid /\ m_ready)
  <2>1. Kept(m_ready) = owed
    BY <1>3 DEF Kept, Taken
  <2>2. ~m_valid => owed = <<>>
    BY <1>1
  <2> QED BY <1>1, <1>3, <2>1, <2>2
<1> QED BY <1>2, <1>3

LEMMA StillPresents ==
  ASSUME PInv, NEW m_ready \in BOOLEAN,
         m_valid' = (m_valid /\ ~m_ready), out' = out, owed' = Kept(m_ready)
  PROVE  PresentsOwed' /\ owed' \in Seq(AnyMessage) /\ m_valid' \in BOOLEAN
PROOF
<1>1. PresentsOwed /\ m_valid \in BOOLEAN
  BY DEF PInv, Registers
<1>2. CASE m_valid /\ ~m_ready
  <2>1. owed' = owed /\ m_valid' = m_valid /\ out' = out /\ owed' \in Seq(AnyMessage)
    BY <1>2, KeptOwed
  <2> QED BY <1>1, <2>1 DEF PresentsOwed
<1>3. CASE ~(m_valid /\ ~m_ready)
  <2>1. owed' = <<>> /\ m_valid' = FALSE /\ owed' \in Seq(AnyMessage)
    BY <1>3, KeptOwed
  <2> QED BY <2>1 DEF PresentsOwed
<1> QED BY <1>2, <1>3

LEMMA NothingYet ==
  ASSUME NEW m, NEW f \in Fields, NEW reg
  PROVE  Ends(reg, m, f, 0)
PROOF
<1>1. Reach(m.type, f, 0) = 0 /\ First(m.type, f) \in 1 .. 32
  BY FirstType DEF Reach
<1> QED BY <1>1 DEF Ends

LEMMA StallPInv ==
  ASSUME PInv, NEW m_ready \in BOOLEAN, Stall(m_ready)
  PROVE  PInv'
PROOF
<1>1. /\ m_valid' = (m_valid /\ ~m_ready) /\ out' = out /\ owed' = Kept(m_ready)
      /\ msg_unsupported' = FALSE
      /\ UNCHANGED <<byte_cnt, msg_type_r, sr, side_r, cur, at>>
  BY DEF Stall, StallEdge
<1>2. PresentsOwed' /\ owed' \in Seq(AnyMessage) /\ m_valid' \in BOOLEAN
  BY <1>1, StillPresents
<1>3. Registers'
  BY <1>1, <1>2 DEF PInv, Registers
<1>4. InStep'
  BY <1>1 DEF PInv, InStep
<1>5. Holds'
  BY <1>1 DEF PInv, Holds
<1> QED BY <1>2, <1>3, <1>4, <1>5 DEF PInv

\* A byte comes in.
LEMMA ShiftInRegisters ==
  ASSUME PInv, cur # NoMessage, ShiftIn
  PROVE  /\ DOMAIN sr' = Fields /\ \A f \in Fields : sr'[f] \in Register(f)
         /\ side_r' \in BOOLEAN /\ msg_type_r' = cur.type
         /\ msg_type_r' \in Types \cup {"none", "data"}
PROOF
<1>1. sr' = nxt(Byte) /\ side_r' = side_nxt(Byte)
  BY DEF ShiftIn
<1>2. DOMAIN nxt(Byte) = Fields
  BY DEF nxt
<1>3. msg_type_r' = cur.type /\ cur.type \in Types
  BY UnderWay DEF ShiftIn
<1> QED BY <1>1, <1>2, <1>3, NextRegisters, NextSide

LEMMA ShiftPInv ==
  ASSUME PInv, NEW m_ready \in BOOLEAN, Shift(m_ready)
  PROVE  PInv'
PROOF
<1>1. /\ cur # NoMessage /\ ~tlast /\ ShiftIn /\ cur' = cur /\ at' = at + 1
      /\ byte_cnt' = (byte_cnt + 1) % 64 /\ msg_unsupported' = FALSE
      /\ m_valid' = (m_valid /\ ~m_ready) /\ out' = out /\ owed' = Kept(m_ready)
  BY DEF Shift, ShiftEdge
<1>2. PresentsOwed' /\ owed' \in Seq(AnyMessage) /\ m_valid' \in BOOLEAN
  BY <1>1, StillPresents
<1>3. /\ DOMAIN sr' = Fields /\ \A f \in Fields : sr'[f] \in Register(f)
      /\ side_r' \in BOOLEAN /\ msg_type_r' = cur.type
      /\ msg_type_r' \in Types \cup {"none", "data"}
  BY <1>1, ShiftInRegisters
<1>4. Registers'
  BY <1>1, <1>2, <1>3 DEF Registers
<1>5. InStep'
  <2>1. /\ cur \in Message(cur.id) /\ cur.id \in 1 .. MAX_MESSAGES /\ byte_cnt = at
        /\ at \in Nat /\ at < Length[cur.type] /\ Length[cur.type] \in 12 .. 44
    BY <1>1, UnderWay
  <2>2. at # Length[cur.type] - 1
    BY <1>1 DEF tlast
  <2>3. at + 1 < Length[cur.type] /\ (at + 1) % 64 = at + 1 /\ at + 1 \in Nat
    BY <2>1, <2>2
  <2> QED BY <1>1, <1>3, <2>1, <2>3 DEF InStep
<1>6. Holds'
  <2>1. \A f \in Fields : Has(cur.type, f) => Ends(nxt(Byte)[f], cur, f, at + 1)
    BY <1>1, NextRegisters
  <2>2. at + 1 > 19 /\ cur.type \in AddFields => side_nxt(Byte) = cur.sell
    BY <1>1, NextSide
  <2>3. sr' = nxt(Byte) /\ side_r' = side_nxt(Byte)
    BY <1>1 DEF ShiftIn
  <2> QED BY <1>1, <2>1, <2>2, <2>3 DEF Holds
<1> QED BY <1>2, <1>4, <1>5, <1>6 DEF PInv

-----------------------------------------------------------------------------
\* On the last byte, each field of the message is complete.
LEMMA FieldDone ==
  ASSUME PInv, cur # NoMessage, tlast, NEW f \in Fields, Has(cur.type, f),
         Length[cur.type] >= First(cur.type, f) + Width[f]
  PROVE  nxt(Byte)[f] = Slice(cur, First(cur.type, f), First(cur.type, f) + Width[f] - 1)
PROOF
<1>1. cur \in AnyMessage /\ at \in Nat /\ Length[cur.type] \in 12 .. 44
  BY UnderWay
<1>2. at + 1 = Length[cur.type]
  BY <1>1 DEF tlast
<1>3. nxt(Byte)[f] \in Register(f) /\ Ends(nxt(Byte)[f], cur, f, at + 1)
  BY NextRegisters
<1> DEFINE reg == nxt(Byte)[f]
<1>4. reg \in Register(f) /\ Ends(reg, cur, f, at + 1) /\ at + 1 \in Nat
      /\ at + 1 >= First(cur.type, f) + Width[f]
  BY <1>1, <1>2, <1>3
<1> HIDE DEF reg
<1>5. reg = Slice(cur, First(cur.type, f), First(cur.type, f) + Width[f] - 1)
  BY <1>1, <1>4, EndsDone
<1> QED BY <1>5 DEF reg

(* What is put on the output is what the golden parser makes of the message. *)
LEMMA DecodedGolden ==
  ASSUME PInv, cur # NoMessage, tlast, cur.type \in Supported
  PROVE  Decoded(Byte) = [parse_message(cur) EXCEPT !.sh = IF cur.type = "D"
                                                             THEN Decoded(Byte).sh ELSE @]
PROOF
<1> DEFINE t == cur.type  L == Length[t]  b == Byte  n == nxt(b)
<1>1. /\ t \in Kinds /\ cur.sell \in BOOLEAN /\ (cur.sell => t \in AddFields)
      /\ L \in 12 .. 44 /\ at = L - 1 /\ msg_type_r = t
  BY UnderWay DEF tlast
<1>2. /\ L >= 19
      /\ t \in {"E", "C", "X"} => L >= 23
      /\ t \in AddFields \cup {"C"} => L >= 36
      /\ t = "U" => L >= 35
  BY <1>1, Table
<1>3. /\ Width["loc"] = 2 /\ Width["ts"] = 6 /\ Width["ref"] = 8
      /\ Width["new_ref"] = 8 /\ Width["sh"] = 4 /\ Width["pr"] = 4
  BY DEF Width
<1>4. /\ First(t, "loc") = 1 /\ First(t, "ts") = 5 /\ First(t, "ref") = 11
      /\ First(t, "new_ref") = 19
      /\ First(t, "sh") = IF t \in AddFields THEN 20 ELSE IF t = "U" THEN 27 ELSE 19
      /\ First(t, "pr") = IF t = "U" THEN 31 ELSE 32
  BY DEF First
<1>5. /\ Has(t, "loc") /\ Has(t, "ts") /\ Has(t, "ref") /\ Has(t, "sh")
      /\ Has(t, "new_ref") <=> t = "U"
      /\ Has(t, "pr") <=> t \in AddFields \cup {"C", "U"}
  BY DEF Has
<1>6. /\ is_addfields <=> t \in AddFields
      /\ is_replace <=> t = "U"
      /\ is_exec_price <=> t = "C"
  BY <1>1 DEF is_addfields, is_replace, is_exec_price
<1>7. \A f \in Fields : Has(t, f) /\ L >= First(t, f) + Width[f]
                          => n[f] = Slice(cur, First(t, f), First(t, f) + Width[f] - 1)
  BY FieldDone
<1> HIDE DEF t, L, b, n
<1>8. n.loc = Slice(cur, 1, 2) /\ n.ts = Slice(cur, 5, 10) /\ n.ref = Slice(cur, 11, 18)
  <2>1. /\ L >= 1 + 2 /\ L >= 5 + 6 /\ L >= 11 + 8
        /\ 1 + 2 - 1 = 2 /\ 5 + 6 - 1 = 10 /\ 11 + 8 - 1 = 18
    BY <1>1, <1>2
  <2>2. "loc" \in Fields /\ "ts" \in Fields /\ "ref" \in Fields
    BY DEF Fields
  <2> QED BY <1>3, <1>4, <1>5, <1>7, <2>1, <2>2
<1>9. t = "U" => n.new_ref = Slice(cur, 19, 26)
  <2>1. 19 + 8 - 1 = 26 /\ (t = "U" => L >= 19 + 8) /\ "new_ref" \in Fields
    BY <1>1, <1>2 DEF Fields
  <2> QED BY <1>3, <1>4, <1>5, <1>7, <2>1
<1>10. t # "D" => n.sh = golden_shares(cur)
  <2>1. "sh" \in Fields
    BY DEF Fields
  <2>2. CASE t \in AddFields
    <3>1. 20 + 4 - 1 = 23 /\ L >= 20 + 4 /\ First(t, "sh") = 20
      BY <1>1, <1>2, <1>4, <2>2
    <3>2. n["sh"] = Slice(cur, 20, 23)
      BY <1>3, <1>5, <1>7, <2>1, <3>1
    <3> QED BY <2>2, <3>2 DEF golden_shares, AddFields, t
  <2>3. CASE t = "U"
    <3>1. 27 + 4 - 1 = 30 /\ L >= 27 + 4 /\ First(t, "sh") = 27
      BY <1>1, <1>2, <1>4, <2>3 DEF AddFields
    <3>2. n["sh"] = Slice(cur, 27, 30)
      BY <1>3, <1>5, <1>7, <2>1, <3>1
    <3> QED BY <2>3, <3>2 DEF golden_shares, AddFields, t
  <2>4. CASE t \in {"E", "C", "X"}
    <3>1. 19 + 4 - 1 = 22 /\ L >= 19 + 4 /\ First(t, "sh") = 19
      BY <1>1, <1>2, <1>4, <2>4 DEF AddFields
    <3>2. n["sh"] = Slice(cur, 19, 22)
      BY <1>3, <1>5, <1>7, <2>1, <3>1
    <3> QED BY <2>4, <3>2 DEF golden_shares, AddFields, t
  <2>5. t \in AddFields \cup {"U", "E", "C", "X", "D"}
    BY DEF Supported, t
  <2> QED BY <2>2, <2>3, <2>4, <2>5
<1>11. (IF is_addfields \/ is_exec_price \/ is_replace THEN n.pr ELSE Zeros(4)) = golden_price(cur)
  <2>1. "pr" \in Fields
    BY DEF Fields
  <2>2. CASE t \in AddFields \cup {"C"}
    <3>1. 32 + 4 - 1 = 35 /\ L >= 32 + 4 /\ First(t, "pr") = 32
      BY <1>1, <1>2, <1>4, <2>2 DEF AddFields
    <3>2. n["pr"] = Slice(cur, 32, 35)
      BY <1>3, <1>5, <1>7, <2>1, <2>2, <3>1
    <3> QED BY <1>6, <2>2, <3>2 DEF golden_price, AddFields, t
  <2>3. CASE t = "U"
    <3>1. 31 + 4 - 1 = 34 /\ L >= 31 + 4 /\ First(t, "pr") = 31
      BY <1>1, <1>2, <1>4, <2>3
    <3>2. n["pr"] = Slice(cur, 31, 34)
      BY <1>3, <1>5, <1>7, <2>1, <2>3, <3>1
    <3> QED BY <1>6, <2>3, <3>2 DEF golden_price, AddFields, t
  <2>4. CASE t \notin AddFields \cup {"C", "U"}
    BY <1>6, <2>4 DEF golden_price, t
  <2> QED BY <2>2, <2>3, <2>4
<1>12. (is_addfields /\ side_nxt(b)) = cur.sell
  <2>1. CASE t \in AddFields
    <3>1. at + 1 > 19
      BY <1>1, <1>2, <2>1
    <3>2. side_nxt(Byte) = cur.sell
      BY <2>1, <3>1, NextSide DEF t
    <3> QED BY <1>1, <1>6, <2>1, <3>2 DEF b
  <2>2. CASE t \notin AddFields
    BY <1>1, <1>6, <2>2
  <2> QED BY <2>1, <2>2
<1>13. Decoded(b) =
         [type |-> t, loc |-> n.loc, ts |-> n.ts, ref |-> n.ref,
          new_ref |-> IF is_replace THEN n.new_ref ELSE n.ref,
          side |-> is_addfields /\ side_nxt(b),
          sh |-> n.sh,
          pr |-> IF is_addfields \/ is_exec_price \/ is_replace THEN n.pr ELSE Zeros(4)]
  BY <1>1 DEF Decoded, n
<1>14. parse_message(cur) =
         [type |-> t, loc |-> Slice(cur, 1, 2), ts |-> Slice(cur, 5, 10),
          ref |-> Slice(cur, 11, 18),
          new_ref |-> IF t = "U" THEN Slice(cur, 19, 26) ELSE Slice(cur, 11, 18),
          side |-> cur.sell, sh |-> golden_shares(cur), pr |-> golden_price(cur)]
  BY DEF parse_message, t
<1> DEFINE D == Decoded(b)  P == parse_message(cur)
           G == [P EXCEPT !.sh = IF t = "D" THEN D.sh ELSE @]
<1>15. D = [type |-> t, loc |-> n.loc, ts |-> n.ts, ref |-> n.ref,
            new_ref |-> IF t = "U" THEN Slice(cur, 19, 26) ELSE n.ref,
            side |-> cur.sell, sh |-> n.sh, pr |-> golden_price(cur)]
  BY <1>6, <1>9, <1>11, <1>12, <1>13
<1>16. D.sh = n.sh
  BY <1>15
<1>17. G = [type |-> t, loc |-> Slice(cur, 1, 2), ts |-> Slice(cur, 5, 10),
            ref |-> Slice(cur, 11, 18),
            new_ref |-> IF t = "U" THEN Slice(cur, 19, 26) ELSE Slice(cur, 11, 18),
            side |-> cur.sell, sh |-> IF t = "D" THEN D.sh ELSE golden_shares(cur),
            pr |-> golden_price(cur)]
  BY <1>14
<1>18. (IF t = "D" THEN D.sh ELSE golden_shares(cur)) = n.sh
  BY <1>10, <1>16
<1>19. D = G
  BY <1>8, <1>15, <1>17, <1>18
<1> QED BY <1>19 DEF t, b

-----------------------------------------------------------------------------
LEMMA FinishPInv ==
  ASSUME PInv, NEW m_ready \in BOOLEAN, Finish(m_ready)
  PROVE  PInv'
PROOF
<1>1. /\ cur # NoMessage /\ tready(m_ready) /\ tlast /\ ShiftIn
      /\ byte_cnt' = 0 /\ at' = 0
      /\ owed' = Kept(m_ready) \o (IF cur.type \in Supported THEN <<cur>> ELSE <<>>)
      /\ cur' \in IF cur.id < MAX_MESSAGES THEN Message(cur.id + 1) ELSE {NoMessage}
  BY DEF Finish, FinishEdge, NextCount
<1>2. /\ cur \in AnyMessage /\ cur.id \in 1 .. MAX_MESSAGES /\ at \in Nat
      /\ at < Length[cur.type] /\ Length[cur.type] \in 12 .. 44
      /\ (at > 0 => msg_type_r = cur.type)
  BY <1>1, UnderWay
<1>3. msg_type_r = cur.type
  <2>1. at = Length[cur.type] - 1
    BY <1>1 DEF tlast
  <2>2. at > 0
    BY <1>2, <2>1
  <2> QED BY <1>2, <2>2
<1>4. /\ DOMAIN sr' = Fields /\ \A f \in Fields : sr'[f] \in Register(f)
      /\ side_r' \in BOOLEAN /\ msg_type_r' \in Types \cup {"none", "data"}
  BY <1>1, ShiftInRegisters
<1>5. InStep'
  <2>1. CASE cur.id < MAX_MESSAGES
    <3>1. cur.id + 1 \in Nat /\ cur.id + 1 \in 1 .. MAX_MESSAGES
      BY <1>2, <2>1, FeedAssumption
    <3>2. cur' \in Message(cur.id + 1)
      BY <1>1, <2>1
    <3>3. cur'.id = cur.id + 1 /\ cur'.type \in Kinds
      BY <3>1, <3>2, MessageType
    <3>4. 0 < Length[cur'.type]
      BY <3>3, Table
    <3>5. at' = 0 /\ byte_cnt' = 0
      BY <1>1
    <3> QED BY <3>1, <3>2, <3>3, <3>4, <3>5 DEF InStep
  <2>2. CASE ~(cur.id < MAX_MESSAGES)
    BY <1>1, <2>2 DEF InStep
  <2> QED BY <2>1, <2>2
<1>6. Holds'
  BY <1>1, NothingYet DEF Holds
<1>7. CASE cur.type \in Supported
  <2>1. m_valid' = TRUE /\ out' = Decoded(Byte) /\ msg_unsupported' = FALSE
    BY <1>1, <1>3, <1>7 DEF Finish, FinishEdge, is_supported
  <2>2. owed' = <<cur>>
    <3>1. Kept(m_ready) = <<>>
      BY <1>1, KeptOwed DEF tready
    <3>2. <<cur>> \in Seq(AnyMessage)
      BY <1>2
    <3> QED BY <1>1, <1>7, <3>1, <3>2, ConcatEmptySeq
  <2>3. Len(owed') = 1 /\ owed'[1] = cur /\ owed' \in Seq(AnyMessage)
    BY <1>2, <2>2
  <2>4. out' = [parse_message(owed'[1]) EXCEPT !.sh = IF owed'[1].type = "D" THEN out'.sh ELSE @]
    BY <1>1, <1>7, <2>1, <2>3, DecodedGolden
  <2>5. PresentsOwed'
    BY <2>1, <2>3, <2>4 DEF PresentsOwed
  <2>6. Registers'
    BY <1>4, <2>1 DEF Registers
  <2> QED BY <1>5, <1>6, <2>3, <2>5, <2>6 DEF PInv
<1>8. CASE cur.type \notin Supported
  <2>1. m_valid' = (m_valid /\ ~m_ready) /\ out' = out /\ msg_unsupported' = TRUE
    BY <1>1, <1>3, <1>8 DEF Finish, FinishEdge, is_supported
  <2>2. owed' = Kept(m_ready)
    BY <1>1, <1>8, KeptOwed, ConcatEmptySeq
  <2>3. PresentsOwed' /\ owed' \in Seq(AnyMessage) /\ m_valid' \in BOOLEAN
    BY <2>1, <2>2, StillPresents
  <2>4. Registers'
    BY <1>4, <2>1, <2>3 DEF Registers
  <2> QED BY <1>5, <1>6, <2>3, <2>4 DEF PInv
<1> QED BY <1>7, <1>8

LEMMA ResetPInv ==
  ASSUME PInv, Reset
  PROVE  PInv'
PROOF
<1>1. /\ byte_cnt' = 0 /\ msg_type_r' = "none" /\ side_r' = FALSE
      /\ sr' = [f \in Fields |-> Zeros(Width[f])]
      /\ m_valid' = FALSE /\ msg_unsupported' = FALSE
      /\ cur' = cur /\ at' = 0 /\ owed' = <<>>
  BY DEF Reset, ResetEdge
<1>2. Registers'
  BY <1>1, ZerosRegister DEF Registers
<1>3. InStep'
  <2>1. CASE cur = NoMessage
    BY <1>1, <2>1 DEF InStep
  <2>2. CASE cur # NoMessage
    <3>1. /\ cur \in Message(cur.id) /\ cur.id \in 1 .. MAX_MESSAGES
          /\ Length[cur.type] \in 12 .. 44
      BY <2>2, UnderWay
    <3>2. 0 < Length[cur.type]
      BY <3>1
    <3> QED BY <1>1, <3>1, <3>2 DEF InStep
  <2> QED BY <2>1, <2>2
<1>4. Holds'
  BY <1>1, NothingYet DEF Holds
<1>5. PresentsOwed' /\ owed' \in Seq(AnyMessage)
  BY <1>1 DEF PresentsOwed
<1> QED BY <1>2, <1>3, <1>4, <1>5 DEF PInv

LEMMA PInvNext == PInv /\ [Next]_vars => PInv'
PROOF
<1> SUFFICES ASSUME PInv, [Next]_vars PROVE PInv'
  OBVIOUS
<1>1. CASE Reset
  BY <1>1, ResetPInv
<1>2. ASSUME NEW m_ready \in BOOLEAN, Edge(m_ready)
      PROVE  PInv'
  BY <1>2, StallPInv, ShiftPInv, FinishPInv DEF Edge
<1>3. CASE UNCHANGED vars
  <2>1. Registers'
    BY <1>3 DEF vars, PInv, Registers
  <2>2. InStep'
    BY <1>3 DEF vars, PInv, InStep
  <2>3. Holds'
    BY <1>3 DEF vars, PInv, Holds
  <2>4. PresentsOwed' /\ owed' \in Seq(AnyMessage)
    BY <1>3 DEF vars, PInv, PresentsOwed
  <2> QED BY <2>1, <2>2, <2>3, <2>4 DEF PInv
<1> QED BY <1>1, <1>2, <1>3 DEF Next

LEMMA ParserInvariant == Spec => []PInv
PROOF BY PInvInit, PInvNext, PTL DEF Spec

-----------------------------------------------------------------------------
(* Every register keeps its width, and six bits are enough to count bytes.   *)
THEOREM ParserTypeCorrect == Spec => []TypeOK
PROOF
<1>1. PInv => TypeOK
  <2> SUFFICES ASSUME PInv PROVE TypeOK
    OBVIOUS
  <2>1. \A f \in Fields : Len(sr[f]) = Width[f]
    BY DEF PInv, Registers, Register
  <2>2. CASE cur = NoMessage
    <3>1. byte_cnt = 0 /\ at = 0
      <4>1. byte_cnt = at
        BY DEF PInv, InStep
      <4>2. NoMessage.id = 0
        BY DEF NoMessage
      <4>3. CASE at = 0
        BY <4>1, <4>3
      <4>4. CASE cur.id \in 1 .. MAX_MESSAGES
        BY <2>2, <4>2, <4>4, FeedAssumption
      <4> QED BY <4>3, <4>4 DEF PInv, InStep
    <3>2. byte_cnt \in 0 .. 43 /\ at \in 0 .. 43
      BY <3>1
    <3> QED BY <2>1, <2>2, <3>2 DEF PInv, Registers, TypeOK
  <2>3. CASE cur # NoMessage
    <3>1. /\ byte_cnt = at /\ at \in Nat /\ at < Length[cur.type]
          /\ Length[cur.type] \in 12 .. 44 /\ cur \in Message(cur.id)
      BY <2>3, UnderWay
    <3>2. byte_cnt \in 0 .. 43 /\ at \in 0 .. 43
      BY <3>1
    <3> QED BY <2>1, <3>1, <3>2 DEF PInv, Registers, TypeOK
  <2> QED BY <2>2, <2>3
<1> QED BY <1>1, ParserInvariant, PTL

(* For any feed, what is presented is each supported message once, in order  *)
(* and as the golden parser decodes it, however the book stalls.             *)
THEOREM EveryMessagePresented == Spec => []PresentsOwed
PROOF
<1>1. PInv => PresentsOwed
  BY DEF PInv
<1> QED BY <1>1, ParserInvariant, PTL
=============================================================================
