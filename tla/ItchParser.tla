----------------------------- MODULE ItchParser -----------------------------
(***************************************************************************)
(* itch_parser: an AXI-Stream of bytes in, decoded messages out, one Edge  *)
(* per rising clock edge.  A byte is not a number here but the place it    *)
(* comes from: position pos of message msg; so a register that holds the   *)
(* bytes of another field or of another message is seen to.  Field offsets *)
(* and message lengths are the real ones.                                  *)
(*                                                                         *)
(* cur and at are the DMA's side of the stream (which byte comes next);    *)
(* owed is history: the supported messages whose last byte has gone in and *)
(* that the book has not yet taken.                                        *)
(***************************************************************************)
EXTENDS Naturals, Sequences

CONSTANTS Types,            \* the message types of the feed
          MAX_MESSAGES      \* bound: messages in a behaviour

AddFields == {"A", "F", "P"}
Supported == AddFields \cup {"U", "C", "X", "D", "E"}

(* Lengths in bytes.  S, a system event, is one of the types that the      *)
(* parser does not support, and shorter than any that it does.             *)
Length == [A |-> 36, F |-> 40, X |-> 23, D |-> 19, E |-> 31, C |-> 36,
           U |-> 35, P |-> 44, S |-> 12]

ASSUME FeedAssumption == Types \subseteq DOMAIN Length /\ MAX_MESSAGES \in Nat \ {0}

(* sell: byte 19 is the character S, in the types that have a side there. *)
Message(id) ==
    {m \in [id : {id}, type : Types, sell : BOOLEAN] : m.sell => m.type \in AddFields}
NoMessage == [id |-> 0, type |-> "none", sell |-> FALSE]

Fields == {"loc", "ts", "ref", "new_ref", "sh", "pr"}
Width == [loc |-> 2, ts |-> 6, ref |-> 8, new_ref |-> 8, sh |-> 4, pr |-> 4]

VARIABLES byte_cnt, msg_type_r,
          sr,               \* the shift registers loc_sr, ts_sr, ...
          side_r,
          m_valid, out,     \* the held message
          msg_unsupported,
          cur, at, owed

vars == <<byte_cnt, msg_type_r, sr, side_r, m_valid, out, msg_unsupported, cur, at, owed>>

ZeroByte == [msg |-> NoMessage, pos |-> 0]
Zeros(n) == [i \in 1..n |-> ZeroByte]

-----------------------------------------------------------------------------
is_addfields  == msg_type_r \in AddFields
is_replace    == msg_type_r = "U"
is_exec_price == msg_type_r = "C"
is_supported  == msg_type_r \in Supported

(* The byte positions at which each shift register moves. *)
SharesAt == IF is_addfields THEN 20..23 ELSE IF is_replace THEN 27..30 ELSE 19..22
PriceAt  == IF is_addfields \/ is_exec_price THEN 32..35
              ELSE IF is_replace THEN 31..34 ELSE {}
NewRefAt == IF is_replace THEN 19..26 ELSE {}

TakenAt(f) == CASE f = "loc" -> 1..2
                [] f = "ts"  -> 5..10
                [] f = "ref" -> 11..18
                [] f = "new_ref" -> NewRefAt
                [] f = "sh"  -> SharesAt
                [] f = "pr"  -> PriceAt

(* Next values, the incoming byte included. *)
nxt(b) == [f \in Fields |-> IF byte_cnt \in TakenAt(f) THEN Append(Tail(sr[f]), b) ELSE sr[f]]

side_nxt(b) == IF is_addfields /\ byte_cnt = 19 THEN b.msg.sell /\ b.pos = 19 ELSE side_r

treadyAlways(m_ready) == TRUE

\* Mutant: no byte on the edge on which the book takes a message.
treadyIfEmpty(m_ready) == ~m_valid

tready(m_ready) == ~(m_valid /\ ~m_ready)

Byte == [msg |-> cur, pos |-> at]
tlast == at = Length[cur.type] - 1

(* m_valid falls when the book takes the message; so does what is owed. *)
Taken(m_ready) == m_valid /\ m_ready
Kept(m_ready) == IF Taken(m_ready) THEN Tail(owed) ELSE owed

-----------------------------------------------------------------------------
InitRegisters ==
    /\ byte_cnt = 0 /\ msg_type_r = "none"
    /\ sr = [f \in Fields |-> Zeros(Width[f])] /\ side_r = FALSE
    /\ m_valid = FALSE /\ out = <<>> /\ msg_unsupported = FALSE

Init ==
    /\ InitRegisters
    /\ cur \in Message(1) /\ at = 0 /\ owed = <<>>

(* No byte comes in: none is offered, or the parser holds a message. *)
StallEdge(m_ready) ==
    /\ m_valid' = (m_valid /\ ~m_ready)
    /\ msg_unsupported' = FALSE
    /\ UNCHANGED <<byte_cnt, msg_type_r, sr, side_r, out>>

(* A byte comes in: what both of the next edges do with it. *)
ShiftIn ==
    /\ sr' = nxt(Byte)
    /\ side_r' = side_nxt(Byte)
    /\ msg_type_r' = IF byte_cnt = 0 THEN (IF at = 0 THEN cur.type ELSE "data") ELSE msg_type_r

ShiftEdge(m_ready) ==
    /\ ShiftIn
    /\ byte_cnt' = (byte_cnt + 1) % 64
    /\ m_valid' = (m_valid /\ ~m_ready)
    /\ msg_unsupported' = FALSE
    /\ UNCHANGED out

Decoded(b) ==
    [type |-> msg_type_r, loc |-> nxt(b).loc, ts |-> nxt(b).ts, ref |-> nxt(b).ref,
     new_ref |-> IF is_replace THEN nxt(b).new_ref ELSE nxt(b).ref,
     side |-> is_addfields /\ side_nxt(b),
     sh |-> nxt(b).sh,
     pr |-> IF is_addfields \/ is_exec_price \/ is_replace THEN nxt(b).pr ELSE Zeros(4)]

(* The counter restarts with a decoded message only. *)
NextCountIfSupported == IF is_supported THEN 0 ELSE (byte_cnt + 1) % 64

NextCount == 0

(* The last byte: the message is put on the output, or reported. *)
FinishEdge(m_ready) ==
    /\ ShiftIn
    /\ byte_cnt' = NextCount
    /\ IF is_supported
         THEN /\ m_valid' = TRUE /\ out' = Decoded(Byte) /\ msg_unsupported' = FALSE
         ELSE /\ m_valid' = (m_valid /\ ~m_ready) /\ msg_unsupported' = TRUE
              /\ UNCHANGED out

(* The edge of the registers, with a byte on the bus if tvalid. *)
ParserEdge(tvalid, m_ready) ==
    LET taken == tvalid /\ tready(m_ready)
    IN  \/ ~taken /\ StallEdge(m_ready)
        \/ taken /\ ~tlast /\ ShiftEdge(m_ready)
        \/ taken /\ tlast /\ FinishEdge(m_ready)

ResetEdge ==
    /\ byte_cnt' = 0 /\ msg_type_r' = "none"
    /\ sr' = [f \in Fields |-> Zeros(Width[f])] /\ side_r' = FALSE
    /\ m_valid' = FALSE /\ msg_unsupported' = FALSE /\ UNCHANGED out

-----------------------------------------------------------------------------
(* The parser on its stream: the DMA moves on when a byte is taken. *)
Stall(m_ready) ==
    /\ StallEdge(m_ready)
    /\ owed' = Kept(m_ready)
    /\ UNCHANGED <<cur, at>>

Shift(m_ready) ==
    /\ cur # NoMessage /\ tready(m_ready) /\ ~tlast
    /\ ShiftEdge(m_ready)
    /\ at' = at + 1
    /\ owed' = Kept(m_ready)
    /\ UNCHANGED cur

Finish(m_ready) ==
    /\ cur # NoMessage /\ tready(m_ready) /\ tlast
    /\ FinishEdge(m_ready)
    /\ owed' = Kept(m_ready) \o (IF cur.type \in Supported THEN <<cur>> ELSE <<>>)
    /\ at' = 0
    /\ cur' \in IF cur.id < MAX_MESSAGES THEN Message(cur.id + 1) ELSE {NoMessage}

(* rst_n.  The DMA is reset with the pipeline and starts a message anew;   *)
(* the held message is lost.                                               *)
Reset ==
    /\ ResetEdge
    /\ at' = 0 /\ owed' = <<>>
    /\ UNCHANGED cur

Edge(m_ready) == Stall(m_ready) \/ Shift(m_ready) \/ Finish(m_ready)

Next == Reset \/ \E m_ready \in BOOLEAN : Edge(m_ready)

Spec == Init /\ [][Next]_vars

-----------------------------------------------------------------------------
(* Every register has its width, and the byte counter never gets past the  *)
(* longest message: its six bits do not wrap.                              *)
TypeOK ==
    /\ byte_cnt \in 0..43
    /\ msg_type_r \in Types \cup {"none", "data"}
    /\ DOMAIN sr = Fields /\ \A f \in Fields : Len(sr[f]) = Width[f]
    /\ side_r \in BOOLEAN /\ m_valid \in BOOLEAN /\ msg_unsupported \in BOOLEAN
    /\ cur \in Message(cur.id) \cup {NoMessage} /\ at \in 0..43

(* golden/itch_parser.py: what a message means.  A slice is the bytes from *)
(* first to last; raw[19:23] there is Slice(m, 19, 22).  (It leaves out    *)
(* the locate code; the RTL takes bytes 1 and 2.)                          *)
Slice(m, first, last) == [i \in 1..last - first + 1 |-> [msg |-> m, pos |-> first + i - 1]]

golden_shares(m) ==
    CASE m.type \in AddFields -> Slice(m, 20, 23)
      [] m.type \in {"C", "X", "E"} -> Slice(m, 19, 22)
      [] m.type = "U" -> Slice(m, 27, 30)
      [] m.type = "D" -> Zeros(4)

golden_price(m) ==
    CASE m.type \in AddFields \cup {"C"} -> Slice(m, 32, 35)
      [] m.type = "U" -> Slice(m, 31, 34)
      [] OTHER -> Zeros(4)

parse_message(m) ==
    [type |-> m.type, loc |-> Slice(m, 1, 2), ts |-> Slice(m, 5, 10), ref |-> Slice(m, 11, 18),
     new_ref |-> IF m.type = "U" THEN Slice(m, 19, 26) ELSE Slice(m, 11, 18),
     side |-> m.sell, sh |-> golden_shares(m), pr |-> golden_price(m)]

(* Between the last byte of a supported message and its acceptance, and at *)
(* no other time, the output is valid and is what the golden parser makes  *)
(* of that message: none lost, repeated, out of order or mixed with        *)
(* another, whatever the book's stalls.  Except the shares of a Delete:    *)
(* the RTL presents those of an earlier message, and the book does not     *)
(* read them.                                                              *)
PresentsOwed ==
    /\ Len(owed) = IF m_valid THEN 1 ELSE 0
    /\ m_valid => out = [parse_message(owed[1]) EXCEPT !.sh = IF owed[1].type = "D" THEN out.sh
                                                                                 ELSE @]
=============================================================================
