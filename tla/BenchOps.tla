------------------------------ MODULE BenchOps ------------------------------
(***************************************************************************)
(* What a cocotb test does, as a sequence of operations that Bench runs.   *)
(* Each await of a rising edge takes one edge of the device; before it the *)
(* test writes the pins in w.  Pins of one edge (reset, a message, a byte, *)
(* a pulse, AXI-Lite) fall back when they are not written again, the       *)
(* others (halt, m_ready, book) keep their value.                          *)
(***************************************************************************)
EXTENDS Integers, SequencesExt, SynthItch

BUY  == FALSE
SELL == TRUE

Unwritten == [x \in {} |-> x]

(* n edges. *)
Clocks(n, w) == <<[op |-> "clocks", n |-> n, w |-> w]>>

(* Edges until output f is high, n at most; it has to take least of them.  *)
(* With least = 0 the test looks before the first edge, else after it.     *)
Until(n, f, least, w) == <<[op |-> "until", n |-> n, f |-> f, least |-> least, w |-> w]>>

(* n edges, and after each of them the outputs in e have these values.     *)
Each(n, e, w) == <<[op |-> "each", n |-> n, e |-> e, w |-> w]>>

(* In no time: the outputs in e have these values. *)
Check(e) == <<[op |-> "check", e |-> e]>>

(* In no time: fields of the parser's output, or of the i-th output that a *)
(* monitor took, are those that the golden parser gives message i.         *)
Decodes(i, fields)  == <<[op |-> "decodes", i |-> i, fields |-> fields]>>
Captures(i, fields) == <<[op |-> "captures", i |-> i, fields |-> fields]>>

(* In no time: the golden book applies a message. *)
Apply(msg) == <<[op |-> "apply", msg |-> msg]>>

(* The bytes of a message, one an edge.  heed: a byte stays on the bus     *)
(* until s_axis_tready.                                                    *)
Send(c, heed, w) == <<[op |-> "send", c |-> c, heed |-> heed, w |-> w]>>

(* Both handshakes of an AXI-Lite access; what is read is in values, unless *)
(* that is empty.                                                          *)
Read(addr, values) == <<[op |-> "read", addr |-> addr, values |-> values]>>
Write(addr)        == <<[op |-> "write", addr |-> addr]>>

(* The same for each element, in order. *)
ForEach(s, Do(_)) == FlattenSeq([i \in DOMAIN s |-> Do(s[i])])
=============================================================================
