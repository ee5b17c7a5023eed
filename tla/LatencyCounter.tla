--------------------------- MODULE LatencyCounter ---------------------------
(***************************************************************************)
(* latency_counter as the tops wire it: msg_start at the first byte of     *)
(* each message, decision_valid from the risk check's output register, and *)
(* the host on an AXI-Lite bus.  One Edge is one clock edge.               *)
(*                                                                         *)
(* Nothing relates the two pulses: a message may be answered after an edge *)
(* or after the scan of a book, by no decision, by several (the strategy   *)
(* fires again from a standing book once its cooldown is over), or after   *)
(* the next message has begun.  Each edge brings any of them.  The edges   *)
(* at which they came since the reset are kept as history.                 *)
(***************************************************************************)
EXTENDS Integers, FiniteSets

CONSTANTS
    HIST_BUCKETS,   \* 64
    CNT_WORD,       \* 2^CNT_W: the counters wrap
    Offers,         \* addresses that the host may put on the bus, or {}
    MAX_EDGES, MAX_CLEARS   \* bounds of the runs

ASSUME CounterAssumption ==
    /\ HIST_BUCKETS \in Nat \ {0} /\ CNT_WORD \in Nat \ {0}
    /\ MAX_EDGES \in Nat /\ MAX_CLEARS \in Nat

DEAD_BEEF == -2

Buckets == 0..HIST_BUCKETS - 1
NoSamples == [i \in Buckets |-> 0]
Hist(i) == <<"hist", i>>
Last    == <<"last", 0>>
Clear   == <<"clear", 0>>
Addresses == {Hist(i) : i \in Buckets} \cup {Last, Clear}

ASSUME OffersAssumption == \A o \in Offers : o = {} \/ \E a \in Addresses : o = {a}

VARIABLES
    free_cnt, t0, measuring, hist, last_latency_cycles,
    wr,     \* write path: aw_active, aw_addr_lat, bvalid, do_clear
    rd,     \* read path:  ar_active, ar_addr_lat, rvalid, rdata
    now,        \* history: the edges since the reset, which number them from 0,
    starts, decisions,  \* those that brought a first byte, and a decision,
    epoch,      \* and the first one after the last clear was carried out
    clears, since,  \* history: clears taken, and decisions since the last of them
    asked, clean    \* history of the read: clears when its address was taken;
                    \* that clear was the last, and nothing was decided since

counter == <<free_cnt, t0, measuring, hist, last_latency_cycles>>
pulses == <<now, starts, decisions, epoch>>
vars == <<counter, wr, rd, pulses, clears, since, asked, clean>>

-----------------------------------------------------------------------------
(* Measurement *)
deltaSigned == free_cnt - t0

delta == (free_cnt - t0) % CNT_WORD
bucketUncapped == delta

bucket == IF delta >= HIST_BUCKETS THEN HIST_BUCKETS - 1 ELSE delta

T0EdgeKeepsMeasuring(msg_start, decision_valid) ==
    /\ t0' = IF msg_start /\ ~measuring THEN free_cnt ELSE t0
    /\ measuring' = (measuring \/ msg_start)

T0Edge(msg_start, decision_valid) ==
    /\ t0' = IF msg_start THEN free_cnt ELSE t0
    /\ measuring' = IF decision_valid THEN FALSE ELSE measuring \/ msg_start

Sampled(decision_valid) == decision_valid /\ measuring

HistEdge(decision_valid) ==
    \/ /\ wr.do_clear
       /\ last_latency_cycles' = 0 /\ hist' = NoSamples
    \/ /\ ~wr.do_clear /\ Sampled(decision_valid)
       /\ last_latency_cycles' = delta
       /\ hist' = [hist EXCEPT ![bucket] = (@ + 1) % CNT_WORD]
    \/ /\ ~wr.do_clear /\ ~Sampled(decision_valid)
       /\ UNCHANGED <<last_latency_cycles, hist>>

-----------------------------------------------------------------------------
(* AXI-Lite *)
awready == ~wr.aw_active /\ ~wr.bvalid
wready  == wr.aw_active /\ ~wr.bvalid

(* aw: the address offered or {}; w: the data bit offered or {}. *)
WriteEdge(aw, w, bready) ==
    LET takesAddr == aw # {} /\ awready
        takesData == w # {} /\ wready
    IN  wr' = [aw_active   |-> IF takesData THEN FALSE ELSE wr.aw_active \/ takesAddr,
               aw_addr_lat |-> IF takesAddr THEN CHOOSE a \in aw : TRUE ELSE wr.aw_addr_lat,
               bvalid      |-> IF wr.bvalid THEN ~bready ELSE takesData,
               do_clear    |-> takesData /\ wr.aw_addr_lat = Clear /\ w = {1}]

arready == ~rd.ar_active /\ ~rd.rvalid
Presents == rd.ar_active /\ ~rd.rvalid

Register(a) == CASE a = Last -> last_latency_cycles
                 [] a[1] = "hist" -> hist[a[2]]
                 [] OTHER -> DEAD_BEEF

(* The register is read when its address is taken, not when it is shown.   *)
ReadEdgeEarly(ar, rready) ==
    LET takes == ar # {} /\ arready IN
    rd' = [ar_active   |-> IF Presents THEN FALSE ELSE rd.ar_active \/ takes,
           ar_addr_lat |-> IF takes THEN CHOOSE a \in ar : TRUE ELSE rd.ar_addr_lat,
           rvalid      |-> IF rd.rvalid THEN ~rready ELSE Presents,
           rdata       |-> IF takes THEN Register(CHOOSE a \in ar : TRUE) ELSE rd.rdata]

\* Mutant: rvalid does not fall when the data is taken.
ReadEdgeKeepsValid(ar, rready) ==
    LET takes == ar # {} /\ arready IN
    rd' = [ar_active   |-> IF Presents THEN FALSE ELSE rd.ar_active \/ takes,
           ar_addr_lat |-> IF takes THEN CHOOSE a \in ar : TRUE ELSE rd.ar_addr_lat,
           rvalid      |-> rd.rvalid \/ Presents,
           rdata       |-> IF Presents THEN Register(rd.ar_addr_lat) ELSE rd.rdata]

ReadEdge(ar, rready) ==
    LET takes == ar # {} /\ arready IN
    rd' = [ar_active   |-> IF Presents THEN FALSE ELSE rd.ar_active \/ takes,
           ar_addr_lat |-> IF takes THEN CHOOSE a \in ar : TRUE ELSE rd.ar_addr_lat,
           rvalid      |-> IF rd.rvalid THEN ~rready ELSE Presents,
           rdata       |-> IF Presents THEN Register(rd.ar_addr_lat) ELSE rd.rdata]

-----------------------------------------------------------------------------
Remember(msg_start, decision_valid, ar) ==
    /\ now' = now + 1
    /\ starts' = IF msg_start THEN starts \cup {now} ELSE starts
    /\ decisions' = IF decision_valid THEN decisions \cup {now} ELSE decisions
    /\ epoch' = IF wr.do_clear THEN now + 1 ELSE epoch
    /\ clears' = IF wr'.do_clear THEN clears + 1 ELSE clears
    /\ since' = IF wr'.do_clear THEN 0 ELSE IF decision_valid THEN since + 1 ELSE since
    /\ asked' = IF ar # {} /\ arready THEN clears ELSE asked
    /\ clean' = IF Presents THEN asked > 0 /\ asked = clears /\ since = 0 ELSE clean

NoWrite == [aw_active |-> FALSE, aw_addr_lat |-> Hist(0), bvalid |-> FALSE, do_clear |-> FALSE]
NoRead  == [ar_active |-> FALSE, ar_addr_lat |-> Hist(0), rvalid |-> FALSE, rdata |-> 0]

InitCounter ==
    /\ free_cnt = 0 /\ t0 = 0 /\ measuring = FALSE
    /\ hist = NoSamples /\ last_latency_cycles = 0
    /\ wr = NoWrite /\ rd = NoRead

Init ==
    /\ InitCounter
    /\ now = 0 /\ starts = {} /\ decisions = {} /\ epoch = 0
    /\ clears = 0 /\ since = 0 /\ asked = 0 /\ clean = FALSE

(* The registers. *)
CounterEdge(msg_start, decision_valid, aw, w, bready, ar, rready) ==
    /\ free_cnt' = (free_cnt + 1) % CNT_WORD
    /\ T0Edge(msg_start, decision_valid)
    /\ HistEdge(decision_valid)
    /\ WriteEdge(aw, w, bready)
    /\ ReadEdge(ar, rready)

Edge(msg_start, decision_valid, aw, w, bready, ar, rready) ==
    /\ now < MAX_EDGES
    /\ CounterEdge(msg_start, decision_valid, aw, w, bready, ar, rready)
    /\ Remember(msg_start, decision_valid, ar)

ResetEdge ==
    /\ free_cnt' = 0 /\ t0' = 0 /\ measuring' = FALSE
    /\ hist' = NoSamples /\ last_latency_cycles' = 0
    /\ wr' = NoWrite /\ rd' = NoRead

Reset ==
    /\ ResetEdge
    /\ now' = 0 /\ starts' = {} /\ decisions' = {} /\ epoch' = 0
    /\ since' = 0 /\ asked' = 0 /\ clean' = FALSE
    /\ UNCHANGED clears

(* An offer that is not taken changes nothing: only those that are taken   *)
(* are enumerated, and {} stands for the others.                           *)
Takeable(offers, ready) == {o \in offers : o # {} => ready}
Data == {{}, {0}} \cup IF clears < MAX_CLEARS THEN {{1}} ELSE {}

Next ==
    \/ Reset
    \/ \E msg_start, decision_valid \in BOOLEAN,
          aw \in Takeable(Offers, awready), w \in Takeable(Data, wready),
          ar \in Takeable(Offers, arready),
          bready \in {FALSE, wr.bvalid}, rready \in {FALSE, rd.rvalid} :
             Edge(msg_start, decision_valid, aw, w, bready, ar, rready)

Spec == Init /\ [][Next]_vars

-----------------------------------------------------------------------------
TypeOK ==
    /\ free_cnt \in 0..CNT_WORD - 1 /\ t0 \in 0..CNT_WORD - 1 /\ measuring \in BOOLEAN
    /\ hist \in [Buckets -> 0..CNT_WORD - 1] /\ last_latency_cycles \in 0..CNT_WORD - 1
    /\ wr \in [aw_active : BOOLEAN, aw_addr_lat : Addresses, bvalid : BOOLEAN,
               do_clear : BOOLEAN]
    /\ rd \in [ar_active : BOOLEAN, ar_addr_lat : Addresses, rvalid : BOOLEAN,
               rdata : 0..CNT_WORD - 1 \cup {DEAD_BEEF}]

(* A decision answers the message whose first byte was the last to come     *)
(* before it, when no other decision has come since that byte or with it.   *)
Answers(s, d) ==
    /\ s < d
    /\ \A x \in starts : ~(s < x /\ x < d)
    /\ \A y \in decisions : ~(s <= y /\ y < d)

Answered == {p \in starts \X decisions : Answers(p[1], p[2]) /\ p[2] >= epoch}
Latency(p) == (p[2] - p[1]) % CNT_WORD

(* It has its own bucket, or is among the longest. *)
BucketOf(n) == IF n \in Buckets THEN n ELSE HIST_BUCKETS - 1

(* The last sample is the time from the last first byte to the decision     *)
(* that answered it, of the last message answered since the clear: no byte  *)
(* that comes with a decision or in between, no repeated decision and no    *)
(* wrap of the counter makes it another.                                    *)
LastSample ==
    LET A == Answered IN
    \/ A = {} /\ last_latency_cycles = 0
    \/ \E p \in A : /\ \A q \in A : q[2] <= p[2]
                   /\ last_latency_cycles = Latency(p)

(* Every message answered since the clear is in the histogram, once, in the *)
(* bucket of its latency, and nothing else is; a bucket wraps.              *)
AnswersCounted ==
    LET A == Answered IN
    \A b \in Buckets :
        hist[b] = Cardinality({p \in A : BucketOf(Latency(p)) = b}) % CNT_WORD

(* A read whose address is taken after a clear was taken does not return   *)
(* anything from before the clear.                                         *)
ReadsAfterClear ==
    rd.rvalid /\ clean /\ rd.ar_addr_lat # Clear => rd.rdata = 0
=============================================================================
