------------------------- MODULE LatencyCounterProofs -------------------------
(* For any number of buckets, counter width, host and pulses: the registers   *)
(* keep their widths, a read after a clear is clean, the last sample is the   *)
(* latency of the last message answered, and the histogram counts each        *)
(* message answered once.                                                     *)
EXTENDS LatencyCounter, FiniteSetTheorems, TLAPS

Words == 0 .. CNT_WORD - 1

AroundOK == now \in Nat /\ clears \in Nat /\ since \in Nat /\ asked \in Nat

(* The registers are still as a clear, or a reset, has left them. *)
Cleared == last_latency_cycles = 0 /\ \A b \in Buckets : hist[b] = 0

SinceClear ==
    /\ asked <= clears
    /\ wr.do_clear => asked < clears
    /\ ~wr.do_clear /\ since = 0 => Cleared

CInv == TypeOK /\ AroundOK /\ SinceClear /\ ReadsAfterClear

(* What the registers are told at an edge. *)
Taken(msg_start, decision_valid, aw, w, bready, ar, rready) ==
    /\ msg_start \in BOOLEAN /\ decision_valid \in BOOLEAN
    /\ aw \in Offers /\ ar \in Offers /\ w \in {{}, {0}, {1}}
    /\ bready \in BOOLEAN /\ rready \in BOOLEAN

-----------------------------------------------------------------------------
LEMMA WordMod ==
  /\ CNT_WORD \in Nat /\ 0 \in Words /\ Words \subseteq Nat
  /\ \A x \in Int : x % CNT_WORD \in Words
PROOF BY CounterAssumption DEF Words

LEMMA BucketMember == TypeOK => delta \in Words /\ bucket \in Buckets
PROOF
<1> SUFFICES ASSUME TypeOK PROVE delta \in Words /\ bucket \in Buckets
  OBVIOUS
<1>1. free_cnt - t0 \in Int
  BY CounterAssumption DEF TypeOK
<1>2. delta \in Words
  BY <1>1, WordMod DEF delta
<1>3. delta \in Nat
  BY <1>2, WordMod
<1> QED BY <1>2, <1>3, CounterAssumption DEF bucket, Buckets

LEMMA OfferMember ==
  ASSUME NEW o \in Offers, o # {}
  PROVE  (CHOOSE a \in o : TRUE) \in Addresses
PROOF BY OffersAssumption

LEMMA RegisterType ==
  ASSUME TypeOK, NEW a \in Addresses
  PROVE  /\ Register(a) \in Words \cup {DEAD_BEEF}
         /\ Cleared /\ a # Clear => Register(a) = 0
PROOF
<1>1. CASE a = Last
  <2>1. Register(a) = last_latency_cycles
    <3>1. a[1] # "hist"
      BY <1>1 DEF Last
    <3> QED BY <1>1, <3>1 DEF Register
  <2>2. last_latency_cycles \in Words
    BY DEF TypeOK, Words
  <2> QED BY <2>1, <2>2 DEF Cleared
<1>2. CASE a = Clear
  BY <1>2 DEF Register, Last, Clear
<1>3. ASSUME NEW i \in Buckets, a = Hist(i)
      PROVE  /\ Register(a) \in Words \cup {DEAD_BEEF}
             /\ Cleared => Register(a) = 0
  <2>1. a # Last /\ a[1] = "hist" /\ a[2] = i
    BY <1>3 DEF Hist, Last
  <2>2. Register(a) = hist[i]
    BY <2>1 DEF Register
  <2>3. hist[i] \in Words
    BY DEF TypeOK, Words
  <2> QED BY <2>2, <2>3 DEF Cleared
<1> QED BY <1>1, <1>2, <1>3 DEF Addresses

-----------------------------------------------------------------------------
LEMMA CounterTypes ==
  ASSUME TypeOK, NEW msg_start, NEW decision_valid, NEW aw, NEW w,
         NEW bready, NEW ar, NEW rready,
         Taken(msg_start, decision_valid, aw, w, bready, ar, rready),
         CounterEdge(msg_start, decision_valid, aw, w, bready, ar, rready)
  PROVE  TypeOK'
PROOF
<1>1. free_cnt' \in Words
  <2>1. free_cnt + 1 \in Int
    BY CounterAssumption DEF TypeOK
  <2> QED BY <2>1, WordMod DEF CounterEdge
<1>2. t0' \in Words /\ measuring' \in BOOLEAN
  BY DEF CounterEdge, T0Edge, TypeOK, Words, Taken
<1>3. last_latency_cycles' \in Words /\ hist' \in [Buckets -> Words]
  <2>1. CASE wr.do_clear
    BY <2>1, WordMod DEF CounterEdge, HistEdge, NoSamples
  <2>2. CASE ~wr.do_clear /\ Sampled(decision_valid)
    <3>1. last_latency_cycles' = delta /\ hist' = [hist EXCEPT ![bucket] = (@ + 1) % CNT_WORD]
      BY <2>2 DEF CounterEdge, HistEdge
    <3>2. hist \in [Buckets -> Words] /\ bucket \in Buckets /\ delta \in Words
      BY BucketMember DEF TypeOK, Words
    <3>3. (hist[bucket] + 1) % CNT_WORD \in Words
      <4>1. hist[bucket] \in Words
        BY <3>2
      <4> DEFINE h == hist[bucket]
      <4>2. h + 1 \in Int
        <5> HIDE DEF h
        <5>1. h \in Nat
          BY <4>1, WordMod DEF h
        <5> QED BY <5>1
      <4> QED BY <4>2, WordMod
    <3> QED BY <3>1, <3>2, <3>3
  <2>3. CASE ~wr.do_clear /\ ~Sampled(decision_valid)
    BY <2>3 DEF CounterEdge, HistEdge, TypeOK, Words
  <2> QED BY <2>1, <2>2, <2>3
<1>4. wr' \in [aw_active : BOOLEAN, aw_addr_lat : Addresses, bvalid : BOOLEAN,
               do_clear : BOOLEAN]
  <2>1. aw # {} => (CHOOSE a \in aw : TRUE) \in Addresses
    BY OfferMember DEF Taken
  <2> QED BY <2>1 DEF CounterEdge, WriteEdge, awready, TypeOK, Taken
<1>5. rd' \in [ar_active : BOOLEAN, ar_addr_lat : Addresses, rvalid : BOOLEAN,
               rdata : Words \cup {DEAD_BEEF}]
  <2>1. ar # {} => (CHOOSE a \in ar : TRUE) \in Addresses
    BY OfferMember DEF Taken
  <2>2. rd.ar_addr_lat \in Addresses /\ rd.rdata \in Words \cup {DEAD_BEEF}
    BY DEF TypeOK, Words
  <2>3. Register(rd.ar_addr_lat) \in Words \cup {DEAD_BEEF}
    BY <2>2, RegisterType
  <2> QED BY <2>1, <2>2, <2>3 DEF CounterEdge, ReadEdge, arready, Presents, TypeOK, Taken
<1> QED BY <1>1, <1>2, <1>3, <1>4, <1>5 DEF TypeOK, Words

(* A clear that was written is carried out at the next edge, before any      *)
(* register whose address was taken after it can be presented.               *)
LEMMA EdgeSinceClear ==
  ASSUME TypeOK, AroundOK, SinceClear, NEW msg_start, NEW decision_valid, NEW aw, NEW w,
         NEW bready, NEW ar, NEW rready,
         Edge(msg_start, decision_valid, aw, w, bready, ar, rready)
  PROVE  SinceClear'
PROOF
<1>1. Remember(msg_start, decision_valid, ar) /\ HistEdge(decision_valid)
  BY DEF Edge, CounterEdge
<1>2. /\ asked' \in {asked, clears} /\ clears \in Nat /\ asked \in Nat /\ asked <= clears
      /\ clears' = IF wr'.do_clear THEN clears + 1 ELSE clears
  BY <1>1 DEF Remember, AroundOK, SinceClear
<1>3. asked' <= clears' /\ (wr'.do_clear => asked' < clears')
  BY <1>2
<1>4. ASSUME ~wr'.do_clear, since' = 0 PROVE Cleared'
  <2>1. ~decision_valid /\ since = 0
    BY <1>1, <1>4 DEF Remember, AroundOK
  <2>2. CASE wr.do_clear
    BY <1>1, <2>2 DEF HistEdge, NoSamples, Cleared
  <2>3. CASE ~wr.do_clear
    <3>1. Cleared
      BY <2>1, <2>3 DEF SinceClear
    <3>2. UNCHANGED <<last_latency_cycles, hist>>
      BY <1>1, <2>1, <2>3 DEF HistEdge, Sampled
    <3> QED BY <3>1, <3>2 DEF Cleared
  <2> QED BY <2>2, <2>3
<1> QED BY <1>3, <1>4 DEF SinceClear

LEMMA EdgeReads ==
  ASSUME CInv, NEW msg_start, NEW decision_valid, NEW aw, NEW w,
         NEW bready, NEW ar, NEW rready,
         Edge(msg_start, decision_valid, aw, w, bready, ar, rready)
  PROVE  ReadsAfterClear'
PROOF
<1>1. Remember(msg_start, decision_valid, ar) /\ ReadEdge(ar, rready)
  BY DEF Edge, CounterEdge
<1> SUFFICES ASSUME rd'.rvalid, clean', rd'.ar_addr_lat # Clear
             PROVE  rd'.rdata = 0
  BY DEF ReadsAfterClear
<1>2. rd.ar_addr_lat \in Addresses
  BY DEF CInv, TypeOK
<1>3. CASE Presents
  <2>1. rd'.ar_addr_lat = rd.ar_addr_lat /\ rd'.rdata = Register(rd.ar_addr_lat)
    BY <1>1, <1>3 DEF ReadEdge, arready, Presents
  <2>2. asked = clears /\ since = 0
    BY <1>1, <1>3 DEF Remember
  <2>3. ~wr.do_clear
    BY <2>2 DEF CInv, SinceClear, AroundOK
  <2>4. Cleared
    BY <2>2, <2>3 DEF CInv, SinceClear
  <2> QED BY <1>2, <2>1, <2>4, RegisterType DEF CInv
<1>4. CASE ~Presents
  <2>1. rd.rvalid /\ rd'.rdata = rd.rdata /\ rd'.ar_addr_lat = rd.ar_addr_lat
    BY <1>1, <1>4 DEF ReadEdge, arready, Presents
  <2>2. clean
    BY <1>1, <1>4 DEF Remember
  <2> QED BY <2>1, <2>2 DEF CInv, ReadsAfterClear
<1> QED BY <1>3, <1>4

LEMMA StartInv ==
  ASSUME InitCounter, now = 0, clears \in Nat, since = 0, asked = 0
  PROVE  CInv
PROOF
<1>1. 0 \in Buckets /\ Hist(0) \in Addresses
  BY CounterAssumption DEF Buckets, Addresses
<1>2. TypeOK
  BY <1>1, WordMod DEF InitCounter, NoSamples, NoWrite, NoRead, TypeOK, Words
<1>3. AroundOK
  BY DEF AroundOK
<1>4. SinceClear /\ ReadsAfterClear
  BY DEF InitCounter, NoSamples, NoWrite, NoRead, SinceClear, Cleared, ReadsAfterClear
<1> QED BY <1>2, <1>3, <1>4 DEF CInv

LEMMA CInvInit == Init => CInv
PROOF
<1> SUFFICES ASSUME Init PROVE CInv
  OBVIOUS
<1> QED BY StartInv DEF Init

LEMMA ResetCInv == ASSUME CInv, Reset PROVE CInv'
PROOF
<1>1. 0 \in Buckets /\ Hist(0) \in Addresses
  BY CounterAssumption DEF Buckets, Addresses
<1>2. TypeOK'
  BY <1>1, WordMod DEF Reset, ResetEdge, NoSamples, NoWrite, NoRead, TypeOK, Words
<1>3. AroundOK'
  BY DEF CInv, AroundOK, Reset
<1>4. SinceClear' /\ ReadsAfterClear'
  BY DEF CInv, AroundOK, Reset, ResetEdge, NoSamples, NoWrite, NoRead, SinceClear,
         Cleared, ReadsAfterClear
<1> QED BY <1>2, <1>3, <1>4 DEF CInv

LEMMA EdgeCInv ==
  ASSUME CInv, NEW msg_start, NEW decision_valid, NEW aw, NEW w,
         NEW bready, NEW ar, NEW rready,
         Taken(msg_start, decision_valid, aw, w, bready, ar, rready),
         Edge(msg_start, decision_valid, aw, w, bready, ar, rready)
  PROVE  CInv'
PROOF
<1>1. TypeOK /\ AroundOK /\ SinceClear
  BY DEF CInv
<1>2. TypeOK'
  BY <1>1, CounterTypes DEF Edge
<1>3. AroundOK'
  BY <1>1 DEF Edge, Remember, AroundOK
<1>4. SinceClear' /\ ReadsAfterClear'
  BY <1>1, EdgeSinceClear, EdgeReads
<1> QED BY <1>2, <1>3, <1>4 DEF CInv

LEMMA CounterSteps ==
  ASSUME TypeOK, [Next]_vars
  PROVE  \/ Reset
         \/ \E msg_start, decision_valid, aw, w, bready, ar, rready :
              /\ Taken(msg_start, decision_valid, aw, w, bready, ar, rready)
              /\ Edge(msg_start, decision_valid, aw, w, bready, ar, rready)
         \/ UNCHANGED vars
PROOF
<1>1. wr.bvalid \in BOOLEAN /\ rd.rvalid \in BOOLEAN
  BY DEF TypeOK
<1>2. Data \subseteq {{}, {0}, {1}}
  BY DEF Data
<1> QED BY <1>1, <1>2 DEF Next, Taken, Takeable

LEMMA CInvNext == CInv /\ [Next]_vars => CInv'
PROOF
<1> SUFFICES ASSUME CInv, [Next]_vars PROVE CInv'
  OBVIOUS
<1>1. CASE UNCHANGED vars
  <2>1. TypeOK' /\ AroundOK'
    BY <1>1 DEF CInv, vars, counter, pulses, TypeOK, AroundOK
  <2>2. SinceClear' /\ ReadsAfterClear'
    BY <1>1 DEF CInv, vars, counter, SinceClear, Cleared, ReadsAfterClear
  <2> QED BY <2>1, <2>2 DEF CInv
<1>2. TypeOK
  BY DEF CInv
<1> QED BY <1>1, <1>2, CounterSteps, ResetCInv, EdgeCInv

LEMMA CounterInvariant == Spec => []CInv
PROOF BY CInvInit, CInvNext, PTL DEF Spec

(* Every register keeps its width, and every read returns a word or the      *)
(* marker of an address that is not mapped.                                  *)
THEOREM CounterTypeCorrect == Spec => []TypeOK
PROOF
<1>1. CInv => TypeOK
  BY DEF CInv
<1> QED BY <1>1, CounterInvariant, PTL

(* For any interleaving of the two channels of the bus and the decisions, a  *)
(* read asked for after a clear was taken shows nothing from before it.      *)
THEOREM ReadAfterClearIsClean == Spec => []ReadsAfterClear
PROOF
<1>1. CInv => ReadsAfterClear
  BY DEF CInv
<1> QED BY <1>1, CounterInvariant, PTL
-----------------------------------------------------------------------------
(* Arithmetic of the counters: adding a multiple of CNT_WORD changes nothing. *)
LEMMA ModFacts ==
  ASSUME NEW x \in Int
  PROVE  /\ x = (CNT_WORD * (x \div CNT_WORD)) + (x % CNT_WORD)
         /\ (x % CNT_WORD) \in Words /\ x \div CNT_WORD \in Int
PROOF BY CounterAssumption DEF Words

LEMMA ModIs ==
  ASSUME NEW x \in Int, NEW q \in Int, NEW r \in Words, x = (CNT_WORD * q) + r
  PROVE  (x % CNT_WORD) = r
PROOF BY CounterAssumption DEF Words

LEMMA ModShift ==
  ASSUME NEW x \in Int, NEW y \in Int, NEW k \in Int, x = y + (CNT_WORD * k)
  PROVE  (x % CNT_WORD) = (y % CNT_WORD)
PROOF
<1> DEFINE q == y \div CNT_WORD  r == y % CNT_WORD
<1>1. y = (CNT_WORD * q) + r /\ r \in Words /\ q \in Int
  BY ModFacts
<1> HIDE DEF q, r
<1>2. q + k \in Int /\ x = (CNT_WORD * (q + k)) + r
  <2>1. CNT_WORD \in Int /\ r \in Int
    BY <1>1, WordMod
  <2> QED BY <1>1, <2>1
<1>3. (x % CNT_WORD) = r
  BY <1>1, <1>2, ModIs
<1> QED BY <1>3 DEF r

LEMMA ModDifference ==
  ASSUME NEW a \in Int, NEW b \in Int
  PROVE  (((a % CNT_WORD) - (b % CNT_WORD)) % CNT_WORD) = ((a - b) % CNT_WORD)
PROOF
<1> DEFINE p == a \div CNT_WORD  q == b \div CNT_WORD  r == a % CNT_WORD  s == b % CNT_WORD
<1>1. /\ a = (CNT_WORD * p) + r /\ r \in Words /\ p \in Int
      /\ b = (CNT_WORD * q) + s /\ s \in Words /\ q \in Int
  BY ModFacts
<1> HIDE DEF p, q, r, s
<1>2. /\ r - s \in Int /\ a - b \in Int /\ q - p \in Int
      /\ r - s = (a - b) + (CNT_WORD * (q - p))
  <2>1. CNT_WORD \in Int /\ r \in Int /\ s \in Int
    BY <1>1, WordMod
  <2> QED BY <1>1, <2>1
<1>3. ((r - s) % CNT_WORD) = ((a - b) % CNT_WORD)
  BY <1>2, ModShift
<1> QED BY <1>3 DEF r, s

LEMMA ModSuccessor ==
  ASSUME NEW n \in Int
  PROVE  (((n % CNT_WORD) + 1) % CNT_WORD) = ((n + 1) % CNT_WORD)
PROOF
<1> DEFINE q == n \div CNT_WORD  r == n % CNT_WORD
<1>1. n = (CNT_WORD * q) + r /\ r \in Words /\ q \in Int
  BY ModFacts
<1> HIDE DEF q, r
<1>2. r + 1 \in Int /\ n + 1 \in Int /\ -q \in Int /\ r + 1 = (n + 1) + (CNT_WORD * (-q))
  <2>1. CNT_WORD \in Int /\ r \in Int
    BY <1>1, WordMod
  <2> QED BY <1>1, <2>1
<1>3. ((r + 1) % CNT_WORD) = ((n + 1) % CNT_WORD)
  BY <1>2, ModShift
<1> QED BY <1>3 DEF r

LEMMA ZeroMod == (0 % CNT_WORD) = 0
PROOF
<1>1. 0 \in Int /\ 0 \in Words /\ 0 = (CNT_WORD * 0) + 0
  BY CounterAssumption DEF Words
<1> QED BY <1>1, ModIs

-----------------------------------------------------------------------------
(* What the registers say of the pulses.  A first byte is open when it is the *)
(* last and no decision has come since or with it: then, and only then, the   *)
(* counter is measuring, from that edge.                                      *)
Open(s) == /\ \A x \in starts : x <= s
           /\ \A y \in decisions : y < s

PulsesOK ==
    /\ now \in Nat /\ epoch \in 0 .. now /\ free_cnt = now % CNT_WORD
    /\ starts \subseteq 0 .. now - 1 /\ decisions \subseteq 0 .. now - 1
    /\ IsFiniteSet(starts) /\ IsFiniteSet(decisions)

Measured ==
    /\ measuring <=> \E s \in starts : Open(s)
    /\ \A s \in starts : Open(s) => t0 = s % CNT_WORD

AInv == CInv /\ PulsesOK /\ Measured

LEMMA NothingAnswered == starts = {} => Answered = {}
PROOF BY DEF Answered

LEMMA AInvBegin ==
  ASSUME free_cnt = 0, measuring = FALSE, now = 0, starts = {}, decisions = {}, epoch = 0
  PROVE  PulsesOK /\ Measured
PROOF
<1>1. 0 \in 0 .. now /\ free_cnt = now % CNT_WORD
  BY ZeroMod
<1> QED BY <1>1, FS_EmptySet DEF PulsesOK, Measured

LEMMA EdgePulses ==
  ASSUME PulsesOK, NEW msg_start, NEW decision_valid, NEW aw, NEW w,
         NEW bready, NEW ar, NEW rready,
         Edge(msg_start, decision_valid, aw, w, bready, ar, rready)
  PROVE  PulsesOK'
PROOF
<1>1. /\ now \in Nat /\ now' = now + 1 /\ epoch' \in {epoch, now + 1}
      /\ starts' \in {starts, starts \cup {now}}
      /\ decisions' \in {decisions, decisions \cup {now}}
      /\ free_cnt' = (free_cnt + 1) % CNT_WORD
  BY DEF Edge, Remember, CounterEdge, PulsesOK
<1>2. free_cnt' = now' % CNT_WORD
  <2>1. (((now % CNT_WORD) + 1) % CNT_WORD) = ((now + 1) % CNT_WORD)
    BY <1>1, ModSuccessor
  <2> QED BY <1>1, <2>1 DEF PulsesOK
<1>3. IsFiniteSet(starts') /\ IsFiniteSet(decisions')
  BY <1>1, FS_AddElement DEF PulsesOK
<1>4. epoch' \in 0 .. now'
  BY <1>1 DEF PulsesOK
<1>5. starts' \subseteq 0 .. now' - 1 /\ decisions' \subseteq 0 .. now' - 1
  <2>1. 0 .. now - 1 \subseteq 0 .. now' - 1 /\ now \in 0 .. now' - 1
    BY <1>1
  <2> QED BY <1>1, <2>1 DEF PulsesOK
<1> QED BY <1>1, <1>2, <1>3, <1>4, <1>5 DEF PulsesOK

LEMMA EdgeMeasured ==
  ASSUME PulsesOK, Measured, NEW msg_start \in BOOLEAN, NEW decision_valid \in BOOLEAN,
         NEW aw, NEW w, NEW bready, NEW ar, NEW rready,
         Edge(msg_start, decision_valid, aw, w, bready, ar, rready)
  PROVE  Measured'
PROOF
<1>1. /\ t0' = IF msg_start THEN free_cnt ELSE t0
      /\ measuring' = IF decision_valid THEN FALSE ELSE measuring \/ msg_start
      /\ starts' = IF msg_start THEN starts \cup {now} ELSE starts
      /\ decisions' = IF decision_valid THEN decisions \cup {now} ELSE decisions
  BY DEF Edge, Remember, CounterEdge, T0Edge
<1>2. /\ now \in Nat /\ free_cnt = now % CNT_WORD
      /\ \A x \in starts : x \in Nat /\ x < now
      /\ \A y \in decisions : y \in Nat /\ y < now
  BY DEF PulsesOK
<1>3. CASE decision_valid
  <2>1. \A s \in starts' : ~Open(s)'
    <3>1. now \in decisions'
      BY <1>1, <1>3
    <3>2. \A s \in starts' : s \in Nat /\ s <= now
      BY <1>1, <1>2
    <3> QED BY <1>2, <3>1, <3>2 DEF Open
  <2>2. measuring' = FALSE
    BY <1>1, <1>3
  <2> QED BY <2>1, <2>2 DEF Measured
<1>4. CASE ~decision_valid /\ msg_start
  <2>1. PICK n \in Nat : n = now
    BY <1>2
  <2>2. starts' = starts \cup {n} /\ decisions' = decisions /\ t0' = n % CNT_WORD
        /\ measuring'
    BY <1>1, <1>2, <1>4, <2>1
  <2>3. Open(n)' /\ \A s \in starts : ~Open(s)'
    <3>1. \A x \in starts' : x <= n
      BY <1>2, <2>1, <2>2
    <3>2. \A y \in decisions' : y < n
      BY <1>2, <2>1, <2>2
    <3>3. n \in starts' /\ \A s \in starts : ~(n <= s)
      BY <1>2, <2>1, <2>2
    <3> QED BY <3>1, <3>2, <3>3 DEF Open
  <2>4. n \in starts' /\ \A s \in starts' : Open(s)' => s = n
    BY <2>2, <2>3
  <2> QED BY <2>2, <2>3, <2>4 DEF Measured
<1>5. CASE ~decision_valid /\ ~msg_start
  <2>1. starts' = starts /\ decisions' = decisions /\ t0' = t0 /\ (measuring' <=> measuring)
    BY <1>1, <1>5
  <2>2. \A s : Open(s)' <=> Open(s)
    BY <2>1 DEF Open
  <2> QED BY <2>1, <2>2 DEF Measured
<1> QED BY <1>3, <1>4, <1>5

-----------------------------------------------------------------------------
(* What an edge adds to the messages answered: the one that was open, when a  *)
(* decision comes; and a clear leaves none.                                   *)
LEMMA AnswersEdge ==
  ASSUME PulsesOK, NEW msg_start \in BOOLEAN, NEW decision_valid \in BOOLEAN, NEW ar,
         Remember(msg_start, decision_valid, ar), NEW n, n = now
  PROVE  /\ \A s \in starts, d \in decisions : Answers(s, d)' <=> Answers(s, d)
         /\ \A s \in starts : Answers(s, n)' <=> Open(s)
         /\ \A d \in decisions' : ~Answers(n, d)'
PROOF
<1>1. /\ n \in Nat
      /\ \A x \in starts : x \in Nat /\ x < n
      /\ \A y \in decisions : y \in Nat /\ y < n
      /\ starts' \in {starts, starts \cup {n}}
      /\ decisions' \in {decisions, decisions \cup {n}}
  BY DEF PulsesOK, Remember
<1>2. ASSUME NEW s \in starts, NEW d \in Nat, d <= n
      PROVE  Answers(s, d)' <=> Answers(s, d)
  <2>1. (\A x \in starts' : ~(s < x /\ x < d)) <=> (\A x \in starts : ~(s < x /\ x < d))
    BY <1>1, <1>2
  <2>2. (\A y \in decisions' : ~(s <= y /\ y < d)) <=> (\A y \in decisions : ~(s <= y /\ y < d))
    BY <1>1, <1>2
  <2> QED BY <2>1, <2>2 DEF Answers
<1>3. ASSUME NEW s \in starts
      PROVE  Answers(s, n) <=> Open(s)
  <2>1. s \in Nat /\ s < n
    BY <1>1
  <2>2. (\A x \in starts : ~(s < x /\ x < n)) <=> (\A x \in starts : x <= s)
    BY <1>1, <2>1
  <2>3. (\A y \in decisions : ~(s <= y /\ y < n)) <=> (\A y \in decisions : y < s)
    BY <1>1, <2>1
  <2> QED BY <2>1, <2>2, <2>3 DEF Answers, Open
<1>4. \A d \in decisions' : ~(n < d)
  BY <1>1
<1>5. \A s \in starts, d \in decisions : Answers(s, d)' <=> Answers(s, d)
  BY <1>1, <1>2
<1>6. \A s \in starts : Answers(s, n)' <=> Open(s)
  BY <1>1, <1>2, <1>3
<1> QED BY <1>4, <1>5, <1>6 DEF Answers

LEMMA AnsweredEdge ==
  ASSUME AInv, NEW msg_start \in BOOLEAN, NEW decision_valid \in BOOLEAN,
         NEW ar, Remember(msg_start, decision_valid, ar), NEW n, n = now
  PROVE  /\ wr.do_clear => Answered' = {}
         /\ ~wr.do_clear /\ ~Sampled(decision_valid) => Answered' = Answered
         /\ ~wr.do_clear /\ Sampled(decision_valid) =>
              \E s \in starts : /\ Answered' = Answered \cup {<<s, n>>}
                                /\ Latency(<<s, n>>) = delta
         /\ \A p \in Answered : p[2] < n
PROOF
<1>1. PulsesOK /\ Measured
  BY DEF AInv
<1>2. /\ n \in Nat /\ epoch \in Nat /\ epoch <= n
      /\ \A x \in starts : x \in Nat /\ x < n
      /\ \A y \in decisions : y \in Nat /\ y < n
      /\ starts' = IF msg_start THEN starts \cup {n} ELSE starts
      /\ decisions' = IF decision_valid THEN decisions \cup {n} ELSE decisions
      /\ epoch' = IF wr.do_clear THEN n + 1 ELSE epoch
  BY <1>1 DEF PulsesOK, Remember
<1>3. /\ \A s \in starts, d \in decisions : Answers(s, d)' <=> Answers(s, d)
      /\ \A s \in starts : Answers(s, n)' <=> Open(s)
      /\ \A d \in decisions' : ~Answers(n, d)'
  BY <1>1, AnswersEdge
<1>4. \A p : p \in Answered <=> \E s \in starts, d \in decisions :
                                  p = <<s, d>> /\ Answers(s, d) /\ d >= epoch
  BY DEF Answered
<1>5. \A p : p \in Answered' <=> \E s \in starts', d \in decisions' :
                                   p = <<s, d>> /\ Answers(s, d)' /\ d >= epoch'
  BY DEF Answered
<1>6. ASSUME wr.do_clear PROVE Answered' = {}
  <2>1. \A d \in decisions' : ~(d >= epoch')
    BY <1>2, <1>6
  <2> QED BY <1>5, <2>1
<1>7. ASSUME ~wr.do_clear
      PROVE  \A p : p \in Answered' <=>
               \/ p \in Answered
               \/ decision_valid /\ \E s \in starts : p = <<s, n>> /\ Open(s)
  <2>1. epoch' = epoch /\ n >= epoch
    BY <1>2, <1>7
  <2>2. \A p : p \in Answered' <=> \E s \in starts, d \in decisions' :
                                     p = <<s, d>> /\ Answers(s, d)' /\ d >= epoch
    BY <1>2, <1>3, <1>5, <2>1
  <2>3. CASE decision_valid
    BY <1>2, <1>3, <1>4, <2>1, <2>2, <2>3
  <2>4. CASE ~decision_valid
    BY <1>2, <1>3, <1>4, <2>2, <2>4
  <2> QED BY <2>3, <2>4
<1>8. ASSUME ~wr.do_clear, ~Sampled(decision_valid) PROVE Answered' = Answered
  <2>1. ~decision_valid \/ \A s \in starts : ~Open(s)
    BY <1>1, <1>8 DEF Sampled, Measured
  <2>2. \A p : p \in Answered' <=> p \in Answered
    BY <1>7, <1>8, <2>1
  <2> QED BY <2>2
<1>9. ASSUME ~wr.do_clear, Sampled(decision_valid)
      PROVE  \E s \in starts : /\ Answered' = Answered \cup {<<s, n>>}
                               /\ Latency(<<s, n>>) = delta
  <2>1. PICK s \in starts : Open(s) /\ t0 = s % CNT_WORD
    BY <1>1, <1>9 DEF Sampled, Measured
  <2>2. \A x \in starts : Open(x) => x = s
    BY <1>2, <2>1 DEF Open
  <2>3. \A p : p \in Answered' <=> p \in Answered \/ p = <<s, n>>
    BY <1>7, <1>9, <2>1, <2>2 DEF Sampled
  <2>4. Answered' = Answered \cup {<<s, n>>}
    BY <2>3
  <2>5. Latency(<<s, n>>) = delta
    <3>1. Latency(<<s, n>>) = (n - s) % CNT_WORD
      BY DEF Latency
    <3>2. delta = ((n % CNT_WORD) - (s % CNT_WORD)) % CNT_WORD
      BY <1>1, <2>1 DEF delta, PulsesOK
    <3>3. n \in Int /\ s \in Int
      BY <1>2
    <3> QED BY <3>1, <3>2, <3>3, ModDifference
  <2> QED BY <2>4, <2>5
<1>10. \A p \in Answered : p[2] < n
  BY <1>2, <1>4
<1> QED BY <1>6, <1>8, <1>9, <1>10

-----------------------------------------------------------------------------
(* The last sample and the histogram follow. *)
InBucket(A, b) == {p \in A : BucketOf(Latency(p)) = b}

LEMMA AnsweredFinite == PulsesOK => IsFiniteSet(Answered)
PROOF
<1> SUFFICES ASSUME PulsesOK PROVE IsFiniteSet(Answered)
  OBVIOUS
<1>1. IsFiniteSet(starts \X decisions)
  BY FS_Product DEF PulsesOK
<1>2. Answered \in SUBSET (starts \X decisions)
  BY DEF Answered
<1> QED BY <1>1, <1>2, FS_Subset

LEMMA EmptyBuckets == \A b : Cardinality(InBucket({}, b)) % CNT_WORD = 0
PROOF
<1>1. \A b : InBucket({}, b) = {}
  BY DEF InBucket
<1> QED BY <1>1, FS_EmptySet, ZeroMod

LEMMA BucketOfDelta == TypeOK => bucket = BucketOf(delta)
PROOF
<1> SUFFICES ASSUME TypeOK PROVE bucket = BucketOf(delta)
  OBVIOUS
<1>1. delta \in Nat
  BY BucketMember, WordMod
<1> HIDE DEF delta
<1> QED BY <1>1, CounterAssumption DEF bucket, BucketOf, Buckets

LEMMA EdgeCounted ==
  ASSUME AInv, AnswersCounted, NEW msg_start \in BOOLEAN, NEW decision_valid \in BOOLEAN,
         NEW ar, Remember(msg_start, decision_valid, ar), HistEdge(decision_valid)
  PROVE  AnswersCounted'
PROOF
<1>0. TypeOK /\ IsFiniteSet(Answered) /\ hist \in [Buckets -> Words]
  BY AnsweredFinite DEF AInv, CInv, TypeOK, Words
<1>1. PICK n : n = now
  OBVIOUS
<1>2. \A b \in Buckets : hist[b] = Cardinality(InBucket(Answered, b)) % CNT_WORD
  BY DEF AnswersCounted, InBucket
<1> SUFFICES ASSUME NEW b \in Buckets
             PROVE  hist'[b] = Cardinality(InBucket(Answered', b)) % CNT_WORD
  BY DEF AnswersCounted, InBucket, Latency, BucketOf, Buckets
<1>3. CASE wr.do_clear
  <2>1. Answered' = {}
    BY <1>1, <1>3, AnsweredEdge
  <2>2. hist' = NoSamples
    BY <1>3 DEF HistEdge
  <2> QED BY <2>1, <2>2, EmptyBuckets DEF NoSamples
<1>4. CASE ~wr.do_clear /\ ~Sampled(decision_valid)
  <2>1. Answered' = Answered
    BY <1>1, <1>4, AnsweredEdge
  <2>2. hist' = hist
    BY <1>4 DEF HistEdge
  <2> QED BY <1>2, <2>1, <2>2
<1>5. CASE ~wr.do_clear /\ Sampled(decision_valid)
  <2>1. PICK s \in starts : /\ Answered' = Answered \cup {<<s, n>>}
                            /\ Latency(<<s, n>>) = delta
    BY <1>1, <1>5, AnsweredEdge
  <2> DEFINE x == <<s, n>>  A == Answered  S == InBucket(Answered, b)
  <2>2. x \notin A
    <3>1. n \in Nat /\ x[2] = n
      BY <1>1 DEF AInv, PulsesOK
    <3>2. \A p \in A : p[2] < n
      BY <1>1, AnsweredEdge
    <3> QED BY <3>1, <3>2
  <2>3. BucketOf(Latency(x)) = bucket
    BY <1>0, <2>1, BucketOfDelta
  <2>4. hist'[b] = IF b = bucket THEN (hist[b] + 1) % CNT_WORD ELSE hist[b]
    BY <1>0, <1>5 DEF HistEdge
  <2>5. Answered' = A \cup {x}
    BY <2>1
  <2>6. hist[b] = Cardinality(S) % CNT_WORD /\ IsFiniteSet(S)
    <3>1. S \in SUBSET Answered
      BY DEF InBucket
    <3> QED BY <1>0, <1>2, <3>1, FS_Subset
  <2>7. S = InBucket(A, b)
    OBVIOUS
  <2> HIDE DEF x, A, S
  <2>8. CASE b = bucket
    <3>1. InBucket(A \cup {x}, b) = S \cup {x} /\ x \notin S
      BY <2>2, <2>3, <2>7, <2>8 DEF InBucket
    <3>2. Cardinality(S \cup {x}) = Cardinality(S) + 1 /\ Cardinality(S) \in Nat
      BY <2>6, <3>1, FS_AddElement, FS_CardinalityType
    <3>3. (((Cardinality(S) % CNT_WORD) + 1) % CNT_WORD) = ((Cardinality(S) + 1) % CNT_WORD)
      BY <3>2, ModSuccessor
    <3> QED BY <2>4, <2>5, <2>6, <2>8, <3>1, <3>2, <3>3
  <2>9. CASE b # bucket
    <3>1. InBucket(A \cup {x}, b) = S
      BY <2>3, <2>7, <2>9 DEF InBucket
    <3> QED BY <2>4, <2>5, <2>6, <2>9, <3>1
  <2> QED BY <2>8, <2>9
<1> QED BY <1>3, <1>4, <1>5

LEMMA EdgeLast ==
  ASSUME AInv, LastSample, NEW msg_start \in BOOLEAN, NEW decision_valid \in BOOLEAN,
         NEW ar, Remember(msg_start, decision_valid, ar), HistEdge(decision_valid)
  PROVE  LastSample'
PROOF
<1>1. PICK n : n = now
  OBVIOUS
<1>2. CASE wr.do_clear
  <2>1. Answered' = {} /\ last_latency_cycles' = 0
    BY <1>1, <1>2, AnsweredEdge DEF HistEdge
  <2> QED BY <2>1 DEF LastSample
<1>3. CASE ~wr.do_clear /\ ~Sampled(decision_valid)
  <2>1. Answered' = Answered /\ last_latency_cycles' = last_latency_cycles
    BY <1>1, <1>3, AnsweredEdge DEF HistEdge
  <2> QED BY <2>1 DEF LastSample, Latency
<1>4. CASE ~wr.do_clear /\ Sampled(decision_valid)
  <2>1. PICK s \in starts : /\ Answered' = Answered \cup {<<s, n>>}
                            /\ Latency(<<s, n>>) = delta
    BY <1>1, <1>4, AnsweredEdge
  <2>2. last_latency_cycles' = delta
    BY <1>4 DEF HistEdge
  <2>3. \A p \in Answered : p[2] < n
    BY <1>1, AnsweredEdge
  <2> DEFINE x == <<s, n>>
  <2>4. x[2] = n /\ n \in Nat
    BY <1>1 DEF AInv, PulsesOK
  <2>5. \A q \in Answered : q[2] \in Nat
    <3>1. \A q \in Answered : q[2] \in decisions
      BY DEF Answered
    <3>2. \A d \in decisions : d \in Nat
      BY <2>4 DEF AInv, PulsesOK
    <3> QED BY <3>1, <3>2
  <2>6. x \in Answered' /\ \A q \in Answered' : q[2] <= x[2]
    BY <2>1, <2>3, <2>4, <2>5
  <2>7. last_latency_cycles' = Latency(x)
    BY <2>1, <2>2
  <2> HIDE DEF x
  <2> QED BY <2>6, <2>7 DEF LastSample, Latency
<1> QED BY <1>2, <1>3, <1>4

LEMMA AnswersBegin ==
  ASSUME starts = {}, last_latency_cycles = 0, hist = NoSamples
  PROVE  LastSample /\ AnswersCounted
PROOF
<1>1. Answered = {}
  BY NothingAnswered
<1>2. \A b \in Buckets : hist[b] = Cardinality(InBucket(Answered, b)) % CNT_WORD
  BY <1>1, EmptyBuckets DEF NoSamples
<1> QED BY <1>1, <1>2 DEF LastSample, AnswersCounted, InBucket

(* All of it is inductive together. *)
LInv == AInv /\ LastSample /\ AnswersCounted

LEMMA LInvNext == LInv /\ [Next]_vars => LInv'
PROOF
<1> SUFFICES ASSUME LInv, [Next]_vars PROVE LInv'
  OBVIOUS
<1>1. CInv' /\ TypeOK
  BY CInvNext DEF LInv, AInv, CInv
<1>2. CASE Reset
  <2>1. /\ free_cnt' = 0 /\ measuring' = FALSE /\ last_latency_cycles' = 0
        /\ hist' = NoSamples
        /\ now' = 0 /\ starts' = {} /\ decisions' = {} /\ epoch' = 0
    BY <1>2 DEF Reset, ResetEdge
  <2>2. PulsesOK' /\ Measured'
    <3>1. 0 \in 0 .. now' /\ free_cnt' = now' % CNT_WORD
      BY <2>1, ZeroMod
    <3> QED BY <2>1, <3>1, FS_EmptySet DEF PulsesOK, Measured
  <2>3. Answered' = {}
    BY <2>1 DEF Answered
  <2>4. \A b \in Buckets : hist'[b] = Cardinality(InBucket(Answered', b)) % CNT_WORD
    BY <2>1, <2>3, EmptyBuckets DEF NoSamples
  <2>5. LastSample' /\ AnswersCounted'
    BY <2>1, <2>3, <2>4 DEF LastSample, AnswersCounted, InBucket, Latency, BucketOf, Buckets
  <2> QED BY <1>1, <2>2, <2>5 DEF LInv, AInv
<1>3. ASSUME NEW msg_start, NEW decision_valid, NEW aw, NEW w,
             NEW bready, NEW ar, NEW rready,
             Taken(msg_start, decision_valid, aw, w, bready, ar, rready),
             Edge(msg_start, decision_valid, aw, w, bready, ar, rready)
      PROVE  LInv'
  <2>1. msg_start \in BOOLEAN /\ decision_valid \in BOOLEAN
    BY <1>3 DEF Taken
  <2>2. Remember(msg_start, decision_valid, ar) /\ HistEdge(decision_valid)
    BY <1>3 DEF Edge, CounterEdge
  <2>3. PulsesOK' /\ Measured'
    BY <1>3, <2>1, EdgePulses, EdgeMeasured DEF LInv, AInv
  <2>4. LastSample' /\ AnswersCounted'
    BY <2>1, <2>2, EdgeLast, EdgeCounted DEF LInv
  <2> QED BY <1>1, <2>3, <2>4 DEF LInv, AInv
<1>4. CASE UNCHANGED vars
  <2>1. UNCHANGED <<free_cnt, t0, measuring, hist, last_latency_cycles, pulses>>
    BY <1>4 DEF vars, counter
  <2>2. PulsesOK' /\ Measured'
    BY <2>1 DEF LInv, AInv, PulsesOK, Measured, Open, pulses
  <2>3. Answered' = Answered
    BY <2>1 DEF Answered, Answers, pulses
  <2>4. LastSample' /\ AnswersCounted'
    BY <2>1, <2>3 DEF LInv, LastSample, AnswersCounted, Latency, BucketOf, Buckets
  <2> QED BY <1>1, <2>2, <2>4 DEF LInv, AInv
<1> QED BY <1>1, <1>2, <1>3, <1>4, CounterSteps

LEMMA LInvInit == Init => LInv
PROOF
<1> SUFFICES ASSUME Init PROVE LInv
  OBVIOUS
<1>1. CInv
  BY CInvInit
<1>2. PulsesOK /\ Measured
  BY AInvBegin DEF Init, InitCounter
<1>3. LastSample /\ AnswersCounted
  BY AnswersBegin DEF Init, InitCounter
<1> QED BY <1>1, <1>2, <1>3 DEF LInv, AInv

(* Whenever the pulses come and the host clears: the last sample is the time  *)
(* from the first byte to the decision of the last message answered since the *)
(* clear, modulo the counter.                                                 *)
THEOREM LastSampleIsLatency == Spec => []LastSample
PROOF
<1>1. LInv => LastSample
  BY DEF LInv
<1> QED BY <1>1, LInvInit, LInvNext, PTL DEF Spec

(* And each bucket holds, modulo its width, the number of messages answered   *)
(* since the clear whose latency it is for.                                   *)
THEOREM EveryAnswerCounted == Spec => []AnswersCounted
PROOF
<1>1. LInv => AnswersCounted
  BY DEF LInv
<1> QED BY <1>1, LInvInit, LInvNext, PTL DEF Spec
=============================================================================
