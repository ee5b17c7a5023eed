-------------------------- MODULE HostBridgeProofs --------------------------
(* The host's controls and its window of one second, for any limits and any  *)
(* decisions.                                                                *)
EXTENDS HostBridge, FiniteSetTheorems, TLAPS

(* Shares ordered are the position until a placement in queue mode raises;   *)
(* then the loop has ended, and neither may be past the limit.               *)
ExposureInv ==
    /\ position \in Int /\ placed \in Int
    /\ absolute(position) <= max_position_shares
    /\ absolute(placed) <= max_position_shares
    /\ running => placed = position

(* A valid evaluation leaves a reference price, so that a decision, which    *)
(* takes two, is never made without one.                                     *)
ReferenceInv ==
    /\ reference_price \in Nat
    /\ prev_valid => reference_price > 0
    /\ mode = "live" /\ tasks # <<>> => reference_price > 0

HInv ==
    /\ mode \in {"live", "queue"} /\ prev_valid \in BOOLEAN /\ running \in BOOLEAN
    /\ tasks \in Seq(Decisions)
    /\ ReferenceInv

LEMMA SignedInt == \A dec \in Decisions : signed(dec) \in Int
PROOF BY DEF Decisions, signed

\* What evaluate answers, and that it answers only after two valid quotes.
LEMMA Evaluated ==
  ASSUME NEW q \in Quotes, NEW p \in BOOLEAN, evaluate(q, p).some
  PROVE  evaluate(q, p) \in Decisions /\ q.book_valid /\ p
PROOF
<1>1. QuoteOK(q) /\ LOT_SIZE \in Nat
  BY HostAssumption
<1>2. \A price \in Nat : /\ Decision("BUY", price) \in Decisions
                         /\ Decision("SELL", price) \in Decisions
  BY <1>1 DEF Decision, Decisions
<1>3. ~None.some
  BY DEF None
<1>4. q.book_valid /\ p
  BY <1>3, Zenon DEF evaluate
<1>5. \/ evaluate(q, p) = Decision("BUY", q.ask) \/ evaluate(q, p) = Decision("SELL", q.bid)
      \/ evaluate(q, p) = None
  BY Zenon DEF evaluate
<1>6. evaluate(q, p) # None
  BY <1>3
<1> QED BY <1>1, <1>2, <1>4, <1>5, <1>6 DEF QuoteOK

LEMMA TaskType ==
  ASSUME HInv, Takes
  PROVE  Head(tasks) \in Decisions /\ Tail(tasks) \in Seq(Decisions)
PROOF BY DEF HInv, Takes

\* The seeding of the reference by a valid quote.
LEMMA Seeded ==
  ASSUME HInv, NEW q \in Quotes,
         reference_price' = IF q.book_valid /\ reference_price = 0
                              THEN (q.bid + q.ask) \div 2 ELSE reference_price
  PROVE  /\ reference_price' \in Nat
         /\ (q.book_valid => reference_price' > 0)
         /\ (reference_price > 0 => reference_price' > 0)
PROOF
<1>1. QuoteOK(q)
  BY HostAssumption
<1>2. reference_price \in Nat
  BY DEF HInv, ReferenceInv
<1>3. \A m, n \in Nat : m > 0 /\ n > 0 => (m + n) \div 2 \in Nat /\ (m + n) \div 2 > 0
  BY SMT
<1>4. CASE q.book_valid /\ reference_price = 0
  BY <1>1, <1>2, <1>3, <1>4 DEF QuoteOK
<1>5. CASE ~(q.book_valid /\ reference_price = 0)
  BY <1>2, <1>5
<1> QED BY <1>4, <1>5

LEMMA HInvInit == Init => HInv
PROOF
<1> SUFFICES ASSUME Init
             PROVE  HInv
  OBVIOUS
<1>1. mode \in {"live", "queue"}
  BY HostAssumption DEF Init
<1>2. tasks = <<>> /\ tasks \in Seq(Decisions)
  BY DEF Init
<1> QED BY <1>1, <1>2 DEF Init, HInv, ReferenceInv

LEMMA HInvNext == HInv /\ [Next]_vars => HInv'
PROOF
<1> SUFFICES ASSUME HInv, [Next]_vars
             PROVE  HInv'
  OBVIOUS
<1>1. ASSUME NEW q \in Quotes, Tick(q)
      PROVE  HInv'
  <2> DEFINE dec == evaluate(q, prev_valid)
  <2>1. /\ reference_price' \in Nat /\ (q.book_valid => reference_price' > 0)
        /\ (reference_price > 0 => reference_price' > 0)
    BY <1>1, Seeded DEF Tick
  <2>2. QuoteOK(q)
    BY HostAssumption
  <2>3. tasks \in Seq(Decisions) /\ prev_valid \in BOOLEAN
    BY DEF HInv
  <2>4. CASE dec.some
    <3>1. dec \in Decisions /\ q.book_valid
      BY <2>3, <2>4, Evaluated
    <3>2. tasks' = Append(tasks, dec)
      BY <1>1, <2>4 DEF Tick
    <3>3. tasks' \in Seq(Decisions)
      BY <2>3, <3>1, <3>2
    <3> QED BY <1>1, <2>1, <2>2, <3>1, <3>3 DEF Tick, HInv, ReferenceInv, QuoteOK
  <2>5. CASE ~dec.some
    <3>1. tasks' = tasks
      BY <1>1, <2>5 DEF Tick
    <3> QED BY <1>1, <2>1, <2>2, <3>1 DEF Tick, HInv, ReferenceInv, QuoteOK
  <2> QED BY <2>4, <2>5
<1>2. ASSUME NEW dec \in FpgaDecisions, Put(dec)
      PROVE  HInv'
  <2>1. dec \in Decisions
    BY HostAssumption
  <2> QED BY <1>2, <2>1 DEF Put, HInv, ReferenceInv
<1>3. CASE Block
  <2>1. Tail(tasks) \in Seq(Decisions) /\ tasks # <<>>
    BY <1>3, TaskType DEF Block, Takes
  <2> QED BY <1>3, <2>1 DEF Block, Rest, HInv, ReferenceInv
<1>4. CASE Place
  <2>1. Tail(tasks) \in Seq(Decisions) /\ tasks # <<>>
    BY <1>4, TaskType DEF Place, Takes
  <2> QED BY <1>4, <2>1 DEF Place, Rest, HInv, ReferenceInv
<1>5. CASE Fail
  <2>1. Tail(tasks) \in Seq(Decisions) /\ tasks # <<>>
    BY <1>5, TaskType DEF Fail, Takes
  <2> QED BY <1>5, <2>1 DEF Fail, Rest, HInv, ReferenceInv
<1>6. CASE Kill \/ ResetKill \/ PassTime
  BY <1>6 DEF Kill, ResetKill, PassTime, HInv, ReferenceInv
<1>7. CASE Stop
  <2>1. tasks' = <<>> /\ tasks' \in Seq(Decisions)
    BY <1>7 DEF Stop
  <2> QED BY <1>7, <2>1 DEF Stop, HInv, ReferenceInv
<1>8. CASE UNCHANGED vars
  BY <1>8 DEF vars, guard, HInv, ReferenceInv
<1> QED BY <1>1, <1>2, <1>3, <1>4, <1>5, <1>6, <1>7, <1>8 DEF Next

LEMMA HostInv == Spec => []HInv
PROOF BY HInvInit, HInvNext, PTL DEF Spec

-----------------------------------------------------------------------------
(* However late its task runs, an order is placed only while the switch is  *)
(* off, within the band, and live never without a reference for it.          *)
THEOREM OrdersUnderControls == Spec => PlacedUnderControls
PROOF
<1> DEFINE Controlled == placed' # placed => /\ ~killed
                                             /\ ~OutOfBand(Head(tasks))
                                             /\ mode = "live" => reference_price > 0
<1>1. ASSUME HInv, [Next]_vars
      PROVE  [Controlled]_vars
  <2>1. CASE Place
    <3>1. ~killed /\ ~OutOfBand(Head(tasks))
      BY <2>1, Zenon DEF Place, allowed, Early
    <3>2. mode = "live" => reference_price > 0
      BY <1>1, <2>1 DEF Place, Takes, HInv, ReferenceInv
    <3> QED BY <3>1, <3>2
  <2>2. CASE ~Place
    <3>1. placed' = placed
      BY <1>1, <2>2 DEF Next, Tick, Put, Block, Fail, Kill, ResetKill, Stop, PassTime, vars
    <3> QED BY <3>1
  <2> QED BY <2>1, <2>2
<1> QED BY <1>1, HostInv, PTL DEF Spec, PlacedUnderControls

-----------------------------------------------------------------------------
\* An order let through keeps both sums within the limit.
LEMMA WithinAfter ==
  ASSUME HInv, position \in Int, Takes, allowed(Head(tasks)), RecordFill(Head(tasks))
  PROVE  /\ position' \in Int /\ position' = position + signed(Head(tasks))
         /\ absolute(position') <= max_position_shares
PROOF
<1>1. signed(Head(tasks)) \in Int
  BY TaskType, SignedInt
<1>2. position' = position + signed(Head(tasks))
  BY DEF RecordFill
<1>3. position' \in Int
  BY <1>1, <1>2
<1>4. absolute(position + signed(Head(tasks))) \in Int
  BY <1>2, <1>3 DEF absolute
<1>5. ~(absolute(position + signed(Head(tasks))) > max_position_shares)
  BY Zenon DEF allowed, OverPosition
<1>6. max_position_shares \in Int
  BY HostAssumption
<1> QED BY <1>2, <1>3, <1>4, <1>5, <1>6

(* Unless a live placement may raise, the net shares of the orders that were *)
(* placed never exceed the position limit, whatever the tasks, the clock and *)
(* the kill switch do.                                                       *)
THEOREM PlacedWithin ==
  ASSUME "live" \notin FAILING
  PROVE  Spec => []PlacedWithinLimit
PROOF
<1>1. Init => ExposureInv
  BY HostAssumption DEF Init, ExposureInv, absolute
<1>2. ASSUME HInv, ExposureInv, [Next]_vars
      PROVE  ExposureInv'
  <2>1. CASE Place
    <3>1. running /\ placed = position
      BY <1>2, <2>1 DEF Place, Takes, ExposureInv
    <3>2. /\ position' \in Int /\ position' = position + signed(Head(tasks))
          /\ absolute(position') <= max_position_shares
      BY <1>2, <2>1, WithinAfter DEF Place, ExposureInv
    <3>3. placed' = position'
      BY <2>1, <3>1, <3>2 DEF Place
    <3> QED BY <3>2, <3>3 DEF ExposureInv
  <2>2. CASE Fail
    <3>1. position' \in Int /\ absolute(position') <= max_position_shares
      BY <1>2, <2>2, WithinAfter DEF Fail, ExposureInv
    <3>2. ~running'
      BY <2>2 DEF Fail
    <3>3. placed' = placed
      BY <2>2 DEF Fail
    <3> QED BY <1>2, <3>1, <3>2, <3>3 DEF ExposureInv
  <2>3. CASE Stop
    BY <1>2, <2>3 DEF Stop, guard, ExposureInv
  <2>4. CASE ~Place /\ ~Fail /\ ~Stop
    <3>1. UNCHANGED <<position, placed, running>>
      BY <1>2, <2>4 DEF Next, Tick, Put, Block, Kill, ResetKill, PassTime, Rest, guard, vars
    <3> QED BY <1>2, <3>1 DEF ExposureInv
  <2> QED BY <2>1, <2>2, <2>3, <2>4
<1>3. ExposureInv => PlacedWithinLimit
  BY DEF ExposureInv, PlacedWithinLimit
<1> QED BY <1>1, <1>2, <1>3, HostInv, PTL DEF Spec

-----------------------------------------------------------------------------
(* The window of one second. *)

Ascending(T) == \A i, j \in 1..Len(T) : i <= j => T[i] <= T[j]

\* Every order of S that is less than a second old at n has a timestamp in T that
\* is as late, as far from the end of T as it is from the end of S.
Tracks(S, T, n) ==
    \A i \in 1..Len(S) : n - S[i] < SECOND =>
        \E k \in 1..Len(T) : k + Len(S) = i + Len(T) /\ S[i] <= T[k]

\* Timestamps taken until n.
Stamps(T, n) == T \in Seq(Nat) /\ \A i \in 1..Len(T) : T[i] <= n

\* The guard remembers every recent order that was placed.
WindowInv ==
    /\ now \in 0..MAX_TIME
    /\ Stamps(order_ts, now) /\ Ascending(order_ts) /\ Len(order_ts) <= max_orders_per_sec
    /\ Stamps(sent_at, now) /\ Len(sent_at) <= max_orders_per_sec + 1
    /\ Tracks(sent_at, order_ts, now)
    /\ RateKept

LEMMA UpTo == \A n \in Nat : IsFiniteSet(1..n) /\ Cardinality(1..n) = n
PROOF
<1> SUFFICES ASSUME NEW n \in Nat PROVE IsFiniteSet(1..n) /\ Cardinality(1..n) = n
  OBVIOUS
<1>1. n \in Int /\ 1 \in Int
  OBVIOUS
<1>2. IsFiniteSet(1..n) /\ Cardinality(1..n) = IF 1 > n THEN 0 ELSE n - 1 + 1
  BY <1>1, FS_Interval
<1> QED BY <1>2

\* What is forgotten is a beginning of the list, and nothing recent.
LEMMA Forgotten ==
  ASSUME now \in Nat, Stamps(order_ts, now), Ascending(order_ts),
         NEW S \in Seq(Nat), Tracks(S, order_ts, now)
  PROVE  /\ Stamps(Recent, now) /\ Ascending(Recent) /\ Len(Recent) <= Len(order_ts)
         /\ Tracks(S, Recent, now)
PROOF
<1> DEFINE T == order_ts  n == Len(T)  c == Cardinality(Old)
<1>1. T \in Seq(Nat) /\ n \in Nat /\ SECOND \in Nat /\ \A i \in 1..n : T[i] \in Nat
  BY HostAssumption DEF Stamps
<1>2. Old \subseteq 1..n
  <2>1. DOMAIN order_ts = 1..n
    BY <1>1
  <2> QED BY <2>1 DEF Old
<1>3. c \in 0..n
  <2>1. IsFiniteSet(1..n) /\ Cardinality(1..n) = n
    BY <1>1, UpTo
  <2>2. IsFiniteSet(Old) /\ c <= n
    BY <1>2, <2>1, FS_Subset
  <2>3. c \in Nat
    BY <2>2, FS_CardinalityType
  <2> QED BY <1>1, <2>2, <2>3
<1>4. Recent = SubSeq(T, c + 1, n)
  BY DEF Recent
<1> HIDE DEF c
<1>5. /\ Recent \in Seq(Nat) /\ Len(Recent) = n - c
      /\ \A i \in 1..(n - c) : Recent[i] = T[c + i]
  BY <1>1, <1>3, <1>4
<1>6. \A i \in 1..(n - c) : c + i \in 1..n
  BY <1>1, <1>3
<1>7. Stamps(Recent, now)
  BY <1>5, <1>6 DEF Stamps
<1>8. Ascending(Recent)
  <2> SUFFICES ASSUME NEW i \in 1..(n - c), NEW j \in 1..(n - c), i <= j
               PROVE  Recent[i] <= Recent[j]
    BY <1>5 DEF Ascending
  <2> DEFINE x == c + i  y == c + j
  <2>1. x \in 1..n /\ y \in 1..n /\ x <= y
    BY <1>1, <1>3, <1>6
  <2>2. Recent[i] = T[x] /\ Recent[j] = T[y]
    BY <1>5
  <2> HIDE DEF x, y
  <2> QED BY <2>1, <2>2 DEF Ascending
<1>9. Tracks(S, Recent, now)
  <2> SUFFICES ASSUME NEW i \in 1..Len(S), now - S[i] < SECOND
               PROVE  \E k \in 1..Len(Recent) : /\ k + Len(S) = i + Len(Recent)
                                                /\ S[i] <= Recent[k]
    BY DEF Tracks
  <2>1. PICK k \in 1..n : k + Len(S) = i + n /\ S[i] <= T[k]
    BY DEF Tracks
  <2>2. S[i] \in Nat /\ T[k] \in Nat /\ now - T[k] < SECOND /\ Len(S) \in Nat
    <3>1. S[i] \in Nat /\ Len(S) \in Nat
      OBVIOUS
    <3>2. T[k] \in Nat
      BY <1>1
    <3> DEFINE p == S[i]  q == T[k]
    <3>3. p \in Nat /\ q \in Nat /\ p <= q /\ now - p < SECOND /\ SECOND \in Nat
      BY <1>1, <2>1, <3>1, <3>2
    <3> HIDE DEF p, q
    <3>4. now - q < SECOND
      BY <3>3
    <3> QED BY <3>1, <3>3, <3>4 DEF p, q
  <2>3. Old \subseteq 1..(k - 1)
    <3> SUFFICES ASSUME NEW j \in Old PROVE j < k /\ j \in 1..n
      BY <1>1
    <3>1. j \in 1..n /\ now - T[j] >= SECOND /\ T[j] \in Nat
      <4>1. now - T[j] >= SECOND
        BY DEF Old
      <4>2. j \in 1..n
        BY <1>2
      <4> QED BY <1>1, <4>1, <4>2
    <3>2. k <= j => T[k] <= T[j]
      BY <3>1 DEF Ascending
    <3>3. k \in Nat /\ j \in Nat
      BY <1>1, <3>1
    <3> DEFINE p == T[k]  q == T[j]
    <3>4. /\ p \in Nat /\ q \in Nat /\ SECOND \in Nat
          /\ now - p < SECOND /\ now - q >= SECOND /\ (k <= j => p <= q)
      BY <1>1, <2>2, <3>1, <3>2
    <3> HIDE DEF p, q
    <3>5. ~(k <= j)
      BY <3>4
    <3> QED BY <3>1, <3>3, <3>5
  <2>4. c <= k - 1
    <3>1. k - 1 \in Nat /\ IsFiniteSet(1..(k - 1)) /\ Cardinality(1..(k - 1)) = k - 1
      <4>1. k - 1 \in Nat
        BY <1>1
      <4> QED BY <4>1, UpTo
    <3> DEFINE R == 1..(k - 1)
    <3>2. IsFiniteSet(R) /\ Old \subseteq R /\ Cardinality(R) = k - 1
      BY <2>3, <3>1
    <3> HIDE DEF R
    <3>3. Cardinality(Old) <= Cardinality(R)
      BY <3>2, FS_Subset
    <3> QED BY <3>2, <3>3 DEF c
  <2> DEFINE d == k - c
  <2>5. d \in 1..(n - c) /\ c + d = k /\ d + Len(S) = i + (n - c)
    BY <1>1, <1>3, <2>1, <2>2, <2>4
  <2>6. Recent[d] = T[c + d]
    BY <1>5, <2>5
  <2> HIDE DEF d
  <2>7. Recent[d] = T[k]
    BY <2>5, <2>6
  <2> QED BY <1>5, <2>1, <2>5, <2>7
<1>10. Len(Recent) <= n
  BY <1>1, <1>3, <1>5
<1> QED BY <1>7, <1>8, <1>9, <1>10

\* A timestamp more changes nothing of this.
LEMMA Stamped ==
  ASSUME NEW n \in Nat, NEW T, Stamps(T, n), Ascending(T),
         NEW S \in Seq(Nat), Tracks(S, T, n), \A i \in 1..Len(S) : S[i] <= n
  PROVE  /\ Stamps(Append(T, n), n) /\ Ascending(Append(T, n))
         /\ Tracks(S, Append(T, n), n)
PROOF
<1> DEFINE U == Append(T, n)  m == Len(T)
<1>1. T \in Seq(Nat) /\ m \in Nat /\ \A i \in 1..m : T[i] \in Nat /\ T[i] <= n
  BY DEF Stamps
<1>2. /\ U \in Seq(Nat) /\ Len(U) = m + 1
      /\ \A i \in 1..(m + 1) : U[i] = IF i = m + 1 THEN n ELSE T[i]
  BY <1>1
<1> HIDE DEF U
<1>3. \A i \in 1..(m + 1) : i = m + 1 \/ i \in 1..m
  BY <1>1
<1>4. ASSUME NEW i \in 1..(m + 1) PROVE U[i] <= n
  <2>1. CASE i = m + 1
    BY <1>2, <2>1
  <2>2. CASE i # m + 1
    <3>1. U[i] = T[i] /\ i \in 1..m
      BY <1>2, <1>3, <2>2
    <3> QED BY <1>1, <3>1
  <2> QED BY <2>1, <2>2
<1>5. \A i, j \in 1..(m + 1) : i <= j => U[i] <= U[j]
  <2> SUFFICES ASSUME NEW i \in 1..(m + 1), NEW j \in 1..(m + 1), i <= j
               PROVE  U[i] <= U[j]
    OBVIOUS
  <2>1. CASE j = m + 1
    BY <1>1, <1>2, <1>4, <2>1
  <2>2. CASE j # m + 1
    <3>1. i \in 1..m /\ j \in 1..m /\ i # m + 1
      BY <1>1, <1>3, <2>2
    <3>2. U[i] = T[i] /\ U[j] = T[j]
      BY <1>2, <2>2, <3>1
    <3> QED BY <3>1, <3>2 DEF Ascending
  <2> QED BY <2>1, <2>2
<1>6. Tracks(S, U, n)
  <2> SUFFICES ASSUME NEW i \in 1..Len(S), n - S[i] < SECOND
               PROVE  \E k \in 1..Len(U) : k + Len(S) = i + Len(U) /\ S[i] <= U[k]
    BY DEF Tracks
  <2>1. PICK k \in 1..m : k + Len(S) = i + m /\ S[i] <= T[k]
    BY DEF Tracks
  <2> DEFINE d == k + 1
  <2>2. d \in 1..(m + 1) /\ d + Len(S) = i + (m + 1) /\ k \in 1..(m + 1) /\ k # m + 1
        /\ k <= d
    <3> DEFINE l == Len(S)
    <3>1. l \in Nat /\ i \in Nat
      OBVIOUS
    <3>2. k \in 1..m /\ k + l = i + m
      BY <2>1
    <3>3. m \in Nat
      BY <1>1
    <3> HIDE DEF m, l
    <3>4. k + 1 \in 1..(m + 1) /\ k \in 1..(m + 1) /\ k # m + 1 /\ k <= k + 1
      BY <3>2, <3>3
    <3>5. k + 1 + l = i + (m + 1)
      BY <3>1, <3>2, <3>3
    <3> QED BY <3>4, <3>5 DEF l
  <2> HIDE DEF d
  <2>3. U[k] = T[k] /\ U[k] <= U[d]
    BY <1>2, <1>5, <2>2
  <2>4. U[d] \in Nat /\ T[k] \in Nat /\ S[i] \in Nat
    <3>1. S[i] \in Nat
      OBVIOUS
    <3>2. T[k] \in Nat
      BY <1>1
    <3>3. U[d] \in Nat
      <4>1. \A x \in 1..Len(U) : U[x] \in Nat
        BY <1>1, <1>2, <1>3
      <4> QED BY <1>2, <2>2, <4>1
    <3> QED BY <3>1, <3>2, <3>3
  <2>5. S[i] <= U[d]
    <3> DEFINE p == S[i]  q == T[k]  z == U[d]
    <3>1. p \in Nat /\ q \in Nat /\ z \in Nat /\ p <= q /\ q <= z
      BY <2>1, <2>3, <2>4
    <3> HIDE DEF p, q, z
    <3>2. p <= z
      BY <3>1
    <3> QED BY <3>2 DEF p, z
  <2> QED BY <1>2, <2>2, <2>5
<1> QED BY <1>2, <1>4, <1>5, <1>6 DEF Stamps, Ascending, U

\* An order placed and its timestamp.
LEMMA Sent ==
  ASSUME NEW n \in Nat, NEW T \in Seq(Nat), NEW S, Stamps(S, n), Tracks(S, T, n)
  PROVE  Stamps(Append(S, n), n) /\ Tracks(Append(S, n), Append(T, n), n)
PROOF
<1> DEFINE U == Append(T, n)  m == Len(T)  V == Append(S, n)  l == Len(S)
<1>1. /\ m \in Nat /\ S \in Seq(Nat) /\ l \in Nat
      /\ \A i \in 1..m : T[i] \in Nat
      /\ \A i \in 1..l : S[i] \in Nat /\ S[i] <= n
  BY DEF Stamps
<1>2. /\ U \in Seq(Nat) /\ Len(U) = m + 1 /\ U[m + 1] = n
      /\ \A i \in 1..m : U[i] = T[i]
  BY <1>1
<1>3. /\ V \in Seq(Nat) /\ Len(V) = l + 1 /\ V[l + 1] = n
      /\ \A i \in 1..l : V[i] = S[i]
  BY <1>1
<1> HIDE DEF U, V
<1>4. \A i \in 1..(l + 1) : i = l + 1 \/ i \in 1..l
  BY <1>1
<1>5. Stamps(V, n)
  <2> SUFFICES ASSUME NEW i \in 1..(l + 1) PROVE V[i] <= n
    BY <1>3 DEF Stamps
  <2>1. CASE i = l + 1
    BY <1>3, <2>1
  <2>2. CASE i \in 1..l
    <3>1. V[i] = S[i]
      BY <1>3, <2>2
    <3> QED BY <1>1, <2>2, <3>1
  <2> QED BY <1>4, <2>1, <2>2
<1>6. Tracks(V, U, n)
  <2> SUFFICES ASSUME NEW i \in 1..(l + 1), n - V[i] < SECOND
               PROVE  \E k \in 1..(m + 1) : k + (l + 1) = i + (m + 1) /\ V[i] <= U[k]
    BY <1>2, <1>3 DEF Tracks
  <2>1. CASE i = l + 1
    <3>1. m + 1 \in 1..(m + 1) /\ (m + 1) + (l + 1) = i + (m + 1)
      BY <1>1, <2>1
    <3>2. V[i] = n /\ U[m + 1] = n
      BY <1>2, <1>3, <2>1
    <3> QED BY <3>1, <3>2
  <2>2. CASE i \in 1..l
    <3>1. V[i] = S[i]
      BY <1>3, <2>2
    <3>2. PICK k \in 1..m : k + l = i + m /\ S[i] <= T[k]
      BY <2>2, <3>1 DEF Tracks
    <3>3. U[k] = T[k]
      BY <1>2
    <3>4. k \in 1..(m + 1) /\ k + (l + 1) = i + (m + 1)
      <4> HIDE DEF m, l
      <4> QED BY <1>1, <2>2, <3>2
    <3> QED BY <3>1, <3>2, <3>3, <3>4
  <2> QED BY <1>4, <2>1, <2>2
<1> QED BY <1>5, <1>6 DEF U, V

\* The history forgets its first entry.
LEMMA Trimmed ==
  ASSUME NEW n \in Nat, NEW T, NEW S, Len(S) > 0, Stamps(S, n), Tracks(S, T, n), Len(T) \in Nat
  PROVE  /\ Stamps(Tail(S), n) /\ Tracks(Tail(S), T, n) /\ Len(Tail(S)) = Len(S) - 1
         /\ \A i \in 1..(Len(S) - 1) : Tail(S)[i] = S[i + 1]
PROOF
<1> DEFINE V == Tail(S)  l == Len(S)
<1>1. S \in Seq(Nat) /\ l \in Nat \ {0} /\ \A i \in 1..l : S[i] \in Nat /\ S[i] <= n
  BY DEF Stamps
<1>2. V \in Seq(Nat) /\ Len(V) = l - 1 /\ \A i \in 1..(l - 1) : V[i] = S[i + 1]
  BY <1>1
<1> HIDE DEF V
<1>3. \A i \in 1..(l - 1) : i + 1 \in 1..l
  BY <1>1
<1>4. Stamps(V, n)
  BY <1>1, <1>2, <1>3 DEF Stamps
<1>5. Tracks(V, T, n)
  <2> SUFFICES ASSUME NEW i \in 1..(l - 1), n - V[i] < SECOND
               PROVE  \E k \in 1..Len(T) : k + (l - 1) = i + Len(T) /\ V[i] <= T[k]
    BY <1>2 DEF Tracks
  <2> DEFINE j == i + 1
  <2>1. V[i] = S[j] /\ j \in 1..l
    BY <1>2, <1>3
  <2>2. j = i + 1
    OBVIOUS
  <2> HIDE DEF j
  <2>3. PICK k \in 1..Len(T) : k + l = j + Len(T) /\ S[j] <= T[k]
    BY <2>1 DEF Tracks
  <2>4. k + (l - 1) = i + Len(T)
    BY <1>1, <2>2, <2>3
  <2> QED BY <2>1, <2>3, <2>4
<1> QED BY <1>2, <1>4, <1>5 DEF V

\* Time only makes orders less recent.
LEMMA Later ==
  ASSUME NEW n \in Nat, NEW S, NEW T, Stamps(S, n), Tracks(S, T, n)
  PROVE  Stamps(S, n + 1) /\ Tracks(S, T, n + 1)
PROOF
<1>1. \A i \in 1..Len(S) : S[i] \in Nat /\ S[i] <= n
  BY DEF Stamps
<1>2. Stamps(S, n + 1)
  BY <1>1 DEF Stamps
<1>3. SECOND \in Nat
  BY HostAssumption
<1>4. \A i \in 1..Len(S) : (n + 1) - S[i] < SECOND => n - S[i] < SECOND
  BY <1>1, <1>3
<1> QED BY <1>2, <1>4 DEF Tracks

LEMMA WindowInit == Init => WindowInv
PROOF
<1> SUFFICES ASSUME Init PROVE WindowInv
  OBVIOUS
<1>1. order_ts = <<>> /\ sent_at = <<>> /\ now = 0
  BY DEF Init
<1>2. /\ order_ts \in Seq(Nat) /\ Len(order_ts) = 0
      /\ sent_at \in Seq(Nat) /\ Len(sent_at) = 0
  BY <1>1
<1>3. max_orders_per_sec \in Nat \ {0} /\ MAX_TIME \in Nat
  BY HostAssumption
<1> QED BY <1>1, <1>2, <1>3 DEF WindowInv, Stamps, Ascending, Tracks, RateKept

\* What a step that forgets and records does to the window of the guard.
LEMMA Recorded ==
  ASSUME WindowInv, ~RateLimited
  PROVE  LET T == Append(Recent, now)
         IN  /\ Stamps(T, now) /\ Ascending(T) /\ Len(T) <= max_orders_per_sec
             /\ Tracks(sent_at, T, now)
             /\ Tracks(sent_at, Recent, now) /\ Stamps(Recent, now)
             /\ Len(Recent) < max_orders_per_sec
PROOF
<1>1. /\ now \in Nat /\ Stamps(order_ts, now) /\ Ascending(order_ts)
      /\ sent_at \in Seq(Nat) /\ \A i \in 1..Len(sent_at) : sent_at[i] <= now
      /\ Tracks(sent_at, order_ts, now)
  BY HostAssumption DEF WindowInv, Stamps
<1>2. /\ Stamps(Recent, now) /\ Ascending(Recent) /\ Tracks(sent_at, Recent, now)
  BY <1>1, Forgotten
<1>3. /\ Stamps(Append(Recent, now), now) /\ Ascending(Append(Recent, now))
      /\ Tracks(sent_at, Append(Recent, now), now)
  BY <1>1, <1>2, Stamped
<1>4. Recent \in Seq(Nat) /\ Len(Recent) \in Nat /\ max_orders_per_sec \in Nat
  BY <1>2, HostAssumption DEF Stamps
<1>5. Len(Append(Recent, now)) = Len(Recent) + 1
  BY <1>4
<1>6. Len(Recent) < max_orders_per_sec
  BY <1>4 DEF RateLimited
<1> HIDE DEF Recent
<1> QED BY <1>2, <1>3, <1>4, <1>5, <1>6

\* The order that goes out now is a second later than the one max_orders_per_sec
\* before it: that one is not recent, or the guard would remember as many.
LEMMA SentInTime ==
  ASSUME NEW n \in Nat, NEW R \in Nat \ {0}, NEW T \in Seq(Nat), Len(T) < R,
         NEW S, Stamps(S, n), Tracks(S, T, n), Len(S) >= R
  PROVE  n - S[Len(S) + 1 - R] >= SECOND
PROOF
<1> DEFINE i == Len(S) + 1 - R
<1>1. S \in Seq(Nat) /\ Len(S) \in Nat /\ Len(T) \in Nat /\ SECOND \in Nat
  BY HostAssumption DEF Stamps
<1>2. i \in 1..Len(S) /\ i + R = Len(S) + 1
  BY <1>1
<1>3. S[i] \in Nat
  BY <1>1, <1>2
<1> SUFFICES ASSUME n - S[i] < SECOND PROVE FALSE
  BY <1>1, <1>3
<1> HIDE DEF i
<1>4. PICK k \in 1..Len(T) : k + Len(S) = i + Len(T)
  BY <1>2 DEF Tracks
<1> QED BY <1>1, <1>2, <1>4

LEMMA WindowPlace ==
  ASSUME WindowInv, Place
  PROVE  WindowInv'
PROOF
<1> DEFINE R == max_orders_per_sec  T == Recent
           S == IF Len(sent_at) > R THEN Tail(sent_at) ELSE sent_at
<1>1. /\ order_ts' = Append(T, now) /\ sent_at' = Append(S, now) /\ now' = now
      /\ ~RateLimited
  BY Zenon DEF Place, RecordFill, Rest, allowed
<1>2. /\ Stamps(Append(T, now), now) /\ Ascending(Append(T, now)) /\ Len(Append(T, now)) <= R
      /\ Tracks(sent_at, T, now) /\ Stamps(T, now) /\ Len(T) < R
  BY <1>1, Recorded
<1>3. /\ now \in Nat /\ now \in 0..MAX_TIME /\ R \in Nat \ {0} /\ SECOND \in Nat
      /\ Stamps(sent_at, now) /\ sent_at \in Seq(Nat)
      /\ Len(sent_at) <= R + 1 /\ Len(sent_at) \in Nat
  BY HostAssumption DEF WindowInv, Stamps
<1>4. T \in Seq(Nat) /\ Len(T) \in Nat
  BY <1>2 DEF Stamps
<1> HIDE DEF T, R
<1>5. Stamps(S, now) /\ Tracks(S, T, now) /\ Len(S) <= R
  <2>1. CASE Len(sent_at) > R
    <3>1. S = Tail(sent_at) /\ Len(sent_at) > 0
      BY <1>3, <2>1
    <3>2. /\ Stamps(Tail(sent_at), now) /\ Tracks(Tail(sent_at), T, now)
          /\ Len(Tail(sent_at)) = Len(sent_at) - 1
      BY <1>2, <1>3, <1>4, <3>1, Trimmed
    <3>3. Len(sent_at) - 1 <= R
      BY <1>3
    <3> QED BY <3>1, <3>2, <3>3
  <2>2. CASE ~(Len(sent_at) > R)
    <3>1. S = sent_at /\ Len(sent_at) <= R
      BY <1>3, <2>2
    <3> QED BY <1>2, <1>3, <3>1
  <2> QED BY <2>1, <2>2
<1> HIDE DEF S
<1>6. /\ Stamps(Append(S, now), now) /\ Tracks(Append(S, now), Append(T, now), now)
  BY <1>3, <1>4, <1>5, Sent
<1>7. /\ S \in Seq(Nat) /\ Len(S) \in Nat /\ Len(Append(S, now)) = Len(S) + 1
      /\ Append(S, now)[Len(S) + 1] = now
      /\ \A i \in 1..Len(S) : Append(S, now)[i] = S[i]
  BY <1>3, <1>5 DEF Stamps
<1>8. Len(Append(S, now)) <= R + 1
  BY <1>3, <1>5, <1>7
<1> DEFINE U == Append(S, now)  l == Len(S)
<1>9. ASSUME Len(U) > R PROVE U[Len(U)] - U[Len(U) - R] >= SECOND
  <2>1. l >= R
    BY <1>3, <1>7, <1>9
  <2> DEFINE i == l + 1 - R
  <2>2. now - S[i] >= SECOND
    BY <1>2, <1>3, <1>4, <1>5, <2>1, SentInTime
  <2>3. i \in 1..l /\ Len(U) - R = i /\ Len(U) = l + 1
    BY <1>3, <1>7, <2>1
  <2> HIDE DEF i
  <2>4. U[i] = S[i] /\ U[Len(U)] = now
    BY <1>7, <2>3
  <2> HIDE DEF U, l
  <2> QED BY <2>2, <2>3, <2>4
<1>10. RateKept'
  BY <1>1, <1>9 DEF RateKept, R
<1> QED BY <1>1, <1>2, <1>3, <1>6, <1>8, <1>10 DEF WindowInv, R

LEMMA WindowNext == WindowInv /\ [Next]_vars => WindowInv'
PROOF
<1> SUFFICES ASSUME WindowInv, [Next]_vars PROVE WindowInv'
  OBVIOUS
<1>1. CASE Place
  BY <1>1, WindowPlace
<1>2. CASE Fail
  <2>1. /\ order_ts' = Append(Recent, now) /\ UNCHANGED <<now, sent_at>> /\ ~RateLimited
    BY <1>2, Zenon DEF Fail, RecordFill, Rest, allowed
  <2>2. LET T == Append(Recent, now)
        IN  /\ Stamps(T, now) /\ Ascending(T) /\ Len(T) <= max_orders_per_sec
            /\ Tracks(sent_at, T, now)
    BY <2>1, Recorded
  <2> QED BY <2>1, <2>2 DEF WindowInv, RateKept
<1>3. CASE Block
  <2>1. order_ts' \in {order_ts, Recent} /\ UNCHANGED <<now, sent_at>>
    BY <1>3, Zenon DEF Block, Rest
  <2>2. /\ now \in Nat /\ Stamps(order_ts, now) /\ Ascending(order_ts)
        /\ sent_at \in Seq(Nat) /\ Tracks(sent_at, order_ts, now)
    BY HostAssumption DEF WindowInv, Stamps
  <2>3. /\ Stamps(Recent, now) /\ Ascending(Recent) /\ Len(Recent) <= Len(order_ts)
        /\ Tracks(sent_at, Recent, now)
    BY <2>2, Forgotten
  <2>4. Len(Recent) \in Nat /\ Len(order_ts) \in Nat /\ max_orders_per_sec \in Nat
    BY <2>2, <2>3, HostAssumption DEF Stamps
  <2> QED BY <2>1, <2>3, <2>4 DEF WindowInv, RateKept
<1>4. CASE PassTime
  <2>1. now' = now + 1 /\ now < MAX_TIME /\ UNCHANGED <<order_ts, sent_at>>
    BY <1>4 DEF PassTime, guard
  <2>2. now \in Nat /\ now + 1 \in 0..MAX_TIME
    BY <2>1, HostAssumption DEF WindowInv
  <2>3. /\ Stamps(sent_at, now + 1) /\ Tracks(sent_at, order_ts, now + 1)
    BY <2>2, Later DEF WindowInv
  <2>4. Stamps(order_ts, now + 1)
    BY <2>2 DEF WindowInv, Stamps
  <2> QED BY <2>1, <2>2, <2>3, <2>4 DEF WindowInv, RateKept
<1>5. CASE ~Place /\ ~Fail /\ ~Block /\ ~PassTime
  <2>1. UNCHANGED <<order_ts, sent_at, now>>
    BY <1>5 DEF Next, Tick, Put, Kill, ResetKill, Stop, guard, vars
  <2> QED BY <2>1 DEF WindowInv, RateKept
<1> QED BY <1>1, <1>2, <1>3, <1>4, <1>5

LEMMA SpecWindow == Spec => []WindowInv
PROOF BY WindowInit, WindowNext, PTL DEF Spec

(* At most max_orders_per_sec orders go out within any one second, however   *)
(* late the tasks run and whichever placements raise.                        *)
THEOREM RateIsKept == Spec => []RateKept
PROOF
<1>1. WindowInv => RateKept
  BY DEF WindowInv
<1> QED BY <1>1, SpecWindow, PTL

-----------------------------------------------------------------------------
\* The rest of the registers of the host.
RangeInv == /\ mode \in MODES /\ killed \in BOOLEAN
            /\ position \in -max_position_shares..max_position_shares
            /\ Len(tasks) <= MAX_TASKS

(* The position that the guard believes in is within its limit, whatever the *)
(* placements do; the tasks, the timestamps and the clock within theirs.     *)
THEOREM HostTypeCorrect == Spec => []TypeOK
PROOF
<1>1. Init => RangeInv
  <2> SUFFICES ASSUME Init PROVE RangeInv
    OBVIOUS
  <2>1. Len(tasks) = 0
    BY DEF Init
  <2>2. MAX_TASKS \in Nat /\ max_position_shares \in Nat
    BY HostAssumption
  <2>3. 0 \in -max_position_shares..max_position_shares
    BY <2>2
  <2>4. mode \in MODES /\ killed = FALSE /\ position = 0
    BY DEF Init
  <2>5. Len(tasks) <= MAX_TASKS
    BY <2>1, <2>2
  <2> QED BY <2>3, <2>4, <2>5 DEF RangeInv
<1>2. ASSUME HInv, RangeInv, [Next]_vars
      PROVE  RangeInv'
  <2>1. /\ tasks \in Seq(Decisions) /\ Len(tasks) \in Nat /\ MAX_TASKS \in Nat
        /\ max_position_shares \in Nat /\ position \in Int
    BY <1>2, HostAssumption DEF HInv, RangeInv
  <2>2. ASSUME Takes, tasks' = Tail(tasks) PROVE Len(tasks') <= MAX_TASKS
    <3>1. tasks # <<>>
      BY <2>2 DEF Takes
    <3>2. Len(Tail(tasks)) = Len(tasks) - 1
      BY <2>1, <3>1
    <3>3. Len(tasks) <= MAX_TASKS
      BY <1>2 DEF RangeInv
    <3> QED BY <2>1, <2>2, <3>2, <3>3
  <2>3. ASSUME Len(tasks) < MAX_TASKS, NEW dec, dec \in Decisions, tasks' = Append(tasks, dec)
        PROVE  Len(tasks') <= MAX_TASKS
    <3>1. Len(Append(tasks, dec)) = Len(tasks) + 1
      BY <2>1, <2>3
    <3> QED BY <2>1, <2>3, <3>1
  <2>4. CASE Place \/ Fail
    <3>1. /\ Takes /\ allowed(Head(tasks)) /\ RecordFill(Head(tasks))
          /\ tasks' = Tail(tasks) /\ UNCHANGED <<mode, killed>>
      BY <2>4 DEF Place, Fail, Rest
    <3>2. position' \in Int /\ absolute(position') <= max_position_shares
      BY <1>2, <2>1, <3>1, WithinAfter
    <3>3. position' \in -max_position_shares..max_position_shares
      <4>1. \A n \in Int, m \in Nat : absolute(n) <= m => n \in -m..m
        BY DEF absolute
      <4> QED BY <2>1, <3>2, <4>1
    <3> QED BY <1>2, <2>2, <3>1, <3>3 DEF RangeInv
  <2>5. CASE Block
    <3>1. Takes /\ tasks' = Tail(tasks) /\ UNCHANGED <<mode, killed, position>>
      BY <2>5 DEF Block, Rest
    <3> QED BY <1>2, <2>2, <3>1 DEF RangeInv
  <2>6. ASSUME NEW q \in Quotes, Tick(q) PROVE RangeInv'
    <3>1. UNCHANGED <<mode, killed, position>> /\ Len(tasks) < MAX_TASKS
      BY <2>6 DEF Tick, guard
    <3>2. Len(tasks') <= MAX_TASKS
      <4>1. CASE evaluate(q, prev_valid).some
        <5>1. evaluate(q, prev_valid) \in Decisions
          BY <1>2, <4>1, Evaluated DEF HInv
        <5>2. tasks' = Append(tasks, evaluate(q, prev_valid))
          BY <2>6, <4>1 DEF Tick
        <5> QED BY <2>3, <3>1, <5>1, <5>2
      <4>2. CASE ~evaluate(q, prev_valid).some
        <5>1. tasks' = tasks
          BY <2>6, <4>2 DEF Tick
        <5> QED BY <1>2, <5>1 DEF RangeInv
      <4> QED BY <4>1, <4>2
    <3> QED BY <1>2, <3>1, <3>2 DEF RangeInv
  <2>7. ASSUME NEW dec \in FpgaDecisions, Put(dec) PROVE RangeInv'
    <3>1. dec \in Decisions
      BY HostAssumption
    <3>2. /\ UNCHANGED <<mode, killed, position>> /\ Len(tasks) < MAX_TASKS
          /\ tasks' = Append(tasks, dec)
      BY <2>7 DEF Put, guard
    <3> QED BY <1>2, <2>3, <3>1, <3>2 DEF RangeInv
  <2>8. CASE Kill \/ ResetKill \/ PassTime
    BY <1>2, <2>8 DEF Kill, ResetKill, PassTime, guard, RangeInv
  <2>9. CASE Stop
    <3>1. UNCHANGED <<mode, killed, position>> /\ tasks' = <<>>
      BY <2>9 DEF Stop, guard
    <3>2. Len(tasks') = 0
      BY <3>1
    <3> QED BY <1>2, <2>1, <3>1, <3>2 DEF RangeInv
  <2>10. CASE UNCHANGED vars
    BY <1>2, <2>10 DEF vars, guard, RangeInv
  <2> QED BY <1>2, <2>4, <2>5, <2>6, <2>7, <2>8, <2>9, <2>10 DEF Next
<1>3. HInv /\ RangeInv /\ WindowInv => TypeOK
  BY DEF HInv, ReferenceInv, RangeInv, WindowInv, TypeOK
<1> QED BY <1>1, <1>2, <1>3, HostInv, SpecWindow, PTL DEF Spec
=============================================================================
