--------------------------- MODULE BookEdgesProofs ---------------------------
(* Every edge of a book preserves BookInv, for every size of the table and    *)
(* every number of levels, and PhantomFree when no slot is filled twice.      *)
EXTENDS BookFeed, BookDepth, FiniteSetTheorems, SequenceTheorems, WellFoundedInduction,
        NaturalsInduction, TLAPS

(* Sums over finite sets, for the depth of a book: what SumFunctionOnSet      *)
(* returns when the set loses an element, or the function is changed at one   *)
(* point.  The fold chooses its next element, so the laws are proved by       *)
(* induction on the size of the set, and that induction from the              *)
(* well-foundedness of < on the naturals.                                     *)

LEMMA LeastNat ==
  ASSUME NEW T \in SUBSET Nat, T # {}
  PROVE  \E n \in T : \A m \in T : n <= m
PROOF
<1> DEFINE R == OpToRel(<, Nat)
<1>1. IsWellFoundedOn(R, Nat)
  BY NatLessThanWellFounded
<1>2. \A x, y \in Nat : x < y => <<x, y>> \in R
  BY DEF OpToRel
<1> HIDE DEF R
<1>3. PICK n \in T : \A m \in T : ~(<<m, n>> \in R)
  <2>1. T \subseteq Nat
    OBVIOUS
  <2> QED BY <1>1, <2>1, WFMin
<1>4. \A m \in T : ~(m < n)
  BY <1>2, <1>3
<1> QED BY <1>4

\* Induction, on a set of naturals instead of a predicate.
LEMMA SetInduction ==
  ASSUME NEW G \in SUBSET Nat, 0 \in G, \A n \in G : n + 1 \in G
  PROVE  G = Nat
PROOF
<1> SUFFICES ASSUME G # Nat PROVE FALSE
  OBVIOUS
<1> DEFINE T == Nat \ G
<1>1. PICK n \in T : \A m \in T : n <= m
  <2>1. T \in SUBSET Nat /\ T # {}
    OBVIOUS
  <2> HIDE DEF T
  <2> QED BY <2>1, LeastNat
<1>2. n # 0 /\ n - 1 \in Nat
  BY <1>1
<1>3. n - 1 \in G
  BY <1>1, <1>2
<1> QED BY <1>1, <1>2, <1>3

-----------------------------------------------------------------------------
Pick(s) == CHOOSE x \in s : TRUE

\* g[s] is the sum over s, for each s \subseteq S of at most n elements.
SumsUpTo(g, f, S, n) ==
    \A s \in SUBSET S : Cardinality(s) <= n =>
        g[s] = IF s = {} THEN 0 ELSE f[Pick(s)] + g[s \ {Pick(s)}]

LEMMA PickMember == \A s : s # {} => Pick(s) \in s
PROOF BY DEF Pick

LEMMA SmallerSet ==
  ASSUME NEW s, IsFiniteSet(s), s # {}, NEW x \in s
  PROVE  /\ IsFiniteSet(s \ {x}) /\ Cardinality(s) \in Nat
         /\ Cardinality(s \ {x}) \in Nat /\ Cardinality(s \ {x}) = Cardinality(s) - 1
PROOF BY FS_RemoveElement, FS_CardinalityType

LEMMA FinitePart ==
  ASSUME NEW S, IsFiniteSet(S), NEW s \in SUBSET S
  PROVE  IsFiniteSet(s) /\ Cardinality(s) \in Nat /\ Cardinality(s) <= Cardinality(S)
PROOF BY FS_Subset, FS_CardinalityType

LEMMA SumsExist ==
  ASSUME NEW S, IsFiniteSet(S), NEW f
  PROVE  \A n \in Nat : \E g : SumsUpTo(g, f, S, n)
PROOF
<1> DEFINE G == {n \in Nat : \E g : SumsUpTo(g, f, S, n)}
<1>1. 0 \in G
  <2> DEFINE g == [s \in SUBSET S |-> 0]
  <2>1. SumsUpTo(g, f, S, 0)
    <3> SUFFICES ASSUME NEW s \in SUBSET S, Cardinality(s) <= 0
                 PROVE  g[s] = IF s = {} THEN 0 ELSE f[Pick(s)] + g[s \ {Pick(s)}]
      BY DEF SumsUpTo
    <3>1. IsFiniteSet(s) /\ Cardinality(s) \in Nat
      BY FinitePart
    <3>2. s = {}
      BY <3>1, FS_EmptySet
    <3> QED BY <3>2
  <2> HIDE DEF g
  <2> QED BY <2>1
<1>2. ASSUME NEW n \in G PROVE n + 1 \in G
  <2>1. PICK g : SumsUpTo(g, f, S, n)
    OBVIOUS
  <2> DEFINE h == [s \in SUBSET S |-> IF Cardinality(s) <= n THEN g[s]
                                      ELSE f[Pick(s)] + g[s \ {Pick(s)}]]
  <2>2. SumsUpTo(h, f, S, n + 1)
    <3> SUFFICES ASSUME NEW s \in SUBSET S, Cardinality(s) <= n + 1
                 PROVE  h[s] = IF s = {} THEN 0 ELSE f[Pick(s)] + h[s \ {Pick(s)}]
      BY DEF SumsUpTo
    <3>1. IsFiniteSet(s) /\ Cardinality(s) \in Nat /\ n \in Nat
      BY FinitePart
    <3>2. CASE s = {}
      <4>1. Cardinality(s) = 0
        BY <3>2, FS_EmptySet
      <4>2. h[s] = g[s]
        BY <3>1, <4>1
      <4>3. g[s] = 0
        BY <2>1, <3>1, <3>2, <4>1 DEF SumsUpTo
      <4> QED BY <3>2, <4>2, <4>3
    <3>3. CASE s # {}
      <4> DEFINE r == s \ {Pick(s)}
      <4>1. r \in SUBSET S /\ Cardinality(r) \in Nat /\ Cardinality(r) = Cardinality(s) - 1
        BY <3>1, <3>3, PickMember, SmallerSet
      <4>2. Cardinality(r) <= n
        BY <3>1, <4>1
      <4>3. h[r] = g[r]
        BY <4>1, <4>2
      <4>4. h[s] = f[Pick(s)] + g[r]
        <5>1. CASE Cardinality(s) <= n
          <6>1. h[s] = g[s]
            BY <5>1
          <6>2. g[s] = f[Pick(s)] + g[r]
            BY <2>1, <3>3, <5>1 DEF SumsUpTo
          <6> QED BY <6>1, <6>2
        <5>2. CASE ~(Cardinality(s) <= n)
          BY <5>2
        <5> QED BY <5>1, <5>2
      <4> QED BY <3>3, <4>3, <4>4
    <3> QED BY <3>2, <3>3
  <2> HIDE DEF h
  <2> QED BY <2>2
<1>3. G \in SUBSET Nat
  OBVIOUS
<1> HIDE DEF G
<1>4. G = Nat
  BY <1>1, <1>2, <1>3, SetInduction
<1> QED BY <1>4 DEF G

\* The function that the sum over S is a value of.
SumTable(f, S) ==
    CHOOSE iter : iter = [s \in SUBSET S |->
        IF s = {} THEN 0 ELSE f[Pick(s)] + iter[s \ {Pick(s)}]]

LEMMA SumIsTable ==
  ASSUME NEW f, NEW S
  PROVE  SumFunctionOnSet(f, S) = SumTable(f, S)[S]
PROOF BY DEF SumFunctionOnSet, FoldFunctionOnSet, MapThenFoldSet, SumTable, Pick

LEMMA SumTableStep ==
  ASSUME NEW f, NEW S, IsFiniteSet(S), NEW s \in SUBSET S
  PROVE  SumTable(f, S)[s] =
           IF s = {} THEN 0 ELSE f[Pick(s)] + SumTable(f, S)[s \ {Pick(s)}]
PROOF
<1> DEFINE Eq(t) == t = [r \in SUBSET S |-> IF r = {} THEN 0 ELSE f[Pick(r)] + t[r \ {Pick(r)}]]
<1>1. PICK g : SumsUpTo(g, f, S, Cardinality(S))
  BY SumsExist, FS_CardinalityType
<1> DEFINE t == [r \in SUBSET S |-> g[r]]
<1>2. Eq(t)
  <2>1. ASSUME NEW r \in SUBSET S
        PROVE  t[r] = IF r = {} THEN 0 ELSE f[Pick(r)] + t[r \ {Pick(r)}]
    <3>1. Cardinality(r) <= Cardinality(S)
      BY FinitePart
    <3>2. g[r] = IF r = {} THEN 0 ELSE f[Pick(r)] + g[r \ {Pick(r)}]
      BY <1>1, <3>1 DEF SumsUpTo
    <3>3. r \ {Pick(r)} \in SUBSET S
      OBVIOUS
    <3> QED BY <3>2, <3>3
  <2> QED BY <2>1
<1> HIDE DEF t
<1>3. Eq(SumTable(f, S))
  BY <1>2 DEF SumTable
<1> QED BY <1>3

LEMMA TablesAgree ==
  ASSUME NEW f, NEW g, NEW S, NEW T, IsFiniteSet(S), T \subseteq S,
         \A x \in T : f[x] = g[x]
  PROVE  \A s \in SUBSET T : SumTable(f, S)[s] = SumTable(g, T)[s]
PROOF
<1> DEFINE G == {n \in Nat : \A s \in SUBSET T : Cardinality(s) = n =>
                                SumTable(f, S)[s] = SumTable(g, T)[s]}
<1>0. IsFiniteSet(T)
  BY FS_Subset
<1>1. 0 \in G
  <2> SUFFICES ASSUME NEW s \in SUBSET T, Cardinality(s) = 0
               PROVE  SumTable(f, S)[s] = SumTable(g, T)[s]
    OBVIOUS
  <2>1. s = {}
    BY <1>0, FinitePart, FS_EmptySet
  <2>2. SumTable(f, S)[s] = 0
    BY <2>1, SumTableStep
  <2>3. SumTable(g, T)[s] = 0
    BY <1>0, <2>1, SumTableStep
  <2> QED BY <2>2, <2>3
<1>2. ASSUME NEW n \in G PROVE n + 1 \in G
  <2> SUFFICES ASSUME NEW s \in SUBSET T, Cardinality(s) = n + 1
               PROVE  SumTable(f, S)[s] = SumTable(g, T)[s]
    OBVIOUS
  <2>1. IsFiniteSet(s) /\ n \in Nat /\ s # {}
    BY <1>0, FinitePart, FS_EmptySet
  <2>2. Pick(s) \in s
    BY <2>1, PickMember
  <2> DEFINE r == s \ {Pick(s)}
  <2>3. r \in SUBSET T /\ Cardinality(r) = n
    BY <2>1, <2>2, SmallerSet
  <2>4. SumTable(f, S)[r] = SumTable(g, T)[r]
    BY <2>3
  <2>5. s \in SUBSET S
    OBVIOUS
  <2> HIDE DEF G
  <2>6. SumTable(f, S)[s] = f[Pick(s)] + SumTable(f, S)[r]
    <3>1. SumTable(f, S)[s] =
            IF s = {} THEN 0 ELSE f[Pick(s)] + SumTable(f, S)[s \ {Pick(s)}]
      BY <2>5, SumTableStep
    <3> QED BY <2>1, <3>1
  <2>7. SumTable(g, T)[s] = g[Pick(s)] + SumTable(g, T)[r]
    BY <1>0, <2>1, SumTableStep
  <2>8. f[Pick(s)] = g[Pick(s)]
    BY <2>2
  <2> QED BY <2>4, <2>6, <2>7, <2>8
<1>3. G \in SUBSET Nat
  OBVIOUS
<1> HIDE DEF G
<1>4. G = Nat
  BY <1>1, <1>2, <1>3, SetInduction
<1>5. ASSUME NEW s \in SUBSET T PROVE Cardinality(s) \in G
  BY <1>0, <1>4, FinitePart
<1> QED BY <1>5 DEF G

-----------------------------------------------------------------------------
(* What the sums of the models are used for *)
LEMMA SumEmpty ==
  ASSUME NEW f
  PROVE  SumFunctionOnSet(f, {}) = 0
PROOF BY SumIsTable, SumTableStep, FS_EmptySet

\* A sum depends on nothing but the values that are added.
LEMMA SumSame ==
  ASSUME NEW f, NEW g, NEW S, IsFiniteSet(S), \A x \in S : f[x] = g[x]
  PROVE  SumFunctionOnSet(f, S) = SumFunctionOnSet(g, S)
PROOF
<1>1. SumTable(f, S)[S] = SumTable(g, S)[S]
  BY TablesAgree
<1> QED BY <1>1, SumIsTable

LEMMA SumPick ==
  ASSUME NEW f, NEW S, IsFiniteSet(S), S # {}
  PROVE  SumFunctionOnSet(f, S) = f[Pick(S)] + SumFunctionOnSet(f, S \ {Pick(S)})
PROOF
<1> DEFINE T == S \ {Pick(S)}
<1>1. SumTable(f, S)[S] = f[Pick(S)] + SumTable(f, S)[T]
  BY SumTableStep
<1>2. SumTable(f, S)[T] = SumTable(f, T)[T]
  <2>1. T \subseteq S /\ T \in SUBSET T
    OBVIOUS
  <2> HIDE DEF T
  <2> QED BY <2>1, TablesAgree
<1> QED BY <1>1, <1>2, SumIsTable

\* A set of numbers that holds 0 and every sum of two holds every sum.
LEMMA SumIn ==
  ASSUME NEW V, 0 \in V, \A x, y \in V : x + y \in V,
         NEW S, IsFiniteSet(S), NEW f, \A x \in S : f[x] \in V
  PROVE  SumFunctionOnSet(f, S) \in V
PROOF
<1> DEFINE G == {n \in Nat : \A s \in SUBSET S : Cardinality(s) = n =>
                                SumFunctionOnSet(f, s) \in V}
<1>1. 0 \in G
  <2> SUFFICES ASSUME NEW s \in SUBSET S, Cardinality(s) = 0
               PROVE  SumFunctionOnSet(f, s) \in V
    OBVIOUS
  <2>1. s = {}
    BY FinitePart, FS_EmptySet
  <2> QED BY <2>1, SumEmpty
<1>2. ASSUME NEW n \in G PROVE n + 1 \in G
  <2> SUFFICES ASSUME NEW s \in SUBSET S, Cardinality(s) = n + 1
               PROVE  SumFunctionOnSet(f, s) \in V
    OBVIOUS
  <2>1. IsFiniteSet(s) /\ n \in Nat /\ s # {}
    BY FinitePart, FS_EmptySet
  <2>2. Pick(s) \in s
    BY <2>1, PickMember
  <2> DEFINE r == s \ {Pick(s)}
  <2>3. r \in SUBSET S /\ Cardinality(r) = n
    BY <2>1, <2>2, SmallerSet
  <2>4. SumFunctionOnSet(f, r) \in V
    BY <2>3
  <2>5. SumFunctionOnSet(f, s) = f[Pick(s)] + SumFunctionOnSet(f, r)
    BY <2>1, SumPick
  <2>6. f[Pick(s)] \in V
    BY <2>2
  <2> QED BY <2>4, <2>5, <2>6
<1>3. G \in SUBSET Nat
  OBVIOUS
<1> HIDE DEF G
<1>4. G = Nat
  BY <1>1, <1>2, <1>3, SetInduction
<1>5. S \in SUBSET S /\ Cardinality(S) \in G
  BY <1>4, FS_CardinalityType
<1> QED BY <1>5 DEF G

LEMMA SumInt ==
  ASSUME NEW S, IsFiniteSet(S), NEW f, \A x \in S : f[x] \in Int
  PROVE  SumFunctionOnSet(f, S) \in Int
PROOF
<1>1. 0 \in Int /\ \A x, y \in Int : x + y \in Int
  OBVIOUS
<1> QED BY <1>1, SumIn, Zenon

LEMMA SumNat ==
  ASSUME NEW S, IsFiniteSet(S), NEW f, \A x \in S : f[x] \in Nat
  PROVE  SumFunctionOnSet(f, S) \in Nat
PROOF
<1>1. 0 \in Nat /\ \A x, y \in Nat : x + y \in Nat
  OBVIOUS
<1> QED BY <1>1, SumIn, Zenon

\* Whatever element the fold begins with, any may be taken out first.
LEMMA SumRemove ==
  ASSUME NEW S, IsFiniteSet(S), NEW f, \A x \in S : f[x] \in Int, NEW y \in S
  PROVE  SumFunctionOnSet(f, S) = f[y] + SumFunctionOnSet(f, S \ {y})
PROOF
<1> DEFINE G == {n \in Nat : \A s \in SUBSET S : Cardinality(s) = n =>
                    \A x \in s : SumFunctionOnSet(f, s) = f[x] + SumFunctionOnSet(f, s \ {x})}
<1>1. 0 \in G
  <2> SUFFICES ASSUME NEW s \in SUBSET S, Cardinality(s) = 0
               PROVE  s = {}
    OBVIOUS
  <2> QED BY FinitePart, FS_EmptySet
<1>2. ASSUME NEW n \in G PROVE n + 1 \in G
  <2> SUFFICES ASSUME NEW s \in SUBSET S, Cardinality(s) = n + 1, NEW x \in s
               PROVE  SumFunctionOnSet(f, s) = f[x] + SumFunctionOnSet(f, s \ {x})
    OBVIOUS
  <2>1. IsFiniteSet(s) /\ n \in Nat /\ s # {}
    BY FinitePart
  <2> DEFINE p == Pick(s)
  <2>2. p \in s
    BY <2>1, PickMember
  <2> HIDE DEF p
  <2>3. SumFunctionOnSet(f, s) = f[p] + SumFunctionOnSet(f, s \ {p})
    BY <2>1, SumPick DEF p
  <2>4. CASE x = p
    BY <2>3, <2>4
  <2>5. CASE x # p
    <3> DEFINE a == s \ {p}  b == s \ {x}  c == s \ {p, x}
    <3>1. a \in SUBSET S /\ Cardinality(a) = n /\ x \in a /\ a \ {x} = c
      BY <2>1, <2>2, <2>5, SmallerSet
    <3>2. b \in SUBSET S /\ Cardinality(b) = n /\ p \in b /\ b \ {p} = c
      BY <2>1, <2>2, <2>5, SmallerSet
    <3>3. SumFunctionOnSet(f, a) = f[x] + SumFunctionOnSet(f, c)
      BY <3>1
    <3>4. SumFunctionOnSet(f, b) = f[p] + SumFunctionOnSet(f, c)
      BY <3>2
    <3>5. SumFunctionOnSet(f, c) \in Int
      <4>1. c \in SUBSET S /\ IsFiniteSet(c)
        BY FinitePart
      <4> QED BY <4>1, SumInt
    <3>6. f[x] \in Int /\ f[p] \in Int
      BY <2>2
    <3> HIDE DEF a, b, c
    <3>7. SumFunctionOnSet(f, s) = f[p] + SumFunctionOnSet(f, a)
      BY <2>3 DEF a
    <3>8. SumFunctionOnSet(f, s) = f[x] + SumFunctionOnSet(f, b)
      BY <3>3, <3>4, <3>5, <3>6, <3>7
    <3> QED BY <3>8 DEF b
  <2> QED BY <2>4, <2>5
<1>3. G \in SUBSET Nat
  OBVIOUS
<1> HIDE DEF G
<1>4. G = Nat
  BY <1>1, <1>2, <1>3, SetInduction
<1>5. S \in SUBSET S /\ Cardinality(S) \in G
  BY <1>4, FS_CardinalityType
<1> QED BY <1>5 DEF G

LEMMA SumAdd ==
  ASSUME NEW S, IsFiniteSet(S), NEW y, y \notin S, NEW f, \A x \in S \cup {y} : f[x] \in Int
  PROVE  SumFunctionOnSet(f, S \cup {y}) = f[y] + SumFunctionOnSet(f, S)
PROOF
<1> DEFINE T == S \cup {y}
<1>1. IsFiniteSet(T) /\ y \in T /\ T \ {y} = S
  BY FS_AddElement
<1> HIDE DEF T
<1>2. \A x \in T : f[x] \in Int
  BY DEF T
<1>3. SumFunctionOnSet(f, T) = f[y] + SumFunctionOnSet(f, T \ {y})
  BY <1>1, <1>2, SumRemove
<1> QED BY <1>1, <1>3 DEF T

\* The terms under other names.
LEMMA SumRenamed ==
  ASSUME NEW S, IsFiniteSet(S), NEW f, \A x \in S : f[x] \in Int,
         NEW h, \A x, y \in S : h[x] = h[y] => x = y,
         NEW g, \A x \in S : g[h[x]] = f[x]
  PROVE  SumFunctionOnSet(g, {h[x] : x \in S}) = SumFunctionOnSet(f, S)
PROOF
<1> DEFINE Named(s) == {h[x] : x \in s}
           G == {n \in Nat : \A s \in SUBSET S : Cardinality(s) = n =>
                    SumFunctionOnSet(g, Named(s)) = SumFunctionOnSet(f, s)}
<1>1. 0 \in G
  <2> SUFFICES ASSUME NEW s \in SUBSET S, Cardinality(s) = 0
               PROVE  SumFunctionOnSet(g, Named(s)) = SumFunctionOnSet(f, s)
    OBVIOUS
  <2>1. s = {}
    BY FinitePart, FS_EmptySet
  <2>2. Named(s) = {}
    BY <2>1
  <2> QED BY <2>1, <2>2, SumEmpty
<1>2. ASSUME NEW n \in G PROVE n + 1 \in G
  <2> SUFFICES ASSUME NEW s \in SUBSET S, Cardinality(s) = n + 1
               PROVE  SumFunctionOnSet(g, Named(s)) = SumFunctionOnSet(f, s)
    OBVIOUS
  <2>1. IsFiniteSet(s) /\ n \in Nat /\ s # {}
    BY FinitePart, FS_EmptySet
  <2> DEFINE y == Pick(s)  r == s \ {y}
  <2>2. y \in s
    BY <2>1, PickMember
  <2>3. r \in SUBSET S /\ Cardinality(r) = n /\ IsFiniteSet(r)
    BY <2>1, <2>2, SmallerSet
  <2>4. SumFunctionOnSet(g, Named(r)) = SumFunctionOnSet(f, r)
    BY <2>3
  <2>5. SumFunctionOnSet(f, s) = f[y] + SumFunctionOnSet(f, r)
    BY <2>1, SumPick
  <2>6. IsFiniteSet(Named(r))
    <3> DEFINE k == [x \in r |-> h[x]]
    <3>1. k \in Surjection(r, Named(r))
      BY DEF Surjection
    <3> HIDE DEF k, r, Named
    <3> QED BY <2>3, <3>1, FS_Surjection
  <2>7. Named(s) = Named(r) \cup {h[y]} /\ h[y] \notin Named(r)
    BY <2>2
  <2>8. \A z \in Named(r) \cup {h[y]} : g[z] \in Int
    BY <2>2
  <2>9. g[h[y]] = f[y]
    BY <2>2
  <2> HIDE DEF Named, y, r
  <2>10. SumFunctionOnSet(g, Named(s)) = g[h[y]] + SumFunctionOnSet(g, Named(r))
    <3> DEFINE T == Named(r)  z == h[y]
    <3>1. /\ IsFiniteSet(T) /\ z \notin T /\ \A x \in T \cup {z} : g[x] \in Int
      BY <2>6, <2>7, <2>8
    <3> HIDE DEF T, z
    <3>2. SumFunctionOnSet(g, T \cup {z}) = g[z] + SumFunctionOnSet(g, T)
      BY <3>1, SumAdd
    <3> QED BY <2>7, <3>2 DEF T, z
  <2> QED BY <2>4, <2>5, <2>9, <2>10
<1>3. G \in SUBSET Nat
  OBVIOUS
<1> HIDE DEF G
<1>4. G = Nat
  BY <1>1, <1>2, <1>3, SetInduction
<1>5. S \in SUBSET S /\ Cardinality(S) \in G
  BY <1>4, FS_CardinalityType
<1> QED BY <1>5 DEF G

-----------------------------------------------------------------------------
(* What side_insert does to a ladder, for every number of levels. *)

\* A set of positions that is not empty has a first one.
LEMMA FirstOfProperties ==
  ASSUME NEW I, I \subseteq Nat, I # {}
  PROVE  FirstOf(I) \in I /\ \A j \in I : FirstOf(I) <= j
PROOF
<1>1. PICK x \in I : \A y \in I : ~(<<y, x>> \in OpToRel(<, Nat))
  BY WFMin, NatLessThanWellFounded, Zenon
<1>2. ASSUME NEW y \in I PROVE x <= y
  <2>1. ~(y < x)
    BY <1>1, Zenon DEF OpToRel
  <2> QED BY <2>1
<1>3. \E i \in I : \A j \in I : i <= j
  BY <1>2
<1> QED BY <1>3, Zenon DEF FirstOf

\* Levels of a ladder.
LEMMA LadderLevels ==
  ASSUME NEW lv \in Ladder
  PROVE  /\ lv \in Seq(Level) /\ Len(lv) \in 0 .. NLevels
         /\ lv \in [1 .. Len(lv) -> Level]
         /\ \A i \in 1 .. Len(lv) :
              lv[i] \in Level /\ lv[i].price \in Nat /\ lv[i].size \in Size
PROOF
<1>1. lv \in Seq(Level) /\ Len(lv) \in 0 .. NLevels
  BY NLevelsAssumption DEF Ladder
<1>2. lv \in [1 .. Len(lv) -> Level]
  BY <1>1, LenProperties
<1> QED BY <1>1, <1>2 DEF Level

\* The RTL's loop finds the first level that the price beats.
LEMMA InsertPosProperties ==
  ASSUME NEW lv \in Ladder, NEW s \in Side, NEW p \in Nat
  PROVE  /\ InsertPos(lv, s, p) \in 1 .. Len(lv) + 1
         /\ \A i \in 1 .. Len(lv) :
              i < InsertPos(lv, s, p) => ~Better(s, p, lv[i].price)
         /\ InsertPos(lv, s, p) <= Len(lv)
              => Better(s, p, lv[InsertPos(lv, s, p)].price)
PROOF
<1> DEFINE I == Beaten(lv, s, p)
<1>1. Len(lv) \in Nat
  BY LadderLevels, NLevelsAssumption
<1>2. I \subseteq 1 .. Len(lv)
  BY DEF Beaten
<1>3. CASE I = {}
  <2>1. InsertPos(lv, s, p) = Len(lv) + 1
    BY <1>3 DEF InsertPos
  <2>2. \A i \in 1 .. Len(lv) : ~Better(s, p, lv[i].price)
    BY <1>3, Zenon DEF Beaten
  <2> QED BY <2>1, <2>2, <1>1
<1>4. CASE I # {}
  <2>1. FirstOf(I) \in I /\ \A j \in I : FirstOf(I) <= j
    <3>1. I \subseteq Nat
      BY <1>1, <1>2
    <3> HIDE DEF I
    <3> QED BY <1>4, <3>1, FirstOfProperties
  <2>2. InsertPos(lv, s, p) = FirstOf(I)
    BY <1>4 DEF InsertPos
  <2>3. Better(s, p, lv[FirstOf(I)].price)
    BY <2>1, Zenon DEF Beaten
  <2>4. ASSUME NEW i \in 1 .. Len(lv), i < FirstOf(I)
        PROVE  ~Better(s, p, lv[i].price)
    <3>1. i \notin I
      BY <1>1, <1>2, <2>1, <2>4
    <3> QED BY <3>1 DEF Beaten
  <2> QED BY <1>1, <1>2, <2>1, <2>2, <2>3, <2>4
<1> QED BY <1>3, <1>4

\* The level that is inserted, those before it, and those pushed down.
LEMMA ShiftedProperties ==
  ASSUME NEW lv \in Ladder, NEW k \in 1 .. Len(lv) + 1, k <= NLevels,
         NEW new \in Level
  PROVE  /\ Shifted(lv, k, new) \in Ladder
         /\ Len(Shifted(lv, k, new)) =
              IF Len(lv) < NLevels THEN Len(lv) + 1 ELSE Len(lv)
         /\ \A i \in 1 .. Len(Shifted(lv, k, new)) :
              Shifted(lv, k, new)[i] =
                IF i < k THEN lv[i] ELSE IF i = k THEN new ELSE lv[i - 1]
PROOF
<1> DEFINE n    == IF Len(lv) < NLevels THEN Len(lv) + 1 ELSE Len(lv)
           e(i) == IF i < k THEN lv[i] ELSE IF i = k THEN new ELSE lv[i - 1]
<1>1. /\ Len(lv) \in 0 .. NLevels
      /\ \A i \in 1 .. Len(lv) : lv[i] \in Level
  BY LadderLevels
<1>2. n \in 0 .. NLevels
  BY <1>1, NLevelsAssumption
<1>3. ASSUME NEW i \in 1 .. n PROVE e(i) \in Level
  <2>1. CASE i < k
    BY <1>1, <2>1, NLevelsAssumption
  <2>2. CASE i = k
    BY <2>2
  <2>3. CASE i > k
    BY <1>1, <2>3, NLevelsAssumption
  <2> QED BY <1>1, <1>2, <2>1, <2>2, <2>3, NLevelsAssumption
<1>4. Shifted(lv, k, new) = [i \in 1 .. n |-> e(i)]
  BY DEF Shifted
<1>5. n \in Nat
  BY <1>2, NLevelsAssumption
<1> HIDE DEF n, e
<1>6. [i \in 1 .. n |-> e(i)] \in Seq(Level)
  BY <1>3, <1>5, IsASeq
<1>7. Len(Shifted(lv, k, new)) = n
  BY <1>4, <1>5, <1>6, LenProperties
<1>8. Shifted(lv, k, new) \in Ladder
  BY <1>2, <1>4, <1>6, <1>7, NLevelsAssumption DEF Ladder
<1>9. \A i \in 1 .. Len(Shifted(lv, k, new)) : Shifted(lv, k, new)[i] = e(i)
  BY <1>4, <1>7
<1> QED BY <1>7, <1>8, <1>9 DEF n, e

(* The three things side_insert can do: add to the level of that price, make  *)
(* room for it, or leave a full ladder of better prices alone.                *)
Aggregated(lv, r, p) ==
  /\ Len(r) = Len(lv)
  /\ \A i \in 1 .. Len(lv) : r[i].price = lv[i].price
  /\ \E i \in 1 .. Len(lv) : lv[i].price = p

Placed(lv, r, s, p) ==
  LET k == InsertPos(lv, s, p)
  IN  /\ k <= NLevels
      /\ \A i \in 1 .. Len(lv) : lv[i].price # p
      /\ Len(r) = IF Len(lv) < NLevels THEN Len(lv) + 1 ELSE Len(lv)
      /\ \A i \in 1 .. Len(r) :
           r[i].price = IF i < k THEN lv[i].price
                        ELSE IF i = k THEN p ELSE lv[i - 1].price

Dropped(lv, r, s, p) ==
  /\ r = lv
  /\ Len(lv) = NLevels
  /\ \A i \in 1 .. Len(lv) : ~Better(s, p, lv[i].price) /\ lv[i].price # p

\* side_insert gives a ladder, by one of the three.
LEMMA SideInsertCases ==
  ASSUME NEW lv \in Ladder, NEW s \in Side, NEW p \in Nat, NEW q \in Size
  PROVE  LET r == side_insert(lv, s, p, q)
         IN  /\ r \in Ladder
             /\ Aggregated(lv, r, p) \/ Placed(lv, r, s, p) \/ Dropped(lv, r, s, p)
PROOF
<1> DEFINE r == side_insert(lv, s, p, q)
           k == InsertPos(lv, s, p)
<1>1. /\ lv \in Seq(Level) /\ Len(lv) \in 0 .. NLevels
      /\ \A i \in 1 .. Len(lv) :
           lv[i] \in Level /\ lv[i].price \in Nat /\ lv[i].size \in Size
  BY LadderLevels
<1>2. CASE Matching(lv, p) # {}
  <2> DEFINE m    == FirstOf(Matching(lv, p))
             size == (lv[m].size + q) % SizeMod
  <2>1. m \in 1 .. Len(lv) /\ lv[m].price = p
    <3>1. Matching(lv, p) \subseteq Nat
      BY <1>1, NLevelsAssumption DEF Matching
    <3>2. m \in Matching(lv, p)
      BY <1>2, <3>1, FirstOfProperties
    <3> QED BY <3>2 DEF Matching
  <2>2. size \in Size
    BY <1>1, <2>1, SizeModAssumption DEF Size
  <2>3. r = [lv EXCEPT ![m] = [lv[m] EXCEPT !.size = size]]
    BY <1>2 DEF side_insert
  <2>4. [lv[m] EXCEPT !.size = size] \in Level
        /\ [lv[m] EXCEPT !.size = size].price = lv[m].price
    BY <1>1, <2>1, <2>2 DEF Level
  <2> HIDE DEF m, size, r
  <2>5. /\ r \in Seq(Level) /\ Len(r) = Len(lv)
        /\ \A i \in 1 .. Len(lv) :
             r[i] = IF i = m THEN [lv[m] EXCEPT !.size = size] ELSE lv[i]
    BY <1>1, <2>1, <2>3, <2>4, ExceptSeq
  <2>6. Aggregated(lv, r, p)
    BY <2>1, <2>4, <2>5 DEF Aggregated
  <2>7. r \in Ladder
    BY <1>1, <2>5, NLevelsAssumption DEF Ladder
  <2> QED BY <2>6, <2>7 DEF r
<1>3. CASE Matching(lv, p) = {}
  <2>1. \A i \in 1 .. Len(lv) : lv[i].price # p
    BY <1>3, Zenon DEF Matching
  <2>2. /\ k \in 1 .. Len(lv) + 1
        /\ \A i \in 1 .. Len(lv) : i < k => ~Better(s, p, lv[i].price)
    BY InsertPosProperties
  <2>3. CASE k <= NLevels
    <3> DEFINE new == [price |-> p, size |-> q]
    <3>1. new \in Level /\ new.price = p
      BY DEF Level
    <3>2. r = Shifted(lv, k, new)
      BY <1>3, <2>3 DEF side_insert
    <3> HIDE DEF new, k, r
    <3>3. /\ r \in Ladder
          /\ Len(r) = IF Len(lv) < NLevels THEN Len(lv) + 1 ELSE Len(lv)
          /\ \A i \in 1 .. Len(r) :
               r[i] = IF i < k THEN lv[i] ELSE IF i = k THEN new ELSE lv[i - 1]
      BY <2>2, <2>3, <3>1, <3>2, ShiftedProperties
    <3>4. \A i \in 1 .. Len(r) :
            r[i].price = IF i < k THEN lv[i].price
                         ELSE IF i = k THEN p ELSE lv[i - 1].price
      BY <3>1, <3>3
    <3>5. Placed(lv, r, s, p)
      BY <2>1, <2>3, <3>3, <3>4 DEF Placed, k
    <3> QED BY <3>3, <3>5 DEF r
  <2>4. CASE ~(k <= NLevels)
    <3>1. r = lv
      BY <1>3, <2>4 DEF side_insert
    <3>2. Len(lv) = NLevels /\ \A i \in 1 .. Len(lv) : i < k
      BY <1>1, <2>2, <2>4, NLevelsAssumption
    <3>3. Dropped(lv, r, s, p)
      BY <2>1, <2>2, <3>1, <3>2 DEF Dropped
    <3> QED BY <3>1, <3>3
  <2> QED BY <2>3, <2>4
<1> QED BY <1>2, <1>3

\* The ladder stays sorted, with no price shown twice.
LEMMA SideInsertSorted ==
  ASSUME NEW lv \in Ladder, NEW s \in Side, NEW p \in Nat, NEW q \in Size,
         Sorted(lv, s)
  PROVE  Sorted(side_insert(lv, s, p, q), s)
PROOF
<1> DEFINE r == side_insert(lv, s, p, q)
           k == InsertPos(lv, s, p)
<1>1. /\ Len(lv) \in 0 .. NLevels
      /\ \A i \in 1 .. Len(lv) : lv[i].price \in Nat
  BY LadderLevels
<1>2. /\ k \in 1 .. Len(lv) + 1
      /\ \A i \in 1 .. Len(lv) : i < k => ~Better(s, p, lv[i].price)
      /\ k <= Len(lv) => Better(s, p, lv[k].price)
  BY InsertPosProperties
<1>3. Aggregated(lv, r, p) \/ Placed(lv, r, s, p) \/ Dropped(lv, r, s, p)
  BY SideInsertCases
<1> SUFFICES Sorted(r, s)
  OBVIOUS
<1> HIDE DEF r, k
<1>4. CASE Aggregated(lv, r, p)
  BY <1>4 DEF Aggregated, Sorted
<1>5. CASE Placed(lv, r, s, p)
  <2> SUFFICES ASSUME NEW i \in 1 .. Len(r), NEW j \in 1 .. Len(r), i < j
               PROVE  Better(s, r[i].price, r[j].price)
    BY DEF Sorted
  <2>1. /\ \A a, b \in 1 .. Len(lv) : a < b => Better(s, lv[a].price, lv[b].price)
        /\ \A a \in 1 .. Len(lv) : lv[a].price # p
    BY <1>5 DEF Placed, Sorted
  <2>2. /\ Len(r) = IF Len(lv) < NLevels THEN Len(lv) + 1 ELSE Len(lv)
        /\ \A a \in 1 .. Len(r) :
             r[a].price = IF a < k THEN lv[a].price
                          ELSE IF a = k THEN p ELSE lv[a - 1].price
    BY <1>5 DEF Placed, k
  <2>3. CASE j < k
    <3>1. /\ i \in 1 .. Len(lv) /\ j \in 1 .. Len(lv)
          /\ r[i].price = lv[i].price /\ r[j].price = lv[j].price
      BY <1>1, <1>2, <2>2, <2>3, NLevelsAssumption
    <3> QED BY <2>1, <3>1
  <2>4. CASE j = k
    <3>1. i \in 1 .. Len(lv) /\ r[i].price = lv[i].price /\ r[j].price = p
      BY <1>1, <1>2, <2>2, <2>4, NLevelsAssumption
    <3>2. ~Better(s, p, lv[i].price) /\ lv[i].price # p
      BY <1>2, <2>1, <2>4, <3>1
    <3> QED BY <1>1, <3>1, <3>2 DEF Better
  <2>5. CASE j > k /\ i < k
    <3>1. /\ i \in 1 .. Len(lv) /\ j - 1 \in 1 .. Len(lv) /\ i < j - 1
          /\ r[i].price = lv[i].price /\ r[j].price = lv[j - 1].price
      BY <1>1, <1>2, <2>2, <2>5, NLevelsAssumption
    <3> QED BY <2>1, <3>1
  <2>6. CASE j > k /\ i = k
    <3>1. /\ j - 1 \in 1 .. Len(lv) /\ k \in 1 .. Len(lv) /\ k <= j - 1
          /\ r[i].price = p /\ r[j].price = lv[j - 1].price
      BY <1>1, <1>2, <2>2, <2>6, NLevelsAssumption
    <3>2. Better(s, p, lv[k].price)
      BY <1>1, <1>2, <3>1, NLevelsAssumption
    <3>3. k < j - 1 => Better(s, lv[k].price, lv[j - 1].price)
      BY <2>1, <3>1
    <3>4. k = j - 1 \/ k < j - 1
      BY <1>2, <3>1, NLevelsAssumption
    <3> DEFINE x == lv[k].price  y == lv[j - 1].price
    <3>5. x \in Nat /\ y \in Nat
      BY <1>1, <3>1
    <3>6. Better(s, p, x) /\ (x = y \/ Better(s, x, y))
      BY <3>2, <3>3, <3>4
    <3> HIDE DEF x, y
    <3>7. Better(s, p, y)
      BY <3>5, <3>6 DEF Better
    <3> QED BY <3>1, <3>7 DEF y
  <2>7. CASE j > k /\ i > k
    <3>1. /\ i - 1 \in 1 .. Len(lv) /\ j - 1 \in 1 .. Len(lv) /\ i - 1 < j - 1
          /\ r[i].price = lv[i - 1].price /\ r[j].price = lv[j - 1].price
      BY <1>1, <1>2, <2>2, <2>7, NLevelsAssumption
    <3> QED BY <2>1, <3>1
  <2> QED BY <1>1, <1>2, <2>3, <2>4, <2>5, <2>6, <2>7, NLevelsAssumption
<1>6. CASE Dropped(lv, r, s, p)
  BY <1>6 DEF Dropped
<1> QED BY <1>3, <1>4, <1>5, <1>6

(* No price is lost: the new one is covered, and so is each that was.  A      *)
(* level pushed off the ladder is worse than all NLevels that remain.         *)
LEMMA SideInsertCovers ==
  ASSUME NEW lv \in Ladder, NEW s \in Side, NEW p \in Nat, NEW q \in Size,
         Sorted(lv, s), NEW x \in Nat, x = p \/ Covered(lv, s, x)
  PROVE  Covered(side_insert(lv, s, p, q), s, x)
PROOF
<1> DEFINE r == side_insert(lv, s, p, q)
           k == InsertPos(lv, s, p)
<1>1. /\ Len(lv) \in 0 .. NLevels
      /\ \A i \in 1 .. Len(lv) : lv[i].price \in Nat
  BY LadderLevels
<1>2. /\ k \in 1 .. Len(lv) + 1
      /\ \A i \in 1 .. Len(lv) : i < k => ~Better(s, p, lv[i].price)
      /\ k <= Len(lv) => Better(s, p, lv[k].price)
  BY InsertPosProperties
<1>3. /\ Aggregated(lv, r, p) \/ Placed(lv, r, s, p) \/ Dropped(lv, r, s, p)
      /\ Sorted(r, s) /\ r \in Ladder
  BY SideInsertCases, SideInsertSorted
<1>r. \A i \in 1 .. Len(r) : r[i].price \in Nat
  BY <1>3, LadderLevels
<1> SUFFICES Covered(r, s, x)
  OBVIOUS
<1> HIDE DEF r, k
<1>4. CASE Aggregated(lv, r, p)
  BY <1>1, <1>4, NLevelsAssumption DEF Aggregated, Covered
<1>5. CASE Placed(lv, r, s, p)
  <2>1. /\ k <= NLevels
        /\ Len(r) = IF Len(lv) < NLevels THEN Len(lv) + 1 ELSE Len(lv)
        /\ \A a \in 1 .. Len(r) :
             r[a].price = IF a < k THEN lv[a].price
                          ELSE IF a = k THEN p ELSE lv[a - 1].price
    BY <1>5 DEF Placed, k
  <2>2. k \in 1 .. Len(r) /\ r[k].price = p
    BY <1>1, <1>2, <2>1, NLevelsAssumption
  <2>3. CASE x = p
    BY <2>2, <2>3 DEF Covered
  <2>4. CASE \E i \in 1 .. Len(lv) : lv[i].price = x
    <3>1. PICK i \in 1 .. Len(lv) : lv[i].price = x
      BY <2>4
    <3>2. CASE i < k
      <4>1. i \in 1 .. Len(r) /\ r[i].price = x
        BY <1>1, <1>2, <2>1, <3>1, <3>2, NLevelsAssumption
      <4> QED BY <4>1 DEF Covered
    <3>3. CASE i >= k /\ i + 1 <= Len(r)
      <4> DEFINE j == i + 1
      <4>1. j \in 1 .. Len(r) /\ j > k /\ j - 1 = i
        BY <1>1, <1>2, <2>1, <3>3, NLevelsAssumption
      <4> HIDE DEF j
      <4>2. r[j].price = lv[j - 1].price
        BY <1>2, <2>1, <4>1
      <4>3. j \in 1 .. Len(r) /\ r[j].price = x
        BY <3>1, <4>1, <4>2
      <4> QED BY <4>3 DEF Covered
    <3>4. CASE i >= k /\ i + 1 > Len(r)
      \* The last level of a full ladder is the one pushed off.
      <4>1. i = NLevels /\ Len(lv) = NLevels /\ Len(r) = NLevels
        BY <1>1, <1>2, <2>1, <3>1, <3>4, NLevelsAssumption
      <4>2. Better(s, r[NLevels].price, x)
        <5>1. CASE k = NLevels
          BY <1>1, <1>2, <2>2, <3>1, <4>1, <5>1, NLevelsAssumption
        <5>2. CASE k < NLevels
          <6>1. /\ NLevels - 1 \in 1 .. Len(lv) /\ NLevels - 1 < i
                /\ r[NLevels].price = lv[NLevels - 1].price
            BY <1>1, <1>2, <2>1, <4>1, <5>2, NLevelsAssumption
          <6> QED BY <3>1, <4>1, <6>1 DEF Sorted
        <5> QED BY <1>2, <2>1, <4>1, <5>1, <5>2, NLevelsAssumption
      <4>3. ASSUME NEW a \in 1 .. NLevels PROVE Better(s, r[a].price, x)
        <5>1. a = NLevels \/ (a < NLevels /\ a \in 1 .. Len(r) /\ NLevels \in 1 .. Len(r))
          BY <4>1, NLevelsAssumption
        <5>2. CASE a = NLevels
          BY <4>2, <5>2
        <5>3. CASE a < NLevels /\ a \in 1 .. Len(r) /\ NLevels \in 1 .. Len(r)
          <6>1. Better(s, r[a].price, r[NLevels].price)
            BY <1>3, <5>3 DEF Sorted
          <6> QED BY <1>r, <4>2, <5>3, <6>1 DEF Better
        <5> QED BY <5>1, <5>2, <5>3
      <4> QED BY <4>1, <4>3 DEF Covered
    <3> QED BY <1>1, <1>2, <2>1, <3>2, <3>3, <3>4, NLevelsAssumption
  <2>5. CASE Len(lv) = NLevels /\ \A i \in 1 .. NLevels : Better(s, lv[i].price, x)
    <3>1. Len(r) = NLevels
      BY <2>1, <2>5
    <3>2. ASSUME NEW a \in 1 .. NLevels PROVE Better(s, r[a].price, x)
      <4>1. CASE a < k
        BY <2>1, <2>5, <3>1, <4>1
      <4>2. CASE a = k
        <5>1. k \in 1 .. Len(lv)
          BY <1>2, <2>1, <2>5
        <5>2. Better(s, p, lv[k].price) /\ Better(s, lv[k].price, x)
          BY <1>2, <2>5, <5>1, NLevelsAssumption
        <5> QED BY <1>1, <2>2, <4>2, <5>1, <5>2 DEF Better
      <4>3. CASE a > k
        <5>1. a - 1 \in 1 .. NLevels
          BY <1>1, <1>2, <4>3, NLevelsAssumption
        <5>2. a \in 1 .. Len(r) /\ ~(a < k) /\ a # k
          BY <1>1, <1>2, <3>1, <4>3, NLevelsAssumption
        <5>3. r[a].price = lv[a - 1].price
          BY <2>1, <5>2
        <5> QED BY <2>5, <5>1, <5>3
      <4> QED BY <1>1, <1>2, <4>1, <4>2, <4>3, NLevelsAssumption
    <3> QED BY <3>1, <3>2 DEF Covered
  <2> QED BY <2>3, <2>4, <2>5 DEF Covered
<1>6. CASE Dropped(lv, r, s, p)
  <2>1. CASE x = p
    <3>1. \A i \in 1 .. NLevels : Better(s, lv[i].price, p)
      BY <1>1, <1>6 DEF Dropped, Better
    <3> QED BY <1>6, <2>1, <3>1 DEF Dropped, Covered
  <2> QED BY <1>6, <2>1 DEF Dropped
<1> QED BY <1>3, <1>4, <1>5, <1>6

\* No price appears from nowhere.
LEMMA SideInsertPrices ==
  ASSUME NEW lv \in Ladder, NEW s \in Side, NEW p \in Nat, NEW q \in Size,
         NEW i \in 1 .. Len(side_insert(lv, s, p, q)),
         side_insert(lv, s, p, q)[i].price # p
  PROVE  \E j \in 1 .. Len(lv) : lv[j].price = side_insert(lv, s, p, q)[i].price
PROOF
<1> DEFINE r == side_insert(lv, s, p, q)
           k == InsertPos(lv, s, p)
<1>1. Len(lv) \in 0 .. NLevels
  BY LadderLevels
<1>2. k \in 1 .. Len(lv) + 1
  BY InsertPosProperties
<1>3. Aggregated(lv, r, p) \/ Placed(lv, r, s, p) \/ Dropped(lv, r, s, p)
  BY SideInsertCases
<1>4. i \in 1 .. Len(r) /\ r[i].price # p
  OBVIOUS
<1> SUFFICES \E j \in 1 .. Len(lv) : lv[j].price = r[i].price
  OBVIOUS
<1> HIDE DEF r, k
<1>5. CASE Aggregated(lv, r, p)
  BY <1>4, <1>5 DEF Aggregated
<1>6. CASE Placed(lv, r, s, p)
  <2>1. /\ Len(r) = IF Len(lv) < NLevels THEN Len(lv) + 1 ELSE Len(lv)
        /\ r[i].price = IF i < k THEN lv[i].price
                        ELSE IF i = k THEN p ELSE lv[i - 1].price
    BY <1>4, <1>6 DEF Placed, k
  <2>2. CASE i < k
    <3>1. i \in 1 .. Len(lv) /\ r[i].price = lv[i].price
      BY <1>1, <1>2, <1>4, <2>1, <2>2, NLevelsAssumption
    <3> QED BY <3>1
  <2>3. CASE i > k
    <3>1. i - 1 \in 1 .. Len(lv) /\ r[i].price = lv[i - 1].price
      BY <1>1, <1>2, <1>4, <2>1, <2>3, NLevelsAssumption
    <3> QED BY <3>1
  <2> QED BY <1>1, <1>2, <1>4, <2>1, <2>2, <2>3, NLevelsAssumption
<1>7. CASE Dropped(lv, r, s, p)
  BY <1>4, <1>7 DEF Dropped
<1> QED BY <1>3, <1>5, <1>6, <1>7

-----------------------------------------------------------------------------
(* The edges. *)

\* The slot of a reference.
LEMMA IdxInSlot == ASSUME NEW ref \in Nat PROVE Idx(ref) \in Slot
PROOF BY OrderDepthAssumption DEF Idx, Slot

LEMMA EmptyLevelsType ==
  /\ EmptyLevels \in [Side -> Ladder]
  /\ \A s \in Side : Len(EmptyLevels[s]) = 0 /\ Sorted(EmptyLevels[s], s)
PROOF
<1>1. << >> \in Seq(Level) /\ Len(<< >>) = 0
  OBVIOUS
<1>2. << >> \in Ladder
  BY <1>1, NLevelsAssumption DEF Ladder
<1>3. ASSUME NEW s \in Side PROVE Sorted(<< >>, s)
  BY <1>1 DEF Sorted
<1> QED BY <1>1, <1>2, <1>3 DEF EmptyLevels

\* An order put on one side leaves sorted ladders that cover all they covered.
LEMMA InsertedLevels ==
  ASSUME NEW L \in [Side -> Ladder], \A s \in Side : Sorted(L[s], s),
         NEW t \in Side, NEW p \in Nat, NEW q \in Size
  PROVE  LET M == Inserted(L, t, p, q)
         IN  /\ M \in [Side -> Ladder]
             /\ \A s \in Side : Sorted(M[s], s)
             /\ \A s \in Side, x \in Nat :
                  (s = t /\ x = p) \/ Covered(L[s], s, x) => Covered(M[s], s, x)
PROOF
<1> DEFINE r == side_insert(L[t], t, p, q)
           M == Inserted(L, t, p, q)
<1>1. r \in Ladder /\ Sorted(r, t)
  BY SideInsertCases, SideInsertSorted
<1>2. \A x \in Nat : x = p \/ Covered(L[t], t, x) => Covered(r, t, x)
  BY SideInsertCovers
<1>3. M = [L EXCEPT ![t] = r]
  BY DEF Inserted
<1> HIDE DEF r, M
<1>4. M \in [Side -> Ladder] /\ \A s \in Side : M[s] = IF s = t THEN r ELSE L[s]
  BY <1>1, <1>3
<1>5. \A s \in Side : Sorted(M[s], s)
  BY <1>1, <1>4
<1>6. \A s \in Side, x \in Nat :
        (s = t /\ x = p) \/ Covered(L[s], s, x) => Covered(M[s], s, x)
  BY <1>2, <1>4
<1> QED BY <1>4, <1>5, <1>6 DEF M

\* The prices after it are that of the order and some of those before.
LEMMA InsertedPrices ==
  ASSUME NEW L \in [Side -> Ladder], NEW t \in Side, NEW p \in Nat, NEW q \in Size,
         NEW s \in Side, NEW k \in 1 .. Len(Inserted(L, t, p, q)[s]),
         ~(s = t /\ Inserted(L, t, p, q)[s][k].price = p)
  PROVE  \E j \in 1 .. Len(L[s]) : L[s][j].price = Inserted(L, t, p, q)[s][k].price
PROOF
<1> DEFINE r == side_insert(L[t], t, p, q)
<1>1. Inserted(L, t, p, q)[s] = IF s = t THEN r ELSE L[s]
  BY DEF Inserted
<1>2. CASE s = t
  BY <1>1, <1>2, SideInsertPrices
<1>3. CASE s # t
  BY <1>1, <1>3
<1> QED BY <1>2, <1>3

\* The registers of a book.
LEMMA BookFields ==
  ASSUME NEW b \in Book
  PROVE  /\ b.state \in {"IDLE", "LOOKUP", "RESCAN"}
         /\ b.entries \in [Slot -> Entry] /\ b.entry_valid \subseteq Slot
         /\ b.rd_data \in Entry /\ b.m \in Message
         /\ b.lv \in [Side -> Ladder] /\ b.scan_lv \in [Side -> Ladder]
         /\ b.scan_addr \in 0 .. OrderDepth + 1 /\ b.proc_idx \in Slot
         /\ b.proc_en \in BOOLEAN
PROOF BY DEF Book

\* Writing a register.
LEMMA BookUpdate ==
  ASSUME NEW b \in Book
  PROVE  /\ \A v \in {"IDLE", "LOOKUP", "RESCAN"} : [b EXCEPT !.state = v] \in Book
         /\ \A v \in [Slot -> Entry] : [b EXCEPT !.entries = v] \in Book
         /\ \A v \in SUBSET Slot : [b EXCEPT !.entry_valid = v] \in Book
         /\ \A v \in Entry : [b EXCEPT !.rd_data = v] \in Book
         /\ \A v \in [Side -> Ladder] : [b EXCEPT !.lv = v] \in Book
         /\ \A v \in [Side -> Ladder] : [b EXCEPT !.scan_lv = v] \in Book
         /\ \A v \in 0 .. OrderDepth + 1 : [b EXCEPT !.scan_addr = v] \in Book
         /\ \A v \in Slot : [b EXCEPT !.proc_idx = v] \in Book
         /\ \A v \in BOOLEAN : [b EXCEPT !.proc_en = v] \in Book
PROOF BY DEF Book

\* The fields of a message.
LEMMA MessageFields ==
  ASSUME NEW msg \in Message
  PROVE  /\ msg.ref \in Nat /\ msg.nref \in Nat /\ msg.price \in Nat
         /\ msg.side \in Side /\ msg.shares \in Size
         /\ Idx(msg.ref) \in Slot /\ Idx(msg.nref) \in Slot
PROOF BY IdxInSlot DEF Message

\* Powering up and resetting.
LEMMA InitBookInv == BookInv(InitBook) /\ PhantomFree(InitBook)
PROOF
<1>1. 0 \in Size /\ 0 \in Slot
  BY SizeModAssumption, OrderDepthAssumption DEF Size, Slot
<1>2. BlankEntry \in Entry /\ BlankMessage \in Message
  BY <1>1 DEF BlankEntry, Entry, BlankMessage, Message, MsgType, Side
<1>3. InitBook \in Book
  BY <1>1, <1>2, EmptyLevelsType, OrderDepthAssumption DEF InitBook, Book
<1> QED BY <1>3, EmptyLevelsType
    DEF InitBook, BookInv, SortedBook, ShownBook, LookupFresh, ScanAligned,
        ScanCovers, PhantomFree, Backed

LEMMA ResetEdgeInv ==
  ASSUME NEW b, BookInv(b)
  PROVE  BookInv(ResetEdge(b)) /\ PhantomFree(ResetEdge(b))
PROOF
<1> DEFINE c == ResetEdge(b)
<1>1. b \in Book
  BY DEF BookInv
<1>2. 0 \in Slot
  BY OrderDepthAssumption DEF Slot
<1>3. /\ c.state = "IDLE" /\ c.entry_valid = {}
      /\ c.lv = EmptyLevels /\ c.scan_lv = EmptyLevels
  BY <1>1 DEF ResetEdge, Book
<1>5. c \in Book
  <2> DEFINE c1 == [b  EXCEPT !.state = "IDLE"]
             c2 == [c1 EXCEPT !.entry_valid = {}]
             c3 == [c2 EXCEPT !.lv = EmptyLevels]
             c4 == [c3 EXCEPT !.scan_lv = EmptyLevels]
             c5 == [c4 EXCEPT !.scan_addr = 0]
             c6 == [c5 EXCEPT !.proc_idx = 0]
             c7 == [c6 EXCEPT !.proc_en = FALSE]
  <2>1. c2 \in Book
    BY <1>1, BookUpdate
  <2>2. c4 \in Book
    <3> HIDE DEF c2
    <3> QED BY <2>1, BookUpdate, EmptyLevelsType
  <2>3. c5 \in Book
    <3>1. 0 \in 0 .. OrderDepth + 1
      BY OrderDepthAssumption
    <3> HIDE DEF c4
    <3> QED BY <2>2, <3>1, BookUpdate
  <2>4. c7 \in Book
    <3> HIDE DEF c5
    <3> QED BY <1>2, <2>3, BookUpdate
  <2> QED BY <2>4, Zenon DEF ResetEdge
<1> HIDE DEF c
<1>4. BookInv(c) /\ PhantomFree(c)
  BY <1>3, <1>5, EmptyLevelsType
  DEF BookInv, SortedBook, ShownBook, LookupFresh, ScanAligned, ScanCovers,
      PhantomFree, Backed
<1> QED BY <1>4 DEF c

\* IDLE: an Add is on a level at once.
LEMMA AddEdgeInv ==
  ASSUME NEW b, BookInv(b), b.state = "IDLE", NEW msg \in Message
  PROVE  BookInv(AddEdge(b, msg))
PROOF
<1> DEFINE c == AddEdge(b, msg)
           i == Idx(msg.ref)
           e == EntryOf(msg)
<1>1. b \in Book /\ SortedBook(b) /\ ShownBook(b)
  BY DEF BookInv
<1>2. /\ i \in Slot /\ msg.ref \in Nat /\ msg.price \in Nat
      /\ msg.side \in Side /\ msg.shares \in Size
  BY MessageFields
<1>3. e \in Entry /\ e.side = msg.side /\ e.price = msg.price
  BY <1>2 DEF EntryOf, Entry
<1> DEFINE M == Inserted(b.lv, msg.side, msg.price, msg.shares)
<1>4. /\ M \in [Side -> Ladder]
      /\ \A s \in Side : Sorted(M[s], s)
      /\ \A s \in Side, x \in Nat :
           (s = msg.side /\ x = msg.price) \/ Covered(b.lv[s], s, x)
             => Covered(M[s], s, x)
  <2>1. b.lv \in [Side -> Ladder] /\ \A s \in Side : Sorted(b.lv[s], s)
    BY <1>1, BookFields DEF SortedBook
  <2> QED BY <1>2, <2>1, InsertedLevels
<1>5. /\ c.state = "IDLE" /\ c.entries = [b.entries EXCEPT ![i] = e]
      /\ c.entry_valid = b.entry_valid \cup {i} /\ c.lv = M
      /\ c.scan_lv = b.scan_lv
  BY <1>1 DEF AddEdge, Latched, Book
<1> HIDE DEF M
<1>6. c \in Book
  BY <1>1, <1>2, <1>3, <1>4, <1>5 DEF AddEdge, Latched, Book
<1> HIDE DEF c, i, e
<1>7. SortedBook(c)
  BY <1>1, <1>4, <1>5 DEF SortedBook
<1>8. ShownBook(c)
  <2> SUFFICES ASSUME NEW j \in c.entry_valid
               PROVE  CoveredBy(c, c.lv, j)
    BY DEF ShownBook
  <2>1. CASE j = i
    <3>1. c.entries[j] = e
      BY <1>1, <1>2, <1>5, <2>1, BookFields
    <3> QED BY <1>2, <1>3, <1>4, <1>5, <3>1 DEF CoveredBy
  <2>2. CASE j # i
    <3>1. /\ j \in b.entry_valid /\ j \in Slot /\ c.entries[j] = b.entries[j]
          /\ b.entries[j].side \in Side /\ b.entries[j].price \in Nat
      BY <1>1, <1>2, <1>5, <2>2, BookFields DEF Entry
    <3>2. CoveredBy(b, b.lv, j)
      BY <1>1, <3>1 DEF ShownBook
    <3> QED BY <1>4, <1>5, <3>1, <3>2 DEF CoveredBy
  <2> QED BY <2>1, <2>2
<1>9. BookInv(c)
  BY <1>5, <1>6, <1>7, <1>8 DEF BookInv, LookupFresh, ScanAligned, ScanCovers
<1> QED BY <1>9 DEF c

LEMMA AddEdgePhantomFree ==
  ASSUME NEW b, BookInv(b), PhantomFree(b), b.state = "IDLE",
         NEW msg \in Message, Idx(msg.ref) \notin b.entry_valid
  PROVE  PhantomFree(AddEdge(b, msg))
PROOF
<1> DEFINE c == AddEdge(b, msg)
           i == Idx(msg.ref)
           e == EntryOf(msg)
<1>1. b \in Book /\ SortedBook(b)
  BY DEF BookInv
<1>2. /\ i \in Slot /\ msg.price \in Nat
      /\ msg.side \in Side /\ msg.shares \in Size
  BY MessageFields
<1>3. e.side = msg.side /\ e.price = msg.price
  BY DEF EntryOf
<1> DEFINE M == Inserted(b.lv, msg.side, msg.price, msg.shares)
<1>4. b.lv \in [Side -> Ladder]
  BY <1>1, BookFields
<1>5. /\ c.state = "IDLE" /\ c.entries = [b.entries EXCEPT ![i] = e]
      /\ c.entry_valid = b.entry_valid \cup {i} /\ c.lv = M
  BY <1>1 DEF AddEdge, Latched, Book
<1> HIDE DEF M, c, e
<1>6. /\ c.entries[i] = e
      /\ \A j \in b.entry_valid : c.entries[j] = b.entries[j]
  BY <1>1, <1>2, <1>5, BookFields
<1>7. Backed(c, c.lv)
  <2> SUFFICES ASSUME NEW s \in Side, NEW k \in 1 .. Len(M[s])
               PROVE  \E j \in c.entry_valid : /\ c.entries[j].side = s
                                               /\ c.entries[j].price = M[s][k].price
    BY <1>5 DEF Backed
  <2>1. CASE s = msg.side /\ M[s][k].price = msg.price
    BY <1>3, <1>5, <1>6, <2>1
  <2>2. CASE ~(s = msg.side /\ M[s][k].price = msg.price)
    <3>1. PICK j \in 1 .. Len(b.lv[s]) : b.lv[s][j].price = M[s][k].price
      <4> DEFINE L == b.lv
                 t == msg.side
                 p == msg.price
                 q == msg.shares
      <4>1. /\ L \in [Side -> Ladder] /\ t \in Side /\ p \in Nat /\ q \in Size
            /\ k \in 1 .. Len(Inserted(L, t, p, q)[s])
            /\ ~(s = t /\ Inserted(L, t, p, q)[s][k].price = p)
        BY <1>2, <1>4, <2>2 DEF M
      <4>2. SUFFICES \E j \in 1 .. Len(L[s]) :
                       L[s][j].price = Inserted(L, t, p, q)[s][k].price
        BY DEF M
      <4> HIDE DEF L, t, p, q
      <4> QED BY <4>1, InsertedPrices
    <3>2. \E x \in b.entry_valid : /\ b.entries[x].side = s
                                   /\ b.entries[x].price = M[s][k].price
      BY <3>1 DEF PhantomFree, Backed
    <3> QED BY <1>5, <1>6, <3>2
  <2> QED BY <2>1, <2>2
<1>8. PhantomFree(c)
  BY <1>5, <1>7 DEF PhantomFree
<1> QED BY <1>8 DEF c

\* IDLE: latching a message and reading its slot.
LEMMA LatchedType ==
  ASSUME NEW b \in Book, NEW msg \in Message
  PROVE  /\ Latched(b, msg) \in Book
         /\ Latched(b, msg).m = msg
         /\ Latched(b, msg).rd_data = b.entries[Idx(msg.ref)]
         /\ \A c \in {Latched(b, msg), ReadEdge(b, msg)} :
              /\ c.entries = b.entries /\ c.entry_valid = b.entry_valid
              /\ c.lv = b.lv /\ c.scan_lv = b.scan_lv
PROOF
<1>1. b.entries[Idx(msg.ref)] \in Entry
  BY MessageFields, BookFields
<1> QED BY <1>1 DEF Latched, ReadEdge, Book

LEMMA IgnoreEdgeInv ==
  ASSUME NEW b, BookInv(b), b.state = "IDLE", NEW msg \in Message
  PROVE  /\ BookInv(IgnoreEdge(b, msg))
         /\ PhantomFree(b) => PhantomFree(IgnoreEdge(b, msg))
PROOF
<1> DEFINE c == Latched(b, msg)
<1>1. b \in Book /\ SortedBook(b) /\ ShownBook(b)
  BY DEF BookInv
<1>2. /\ c \in Book /\ c.entries = b.entries /\ c.entry_valid = b.entry_valid
      /\ c.lv = b.lv /\ c.scan_lv = b.scan_lv
  BY <1>1, LatchedType
<1>3. c.state = "IDLE"
  BY <1>1 DEF Latched, Book
<1> HIDE DEF c
<1>4. BookInv(c) /\ (PhantomFree(b) => PhantomFree(c))
  BY <1>1, <1>2, <1>3 DEF BookInv, SortedBook, ShownBook, CoveredBy, LookupFresh,
                          ScanAligned, ScanCovers, PhantomFree, Backed
<1> QED BY <1>4 DEF IgnoreEdge, c

LEMMA ReadEdgeInv ==
  ASSUME NEW b, BookInv(b), b.state = "IDLE", NEW msg \in Message,
         msg.type \in LookupTypes
  PROVE  /\ BookInv(ReadEdge(b, msg))
         /\ PhantomFree(b) => PhantomFree(ReadEdge(b, msg))
PROOF
<1> DEFINE c == ReadEdge(b, msg)
<1>1. b \in Book /\ SortedBook(b) /\ ShownBook(b)
  BY DEF BookInv
<1>2. /\ c.entries = b.entries /\ c.entry_valid = b.entry_valid
      /\ c.lv = b.lv /\ c.scan_lv = b.scan_lv
  BY <1>1, LatchedType
<1>3. c \in Book
  <2> DEFINE d == Latched(b, msg)
  <2>1. d \in Book
    BY <1>1, LatchedType
  <2> HIDE DEF d
  <2>2. [d EXCEPT !.state = "LOOKUP"] \in Book
    BY <2>1, BookUpdate
  <2> QED BY <2>2 DEF ReadEdge, d
<1>4. c.state = "LOOKUP" /\ c.m = msg /\ c.rd_data = b.entries[Idx(msg.ref)]
  BY <1>1 DEF ReadEdge, Latched, Book
<1> HIDE DEF c
<1>5. BookInv(c) /\ (PhantomFree(b) => PhantomFree(c))
  BY <1>1, <1>2, <1>3, <1>4 DEF BookInv, SortedBook, ShownBook, CoveredBy, LookupFresh,
                          ScanAligned, ScanCovers, PhantomFree, Backed
<1> QED BY <1>5 DEF c

-----------------------------------------------------------------------------
(* LOOKUP. *)

\* A scan starts from nothing, whatever the table has become.
LEMMA StartRescanInv ==
  ASSUME NEW d \in Book, \A s \in Side : Sorted(d.lv[s], s)
  PROVE  BookInv(StartRescan(d)) /\ PhantomFree(StartRescan(d))
PROOF
<1> DEFINE c == StartRescan(d)
<1>1. c \in Book
  <2> DEFINE c1 == [d  EXCEPT !.state = "RESCAN"]
             c2 == [c1 EXCEPT !.scan_addr = 0]
             c3 == [c2 EXCEPT !.proc_en = FALSE]
             c4 == [c3 EXCEPT !.scan_lv = EmptyLevels]
  <2>1. c1 \in Book
    BY BookUpdate
  <2>2. c2 \in Book
    <3>1. 0 \in 0 .. OrderDepth + 1
      BY OrderDepthAssumption
    <3> HIDE DEF c1
    <3> QED BY <2>1, <3>1, BookUpdate
  <2>3. c4 \in Book
    <3> HIDE DEF c2
    <3> QED BY <2>2, BookUpdate, EmptyLevelsType
  <2> QED BY <2>3, Zenon DEF StartRescan
<1>2. /\ c.state = "RESCAN" /\ c.scan_addr = 0 /\ c.scan_lv = EmptyLevels
      /\ c.lv = d.lv /\ c.entry_valid = d.entry_valid
  BY DEF StartRescan, Book
<1>3. c.proc_en = FALSE
  BY DEF StartRescan, Book
<1>4. d.entry_valid \subseteq Slot
  BY BookFields
<1> HIDE DEF c
<1>5. SortedBook(c) /\ ShownBook(c) /\ LookupFresh(c)
  BY <1>2, EmptyLevelsType DEF SortedBook, ShownBook, LookupFresh
<1>6. ScanAligned(c)
  <2>1. 0 \notin 1 .. OrderDepth
    OBVIOUS
  <2> QED BY <1>2, <1>3, <2>1 DEF ScanAligned
<1>7. ScanCovers(c)
  BY <1>2, <1>4, OrderDepthAssumption DEF ScanCovers, Slot
<1>8. PhantomFree(c)
  BY <1>2, EmptyLevelsType DEF PhantomFree, Backed
<1> QED BY <1>1, <1>5, <1>6, <1>7, <1>8 DEF BookInv, c

\* An order removed, or reduced where it stands, is either rescanned for or hidden.
LEMMA AfterEditInv ==
  ASSUME NEW b, BookInv(b), b.state = "LOOKUP",
         NEW d \in Book, d.lv = b.lv, d.scan_lv = b.scan_lv,
         d.entry_valid \subseteq b.entry_valid,
         b.entry_valid \subseteq d.entry_valid \cup {Idx(b.m.ref)},
         \A i \in Slot : /\ d.entries[i].side = b.entries[i].side
                         /\ d.entries[i].price = b.entries[i].price
  PROVE  /\ BookInv(AfterEdit(b, d))
         /\ PhantomFree(b) => PhantomFree(AfterEdit(b, d))
PROOF
<1>1. /\ b \in Book /\ SortedBook(b) /\ ShownBook(b)
      /\ b.rd_data = b.entries[Idx(b.m.ref)]
  BY DEF BookInv, LookupFresh
<1>2. CASE aff_displayed(b)
  <2>1. \A s \in Side : Sorted(d.lv[s], s)
    BY <1>1 DEF SortedBook
  <2>2. BookInv(StartRescan(d)) /\ PhantomFree(StartRescan(d))
    BY <2>1, StartRescanInv
  <2> QED BY <1>2, <2>2 DEF AfterEdit
<1>3. CASE ~aff_displayed(b)
  <2> DEFINE c == [d EXCEPT !.state = "IDLE"]
  <2>1. c \in Book
    BY BookUpdate
  <2>2. /\ c.state = "IDLE" /\ c.entries = d.entries
        /\ c.entry_valid = d.entry_valid /\ c.lv = b.lv /\ c.scan_lv = b.scan_lv
    BY DEF Book
  <2>3. AfterEdit(b, d) = c
    BY <1>3 DEF AfterEdit
  <2> HIDE DEF c
  <2>4. b.entry_valid \subseteq Slot
    BY <1>1, BookFields
  <2>5. ShownBook(c)
    BY <1>1, <2>2, <2>4 DEF ShownBook, CoveredBy
  <2>6. BookInv(c)
    BY <1>1, <2>1, <2>2, <2>5
    DEF BookInv, SortedBook, LookupFresh, ScanAligned, ScanCovers
  <2>7. ASSUME PhantomFree(b) PROVE PhantomFree(c)
    <3> SUFFICES ASSUME NEW s \in Side, NEW k \in 1 .. Len(b.lv[s])
                 PROVE  \E i \in d.entry_valid : /\ d.entries[i].side = s
                                                 /\ d.entries[i].price = b.lv[s][k].price
      BY <2>2 DEF PhantomFree, Backed
    <3>1. PICK i \in b.entry_valid : /\ b.entries[i].side = s
                                    /\ b.entries[i].price = b.lv[s][k].price
      BY <2>7 DEF PhantomFree, Backed
    \* The hidden order's price is below the last lane, hence below lane k.
    <3>2. i # Idx(b.m.ref)
      <4> SUFFICES ASSUME i = Idx(b.m.ref) PROVE FALSE
        OBVIOUS
      <4>1. /\ Len(b.lv[s]) = NLevels
            /\ Better(s, b.lv[s][NLevels].price, b.lv[s][k].price)
        BY <1>1, <1>3, <3>1 DEF aff_displayed
      <4>2. b.lv[s] \in Ladder /\ Sorted(b.lv[s], s)
        BY <1>1, BookFields DEF SortedBook
      <4>3. /\ NLevels \in 1 .. Len(b.lv[s])
            /\ b.lv[s][NLevels].price \in Nat /\ b.lv[s][k].price \in Nat
        BY <4>1, <4>2, LadderLevels, NLevelsAssumption
      <4>4. k < NLevels => Better(s, b.lv[s][k].price, b.lv[s][NLevels].price)
        BY <4>2, <4>3 DEF Sorted
      <4>5. k < NLevels \/ k = NLevels
        BY <4>1, NLevelsAssumption
      <4> QED BY <4>1, <4>3, <4>4, <4>5 DEF Better
    <3>3. i \in d.entry_valid /\ i \in Slot
      BY <2>4, <3>2
    <3> QED BY <3>1, <3>3
  <2> QED BY <2>3, <2>6, <2>7
<1> QED BY <1>2, <1>3

\* The registers after the slot was read once more.
LEMMA RereadType ==
  ASSUME NEW b \in Book
  PROVE  /\ Reread(b) \in Book
         /\ Reread(b).state = b.state
         /\ Reread(b).entries = b.entries /\ Reread(b).entry_valid = b.entry_valid
         /\ Reread(b).lv = b.lv /\ Reread(b).scan_lv = b.scan_lv
         /\ Reread(b).m = b.m
PROOF
<1>1. Idx(b.m.ref) \in Slot
  BY BookFields, MessageFields, IdxInSlot
<1>2. b.entries[Idx(b.m.ref)] \in Entry
  BY <1>1, BookFields
<1>3. Reread(b) \in Book
  BY <1>2, BookUpdate DEF Reread
<1> QED BY <1>3 DEF Reread, Book

LEMMA MissEdgeInv ==
  ASSUME NEW b, BookInv(b), b.state = "LOOKUP"
  PROVE  /\ BookInv(MissEdge(b))
         /\ PhantomFree(b) => PhantomFree(MissEdge(b))
PROOF
<1> DEFINE d == Reread(b)
           c == [d EXCEPT !.state = "IDLE"]
<1>1. b \in Book /\ SortedBook(b) /\ ShownBook(b)
  BY DEF BookInv
<1>2. /\ d \in Book /\ d.entries = b.entries /\ d.entry_valid = b.entry_valid
      /\ d.lv = b.lv /\ d.scan_lv = b.scan_lv
  BY <1>1, RereadType
<1> HIDE DEF d
<1>3. /\ c \in Book /\ c.state = "IDLE" /\ c.entries = b.entries
      /\ c.entry_valid = b.entry_valid /\ c.lv = b.lv /\ c.scan_lv = b.scan_lv
  <2>1. c \in Book
    BY <1>2, BookUpdate
  <2> QED BY <1>2, <2>1 DEF Book
<1>4. MissEdge(b) = c
  BY DEF MissEdge, d
<1> HIDE DEF c
<1>5. BookInv(c) /\ (PhantomFree(b) => PhantomFree(c))
  BY <1>1, <1>3 DEF BookInv, SortedBook, ShownBook, CoveredBy, LookupFresh,
                    ScanAligned, ScanCovers, PhantomFree, Backed
<1> QED BY <1>4, <1>5

\* The bit of the slot looked up is cleared: the order is gone.
LEMMA DeleteEdgeInv ==
  ASSUME NEW b, BookInv(b), b.state = "LOOKUP"
  PROVE  /\ BookInv(DeleteEdge(b))
         /\ PhantomFree(b) => PhantomFree(DeleteEdge(b))
PROOF
<1> DEFINE r == Reread(b)
           d == [r EXCEPT !.entry_valid = @ \ {Idx(b.m.ref)}]
<1>1. b \in Book
  BY DEF BookInv
<1>2. /\ r \in Book /\ r.entries = b.entries /\ r.entry_valid = b.entry_valid
      /\ r.lv = b.lv /\ r.scan_lv = b.scan_lv
  BY <1>1, RereadType
<1>3. DeleteEdge(b) = AfterEdit(b, d)
  BY DEF DeleteEdge
<1> HIDE DEF r
<1>4. /\ d \in Book /\ d.entries = b.entries /\ d.lv = b.lv
      /\ d.scan_lv = b.scan_lv
      /\ d.entry_valid = b.entry_valid \ {Idx(b.m.ref)}
  <2>1. r.entry_valid \ {Idx(b.m.ref)} \in SUBSET Slot
    BY <1>2, BookFields
  <2>2. d \in Book
    BY <1>2, <2>1, BookUpdate
  <2> QED BY <1>2, <2>2 DEF Book
<1> HIDE DEF d
<1> QED BY <1>3, <1>4, AfterEditInv

LEMMA ReduceEdgeInv ==
  ASSUME NEW b, BookInv(b), b.state = "LOOKUP"
  PROVE  /\ BookInv(ReduceEdge(b))
         /\ PhantomFree(b) => PhantomFree(ReduceEdge(b))
PROOF
<1>1. b \in Book
  BY DEF BookInv
<1>2. CASE ~(b.rd_data.shares > b.m.shares)
  <2>1. ReduceEdge(b) = DeleteEdge(b)
    BY <1>2 DEF ReduceEdge, DeleteEdge
  <2> QED BY <2>1, DeleteEdgeInv
<1>3. CASE b.rd_data.shares > b.m.shares
  <2> DEFINE i == Idx(b.m.ref)
             e == [b.rd_data EXCEPT !.shares = @ - b.m.shares]
             r == Reread(b)
             d == [r EXCEPT !.entries[i] = e]
  <2>1. ReduceEdge(b) = AfterEdit(b, d)
    BY <1>3 DEF ReduceEdge
  <2>2. /\ r \in Book /\ r.entries = b.entries /\ r.entry_valid = b.entry_valid
        /\ r.lv = b.lv /\ r.scan_lv = b.scan_lv
    BY <1>1, RereadType
  <2>3. /\ i \in Slot /\ b.rd_data \in Entry /\ b.m.shares \in Size
        /\ b.entries \in [Slot -> Entry] /\ b.entry_valid \subseteq Slot
    BY <1>1, BookFields, MessageFields, IdxInSlot
  \* What is left fits: it is below what was there.
  <2>4. b.rd_data.shares - b.m.shares \in Size
    BY <1>3, <2>3, SizeModAssumption DEF Entry, Size
  <2>5. e \in Entry /\ e.side = b.rd_data.side /\ e.price = b.rd_data.price
    BY <2>3, <2>4 DEF Entry
  <2>6. b.rd_data = b.entries[i]
    BY DEF BookInv, LookupFresh
  <2> HIDE DEF r, i, e
  <2>7. /\ d \in Book /\ d.entries = [b.entries EXCEPT ![i] = e] /\ d.lv = b.lv
        /\ d.scan_lv = b.scan_lv /\ d.entry_valid = b.entry_valid
    <3>1. [r.entries EXCEPT ![i] = e] \in [Slot -> Entry]
      BY <2>2, <2>3, <2>5
    <3>2. d = [r EXCEPT !.entries = [r.entries EXCEPT ![i] = e]]
      OBVIOUS
    <3>3. d \in Book
      BY <2>2, <3>1, <3>2, BookUpdate
    <3> QED BY <2>2, <3>2, <3>3 DEF Book
  <2>8. \A j \in Slot : /\ d.entries[j].side = b.entries[j].side
                        /\ d.entries[j].price = b.entries[j].price
    BY <2>3, <2>5, <2>6, <2>7
  <2>9. d \in Book /\ d.lv = b.lv /\ d.scan_lv = b.scan_lv
        /\ d.entry_valid \subseteq b.entry_valid
        /\ b.entry_valid \subseteq d.entry_valid \cup {Idx(b.m.ref)}
    BY <2>7
  <2> HIDE DEF d
  <2> QED BY <2>1, <2>8, <2>9, AfterEditInv
<1> QED BY <1>2, <1>3

LEMMA ReplaceEdgeInv ==
  ASSUME NEW b, BookInv(b), b.state = "LOOKUP"
  PROVE  BookInv(ReplaceEdge(b)) /\ PhantomFree(ReplaceEdge(b))
PROOF
<1> DEFINE r   == Reread(b)
           n   == Idx(b.m.nref)
           new == [ref |-> b.m.nref, side |-> b.rd_data.side,
                   price |-> b.m.price, shares |-> b.m.shares]
           V   == (b.entry_valid \ {Idx(b.m.ref)}) \cup {n}
           E   == [b.entries EXCEPT ![n] = new]
           c1  == [r  EXCEPT !.entries = E]
           c2  == [c1 EXCEPT !.entry_valid = V]
<1>1. b \in Book /\ SortedBook(b)
  BY DEF BookInv
<1>2. /\ r \in Book /\ r.entries = b.entries /\ r.entry_valid = b.entry_valid
      /\ r.lv = b.lv
  BY <1>1, RereadType
<1>3. n \in Slot /\ new \in Entry
  <2>1. b.m \in Message /\ b.rd_data \in Entry
    BY <1>1, BookFields
  <2> QED BY <2>1, MessageFields, IdxInSlot DEF Entry
<1>4. E \in [Slot -> Entry] /\ V \in SUBSET Slot
  <2> HIDE DEF n, new
  <2> QED BY <1>1, <1>3, BookFields
<1>5. ReplaceEdge(b) = StartRescan(c2)
  BY <1>2 DEF ReplaceEdge
<1> HIDE DEF r, E, V
<1>6. c1 \in Book /\ c1.lv = b.lv
  <2>1. c1 \in Book
    BY <1>2, <1>4, BookUpdate
  <2> QED BY <1>2, <2>1 DEF Book
<1> HIDE DEF c1
<1>7. c2 \in Book /\ c2.lv = b.lv
  <2>1. c2 \in Book
    BY <1>4, <1>6, BookUpdate
  <2> QED BY <1>6, <2>1 DEF Book
<1> HIDE DEF c2
<1>8. \A s \in Side : Sorted(c2.lv[s], s)
  BY <1>1, <1>7 DEF SortedBook
<1> QED BY <1>5, <1>7, <1>8, StartRescanInv

-----------------------------------------------------------------------------
(* RESCAN. *)

\* The ladders under construction after the entry that has arrived.
LEMMA ProcessedInv ==
  ASSUME NEW b, BookInv(b), b.state = "RESCAN"
  PROVE  /\ Processed(b) \in [Side -> Ladder]
         /\ \A s \in Side : Sorted(Processed(b)[s], s)
         /\ \A i \in b.entry_valid :
              i < b.scan_addr => CoveredBy(b, Processed(b), i)
         /\ Backed(b, b.scan_lv) => Backed(b, Processed(b))
PROOF
<1>1. /\ b \in Book /\ SortedBook(b) /\ ScanAligned(b) /\ ScanCovers(b)
  BY DEF BookInv
<1>2. /\ b.scan_lv \in [Side -> Ladder] /\ b.rd_data \in Entry
      /\ b.entries \in [Slot -> Entry] /\ b.entry_valid \subseteq Slot
      /\ b.scan_addr \in 0 .. OrderDepth + 1 /\ b.proc_idx \in Slot
  BY <1>1, BookFields
<1>3. /\ b.rd_data.side \in Side /\ b.rd_data.price \in Nat
      /\ b.rd_data.shares \in Size
  BY <1>2 DEF Entry
<1>4. \A i \in b.entry_valid : /\ i \in 0 .. OrderDepth - 1
                               /\ b.entries[i].side \in Side
                               /\ b.entries[i].price \in Nat
  BY <1>2 DEF Entry, Slot
<1>5. \A s \in Side : Sorted(b.scan_lv[s], s)
  BY <1>1 DEF SortedBook
<1>6. \A i \in b.entry_valid : i < b.scan_addr - 1 => CoveredBy(b, b.scan_lv, i)
  BY <1>1 DEF ScanCovers
\* A slot that is not covered yet is the one whose data has arrived.
<1>7. ASSUME NEW i \in b.entry_valid, i < b.scan_addr, ~(i < b.scan_addr - 1)
      PROVE  b.proc_en /\ b.proc_idx = i /\ b.rd_data = b.entries[i]
  <2>1. b.scan_addr \in 1 .. OrderDepth /\ i = b.scan_addr - 1
    BY <1>2, <1>4, <1>7, OrderDepthAssumption
  <2> QED BY <1>1, <2>1 DEF ScanAligned
<1>8. CASE b.proc_en /\ b.proc_idx \in b.entry_valid
  <2> DEFINE L == b.scan_lv
             t == b.rd_data.side
             p == b.rd_data.price
             q == b.rd_data.shares
             P == Inserted(L, t, p, q)
  <2>1. Processed(b) = P
    BY <1>8 DEF Processed
  <2>2. /\ L \in [Side -> Ladder] /\ t \in Side /\ p \in Nat /\ q \in Size
        /\ \A s \in Side : Sorted(L[s], s)
    BY <1>2, <1>3, <1>5
  <2>3. /\ P \in [Side -> Ladder]
        /\ \A s \in Side : Sorted(P[s], s)
        /\ \A s \in Side, x \in Nat :
             (s = t /\ x = p) \/ Covered(L[s], s, x) => Covered(P[s], s, x)
    <3> HIDE DEF L, t, p, q
    <3> QED BY <2>2, InsertedLevels
  <2>4. \A s \in Side : \A k \in 1 .. Len(P[s]) :
          ~(s = t /\ P[s][k].price = p) =>
            \E j \in 1 .. Len(L[s]) : L[s][j].price = P[s][k].price
    <3> HIDE DEF L, t, p, q
    <3> QED BY <2>2, InsertedPrices
  <2> HIDE DEF P
  <2>5. ASSUME NEW i \in b.entry_valid, i < b.scan_addr
        PROVE  CoveredBy(b, P, i)
    <3>1. CASE i < b.scan_addr - 1
      BY <1>4, <1>6, <2>3, <3>1 DEF CoveredBy
    <3>2. CASE ~(i < b.scan_addr - 1)
      BY <1>4, <1>7, <2>3, <2>5, <3>2 DEF CoveredBy
    <3> QED BY <3>1, <3>2
  <2>6. ASSUME Backed(b, b.scan_lv) PROVE Backed(b, P)
    <3> SUFFICES ASSUME NEW s \in Side, NEW k \in 1 .. Len(P[s])
                 PROVE  \E i \in b.entry_valid : /\ b.entries[i].side = s
                                                 /\ b.entries[i].price = P[s][k].price
      BY DEF Backed
    <3>1. CASE s = t /\ P[s][k].price = p
      <4>1. b.rd_data = b.entries[b.proc_idx]
        BY <1>1, <1>8 DEF ScanAligned
      <4> QED BY <1>8, <3>1, <4>1
    <3>2. CASE ~(s = t /\ P[s][k].price = p)
      BY <2>4, <2>6, <3>2 DEF Backed
    <3> QED BY <3>1, <3>2
  <2> QED BY <2>1, <2>3, <2>5, <2>6
<1>9. CASE ~(b.proc_en /\ b.proc_idx \in b.entry_valid)
  <2>1. Processed(b) = b.scan_lv
    BY <1>9 DEF Processed
  <2> QED BY <1>2, <1>5, <1>6, <1>7, <1>9, <2>1
<1> QED BY <1>8, <1>9

LEMMA ScanEdgeInv ==
  ASSUME NEW b, BookInv(b), b.state = "RESCAN", b.scan_addr <= OrderDepth
  PROVE  /\ BookInv(ScanEdge(b))
         /\ PhantomFree(b) => PhantomFree(ScanEdge(b))
PROOF
<1> DEFINE a  == b.scan_addr
           i  == a % OrderDepth
           P  == Processed(b)
           x  == a < OrderDepth
           c1 == [b  EXCEPT !.scan_lv = P]
           c2 == [c1 EXCEPT !.rd_data = b.entries[i]]
           c3 == [c2 EXCEPT !.proc_idx = i]
           c4 == [c3 EXCEPT !.proc_en = x]
           c  == [c4 EXCEPT !.scan_addr = a + 1]
<1>1. /\ b \in Book /\ SortedBook(b)
  BY DEF BookInv
<1>2. a \in 0 .. OrderDepth /\ a + 1 \in 0 .. OrderDepth + 1
  BY <1>1, BookFields, OrderDepthAssumption
<1>3. i \in Slot /\ (a < OrderDepth => i = a)
  BY <1>2, OrderDepthAssumption DEF Slot
<1>4. /\ P \in [Side -> Ladder]
      /\ \A s \in Side : Sorted(P[s], s)
      /\ \A j \in b.entry_valid : j < a => CoveredBy(b, P, j)
      /\ Backed(b, b.scan_lv) => Backed(b, P)
  BY ProcessedInv
<1>5. ScanEdge(b) = c
  BY <1>1 DEF ScanEdge, Book
<1>6. b.entries[i] \in Entry
  BY <1>1, <1>3, BookFields
<1>7. x \in BOOLEAN /\ (x <=> a < OrderDepth)
  OBVIOUS
<1> HIDE DEF P, x, i
<1>8. c1 \in Book
  BY <1>1, <1>4, BookUpdate
<1>9. c2 \in Book
  <2> HIDE DEF c1
  <2> QED BY <1>6, <1>8, BookUpdate
<1>10. c3 \in Book
  <2> HIDE DEF c2
  <2> QED BY <1>3, <1>9, BookUpdate
<1>11. c4 \in Book
  <2> HIDE DEF c3
  <2> QED BY <1>7, <1>10, BookUpdate
<1>12. c \in Book
  <2> HIDE DEF c4
  <2> QED BY <1>2, <1>11, BookUpdate
<1>13. /\ c.state = "RESCAN" /\ c.entries = b.entries
       /\ c.entry_valid = b.entry_valid /\ c.lv = b.lv /\ c.scan_lv = P
       /\ c.scan_addr = a + 1 /\ c.proc_idx = i /\ c.rd_data = b.entries[i]
  BY <1>1 DEF Book
<1>14. c.proc_en = x
  BY <1>1 DEF Book
<1> HIDE DEF c
<1>15. SortedBook(c)
  BY <1>1, <1>4, <1>13 DEF SortedBook
<1>16. ScanAligned(c)
  <2>1. c.proc_en <=> c.scan_addr \in 1 .. OrderDepth
    BY <1>2, <1>7, <1>13, <1>14, OrderDepthAssumption
  <2>2. c.proc_en => c.proc_idx = c.scan_addr - 1
    BY <1>2, <1>3, <1>7, <1>13, <1>14
  <2> QED BY <1>13, <2>1, <2>2 DEF ScanAligned
<1>17. ScanCovers(c)
  BY <1>2, <1>4, <1>13 DEF ScanCovers, CoveredBy
<1>18. BookInv(c)
  BY <1>12, <1>13, <1>15, <1>16, <1>17 DEF BookInv, ShownBook, LookupFresh
<1>19. PhantomFree(b) => PhantomFree(c)
  BY <1>4, <1>13 DEF PhantomFree, Backed
<1> QED BY <1>5, <1>18, <1>19

LEMMA CommitEdgeInv ==
  ASSUME NEW b, BookInv(b), b.state = "RESCAN", b.scan_addr > OrderDepth
  PROVE  /\ BookInv(CommitEdge(b))
         /\ PhantomFree(b) => PhantomFree(CommitEdge(b))
PROOF
<1> DEFINE i  == b.scan_addr % OrderDepth
           P  == Processed(b)
           c1 == [b  EXCEPT !.state = "IDLE"]
           c2 == [c1 EXCEPT !.lv = b.scan_lv]
           c3 == [c2 EXCEPT !.scan_lv = P]
           c4 == [c3 EXCEPT !.proc_en = FALSE]
           c  == [c4 EXCEPT !.rd_data = b.entries[i]]
<1>1. b \in Book /\ SortedBook(b) /\ ScanCovers(b)
  BY DEF BookInv
<1>2. /\ b.scan_addr = OrderDepth + 1 /\ b.entry_valid \subseteq 0 .. OrderDepth - 1
      /\ b.scan_lv \in [Side -> Ladder]
  BY <1>1, BookFields, OrderDepthAssumption DEF Slot
<1>3. i \in Slot /\ b.entries[i] \in Entry
  <2>1. i \in Slot
    BY <1>2, OrderDepthAssumption DEF Slot
  <2> QED BY <1>1, <2>1, BookFields
<1>4. P \in [Side -> Ladder] /\ \A s \in Side : Sorted(P[s], s)
  BY ProcessedInv
<1>5. CommitEdge(b) = c
  BY <1>1 DEF CommitEdge, Book
<1> HIDE DEF P, i
<1>6. c1 \in Book
  BY <1>1, BookUpdate
<1>7. c2 \in Book
  <2> HIDE DEF c1
  <2> QED BY <1>2, <1>6, BookUpdate
<1>8. c3 \in Book
  <2> HIDE DEF c2
  <2> QED BY <1>4, <1>7, BookUpdate
<1>9. c4 \in Book
  <2> HIDE DEF c3
  <2> QED BY <1>8, BookUpdate
<1>10. c \in Book
  <2> HIDE DEF c4
  <2> QED BY <1>3, <1>9, BookUpdate
<1>11. /\ c.state = "IDLE" /\ c.entries = b.entries
       /\ c.entry_valid = b.entry_valid /\ c.lv = b.scan_lv /\ c.scan_lv = P
  BY <1>1 DEF Book
<1> HIDE DEF c
<1>12. SortedBook(c)
  BY <1>1, <1>4, <1>11 DEF SortedBook
<1>13. ShownBook(c)
  BY <1>1, <1>2, <1>11, OrderDepthAssumption DEF ShownBook, ScanCovers, CoveredBy
<1>14. BookInv(c)
  BY <1>10, <1>11, <1>12, <1>13 DEF BookInv, LookupFresh, ScanAligned, ScanCovers
<1>15. PhantomFree(b) => PhantomFree(c)
  BY <1>11 DEF PhantomFree, Backed
<1> QED BY <1>5, <1>14, <1>15

-----------------------------------------------------------------------------
(* The edge of a book, whatever is on its input. *)

\* What the parser hands to a book is a message.
LEMMA FeedMessages ==
  /\ \A msg \in AddMessages : msg \in Message /\ msg.type \in AddTypes
  /\ \A msg \in LookupMessages : msg \in Message /\ msg.type \in LookupTypes
  /\ \A msg \in IgnoredMessages : msg \in Message
PROOF
<1> USE FeedAssumption
<1>1. 0 \in Size
  BY SizeModAssumption DEF Size
<1>2. ASSUME NEW msg \in AddMessages PROVE msg \in Message /\ msg.type \in AddTypes
  BY DEF AddMessages, Msg, Message, AddTypes, MsgType
<1>3. ASSUME NEW msg \in LookupMessages
      PROVE  msg \in Message /\ msg.type \in LookupTypes
  BY <1>1
  DEF LookupMessages, Msg, Message, ReduceTypes, LookupTypes, MsgType, Side
<1>4. ASSUME NEW msg \in IgnoredMessages PROVE msg \in Message
  BY <1>1 DEF IgnoredMessages, Msg, Message, Side
<1> QED BY <1>2, <1>3, <1>4

LEMMA BookEdgeInv ==
  ASSUME NEW b, BookInv(b), NEW valid \in BOOLEAN, NEW msg \in Message
  PROVE  BookInv(BookEdge(b, valid, msg))
PROOF
<1>1. b \in Book /\ LookupFresh(b)
  BY DEF BookInv
<1>2. b.state \in {"IDLE", "LOOKUP", "RESCAN"}
  BY <1>1, BookFields
<1>3. CASE b.state = "IDLE" /\ ~valid
  BY <1>3, Zenon DEF BookEdge
<1>4. CASE b.state = "IDLE" /\ valid
  <2>1. BookEdge(b, valid, msg) = IdleEdge(b, msg)
    BY <1>4, SMT DEF BookEdge
  <2>2. CASE msg.type \in AddTypes
    <3>1. IdleEdge(b, msg) = AddEdge(b, msg)
      BY <2>2, SMT DEF IdleEdge, AddTypes, LookupTypes, ReduceTypes
    <3> QED BY <1>4, <2>1, <3>1, AddEdgeInv
  <2>3. CASE msg.type \in LookupTypes
    <3>1. IdleEdge(b, msg) = ReadEdge(b, msg)
      BY <2>3, SMT DEF IdleEdge, AddTypes, LookupTypes, ReduceTypes
    <3> QED BY <1>4, <2>1, <2>3, <3>1, ReadEdgeInv
  <2>4. CASE msg.type \notin AddTypes /\ msg.type \notin LookupTypes
    <3>1. IdleEdge(b, msg) = IgnoreEdge(b, msg)
      BY <2>4, SMT DEF IdleEdge
    <3> QED BY <1>4, <2>1, <3>1, IgnoreEdgeInv
  <2> QED BY <2>2, <2>3, <2>4
<1>5. CASE b.state = "LOOKUP"
  <2>1. BookEdge(b, valid, msg) = LookupEdge(b)
    BY <1>5, SMT DEF BookEdge
  <2>2. CASE ~lk_match(b)
    <3>1. LookupEdge(b) = MissEdge(b)
      BY <2>2, SMT DEF LookupEdge
    <3> QED BY <1>5, <2>1, <3>1, MissEdgeInv
  <2>3. CASE lk_match(b) /\ b.m.type \in ReduceTypes
    <3>1. LookupEdge(b) = ReduceEdge(b)
      BY <2>3, SMT DEF LookupEdge, ReduceTypes
    <3> QED BY <1>5, <2>1, <3>1, ReduceEdgeInv
  <2>4. CASE lk_match(b) /\ b.m.type = "D"
    <3>1. LookupEdge(b) = DeleteEdge(b)
      BY <2>4, SMT DEF LookupEdge, ReduceTypes
    <3> QED BY <1>5, <2>1, <3>1, DeleteEdgeInv
  <2>5. CASE lk_match(b) /\ b.m.type = "U"
    <3>1. LookupEdge(b) = ReplaceEdge(b)
      BY <2>5, SMT DEF LookupEdge, ReduceTypes
    <3> QED BY <1>5, <2>1, <3>1, ReplaceEdgeInv
  <2> QED BY <1>1, <1>5, <2>2, <2>3, <2>4, <2>5 DEF LookupFresh, LookupTypes
<1>6. CASE b.state = "RESCAN"
  <2>1. BookEdge(b, valid, msg) = RescanEdge(b)
    BY <1>6, SMT DEF BookEdge
  <2>2. b.scan_addr \in 0 .. OrderDepth + 1
    BY <1>1, BookFields
  <2>3. CASE b.scan_addr <= OrderDepth
    BY <1>6, <2>1, <2>3, ScanEdgeInv DEF RescanEdge
  <2>4. CASE b.scan_addr > OrderDepth
    <3>1. RescanEdge(b) = CommitEdge(b)
      BY <2>2, <2>4, OrderDepthAssumption DEF RescanEdge
    <3> QED BY <1>6, <2>1, <2>4, <3>1, CommitEdgeInv
  <2> QED BY <2>2, <2>3, <2>4, OrderDepthAssumption
<1> QED BY <1>2, <1>3, <1>4, <1>5, <1>6

\* The table of an idle book is its own but for a message on its input.
LEMMA BookEdgeIdle ==
  ASSUME NEW b \in Book, b.state = "IDLE", NEW msg
  PROVE  BookEdge(b, FALSE, msg) = b
PROOF BY SMT DEF BookEdge

-----------------------------------------------------------------------------
(* The depth of a set of orders, and the ladder that has it. *)

(* What a ladder is the depth of: sorted, each level is a price quoted with   *)
(* what rests there, and no price quoted is missing.                          *)
Exact(lv, O, s) ==
  /\ Sorted(lv, s)
  /\ \A k \in 1 .. Len(lv) : /\ lv[k].price \in Quoted(O, s)
                             /\ lv[k].size = Resting(O, s, lv[k].price)
  /\ \A p \in Quoted(O, s) : Covered(lv, s, p)

\* Orders of a table, by any identifier.
Orders(O) == /\ IsFiniteSet(DOMAIN O)
             /\ \A r \in DOMAIN O : O[r].price \in Nat /\ O[r].shares \in Size

LEMMA FirstPrices ==
  ASSUME NEW s \in Side, NEW lv \in Ladder, Sorted(lv, s), NEW n \in 0 .. Len(lv)
  PROVE  LET P == {lv[j].price : j \in 1 .. n}
         IN  IsFiniteSet(P) /\ Cardinality(P) = n
PROOF
<1> DEFINE P == {lv[j].price : j \in 1 .. n}
           f == [j \in 1 .. n |-> lv[j].price]
<1>1. /\ Len(lv) \in Nat /\ n \in Nat /\ n <= Len(lv)
      /\ \A i \in 1 .. Len(lv) : lv[i].price \in Nat
  BY LadderLevels, NLevelsAssumption
<1>2. IsFiniteSet(1 .. n) /\ Cardinality(1 .. n) = n
  <2>1. 1 \in Int /\ n \in Int
    BY <1>1
  <2>2. IsFiniteSet(1 .. n) /\ Cardinality(1 .. n) = IF 1 > n THEN 0 ELSE n - 1 + 1
    BY <2>1, FS_Interval
  <2> QED BY <1>1, <2>2
<1>3. f \in Surjection(1 .. n, P)
  BY DEF Surjection
<1>4. f \in Injection(1 .. n, P)
  <2>1. ASSUME NEW i \in 1 .. n, NEW j \in 1 .. n, i < j PROVE f[i] # f[j]
    <3>1. i \in 1 .. Len(lv) /\ j \in 1 .. Len(lv)
      BY <1>1
    <3>2. Better(s, lv[i].price, lv[j].price)
      BY <2>1, <3>1 DEF Sorted
    <3> QED BY <1>1, <3>1, <3>2 DEF Better
  <2>2. \A i, j \in 1 .. n : f[i] = f[j] => i = j
    <3>1. \A i, j \in 1 .. n : i < j \/ j < i \/ i = j
      BY <1>1
    <3> HIDE DEF f
    <3> QED BY <2>1, <3>1
  <2>3. f \in [1 .. n -> P]
    OBVIOUS
  <2> HIDE DEF f
  <2> QED BY <2>2, <2>3 DEF Injection, IsInjective
<1> HIDE DEF f, P
<1>5. IsFiniteSet(P) /\ Cardinality(P) = Cardinality(1 .. n)
  BY <1>2, <1>3, <1>4, FS_Surjection
<1> QED BY <1>2, <1>5 DEF P

LEMMA QuotedFinite ==
  ASSUME NEW O, Orders(O), NEW s
  PROVE  IsFiniteSet(Quoted(O, s)) /\ Quoted(O, s) \subseteq Nat
PROOF
<1> DEFINE D == {x \in DOMAIN O : O[x].side = s}
           f == [x \in D |-> O[x].price]
<1>1. f \in Surjection(D, Quoted(O, s))
  BY DEF Surjection, Quoted
<1>2. IsFiniteSet(D)
  BY FS_Subset DEF Orders
<1> HIDE DEF D, f
<1>3. IsFiniteSet(Quoted(O, s))
  BY <1>1, <1>2, FS_Surjection
<1> QED BY <1>3 DEF Quoted, Orders

(* The rank of the price on the i-th level is i, and only the prices shown    *)
(* have a rank of NLevels or less.                                            *)
LEMMA ShownRanks ==
  ASSUME NEW O, Orders(O), NEW s \in Side, NEW lv \in Ladder, Exact(lv, O, s)
  PROVE  /\ \A i \in 1 .. Len(lv) : Rank(O, s, lv[i].price) = i
         /\ {p \in Quoted(O, s) : Rank(O, s, p) <= NLevels}
              = {lv[i].price : i \in 1 .. Len(lv)}
PROOF
<1>1. /\ Len(lv) \in 0 .. NLevels /\ Len(lv) \in Nat /\ NLevels \in Nat
      /\ \A i \in 1 .. Len(lv) : lv[i].price \in Nat
  BY LadderLevels, NLevelsAssumption
<1>2. Sorted(lv, s)
  BY DEF Exact
<1>3. \A i, j \in 1 .. Len(lv) : Better(s, lv[i].price, lv[j].price) <=> i < j
  <2> SUFFICES ASSUME NEW i \in 1 .. Len(lv), NEW j \in 1 .. Len(lv)
               PROVE  Better(s, lv[i].price, lv[j].price) <=> i < j
    OBVIOUS
  <2>1. i < j => Better(s, lv[i].price, lv[j].price)
    BY <1>2 DEF Sorted
  <2>2. j < i => Better(s, lv[j].price, lv[i].price)
    BY <1>2 DEF Sorted
  <2>3. lv[i].price \in Nat /\ lv[j].price \in Nat
    BY <1>1
  <2>4. i < j \/ j < i \/ i = j
    BY <1>1
  <2> QED BY <2>1, <2>2, <2>3, <2>4 DEF Better
<1>4. IsFiniteSet(Quoted(O, s)) /\ Quoted(O, s) \subseteq Nat
  BY QuotedFinite
<1>5. ASSUME NEW i \in 1 .. Len(lv) PROVE Rank(O, s, lv[i].price) = i
  <2> DEFINE P == {lv[j].price : j \in 1 .. i - 1}
             Q == {q \in Quoted(O, s) : Better(s, q, lv[i].price)}
  <2>1. ASSUME NEW q \in Q PROVE q \in P
    <3>1. q \in Quoted(O, s) /\ q \in Nat /\ Better(s, q, lv[i].price) /\ lv[i].price \in Nat
      BY <1>1, <1>4
    <3>2. Covered(lv, s, q)
      BY <3>1 DEF Exact
    <3>3. \E k \in 1 .. Len(lv) : lv[k].price = q
      <4>1. CASE Len(lv) = NLevels /\ \A k \in 1 .. NLevels : Better(s, lv[k].price, q)
        <5>1. Better(s, lv[i].price, q)
          BY <4>1
        <5> QED BY <3>1, <5>1 DEF Better
      <4> QED BY <3>2, <4>1 DEF Covered
    <3>4. PICK k \in 1 .. Len(lv) : lv[k].price = q
      BY <3>3
    <3>5. k < i
      BY <1>3, <3>1, <3>4
    <3> QED BY <1>1, <3>4, <3>5
  <2>2. ASSUME NEW q \in P PROVE q \in Q
    <3>1. PICK k \in 1 .. i - 1 : q = lv[k].price
      OBVIOUS
    <3>2. k \in 1 .. Len(lv) /\ k < i
      BY <1>1
    <3>3. Better(s, lv[k].price, lv[i].price)
      BY <1>3, <3>2
    <3> QED BY <3>1, <3>2, <3>3 DEF Exact
  <2>3. Q = P
    BY <2>1, <2>2
  <2>4. Cardinality(P) = i - 1
    <3>1. i - 1 \in 0 .. Len(lv)
      BY <1>1
    <3> QED BY <1>2, <3>1, FirstPrices
  <2>5. Rank(O, s, lv[i].price) = 1 + Cardinality(Q)
    BY DEF Rank
  <2> HIDE DEF P, Q
  <2> QED BY <1>1, <2>3, <2>4, <2>5
<1>6. ASSUME NEW p \in Quoted(O, s), Rank(O, s, p) <= NLevels
      PROVE  \E i \in 1 .. Len(lv) : p = lv[i].price
  <2>1. CASE Len(lv) = NLevels /\ \A k \in 1 .. NLevels : Better(s, lv[k].price, p)
    <3> DEFINE P == {lv[j].price : j \in 1 .. NLevels}
               Q == {q \in Quoted(O, s) : Better(s, q, p)}
    <3>1. Cardinality(P) = NLevels
      <4>1. NLevels \in 0 .. Len(lv)
        BY <1>1, <2>1
      <4> QED BY <1>2, <4>1, FirstPrices
    <3>2. P \subseteq Q
      BY <2>1 DEF Exact
    <3>3. IsFiniteSet(Q)
      BY <1>4, FS_Subset
    <3>4. Rank(O, s, p) = 1 + Cardinality(Q)
      BY DEF Rank
    <3> HIDE DEF P, Q
    <3>5. Cardinality(P) <= Cardinality(Q) /\ Cardinality(Q) \in Nat
      BY <3>2, <3>3, FS_Subset, FS_CardinalityType
    <3> QED BY <1>1, <1>6, <3>1, <3>4, <3>5
  <2>2. Covered(lv, s, p)
    BY DEF Exact
  <2> QED BY <2>1, <2>2 DEF Covered
<1>7. \A i \in 1 .. Len(lv) : lv[i].price \in Quoted(O, s) /\ i <= NLevels
  BY <1>1 DEF Exact
<1> QED BY <1>5, <1>6, <1>7

LEMMA ExactIsDepth ==
  ASSUME NEW O, Orders(O), NEW s \in Side, NEW lv \in Ladder, Exact(lv, O, s)
  PROVE  lv = DepthOf(O, s)
PROOF
<1> DEFINE best  == {p \in Quoted(O, s) : Rank(O, s, p) <= NLevels}
           at(i) == CHOOSE p \in best : Rank(O, s, p) = i
<1>1. /\ lv \in [1 .. Len(lv) -> Level] /\ Len(lv) \in Nat
      /\ \A i \in 1 .. Len(lv) : lv[i] \in Level
  BY LadderLevels, NLevelsAssumption
<1>2. /\ \A i \in 1 .. Len(lv) : Rank(O, s, lv[i].price) = i
      /\ best = {lv[i].price : i \in 1 .. Len(lv)}
  BY ShownRanks
<1>3. Cardinality(best) = Len(lv)
  <2>1. Len(lv) \in 0 .. Len(lv)
    BY <1>1
  <2>2. Cardinality({lv[i].price : i \in 1 .. Len(lv)}) = Len(lv)
    BY <2>1, FirstPrices DEF Exact
  <2> QED BY <1>2, <2>2
<1>4. ASSUME NEW i \in 1 .. Len(lv)
      PROVE  lv[i] = [price |-> at(i), size |-> Resting(O, s, at(i))]
  <2>1. lv[i].price \in best /\ Rank(O, s, lv[i].price) = i
    BY <1>2
  <2>2. \A p \in best : Rank(O, s, p) = i => p = lv[i].price
    BY <1>2
  <2> HIDE DEF best
  <2>3. at(i) = lv[i].price
    BY <2>1, <2>2
  <2>4. lv[i] = [price |-> lv[i].price, size |-> lv[i].size]
    BY <1>1 DEF Level
  <2>5. lv[i].size = Resting(O, s, lv[i].price)
    BY DEF Exact
  <2> QED BY <2>3, <2>4, <2>5
<1>5. DepthOf(O, s) = [i \in 1 .. Cardinality(best) |->
                         [price |-> at(i), size |-> Resting(O, s, at(i))]]
  BY DEF DepthOf
<1> HIDE DEF best, at
<1> QED BY <1>1, <1>3, <1>4, <1>5

LEMMA ModAdd ==
  ASSUME NEW m \in Nat \ {0}, NEW a \in Nat, NEW b \in Nat
  PROVE  ((a % m) + b) % m = (a + b) % m
PROOF
<1> DEFINE r == a % m  k == a \div m
<1>1. a = m * k + r /\ r \in 0 .. m - 1 /\ k \in Nat
  OBVIOUS
<1> HIDE DEF r, k
<1> DEFINE t == (r + b) % m  j == (r + b) \div m
<1>2. r + b = m * j + t /\ t \in 0 .. m - 1 /\ j \in Nat
  BY <1>1
<1> HIDE DEF j
<1>3. a + b = m * (k + j) + t
  <2>1. m * (k + j) = m * k + m * j
    BY <1>1, <1>2
  <2> QED BY <1>1, <1>2, <2>1
<1>4. (m * (k + j) + t) % m = t
  <2> HIDE DEF t
  <2>1. k + j \in Nat /\ \A n \in Nat : (m * n + t) % m = t
    BY <1>1, <1>2
  <2> QED BY <2>1
<1> QED BY <1>3, <1>4 DEF r

-----------------------------------------------------------------------------
(* How the depth changes with the orders. *)

\* What rests at a price depends on the orders at that price only.
LEMMA SameResting ==
  ASSUME NEW O, Orders(O), NEW O2, NEW s, NEW p,
         RestingAt(O2, s, p) = RestingAt(O, s, p),
         \A x \in RestingAt(O, s, p) : O2[x].shares = O[x].shares
  PROVE  Resting(O2, s, p) = Resting(O, s, p)
PROOF
<1> DEFINE A == RestingAt(O, s, p)
           f == [x \in DOMAIN O |-> O[x].shares]
           g == [x \in DOMAIN O2 |-> O2[x].shares]
<1>1. IsFiniteSet(A) /\ A \subseteq DOMAIN O
  BY FS_Subset DEF Orders, RestingAt
<1>2. A \subseteq DOMAIN O2
  BY DEF RestingAt
<1>3. \A x \in A : g[x] = f[x]
  BY <1>1, <1>2
<1> HIDE DEF f, g, A
<1>4. SumFunctionOnSet(g, A) = SumFunctionOnSet(f, A)
  BY <1>1, <1>3, SumSame
<1> QED BY <1>4 DEF Resting, f, g, A

\* O2 is O with one order more, under r.
Extends(O2, O, r) ==
  /\ r \notin DOMAIN O /\ DOMAIN O2 = DOMAIN O \cup {r}
  /\ \A x \in DOMAIN O : O2[x] = O[x]
  /\ O2[r].side \in Side /\ O2[r].price \in Nat /\ O2[r].shares \in Size

LEMMA ExtendsOrders ==
  ASSUME NEW O, Orders(O), NEW O2, NEW r, Extends(O2, O, r)
  PROVE  /\ Orders(O2)
         /\ \A s : Quoted(O2, s) = Quoted(O, s) \cup (IF O2[r].side = s THEN {O2[r].price} ELSE {})
PROOF
<1>1. IsFiniteSet(DOMAIN O2)
  BY FS_AddElement DEF Orders, Extends
<1>2. Orders(O2)
  BY <1>1 DEF Orders, Extends
<1>3. ASSUME NEW s
      PROVE  Quoted(O2, s) = Quoted(O, s) \cup (IF O2[r].side = s THEN {O2[r].price} ELSE {})
  BY DEF Quoted, Extends
<1> QED BY <1>2, <1>3

LEMMA RestingSum ==
  ASSUME NEW O, Orders(O), NEW s, NEW p
  PROVE  SumFunctionOnSet([x \in DOMAIN O |-> O[x].shares], RestingAt(O, s, p)) \in Nat
PROOF
<1> DEFINE A == RestingAt(O, s, p)
           f == [x \in DOMAIN O |-> O[x].shares]
<1>1. IsFiniteSet(A) /\ A \subseteq DOMAIN O
  BY FS_Subset DEF Orders, RestingAt
<1>2. \A x \in A : f[x] \in Nat
  BY <1>1, SizeModAssumption DEF Orders, Size
<1> HIDE DEF f, A
<1>3. SumFunctionOnSet(f, A) \in Nat
  BY <1>1, <1>2, SumNat
<1> QED BY <1>3 DEF f, A

LEMMA ExtendsResting ==
  ASSUME NEW O, Orders(O), NEW O2, NEW r, Extends(O2, O, r), NEW s, NEW p
  PROVE  Resting(O2, s, p) = IF O2[r].side = s /\ O2[r].price = p
                               THEN (Resting(O, s, p) + O2[r].shares) % SizeMod
                               ELSE Resting(O, s, p)
PROOF
<1> DEFINE A == RestingAt(O, s, p)
<1>1. CASE ~(O2[r].side = s /\ O2[r].price = p)
  <2>1. RestingAt(O2, s, p) = A /\ \A x \in A : O2[x].shares = O[x].shares
    BY <1>1 DEF RestingAt, Extends
  <2> HIDE DEF A
  <2>2. Resting(O2, s, p) = Resting(O, s, p)
    BY <2>1, SameResting DEF A
  <2> QED BY <1>1, <2>2
<1>2. CASE O2[r].side = s /\ O2[r].price = p
  <2> DEFINE f == [x \in DOMAIN O |-> O[x].shares]
             g == [x \in DOMAIN O2 |-> O2[x].shares]
             q == O2[r].shares
  <2>1. RestingAt(O2, s, p) = A \cup {r} /\ r \notin A
    BY <1>2 DEF RestingAt, Extends
  <2>2. IsFiniteSet(A) /\ A \subseteq DOMAIN O
    BY FS_Subset DEF Orders, RestingAt
  <2>3. (\A x \in A : g[x] = f[x]) /\ g[r] = q
    BY <2>2 DEF Extends
  <2>4. q \in Nat /\ \A x \in A : f[x] \in Nat
    BY <2>2, SizeModAssumption DEF Orders, Extends, Size
  <2>5. SumFunctionOnSet(f, A) \in Nat
    BY RestingSum
  <2>6. Resting(O, s, p) = SumFunctionOnSet(f, A) % SizeMod
        /\ Resting(O2, s, p) = SumFunctionOnSet(g, A \cup {r}) % SizeMod
    BY <2>1 DEF Resting
  <2> HIDE DEF A, f, g, q
  <2>7. SumFunctionOnSet(g, A \cup {r}) = g[r] + SumFunctionOnSet(g, A)
    <3>1. \A x \in A \cup {r} : g[x] \in Int
      BY <2>3, <2>4
    <3> QED BY <2>1, <2>2, <3>1, SumAdd
  <2>8. SumFunctionOnSet(g, A) = SumFunctionOnSet(f, A)
    BY <2>2, <2>3, SumSame
  <2> DEFINE a == SumFunctionOnSet(f, A)
  <2>9. Resting(O2, s, p) = (a + q) % SizeMod /\ Resting(O, s, p) = a % SizeMod /\ a \in Nat
    <3>1. g[r] + SumFunctionOnSet(g, A) = a + q
      BY <2>3, <2>4, <2>5, <2>8
    <3> QED BY <2>5, <2>6, <2>7, <3>1
  <2> HIDE DEF a
  <2>10. ((a % SizeMod) + q) % SizeMod = (a + q) % SizeMod
    BY <2>4, <2>9, SizeModAssumption, ModAdd
  <2> QED BY <1>2, <2>9, <2>10 DEF q
<1> QED BY <1>1, <1>2

\* Whose side is not that of the new order is untouched by it.
LEMMA OtherSideExact ==
  ASSUME NEW O, Orders(O), NEW O2, NEW r, Extends(O2, O, r),
         NEW s \in Side, O2[r].side # s, NEW lv, Exact(lv, O, s)
  PROVE  Exact(lv, O2, s)
PROOF
<1>1. Quoted(O2, s) = Quoted(O, s)
  <2>1. Quoted(O2, s) = Quoted(O, s) \cup (IF O2[r].side = s THEN {O2[r].price} ELSE {})
    BY ExtendsOrders
  <2> QED BY <2>1
<1>2. \A p : Resting(O2, s, p) = Resting(O, s, p)
  BY ExtendsResting
<1> QED BY <1>1, <1>2 DEF Exact

(* A level that side_insert leaves has the size it had, the sum if it is of   *)
(* the price put in, or is new when that price was not covered.               *)
LEMMA SideInsertSizes ==
  ASSUME NEW lv \in Ladder, NEW s \in Side, NEW p \in Nat, NEW q \in Size, Sorted(lv, s),
         NEW i \in 1 .. Len(side_insert(lv, s, p, q))
  PROVE  LET l == side_insert(lv, s, p, q)[i]
         IN  \/ l.price # p /\ \E j \in 1 .. Len(lv) : l = lv[j]
             \/ \E j \in 1 .. Len(lv) : /\ lv[j].price = p /\ l.price = p
                                        /\ l.size = (lv[j].size + q) % SizeMod
             \/ l = [price |-> p, size |-> q] /\ ~Covered(lv, s, p)
PROOF
<1> DEFINE r == side_insert(lv, s, p, q)
           k == InsertPos(lv, s, p)
<1>1. /\ lv \in Seq(Level) /\ Len(lv) \in 0 .. NLevels
      /\ \A j \in 1 .. Len(lv) :
           lv[j] \in Level /\ lv[j].price \in Nat /\ lv[j].size \in Size
  BY LadderLevels
<1>2. CASE Matching(lv, p) # {}
  <2> DEFINE m    == FirstOf(Matching(lv, p))
             size == (lv[m].size + q) % SizeMod
             new  == [lv[m] EXCEPT !.size = size]
  <2>1. m \in 1 .. Len(lv) /\ lv[m].price = p
    <3>1. Matching(lv, p) \subseteq Nat
      BY <1>1, NLevelsAssumption DEF Matching
    <3>2. m \in Matching(lv, p)
      BY <1>2, <3>1, FirstOfProperties
    <3> QED BY <3>2 DEF Matching
  <2>2. size \in Size
    <3> DEFINE z == lv[m].size
    <3>1. z \in Nat /\ q \in Nat /\ SizeMod \in Nat \ {0}
      BY <1>1, <2>1, SizeModAssumption DEF Size
    <3> HIDE DEF z
    <3>2. (z + q) % SizeMod \in 0 .. SizeMod - 1
      BY <3>1
    <3> QED BY <3>2 DEF z, Size
  <2>3. r = [lv EXCEPT ![m] = new]
    BY <1>2 DEF side_insert
  <2>4. new \in Level /\ new.price = p /\ new.size = size
    BY <1>1, <2>1, <2>2 DEF Level
  <2>5. \A j \in 1 .. Len(lv) : j # m => lv[j].price # p
    <3>1. \A a, b \in 1 .. Len(lv) : a < b => lv[a].price # lv[b].price
      BY <1>1 DEF Sorted, Better
    <3> HIDE DEF m
    <3>2. \A j \in 1 .. Len(lv) : j < m \/ m < j \/ j = m
      BY <1>1, <2>1
    <3> QED BY <2>1, <3>1, <3>2
  <2> HIDE DEF m, new, r
  <2>6. /\ Len(r) = Len(lv)
        /\ \A j \in 1 .. Len(lv) : r[j] = IF j = m THEN new ELSE lv[j]
    BY <1>1, <2>1, <2>3, <2>4, ExceptSeq
  <2>7. i \in 1 .. Len(lv)
    BY <2>6 DEF r
  <2>8. CASE i = m
    <3>1. r[i] = new
      BY <2>6, <2>7, <2>8
    <3> QED BY <2>1, <2>4, <3>1 DEF r
  <2>9. CASE i # m
    <3>1. r[i] = lv[i] /\ lv[i].price # p
      BY <2>5, <2>6, <2>7, <2>9
    <3> QED BY <2>7, <3>1 DEF r
  <2> QED BY <2>8, <2>9
<1>3. CASE Matching(lv, p) = {}
  <2>1. \A j \in 1 .. Len(lv) : lv[j].price # p
    BY <1>3, Zenon DEF Matching
  <2>2. /\ k \in 1 .. Len(lv) + 1
        /\ k <= Len(lv) => Better(s, p, lv[k].price)
    BY InsertPosProperties
  <2>3. CASE k <= NLevels
    <3> DEFINE new == [price |-> p, size |-> q]
    <3>1. new \in Level /\ new.price = p
      BY DEF Level
    <3>2. r = Shifted(lv, k, new)
      BY <1>3, <2>3 DEF side_insert
    <3>3. ~Covered(lv, s, p)
      <4>1. ASSUME Len(lv) = NLevels, \A j \in 1 .. NLevels : Better(s, lv[j].price, p)
            PROVE  FALSE
        <5>1. k \in 1 .. Len(lv)
          BY <1>1, <2>2, <2>3, <4>1
        <5>2. Better(s, p, lv[k].price) /\ Better(s, lv[k].price, p) /\ lv[k].price \in Nat
          BY <1>1, <2>2, <4>1, <5>1
        <5> QED BY <5>2 DEF Better
      <4> QED BY <2>1, <4>1 DEF Covered
    <3> HIDE DEF new, k, r
    <3>4. /\ Len(r) = IF Len(lv) < NLevels THEN Len(lv) + 1 ELSE Len(lv)
          /\ \A j \in 1 .. Len(r) :
               r[j] = IF j < k THEN lv[j] ELSE IF j = k THEN new ELSE lv[j - 1]
      BY <2>2, <2>3, <3>1, <3>2, ShiftedProperties
    <3>5. i \in 1 .. Len(r)
      BY DEF r
    <3>6. CASE i < k
      <4>1. r[i] = lv[i] /\ i \in 1 .. Len(lv)
        BY <1>1, <2>2, <3>4, <3>5, <3>6
      <4> QED BY <2>1, <4>1 DEF r
    <3>7. CASE i = k
      <4>1. r[i] = new
        BY <3>4, <3>5, <3>7
      <4> QED BY <3>3, <4>1 DEF r, new
    <3>8. CASE i > k
      <4> DEFINE j == i - 1
      <4>1. r[i] = lv[j] /\ j \in 1 .. Len(lv)
        BY <1>1, <2>2, <3>4, <3>5, <3>8
      <4> HIDE DEF j
      <4> QED BY <2>1, <4>1 DEF r
    <3>9. i < k \/ i = k \/ i > k
      BY <1>1, <2>2, <3>4, <3>5
    <3> QED BY <3>6, <3>7, <3>8, <3>9
  <2>4. CASE ~(k <= NLevels)
    <3>1. r = lv
      BY <1>3, <2>4 DEF side_insert
    <3>2. i \in 1 .. Len(lv) /\ r[i] = lv[i]
      BY <3>1
    <3> HIDE DEF r
    <3> QED BY <2>1, <3>2 DEF r
  <2> QED BY <2>3, <2>4
<1> QED BY <1>2, <1>3

(* side_insert of an order turns the depth of the others into the depth of    *)
(* all of them.                                                               *)
LEMMA InsertExact ==
  ASSUME NEW O, Orders(O), NEW O2, NEW r, Extends(O2, O, r),
         NEW s \in Side, O2[r].side = s, NEW lv \in Ladder, Exact(lv, O, s)
  PROVE  Exact(side_insert(lv, s, O2[r].price, O2[r].shares), O2, s)
PROOF
<1> DEFINE p == O2[r].price  q == O2[r].shares
           w == side_insert(lv, s, p, q)
<1>1. p \in Nat /\ q \in Size /\ Sorted(lv, s)
  BY DEF Extends, Exact
<1>2. Quoted(O2, s) = Quoted(O, s) \cup {p}
  BY ExtendsOrders
<1>3. \A x : Resting(O2, s, x) = IF x = p THEN (Resting(O, s, x) + q) % SizeMod
                                 ELSE Resting(O, s, x)
  BY ExtendsResting
<1>4. Quoted(O, s) \subseteq Nat
  BY QuotedFinite
<1> HIDE DEF p, q
<1>5. Sorted(w, s)
  BY <1>1, SideInsertSorted
<1>6. \A x \in Quoted(O2, s) : Covered(w, s, x)
  <2> SUFFICES ASSUME NEW x \in Quoted(O2, s) PROVE Covered(w, s, x)
    OBVIOUS
  <2>1. x \in Nat /\ (x = p \/ Covered(lv, s, x))
    BY <1>1, <1>2, <1>4 DEF Exact
  <2> QED BY <1>1, <2>1, SideInsertCovers
<1>7. ASSUME NEW i \in 1 .. Len(w)
      PROVE  /\ w[i].price \in Quoted(O2, s)
             /\ w[i].size = Resting(O2, s, w[i].price)
  <2>1. \/ w[i].price # p /\ \E j \in 1 .. Len(lv) : w[i] = lv[j]
        \/ \E j \in 1 .. Len(lv) : /\ lv[j].price = p /\ w[i].price = p
                                   /\ w[i].size = (lv[j].size + q) % SizeMod
        \/ w[i] = [price |-> p, size |-> q] /\ ~Covered(lv, s, p)
    BY <1>1, SideInsertSizes
  <2> HIDE DEF w
  <2>2. \A j \in 1 .. Len(lv) : /\ lv[j].price \in Quoted(O, s)
                                /\ lv[j].size = Resting(O, s, lv[j].price)
    BY DEF Exact
  <2>3. CASE w[i].price # p /\ \E j \in 1 .. Len(lv) : w[i] = lv[j]
    BY <1>2, <1>3, <2>2, <2>3
  <2>4. CASE \E j \in 1 .. Len(lv) : /\ lv[j].price = p /\ w[i].price = p
                                     /\ w[i].size = (lv[j].size + q) % SizeMod
    BY <1>2, <1>3, <2>2, <2>4
  <2>5. CASE w[i] = [price |-> p, size |-> q] /\ ~Covered(lv, s, p)
    <3>1. p \notin Quoted(O, s)
      BY <2>5 DEF Exact
    <3>2. RestingAt(O, s, p) = {}
      BY <3>1 DEF RestingAt, Quoted
    <3>3. Resting(O, s, p) = 0
      <4>1. 0 % SizeMod = 0
        BY SizeModAssumption
      <4> QED BY <3>2, <4>1, SumEmpty DEF Resting
    <3>4. (0 + q) % SizeMod = q
      BY <1>1, SizeModAssumption DEF Size
    <3> QED BY <1>2, <1>3, <2>5, <3>3, <3>4
  <2> QED BY <2>1, <2>3, <2>4, <2>5
<1>8. Exact(w, O2, s)
  <2> HIDE DEF w
  <2> QED BY <1>5, <1>6, <1>7 DEF Exact
<1> QED BY <1>8 DEF p, q

\* No orders, no levels.
LEMMA EmptyExact ==
  ASSUME NEW O, DOMAIN O = {}, NEW s \in Side
  PROVE  Orders(O) /\ Exact(EmptyLevels[s], O, s)
PROOF
<1>1. Orders(O)
  BY FS_EmptySet DEF Orders
<1>2. Quoted(O, s) = {}
  BY DEF Quoted
<1>3. Len(EmptyLevels[s]) = 0 /\ Sorted(EmptyLevels[s], s)
  BY EmptyLevelsType
<1> QED BY <1>1, <1>2, <1>3 DEF Exact

(* Order r is reduced or removed.  When its price is worse than every level   *)
(* of a full ladder, nothing shown changes.                                   *)
Reduces(O2, O, r) ==
  /\ r \in DOMAIN O /\ DOMAIN O2 \in {DOMAIN O, DOMAIN O \ {r}}
  /\ \A x \in DOMAIN O2 \ {r} : O2[x] = O[x]
  /\ r \in DOMAIN O2 => O2[r].side = O[r].side /\ O2[r].price = O[r].price

LEMMA HiddenExact ==
  ASSUME NEW O, Orders(O), NEW O2, NEW r, Reduces(O2, O, r),
         NEW s \in Side, NEW lv \in Ladder, Exact(lv, O, s),
         O[r].side = s => \A k \in 1 .. Len(lv) : lv[k].price # O[r].price
  PROVE  Exact(lv, O2, s)
PROOF
<1>1. Quoted(O2, s) \subseteq Quoted(O, s)
  BY DEF Quoted, Reduces
<1>2. ASSUME NEW k \in 1 .. Len(lv)
      PROVE  /\ lv[k].price \in Quoted(O2, s)
             /\ lv[k].size = Resting(O2, s, lv[k].price)
  <2> DEFINE p == lv[k].price
  <2>1. p \in Quoted(O, s) /\ lv[k].size = Resting(O, s, p)
    BY DEF Exact
  <2>2. ~(O[r].side = s /\ O[r].price = p)
    OBVIOUS
  <2> HIDE DEF p
  <2>3. RestingAt(O2, s, p) = RestingAt(O, s, p)
    BY <2>2 DEF RestingAt, Reduces
  <2>4. \A x \in RestingAt(O, s, p) : O2[x] = O[x] /\ x \in DOMAIN O2
    BY <2>2 DEF RestingAt, Reduces
  <2>5. Resting(O2, s, p) = Resting(O, s, p)
    BY <2>3, <2>4, SameResting
  <2>6. p \in Quoted(O2, s)
    <3>1. PICK x \in RestingAt(O, s, p) : TRUE
      BY <2>1 DEF Quoted, RestingAt
    <3> QED BY <2>3, <3>1 DEF Quoted, RestingAt
  <2> QED BY <2>1, <2>5, <2>6 DEF p
<1>3. Sorted(lv, s)
  BY DEF Exact
<1>4. \A p \in Quoted(O2, s) : Covered(lv, s, p)
  BY <1>1 DEF Exact
<1> QED BY <1>2, <1>3, <1>4 DEF Exact

-----------------------------------------------------------------------------
(* The depth that a book shows, and the depth that a scan has reached. *)

Table(b)   == [i \in b.entry_valid |-> b.entries[i]]
Scanned(b) == [i \in {j \in b.entry_valid : j < b.scan_addr - 1} |-> b.entries[i]]

ScanExact(b) ==
  b.state = "RESCAN" => \A s \in Side : Exact(b.scan_lv[s], Scanned(b), s)

ShownExact(b) ==
  b.state # "RESCAN" => \A s \in Side : Exact(b.lv[s], Table(b), s)

LEMMA TableIsOrders ==
  ASSUME NEW b \in Book
  PROVE  Orders(Table(b)) /\ Orders(Scanned(b))
PROOF
<1>1. IsFiniteSet(Slot)
  <2>1. 0 \in Int /\ OrderDepth - 1 \in Int
    BY OrderDepthAssumption
  <2> QED BY <2>1, FS_Interval DEF Slot
<1>2. /\ b.entry_valid \subseteq Slot
      /\ \A i \in Slot : b.entries[i].price \in Nat /\ b.entries[i].shares \in Size
  BY BookFields DEF Entry
<1> DEFINE T == {j \in b.entry_valid : j < b.scan_addr - 1}
<1>3. T \subseteq Slot
  BY <1>2
<1>4. IsFiniteSet(b.entry_valid) /\ IsFiniteSet(T)
  BY <1>1, <1>2, <1>3, FS_Subset
<1>5. Orders(Table(b))
  BY <1>2, <1>4 DEF Orders, Table
<1>6. Orders(Scanned(b))
  BY <1>2, <1>3, <1>4 DEF Orders, Scanned
<1> QED BY <1>5, <1>6

\* A book that shows exactly its table shows its depth.
LEMMA ShownExactIsDepth ==
  ASSUME NEW b \in Book, ShownExact(b), b.state # "RESCAN"
  PROVE  b.lv = Depth(Table(b))
PROOF
<1>1. ASSUME NEW s \in Side PROVE b.lv[s] = DepthOf(Table(b), s)
  <2>1. Orders(Table(b)) /\ b.lv[s] \in Ladder
    BY TableIsOrders, BookFields
  <2>2. Exact(b.lv[s], Table(b), s)
    BY DEF ShownExact
  <2> QED BY <2>1, <2>2, ExactIsDepth
<1>2. b.lv = [s \in Side |-> b.lv[s]]
  BY BookFields
<1> QED BY <1>1, <1>2 DEF Depth

LEMMA EmptyTableExact ==
  ASSUME NEW c, c.state = "IDLE", c.entry_valid = {}, c.lv = EmptyLevels
  PROVE  ScanExact(c) /\ ShownExact(c)
PROOF
<1>1. DOMAIN Table(c) = {}
  BY DEF Table
<1> QED BY <1>1, EmptyExact DEF ScanExact, ShownExact

LEMMA SameTableExact ==
  ASSUME NEW b, NEW c, b.state # "RESCAN", c.state # "RESCAN", ShownExact(b),
         c.entries = b.entries, c.entry_valid = b.entry_valid, c.lv = b.lv
  PROVE  ScanExact(c) /\ ShownExact(c)
PROOF
<1>1. Table(c) = Table(b)
  BY DEF Table
<1> QED BY <1>1 DEF ScanExact, ShownExact

LEMMA InitBookExact == ScanExact(InitBook) /\ ShownExact(InitBook)
PROOF
<1>1. InitBook.state = "IDLE" /\ InitBook.entry_valid = {} /\ InitBook.lv = EmptyLevels
  BY DEF InitBook
<1> QED BY <1>1, EmptyTableExact

LEMMA ResetEdgeExact ==
  ASSUME NEW b \in Book
  PROVE  ScanExact(ResetEdge(b)) /\ ShownExact(ResetEdge(b))
PROOF
<1> DEFINE c == ResetEdge(b)
<1>1. c.state = "IDLE" /\ c.entry_valid = {} /\ c.lv = EmptyLevels
  BY DEF ResetEdge, Book
<1> HIDE DEF c
<1> QED BY <1>1, EmptyTableExact DEF c

LEMMA LatchedExact ==
  ASSUME NEW b \in Book, b.state = "IDLE", ShownExact(b), NEW msg \in Message
  PROVE  /\ ScanExact(IgnoreEdge(b, msg)) /\ ShownExact(IgnoreEdge(b, msg))
         /\ ScanExact(ReadEdge(b, msg)) /\ ShownExact(ReadEdge(b, msg))
PROOF
<1>1. ASSUME NEW c \in {Latched(b, msg), ReadEdge(b, msg)}
      PROVE  ScanExact(c) /\ ShownExact(c)
  <2>1. c.entries = b.entries /\ c.entry_valid = b.entry_valid /\ c.lv = b.lv
    BY LatchedType
  <2>2. c.state # "RESCAN"
    BY DEF Latched, ReadEdge, Book
  <2> QED BY <2>1, <2>2, SameTableExact
<1> QED BY <1>1 DEF IgnoreEdge

(* An order added to a free slot. *)
LEMMA AddEdgeExact ==
  ASSUME NEW b \in Book, b.state = "IDLE", ShownExact(b), NEW msg \in Message,
         Idx(msg.ref) \notin b.entry_valid
  PROVE  ScanExact(AddEdge(b, msg)) /\ ShownExact(AddEdge(b, msg))
PROOF
<1> DEFINE c == AddEdge(b, msg)
           i == Idx(msg.ref)
           e == EntryOf(msg)
           M == Inserted(b.lv, msg.side, msg.price, msg.shares)
<1>1. /\ i \in Slot /\ msg.price \in Nat /\ msg.side \in Side /\ msg.shares \in Size
  BY MessageFields
<1>2. e.side = msg.side /\ e.price = msg.price /\ e.shares = msg.shares
  BY DEF EntryOf
<1>3. /\ c.state = "IDLE" /\ c.entries = [b.entries EXCEPT ![i] = e]
      /\ c.entry_valid = b.entry_valid \cup {i} /\ c.lv = M
  BY DEF AddEdge, Latched, Book
<1>4. b.entries \in [Slot -> Entry] /\ b.entry_valid \subseteq Slot /\ b.lv \in [Side -> Ladder]
  BY BookFields
<1>5. i \notin b.entry_valid
  OBVIOUS
<1> HIDE DEF c, i, e, M
<1> DEFINE O == Table(b)  O2 == Table(c)
<1>6. O2[i] = e /\ \A j \in b.entry_valid : O2[j] = O[j]
  BY <1>1, <1>3, <1>4, <1>5 DEF Table
<1>7. DOMAIN O = b.entry_valid /\ DOMAIN O2 = b.entry_valid \cup {i}
  BY <1>3 DEF Table
<1> HIDE DEF O, O2
<1>8. Extends(O2, O, i)
  BY <1>1, <1>2, <1>5, <1>6, <1>7 DEF Extends
<1>9. Orders(O)
  BY TableIsOrders DEF O
<1>10. ASSUME NEW s \in Side PROVE Exact(M[s], O2, s)
  <2>1. Exact(b.lv[s], O, s) /\ b.lv[s] \in Ladder
    BY <1>4 DEF ShownExact, O
  <2>2. CASE s = msg.side
    <3>1. M[s] = side_insert(b.lv[s], s, O2[i].price, O2[i].shares)
      BY <1>2, <1>4, <1>6, <2>2 DEF M, Inserted
    <3>2. O2[i].side = s
      BY <1>2, <1>6, <2>2
    <3>3. Exact(side_insert(b.lv[s], s, O2[i].price, O2[i].shares), O2, s)
      BY <1>8, <1>9, <2>1, <3>2, InsertExact
    <3> QED BY <3>1, <3>3
  <2>3. CASE s # msg.side
    <3>1. M[s] = b.lv[s]
      BY <1>4, <2>3 DEF M, Inserted
    <3>2. O2[i].side # s
      BY <1>2, <1>6, <2>3
    <3> QED BY <1>8, <1>9, <2>1, <3>1, <3>2, OtherSideExact
  <2> QED BY <2>2, <2>3
<1>11. ScanExact(c) /\ ShownExact(c)
  BY <1>3, <1>10 DEF ScanExact, ShownExact, O2
<1> QED BY <1>11 DEF c

LEMMA MissEdgeExact ==
  ASSUME NEW b \in Book, b.state = "LOOKUP", ShownExact(b)
  PROVE  ScanExact(MissEdge(b)) /\ ShownExact(MissEdge(b))
PROOF
<1> DEFINE d == Reread(b)  c == [d EXCEPT !.state = "IDLE"]
<1>1. /\ d \in Book /\ d.entries = b.entries /\ d.entry_valid = b.entry_valid
      /\ d.lv = b.lv
  BY RereadType
<1> HIDE DEF d
<1>2. /\ c.state = "IDLE" /\ c.entries = b.entries
      /\ c.entry_valid = b.entry_valid /\ c.lv = b.lv
  BY <1>1 DEF Book
<1>3. MissEdge(b) = c
  BY DEF MissEdge, d
<1> HIDE DEF c
<1> QED BY <1>2, <1>3, SameTableExact

\* A scan begins with nothing, the depth of no orders.
LEMMA StartRescanExact ==
  ASSUME NEW d \in Book
  PROVE  ScanExact(StartRescan(d)) /\ ShownExact(StartRescan(d))
PROOF
<1> DEFINE c == StartRescan(d)
<1>1. /\ c.state = "RESCAN" /\ c.scan_addr = 0 /\ c.scan_lv = EmptyLevels
      /\ c.entry_valid = d.entry_valid
  BY DEF StartRescan, Book
<1>2. d.entry_valid \subseteq Slot
  BY BookFields
<1> HIDE DEF c
<1>3. DOMAIN Scanned(c) = {}
  BY <1>1, <1>2, OrderDepthAssumption DEF Scanned, Slot
<1>4. ScanExact(c) /\ ShownExact(c)
  BY <1>1, <1>3, EmptyExact DEF ScanExact, ShownExact
<1> QED BY <1>4 DEF c

(* The order looked up is reduced or removed: what is shown is rebuilt, or    *)
(* the order was below every level of a full ladder.                          *)
LEMMA AfterEditExact ==
  ASSUME NEW b, BookInv(b), b.state = "LOOKUP", ShownExact(b),
         NEW d \in Book, d.lv = b.lv, Reduces(Table(d), Table(b), Idx(b.m.ref))
  PROVE  ScanExact(AfterEdit(b, d)) /\ ShownExact(AfterEdit(b, d))
PROOF
<1> DEFINE i == Idx(b.m.ref)  O == Table(b)
<1>1. b \in Book /\ SortedBook(b) /\ b.rd_data = b.entries[i]
  BY DEF BookInv, LookupFresh
<1>2. CASE aff_displayed(b)
  <2>1. AfterEdit(b, d) = StartRescan(d)
    BY <1>2 DEF AfterEdit
  <2> QED BY <2>1, StartRescanExact
<1>3. CASE ~aff_displayed(b)
  <2> DEFINE c == [d EXCEPT !.state = "IDLE"]
  <2>1. /\ c.state = "IDLE" /\ c.entries = d.entries
        /\ c.entry_valid = d.entry_valid /\ c.lv = b.lv
    BY DEF Book
  <2>2. AfterEdit(b, d) = c
    BY <1>3 DEF AfterEdit
  <2> HIDE DEF c
  <2>3. Table(c) = Table(d)
    BY <2>1 DEF Table
  <2>4. i \in b.entry_valid /\ O[i] = b.rd_data
    BY <1>1 DEF Reduces, Table
  <2>5. ASSUME NEW s \in Side PROVE Exact(b.lv[s], Table(d), s)
    <3>1. Orders(O) /\ Exact(b.lv[s], O, s) /\ b.lv[s] \in Ladder /\ Sorted(b.lv[s], s)
      BY <1>1, TableIsOrders, BookFields DEF ShownExact, SortedBook
    <3>2. ASSUME O[i].side = s, NEW k \in 1 .. Len(b.lv[s])
          PROVE  b.lv[s][k].price # O[i].price
      <4>1. /\ Len(b.lv[s]) = NLevels
            /\ Better(s, b.lv[s][NLevels].price, O[i].price)
        BY <1>3, <2>4, <3>2 DEF aff_displayed
      <4>2. /\ NLevels \in 1 .. Len(b.lv[s])
            /\ b.lv[s][NLevels].price \in Nat /\ b.lv[s][k].price \in Nat
        BY <3>1, <4>1, LadderLevels, NLevelsAssumption
      <4>3. k < NLevels => Better(s, b.lv[s][k].price, b.lv[s][NLevels].price)
        BY <3>1, <4>2 DEF Sorted
      <4>4. k < NLevels \/ k = NLevels
        BY <4>1, NLevelsAssumption
      <4> SUFFICES ASSUME b.lv[s][k].price = O[i].price PROVE FALSE
        OBVIOUS
      <4> QED BY <4>1, <4>2, <4>3, <4>4 DEF Better
    <3> HIDE DEF O, i
    <3>3. Reduces(Table(d), O, i)
      BY DEF O, i
    <3> QED BY <3>1, <3>2, <3>3, HiddenExact
  <2> QED BY <2>1, <2>2, <2>3, <2>5 DEF ScanExact, ShownExact
<1> QED BY <1>2, <1>3

LEMMA DeleteEdgeExact ==
  ASSUME NEW b, BookInv(b), b.state = "LOOKUP", lk_match(b), ShownExact(b)
  PROVE  ScanExact(DeleteEdge(b)) /\ ShownExact(DeleteEdge(b))
PROOF
<1> DEFINE r == Reread(b)
           i == Idx(b.m.ref)
           d == [r EXCEPT !.entry_valid = @ \ {i}]
<1>1. b \in Book /\ i \in b.entry_valid
  BY DEF BookInv, lk_match
<1>2. /\ r \in Book /\ r.entries = b.entries /\ r.entry_valid = b.entry_valid
      /\ r.lv = b.lv
  BY <1>1, RereadType
<1>3. DeleteEdge(b) = AfterEdit(b, d)
  BY DEF DeleteEdge
<1> HIDE DEF r
<1>4. /\ d \in Book /\ d.entries = b.entries /\ d.lv = b.lv
      /\ d.entry_valid = b.entry_valid \ {i}
  <2>1. r.entry_valid \ {i} \in SUBSET Slot
    BY <1>2, BookFields
  <2>2. d \in Book
    BY <1>2, <2>1, BookUpdate
  <2> QED BY <1>2, <2>2 DEF Book
<1> HIDE DEF d
<1>5. Reduces(Table(d), Table(b), i)
  BY <1>1, <1>4 DEF Reduces, Table
<1> QED BY <1>3, <1>4, <1>5, AfterEditExact

LEMMA ReduceEdgeExact ==
  ASSUME NEW b, BookInv(b), b.state = "LOOKUP", lk_match(b), ShownExact(b)
  PROVE  ScanExact(ReduceEdge(b)) /\ ShownExact(ReduceEdge(b))
PROOF
<1>1. b \in Book
  BY DEF BookInv
<1>2. CASE ~(b.rd_data.shares > b.m.shares)
  <2>1. ReduceEdge(b) = DeleteEdge(b)
    BY <1>2 DEF ReduceEdge, DeleteEdge
  <2> QED BY <2>1, DeleteEdgeExact
<1>3. CASE b.rd_data.shares > b.m.shares
  <2> DEFINE i == Idx(b.m.ref)
             e == [b.rd_data EXCEPT !.shares = @ - b.m.shares]
             r == Reread(b)
             d == [r EXCEPT !.entries[i] = e]
  <2>1. ReduceEdge(b) = AfterEdit(b, d)
    BY <1>3 DEF ReduceEdge
  <2>2. /\ r \in Book /\ r.entries = b.entries /\ r.entry_valid = b.entry_valid
        /\ r.lv = b.lv
    BY <1>1, RereadType
  <2>3. /\ i \in Slot /\ b.rd_data \in Entry /\ b.m.shares \in Size
        /\ b.entries \in [Slot -> Entry] /\ b.entry_valid \subseteq Slot
    BY <1>1, BookFields, MessageFields, IdxInSlot
  <2>4. b.rd_data.shares - b.m.shares \in Size
    BY <1>3, <2>3, SizeModAssumption DEF Entry, Size
  <2>5. e \in Entry /\ e.side = b.rd_data.side /\ e.price = b.rd_data.price
    BY <2>3, <2>4 DEF Entry
  <2>6. b.rd_data = b.entries[i] /\ i \in b.entry_valid
    BY DEF BookInv, LookupFresh, lk_match
  <2> HIDE DEF r, i, e
  <2>7. /\ d \in Book /\ d.entries = [b.entries EXCEPT ![i] = e] /\ d.lv = b.lv
        /\ d.entry_valid = b.entry_valid
    <3>1. [r.entries EXCEPT ![i] = e] \in [Slot -> Entry]
      BY <2>2, <2>3, <2>5
    <3>2. d = [r EXCEPT !.entries = [r.entries EXCEPT ![i] = e]]
      OBVIOUS
    <3>3. d \in Book
      BY <2>2, <3>1, <3>2, BookUpdate
    <3> QED BY <2>2, <3>2, <3>3 DEF Book
  <2> HIDE DEF d
  <2>8. Reduces(Table(d), Table(b), i)
    BY <2>3, <2>5, <2>6, <2>7 DEF Reduces, Table
  <2>9. Reduces(Table(d), Table(b), Idx(b.m.ref))
    BY <2>8 DEF i
  <2> QED BY <2>1, <2>7, <2>9, AfterEditExact
<1> QED BY <1>2, <1>3

LEMMA ReplaceEdgeExact ==
  ASSUME NEW b, BookInv(b), b.state = "LOOKUP"
  PROVE  ScanExact(ReplaceEdge(b)) /\ ShownExact(ReplaceEdge(b))
PROOF
<1> DEFINE r   == Reread(b)
           n   == Idx(b.m.nref)
           new == [ref |-> b.m.nref, side |-> b.rd_data.side,
                   price |-> b.m.price, shares |-> b.m.shares]
           V   == (b.entry_valid \ {Idx(b.m.ref)}) \cup {n}
           E   == [b.entries EXCEPT ![n] = new]
           c1  == [r  EXCEPT !.entries = E]
           c2  == [c1 EXCEPT !.entry_valid = V]
<1>1. b \in Book
  BY DEF BookInv
<1>2. r \in Book /\ r.entries = b.entries /\ r.entry_valid = b.entry_valid
  BY <1>1, RereadType
<1>3. n \in Slot /\ new \in Entry
  <2>1. b.m \in Message /\ b.rd_data \in Entry
    BY <1>1, BookFields
  <2> QED BY <2>1, MessageFields, IdxInSlot DEF Entry
<1>4. E \in [Slot -> Entry] /\ V \in SUBSET Slot
  <2> HIDE DEF n, new
  <2> QED BY <1>1, <1>3, BookFields
<1>5. ReplaceEdge(b) = StartRescan(c2)
  BY <1>2 DEF ReplaceEdge
<1> HIDE DEF r, E, V
<1>6. c1 \in Book
  BY <1>2, <1>4, BookUpdate
<1> HIDE DEF c1
<1>7. c2 \in Book
  BY <1>4, <1>6, BookUpdate
<1> HIDE DEF c2
<1> QED BY <1>5, <1>7, StartRescanExact

(* One slot further: its order joins those scanned, if its bit is set. *)
LEMMA ScanEdgeExact ==
  ASSUME NEW b, BookInv(b), b.state = "RESCAN", b.scan_addr <= OrderDepth, ScanExact(b)
  PROVE  ScanExact(ScanEdge(b)) /\ ShownExact(ScanEdge(b))
PROOF
<1> DEFINE a == b.scan_addr
           c == ScanEdge(b)
           P == Processed(b)
           O == Scanned(b)  O2 == Scanned(c)
<1>1. b \in Book /\ ScanAligned(b)
  BY DEF BookInv
<1>2. a \in 0 .. OrderDepth /\ OrderDepth \in Nat
  BY <1>1, BookFields, OrderDepthAssumption
<1>3. /\ b.scan_lv \in [Side -> Ladder] /\ b.entries \in [Slot -> Entry]
      /\ b.entry_valid \subseteq 0 .. OrderDepth - 1 /\ b.entry_valid \subseteq Slot
  BY <1>1, BookFields DEF Slot
<1>4. /\ c.state = "RESCAN" /\ c.entries = b.entries
      /\ c.entry_valid = b.entry_valid /\ c.scan_lv = P /\ c.scan_addr = a + 1
  BY <1>1 DEF ScanEdge, Book
<1> HIDE DEF c, P
<1>5. DOMAIN O2 = {j \in b.entry_valid : j < a} /\ DOMAIN O = {j \in b.entry_valid : j < a - 1}
  <2>1. (a + 1) - 1 = a
    BY <1>2
  <2> QED BY <1>4, <2>1 DEF Scanned
<1>6. /\ \A j \in DOMAIN O2 : O2[j] = b.entries[j]
      /\ \A j \in DOMAIN O : O[j] = b.entries[j]
  BY <1>4 DEF Scanned
<1>7. Orders(O) /\ \A s \in Side : Exact(b.scan_lv[s], O, s) /\ b.scan_lv[s] \in Ladder
  BY <1>1, <1>3, TableIsOrders DEF ScanExact
<1>8. CASE b.proc_en /\ b.proc_idx \in b.entry_valid
  <2> DEFINE i == b.proc_idx
  <2>1. i = a - 1 /\ b.rd_data = b.entries[i] /\ i \in b.entry_valid /\ i \in Slot
    BY <1>1, <1>3, <1>8 DEF ScanAligned
  <2>2. P = Inserted(b.scan_lv, b.rd_data.side, b.rd_data.price, b.rd_data.shares)
    BY <1>8 DEF P, Processed
  <2> HIDE DEF i, O, O2
  <2>3. DOMAIN O2 = DOMAIN O \cup {i} /\ i \notin DOMAIN O
    BY <1>2, <1>3, <1>5, <2>1
  <2>4. O2[i] = b.rd_data /\ O2[i] \in Entry
    BY <1>3, <1>6, <2>1, <2>3
  <2>5. Extends(O2, O, i)
    BY <1>6, <2>3, <2>4 DEF Extends, Entry
  <2>6. ASSUME NEW s \in Side PROVE Exact(P[s], O2, s)
    <3>1. CASE s = b.rd_data.side
      <4>1. P[s] = side_insert(b.scan_lv[s], s, O2[i].price, O2[i].shares)
        BY <1>3, <2>2, <2>4, <3>1 DEF Inserted
      <4>2. O2[i].side = s
        BY <2>4, <3>1
      <4>3. Exact(side_insert(b.scan_lv[s], s, O2[i].price, O2[i].shares), O2, s)
        BY <1>7, <2>5, <4>2, InsertExact
      <4> QED BY <4>1, <4>3
    <3>2. CASE s # b.rd_data.side
      <4>1. P[s] = b.scan_lv[s]
        BY <1>3, <2>2, <3>2 DEF Inserted
      <4>2. O2[i].side # s
        BY <2>4, <3>2
      <4> QED BY <1>7, <2>5, <4>1, <4>2, OtherSideExact
    <3> QED BY <3>1, <3>2
  <2>7. ScanExact(c) /\ ShownExact(c)
    BY <1>4, <2>6 DEF ScanExact, ShownExact, O2
  <2> QED BY <2>7 DEF c
<1>9. CASE ~(b.proc_en /\ b.proc_idx \in b.entry_valid)
  <2>1. P = b.scan_lv
    BY <1>9 DEF P, Processed
  <2>2. DOMAIN O2 = DOMAIN O
    <3> SUFFICES ASSUME NEW j \in b.entry_valid, j < a PROVE j < a - 1
      BY <1>2, <1>3, <1>5
    <3>1. j \in 0 .. OrderDepth - 1
      BY <1>3
    <3>2. ASSUME j = a - 1 PROVE FALSE
      <4>1. a \in 1 .. OrderDepth
        BY <1>2, <3>1, <3>2
      <4>2. b.proc_en /\ b.proc_idx = j
        BY <1>1, <3>2, <4>1 DEF ScanAligned
      <4> QED BY <1>9, <4>2
    <3> QED BY <1>2, <3>1, <3>2
  <2>3. O2 = O
    <3>1. O2 = [j \in DOMAIN O2 |-> b.entries[j]] /\ O = [j \in DOMAIN O |-> b.entries[j]]
      BY <1>4 DEF Scanned
    <3> QED BY <2>2, <3>1
  <2> HIDE DEF O, O2
  <2>4. ScanExact(c) /\ ShownExact(c)
    BY <1>4, <1>7, <2>1, <2>3 DEF ScanExact, ShownExact, O2
  <2> QED BY <2>4 DEF c
<1> QED BY <1>8, <1>9

\* After the last slot, the orders scanned are those of the table.
LEMMA CommitEdgeExact ==
  ASSUME NEW b, BookInv(b), b.state = "RESCAN", b.scan_addr > OrderDepth, ScanExact(b)
  PROVE  /\ ScanExact(CommitEdge(b)) /\ ShownExact(CommitEdge(b))
         /\ CommitEdge(b).state = "IDLE" /\ Table(CommitEdge(b)) = Table(b)
PROOF
<1> DEFINE c == CommitEdge(b)
<1>1. b \in Book
  BY DEF BookInv
<1>2. b.scan_addr = OrderDepth + 1 /\ b.entry_valid \subseteq 0 .. OrderDepth - 1
  BY <1>1, BookFields, OrderDepthAssumption DEF Slot
<1>3. /\ c.state = "IDLE" /\ c.entries = b.entries
      /\ c.entry_valid = b.entry_valid /\ c.lv = b.scan_lv
  BY <1>1 DEF CommitEdge, Book
<1> HIDE DEF c
<1>4. Scanned(b) = Table(c) /\ Table(c) = Table(b)
  <2>1. {j \in b.entry_valid : j < b.scan_addr - 1} = b.entry_valid
    BY <1>2, OrderDepthAssumption
  <2> QED BY <1>3, <2>1 DEF Scanned, Table
<1>5. ScanExact(c) /\ ShownExact(c)
  BY <1>3, <1>4 DEF ScanExact, ShownExact
<1> QED BY <1>3, <1>4, <1>5 DEF c

\* A scan that an edit starts has scanned nothing; one that it does not start
\* leaves an idle book.
LEMMA AfterEditScan ==
  ASSUME NEW b, NEW d \in Book
  PROVE  ScanExact(AfterEdit(b, d))
PROOF
<1>1. CASE aff_displayed(b)
  <2>1. AfterEdit(b, d) = StartRescan(d)
    BY <1>1 DEF AfterEdit
  <2> QED BY <2>1, StartRescanExact
<1>2. CASE ~aff_displayed(b)
  <2>1. AfterEdit(b, d).state = "IDLE"
    BY <1>2 DEF AfterEdit, Book
  <2> QED BY <2>1 DEF ScanExact
<1> QED BY <1>1, <1>2

(* Whatever the table was, a scan reaches its depth: this part of the edges   *)
(* does not need what is shown to be exact before.                            *)
LEMMA EdgesScan ==
  ASSUME NEW b, BookInv(b)
  PROVE  /\ \A msg : b.state = "IDLE" => /\ ScanExact(AddEdge(b, msg))
                                         /\ ScanExact(ReadEdge(b, msg))
                                         /\ ScanExact(IgnoreEdge(b, msg))
         /\ b.state = "LOOKUP" => /\ ScanExact(MissEdge(b))
                                  /\ ScanExact(DeleteEdge(b))
                                  /\ ScanExact(ReduceEdge(b))
                                  /\ ScanExact(ReplaceEdge(b))
PROOF
<1>1. b \in Book
  BY DEF BookInv
<1>2. ASSUME NEW msg, b.state = "IDLE"
      PROVE  /\ ScanExact(AddEdge(b, msg)) /\ ScanExact(ReadEdge(b, msg))
             /\ ScanExact(IgnoreEdge(b, msg))
  <2>1. /\ AddEdge(b, msg).state = "IDLE" /\ ReadEdge(b, msg).state = "LOOKUP"
        /\ IgnoreEdge(b, msg).state = "IDLE"
    BY <1>1, <1>2 DEF AddEdge, ReadEdge, IgnoreEdge, Latched, Book
  <2> QED BY <2>1 DEF ScanExact
<1>3. ASSUME b.state = "LOOKUP"
      PROVE  /\ ScanExact(MissEdge(b)) /\ ScanExact(DeleteEdge(b))
             /\ ScanExact(ReduceEdge(b)) /\ ScanExact(ReplaceEdge(b))
  <2> DEFINE r == Reread(b)
             i == Idx(b.m.ref)
             d == [r EXCEPT !.entry_valid = @ \ {i}]
             e == [b.rd_data EXCEPT !.shares = @ - b.m.shares]
             w == [r EXCEPT !.entries[i] = e]
  <2>1. /\ r \in Book /\ r.entries = b.entries /\ r.entry_valid = b.entry_valid
    BY <1>1, RereadType
  <2>2. MissEdge(b).state = "IDLE"
    BY <2>1 DEF MissEdge, Book
  <2>3. d \in Book
    <3> HIDE DEF r, i
    <3>1. r.entry_valid \ {i} \in SUBSET Slot
      BY <2>1, BookFields
    <3> QED BY <2>1, <3>1, BookUpdate
  <2>4. ASSUME b.rd_data.shares > b.m.shares PROVE w \in Book
    <3>1. /\ i \in Slot /\ b.rd_data \in Entry /\ b.m.shares \in Size
          /\ b.entries \in [Slot -> Entry]
      BY <1>1, BookFields, MessageFields, IdxInSlot
    <3>2. b.rd_data.shares - b.m.shares \in Size
      BY <2>4, <3>1, SizeModAssumption DEF Entry, Size
    <3>3. e \in Entry
      BY <3>1, <3>2 DEF Entry
    <3> HIDE DEF r, i, e
    <3>4. [r.entries EXCEPT ![i] = e] \in [Slot -> Entry]
      BY <2>1, <3>1, <3>3
    <3>5. w = [r EXCEPT !.entries = [r.entries EXCEPT ![i] = e]]
      OBVIOUS
    <3> QED BY <2>1, <3>4, <3>5, BookUpdate
  <2>5. /\ DeleteEdge(b) = AfterEdit(b, d)
        /\ ReduceEdge(b) = AfterEdit(b, IF b.rd_data.shares > b.m.shares THEN w ELSE d)
    BY DEF DeleteEdge, ReduceEdge
  <2> HIDE DEF w, d, r
  <2>6. ScanExact(DeleteEdge(b)) /\ ScanExact(ReduceEdge(b))
    BY <2>3, <2>4, <2>5, AfterEditScan
  <2>7. ScanExact(ReplaceEdge(b))
    BY <1>3, ReplaceEdgeExact
  <2>8. ScanExact(MissEdge(b))
    BY <2>2 DEF ScanExact
  <2> QED BY <2>6, <2>7, <2>8
<1> QED BY <1>2, <1>3

\* The depth through the edge of a book, whatever is on its input.
LEMMA BookEdgeExact ==
  ASSUME NEW b, BookInv(b), ScanExact(b), ShownExact(b),
         NEW valid \in BOOLEAN, NEW msg \in Message,
         b.state = "IDLE" /\ valid /\ msg.type \in AddTypes
           => Idx(msg.ref) \notin b.entry_valid
  PROVE  ScanExact(BookEdge(b, valid, msg)) /\ ShownExact(BookEdge(b, valid, msg))
PROOF
<1>1. b \in Book /\ LookupFresh(b)
  BY DEF BookInv
<1>2. b.state \in {"IDLE", "LOOKUP", "RESCAN"}
  BY <1>1, BookFields
<1>3. CASE b.state = "IDLE" /\ ~valid
  BY <1>3, Zenon DEF BookEdge
<1>4. CASE b.state = "IDLE" /\ valid
  <2>1. BookEdge(b, valid, msg) = IdleEdge(b, msg)
    BY <1>4, SMT DEF BookEdge
  <2>2. CASE msg.type \in AddTypes
    <3>1. IdleEdge(b, msg) = AddEdge(b, msg)
      BY <2>2, SMT DEF IdleEdge, AddTypes, LookupTypes, ReduceTypes
    <3>2. ScanExact(AddEdge(b, msg)) /\ ShownExact(AddEdge(b, msg))
      BY <1>1, <1>4, <2>2, AddEdgeExact
    <3> QED BY <2>1, <3>1, <3>2
  <2>3. CASE msg.type \in LookupTypes
    <3>1. IdleEdge(b, msg) = ReadEdge(b, msg)
      BY <2>3, SMT DEF IdleEdge, AddTypes, LookupTypes, ReduceTypes
    <3> QED BY <1>1, <1>4, <2>1, <3>1, LatchedExact
  <2>4. CASE msg.type \notin AddTypes /\ msg.type \notin LookupTypes
    <3>1. IdleEdge(b, msg) = IgnoreEdge(b, msg)
      BY <2>4, SMT DEF IdleEdge
    <3> QED BY <1>1, <1>4, <2>1, <3>1, LatchedExact
  <2> QED BY <2>2, <2>3, <2>4
<1>5. CASE b.state = "LOOKUP"
  <2>1. BookEdge(b, valid, msg) = LookupEdge(b)
    BY <1>5, SMT DEF BookEdge
  <2>2. CASE ~lk_match(b)
    <3>1. LookupEdge(b) = MissEdge(b)
      BY <2>2, SMT DEF LookupEdge
    <3> QED BY <1>1, <1>5, <2>1, <3>1, MissEdgeExact
  <2>3. CASE lk_match(b) /\ b.m.type \in ReduceTypes
    <3>1. LookupEdge(b) = ReduceEdge(b)
      BY <2>3, SMT DEF LookupEdge, ReduceTypes
    <3> QED BY <1>5, <2>1, <2>3, <3>1, ReduceEdgeExact
  <2>4. CASE lk_match(b) /\ b.m.type = "D"
    <3>1. LookupEdge(b) = DeleteEdge(b)
      BY <2>4, SMT DEF LookupEdge, ReduceTypes
    <3> QED BY <1>5, <2>1, <2>4, <3>1, DeleteEdgeExact
  <2>5. CASE lk_match(b) /\ b.m.type = "U"
    <3>1. LookupEdge(b) = ReplaceEdge(b)
      BY <2>5, SMT DEF LookupEdge, ReduceTypes
    <3> QED BY <1>5, <2>1, <3>1, ReplaceEdgeExact
  <2> QED BY <1>1, <1>5, <2>2, <2>3, <2>4, <2>5 DEF LookupFresh, LookupTypes
<1>6. CASE b.state = "RESCAN"
  <2>1. BookEdge(b, valid, msg) = RescanEdge(b)
    BY <1>6, SMT DEF BookEdge
  <2>2. b.scan_addr \in 0 .. OrderDepth + 1
    BY <1>1, BookFields
  <2>3. CASE b.scan_addr <= OrderDepth
    BY <1>6, <2>1, <2>3, ScanEdgeExact DEF RescanEdge
  <2>4. CASE b.scan_addr > OrderDepth
    <3>1. RescanEdge(b) = CommitEdge(b)
      BY <2>2, <2>4, OrderDepthAssumption DEF RescanEdge
    <3> QED BY <1>6, <2>1, <2>4, <3>1, CommitEdgeExact
  <2> QED BY <2>2, <2>3, <2>4, OrderDepthAssumption
<1> QED BY <1>2, <1>3, <1>4, <1>5, <1>6

\* A scan leaves the table as it is, and a book does not look up after it.
LEMMA BookEdgeRescan ==
  ASSUME NEW b \in Book, b.state = "RESCAN", NEW valid, NEW msg
  PROVE  LET c == BookEdge(b, valid, msg)
         IN  c.entry_valid = b.entry_valid /\ c.state # "LOOKUP"
PROOF
<1>1. BookEdge(b, valid, msg) = RescanEdge(b)
  BY SMT DEF BookEdge
<1>2. /\ ScanEdge(b).entry_valid = b.entry_valid /\ ScanEdge(b).state = "RESCAN"
      /\ CommitEdge(b).entry_valid = b.entry_valid /\ CommitEdge(b).state = "IDLE"
  BY DEF ScanEdge, CommitEdge, Book
<1> QED BY <1>1, <1>2 DEF RescanEdge

-----------------------------------------------------------------------------
(* The orders of a table by reference. *)

OrderOf(e) == [side |-> e.side, price |-> e.price, shares |-> e.shares]

\* The orders in the slots V of the entries E, and that each is in its slot.
LiveOf(E, V) == [r \in {E[i].ref : i \in V} |-> OrderOf(E[Idx(r)])]
InPlace(E, V) == \A i \in V : E[i].ref \in Nat /\ Idx(E[i].ref) = i

Live(b)   == LiveOf(b.entries, b.entry_valid)
InSlots(b) == InPlace(b.entries, b.entry_valid)

LEMMA LiveAt ==
  ASSUME NEW E, NEW V, InPlace(E, V)
  PROVE  /\ \A i \in V : /\ E[i].ref \in DOMAIN LiveOf(E, V)
                         /\ LiveOf(E, V)[E[i].ref] = OrderOf(E[i])
         /\ \A r \in DOMAIN LiveOf(E, V) : /\ Idx(r) \in V /\ E[Idx(r)].ref = r
                                           /\ LiveOf(E, V)[r] = OrderOf(E[Idx(r)])
PROOF BY DEF LiveOf, InPlace

\* A slot is given up.
LEMMA LiveWithout ==
  ASSUME NEW E, NEW V, InPlace(E, V), NEW i \in V
  PROVE  /\ InPlace(E, V \ {i})
         /\ LiveOf(E, V \ {i}) = Without(LiveOf(E, V), E[i].ref)
PROOF
<1> DEFINE O == LiveOf(E, V)  W == V \ {i}
<1>1. InPlace(E, W)
  BY DEF InPlace
<1>2. {E[j].ref : j \in W} = DOMAIN O \ {E[i].ref}
  <2>1. DOMAIN O = {E[j].ref : j \in V}
    BY DEF LiveOf
  <2>2. \A j \in V : E[j].ref = E[i].ref => j = i
    BY DEF InPlace
  <2> QED BY <2>1, <2>2
<1>3. \A r \in DOMAIN O : O[r] = OrderOf(E[Idx(r)])
  BY DEF LiveOf
<1>4. LiveOf(E, W) = [r \in DOMAIN O \ {E[i].ref} |-> O[r]]
  <2> HIDE DEF O
  <2> QED BY <1>2, <1>3 DEF LiveOf
<1> QED BY <1>1, <1>4 DEF Without

\* An order is put in its slot, which is free.
LEMMA LiveWith ==
  ASSUME NEW E \in [Slot -> Entry], NEW V \in SUBSET Slot, InPlace(E, V),
         NEW e, e.ref \in Nat, Idx(e.ref) \notin V
  PROVE  LET F == [E EXCEPT ![Idx(e.ref)] = e]
             W == V \cup {Idx(e.ref)}
         IN  /\ InPlace(F, W) /\ e.ref \notin DOMAIN LiveOf(E, V)
             /\ LiveOf(F, W) = With(LiveOf(E, V), e.ref, OrderOf(e))
PROOF
<1> DEFINE i == Idx(e.ref)  O == LiveOf(E, V)
           F == [E EXCEPT ![i] = e]  W == V \cup {i}
<1>1. i \in Slot /\ i \notin V /\ Idx(e.ref) = i
  BY IdxInSlot
<1> HIDE DEF i
<1>2. F[i] = e /\ \A j \in V : F[j] = E[j]
  BY <1>1
<1> HIDE DEF F
<1>3. InPlace(F, W)
  BY <1>1, <1>2 DEF InPlace
<1>4. DOMAIN O = {E[j].ref : j \in V}
  BY DEF LiveOf
<1>5. e.ref \notin DOMAIN O
  BY <1>1, <1>4 DEF InPlace
<1>6. {F[j].ref : j \in W} = DOMAIN O \cup {e.ref}
  BY <1>1, <1>2, <1>4
<1>7. \A r \in DOMAIN O : Idx(r) \in V /\ O[r] = OrderOf(E[Idx(r)])
  BY LiveAt
<1>8. \A r \in DOMAIN O \cup {e.ref} :
        OrderOf(F[Idx(r)]) = IF r = e.ref THEN OrderOf(e) ELSE O[r]
  BY <1>1, <1>2, <1>7
<1>9. LiveOf(F, W) = [r \in DOMAIN O \cup {e.ref} |-> IF r = e.ref THEN OrderOf(e) ELSE O[r]]
  <2> HIDE DEF O, W
  <2> QED BY <1>6, <1>8 DEF LiveOf
<1> QED BY <1>3, <1>5, <1>9 DEF With, F, i

\* An order is changed in its slot.
LEMMA LiveChanged ==
  ASSUME NEW E \in [Slot -> Entry], NEW V \in SUBSET Slot, InPlace(E, V),
         NEW i \in V, NEW e, e.ref = E[i].ref
  PROVE  LET F == [E EXCEPT ![i] = e]
         IN  InPlace(F, V) /\ LiveOf(F, V) = With(LiveOf(E, V), e.ref, OrderOf(e))
PROOF
<1> DEFINE O == LiveOf(E, V)  F == [E EXCEPT ![i] = e]
<1>1. i \in Slot /\ Idx(e.ref) = i
  BY DEF InPlace
<1>2. F[i] = e /\ \A j \in V \ {i} : F[j] = E[j]
  BY <1>1
<1> HIDE DEF F
<1>3. \A j \in V : F[j].ref = E[j].ref
  BY <1>2
<1>4. InPlace(F, V)
  BY <1>3 DEF InPlace
<1>5. DOMAIN O = {E[j].ref : j \in V} /\ e.ref \in DOMAIN O
  BY DEF LiveOf
<1>6. {F[j].ref : j \in V} = DOMAIN O \cup {e.ref}
  BY <1>3, <1>5
<1>7. \A r \in DOMAIN O : Idx(r) \in V /\ E[Idx(r)].ref = r /\ O[r] = OrderOf(E[Idx(r)])
  BY LiveAt
<1>8. \A r \in DOMAIN O \cup {e.ref} :
        OrderOf(F[Idx(r)]) = IF r = e.ref THEN OrderOf(e) ELSE O[r]
  <2> SUFFICES ASSUME NEW r \in DOMAIN O \cup {e.ref}
               PROVE  OrderOf(F[Idx(r)]) = IF r = e.ref THEN OrderOf(e) ELSE O[r]
    OBVIOUS
  <2>1. CASE r = e.ref
    BY <1>1, <1>2, <2>1
  <2>2. CASE r # e.ref
    <3>1. Idx(r) \in V \ {i} /\ O[r] = OrderOf(E[Idx(r)])
      BY <1>7, <2>2
    <3> QED BY <1>2, <2>2, <3>1
  <2> QED BY <2>1, <2>2
<1>9. LiveOf(F, V) = [r \in DOMAIN O \cup {e.ref} |-> IF r = e.ref THEN OrderOf(e) ELSE O[r]]
  <2> HIDE DEF O
  <2> QED BY <1>6, <1>8 DEF LiveOf
<1> QED BY <1>4, <1>9 DEF With, F

\* The orders by reference have the depth of the orders by slot.
LEMMA LiveDepth ==
  ASSUME NEW b \in Book, InSlots(b), NEW s \in Side, NEW lv, Exact(lv, Table(b), s)
  PROVE  Orders(Live(b)) /\ Exact(lv, Live(b), s)
PROOF
<1> DEFINE V == b.entry_valid  E == b.entries  T == Table(b)  O == Live(b)
<1>1. Orders(T) /\ DOMAIN T = V /\ \A i \in V : T[i] = E[i]
  BY TableIsOrders DEF Table
<1>2. /\ \A i \in V : E[i].ref \in DOMAIN O /\ O[E[i].ref] = OrderOf(E[i])
      /\ \A r \in DOMAIN O : Idx(r) \in V /\ E[Idx(r)].ref = r /\ O[r] = OrderOf(E[Idx(r)])
  BY LiveAt DEF Live, InSlots
<1>3. \A i, j \in V : E[i].ref = E[j].ref => i = j
  BY DEF InSlots, InPlace
<1>4. ASSUME NEW i \in V
      PROVE  LET o == O[E[i].ref]
             IN  o.side = T[i].side /\ o.price = T[i].price /\ o.shares = T[i].shares
  <2>1. O[E[i].ref] = OrderOf(E[i]) /\ T[i] = E[i]
    BY <1>1, <1>2
  <2> HIDE DEF O, T, E
  <2> QED BY <2>1 DEF OrderOf
<1> HIDE DEF V, E, T, O
<1>5. IsFiniteSet(DOMAIN O)
  <2> DEFINE f == [i \in V |-> E[i].ref]
  <2>1. f \in Surjection(V, DOMAIN O)
    BY <1>2 DEF Surjection
  <2>2. IsFiniteSet(V)
    BY <1>1 DEF Orders
  <2> HIDE DEF f
  <2> QED BY <2>1, <2>2, FS_Surjection
<1>6. Orders(O)
  BY <1>1, <1>2, <1>5 DEF Orders, OrderOf
<1>7. Quoted(O, s) = Quoted(T, s)
  <2>1. \A r \in DOMAIN O : O[r].side = T[Idx(r)].side /\ O[r].price = T[Idx(r)].price
    BY <1>1, <1>2 DEF OrderOf
  <2>2. \A i \in V : O[E[i].ref].side = T[i].side /\ O[E[i].ref].price = T[i].price
    BY <1>4
  <2> QED BY <1>1, <1>2, <2>1, <2>2 DEF Quoted
<1>8. ASSUME NEW p PROVE Resting(O, s, p) = Resting(T, s, p)
  <2> DEFINE A == RestingAt(T, s, p)
             f == [i \in DOMAIN T |-> T[i].shares]
             g == [r \in DOMAIN O |-> O[r].shares]
             h == [i \in V |-> E[i].ref]
  <2>1. A \subseteq V /\ IsFiniteSet(A)
    <3>1. A \subseteq V
      BY <1>1 DEF RestingAt
    <3> QED BY <1>1, <3>1, FS_Subset DEF Orders
  <2>2. \A i \in A : f[i] \in Int
    BY <1>1, <2>1, SizeModAssumption DEF Orders, Size
  <2>3. \A i, j \in A : h[i] = h[j] => i = j
    BY <1>3, <2>1
  <2>4. \A i \in A : g[h[i]] = f[i]
    BY <1>4, <1>1, <1>2, <2>1
  <2>5. {h[i] : i \in A} = RestingAt(O, s, p)
    <3>1. \A i \in V : h[i] = E[i].ref
      OBVIOUS
    <3>2. \A i \in V : i \in A <=> T[i].side = s /\ T[i].price = p
      BY <1>1 DEF RestingAt
    <3>3. \A r : r \in RestingAt(O, s, p) <=> r \in DOMAIN O /\ O[r].side = s /\ O[r].price = p
      BY DEF RestingAt
    <3> HIDE DEF A, h
    <3>4. \A i \in A : h[i] \in RestingAt(O, s, p)
      BY <1>4, <1>1, <1>2, <2>1, <3>1, <3>2, <3>3
    <3>5. \A r \in RestingAt(O, s, p) : Idx(r) \in A /\ r = h[Idx(r)]
      BY <1>1, <1>2, <3>1, <3>2, <3>3 DEF OrderOf
    <3> QED BY <3>4, <3>5
  <2> HIDE DEF A, f, g, h
  <2>6. SumFunctionOnSet(g, {h[i] : i \in A}) = SumFunctionOnSet(f, A)
    BY <2>1, <2>2, <2>3, <2>4, SumRenamed
  <2> QED BY <2>5, <2>6 DEF Resting, A, f, g
<1>9. Exact(lv, O, s)
  BY <1>7, <1>8 DEF Exact, T
<1> QED BY <1>6, <1>9 DEF O

LEMMA LiveShownDepth ==
  ASSUME NEW b \in Book, InSlots(b), ShownExact(b), b.state # "RESCAN"
  PROVE  b.lv = Depth(Live(b))
PROOF
<1>1. ASSUME NEW s \in Side PROVE b.lv[s] = DepthOf(Live(b), s)
  <2>1. Exact(b.lv[s], Table(b), s) /\ b.lv[s] \in Ladder
    BY BookFields DEF ShownExact
  <2>2. Orders(Live(b)) /\ Exact(b.lv[s], Live(b), s)
    BY <2>1, LiveDepth
  <2> QED BY <2>1, <2>2, ExactIsDepth
<1>2. b.lv = [s \in Side |-> b.lv[s]]
  BY BookFields
<1> QED BY <1>1, <1>2 DEF Depth

-----------------------------------------------------------------------------
(* What the refinement needs besides: orders are in the slots of their        *)
(* references, at prices of the feed, and the message that is looked up is    *)
(* one of the feed that will find the slot of its new order free.             *)
Kept(b) == /\ InSlots(b)
           /\ \A i \in b.entry_valid : b.entries[i].price \in Prices
           /\ b.state = "LOOKUP" => b.m \in LookupMessages /\ SlotFree(b, b.m)

\* The fields of a message that is looked up.
LEMMA LookupMessage ==
  ASSUME NEW msg \in LookupMessages
  PROVE  /\ msg.type \in LookupTypes /\ msg.ref \in Refs /\ msg.nref \in Refs
         /\ msg.shares \in Size /\ msg.price \in Prices \cup {0}
         /\ msg.type = "U" => msg.price \in Prices
PROOF
<1>1. 0 \in Size
  BY SizeModAssumption DEF Size
<1> QED BY <1>1, FeedAssumption
        DEF LookupMessages, Msg, LookupTypes, ReduceTypes

LEMMA AddMessage ==
  ASSUME NEW msg \in AddMessages
  PROVE  /\ msg.type \in AddTypes /\ msg.ref \in Refs /\ msg.side \in Side
         /\ msg.shares \in Size /\ msg.price \in Prices
PROOF BY FeedAssumption DEF AddMessages, Msg

\* What the edit of an order leaves of a book.
LEMMA EditFields ==
  ASSUME NEW b, BookInv(b), b.state = "LOOKUP"
  PROVE  LET i == Idx(b.m.ref)
             n == Idx(b.m.nref)
             e == [b.rd_data EXCEPT !.shares = @ - b.m.shares]
             f == [ref |-> b.m.nref, side |-> b.rd_data.side,
                   price |-> b.m.price, shares |-> b.m.shares]
         IN  /\ \A c \in {MissEdge(b), ReduceEdge(b), DeleteEdge(b), ReplaceEdge(b)} :
                  c.lv = b.lv /\ c.state \in {"IDLE", "RESCAN"}
             /\ MissEdge(b).entries = b.entries /\ MissEdge(b).entry_valid = b.entry_valid
             /\ MissEdge(b).state = "IDLE"
             /\ b.rd_data.shares > b.m.shares =>
                  /\ ReduceEdge(b).entries = [b.entries EXCEPT ![i] = e]
                  /\ ReduceEdge(b).entry_valid = b.entry_valid
             /\ ~(b.rd_data.shares > b.m.shares) => ReduceEdge(b) = DeleteEdge(b)
             /\ DeleteEdge(b).entries = b.entries
             /\ DeleteEdge(b).entry_valid = b.entry_valid \ {i}
             /\ ReplaceEdge(b).entries = [b.entries EXCEPT ![n] = f]
             /\ ReplaceEdge(b).entry_valid = (b.entry_valid \ {i}) \cup {n}
PROOF
<1> DEFINE i == Idx(b.m.ref)
           n == Idx(b.m.nref)
           e == [b.rd_data EXCEPT !.shares = @ - b.m.shares]
           f == [ref |-> b.m.nref, side |-> b.rd_data.side,
                 price |-> b.m.price, shares |-> b.m.shares]
           r == Reread(b)
<1>1. /\ r \in Book /\ r.entries = b.entries /\ r.entry_valid = b.entry_valid
      /\ r.lv = b.lv
  BY RereadType DEF BookInv
<1> HIDE DEF i, n, e, f, r
<1>2. ASSUME NEW E
      PROVE  LET d == [r EXCEPT !.entries = E]
             IN  /\ AfterEdit(b, d).entries = E
                 /\ AfterEdit(b, d).entry_valid = b.entry_valid
                 /\ AfterEdit(b, d).lv = b.lv /\ AfterEdit(b, d).state \in {"IDLE", "RESCAN"}
  BY <1>1 DEF AfterEdit, StartRescan, Book
<1>3. ASSUME NEW V
      PROVE  LET d == [r EXCEPT !.entry_valid = V]
             IN  /\ AfterEdit(b, d).entries = b.entries
                 /\ AfterEdit(b, d).entry_valid = V
                 /\ AfterEdit(b, d).lv = b.lv /\ AfterEdit(b, d).state \in {"IDLE", "RESCAN"}
  BY <1>1 DEF AfterEdit, StartRescan, Book
<1>4. /\ MissEdge(b).entries = b.entries /\ MissEdge(b).entry_valid = b.entry_valid
      /\ MissEdge(b).state = "IDLE" /\ MissEdge(b).lv = b.lv
  BY <1>1 DEF MissEdge, r, Book
<1>5. /\ DeleteEdge(b).entries = b.entries /\ DeleteEdge(b).entry_valid = b.entry_valid \ {i}
      /\ DeleteEdge(b).lv = b.lv /\ DeleteEdge(b).state \in {"IDLE", "RESCAN"}
  <2> DEFINE V == b.entry_valid \ {i}
  <2>1. DeleteEdge(b) = AfterEdit(b, [r EXCEPT !.entry_valid = V])
    BY <1>1 DEF DeleteEdge, r, i
  <2> DEFINE c == AfterEdit(b, [r EXCEPT !.entry_valid = V])
  <2> HIDE DEF V
  <2>2. /\ c.entries = b.entries /\ c.entry_valid = V
        /\ c.lv = b.lv /\ c.state \in {"IDLE", "RESCAN"}
    BY <1>3
  <2>3. DeleteEdge(b) = c
    BY <2>1
  <2> HIDE DEF c
  <2>4. /\ DeleteEdge(b).entries = b.entries /\ DeleteEdge(b).entry_valid = V
        /\ DeleteEdge(b).lv = b.lv /\ DeleteEdge(b).state \in {"IDLE", "RESCAN"}
    BY <2>2, <2>3
  <2> QED BY <2>4 DEF V
<1>6. ~(b.rd_data.shares > b.m.shares) => ReduceEdge(b) = DeleteEdge(b)
  BY DEF ReduceEdge, DeleteEdge
<1>7. ASSUME b.rd_data.shares > b.m.shares
      PROVE  /\ ReduceEdge(b).entries = [b.entries EXCEPT ![i] = e]
             /\ ReduceEdge(b).entry_valid = b.entry_valid
             /\ ReduceEdge(b).lv = b.lv /\ ReduceEdge(b).state \in {"IDLE", "RESCAN"}
  <2> DEFINE E == [b.entries EXCEPT ![i] = e]
  <2>1. ReduceEdge(b) = AfterEdit(b, [r EXCEPT !.entries = E])
    BY <1>1, <1>7 DEF ReduceEdge, r, i, e
  <2> DEFINE c == AfterEdit(b, [r EXCEPT !.entries = E])
  <2> HIDE DEF E
  <2>2. /\ c.entries = E /\ c.entry_valid = b.entry_valid
        /\ c.lv = b.lv /\ c.state \in {"IDLE", "RESCAN"}
    BY <1>2
  <2>3. ReduceEdge(b) = c
    BY <2>1
  <2> HIDE DEF c
  <2>4. /\ ReduceEdge(b).entries = E /\ ReduceEdge(b).entry_valid = b.entry_valid
        /\ ReduceEdge(b).lv = b.lv /\ ReduceEdge(b).state \in {"IDLE", "RESCAN"}
    BY <2>2, <2>3
  <2> QED BY <2>4 DEF E
<1>8. /\ ReplaceEdge(b).entries = [b.entries EXCEPT ![n] = f]
      /\ ReplaceEdge(b).entry_valid = (b.entry_valid \ {i}) \cup {n}
      /\ ReplaceEdge(b).lv = b.lv /\ ReplaceEdge(b).state = "RESCAN"
  BY <1>1 DEF ReplaceEdge, StartRescan, r, i, n, f, Book
<1>9. \A c \in {MissEdge(b), ReduceEdge(b), DeleteEdge(b), ReplaceEdge(b)} :
        c.lv = b.lv /\ c.state \in {"IDLE", "RESCAN"}
  BY <1>4, <1>5, <1>6, <1>7, <1>8
<1> QED BY <1>4, <1>5, <1>6, <1>7, <1>8, <1>9 DEF i, n, e, f

\* An edit keeps the orders in their slots, and changes the order it names.
LEMMA EditLive ==
  ASSUME NEW b, BookInv(b), b.state = "LOOKUP", Kept(b)
  PROVE  LET O == Live(b)
             o == O[b.m.ref]
         IN  /\ b.m.ref \in DOMAIN O <=> lk_match(b)
             /\ Kept(MissEdge(b)) /\ Live(MissEdge(b)) = O
             /\ lk_match(b) =>
                  /\ o = OrderOf(b.rd_data)
                  /\ Kept(ReduceEdge(b)) /\ Kept(DeleteEdge(b))
                  /\ Live(DeleteEdge(b)) = Without(O, b.m.ref)
                  /\ Live(ReduceEdge(b)) =
                       IF o.shares > b.m.shares
                       THEN With(O, b.m.ref, [o EXCEPT !.shares = @ - b.m.shares])
                       ELSE Without(O, b.m.ref)
             /\ lk_match(b) /\ b.m.type = "U" =>
                  /\ Kept(ReplaceEdge(b))
                  /\ Live(ReplaceEdge(b)) =
                       With(Without(O, b.m.ref), b.m.nref,
                         [side |-> o.side, price |-> b.m.price, shares |-> b.m.shares])
PROOF
<1> DEFINE i == Idx(b.m.ref)
           n == Idx(b.m.nref)
           e == [b.rd_data EXCEPT !.shares = @ - b.m.shares]
           f == [ref |-> b.m.nref, side |-> b.rd_data.side,
                 price |-> b.m.price, shares |-> b.m.shares]
           E == b.entries
           V == b.entry_valid
           O == Live(b)
           o == O[b.m.ref]
<1>1. /\ b \in Book /\ E \in [Slot -> Entry] /\ V \in SUBSET Slot /\ InPlace(E, V)
      /\ b.rd_data = E[i] /\ b.m \in LookupMessages /\ SlotFree(b, b.m)
      /\ \A j \in V : E[j].price \in Prices
  BY BookFields DEF BookInv, LookupFresh, Kept, InSlots
<1>2. /\ b.m.ref \in Nat /\ b.m.nref \in Nat /\ i \in Slot /\ n \in Slot
      /\ b.rd_data \in Entry
      /\ b.m.type = "U" => b.m.price \in Prices
  BY <1>1, LookupMessage, IdxInSlot, FeedAssumption
<1>3. /\ O = LiveOf(E, V)
      /\ \A j \in V : E[j].ref \in DOMAIN O /\ O[E[j].ref] = OrderOf(E[j])
      /\ \A r \in DOMAIN O : Idx(r) \in V /\ E[Idx(r)].ref = r
  BY <1>1, LiveAt DEF Live
<1>4. b.m.ref \in DOMAIN O <=> lk_match(b)
  BY <1>1, <1>3 DEF lk_match
<1>5. /\ \A c \in {MissEdge(b), ReduceEdge(b), DeleteEdge(b), ReplaceEdge(b)} :
           c.state # "LOOKUP"
      /\ MissEdge(b).entries = E /\ MissEdge(b).entry_valid = V
      /\ b.rd_data.shares > b.m.shares =>
           ReduceEdge(b).entries = [E EXCEPT ![i] = e] /\ ReduceEdge(b).entry_valid = V
      /\ ~(b.rd_data.shares > b.m.shares) => ReduceEdge(b) = DeleteEdge(b)
      /\ DeleteEdge(b).entries = E /\ DeleteEdge(b).entry_valid = V \ {i}
      /\ ReplaceEdge(b).entries = [E EXCEPT ![n] = f]
      /\ ReplaceEdge(b).entry_valid = (V \ {i}) \cup {n}
  BY EditFields
<1>6. ASSUME lk_match(b)
      PROVE  i \in V /\ E[i].ref = b.m.ref /\ o = OrderOf(b.rd_data)
  BY <1>1, <1>3, <1>6 DEF lk_match
<1>7. e.ref = b.rd_data.ref /\ e.price = b.rd_data.price
      /\ OrderOf(e) = [OrderOf(b.rd_data) EXCEPT !.shares = @ - b.m.shares]
      /\ OrderOf(b.rd_data).shares = b.rd_data.shares
      /\ OrderOf(b.rd_data).side = b.rd_data.side
  BY <1>2 DEF OrderOf, Entry
<1>8. /\ f.ref = b.m.nref /\ f.price = b.m.price
      /\ OrderOf(f) = [side |-> b.rd_data.side, price |-> b.m.price, shares |-> b.m.shares]
  BY DEF OrderOf
<1> HIDE DEF i, n, e, f, E, V, O
<1>9. Kept(MissEdge(b)) /\ Live(MissEdge(b)) = O
  BY <1>1, <1>3, <1>5 DEF Kept, InSlots, Live
<1>10. ASSUME lk_match(b)
       PROVE  Kept(DeleteEdge(b)) /\ Live(DeleteEdge(b)) = Without(O, b.m.ref)
  <2>1. /\ InPlace(E, V \ {i})
        /\ LiveOf(E, V \ {i}) = Without(O, b.m.ref)
    <3>1. InPlace(E, V) /\ i \in V /\ E[i].ref = b.m.ref /\ O = LiveOf(E, V)
      BY <1>1, <1>3, <1>6, <1>10
    <3>2. /\ InPlace(E, V \ {i})
          /\ LiveOf(E, V \ {i}) = Without(LiveOf(E, V), E[i].ref)
      BY <3>1, LiveWithout
    <3> QED BY <3>1, <3>2
  <2> QED BY <1>1, <1>5, <2>1 DEF Kept, InSlots, Live
<1>11. ASSUME lk_match(b), b.rd_data.shares > b.m.shares
       PROVE  /\ Kept(ReduceEdge(b))
              /\ Live(ReduceEdge(b)) =
                   With(O, b.m.ref, [o EXCEPT !.shares = @ - b.m.shares])
  <2>1. i \in V /\ e.ref = E[i].ref /\ e.ref = b.m.ref
    BY <1>1, <1>6, <1>7, <1>11
  <2>2. /\ InPlace([E EXCEPT ![i] = e], V)
        /\ LiveOf([E EXCEPT ![i] = e], V) = With(O, b.m.ref, OrderOf(e))
    <3>1. E \in [Slot -> Entry] /\ V \in SUBSET Slot /\ InPlace(E, V) /\ O = LiveOf(E, V)
      BY <1>1, <1>3
    <3>2. i \in V /\ e.ref = E[i].ref
      BY <2>1
    <3>3. /\ InPlace([E EXCEPT ![i] = e], V)
          /\ LiveOf([E EXCEPT ![i] = e], V) = With(LiveOf(E, V), e.ref, OrderOf(e))
      BY <3>1, <3>2, LiveChanged
    <3> QED BY <2>1, <3>1, <3>3
  <2>3. \A j \in V : [E EXCEPT ![i] = e][j].price \in Prices
    BY <1>1, <1>7, <2>1
  <2>4. OrderOf(e) = [o EXCEPT !.shares = @ - b.m.shares]
    BY <1>6, <1>7, <1>11
  <2> QED BY <1>5, <1>11, <2>2, <2>3, <2>4 DEF Kept, InSlots, Live
<1>12. ASSUME lk_match(b), ~(b.rd_data.shares > b.m.shares)
       PROVE  Kept(ReduceEdge(b)) /\ Live(ReduceEdge(b)) = Without(O, b.m.ref)
  BY <1>5, <1>10, <1>12
<1>13. ASSUME lk_match(b), b.m.type = "U"
       PROVE  /\ Kept(ReplaceEdge(b))
              /\ Live(ReplaceEdge(b)) =
                   With(Without(O, b.m.ref), b.m.nref,
                     [side |-> o.side, price |-> b.m.price, shares |-> b.m.shares])
  <2> DEFINE W == V \ {i}  F == [E EXCEPT ![n] = f]
  <2>1. /\ InPlace(E, W) /\ LiveOf(E, W) = Without(O, b.m.ref)
    <3>1. InPlace(E, V) /\ i \in V /\ E[i].ref = b.m.ref /\ O = LiveOf(E, V)
      BY <1>1, <1>3, <1>6, <1>13
    <3>2. InPlace(E, W) /\ LiveOf(E, W) = Without(LiveOf(E, V), E[i].ref)
      BY <3>1, LiveWithout
    <3> QED BY <3>1, <3>2
  <2>2. n \notin W
    BY <1>1, <1>13, SMT DEF SlotFree, AddTypes, i, n, V
  <2>3. f.ref \in Nat /\ Idx(f.ref) = n
    BY <1>2, <1>8 DEF n
  <2>4. W \in SUBSET Slot
    BY <1>1
  <2> HIDE DEF W
  <2>5. /\ InPlace(F, W \cup {n})
        /\ LiveOf(F, W \cup {n}) = With(LiveOf(E, W), f.ref, OrderOf(f))
    <3> DEFINE F2 == [E EXCEPT ![Idx(f.ref)] = f]  W2 == W \cup {Idx(f.ref)}
    <3>1. /\ E \in [Slot -> Entry] /\ W \in SUBSET Slot /\ InPlace(E, W)
          /\ f.ref \in Nat /\ Idx(f.ref) \notin W
      BY <1>1, <2>1, <2>2, <2>3, <2>4
    <3>2. /\ InPlace(F2, W2)
          /\ LiveOf(F2, W2) = With(LiveOf(E, W), f.ref, OrderOf(f))
      BY <3>1, LiveWith
    <3>3. F2 = F /\ W2 = W \cup {n}
      BY <2>3
    <3> HIDE DEF F, F2, W2
    <3> QED BY <3>2, <3>3
  <2>6. \A j \in W \cup {n} : F[j].price \in Prices
    BY <1>1, <1>2, <1>8, <1>13 DEF W
  <2>7. OrderOf(f) = [side |-> o.side, price |-> b.m.price, shares |-> b.m.shares]
    BY <1>6, <1>7, <1>8, <1>13
  <2>8. ReplaceEdge(b).entries = F /\ ReplaceEdge(b).entry_valid = W \cup {n}
    BY <1>5 DEF W
  <2> HIDE DEF F
  <2>9. Kept(ReplaceEdge(b))
    BY <1>5, <2>5, <2>6, <2>8 DEF Kept, InSlots
  <2>10. Live(ReplaceEdge(b)) = With(Without(O, b.m.ref), b.m.nref, OrderOf(f))
    BY <1>8, <2>1, <2>5, <2>8 DEF Live
  <2> QED BY <2>7, <2>9, <2>10
<1> HIDE DEF o
<1>14. lk_match(b) => o.shares = b.rd_data.shares
  BY <1>6, <1>7
<1> QED BY <1>4, <1>6, <1>9, <1>10, <1>11, <1>12, <1>13, <1>14 DEF O, o

\* An add puts a new order in a free slot.
LEMMA AddLive ==
  ASSUME NEW b, BookInv(b), Kept(b), b.state = "IDLE",
         NEW msg \in AddMessages, Idx(msg.ref) \notin b.entry_valid
  PROVE  LET c == AddEdge(b, msg)
         IN  /\ Kept(c) /\ c.state = "IDLE" /\ msg.ref \notin DOMAIN Live(b)
             /\ Live(c) = With(Live(b), msg.ref,
                            [side |-> msg.side, price |-> msg.price, shares |-> msg.shares])
PROOF
<1> DEFINE E == b.entries
           V == b.entry_valid
           e == EntryOf(msg)
           c == AddEdge(b, msg)
           i == Idx(msg.ref)
<1>1. /\ b \in Book /\ E \in [Slot -> Entry] /\ V \in SUBSET Slot /\ InPlace(E, V)
      /\ \A j \in V : E[j].price \in Prices
  BY BookFields DEF BookInv, Kept, InSlots
<1>2. msg \in Message /\ msg.ref \in Nat /\ msg.price \in Prices /\ i \in Slot
  BY AddMessage, FeedMessages, FeedAssumption, IdxInSlot
<1>3. /\ e.ref = msg.ref /\ e.price = msg.price
      /\ OrderOf(e) = [side |-> msg.side, price |-> msg.price, shares |-> msg.shares]
  BY DEF EntryOf, OrderOf
<1>4. /\ Latched(b, msg) \in Book /\ Latched(b, msg).entries = E
      /\ Latched(b, msg).entry_valid = V /\ Latched(b, msg).state = "IDLE"
  BY <1>1, <1>2 DEF Latched, Book
<1>5. c.entries = [E EXCEPT ![i] = e] /\ c.entry_valid = V \cup {i} /\ c.state = "IDLE"
  <2> DEFINE L == Latched(b, msg)
  <2> HIDE DEF L
  <2>1. L \in Book /\ L.entries = E /\ L.entry_valid = V /\ L.state = "IDLE"
    BY <1>4 DEF L
  <2>2. c = [L EXCEPT !.entries[i] = e, !.entry_valid = @ \cup {i},
                      !.lv = Inserted(@, msg.side, msg.price, msg.shares)]
    BY DEF AddEdge, L
  <2> HIDE DEF c, i, e, E, V
  <2> QED BY <2>1, <2>2 DEF Book
<1> HIDE DEF E, V, e, c
<1>6. i = Idx(e.ref) /\ i \notin V
  BY <1>3 DEF V
<1> HIDE DEF i
<1>7. /\ InPlace([E EXCEPT ![i] = e], V \cup {i}) /\ e.ref \notin DOMAIN LiveOf(E, V)
      /\ LiveOf([E EXCEPT ![i] = e], V \cup {i}) = With(LiveOf(E, V), e.ref, OrderOf(e))
  BY <1>1, <1>2, <1>3, <1>6, LiveWith, FeedAssumption
<1>8. \A j \in V \cup {i} : [E EXCEPT ![i] = e][j].price \in Prices
  BY <1>1, <1>2, <1>3
<1>9. Live(b) = LiveOf(E, V)
  BY DEF Live, E, V
<1>10. Kept(c)
  BY <1>5, <1>7, <1>8 DEF Kept, InSlots
<1>11. Live(c) = LiveOf([E EXCEPT ![i] = e], V \cup {i})
  BY <1>5 DEF Live
<1>12. /\ msg.ref \notin DOMAIN Live(b)
       /\ Live(c) = With(Live(b), msg.ref,
                      [side |-> msg.side, price |-> msg.price, shares |-> msg.shares])
  BY <1>3, <1>7, <1>9, <1>11
<1> QED BY <1>5, <1>10, <1>12 DEF c

\* The edges that leave the table as it is.
LEMMA SameLive ==
  ASSUME NEW b, BookInv(b), Kept(b)
  PROVE  /\ \A msg \in Message :
              /\ IgnoreEdge(b, msg).lv = b.lv /\ IgnoreEdge(b, msg).state = b.state
              /\ Live(IgnoreEdge(b, msg)) = Live(b)
              /\ b.state = "IDLE" => Kept(IgnoreEdge(b, msg))
              /\ ReadEdge(b, msg).lv = b.lv /\ ReadEdge(b, msg).state = "LOOKUP"
              /\ ReadEdge(b, msg).m = msg /\ Live(ReadEdge(b, msg)) = Live(b)
              /\ msg \in LookupMessages /\ SlotFree(b, msg) => Kept(ReadEdge(b, msg))
         /\ /\ ScanEdge(b).lv = b.lv /\ ScanEdge(b).state = b.state
            /\ Live(ScanEdge(b)) = Live(b)
            /\ b.state = "RESCAN" => Kept(ScanEdge(b))
         /\ /\ CommitEdge(b).state = "IDLE" /\ Live(CommitEdge(b)) = Live(b)
            /\ Kept(CommitEdge(b))
         /\ /\ ResetEdge(b).lv = EmptyLevels /\ ResetEdge(b).state = "IDLE"
            /\ Live(ResetEdge(b)) = NoOrders
            /\ Kept(ResetEdge(b))
PROOF
<1>1. b \in Book /\ InSlots(b) /\ \A i \in b.entry_valid : b.entries[i].price \in Prices
  BY DEF BookInv, Kept
<1>2. ASSUME NEW c, c.entries = b.entries, c.entry_valid = b.entry_valid
      PROVE  /\ Live(c) = Live(b)
             /\ c.state # "LOOKUP" => Kept(c)
             /\ c.state = "LOOKUP" /\ c.m \in LookupMessages /\ SlotFree(b, c.m) => Kept(c)
  BY <1>1, <1>2 DEF Live, Kept, InSlots, SlotFree
<1>3. ASSUME NEW msg \in Message
      PROVE  /\ IgnoreEdge(b, msg).lv = b.lv /\ IgnoreEdge(b, msg).state = b.state
             /\ Live(IgnoreEdge(b, msg)) = Live(b)
             /\ b.state = "IDLE" => Kept(IgnoreEdge(b, msg))
             /\ ReadEdge(b, msg).lv = b.lv /\ ReadEdge(b, msg).state = "LOOKUP"
             /\ ReadEdge(b, msg).m = msg /\ Live(ReadEdge(b, msg)) = Live(b)
             /\ msg \in LookupMessages /\ SlotFree(b, msg) => Kept(ReadEdge(b, msg))
  <2>1. /\ IgnoreEdge(b, msg).entries = b.entries
        /\ IgnoreEdge(b, msg).entry_valid = b.entry_valid
        /\ IgnoreEdge(b, msg).lv = b.lv /\ IgnoreEdge(b, msg).state = b.state
    BY <1>1 DEF IgnoreEdge, Latched, Book
  <2>2. /\ ReadEdge(b, msg).entries = b.entries
        /\ ReadEdge(b, msg).entry_valid = b.entry_valid
        /\ ReadEdge(b, msg).lv = b.lv /\ ReadEdge(b, msg).state = "LOOKUP"
        /\ ReadEdge(b, msg).m = msg
    BY <1>1 DEF ReadEdge, Latched, Book
  <2> QED BY <1>2, <2>1, <2>2
<1>4. /\ ScanEdge(b).lv = b.lv /\ ScanEdge(b).state = b.state
      /\ Live(ScanEdge(b)) = Live(b)
      /\ b.state = "RESCAN" => Kept(ScanEdge(b))
  <2>1. /\ ScanEdge(b).entries = b.entries /\ ScanEdge(b).entry_valid = b.entry_valid
        /\ ScanEdge(b).lv = b.lv /\ ScanEdge(b).state = b.state
    BY <1>1 DEF ScanEdge, Book
  <2> QED BY <1>2, <2>1
<1>5. CommitEdge(b).state = "IDLE" /\ Live(CommitEdge(b)) = Live(b) /\ Kept(CommitEdge(b))
  <2>1. /\ CommitEdge(b).entries = b.entries /\ CommitEdge(b).entry_valid = b.entry_valid
        /\ CommitEdge(b).state = "IDLE"
    BY <1>1 DEF CommitEdge, Book
  <2> QED BY <1>2, <2>1
<1>6. /\ ResetEdge(b).lv = EmptyLevels /\ ResetEdge(b).state = "IDLE"
      /\ Live(ResetEdge(b)) = NoOrders /\ Kept(ResetEdge(b))
  <2>1. /\ ResetEdge(b).entries = b.entries /\ ResetEdge(b).entry_valid = {}
        /\ ResetEdge(b).lv = EmptyLevels /\ ResetEdge(b).state = "IDLE"
    BY <1>1 DEF ResetEdge, Book
  <2>2. Live(ResetEdge(b)) = [x \in {} |-> x]
    BY <2>1 DEF Live, LiveOf
  <2> QED BY <2>1, <2>2 DEF Kept, InSlots, InPlace, NoOrders
<1> QED BY <1>3, <1>4, <1>5, <1>6
=============================================================================
