----------------------------- MODULE PriceLevels -----------------------------
(* The price ladder that order_book_m2.sv caches for each side of the book    *)
(* (book_side_t and side_insert).  The RTL keeps NLEVELS price lanes, NLEVELS *)
(* size lanes and a count; only the first cnt lanes are ever looked at, so a  *)
(* ladder is a sequence of at most NLevels levels, best price first.          *)
EXTENDS Integers, Sequences

CONSTANTS NLevels,   \* order_book_m2's NLEVELS
          SizeMod    \* sizes are registers of this many values (2^32 in the RTL)

ASSUME NLevelsAssumption == NLevels \in Nat \ {0}
ASSUME SizeModAssumption == SizeMod \in Nat \ {0}

Side  == {"bid", "ask"}
Size  == 0 .. SizeMod - 1
Level == [price : Nat, size : Size]

\* What the lanes of one side can hold.
Ladder == {lv \in Seq(Level) : Len(lv) <= NLevels}

\* The empty cache of both sides.
EmptyLevels == [s \in Side |-> << >>]

\* p has priority over q on side s: a higher bid, a lower ask.
Better(s, p, q) == IF s = "bid" THEN p > q ELSE p < q

\* The first element of a set of positions.
FirstOf(I) == CHOOSE i \in I : \A j \in I : i <= j

\* Positions of ladder lv that hold price p, and that p would push down.
Matching(lv, p)  == {i \in 1 .. Len(lv) : lv[i].price = p}
Beaten(lv, s, p) == {i \in 1 .. Len(lv) : Better(s, p, lv[i].price)}

\* Mutant: a newcomer is always appended after the levels already shown.
InsertPosTail(lv, s, p) == Len(lv) + 1

\* Where the RTL inserts price p: before the first level it beats, else last.
InsertPos(lv, s, p) ==
  IF Beaten(lv, s, p) = {} THEN Len(lv) + 1 ELSE FirstOf(Beaten(lv, s, p))

\* Mutant: the last level is not pushed off a full ladder.
ShiftedGrows(lv, k, new) ==
  [i \in 1 .. Len(lv) + 1 |->
     IF i < k THEN lv[i] ELSE IF i = k THEN new ELSE lv[i - 1]]

\* The ladder with a level inserted at k, the last one pushed off a full ladder.
Shifted(lv, k, new) ==
  [i \in 1 .. (IF Len(lv) < NLevels THEN Len(lv) + 1 ELSE Len(lv)) |->
     IF i < k THEN lv[i] ELSE IF i = k THEN new ELSE lv[i - 1]]

(* side_insert: size is added to the level of that price if it is shown, with *)
(* the carry out of the register lost; otherwise a new level is inserted,     *)
(* unless it would come after the last lane.                                  *)
side_insert(lv, s, p, q) ==
  IF Matching(lv, p) # {}
  THEN [lv EXCEPT ![FirstOf(Matching(lv, p))].size = (@ + q) % SizeMod]
  ELSE IF InsertPos(lv, s, p) <= NLevels
       THEN Shifted(lv, InsertPos(lv, s, p), [price |-> p, size |-> q])
       ELSE lv

\* The pair of ladders L with an order put on side t.
Inserted(L, t, p, q) == [L EXCEPT ![t] = side_insert(@, t, p, q)]

-----------------------------------------------------------------------------
(* What the correctness of a ladder is stated with. *)

\* Strictly improving prices from last to first: no price shown twice.
Sorted(lv, s) ==
  \A i, j \in 1 .. Len(lv) : i < j => Better(s, lv[i].price, lv[j].price)

\* Price p is shown, or every lane is taken by a better price.
Covered(lv, s, p) ==
  \/ \E i \in 1 .. Len(lv) : lv[i].price = p
  \/ Len(lv) = NLevels /\ \A i \in 1 .. NLevels : Better(s, lv[i].price, p)
=============================================================================
