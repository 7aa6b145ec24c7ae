----------------------------- MODULE FoldProofs -----------------------------
(***************************************************************************)
(* What a fold over a finite set keeps: an induction on the elements that  *)
(* were taken.  Op is the operator that is folded, Pick the element a step *)
(* takes last, and Good(seen, acc) what is to hold of an accumulator acc   *)
(* that has taken the elements seen.  A module that folds instantiates     *)
(* this one with its own.                                                  *)
(***************************************************************************)
EXTENDS Integers, SequencesExt, FiniteSetTheorems, WellFoundedInduction, TLAPS

CONSTANTS Op(_, _), Pick(_), Good(_, _)

(* The function MapThenFoldSet applies: iter[s] has taken the elements of s.*)
Iterates(iter, S, f, base) ==
    iter = [s \in SUBSET S |-> IF s = {} THEN base ELSE Op(iter[s \ {Pick(s)}], f[Pick(s)])]

Picks(S) == \A s \in SUBSET S : s # {} => Pick(s) \in s

-----------------------------------------------------------------------------
LEMMA LeastNatural ==
    ASSUME NEW T \in SUBSET Nat, T # {}
    PROVE  \E x \in T : \A y \in T : x <= y
<1>. DEFINE R == {p \in Nat \X Nat : p[1] < p[2]}
<1>1. IsWellFoundedOn(R, Nat)
  BY NatLessThanWellFounded DEF OpToRel
<1>2. PICK x \in T : \A y \in T : <<y, x>> \notin R
  <2>. HIDE DEF R
  <2>. QED
    BY <1>1, WFMin
<1>3. ASSUME NEW y \in T PROVE x <= y
  <2>1. <<y, x>> \in Nat \X Nat /\ x \in Nat /\ y \in Nat
    OBVIOUS
  <2>2. ~(<<y, x>>[1] < <<y, x>>[2])
    BY <1>2, <2>1
  <2>. QED
    BY <2>1, <2>2
<1>. QED
  BY <1>3

(* A fold is begun for the sets of up to n elements, for n and n + 1.      *)
Begun(S, f, base, n) ==
    \E g : g = [s \in {s \in SUBSET S : Cardinality(s) <= n} |->
                   IF s = {} THEN base ELSE Op(g[s \ {Pick(s)}], f[Pick(s)])]

LEMMA OneFewer ==
    ASSUME NEW S, IsFiniteSet(S), Picks(S), NEW s \in SUBSET S, s # {}
    PROVE  /\ s \ {Pick(s)} \in SUBSET S /\ Pick(s) \in S
           /\ Cardinality(s) \in Nat /\ Cardinality(s \ {Pick(s)}) = Cardinality(s) - 1
<1>1. IsFiniteSet(s) /\ Pick(s) \in s
  BY FS_Subset DEF Picks
<1>. QED
  BY <1>1, FS_CardinalityType, FS_RemoveElement

LEMMA OneMore ==
    ASSUME NEW S, IsFiniteSet(S), Picks(S), NEW f, NEW base, NEW n \in Nat, Begun(S, f, base, n)
    PROVE  Begun(S, f, base, n + 1)
<1>. DEFINE Dom(m) == {s \in SUBSET S : Cardinality(s) <= m}
<1>1. PICK g : g = [s \in Dom(n) |-> IF s = {} THEN base ELSE Op(g[s \ {Pick(s)}], f[Pick(s)])]
  BY DEF Begun
<1>. DEFINE h == [s \in Dom(n + 1) |-> IF s = {} THEN base ELSE Op(g[s \ {Pick(s)}], f[Pick(s)])]
<1>2. ASSUME NEW s \in Dom(n + 1), s # {}
      PROVE  s \ {Pick(s)} \in Dom(n) /\ s \ {Pick(s)} \in Dom(n + 1)
  BY <1>2, OneFewer
<1>3. ASSUME NEW s \in Dom(n) PROVE h[s] = g[s]
  <2>1. IsFiniteSet(s)
    BY FS_Subset
  <2>2. Cardinality(s) \in Nat
    BY <2>1, FS_CardinalityType
  <2>3. s \in Dom(n + 1)
    BY <2>2
  <2>4. g[s] = IF s = {} THEN base ELSE Op(g[s \ {Pick(s)}], f[Pick(s)])
    BY <1>1
  <2>. QED
    BY <2>3, <2>4
<1>4. ASSUME NEW s \in Dom(n + 1)
      PROVE  h[s] = IF s = {} THEN base ELSE Op(h[s \ {Pick(s)}], f[Pick(s)])
  BY <1>2, <1>3
<1>. HIDE DEF h
<1>5. h = [s \in Dom(n + 1) |-> h[s]]
  BY DEF h
<1>6. h = [s \in Dom(n + 1) |-> IF s = {} THEN base ELSE Op(h[s \ {Pick(s)}], f[Pick(s)])]
  BY <1>4, <1>5
<1>. QED
  BY <1>6 DEF Begun

(* A fold has a result, the function MapThenFoldSet chooses exists.        *)
LEMMA FoldExists ==
    ASSUME NEW S, IsFiniteSet(S), Picks(S), NEW f, NEW base
    PROVE  \E iter : Iterates(iter, S, f, base)
<1>1. Begun(S, f, base, 0)
  <2>1. \A s \in SUBSET S : Cardinality(s) <= 0 <=> s = {}
    BY FS_Subset, FS_EmptySet, FS_CardinalityType
  <2>2. [s \in {{}} |-> base] = [s \in {s \in SUBSET S : Cardinality(s) <= 0} |->
           IF s = {} THEN base ELSE Op([t \in {{}} |-> base][s \ {Pick(s)}], f[Pick(s)])]
    BY <2>1
  <2>. QED
    BY <2>2 DEF Begun
<1>2. \A n \in Nat : Begun(S, f, base, n)
  <2>. SUFFICES ASSUME {n \in Nat : ~Begun(S, f, base, n)} # {} PROVE FALSE
    OBVIOUS
  <2>1. PICK m \in {n \in Nat : ~Begun(S, f, base, n)} :
               \A n \in {n \in Nat : ~Begun(S, f, base, n)} : m <= n
    BY LeastNatural
  <2>2. m # 0 /\ m - 1 \in Nat /\ (m - 1) + 1 = m
    BY <1>1, <2>1
  <2>3. Begun(S, f, base, m - 1)
    BY <2>1, <2>2
  <2>. QED
    BY <2>1, <2>2, <2>3, OneMore
<1>3. Cardinality(S) \in Nat /\ \A s \in SUBSET S : Cardinality(s) <= Cardinality(S)
  BY FS_CardinalityType, FS_Subset
<1>4. {s \in SUBSET S : Cardinality(s) <= Cardinality(S)} = SUBSET S
  BY <1>3
<1>5. Begun(S, f, base, Cardinality(S))
  BY <1>2, <1>3
<1>. QED
  BY <1>4, <1>5 DEF Begun, Iterates

(* What holds of the base, and is kept by each turn whatever the elements  *)
(* taken before, holds of the result.                                      *)
THEOREM FoldKeeps ==
    ASSUME NEW S, IsFiniteSet(S), Picks(S), NEW f, NEW base,
           NEW iter, Iterates(iter, S, f, base),
           Good({}, base),
           \A s \in SUBSET S : \A x \in S \ s : \A acc :
              Good({f[y] : y \in s}, acc) => Good({f[y] : y \in s \cup {x}}, Op(acc, f[x]))
    PROVE  Good({f[y] : y \in S}, iter[S])
<1>. DEFINE Bad == {s \in SUBSET S : ~Good({f[y] : y \in s}, iter[s])}
            Sizes == {Cardinality(s) : s \in Bad}
<1>. SUFFICES ASSUME Bad # {} PROVE FALSE
  OBVIOUS
<1>1. \A s \in SUBSET S : Cardinality(s) \in Nat
  BY FS_Subset, FS_CardinalityType
<1>2. PICK n \in Sizes : \A m \in Sizes : n <= m
  <2>1. Sizes \in SUBSET Nat /\ Sizes # {}
    BY <1>1
  <2>. HIDE DEF Sizes
  <2>. QED
    BY <2>1, LeastNatural
<1>3. PICK s \in Bad : Cardinality(s) = n
  OBVIOUS
<1>4. s # {}
  <2>1. iter[{}] = base /\ {f[y] : y \in {}} = {}
    BY DEF Iterates
  <2>. QED
    BY <1>3, <2>1
<1>. DEFINE p == Pick(s)
            t == s \ {p}
<1>5. t \in SUBSET S /\ p \in S /\ p \in s /\ p \notin t /\ s = t \cup {p} /\ Cardinality(t) < n /\ n \in Nat
  BY <1>1, <1>3, <1>4, OneFewer DEF Picks
<1>6. t \notin Bad
  <2>1. ASSUME NEW u \in Bad PROVE n <= Cardinality(u)
    BY <1>2
  <2>. HIDE DEF t, Bad, Sizes
  <2>. QED
    BY <1>1, <1>5, <2>1
<1>7. Good({f[y] : y \in t}, iter[t])
  BY <1>5, <1>6
<1>8. iter[s] = Op(iter[t], f[p])
  BY <1>3, <1>4 DEF Iterates
<1>9. Good({f[y] : y \in t \cup {p}}, Op(iter[t], f[p]))
  <2>. HIDE DEF t, p
  <2>. QED
    BY <1>5, <1>7
<1>10. Good({f[y] : y \in s}, iter[s])
  <2>. HIDE DEF t, p
  <2>. QED
    BY <1>5, <1>8, <1>9
<1>. QED
  BY <1>3, <1>10

-----------------------------------------------------------------------------
(* FoldLeft takes the greatest index last.                                 *)
LEMMA MaxIsPicked ==
    ASSUME NEW n \in Nat, NEW s \in SUBSET (1 .. n), s # {}
    PROVE  Max(s) \in s
<1>1. PICK d \in {n - i : i \in s} : \A e \in {n - i : i \in s} : d <= e
  <2>1. \A i \in s : n - i \in Nat
    OBVIOUS
  <2>2. {n - i : i \in s} \in SUBSET Nat /\ {n - i : i \in s} # {}
    BY <2>1
  <2>. QED
    BY <2>2, LeastNatural
<1>2. \E i \in s : \A j \in s : i >= j
  <2>1. PICK i \in s : d = n - i
    OBVIOUS
  <2>2. ASSUME NEW j \in s PROVE i >= j
    <3>1. d <= n - j
      BY <1>1
    <3>. QED
      BY <2>1, <3>1
  <2>. QED
    BY <2>2
<1>. QED
  BY <1>2 DEF Max

(* The same for a fold over a sequence, as SequencesExt defines it.        *)
THEOREM FoldLeftKeeps ==
    ASSUME \A s : Pick(s) = Max(s),
           NEW n \in Nat, NEW seq, DOMAIN seq = 1 .. n, NEW base,
           Good({}, base),
           \A s \in SUBSET (1 .. n) : \A x \in (1 .. n) \ s : \A acc :
              Good({seq[y] : y \in s}, acc) => Good({seq[y] : y \in s \cup {x}}, Op(acc, seq[x]))
    PROVE  Good({seq[y] : y \in 1 .. n}, FoldLeft(Op, base, seq))
<1>. DEFINE iter == CHOOSE iter : Iterates(iter, 1 .. n, seq, base)
<1>1. IsFiniteSet(1 .. n) /\ Picks(1 .. n)
  <2>1. IsFiniteSet(1 .. n)
    BY FS_Interval
  <2>2. Picks(1 .. n)
    BY MaxIsPicked DEF Picks
  <2>. QED
    BY <2>1, <2>2
<1>2. Iterates(iter, 1 .. n, seq, base)
  BY <1>1, FoldExists
<1>3. FoldLeft(Op, base, seq) = iter[1 .. n]
  BY DEF FoldLeft, MapThenFoldSet, Iterates
<1>. HIDE DEF iter
<1>. QED
  BY <1>1, <1>2, <1>3, FoldKeeps
=============================================================================
