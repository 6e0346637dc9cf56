---------------------------- MODULE FoldLemmas ----------------------------
(***************************************************************************)
(* What FoldLeft and FoldSet compute, for any operator: the provers take   *)
(* no operator as the parameter of a theorem, but they do take an instance *)
(* of this module.  Induction on numbers is stated as a fact about a set,  *)
(* for the same reason.                                                    *)
(***************************************************************************)
EXTENDS SequencesExt, FiniteSetTheorems, TLAPS

CONSTANT op(_, _)   \* what is folded

Fold(base, seq) == FoldLeft(op, base, seq)

\* Induction, as a fact about a set of numbers.
LEMMA NatSetInduction ==
    ASSUME NEW T, 0 \in T, \A n \in Nat : n \in T => n + 1 \in T
    PROVE  Nat \subseteq T
<1> DEFINE F == Nat \ T
<1> SUFFICES ASSUME F # {} PROVE FALSE
  OBVIOUS
<1>1. IsWellFoundedOn(OpToRel(<, Nat), Nat)
  BY NatLessThanWellFounded
<1>2. PICK x \in F : \A y \in F : ~ (<<y, x>> \in OpToRel(<, Nat))
  <2>1. F \subseteq Nat
    OBVIOUS
  <2> HIDE DEF F
  <2> QED BY <1>1, <2>1, WFMin
<1>3. \A y \in F : ~ (y < x)
  BY <1>2 DEF OpToRel
<1>4. x # 0 /\ x - 1 \in Nat /\ x - 1 < x
  OBVIOUS
<1>5. x - 1 \in T
  BY <1>3, <1>4
<1>6. (x - 1) + 1 \in T
  BY <1>4, <1>5
<1> QED BY <1>6

\* The function that FoldLeft builds for the first n elements.
IsFold(g, base, seq, n) ==
    g = [s \in SUBSET (1 .. n) |->
            IF s = {} THEN base ELSE op(g[s \ {Max(s)}], seq[Max(s)])]

LEMMA FoldDef ==
    ASSUME NEW base, NEW seq, NEW n \in Nat, DOMAIN seq = 1 .. n
    PROVE  Fold(base, seq) = (CHOOSE g : IsFold(g, base, seq, n))[1 .. n]
BY DEF Fold, FoldLeft, MapThenFoldSet, IsFold

LEMMA MaxIsLast ==
    ASSUME NEW n \in Nat, NEW s \in SUBSET (1 .. n + 1), n + 1 \in s
    PROVE  Max(s) = n + 1
<1> DEFINE IsMax(x) == \A y \in s : x >= y
<1>1. \A x \in s : x = n + 1 <=> IsMax(x)
  OBVIOUS
<1> HIDE DEF IsMax
<1>2. (CHOOSE x \in s : IsMax(x)) = n + 1
  BY <1>1
<1> QED BY <1>2 DEF Max, IsMax

\* There is such a function.
LEMMA FoldExists ==
    ASSUME NEW base, NEW seq, NEW n \in Nat
    PROVE  \E g : IsFold(g, base, seq, n)
<1> DEFINE T == {m \in Nat : \E g : IsFold(g, base, seq, m)}
<1>1. 0 \in T
  <2> DEFINE g == [s \in SUBSET (1 .. 0) |-> base]
  <2>1. \A s \in SUBSET (1 .. 0) : s = {}
    OBVIOUS
  <2>2. g = [s \in SUBSET (1 .. 0) |->
                IF s = {} THEN base
                ELSE op(g[s \ {Max(s)}], seq[Max(s)])]
    BY <2>1
  <2> HIDE DEF g
  <2>3. IsFold(g, base, seq, 0)
    BY <2>2 DEF IsFold
  <2> QED BY <2>3
<1>2. ASSUME NEW m \in Nat, m \in T PROVE m + 1 \in T
  <2>1. PICK f : IsFold(f, base, seq, m)
    BY <1>2
  <2> DEFINE g == [s \in SUBSET (1 .. m + 1) |->
                      IF m + 1 \in s
                      THEN op(f[s \ {m + 1}], seq[m + 1])
                      ELSE f[s]]
  <2>2. ASSUME NEW s \in SUBSET (1 .. m + 1)
        PROVE  g[s] = IF s = {} THEN base
                      ELSE op(g[s \ {Max(s)}], seq[Max(s)])
    <3>1. CASE m + 1 \in s
      <4>1. Max(s) = m + 1
        BY <3>1, MaxIsLast
      <4>2. s \ {m + 1} \in SUBSET (1 .. m + 1) /\ m + 1 \notin s \ {m + 1}
        OBVIOUS
      <4>3. g[s \ {m + 1}] = f[s \ {m + 1}]
        BY <4>2
      <4> QED BY <3>1, <4>1, <4>3
    <3>2. CASE m + 1 \notin s
      <4>1. s \in SUBSET (1 .. m)
        BY <3>2
      <4>2. f[s] = IF s = {} THEN base
                   ELSE op(f[s \ {Max(s)}], seq[Max(s)])
        BY <2>1, <4>1 DEF IsFold
      <4>3. s \ {Max(s)} \in SUBSET (1 .. m + 1) /\ m + 1 \notin s \ {Max(s)}
        BY <3>2
      <4>4. g[s] = f[s] /\ g[s \ {Max(s)}] = f[s \ {Max(s)}]
        BY <4>3, <3>2
      <4> QED BY <4>2, <4>4
    <3> QED BY <3>1, <3>2
  <2>3. IsFold(g, base, seq, m + 1)
    BY <2>2 DEF IsFold
  <2> QED BY <2>3
<1> HIDE DEF T
<1>3. n \in T
  BY <1>1, <1>2, NatSetInduction
<1> QED BY <1>3 DEF T

\* Its value for one element more.
LEMMA FoldOneMore ==
    ASSUME NEW base, NEW seq, NEW n \in Nat, NEW g, IsFold(g, base, seq, n)
    PROVE  /\ g[{}] = base
           /\ \A k \in 0 .. n - 1 : g[1 .. k + 1] = op(g[1 .. k], seq[k + 1])
<1>1. g[{}] = base
  BY DEF IsFold
<1>2. ASSUME NEW k \in 0 .. n - 1
      PROVE  g[1 .. k + 1] = op(g[1 .. k], seq[k + 1])
  <2>1. Max(1 .. k + 1) = k + 1
    BY MaxIsLast
  <2>2. (1 .. k + 1) \ {k + 1} = 1 .. k
    OBVIOUS
  <2>3. 1 .. k + 1 \in SUBSET (1 .. n) /\ 1 .. k + 1 # {}
    OBVIOUS
  <2> QED BY <2>1, <2>2, <2>3 DEF IsFold
<1> QED BY <1>1, <1>2

\* Nothing is folded.
LEMMA FoldEmpty == \A base : Fold(base, << >>) = base
<1> TAKE base
<1>1. DOMAIN << >> = 1 .. 0
  OBVIOUS
<1>2. Fold(base, << >>) = (CHOOSE g : IsFold(g, base, << >>, 0))[1 .. 0]
  BY <1>1, FoldDef
<1>3. IsFold(CHOOSE g : IsFold(g, base, << >>, 0), base, << >>, 0)
  BY FoldExists
<1>4. (CHOOSE g : IsFold(g, base, << >>, 0))[{}] = base
  BY <1>3, FoldOneMore
<1> QED BY <1>2, <1>4

\* Folding one element more is folding, and then that element.
LEMMA FoldAppend ==
    ASSUME NEW S, NEW seq \in Seq(S), NEW p \in S, NEW base
    PROVE  Fold(base, Append(seq, p)) = op(Fold(base, seq), p)
<1> DEFINE n == Len(seq)
           long == Append(seq, p)
           f == CHOOSE g : IsFold(g, base, seq, n)
           h == CHOOSE g : IsFold(g, base, long, n + 1)
<1>1. /\ n \in Nat /\ DOMAIN seq = 1 .. n /\ DOMAIN long = 1 .. n + 1
      /\ long[n + 1] = p
      /\ \A k \in 0 .. n - 1 : long[k + 1] = seq[k + 1]
  OBVIOUS
<1> HIDE DEF n, long
<1>2. IsFold(f, base, seq, n) /\ IsFold(h, base, long, n + 1)
  <2>1. \E g : IsFold(g, base, seq, n)
    BY FoldExists, <1>1
  <2>2. n + 1 \in Nat
    BY <1>1
  <2>3. \E g : IsFold(g, base, long, n + 1)
    BY <2>2, FoldExists
  <2> QED BY <2>1, <2>3
<1>3. Fold(base, seq) = f[1 .. n] /\ Fold(base, long) = h[1 .. n + 1]
  BY FoldDef, <1>1
<1> HIDE DEF f, h
<1> DEFINE T == {k \in Nat : k <= n => f[1 .. k] = h[1 .. k]}
<1>4. 0 \in T
  <2>1. f[{}] = base /\ h[{}] = base
    BY <1>1, <1>2, FoldOneMore
  <2> QED BY <2>1
<1>5. ASSUME NEW k \in Nat, k \in T PROVE k + 1 \in T
  <2> SUFFICES ASSUME k + 1 <= n PROVE f[1 .. k + 1] = h[1 .. k + 1]
    OBVIOUS
  <2>1. k \in 0 .. n - 1 /\ k \in 0 .. (n + 1) - 1 /\ f[1 .. k] = h[1 .. k]
    BY <1>1, <1>5
  <2>2. f[1 .. k + 1] = op(f[1 .. k], seq[k + 1])
    BY <2>1, <1>1, <1>2, FoldOneMore
  <2>3. h[1 .. k + 1] = op(h[1 .. k], long[k + 1])
    BY <2>1, <1>1, <1>2, FoldOneMore
  <2> QED BY <2>1, <2>2, <2>3, <1>1
<1>6. f[1 .. n] = h[1 .. n]
  <2> HIDE DEF T
  <2>1. n \in T
    BY <1>1, <1>4, <1>5, NatSetInduction
  <2> QED BY <2>1 DEF T
<1>7. h[1 .. n + 1] = op(h[1 .. n], long[n + 1])
  BY <1>1, <1>2, FoldOneMore
<1> QED BY <1>1, <1>3, <1>6, <1>7 DEF long

\* What op preserves, the fold preserves.
LEMMA FoldInvariant ==
    ASSUME NEW Good, NEW S, NEW seq \in Seq(S), NEW base \in Good,
           \A x \in Good, i \in DOMAIN seq : op(x, seq[i]) \in Good
    PROVE  Fold(base, seq) \in Good
<1> DEFINE n == Len(seq)
           f == CHOOSE g : IsFold(g, base, seq, n)
           T == {k \in Nat : k <= n => f[1 .. k] \in Good}
<1>1. n \in Nat /\ DOMAIN seq = 1 .. n
  OBVIOUS
<1> HIDE DEF n
<1>2. IsFold(f, base, seq, n)
  BY <1>1, FoldExists
<1>3. Fold(base, seq) = f[1 .. n]
  BY <1>1, FoldDef
<1> HIDE DEF f
<1>4. 0 \in T
  <2>1. f[{}] = base
    BY <1>2 DEF IsFold
  <2> QED BY <2>1
<1>5. ASSUME NEW k \in Nat, k \in T PROVE k + 1 \in T
  <2> SUFFICES ASSUME k + 1 <= n PROVE f[1 .. k + 1] \in Good
    OBVIOUS
  <2>1. k \in 0 .. n - 1 /\ f[1 .. k] \in Good /\ k + 1 \in DOMAIN seq
    BY <1>1, <1>5
  <2>2. f[1 .. k + 1] = op(f[1 .. k], seq[k + 1])
    BY <2>1, <1>1, <1>2, FoldOneMore
  <2> QED BY <2>1, <2>2
<1>6. n \in T
  <2> HIDE DEF T
  <2> QED BY <1>1, <1>4, <1>5, NatSetInduction
<1> QED BY <1>1, <1>3, <1>6

-----------------------------------------------------------------------------
(***************************************************************************)
(* The same for FoldSet.                                                   *)
(***************************************************************************)
FoldOver(base, set) == FoldSet(op, base, set)

Pick(s) == CHOOSE x \in s : TRUE

\* The function that FoldSet builds for the subsets in D.
IsSetFold(g, base, D) ==
    g = [s \in D |-> IF s = {} THEN base ELSE op(Pick(s), g[s \ {Pick(s)}])]

LEMMA SetFoldDef ==
    ASSUME NEW base, NEW S
    PROVE  FoldOver(base, S) = (CHOOSE g : IsSetFold(g, base, SUBSET S))[S]
BY DEF FoldOver, FoldSet, MapThenFoldSet, IsSetFold, Pick

\* The subsets with at most n elements.
UpTo(S, n) == {s \in SUBSET S : Cardinality(s) <= n}

LEMMA SmallSubset ==
    ASSUME NEW S, IsFiniteSet(S), NEW n \in Nat, NEW s \in UpTo(S, n), s # {}
    PROVE  /\ Pick(s) \in s
           /\ s \ {Pick(s)} \in UpTo(S, n - 1)
           /\ n # 0
<1>1. Pick(s) \in s
  BY DEF Pick
<1>2. s \in SUBSET S /\ Cardinality(s) <= n
  BY DEF UpTo
<1>3. IsFiniteSet(s) /\ Cardinality(s) \in Nat
  BY <1>2, FS_Subset, FS_CardinalityType
<1>4. Cardinality(s \ {Pick(s)}) = Cardinality(s) - 1
  BY <1>1, <1>3, FS_RemoveElement
<1>5. Cardinality(s) # 0
  BY <1>3, FS_EmptySet
<1> QED BY <1>1, <1>2, <1>3, <1>4, <1>5 DEF UpTo

\* There is such a function.
LEMMA SetFoldExists ==
    ASSUME NEW base, NEW S, IsFiniteSet(S)
    PROVE  \E g : IsSetFold(g, base, SUBSET S)
<1> DEFINE T == {n \in Nat : \E g : IsSetFold(g, base, UpTo(S, n))}
<1>1. 0 \in T
  <2> DEFINE g == [s \in UpTo(S, 0) |-> base]
  <2>1. \A s \in UpTo(S, 0) : s = {}
    BY SmallSubset
  <2>2. g = [s \in UpTo(S, 0) |-> IF s = {} THEN base ELSE op(Pick(s), g[s \ {Pick(s)}])]
    BY <2>1
  <2> HIDE DEF g
  <2>3. IsSetFold(g, base, UpTo(S, 0))
    BY <2>2 DEF IsSetFold
  <2> QED BY <2>3
<1>2. ASSUME NEW n \in Nat, n \in T PROVE n + 1 \in T
  <2>1. PICK f : IsSetFold(f, base, UpTo(S, n))
    BY <1>2
  <2> DEFINE g == [s \in UpTo(S, n + 1) |->
                      IF s = {} THEN base ELSE op(Pick(s), f[s \ {Pick(s)}])]
  <2>2. \A s \in UpTo(S, n) : s \in UpTo(S, n + 1) /\ g[s] = f[s]
    <3> SUFFICES ASSUME NEW s \in UpTo(S, n)
                 PROVE  s \in UpTo(S, n + 1) /\ g[s] = f[s]
      OBVIOUS
    <3>1. s \in UpTo(S, n + 1)
      <4>1. s \in SUBSET S /\ Cardinality(s) <= n
        BY DEF UpTo
      <4>2. Cardinality(s) \in Nat
        BY <4>1, FS_Subset, FS_CardinalityType
      <4> QED BY <4>1, <4>2 DEF UpTo
    <3>2. f[s] = IF s = {} THEN base ELSE op(Pick(s), f[s \ {Pick(s)}])
      BY <2>1 DEF IsSetFold
    <3> QED BY <3>1, <3>2
  <2>3. ASSUME NEW s \in UpTo(S, n + 1), s # {}
        PROVE  f[s \ {Pick(s)}] = g[s \ {Pick(s)}]
    <3>1. n + 1 \in Nat /\ (n + 1) - 1 = n
      OBVIOUS
    <3>2. s \ {Pick(s)} \in UpTo(S, (n + 1) - 1)
      BY <3>1, <2>3, SmallSubset
    <3> HIDE DEF g
    <3> QED BY <3>1, <3>2, <2>2
  <2>4. g = [s \in UpTo(S, n + 1) |-> IF s = {} THEN base ELSE op(Pick(s), g[s \ {Pick(s)}])]
    BY <2>3
  <2> HIDE DEF g
  <2>5. IsSetFold(g, base, UpTo(S, n + 1))
    BY <2>4 DEF IsSetFold
  <2> QED BY <2>5
<1>3. Cardinality(S) \in T
  <2> HIDE DEF T
  <2>1. Nat \subseteq T
    BY <1>1, <1>2, NatSetInduction
  <2> QED BY <2>1, FS_CardinalityType
<1>4. UpTo(S, Cardinality(S)) = SUBSET S
  BY FS_Subset DEF UpTo
<1> QED BY <1>3, <1>4

\* What every turn preserves, the fold preserves: Good has pairs of the elements
\* that were taken and what they were folded to.
EveryTurn(Good, S) ==
    \A T \in SUBSET S : \A x \in S \ T : \A a :
        <<T, a>> \in Good => <<T \cup {x}, op(x, a)>> \in Good

LEMMA SetFoldInvariant ==
    ASSUME NEW Good, NEW S, IsFiniteSet(S), NEW base, <<{}, base>> \in Good,
           EveryTurn(Good, S)
    PROVE  <<S, FoldOver(base, S)>> \in Good
<1> DEFINE f == CHOOSE g : IsSetFold(g, base, SUBSET S)
           T == {n \in Nat : \A s \in UpTo(S, n) : <<s, f[s]>> \in Good}
<1>1. IsSetFold(f, base, SUBSET S)
  BY SetFoldExists
<1>2. FoldOver(base, S) = f[S]
  BY SetFoldDef
<1> HIDE DEF f
<1>3. f[{}] = base
  BY <1>1 DEF IsSetFold
<1>4. 0 \in T
  <2>1. \A s \in UpTo(S, 0) : s = {}
    BY SmallSubset
  <2> QED BY <2>1, <1>3
<1>5. ASSUME NEW n \in Nat, n \in T PROVE n + 1 \in T
  <2> SUFFICES ASSUME NEW s \in UpTo(S, n + 1), s # {} PROVE <<s, f[s]>> \in Good
    BY <1>3
  <2>1. n + 1 \in Nat /\ (n + 1) - 1 = n
    OBVIOUS
  <2>2. Pick(s) \in s /\ s \ {Pick(s)} \in UpTo(S, n)
    BY <2>1, SmallSubset
  <2>3. s \in SUBSET S /\ s \ {Pick(s)} \in SUBSET S
    BY DEF UpTo
  <2>4. f[s] = op(Pick(s), f[s \ {Pick(s)}])
    BY <2>3, <1>1 DEF IsSetFold
  <2>5. <<s \ {Pick(s)}, f[s \ {Pick(s)}]>> \in Good
    BY <2>2, <1>5
  <2>6. Pick(s) \in S \ (s \ {Pick(s)}) /\ (s \ {Pick(s)}) \cup {Pick(s)} = s
    BY <2>2, <2>3
  <2> QED BY <2>3, <2>4, <2>5, <2>6 DEF EveryTurn
<1>6. Cardinality(S) \in T
  <2> HIDE DEF T
  <2>1. Nat \subseteq T
    BY <1>4, <1>5, NatSetInduction
  <2> QED BY <2>1, FS_CardinalityType
<1>7. S \in UpTo(S, Cardinality(S))
  BY FS_CardinalityType DEF UpTo
<1> QED BY <1>2, <1>6, <1>7

=============================================================================
