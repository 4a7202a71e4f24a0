----------------------------- MODULE DataLemmas -----------------------------
(***************************************************************************)
(* What the proofs need of numbers, sets and sequences: induction over     *)
(* the naturals and over finite sets, the extremes of sets of naturals,    *)
(* the tail of a sequence, what FlattenSeq computes and where its elements *)
(* come from, functions that are defined by steps, and sums.               *)
(***************************************************************************)
EXTENDS Integers, SequencesExt, FiniteSetsExt, Functions, SequenceTheorems, FiniteSetTheorems,
    WellFoundedInduction, TLAPS

(* Every nonempty set of naturals has a least element.                     *)
LEMMA LeastNatural ==
    ASSUME NEW T \in SUBSET Nat, T # {}
    PROVE  \E m \in T : \A n \in T : m <= n
  <1>1. IsWellFoundedOn(OpToRel(<, Nat), Nat)
    BY NatLessThanWellFounded
  <1>2. PICK m \in T : \A n \in T : <<n, m>> \notin OpToRel(<, Nat)
    BY <1>1, WFMin
  <1>3. \A n \in T : ~(n < m)
    BY <1>2 DEF OpToRel
  <1> QED  BY <1>3

(* Induction: the counterexamples to it would have no least one.           *)
LEMMA NatSetInduction ==
    ASSUME NEW S, 0 \in S, \A n \in Nat : n \in S => n + 1 \in S
    PROVE  Nat \subseteq S
  <1> DEFINE T == Nat \ S
  <1> SUFFICES ASSUME T # {}
               PROVE  FALSE
    OBVIOUS
  <1>1. PICK m \in T : \A n \in T : m <= n
    BY LeastNatural
  <1>2. m # 0 /\ m - 1 \in Nat /\ m - 1 \notin T
    BY <1>1
  <1> QED  BY <1>2

(* The minimum of a nonempty set of naturals is its least element.         *)
LEMMA MinOfNaturals ==
    ASSUME NEW T \in SUBSET Nat, T # {}
    PROVE  Min(T) \in T /\ \A n \in T : Min(T) <= n
  BY LeastNatural DEF Min

(* The maximum of a nonempty, bounded set of naturals is its greatest      *)
(* element: it is the least of the bounds.                                 *)
LEMMA MaxOfNaturals ==
    ASSUME NEW T \in SUBSET Nat, T # {}, NEW bound \in Nat, \A n \in T : n <= bound
    PROVE  Max(T) \in T /\ \A n \in T : Max(T) >= n
  <1> DEFINE B == {b \in Nat : \A n \in T : n <= b}
  <1>1. PICK m \in B : \A b \in B : m <= b
    BY LeastNatural
  <1>2. m \in T
    <2> SUFFICES ASSUME m \notin T
                 PROVE  FALSE
      OBVIOUS
    <2>1. \A n \in T : n <= m - 1
      BY <1>1
    <2>2. m - 1 \in Nat
      <3>1. PICK x \in T : TRUE
        OBVIOUS
      <3>2. x \in Nat /\ x <= m - 1 /\ m \in Nat
        BY <2>1, <3>1
      <3> QED  BY <3>2
    <2> QED  BY <1>1, <2>1, <2>2
  <1> QED  BY <1>1, <1>2 DEF Max

(* The first n of a bounded set of naturals.                               *)
Below(T, w) == {v \in T : v < w}
FirstOf(T, n) == {w \in T : Cardinality(Below(T, w)) < n}

(* The elements before one are finitely many, none before the least, and no *)
(* fewer before a later one.                                               *)
LEMMA BeforeIs ==
    ASSUME NEW T \in SUBSET Nat, IsFiniteSet(T)
    PROVE  /\ \A w : IsFiniteSet(Below(T, w)) /\ Cardinality(Below(T, w)) \in Nat
           /\ \A m \in Nat : (\A k \in T : m <= k) => Cardinality(Below(T, m)) = 0
           /\ \A w, first \in Nat : w <= first => Cardinality(Below(T, w)) <= Cardinality(Below(T, first))
  <1>1. \A w : Below(T, w) \subseteq T
    BY DEF Below
  <1>2. \A w : IsFiniteSet(Below(T, w)) /\ Cardinality(Below(T, w)) \in Nat
    BY <1>1, FS_Subset, FS_CardinalityType
  <1>3. ASSUME NEW m \in Nat, \A k \in T : m <= k
        PROVE  Cardinality(Below(T, m)) = 0
    <2>1. ASSUME NEW v \in T
          PROVE  ~(v < m)
      <3>1. m <= v /\ v \in Nat
        BY <1>3
      <3> QED  BY ONLY <3>1, m \in Nat
    <2>2. Below(T, m) = {}
      BY <2>1, Zenon DEF Below
    <2> QED  BY <2>2, FS_EmptySet
  <1>4. ASSUME NEW w \in Nat, NEW first \in Nat, w <= first
        PROVE  Cardinality(Below(T, w)) <= Cardinality(Below(T, first))
    <2>1. ASSUME NEW v \in T, v < w
          PROVE  v < first
      <3>1. v \in Nat
        OBVIOUS
      <3> QED  BY ONLY <1>4, <2>1, <3>1, w \in Nat, first \in Nat
    <2>2. Below(T, w) \subseteq Below(T, first)
      BY <2>1, Zenon DEF Below
    <2> QED  BY <1>2, <2>2, FS_Subset
  <1> QED  BY <1>2, <1>3, <1>4

(* With an element the first n have all that are less; they are none only  *)
(* if there are none.                                                      *)
LEMMA FirstOfIs ==
    ASSUME NEW T \in SUBSET Nat, NEW bound \in Nat, \A w \in T : w <= bound, NEW n \in Nat \ {0}
    PROVE  /\ FirstOf(T, n) \subseteq T
           /\ T # {} => FirstOf(T, n) # {}
           /\ \A first \in FirstOf(T, n), w \in T : w <= first => w \in FirstOf(T, n)
           /\ FirstOf(T, n) # {} => Min(FirstOf(T, n)) \in FirstOf(T, n) /\ Max(FirstOf(T, n)) \in FirstOf(T, n)
  <1>1. IsFiniteSet(T)
    BY FS_BoundedSetOfNaturals
  <1>2. FirstOf(T, n) \subseteq T /\ \A w \in T : w \in FirstOf(T, n) <=> Cardinality(Below(T, w)) < n
    BY DEF FirstOf
  <1>3. \A w : Cardinality(Below(T, w)) \in Nat
    BY <1>1, BeforeIs
  <1>4. ASSUME T # {}
        PROVE  FirstOf(T, n) # {}
    <2>1. PICK m \in T : \A k \in T : m <= k
      BY <1>4, LeastNatural
    <2>2. Cardinality(Below(T, m)) = 0
      BY <1>1, <2>1, BeforeIs
    <2> QED  BY <1>2, <2>2
  <1>5. ASSUME NEW first \in FirstOf(T, n), NEW w \in T, w <= first
        PROVE  w \in FirstOf(T, n)
    <2>1. first \in T /\ Cardinality(Below(T, first)) < n
      BY <1>2
    <2>2. Cardinality(Below(T, w)) <= Cardinality(Below(T, first))
      BY <1>1, <1>5, <2>1, BeforeIs
    <2>3. Cardinality(Below(T, w)) < n
      BY <1>3, <2>1, <2>2
    <2> QED  BY <1>2, <2>3
  <1>6. FirstOf(T, n) # {} => Min(FirstOf(T, n)) \in FirstOf(T, n) /\ Max(FirstOf(T, n)) \in FirstOf(T, n)
    <2>1. FirstOf(T, n) \in SUBSET Nat /\ \A w \in FirstOf(T, n) : w <= bound
      BY <1>2
    <2> QED  BY <2>1, MinOfNaturals, MaxOfNaturals
  <1> QED  BY <1>2, <1>4, <1>5, <1>6

(* The first n of a finite set of naturals end with one of them.           *)
NoMore(T, k) == {j \in T : j <= k}

(* For each n up to the number of elements one of them is the n-th.        *)
LEMMA RankExists ==
    ASSUME NEW T \in SUBSET Nat, IsFiniteSet(T), NEW bound \in Nat, \A k \in T : k <= bound,
           NEW n \in 1 .. Cardinality(T)
    PROVE  \E k \in T : Cardinality(NoMore(T, k)) = n
  <1>1. ASSUME NEW k
        PROVE  IsFiniteSet(NoMore(T, k)) /\ Cardinality(NoMore(T, k)) \in Nat
    <2>1. NoMore(T, k) \subseteq T
      BY DEF NoMore
    <2> QED  BY <2>1, FS_Subset, FS_CardinalityType
  <1>2. Cardinality(T) \in Nat /\ n \in Nat \ {0} /\ n <= Cardinality(T)
    BY FS_CardinalityType
  <1>3. PICK E : E = {k \in T : Cardinality(NoMore(T, k)) >= n}
    OBVIOUS
  <1>4. T # {}
    BY <1>2, FS_EmptySet
  <1>5. E # {}
    <2>1. PICK last \in T : \A k \in T : last >= k
      BY <1>4, MaxOfNaturals
    <2>2. NoMore(T, last) = T
      <3>1. \A k \in T : k <= last
        BY <2>1
      <3> QED  BY <3>1 DEF NoMore
    <2> QED  BY <1>2, <1>3, <2>1, <2>2
  <1>6. PICK k \in E : \A j \in E : k <= j
    <2>1. E \in SUBSET Nat
      BY <1>3
    <2> QED  BY <1>5, <2>1, LeastNatural
  <1>7. k \in T /\ k \in Nat /\ Cardinality(NoMore(T, k)) >= n
    BY <1>3, <1>6
  <1>8. PICK before : before = {j \in T : j < k}
    OBVIOUS
  <1>9. NoMore(T, k) = before \cup {k} /\ k \notin before /\ before \in SUBSET Nat
    <2>1. \A j \in T : j <= k <=> j < k \/ j = k
      BY <1>7
    <2>2. ~(k < k)
      BY <1>7
    <2> QED  BY <1>7, <1>8, <2>1, <2>2 DEF NoMore
  <1>10. IsFiniteSet(before) /\ Cardinality(before) \in Nat
    <2>1. before \subseteq T
      BY <1>8
    <2> QED  BY <2>1, FS_Subset, FS_CardinalityType
  <1>11. Cardinality(NoMore(T, k)) = Cardinality(before) + 1
    BY <1>9, <1>10, FS_AddElement
  <1>12. Cardinality(before) < n
    <2>1. CASE before = {}
      BY <1>2, <2>1, FS_EmptySet
    <2>2. CASE before # {}
      <3>1. \A j \in before : j <= bound
        BY <1>8
      <3>2. PICK j \in before : \A i \in before : j >= i
        BY <1>9, <2>2, <3>1, MaxOfNaturals
      <3>3. j \in T /\ j \in Nat /\ j < k /\ ~(k <= j)
        BY <1>7, <1>8, <1>9, <3>2
      <3>4. NoMore(T, j) = before
        <4>1. \A i \in T : i <= j <=> i < k
          <5> SUFFICES ASSUME NEW i \in T
                       PROVE  i <= j <=> i < k
            OBVIOUS
          <5>1. i < k => i <= j
            BY <1>8, <3>2, <3>3
          <5>2. i <= j => i < k
            BY <1>7, <3>3
          <5> QED  BY <5>1, <5>2
        <4> QED  BY <1>8, <4>1 DEF NoMore
      <3>5. j \notin E
        BY <1>6, <3>3
      <3>6. ~(Cardinality(NoMore(T, j)) >= n)
        BY <1>3, <3>3, <3>5
      <3> QED  BY <1>2, <1>10, <3>4, <3>6
    <2> QED  BY <2>1, <2>2
  <1> QED  BY <1>2, <1>7, <1>10, <1>11, <1>12

(* A later element has a higher rank, at most the number of elements.      *)
LEMMA RankGrows ==
    ASSUME NEW T \in SUBSET Nat, IsFiniteSet(T), NEW a \in T, NEW b \in T, a < b
    PROVE  /\ Cardinality(NoMore(T, a)) \in 1 .. Cardinality(T)
           /\ Cardinality(NoMore(T, a)) < Cardinality(NoMore(T, b))
  <1>1. NoMore(T, a) \subseteq NoMore(T, b) /\ NoMore(T, b) \subseteq T
    <2>1. a \in Nat /\ b \in Nat /\ \A c \in T : c \in Nat
      OBVIOUS
    <2>2. \A c \in T : c <= a => c <= b
      BY <2>1
    <2> QED  BY <2>2 DEF NoMore
  <1>2. b \in NoMore(T, b) /\ b \notin NoMore(T, a) /\ a \in NoMore(T, a)
    <2>1. a \in Nat /\ b \in Nat
      OBVIOUS
    <2>2. a <= a /\ b <= b /\ ~(b <= a)
      BY <2>1
    <2> QED  BY <2>2 DEF NoMore
  <1>3. \A S \in {NoMore(T, a), NoMore(T, b), T} : IsFiniteSet(S) /\ Cardinality(S) \in Nat
    BY <1>1, FS_Subset, FS_CardinalityType
  <1>4. Cardinality(NoMore(T, a)) <= Cardinality(T)
    <2>1. NoMore(T, a) \subseteq T
      BY DEF NoMore
    <2> QED  BY <2>1, FS_Subset
  <1>5. Cardinality(NoMore(T, a)) # 0
    BY <1>2, <1>3, FS_EmptySet
  <1>6. Cardinality(NoMore(T, a)) < Cardinality(NoMore(T, b))
    <2>1. NoMore(T, a) \subseteq NoMore(T, b) \ {b}
      BY <1>1, <1>2
    <2>2. IsFiniteSet(NoMore(T, b) \ {b}) /\ Cardinality(NoMore(T, b) \ {b}) = Cardinality(NoMore(T, b)) - 1
      BY <1>2, <1>3, FS_RemoveElement
    <2>3. Cardinality(NoMore(T, a)) <= Cardinality(NoMore(T, b) \ {b})
      BY <2>1, <2>2, FS_Subset
    <2> QED  BY <1>3, <2>2, <2>3
  <1> QED  BY <1>3, <1>4, <1>5, <1>6

(* What is left of a sequence without its first element.                   *)
LEMMA TailIs ==
    ASSUME NEW S, NEW s \in Seq(S), s # <<>>
    PROVE  /\ s[1] \in S /\ Tail(s) \in Seq(S) /\ Len(s) \in Nat \ {0} /\ Len(Tail(s)) = Len(s) - 1
           /\ DOMAIN s = 1 .. Len(s) /\ DOMAIN Tail(s) = 1 .. Len(s) - 1
           /\ \A k \in 1 .. Len(s) - 1 : Tail(s)[k] = s[k + 1]
           /\ Len(s) > 1 <=> Tail(s) # <<>>
  <1>1. Len(s) \in Nat \ {0} /\ DOMAIN s = 1 .. Len(s)
    BY EmptySeq, LenProperties
  <1>2. Tail(s) \in Seq(S) /\ Len(Tail(s)) = Len(s) - 1 /\ \A k \in 1 .. Len(Tail(s)) : Tail(s)[k] = s[k + 1]
    BY HeadTailProperties
  <1>3. DOMAIN Tail(s) = 1 .. Len(Tail(s))
    BY <1>2, LenProperties
  <1>4. s[1] \in S
    BY <1>1, ElementOfSeq
  <1>5. Tail(s) # <<>> => Len(Tail(s)) # 0
    BY <1>2, EmptySeq
  <1>6. Tail(s) = <<>> => Len(Tail(s)) = 0
    BY EmptySeq
  <1> QED  BY <1>1, <1>2, <1>3, <1>4, <1>5, <1>6

(* FlattenSeq is defined by a recursive function: it exists, and its value *)
(* at i is that at i - 1 with the i-th sequence after it.                  *)
Flattens(f, n, seqs) == f = [i \in 1 .. n |-> IF i = 1 THEN seqs[i] ELSE f[i - 1] \o seqs[i]]

(* There is such a function.                                               *)
LEMMA FlattenExists ==
    ASSUME NEW seqs
    PROVE  \A n \in Nat : \E f : Flattens(f, n, seqs)
  <1> DEFINE S == {n \in Nat : \E f : Flattens(f, n, seqs)}
  <1>1. 0 \in S
    <2> DEFINE f == [i \in 1 .. 0 |-> seqs[i]]
    <2>1. f = [i \in 1 .. 0 |-> IF i = 1 THEN seqs[i] ELSE f[i - 1] \o seqs[i]]
      OBVIOUS
    <2> QED  BY <2>1 DEF Flattens
  <1>2. ASSUME NEW n \in Nat, n \in S
        PROVE  n + 1 \in S
    <2>1. PICK f : Flattens(f, n, seqs)
      BY <1>2
    <2> DEFINE g == [i \in 1 .. (n + 1) |->
                        IF i <= n THEN f[i] ELSE IF i = 1 THEN seqs[i] ELSE f[i - 1] \o seqs[i]]
    <2>2. \A i \in 1 .. (n + 1) : g[i] = IF i = 1 THEN seqs[i] ELSE g[i - 1] \o seqs[i]
      <3> SUFFICES ASSUME NEW i \in 1 .. (n + 1)
                   PROVE  g[i] = IF i = 1 THEN seqs[i] ELSE g[i - 1] \o seqs[i]
        OBVIOUS
      <3>1. i # 1 => i - 1 \in 1 .. n
        OBVIOUS
      <3>2. i # 1 => g[i - 1] = f[i - 1]
        BY <3>1
      <3>3. CASE i <= n
        <4>1. i \in 1 .. n
          BY <3>3
        <4>2. f[i] = IF i = 1 THEN seqs[i] ELSE f[i - 1] \o seqs[i]
          BY <2>1, <4>1 DEF Flattens
        <4> QED  BY <3>2, <3>3, <4>2
      <3>4. CASE ~(i <= n)
        BY <3>2, <3>4
      <3> QED  BY <3>3, <3>4
    <2>3. g = [i \in 1 .. (n + 1) |-> IF i = 1 THEN seqs[i] ELSE g[i - 1] \o seqs[i]]
      BY <2>2
    <2>4. Flattens(g, n + 1, seqs)
      BY <2>3 DEF Flattens
    <2> QED  BY <2>4
  <1>3. Nat \subseteq S
    <2> HIDE DEF S
    <2> QED  BY <1>1, <1>2, NatSetInduction
  <1> QED  BY <1>3

(* FlattenSeq is the last value of one.                                    *)
LEMMA FlattenSeqSteps ==
    ASSUME NEW seqs, Len(seqs) \in Nat \ {0}
    PROVE  \E f : /\ FlattenSeq(seqs) = f[Len(seqs)]
                  /\ f[1] = seqs[1]
                  /\ \A i \in 2 .. Len(seqs) : f[i] = f[i - 1] \o seqs[i]
  <1> DEFINE n == Len(seqs)
             f == CHOOSE f : f = [i \in 1 .. n |-> IF i = 1 THEN seqs[i] ELSE f[i - 1] \o seqs[i]]
  <1>1. \E g : g = [i \in 1 .. n |-> IF i = 1 THEN seqs[i] ELSE g[i - 1] \o seqs[i]]
    BY FlattenExists DEF Flattens
  <1>2. f = [i \in 1 .. n |-> IF i = 1 THEN seqs[i] ELSE f[i - 1] \o seqs[i]]
    BY <1>1
  <1>3. FlattenSeq(seqs) = f[n]
    BY DEF FlattenSeq
  <1>4. f[1] = seqs[1] /\ \A i \in 2 .. n : f[i] = f[i - 1] \o seqs[i]
    <2> HIDE DEF f
    <2>1. 1 \in 1 .. n /\ n \in Nat
      OBVIOUS
    <2>2. f[1] = seqs[1]
      BY <1>2, <2>1
    <2>3. ASSUME NEW i \in 2 .. n
          PROVE  f[i] = f[i - 1] \o seqs[i]
      <3>1. i \in 1 .. n /\ i # 1
        BY <2>1
      <3> QED  BY <1>2, <3>1
    <2> QED  BY <2>2, <2>3
  <1> QED  BY <1>3, <1>4


(* Induction over the subsets of a finite set, in the order in which folds *)
(* take out their elements.                                                *)
LEMMA SubsetInduction ==
    ASSUME NEW S, IsFiniteSet(S), NEW P, {} \in P,
           \A s \in SUBSET S : s # {} /\ s \ {CHOOSE x \in s : TRUE} \in P => s \in P
    PROVE  SUBSET S \subseteq P
  <1> DEFINE N == {n \in Nat : \A s \in SUBSET S : Cardinality(s) = n => s \in P}
  <1>1. \A s \in SUBSET S : IsFiniteSet(s) /\ Cardinality(s) \in Nat
    BY FS_Subset, FS_CardinalityType
  <1>2. 0 \in N
    BY <1>1, FS_EmptySet
  <1>3. ASSUME NEW n \in Nat, n \in N
        PROVE  n + 1 \in N
    <2> SUFFICES ASSUME NEW s \in SUBSET S, Cardinality(s) = n + 1
                 PROVE  s \in P
      OBVIOUS
    <2> DEFINE x == CHOOSE x \in s : TRUE
    <2>1. s # {}
      BY FS_EmptySet
    <2>2. x \in s
      BY <2>1
    <2> HIDE DEF x
    <2>3. Cardinality(s \ {x}) = n
      <3>1. IsFiniteSet(s)
        BY <1>1
      <3>2. Cardinality(s \ {x}) = Cardinality(s) - 1
        BY <2>2, <3>1, FS_RemoveElement
      <3> QED  BY <3>2
    <2>4. s \ {x} \in P
      BY <1>3, <2>3
    <2> QED  BY <2>1, <2>4 DEF x
  <1>4. Nat \subseteq N
    <2> HIDE DEF N
    <2> QED  BY <1>2, <1>3, NatSetInduction
  <1> QED  BY <1>1, <1>4

(* The sums that FoldFunction computes with +, over all subsets.           *)
Sums(iter, f, S) ==
    iter = [s \in SUBSET S |->
               IF s = {} THEN 0 ELSE LET x == CHOOSE x \in s : TRUE IN f[x] + iter[s \ {x}]]

(* There is a function of the sums of the subsets of a finite set.         *)
LEMMA SumsExist ==
    ASSUME NEW S, IsFiniteSet(S), NEW f
    PROVE  \E iter : Sums(iter, f, S)
  <1> DEFINE Elem(s) == CHOOSE x \in s : TRUE
             Sum(g, s) == IF s = {} THEN 0 ELSE f[Elem(s)] + g[s \ {Elem(s)}]
             UpTo(n, g) == \A s \in SUBSET S : Cardinality(s) <= n => g[s] = Sum(g, s)
             N == {n \in Nat : \E g : UpTo(n, g)}
  <1>1. \A s \in SUBSET S : IsFiniteSet(s) /\ Cardinality(s) \in Nat
    BY FS_Subset, FS_CardinalityType
  <1>2. \A s \in SUBSET S : s # {} => /\ s \ {Elem(s)} \in SUBSET S
                                      /\ Cardinality(s \ {Elem(s)}) = Cardinality(s) - 1
    <2> SUFFICES ASSUME NEW s \in SUBSET S, s # {}
                 PROVE  s \ {Elem(s)} \in SUBSET S /\ Cardinality(s \ {Elem(s)}) = Cardinality(s) - 1
      OBVIOUS
    <2>1. Elem(s) \in s
      OBVIOUS
    <2> HIDE DEF Elem
    <2> QED  BY <1>1, <2>1, FS_RemoveElement
  <1> HIDE DEF Elem
  <1>3. 0 \in N
    <2> DEFINE g == [s \in SUBSET S |-> 0]
    <2>1. UpTo(0, g)
      BY <1>1, FS_EmptySet
    <2> HIDE DEF g, UpTo
    <2> QED  BY <2>1
  <1>4. ASSUME NEW n \in Nat, n \in N
        PROVE  n + 1 \in N
    <2>1. PICK g : UpTo(n, g)
      BY <1>4
    <2> DEFINE h == [s \in SUBSET S |-> IF Cardinality(s) <= n THEN g[s] ELSE Sum(g, s)]
    <2>2. ASSUME NEW s \in SUBSET S, Cardinality(s) <= n + 1
          PROVE  h[s] = Sum(h, s)
      <3>1. s # {} => h[s \ {Elem(s)}] = g[s \ {Elem(s)}]
        BY <1>1, <1>2, <2>2
      <3>2. Sum(h, s) = Sum(g, s)
        BY <3>1
      <3>3. h[s] = Sum(g, s)
        BY <2>1
      <3> HIDE DEF h, Sum
      <3> QED  BY <3>2, <3>3
    <2>3. UpTo(n + 1, h)
      <3> HIDE DEF h, Sum
      <3> QED  BY <2>2
    <2> HIDE DEF h, UpTo
    <2> QED  BY <2>3
  <1>5. Nat \subseteq N
    <2> HIDE DEF N
    <2> QED  BY <1>3, <1>4, NatSetInduction
  <1>6. Cardinality(S) \in Nat /\ \A s \in SUBSET S : Cardinality(s) <= Cardinality(S)
    BY FS_Subset, FS_CardinalityType
  <1>7. PICK g : UpTo(Cardinality(S), g)
    BY <1>5, <1>6
  <1> DEFINE iter == [s \in SUBSET S |-> g[s]]
  <1>8. iter = [s \in SUBSET S |-> Sum(iter, s)]
    <2>1. ASSUME NEW s \in SUBSET S
          PROVE  g[s] = Sum(iter, s)
      <3>1. g[s] = Sum(g, s)
        BY <1>6, <1>7
      <3>2. s # {} => iter[s \ {Elem(s)}] = g[s \ {Elem(s)}]
        BY <1>2
      <3> QED  BY <3>1, <3>2
    <2> QED  BY <2>1
  <1>9. Sums(iter, f, S)
    <2> HIDE DEF iter
    <2> QED  BY <1>8 DEF Sums, Elem
  <1> HIDE DEF iter
  <1> QED  BY <1>9

(* The sum of a function is one of them.                                   *)
LEMMA FoldIsSum ==
    ASSUME NEW S, IsFiniteSet(S), NEW f, DOMAIN f = S
    PROVE  \E iter : Sums(iter, f, S) /\ FoldFunction(LAMBDA n, m : n + m, 0, f) = iter[S]
  <1>1. \E iter : Sums(iter, f, S)
    BY SumsExist
  <1>2. FoldFunction(LAMBDA n, m : n + m, 0, f) = (CHOOSE iter : Sums(iter, f, S))[S]
    BY DEF FoldFunction, FoldFunctionOnSet, MapThenFoldSet, Sums
  <1> QED  BY <1>1, <1>2

(* An element is taken out of a sum.                                       *)
LEMMA SumStep ==
    ASSUME NEW S, NEW f, NEW iter, Sums(iter, f, S), NEW s \in SUBSET S, s # {}
    PROVE  /\ (CHOOSE x \in s : TRUE) \in s
           /\ iter[s] = f[CHOOSE x \in s : TRUE] + iter[s \ {CHOOSE x \in s : TRUE}]
  BY DEF Sums

(* Naturals have sums that are naturals.                                   *)
LEMMA SumIsNat ==
    ASSUME NEW S, IsFiniteSet(S), NEW f, \A x \in S : f[x] \in Nat, NEW iter, Sums(iter, f, S)
    PROVE  iter[{}] = 0 /\ \A s \in SUBSET S : iter[s] \in Nat
  <1> DEFINE P == {s \in SUBSET S : iter[s] \in Nat}
             Elem(s) == CHOOSE x \in s : TRUE
  <1>1. iter[{}] = 0
    BY DEF Sums
  <1>2. \A s \in SUBSET S : s # {} /\ s \ {Elem(s)} \in P => s \in P
    <2> SUFFICES ASSUME NEW s \in SUBSET S, s # {}, s \ {Elem(s)} \in P
                 PROVE  iter[s] \in Nat
      OBVIOUS
    <2>1. Elem(s) \in s /\ iter[s] = f[Elem(s)] + iter[s \ {Elem(s)}]
      BY SumStep
    <2>2. f[Elem(s)] \in Nat /\ iter[s \ {Elem(s)}] \in Nat
      BY <2>1
    <2> HIDE DEF Elem
    <2> QED  BY <2>1, <2>2
  <1>3. SUBSET S \subseteq P
    <2>1. {} \in P
      BY <1>1
    <2> HIDE DEF P
    <2> QED  BY <1>2, <2>1, SubsetInduction
  <1> QED  BY <1>1, <1>3

(* As many elements as have a value that is not 0 are no more than the sum.*)
LEMMA SumBoundsSupport ==
    ASSUME NEW S, IsFiniteSet(S), NEW f, \A y \in S : f[y] \in Nat, NEW iter, Sums(iter, f, S)
    PROVE  /\ Cardinality({y \in S : f[y] > 0}) \in Nat
           /\ Cardinality({y \in S : f[y] > 0}) <= iter[S]
  <1> DEFINE Support(s) == {y \in s : f[y] > 0}
             P == {s \in SUBSET S : Cardinality(Support(s)) <= iter[s]}
             Elem(s) == CHOOSE y \in s : TRUE
  <1>1. iter[{}] = 0 /\ \A s \in SUBSET S : iter[s] \in Nat
    BY SumIsNat
  <1>2. \A s \in SUBSET S : IsFiniteSet(Support(s)) /\ Cardinality(Support(s)) \in Nat
    BY FS_Subset, FS_CardinalityType
  <1>3. \A s \in SUBSET S : s # {} /\ s \ {Elem(s)} \in P => s \in P
    <2> SUFFICES ASSUME NEW s \in SUBSET S, s # {}, s \ {Elem(s)} \in P
                 PROVE  Cardinality(Support(s)) <= iter[s]
      OBVIOUS
    <2>1. Elem(s) \in s /\ iter[s] = f[Elem(s)] + iter[s \ {Elem(s)}]
      BY SumStep
    <2> HIDE DEF Elem
    <2> DEFINE x == Elem(s)
               u == Support(s \ {x})
    <2>2. f[x] \in Nat /\ iter[s \ {x}] \in Nat /\ Cardinality(u) <= iter[s \ {x}]
          /\ IsFiniteSet(u) /\ Cardinality(u) \in Nat
      BY <1>1, <1>2, <2>1
    <2>3. CASE f[x] > 0
      <3>1. Support(s) = u \cup {x} /\ x \notin u
        BY <2>1, <2>3
      <3> HIDE DEF u, x
      <3>2. Cardinality(u \cup {x}) = Cardinality(u) + 1
        BY <2>2, <3>1, FS_AddElement
      <3> HIDE DEF Support
      <3> QED  BY <2>1, <2>2, <2>3, <3>1, <3>2 DEF x
    <2>4. CASE ~(f[x] > 0)
      <3>1. Support(s) = u
        BY <2>1, <2>4
      <3> HIDE DEF Support, u, x
      <3> QED  BY <2>1, <2>2, <2>4, <3>1 DEF x
    <2> QED  BY <2>3, <2>4
  <1>4. SUBSET S \subseteq P
    <2>1. {} \in P
      <3>1. Support({}) = {}
        OBVIOUS
      <3> HIDE DEF Support
      <3>2. Cardinality(Support({})) = 0 /\ iter[{}] = 0
        BY <1>1, <3>1, FS_EmptySet
      <3> QED  BY <3>2
    <2> HIDE DEF P
    <2> QED  BY <1>3, <2>1, SubsetInduction
  <1> QED  BY <1>2, <1>4

-----------------------------------------------------------------------------
(* The sum of the values of a function.                                    *)
Total(f) == FoldFunction(LAMBDA n, m : n + m, 0, f)

(* The sum of the values of a function is a natural, as large as there are *)
(* values that are not 0.                                                  *)
LEMMA TotalIs ==
    ASSUME NEW S, IsFiniteSet(S), NEW f \in [S -> Nat]
    PROVE  /\ Total(f) \in Nat
           /\ Cardinality({y \in S : f[y] > 0}) \in Nat
           /\ Cardinality({y \in S : f[y] > 0}) <= Total(f)
  <1>1. PICK iter : Sums(iter, f, S) /\ Total(f) = iter[S]
    BY FoldIsSum DEF Total
  <1>2. iter[S] \in Nat
    BY <1>1, SumIsNat
  <1> QED  BY <1>1, <1>2, SumBoundsSupport

(* Zeros have the sum 0.                                                   *)
LEMMA TotalOfZeros ==
    ASSUME NEW S, IsFiniteSet(S), NEW f \in [S -> Nat], \A x \in S : f[x] = 0
    PROVE  Total(f) = 0
  <1>1. PICK iter : Sums(iter, f, S) /\ Total(f) = iter[S]
    BY FoldIsSum DEF Total
  <1> DEFINE P == {s \in SUBSET S : iter[s] = 0}
             Elem(s) == CHOOSE x \in s : TRUE
  <1>2. \A s \in SUBSET S : s # {} /\ s \ {Elem(s)} \in P => s \in P
    <2> SUFFICES ASSUME NEW s \in SUBSET S, s # {}, s \ {Elem(s)} \in P
                 PROVE  iter[s] = 0
      OBVIOUS
    <2>1. Elem(s) \in s /\ iter[s] = f[Elem(s)] + iter[s \ {Elem(s)}]
      BY <1>1, SumStep
    <2>2. f[Elem(s)] = 0 /\ iter[s \ {Elem(s)}] = 0
      BY <2>1
    <2> HIDE DEF Elem
    <2> QED  BY <2>1, <2>2
  <1>3. SUBSET S \subseteq P
    <2>1. {} \in P
      BY <1>1, SumIsNat
    <2> HIDE DEF P
    <2> QED  BY <1>2, <2>1, SubsetInduction
  <1> QED  BY <1>1, <1>3

(* A value that changes by d changes the sum by d.                         *)
LEMMA TotalUpdate ==
    ASSUME NEW S, IsFiniteSet(S), NEW f \in [S -> Nat], NEW g \in [S -> Nat], NEW x \in S, NEW d \in Int,
           \A y \in S : g[y] = IF y = x THEN f[y] + d ELSE f[y]
    PROVE  Total(g) = Total(f) + d
  <1>1. PICK iter : Sums(iter, f, S) /\ Total(f) = iter[S]
    BY FoldIsSum DEF Total
  <1>2. PICK iter2 : Sums(iter2, g, S) /\ Total(g) = iter2[S]
    BY FoldIsSum DEF Total
  <1> DEFINE D(s) == IF x \in s THEN d ELSE 0
             P == {s \in SUBSET S : iter2[s] = iter[s] + D(s)}
             Elem(s) == CHOOSE y \in s : TRUE
  <1>3. /\ iter[{}] = 0 /\ \A s \in SUBSET S : iter[s] \in Nat
        /\ iter2[{}] = 0 /\ \A s \in SUBSET S : iter2[s] \in Nat
    BY <1>1, <1>2, SumIsNat
  <1>4. \A s \in SUBSET S : s # {} /\ s \ {Elem(s)} \in P => s \in P
    <2> SUFFICES ASSUME NEW s \in SUBSET S, s # {}, s \ {Elem(s)} \in P
                 PROVE  iter2[s] = iter[s] + D(s)
      OBVIOUS
    <2>1. Elem(s) \in s /\ iter[s] = f[Elem(s)] + iter[s \ {Elem(s)}]
          /\ iter2[s] = g[Elem(s)] + iter2[s \ {Elem(s)}]
      <3>1. Elem(s) \in s /\ iter[s] = f[Elem(s)] + iter[s \ {Elem(s)}]
        BY <1>1, SumStep
      <3>2. iter2[s] = g[Elem(s)] + iter2[s \ {Elem(s)}]
        BY <1>2, SumStep
      <3> QED  BY <3>1, <3>2
    <2> HIDE DEF Elem
    <2>2. /\ f[Elem(s)] \in Nat /\ iter[s \ {Elem(s)}] \in Nat
          /\ g[Elem(s)] = IF Elem(s) = x THEN f[Elem(s)] + d ELSE f[Elem(s)]
          /\ iter2[s \ {Elem(s)}] = iter[s \ {Elem(s)}] + D(s \ {Elem(s)})
      BY <1>3, <2>1
    <2>3. CASE Elem(s) = x
      <3>1. D(s) = d /\ D(s \ {Elem(s)}) = 0
        BY <2>1, <2>3
      <3> QED  BY <2>1, <2>2, <2>3, <3>1
    <2>4. CASE Elem(s) # x
      <3>1. D(s) = D(s \ {Elem(s)}) /\ D(s) \in Int
        BY <2>4
      <3> HIDE DEF D
      <3> QED  BY <2>1, <2>2, <2>4, <3>1
    <2> QED  BY <2>3, <2>4
  <1>5. SUBSET S \subseteq P
    <2>1. {} \in P
      BY <1>3
    <2> HIDE DEF P
    <2> QED  BY <1>4, <2>1, SubsetInduction
  <1> QED  BY <1>1, <1>2, <1>5

(* A value that is replaced changes the sum by the difference.             *)
LEMMA TotalExcept ==
    ASSUME NEW S, IsFiniteSet(S), NEW f \in [S -> Nat], NEW x \in S, NEW n \in Nat
    PROVE  Total([f EXCEPT ![x] = n]) = Total(f) - f[x] + n
  <1> DEFINE g == [f EXCEPT ![x] = n]
             d == n - f[x]
  <1>1. g \in [S -> Nat] /\ d \in Int /\ \A y \in S : g[y] = IF y = x THEN f[y] + d ELSE f[y]
    OBVIOUS
  <1>2. Total(f) \in Nat /\ f[x] \in Nat
    BY TotalIs
  <1> HIDE DEF g
  <1>3. Total(g) = Total(f) + d
    <2> HIDE DEF d
    <2> QED  BY <1>1, TotalUpdate
  <1> QED  BY <1>2, <1>3 DEF g

-----------------------------------------------------------------------------
(* Sequences that are put together, and functions defined by steps.        *)

(* Where the elements of sequences that were put together come from: the   *)
(* i-th is number in[i] of sequence at[i], in this order, none left out.   *)
Places(whole, seqs, n, at, in) ==
    /\ \A i \in 1 .. Len(whole) : /\ at[i] \in 1 .. n /\ in[i] \in 1 .. Len(seqs[at[i]])
                                  /\ whole[i] = seqs[at[i]][in[i]]
    /\ \A i, j \in 1 .. Len(whole) : i < j => at[i] < at[j] \/ (at[i] = at[j] /\ in[i] < in[j])
    /\ \A k \in 1 .. n : \A l \in 1 .. Len(seqs[k]) : \E i \in 1 .. Len(whole) : at[i] = k /\ in[i] = l

(* Another sequence is put after them.                                     *)
LEMMA PlacesOfMore ==
    ASSUME NEW S, NEW whole \in Seq(S), NEW seqs, NEW n \in Nat, NEW at, NEW in, Places(whole, seqs, n, at, in),
           seqs[n + 1] \in Seq(S)
    PROVE  \E at2, in2 : Places(whole \o seqs[n + 1], seqs, n + 1, at2, in2)
  <1> DEFINE more == seqs[n + 1]
             w == Len(whole)
             m == Len(more)
             both == whole \o more
             at2 == [i \in 1 .. w + m |-> IF i <= w THEN at[i] ELSE n + 1]
             in2 == [i \in 1 .. w + m |-> IF i <= w THEN in[i] ELSE i - w]
  <1>1. w \in Nat /\ m \in Nat /\ Len(both) = w + m
        /\ \A i \in 1 .. w + m : both[i] = IF i <= w THEN whole[i] ELSE more[i - w]
    BY LenProperties, ConcatProperties
  <1> HIDE DEF w, m, both
  <1>2. ASSUME NEW i \in 1 .. w + m
        PROVE  /\ i <= w => i \in 1 .. w /\ at2[i] = at[i] /\ in2[i] = in[i] /\ both[i] = whole[i]
               /\ ~(i <= w) => i - w \in 1 .. m /\ at2[i] = n + 1 /\ in2[i] = i - w /\ both[i] = more[i - w]
    BY <1>1
  <1> HIDE DEF at2, in2
  <1>3. ASSUME NEW i \in 1 .. w + m
        PROVE  at2[i] \in 1 .. (n + 1) /\ in2[i] \in 1 .. Len(seqs[at2[i]]) /\ both[i] = seqs[at2[i]][in2[i]]
    <2>1. CASE i <= w
      <3>1. at[i] \in 1 .. n /\ in[i] \in 1 .. Len(seqs[at[i]]) /\ whole[i] = seqs[at[i]][in[i]]
        BY <1>2, <2>1 DEF Places, w
      <3>2. at[i] \in 1 .. (n + 1)
        BY <3>1
      <3> QED  BY <1>2, <2>1, <3>1, <3>2
    <2>2. CASE ~(i <= w)
      <3>1. n + 1 \in 1 .. (n + 1)
        OBVIOUS
      <3> QED  BY <1>2, <2>2, <3>1 DEF m
    <2> QED  BY <2>1, <2>2
  <1>4. ASSUME NEW i \in 1 .. w + m, NEW j \in 1 .. w + m, i < j
        PROVE  at2[i] < at2[j] \/ (at2[i] = at2[j] /\ in2[i] < in2[j])
    <2>1. CASE j <= w
      <3>1. i <= w
        BY <1>1, <1>4, <2>1
      <3>2. at[i] < at[j] \/ (at[i] = at[j] /\ in[i] < in[j])
        BY <1>2, <1>4, <2>1, <3>1 DEF Places, w
      <3> QED  BY <1>2, <2>1, <3>1, <3>2
    <2>2. CASE ~(j <= w) /\ i <= w
      <3>1. at[i] \in 1 .. n
        BY <1>2, <2>2 DEF Places, w
      <3>2. at[i] < n + 1
        BY <3>1
      <3>3. at2[i] = at[i] /\ at2[j] = n + 1
        BY <1>2, <2>2
      <3> QED  BY <3>2, <3>3
    <2>3. CASE ~(i <= w)
      <3>1. ~(j <= w) /\ i - w < j - w
        BY <1>1, <1>4, <2>3
      <3> QED  BY <1>2, <2>3, <3>1
    <2> QED  BY <2>1, <2>2, <2>3
  <1>5. ASSUME NEW k \in 1 .. (n + 1), NEW l \in 1 .. Len(seqs[k])
        PROVE  \E i \in 1 .. w + m : at2[i] = k /\ in2[i] = l
    <2>1. CASE k \in 1 .. n
      <3>1. PICK i \in 1 .. w : at[i] = k /\ in[i] = l
        BY <2>1 DEF Places, w
      <3>2. i \in 1 .. w + m /\ i <= w
        BY <1>1
      <3> QED  BY <1>2, <3>1, <3>2
    <2>2. CASE k = n + 1
      <3>1. l \in 1 .. m
        <4>1. Len(seqs[k]) = m
          BY <2>2 DEF m
        <4> QED  BY <4>1
      <3>2. w + l \in 1 .. w + m /\ ~(w + l <= w) /\ (w + l) - w = l
        BY <1>1, <3>1
      <3> QED  BY <1>2, <2>2, <3>2
    <2> QED  BY <2>1, <2>2
  <1>6. Places(both, seqs, n + 1, at2, in2)
    BY <1>1, <1>3, <1>4, <1>5 DEF Places
  <1> QED  BY <1>6 DEF both

(* FlattenSeq puts sequences together.                                     *)
LEMMA FlattenSeqPlaces ==
    ASSUME NEW S, NEW seqs, Len(seqs) \in Nat \ {0}, \A k \in 1 .. Len(seqs) : seqs[k] \in Seq(S)
    PROVE  /\ FlattenSeq(seqs) \in Seq(S)
           /\ \E at, in : Places(FlattenSeq(seqs), seqs, Len(seqs), at, in)
  <1> DEFINE n == Len(seqs)
  <1>1. PICK f : /\ FlattenSeq(seqs) = f[n]
                 /\ f[1] = seqs[1]
                 /\ \A i \in 2 .. n : f[i] = f[i - 1] \o seqs[i]
    BY FlattenSeqSteps
  <1> DEFINE Done(k) == f[k] \in Seq(S) /\ \E at, in : Places(f[k], seqs, k, at, in)
             N == {k \in Nat : k + 1 \in 1 .. n => Done(k + 1)}
  <1>2. Done(1)
    <2> DEFINE l == Len(seqs[1])
               at == [i \in 1 .. l |-> 1]
               in == [i \in 1 .. l |-> i]
    <2>1. seqs[1] \in Seq(S) /\ l \in Nat
      BY LenProperties
    <2>2. Places(seqs[1], seqs, 1, at, in)
      <3> HIDE DEF l
      <3>1. \A i \in 1 .. l : at[i] = 1 /\ in[i] = i
        OBVIOUS
      <3> HIDE DEF at, in
      <3> QED  BY <2>1, <3>1 DEF Places, l
    <2> HIDE DEF l, at, in
    <2> QED  BY <1>1, <2>1, <2>2
  <1>3. 0 \in N
    BY <1>2
  <1>4. ASSUME NEW k \in Nat, k \in N
        PROVE  k + 1 \in N
    <2> SUFFICES ASSUME (k + 1) + 1 \in 1 .. n
                 PROVE  Done((k + 1) + 1)
      OBVIOUS
    <2>1. n \in Nat /\ k + 1 \in 1 .. n /\ k + 1 \in Nat /\ (k + 1) + 1 \in 2 .. n /\ ((k + 1) + 1) - 1 = k + 1
      OBVIOUS
    <2>2. Done(k + 1)
      BY <1>4, <2>1
    <2>3. f[(k + 1) + 1] = f[k + 1] \o seqs[(k + 1) + 1] /\ seqs[(k + 1) + 1] \in Seq(S)
      BY <1>1, <2>1
    <2>4. f[(k + 1) + 1] \in Seq(S)
      BY <2>2, <2>3, ConcatProperties
    <2>5. \E at, in : Places(f[(k + 1) + 1], seqs, (k + 1) + 1, at, in)
      BY <2>1, <2>2, <2>3, PlacesOfMore
    <2> QED  BY <2>4, <2>5
  <1>5. Nat \subseteq N
    <2> HIDE DEF N
    <2> QED  BY <1>3, <1>4, NatSetInduction
  <1>6. n - 1 \in Nat /\ (n - 1) + 1 = n /\ n \in 1 .. n
    OBVIOUS
  <1>7. Done(n)
    <2>1. n - 1 \in N
      BY <1>5, <1>6
    <2> HIDE DEF Done
    <2> QED  BY <1>6, <2>1
  <1> QED  BY <1>1, <1>7

(* An element is appended.                                                 *)
LEMMA AppendSet ==
    ASSUME NEW S, NEW s \in Seq(S), NEW e \in S
    PROVE  /\ Append(s, e) \in Seq(S) /\ Len(Append(s, e)) = Len(s) + 1 /\ Len(s) \in Nat
           /\ DOMAIN s = 1 .. Len(s) /\ DOMAIN Append(s, e) = 1 .. Len(s) + 1
           /\ \A i \in 1 .. Len(s) : Append(s, e)[i] = s[i]
           /\ Append(s, e)[Len(s) + 1] = e
           /\ ToSet(Append(s, e)) = ToSet(s) \cup {e}
  <1>1. PICK t, n : t = Append(s, e) /\ n = Len(s)
    OBVIOUS
  <1>2. /\ t \in Seq(S) /\ Len(t) = n + 1 /\ n \in Nat /\ DOMAIN s = 1 .. n /\ DOMAIN t = 1 .. (n + 1)
        /\ \A i \in 1 .. n : t[i] = s[i]
        /\ t[n + 1] = e
    BY <1>1, AppendProperties, LenProperties
  <1>3. ToSet(t) = ToSet(s) \cup {e}
    <2>1. 1 .. (n + 1) = (1 .. n) \cup {n + 1}
      BY <1>2
    <2>2. ToSet(t) = {t[i] : i \in (1 .. n) \cup {n + 1}} /\ ToSet(s) = {s[i] : i \in 1 .. n}
      BY <1>2, <2>1 DEF ToSet
    <2> QED  BY <1>2, <2>2
  <1> QED  BY <1>1, <1>2, <1>3

(* The values that a function has on a finite set are no more than its     *)
(* elements, and no fewer if they differ.                                  *)
LEMMA ValuesAreCounted ==
    ASSUME NEW S, IsFiniteSet(S), NEW f
    PROVE  LET V == {f[x] : x \in S} IN
           /\ IsFiniteSet(V) /\ Cardinality(V) \in Nat /\ Cardinality(S) \in Nat
           /\ Cardinality(V) <= Cardinality(S)
           /\ (\A x, y \in S : f[x] = f[y] => x = y) => Cardinality(V) = Cardinality(S)
  <1> DEFINE V == {f[x] : x \in S}
             g == [x \in S |-> f[x]]
  <1>1. g \in Surjection(S, V)
    BY DEF Surjection
  <1>2. (\A x, y \in S : f[x] = f[y] => x = y) => g \in Injection(S, V)
    BY DEF Injection, IsInjective
  <1> HIDE DEF g
  <1>3. IsFiniteSet(V) /\ Cardinality(V) <= Cardinality(S)
        /\ (Cardinality(V) = Cardinality(S) <=> g \in Injection(S, V))
    BY <1>1, FS_Surjection
  <1>4. Cardinality(V) \in Nat /\ Cardinality(S) \in Nat
    BY <1>3, FS_CardinalityType
  <1> QED  BY <1>2, <1>3, <1>4

(* A function on the subsets of a set, given by its value for the empty    *)
(* set, and for the others by a step from the set without an element of    *)
(* theirs.                                                                 *)
Steps(iter, S, base, elem, step) ==
    \A s \in SUBSET S : iter[s] = IF s = {} THEN base ELSE step[<<elem[s], iter[s \ {elem[s]}]>>]

(* There is such a function on the subsets of a finite set.                *)
LEMMA StepsExist ==
    ASSUME NEW S, IsFiniteSet(S), NEW V, NEW base \in V, NEW elem, \A s \in SUBSET S : s # {} => elem[s] \in s,
           NEW step \in [S \X V -> V]
    PROVE  \E iter \in [SUBSET S -> V] : Steps(iter, S, base, elem, step)
  <1> DEFINE Value(g, s) == IF s = {} THEN base ELSE step[<<elem[s], g[s \ {elem[s]}]>>]
             UpTo(n, g) == \A s \in SUBSET S : Cardinality(s) <= n => g[s] = Value(g, s)
             N == {n \in Nat : \E g \in [SUBSET S -> V] : UpTo(n, g)}
  <1>1. \A s \in SUBSET S : IsFiniteSet(s) /\ Cardinality(s) \in Nat
    BY FS_Subset, FS_CardinalityType
  <1>2. \A s \in SUBSET S : s # {} => /\ s \ {elem[s]} \in SUBSET S
                                      /\ Cardinality(s \ {elem[s]}) = Cardinality(s) - 1
    BY <1>1, FS_RemoveElement
  <1>3. \A g \in [SUBSET S -> V] : \A s \in SUBSET S : Value(g, s) \in V
    <2> SUFFICES ASSUME NEW g \in [SUBSET S -> V], NEW s \in SUBSET S, s # {}
                 PROVE  step[<<elem[s], g[s \ {elem[s]}]>>] \in V
      OBVIOUS
    <2>1. elem[s] \in S /\ g[s \ {elem[s]}] \in V
      BY <1>2
    <2> QED  BY <2>1
  <1>4. 0 \in N
    <2> DEFINE g == [s \in SUBSET S |-> base]
    <2>1. UpTo(0, g) /\ g \in [SUBSET S -> V]
      BY <1>1, FS_EmptySet
    <2> HIDE DEF g, UpTo
    <2> QED  BY <2>1
  <1>5. ASSUME NEW n \in Nat, n \in N
        PROVE  n + 1 \in N
    <2>1. PICK g \in [SUBSET S -> V] : UpTo(n, g)
      BY <1>5
    <2> DEFINE h == [s \in SUBSET S |-> IF Cardinality(s) <= n THEN g[s] ELSE Value(g, s)]
    <2>2. h \in [SUBSET S -> V]
      <3> HIDE DEF Value
      <3> QED  BY <1>3
    <2>3. ASSUME NEW s \in SUBSET S, Cardinality(s) <= n + 1
          PROVE  h[s] = Value(h, s)
      <3>1. s # {} => h[s \ {elem[s]}] = g[s \ {elem[s]}]
        BY <1>1, <1>2, <2>3
      <3>2. Value(h, s) = Value(g, s)
        BY <3>1
      <3>3. h[s] = Value(g, s)
        BY <2>1
      <3> HIDE DEF h, Value
      <3> QED  BY <3>2, <3>3
    <2>4. UpTo(n + 1, h)
      <3> HIDE DEF h, Value
      <3> QED  BY <2>3
    <2> HIDE DEF h, UpTo
    <2> QED  BY <2>2, <2>4
  <1>6. Nat \subseteq N
    <2> HIDE DEF N
    <2> QED  BY <1>4, <1>5, NatSetInduction
  <1>7. Cardinality(S) \in Nat /\ \A s \in SUBSET S : Cardinality(s) <= Cardinality(S)
    BY FS_Subset, FS_CardinalityType
  <1>8. PICK g \in [SUBSET S -> V] : UpTo(Cardinality(S), g)
    BY <1>6, <1>7
  <1>9. \A s \in SUBSET S : g[s] = Value(g, s)
    BY <1>7, <1>8
  <1> QED  BY <1>9 DEF Steps

-----------------------------------------------------------------------------
(* Sums over sets.                                                         *)

(* The sum of the values of f over S.                                      *)
SumOf(f, S) == (CHOOSE iter : Sums(iter, f, S))[S]

(* Induction over the subsets of a finite set, one element more at a time. *)
LEMMA AddInduction ==
    ASSUME NEW S, IsFiniteSet(S), NEW P, {} \in P,
           \A s \in SUBSET S : \A x \in S \ s : s \in P => s \cup {x} \in P
    PROVE  SUBSET S \subseteq P
  <1>1. ASSUME NEW s \in SUBSET S, s # {}, s \ {CHOOSE x \in s : TRUE} \in P
        PROVE  s \in P
    <2>1. PICK x : x = CHOOSE y \in s : TRUE
      OBVIOUS
    <2>2. x \in s /\ s \ {x} \in P
      BY <1>1, <2>1
    <2>3. s \ {x} \in SUBSET S /\ x \in S \ (s \ {x}) /\ (s \ {x}) \cup {x} = s
      BY <2>2
    <2> QED  BY <2>2, <2>3
  <1> QED  BY <1>1, SubsetInduction

(* The sum over a subset is one of the sums that are added up to that over *)
(* the whole set.                                                          *)
LEMMA SumOfIs ==
    ASSUME NEW S, IsFiniteSet(S), NEW f, NEW iter, Sums(iter, f, S), NEW T \in SUBSET S
    PROVE  SumOf(f, T) = iter[T]
  <1>1. IsFiniteSet(T)
    BY FS_Subset
  <1>2. PICK it : it = CHOOSE i : Sums(i, f, T)
    OBVIOUS
  <1>3. Sums(it, f, T) /\ SumOf(f, T) = it[T]
    <2>1. \E i : Sums(i, f, T)
      BY <1>1, SumsExist
    <2> QED  BY <1>2, <2>1 DEF SumOf
  <1> DEFINE P == {s \in SUBSET T : it[s] = iter[s]}
             Elem(s) == CHOOSE x \in s : TRUE
  <1>4. {} \in P
    BY <1>3 DEF Sums
  <1>5. ASSUME NEW s \in SUBSET T, s # {}, s \ {Elem(s)} \in P
        PROVE  s \in P
    <2>1. s \in SUBSET S /\ s # {} /\ it[s \ {Elem(s)}] = iter[s \ {Elem(s)}]
      BY <1>5
    <2>2. it[s] = f[Elem(s)] + it[s \ {Elem(s)}]
      BY <1>3, <2>1, SumStep
    <2>3. iter[s] = f[Elem(s)] + iter[s \ {Elem(s)}]
      BY <2>1, SumStep
    <2> HIDE DEF Elem
    <2> QED  BY <2>1, <2>2, <2>3
  <1>6. SUBSET T \subseteq P
    <2> HIDE DEF P
    <2> QED  BY <1>1, <1>4, <1>5, SubsetInduction
  <1> QED  BY <1>3, <1>6

(* Any element may be taken out of a sum of naturals.                      *)
LEMMA SumsTakeOut ==
    ASSUME NEW S, IsFiniteSet(S), NEW f, \A x \in S : f[x] \in Nat, NEW iter, Sums(iter, f, S)
    PROVE  \A s \in SUBSET S : \A x \in s : iter[s] = f[x] + iter[s \ {x}]
  <1> DEFINE Elem(s) == CHOOSE x \in s : TRUE
             N == {n \in Nat : \A s \in SUBSET S : Cardinality(s) <= n => \A x \in s : iter[s] = f[x] + iter[s \ {x}]}
  <1>1. \A s \in SUBSET S : IsFiniteSet(s) /\ Cardinality(s) \in Nat
    BY FS_Subset, FS_CardinalityType
  <1>2. \A s \in SUBSET S : iter[s] \in Nat
    BY SumIsNat
  <1>3. 0 \in N
    <2>1. \A s \in SUBSET S : Cardinality(s) <= 0 => s = {}
      BY <1>1, FS_EmptySet
    <2> QED  BY <2>1
  <1>4. ASSUME NEW n \in Nat, n \in N
        PROVE  n + 1 \in N
    <2> SUFFICES ASSUME NEW s \in SUBSET S, Cardinality(s) <= n + 1, NEW x \in s
                 PROVE  iter[s] = f[x] + iter[s \ {x}]
      OBVIOUS
    <2>1. PICK c : c = Elem(s)
      OBVIOUS
    <2>2. c \in s /\ iter[s] = f[c] + iter[s \ {c}]
      BY <2>1, SumStep
    <2>3. CASE x = c
      BY <2>2, <2>3
    <2>4. CASE x # c
      <3>1. s \ {c} \in SUBSET S /\ s \ {x} \in SUBSET S /\ x \in s \ {c} /\ c \in s \ {x}
        BY <2>2, <2>4
      <3>2. Cardinality(s \ {c}) <= n /\ Cardinality(s \ {x}) <= n
        <4>1. Cardinality(s \ {c}) = Cardinality(s) - 1 /\ Cardinality(s \ {x}) = Cardinality(s) - 1
          BY <1>1, <2>2, FS_RemoveElement
        <4> QED  BY <1>1, <4>1
      <3>3. iter[s \ {c}] = f[x] + iter[(s \ {c}) \ {x}]
        BY <1>4, <3>1, <3>2
      <3>4. iter[s \ {x}] = f[c] + iter[(s \ {x}) \ {c}]
        BY <1>4, <3>1, <3>2
      <3>5. (s \ {c}) \ {x} = (s \ {x}) \ {c} /\ (s \ {c}) \ {x} \in SUBSET S
        OBVIOUS
      <3>6. PICK v, fc, fx : v = iter[(s \ {c}) \ {x}] /\ fc = f[c] /\ fx = f[x]
        OBVIOUS
      <3>7. v \in Nat /\ fc \in Nat /\ fx \in Nat
        BY <1>2, <2>2, <3>5, <3>6
      <3>8. iter[s] = fc + (fx + v) /\ f[x] + iter[s \ {x}] = fx + (fc + v)
        BY <2>2, <3>3, <3>4, <3>5, <3>6
      <3>9. fc + (fx + v) = fx + (fc + v)
        BY <3>7
      <3> QED  BY <3>8, <3>9
    <2> QED  BY <2>3, <2>4
  <1>5. Nat \subseteq N
    <2> HIDE DEF N
    <2> QED  BY <1>3, <1>4, NatSetInduction
  <1>6. \A s \in SUBSET S : Cardinality(s) \in N /\ Cardinality(s) <= Cardinality(s)
    <2> HIDE DEF N
    <2> QED  BY <1>1, <1>5
  <1> QED  BY <1>6

(* The empty sum, and one element more.                                    *)
LEMMA SumOfMore ==
    ASSUME NEW S, IsFiniteSet(S), NEW f, \A x \in S : f[x] \in Nat
    PROVE  /\ SumOf(f, {}) = 0 /\ SumOf(f, S) \in Nat
           /\ \A s \in SUBSET S : SumOf(f, s) \in Nat
           /\ \A s \in SUBSET S : \A x \in S \ s : SumOf(f, s \cup {x}) = f[x] + SumOf(f, s)
  <1>1. PICK iter : Sums(iter, f, S)
    BY SumsExist
  <1>2. \A s \in SUBSET S : SumOf(f, s) = iter[s] /\ iter[s] \in Nat
    <2>1. \A s \in SUBSET S : SumOf(f, s) = iter[s]
      BY <1>1, SumOfIs
    <2>2. \A s \in SUBSET S : iter[s] \in Nat
      BY <1>1, SumIsNat
    <2> QED  BY <2>1, <2>2
  <1>3. SumOf(f, {}) = 0
    <2>1. iter[{}] = 0
      BY <1>1, SumIsNat
    <2> QED  BY <1>2, <2>1
  <1>4. ASSUME NEW s \in SUBSET S, NEW x \in S \ s
        PROVE  SumOf(f, s \cup {x}) = f[x] + SumOf(f, s)
    <2>1. s \cup {x} \in SUBSET S /\ (s \cup {x}) \ {x} = s /\ x \in s \cup {x}
      OBVIOUS
    <2>2. iter[s \cup {x}] = f[x] + iter[s]
      BY <1>1, <2>1, SumsTakeOut
    <2> QED  BY <1>2, <2>1, <2>2
  <1> QED  BY <1>2, <1>3, <1>4

(* The sum of sums.                                                        *)
LEMMA SumOfBoth ==
    ASSUME NEW S, IsFiniteSet(S), NEW f, NEW g, NEW h, \A x \in S : f[x] \in Nat /\ g[x] \in Nat /\ h[x] = f[x] + g[x]
    PROVE  SumOf(h, S) = SumOf(f, S) + SumOf(g, S)
  <1> DEFINE P == {s \in SUBSET S : SumOf(h, s) = SumOf(f, s) + SumOf(g, s)}
  <1>0. \A x \in S : f[x] \in Nat /\ g[x] \in Nat /\ h[x] \in Nat
    OBVIOUS
  <1>1. {} \in P
    <2>1. SumOf(f, {}) = 0
      BY SumOfMore
    <2>2. SumOf(g, {}) = 0
      BY SumOfMore
    <2>3. SumOf(h, {}) = 0
      BY <1>0, SumOfMore
    <2> QED  BY <2>1, <2>2, <2>3
  <1>2. ASSUME NEW s \in SUBSET S, NEW x \in S \ s, s \in P
        PROVE  s \cup {x} \in P
    <2>1. SumOf(f, s \cup {x}) = f[x] + SumOf(f, s)
      BY SumOfMore
    <2>2. SumOf(g, s \cup {x}) = g[x] + SumOf(g, s)
      BY SumOfMore
    <2>3. SumOf(h, s \cup {x}) = h[x] + SumOf(h, s)
      BY <1>0, SumOfMore
    <2>4. f[x] \in Nat /\ g[x] \in Nat /\ h[x] = f[x] + g[x] /\ SumOf(h, s) = SumOf(f, s) + SumOf(g, s)
      BY <1>2
    <2>5. SumOf(f, s) \in Nat
      BY SumOfMore
    <2>6. SumOf(g, s) \in Nat
      BY SumOfMore
    <2>7. PICK fs, gs, fx, gx : fs = SumOf(f, s) /\ gs = SumOf(g, s) /\ fx = f[x] /\ gx = g[x]
      OBVIOUS
    <2>8. fs \in Nat /\ gs \in Nat /\ fx \in Nat /\ gx \in Nat
      BY <2>4, <2>5, <2>6, <2>7
    <2>9. SumOf(h, s \cup {x}) = (fx + gx) + (fs + gs)
      BY <2>3, <2>4, <2>7
    <2>10. SumOf(f, s \cup {x}) + SumOf(g, s \cup {x}) = (fx + fs) + (gx + gs)
      BY <2>1, <2>2, <2>7
    <2>11. (fx + gx) + (fs + gs) = (fx + fs) + (gx + gs)
      BY <2>8
    <2> QED  BY <2>9, <2>10, <2>11
  <1>3. SUBSET S \subseteq P
    <2> HIDE DEF P
    <2> QED  BY <1>1, <1>2, AddInduction
  <1> QED  BY <1>3

(* The sum over two sets without a common element.                         *)
LEMMA SumOfUnion ==
    ASSUME NEW S, IsFiniteSet(S), NEW f, \A x \in S : f[x] \in Nat, NEW A \in SUBSET S, NEW B \in SUBSET S, A \cap B = {}
    PROVE  SumOf(f, A \cup B) = SumOf(f, A) + SumOf(f, B)
  <1> DEFINE P == {b \in SUBSET B : SumOf(f, A \cup b) = SumOf(f, A) + SumOf(f, b)}
  <1>0. IsFiniteSet(B)
    BY FS_Subset
  <1>1. {} \in P
    <2>1. SumOf(f, {}) = 0
      BY SumOfMore
    <2>2. SumOf(f, A) \in Nat
      BY SumOfMore
    <2>3. A \cup {} = A
      OBVIOUS
    <2> QED  BY <2>1, <2>2, <2>3
  <1>2. ASSUME NEW b \in SUBSET B, NEW x \in B \ b, b \in P
        PROVE  b \cup {x} \in P
    <2>1. b \in SUBSET S /\ A \cup b \in SUBSET S /\ x \in S \ b /\ x \in S \ (A \cup b)
          /\ A \cup (b \cup {x}) = (A \cup b) \cup {x}
      OBVIOUS
    <2>2. SumOf(f, b \cup {x}) = f[x] + SumOf(f, b) /\ SumOf(f, b) \in Nat /\ SumOf(f, A) \in Nat
      <3>1. SumOf(f, b \cup {x}) = f[x] + SumOf(f, b)
        BY <2>1, SumOfMore
      <3>2. SumOf(f, b) \in Nat /\ SumOf(f, A) \in Nat
        BY <2>1, SumOfMore
      <3> QED  BY <3>1, <3>2
    <2>3. SumOf(f, (A \cup b) \cup {x}) = f[x] + SumOf(f, A \cup b)
      <3>1. PICK s : s = A \cup b
        OBVIOUS
      <3>2. s \in SUBSET S /\ x \in S \ s
        BY <2>1, <3>1
      <3>3. SumOf(f, s \cup {x}) = f[x] + SumOf(f, s)
        BY <3>2, SumOfMore
      <3> QED  BY <3>1, <3>3
    <2>4. SumOf(f, A \cup b) = SumOf(f, A) + SumOf(f, b) /\ f[x] \in Nat
      BY <1>2
    <2>5. PICK fa, fb, fx : fa = SumOf(f, A) /\ fb = SumOf(f, b) /\ fx = f[x]
      OBVIOUS
    <2>6. fa \in Nat /\ fb \in Nat /\ fx \in Nat
      BY <2>2, <2>4, <2>5
    <2>7. SumOf(f, A \cup (b \cup {x})) = fx + (fa + fb)
      BY <2>1, <2>3, <2>4, <2>5
    <2>8. SumOf(f, A) + SumOf(f, b \cup {x}) = fa + (fx + fb)
      BY <2>2, <2>5
    <2>9. fx + (fa + fb) = fa + (fx + fb)
      BY <2>6
    <2> QED  BY <2>7, <2>8, <2>9
  <1>3. SUBSET B \subseteq P
    <2> HIDE DEF P
    <2> QED  BY <1>0, <1>1, <1>2, AddInduction
  <1> QED  BY <1>3

(* The elements for which a function has a value, or one of some values.   *)
Part(S, g, v) == {x \in S : g[x] = v}
Parts(S, g, V) == {x \in S : g[x] \in V}

(* What is added up by the values of another function, is added up once.   *)
LEMMA SumOfParts ==
    ASSUME NEW S, IsFiniteSet(S), NEW f, \A x \in S : f[x] \in Nat, NEW T, IsFiniteSet(T), NEW g, NEW h,
           \A t \in T : h[t] = SumOf(f, Part(S, g, t))
    PROVE  SumOf(h, T) = SumOf(f, Parts(S, g, T))
  <1> DEFINE P == {s \in SUBSET T : SumOf(h, s) = SumOf(f, Parts(S, g, s))}
  <1>0. \A t \in T : h[t] \in Nat
    <2>1. \A t : Part(S, g, t) \in SUBSET S
      BY DEF Part
    <2>2. \A s \in SUBSET S : SumOf(f, s) \in Nat
      BY SumOfMore
    <2>3. \A t \in T : h[t] = SumOf(f, Part(S, g, t))
      OBVIOUS
    <2> QED  BY <2>1, <2>2, <2>3
  <1>1. {} \in P
    <2>1. Parts(S, g, {}) = {}
      BY DEF Parts
    <2>2. SumOf(h, {}) = 0
      BY <1>0, SumOfMore
    <2>3. SumOf(f, {}) = 0
      BY SumOfMore
    <2> QED  BY <2>1, <2>2, <2>3
  <1>2. ASSUME NEW s \in SUBSET T, NEW t \in T \ s, s \in P
        PROVE  s \cup {t} \in P
    <2>1. Parts(S, g, s \cup {t}) = Parts(S, g, s) \cup Part(S, g, t) /\ Parts(S, g, s) \cap Part(S, g, t) = {}
          /\ Parts(S, g, s) \in SUBSET S /\ Part(S, g, t) \in SUBSET S
      BY DEF Part, Parts
    <2>2. h[t] = SumOf(f, Part(S, g, t)) /\ SumOf(h, s) = SumOf(f, Parts(S, g, s))
      BY <1>2
    <2>3. SumOf(f, Parts(S, g, s) \cup Part(S, g, t)) = SumOf(f, Parts(S, g, s)) + SumOf(f, Part(S, g, t))
      BY <2>1, SumOfUnion
    <2>4. SumOf(h, s \cup {t}) = h[t] + SumOf(h, s)
      BY <1>0, SumOfMore
    <2>5. SumOf(h, s) \in Nat /\ h[t] \in Nat
      BY <1>0, SumOfMore
    <2>6. PICK ps, pt : ps = SumOf(f, Parts(S, g, s)) /\ pt = SumOf(f, Part(S, g, t))
      OBVIOUS
    <2>7. ps \in Nat /\ pt \in Nat
      BY <2>2, <2>5, <2>6
    <2>8. SumOf(h, s \cup {t}) = pt + ps /\ SumOf(f, Parts(S, g, s \cup {t})) = ps + pt
      BY <2>1, <2>2, <2>3, <2>4, <2>6
    <2>9. SumOf(h, s \cup {t}) = SumOf(f, Parts(S, g, s \cup {t}))
      BY <2>7, <2>8
    <2> QED  BY <2>9
  <1>3. SUBSET T \subseteq P
    <2> HIDE DEF P
    <2> QED  BY <1>1, <1>2, AddInduction
  <1> QED  BY <1>3

(* Ones are counted.                                                       *)
LEMMA SumOfOnes ==
    ASSUME NEW S, IsFiniteSet(S), NEW f, \A x \in S : f[x] = 1
    PROVE  SumOf(f, S) = Cardinality(S)
  <1> DEFINE P == {s \in SUBSET S : SumOf(f, s) = Cardinality(s)}
  <1>0. \A x \in S : f[x] \in Nat
    OBVIOUS
  <1>1. {} \in P
    BY <1>0, SumOfMore, FS_EmptySet
  <1>2. ASSUME NEW s \in SUBSET S, NEW x \in S \ s, s \in P
        PROVE  s \cup {x} \in P
    <2>1. IsFiniteSet(s) /\ Cardinality(s) \in Nat
      BY FS_Subset, FS_CardinalityType
    <2>2. Cardinality(s \cup {x}) = Cardinality(s) + 1
      BY <2>1, FS_AddElement
    <2>3. SumOf(f, s \cup {x}) = f[x] + SumOf(f, s)
      BY <1>0, SumOfMore
    <2> QED  BY <1>2, <2>1, <2>2, <2>3
  <1>3. SUBSET S \subseteq P
    <2> HIDE DEF P
    <2> QED  BY <1>1, <1>2, AddInduction
  <1> QED  BY <1>3
=============================================================================
