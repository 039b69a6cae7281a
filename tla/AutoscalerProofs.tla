-------------------------- MODULE AutoscalerProofs --------------------------
(***************************************************************************)
(* The pools, for every value of the constants: Autoscaler's type          *)
(* invariant, the agreement of pools on machines they share, the room for  *)
(* the pods of a machine that is planned off, and for pools that share no  *)
(* machine the limits on the number that are on and the hold after a       *)
(* power-on.                                                               *)
(*                                                                         *)
(* The plan is made of folds.  What a fold returns is shown by the least   *)
(* number principle, once for every finite set (FoldExists, FoldStays).    *)
(***************************************************************************)
EXTENDS Autoscaler, FiniteSetTheorems, SequenceTheorems, WellFoundedInduction, NaturalsInduction, TLAPS

-----------------------------------------------------------------------------
(* Folds.                                                                  *)

\* A set of natural numbers that is not empty has a least element.
LEMMA Least ==
  ASSUME NEW T, T \subseteq Nat, T # {}
  PROVE  \E x \in T : \A y \in T : x =< y
<1> DEFINE R == OpToRel(<, Nat)
<1>1. IsWellFoundedOn(R, Nat)
  BY NatLessThanWellFounded
<1>2. PICK x \in T : \A y \in T : ~ (<<y, x>> \in R)
  <2> HIDE DEF R
  <2> QED BY <1>1, WFMin
<1>3. \A y \in T : ~(y < x)
  BY <1>2 DEF OpToRel
<1> HIDE DEF R
<1>4. \A y \in T : x =< y
  BY <1>3
<1> QED BY <1>4

\* A set of natural numbers below n that is not empty has a greatest element.
LEMMA Greatest ==
  ASSUME NEW n \in Nat, NEW T, T \subseteq 1..n, T # {}
  PROVE  Max(T) \in T /\ \A y \in T : Max(T) >= y
<1> DEFINE D == {n - x : x \in T}
<1>1. D \subseteq Nat /\ D # {}
  <2>1. \A x \in T : x \in Nat /\ n - x \in Nat
    OBVIOUS
  <2>2. D \subseteq Nat
    BY <2>1
  <2> QED BY <2>2
<1>2. PICK d \in D : \A e \in D : d =< e
  BY <1>1, Least
<1>3. PICK x \in T : d = n - x
  OBVIOUS
<1>4. \A y \in T : x >= y
  <2> TAKE y \in T
  <2>1. n - x =< n - y
    BY <1>2, <1>3
  <2>2. x \in Nat /\ y \in Nat
    OBVIOUS
  <2> QED BY <2>1, <2>2
<1> QED BY <1>4 DEF Max

\* c picks an element of every set that is not empty.
Picks(c, S) == \A t \in SUBSET S : t # {} => c[t] \in t

\* A function that takes its value at a set from that at the set without the
\* element picked is of type X at every subset of S, when each step keeps X.
LEMMA FoldStays ==
  ASSUME NEW S, IsFiniteSet(S), NEW c, Picks(c, S), NEW X, NEW h, h[{}] \in X,
         \A t \in SUBSET S : t # {} /\ h[t \ {c[t]}] \in X => h[t] \in X
  PROVE  \A t \in SUBSET S : h[t] \in X
<1> DEFINE Bad == {t \in SUBSET S : h[t] \notin X}
           T   == {Cardinality(t) : t \in Bad}
<1> SUFFICES ASSUME Bad # {} PROVE FALSE
  OBVIOUS
<1>1. \A t \in SUBSET S : IsFiniteSet(t) /\ Cardinality(t) \in Nat
  BY FS_Subset, FS_CardinalityType
<1>2. T \subseteq Nat /\ T # {}
  BY <1>1
<1>3. PICK k \in T : \A j \in T : k =< j
  BY <1>2, Least
<1>4. PICK t \in Bad : k = Cardinality(t)
  OBVIOUS
<1>5. t # {} /\ c[t] \in t
  BY DEF Picks
<1>6. Cardinality(t \ {c[t]}) = k - 1
  BY <1>1, <1>4, <1>5, FS_RemoveElement
<1>7. k \in Nat
  BY <1>2
<1>8. t \ {c[t]} \notin Bad
  BY <1>3, <1>6, <1>7
<1> QED BY <1>5, <1>8

\* What holds of a set when it holds of its proper subsets holds of every
\* subset of a finite set.
LEMMA SubsetInduction ==
  ASSUME NEW S, IsFiniteSet(S), NEW X,
         \A t \in SUBSET S : (\A u \in SUBSET t : u # t => u \in X) => t \in X
  PROVE  SUBSET S \subseteq X
<1> DEFINE Bad == {t \in SUBSET S : t \notin X}
           T   == {Cardinality(t) : t \in Bad}
<1> SUFFICES ASSUME Bad # {} PROVE FALSE
  OBVIOUS
<1>1. \A t \in SUBSET S : IsFiniteSet(t) /\ Cardinality(t) \in Nat
  BY FS_Subset, FS_CardinalityType
<1>2. T \subseteq Nat /\ T # {}
  BY <1>1
<1>3. PICK k \in T : \A j \in T : k =< j
  BY <1>2, Least
<1>4. PICK t \in Bad : k = Cardinality(t)
  OBVIOUS
<1>5. PICK u \in SUBSET t : u # t /\ u \notin X
  OBVIOUS
<1>6. Cardinality(u) <= Cardinality(t) /\ Cardinality(u) # Cardinality(t)
      /\ Cardinality(u) \in Nat /\ Cardinality(t) \in Nat
  BY <1>1, <1>5, FS_Subset, FS_CardinalityType
<1>7. Cardinality(u) \in T
  BY <1>5
<1> QED BY <1>3, <1>4, <1>6, <1>7

\* What holds of the empty set, and of a set when it holds of the set without
\* the element picked, holds of every subset of a finite set.
LEMMA PickInduction ==
  ASSUME NEW S, IsFiniteSet(S), NEW c, Picks(c, S), NEW X, {} \in X,
         \A t \in SUBSET S : t # {} /\ t \ {c[t]} \in X => t \in X
  PROVE  SUBSET S \subseteq X
<1> DEFINE h == [t \in SUBSET S |-> t]
<1>1. \A t \in SUBSET S : h[t] = t /\ h[t \ {c[t]}] = t \ {c[t]}
  OBVIOUS
<1>2. h[{}] \in X /\ \A t \in SUBSET S : t # {} /\ h[t \ {c[t]}] \in X => h[t] \in X
  BY <1>1
<1> HIDE DEF h
<1>3. \A t \in SUBSET S : h[t] \in X
  BY <1>2, FoldStays
<1> QED BY <1>1, <1>3

\* g takes its value at a set from that at the set without the element picked.
Unfolds(g, S, c, base, f) ==
  \A t \in SUBSET S : g[t] = IF t = {} THEN base ELSE f[<<g[t \ {c[t]}], c[t]>>]

\* Such a function exists, when every step f leads from X to X.
LEMMA FoldExists ==
  ASSUME NEW S, IsFiniteSet(S), NEW c, Picks(c, S), NEW X, NEW base \in X,
         NEW f \in [X \X S -> X]
  PROVE  \E g \in [SUBSET S -> X] : Unfolds(g, S, c, base, f)
<1> USE DEF Unfolds
<1> DEFINE Upto(k) == {t \in SUBSET S : Cardinality(t) <= k}
           Good(g, k) == \A t \in Upto(k) :
                           g[t] = IF t = {} THEN base ELSE f[<<g[t \ {c[t]}], c[t]>>]
           Bad == {k \in Nat : ~\E g \in [Upto(k) -> X] : Good(g, k)}
<1>1. \A t \in SUBSET S : /\ IsFiniteSet(t) /\ Cardinality(t) \in Nat
                          /\ Cardinality(t) = 0 <=> t = {}
                          /\ Cardinality(t) <= Cardinality(S)
  BY FS_Subset, FS_CardinalityType, FS_EmptySet
<1>2. \A t \in SUBSET S : t # {} => /\ c[t] \in t /\ c[t] \in S /\ t \ {c[t]} \in SUBSET S
                                    /\ Cardinality(t \ {c[t]}) = Cardinality(t) - 1
  BY <1>1, FS_RemoveElement DEF Picks
<1>3. Bad = {}
  <2> SUFFICES ASSUME Bad # {} PROVE FALSE
    OBVIOUS
  <2>1. PICK k \in Bad : \A j \in Bad : k =< j
    <3>1. Bad \subseteq Nat
      OBVIOUS
    <3> HIDE DEF Bad
    <3> QED BY <3>1, Least
  <2>2. k \in Nat /\ ~\E g \in [Upto(k) -> X] : Good(g, k)
    OBVIOUS
  <2>3. CASE k = 0
    <3> DEFINE g == [t \in Upto(0) |-> base]
    <3>1. g \in [Upto(0) -> X]
      OBVIOUS
    <3>2. \A t \in Upto(0) : t = {}
      BY <1>1
    <3>3. Good(g, 0)
      BY <3>2
    <3> QED BY <2>2, <2>3, <3>1, <3>3
  <2>4. CASE k # 0
    <3>1. k - 1 \in Nat /\ k - 1 \notin Bad
      <4>1. k - 1 \in Nat /\ ~(k =< k - 1)
        BY <2>2, <2>4
      <4> HIDE DEF Bad
      <4> QED BY <2>1, <4>1
    <3>2. PICK g \in [Upto(k - 1) -> X] : Good(g, k - 1)
      BY <3>1
    <3> DEFINE h == [t \in Upto(k) |-> IF t \in Upto(k - 1) THEN g[t]
                                       ELSE f[<<g[t \ {c[t]}], c[t]>>]]
    <3>3. \A t \in Upto(k) : t # {} => t \ {c[t]} \in Upto(k - 1) /\ c[t] \in S
      BY <1>1, <1>2, <2>2
    <3>4. {} \in Upto(k - 1)
      BY <1>1, <3>1
    <3>5. h \in [Upto(k) -> X]
      <4> SUFFICES ASSUME NEW t \in Upto(k), t \notin Upto(k - 1)
                   PROVE  f[<<g[t \ {c[t]}], c[t]>>] \in X
        OBVIOUS
      <4>1. t # {}
        BY <3>4
      <4>2. g[t \ {c[t]}] \in X /\ c[t] \in S
        BY <3>3, <4>1
      <4> QED BY <4>2
    <3>6. Good(h, k)
      <4> SUFFICES ASSUME NEW t \in Upto(k)
                   PROVE  h[t] = IF t = {} THEN base ELSE f[<<h[t \ {c[t]}], c[t]>>]
        OBVIOUS
      <4>1. CASE t = {}
        BY <3>2, <3>4, <4>1
      <4>2. CASE t # {}
        <5>1. t \ {c[t]} \in Upto(k - 1) /\ t \ {c[t]} \in Upto(k)
          BY <1>1, <2>2, <3>1, <3>3, <4>2
        <5>2. h[t \ {c[t]}] = g[t \ {c[t]}]
          BY <5>1
        <5>3. h[t] = f[<<g[t \ {c[t]}], c[t]>>]
          BY <3>2, <4>2
        <5> QED BY <4>2, <5>2, <5>3
      <4> QED BY <4>1, <4>2
    <3> QED BY <2>2, <3>5, <3>6
  <2> QED BY <2>3, <2>4
<1>4. Cardinality(S) \in Nat /\ Upto(Cardinality(S)) = SUBSET S
  BY <1>1
<1>5. PICK g \in [Upto(Cardinality(S)) -> X] : Good(g, Cardinality(S))
  BY <1>3, <1>4
<1> QED BY <1>4, <1>5

-----------------------------------------------------------------------------
(* The plan.                                                               *)

\* The last element of a set of positions, as FoldLeft takes them.
LEMMA LastPicked ==
  ASSUME NEW A, NEW seq \in Seq(A)
  PROVE  /\ IsFiniteSet(DOMAIN seq) /\ DOMAIN seq = 1..Len(seq) /\ Len(seq) \in Nat
         /\ \A i \in DOMAIN seq : seq[i] \in A
         /\ Picks([t \in SUBSET DOMAIN seq |-> Max(t)], DOMAIN seq)
<1>1. DOMAIN seq = 1..Len(seq) /\ Len(seq) \in Nat /\ \A i \in DOMAIN seq : seq[i] \in A
  BY ElementOfSeq, LenProperties
<1>2. IsFiniteSet(DOMAIN seq)
  BY <1>1, FS_Interval
<1>3. \A t \in SUBSET DOMAIN seq : t # {} => Max(t) \in t
  BY <1>1, Greatest
<1> QED BY <1>1, <1>2, <1>3 DEF Picks

\* h filters the elements of seq at a set of positions, one after the other.
Filters(h, seq, S) ==
  /\ h[{}] = <<>>
  /\ \A t \in SUBSET DOMAIN seq : t # {} =>
       h[t] = IF seq[Max(t)] \in S THEN Append(h[t \ {Max(t)}], seq[Max(t)])
                                   ELSE h[t \ {Max(t)}]

\* Filtering a sequence takes its elements one after the other.
LEMMA AmongUnfolds ==
  ASSUME NEW A, NEW seq \in Seq(A), NEW S
  PROVE  \E h : among(seq, S) = h[DOMAIN seq] /\ Filters(h, seq, S)
<1> DEFINE D == DOMAIN seq
           c == [t \in SUBSET D |-> Max(t)]
           X == Seq(S)
           base == <<>>
           op(kept, x) == IF x \in S THEN Append(kept, x) ELSE kept
           Is(h) == h = [t \in SUBSET D |->
                           IF t = {} THEN base ELSE op(h[t \ {Max(t)}], seq[Max(t)])]
           f == [xi \in X \X D |-> op(xi[1], seq[xi[2]])]
<1>1. IsFiniteSet(D) /\ Picks(c, D)
  BY LastPicked
<1>2. base \in X /\ \A kept \in X : \A x : op(kept, x) \in X
  OBVIOUS
<1>3. \A t \in SUBSET D : t # {} => Max(t) \in D /\ t \ {Max(t)} \in SUBSET D /\ c[t] = Max(t)
  BY <1>1 DEF Picks
<1> HIDE DEF D, X, base, op
<1>4. f \in [X \X D -> X] /\ \A x \in X, i \in D : f[<<x, i>>] = op(x, seq[i])
  BY <1>2
<1>5. \E h : Is(h)
  <2> HIDE DEF c, f
  <2>1. PICK g \in [SUBSET D -> X] : Unfolds(g, D, c, base, f)
    <3>1. base \in X /\ f \in [X \X D -> X]
      BY <1>2, <1>4
    <3> QED BY <1>1, <3>1, FoldExists, Zenon
  <2>2. \A t \in SUBSET D : g[t] = IF t = {} THEN base ELSE op(g[t \ {Max(t)}], seq[Max(t)])
    BY <1>3, <1>4, <2>1 DEF Unfolds
  <2>3. Is(g)
    BY <2>2
  <2> QED BY <2>3
<1> DEFINE h == CHOOSE h : Is(h)
<1>6. Is(h)
  BY <1>5
<1>7. among(seq, S) = h[D]
  BY DEF among, FoldLeft, MapThenFoldSet, D, op, base
<1> HIDE DEF h
<1>8. h[{}] = base /\ \A t \in SUBSET D : t # {} => h[t] = op(h[t \ {Max(t)}], seq[Max(t)])
  BY <1>6
<1> HIDE DEF Is
<1>9. Filters(h, seq, S)
  BY <1>8 DEF Filters, D, base, op
<1> QED BY <1>7, <1>9 DEF D

\* Filtering a sequence leaves elements of the set.
LEMMA Among ==
  ASSUME NEW A, NEW seq \in Seq(A), NEW S
  PROVE  among(seq, S) \in Seq(S)
<1>1. PICK h : among(seq, S) = h[DOMAIN seq] /\ Filters(h, seq, S)
  BY AmongUnfolds
<1> DEFINE D == DOMAIN seq
           c == [t \in SUBSET D |-> Max(t)]
           X == {t \in SUBSET D : h[t] \in Seq(S)}
<1>2. IsFiniteSet(D) /\ Picks(c, D)
  BY LastPicked
<1>3. {} \in X
  <2>1. h[{}] = <<>> /\ <<>> \in Seq(S)
    BY <1>1 DEF Filters
  <2> HIDE DEF D
  <2> QED BY <2>1
<1>4. \A t \in SUBSET D : t # {} /\ t \ {c[t]} \in X => t \in X
  <2> SUFFICES ASSUME NEW t \in SUBSET D, t # {}, t \ {Max(t)} \in X PROVE h[t] \in Seq(S)
    OBVIOUS
  <2>1. h[t] = IF seq[Max(t)] \in S THEN Append(h[t \ {Max(t)}], seq[Max(t)])
                                    ELSE h[t \ {Max(t)}]
    BY <1>1 DEF Filters
  <2> QED BY <2>1
<1> HIDE DEF X, c
<1>5. SUBSET D \subseteq X
  BY <1>2, <1>3, <1>4, PickInduction
<1>6. D \in X
  BY <1>5
<1> QED BY <1>1, <1>6 DEF X

\* h joins the first sequences of q, one after the other.
Joins(h, q, n) == \A i \in 1..n : h[i] = IF i = 1 THEN q[i] ELSE h[i - 1] \o q[i]

\* Joining sequences takes them one after the other.
LEMMA FlattenUnfolds ==
  ASSUME NEW A, NEW n \in Nat \ {0}, NEW q \in [1..n -> Seq(A)]
  PROVE  \E h : FlattenSeq(q) = h[n] /\ Joins(h, q, n)
<1> DEFINE D == 1..n
           c == [t \in SUBSET D |-> Max(t)]
           X == Seq(A)
           base == <<>>
           op(all, i) == IF i = 1 THEN q[i] ELSE all \o q[i]
           Is(h) == h = [i \in D |-> IF i = 1 THEN q[i] ELSE h[i - 1] \o q[i]]
           f == [xi \in X \X D |-> op(xi[1], xi[2])]
<1>0. n \in Nat /\ n # 0
  OBVIOUS
<1>1. q \in Seq(Seq(A)) /\ Len(q) = n
  <2>1. q \in Seq(Seq(A))
    BY <1>0, IsASeq
  <2>2. DOMAIN q = 1..n
    OBVIOUS
  <2> QED BY <1>0, <2>1, <2>2, LenProperties
<1>2. IsFiniteSet(D) /\ Picks(c, D)
  <2>1. \A t \in SUBSET D : t # {} => Max(t) \in t
    BY <1>0, Greatest
  <2>2. IsFiniteSet(D)
    BY <1>0, FS_Interval
  <2> QED BY <2>1, <2>2 DEF Picks
<1>3. base \in X /\ \A all \in X, i \in D : op(all, i) \in X
  OBVIOUS
<1>4. \A i \in D : /\ 1..i \in SUBSET D /\ 1..i # {} /\ Max(1..i) = i
                   /\ 1..i \ {i} = 1..(i - 1)
                   /\ i # 1 => i - 1 \in D
  <2> TAKE i \in D
  <2>1. i \in Nat /\ 1..i \subseteq 1..i /\ i \in 1..i /\ 1..i \subseteq D
    BY <1>0
  <2>2. Max(1..i) \in 1..i /\ Max(1..i) >= i
    BY <2>1, Greatest
  <2> QED BY <2>1, <2>2
<1> HIDE DEF X, base, op
<1>5. f \in [X \X D -> X] /\ \A x \in X, i \in D : f[<<x, i>>] = op(x, i)
  BY <1>3
<1>6. \E h : Is(h)
  <2>1. PICK g \in [SUBSET D -> X] : Unfolds(g, D, c, base, f)
    <3>1. base \in X /\ f \in [X \X D -> X]
      BY <1>3, <1>5
    <3> HIDE DEF c, f, D
    <3> QED BY <1>2, <3>1, FoldExists, Zenon
  <2> DEFINE h == [i \in D |-> g[1..i]]
  <2>2. \A i \in D : h[i] = op(g[1..(i - 1)], i)
    <3> TAKE i \in D
    <3>1. g[1..i] = f[<<g[1..i \ {c[1..i]}], c[1..i]>>]
      BY <1>4, <2>1 DEF Unfolds
    <3>2. c[1..i] = i /\ g[1..(i - 1)] \in X
      BY <1>4, <2>1
    <3> HIDE DEF c, f
    <3>3. g[1..i] = f[<<g[1..(i - 1)], i>>]
      BY <1>4, <3>1, <3>2
    <3> QED BY <1>5, <3>2, <3>3
  <2>3. \A i \in D : h[i] = IF i = 1 THEN q[i] ELSE h[i - 1] \o q[i]
    <3> TAKE i \in D
    <3>1. i # 1 => h[i - 1] = g[1..(i - 1)]
      BY <1>4
    <3> QED BY <2>2, <3>1 DEF op
  <2>4. h = [i \in D |-> h[i]]
    OBVIOUS
  <2> HIDE DEF h
  <2>5. Is(h)
    BY <2>3, <2>4
  <2> HIDE DEF Is
  <2> QED BY <2>5
<1> DEFINE h == CHOOSE h : Is(h)
<1>7. Is(h)
  BY <1>6
<1>8. FlattenSeq(q) = h[n]
  BY <1>0, <1>1 DEF FlattenSeq
<1> HIDE DEF h
<1>9. \A i \in D : h[i] = IF i = 1 THEN q[i] ELSE h[i - 1] \o q[i]
  BY <1>7
<1> HIDE DEF Is
<1>10. Joins(h, q, n)
  BY <1>9 DEF Joins
<1> QED BY <1>8, <1>10

\* Joining sequences over A gives a sequence over A.
LEMMA Flattened ==
  ASSUME NEW A, NEW n \in Nat \ {0}, NEW q \in [1..n -> Seq(A)]
  PROVE  FlattenSeq(q) \in Seq(A)
<1> DEFINE D == 1..n
<1>0. n \in Nat /\ n # 0 /\ n \in D
  OBVIOUS
<1>1. PICK h : FlattenSeq(q) = h[n] /\ Joins(h, q, n)
  BY FlattenUnfolds
<1>2. \A i \in D : h[i] = IF i = 1 THEN q[i] ELSE h[i - 1] \o q[i]
  BY <1>1 DEF Joins
<1> DEFINE Bad == {i \in D : h[i] \notin Seq(A)}
<1>3. ASSUME Bad # {} PROVE FALSE
  <2>1. PICK i \in Bad : \A j \in Bad : i =< j
    <3>1. Bad \subseteq Nat
      BY <1>0
    <3> HIDE DEF Bad
    <3> QED BY <1>3, <3>1, Least
  <2>2. i \in D /\ i \in Nat /\ h[i] \notin Seq(A) /\ q[i] \in Seq(A)
    BY <1>0
  <2>3. i # 1
    BY <1>2, <2>2
  <2>4. i - 1 \in D /\ i - 1 \notin Bad
    <3>1. ~(i =< i - 1)
      BY <2>2
    <3>2. i - 1 \in D
      BY <2>2, <2>3
    <3> HIDE DEF Bad
    <3> QED BY <2>1, <3>1, <3>2
  <2>5. h[i - 1] \in Seq(A)
    BY <2>4
  <2> HIDE DEF Bad
  <2>6. h[i] = h[i - 1] \o q[i]
    BY <1>2, <2>2, <2>3
  <2> QED BY <2>2, <2>5, <2>6
<1> QED BY <1>0, <1>1, <1>3

\* The pods sorted by size are the pods.
LEMMA Decreasing ==
  ASSUME NEW A, NEW ps \in Seq(A)
  PROVE  decreasing(ps) \in Seq(A)
<1> DEFINE B(k) == {p \in Range(ps) : p.size = LargestPod + 1 - k}
           q == [k \in 1..LargestPod |-> among(ps, B(k))]
<1>1. Range(ps) \subseteq A
  BY LastPicked DEF Range
<1>2. \A k : among(ps, B(k)) \in Seq(A)
  <2> TAKE k
  <2>1. among(ps, B(k)) \in Seq(B(k)) /\ B(k) \subseteq A
    BY <1>1, Among
  <2> QED BY <2>1, SeqMonotonic
<1>3. q \in [1..LargestPod -> Seq(A)]
  BY <1>2
<1> HIDE DEF q
<1>4. FlattenSeq(q) \in Seq(A)
  BY <1>3, SizeAssumption, Flattened
<1> QED BY <1>4 DEF decreasing, q

-----------------------------------------------------------------------------
(* What a sequence lists.                                                  *)

\* What it is for a function to be a bijection.
LEMMA Matching ==
  ASSUME NEW S, NEW T
  PROVE  \A f : f \in Bijection(S, T) <=> /\ f \in [S -> T]
                                          /\ \A a, b \in S : f[a] = f[b] => a = b
                                          /\ \A t \in T : \E a \in S : f[a] = t
<1> QED BY DEF Bijection, Injection, Surjection, IsInjective

\* The sequence q lists the elements of ps at the positions in I, each once.
Lists(q, ps, I) ==
  \E pi \in Bijection(DOMAIN q, I) : \A j \in DOMAIN q : q[j] = ps[pi[j]]

\* Joined, two sequences list the positions of both.
LEMMA ListsJoined ==
  ASSUME NEW A, NEW q \in Seq(A), NEW r \in Seq(A), NEW ps, NEW I, NEW J, I \cap J = {},
         Lists(q, ps, I), Lists(r, ps, J)
  PROVE  Lists(q \o r, ps, I \cup J)
<1>1. PICK a \in [DOMAIN q -> I] : /\ \A j, k \in DOMAIN q : a[j] = a[k] => j = k
                                   /\ \A i \in I : \E j \in DOMAIN q : a[j] = i
                                   /\ \A j \in DOMAIN q : q[j] = ps[a[j]]
  BY Matching DEF Lists
<1>2. PICK b \in [DOMAIN r -> J] : /\ \A j, k \in DOMAIN r : b[j] = b[k] => j = k
                                   /\ \A i \in J : \E j \in DOMAIN r : b[j] = i
                                   /\ \A j \in DOMAIN r : r[j] = ps[b[j]]
  BY Matching DEF Lists
<1>3. /\ DOMAIN q = 1..Len(q) /\ Len(q) \in Nat
      /\ DOMAIN r = 1..Len(r) /\ Len(r) \in Nat
  BY LenProperties
<1> DEFINE m == Len(q)
           n == Len(r)
           s == q \o r
           K == 1..(m + n)
           pi == [j \in K |-> IF j <= m THEN a[j] ELSE b[j - m]]
<1>4. DOMAIN s = K /\ \A j \in K : s[j] = IF j <= m THEN q[j] ELSE r[j - m]
  <2>1. s \in Seq(A) /\ Len(s) = m + n /\ \A j \in K : s[j] = IF j <= m THEN q[j] ELSE r[j - m]
    BY ConcatProperties
  <2>2. DOMAIN s = 1..Len(s)
    BY <2>1, LenProperties
  <2> QED BY <2>1, <2>2
<1> HIDE DEF s
<1>5. \A j \in K : /\ j <= m => j \in DOMAIN q
                   /\ ~(j <= m) => j - m \in DOMAIN r
  BY <1>3
<1>6. \A j \in K : /\ j <= m => pi[j] = a[j] /\ a[j] \in I
                   /\ ~(j <= m) => pi[j] = b[j - m] /\ b[j - m] \in J
  BY <1>1, <1>2, <1>5
<1>7. pi \in [K -> I \cup J]
  BY <1>6
<1>8. \A j, k \in K : pi[j] = pi[k] => j = k
  <2> SUFFICES ASSUME NEW j \in K, NEW k \in K, pi[j] = pi[k] PROVE j = k
    OBVIOUS
  <2>1. CASE j <= m /\ k <= m
    BY <1>1, <1>5, <1>6, <2>1
  <2>2. CASE ~(j <= m) /\ ~(k <= m)
    <3>1. j - m = k - m
      BY <1>2, <1>5, <1>6, <2>2
    <3> QED BY <1>3, <3>1
  <2>3. CASE (j <= m) # (k <= m)
    BY <1>6, <2>3
  <2> QED BY <2>1, <2>2, <2>3
<1>9. \A i \in I \cup J : \E j \in K : pi[j] = i
  <2> TAKE i \in I \cup J
  <2>1. CASE i \in I
    <3>1. PICK j \in DOMAIN q : a[j] = i
      BY <1>1, <2>1
    <3>2. j \in K /\ j <= m
      BY <1>3
    <3> QED BY <1>6, <3>1, <3>2
  <2>2. CASE i \in J
    <3>1. PICK j \in DOMAIN r : b[j] = i
      BY <1>2, <2>2
    <3>2. j + m \in K /\ ~(j + m <= m) /\ (j + m) - m = j
      BY <1>3
    <3>3. pi[j + m] = b[(j + m) - m]
      BY <1>6, <3>2
    <3> QED BY <3>1, <3>2, <3>3
  <2> QED BY <2>1, <2>2
<1>10. \A j \in K : s[j] = ps[pi[j]]
  BY <1>1, <1>2, <1>4, <1>5, <1>6
<1> HIDE DEF pi
<1>11. pi \in Bijection(DOMAIN s, I \cup J)
  <2> HIDE DEF K
  <2>1. pi \in Bijection(K, I \cup J)
    BY <1>7, <1>8, <1>9, Matching
  <2> QED BY <1>4, <2>1
<1>12. Lists(s, ps, I \cup J)
  BY <1>4, <1>10, <1>11 DEF Lists
<1> QED BY <1>12 DEF s

\* The empty sequence lists no position, and one element its own.
LEMMA ListsFew ==
  ASSUME NEW ps
  PROVE  Lists(<<>>, ps, {}) /\ \A i : Lists(<<ps[i]>>, ps, {i})
<1>1. DOMAIN <<>> = {}
  OBVIOUS
<1>2. [j \in {} |-> j] \in Bijection({}, {})
  BY Matching
<1>3. Lists(<<>>, ps, {})
  <2>1. \E pi \in Bijection(DOMAIN <<>>, {}) : \A j \in DOMAIN <<>> : <<>>[j] = ps[pi[j]]
    BY <1>1, <1>2
  <2> QED BY <2>1 DEF Lists
<1>4. ASSUME NEW i PROVE Lists(<<ps[i]>>, ps, {i})
  <2> DEFINE q == <<ps[i]>>
             pi == [j \in {1} |-> i]
  <2>1. DOMAIN q = {1} /\ q[1] = ps[i]
    OBVIOUS
  <2> HIDE DEF q
  <2>2. pi \in Bijection(DOMAIN q, {i}) /\ pi[1] = i
    BY <2>1, Matching
  <2> HIDE DEF pi
  <2>3. Lists(q, ps, {i})
    BY <2>1, <2>2 DEF Lists
  <2> QED BY <2>3 DEF q
<1> QED BY <1>3, <1>4

\* Filtering a sequence lists the positions of the elements in the set.
LEMMA AmongLists ==
  ASSUME NEW A, NEW seq \in Seq(A), NEW S
  PROVE  Lists(among(seq, S), seq, {i \in DOMAIN seq : seq[i] \in S})
<1>1. PICK h : among(seq, S) = h[DOMAIN seq] /\ Filters(h, seq, S)
  BY AmongUnfolds
<1> DEFINE D == DOMAIN seq
           c == [t \in SUBSET D |-> Max(t)]
<1>2. IsFiniteSet(D) /\ Picks(c, D) /\ \A i \in D : seq[i] \in A
  BY LastPicked
<1> DEFINE I(t) == {i \in t : seq[i] \in S}
           X == {t \in SUBSET D : h[t] \in Seq(A) /\ Lists(h[t], seq, I(t))}
<1>3. {} \in X
  <2>1. I({}) = {}
    OBVIOUS
  <2>2. Lists(<<>>, seq, {}) /\ <<>> \in Seq(A)
    BY ListsFew
  <2> QED BY <1>1, <2>1, <2>2 DEF Filters
<1>4. ASSUME NEW t \in SUBSET D, t # {}, t \ {c[t]} \in X PROVE t \in X
  <2> DEFINE i == c[t]
             u == t \ {i}
  <2>1. i = Max(t) /\ i \in t /\ i \in D
    BY <1>2, <1>4 DEF Picks
  <2>2. h[u] \in Seq(A) /\ Lists(h[u], seq, I(u))
    BY <1>4
  <2>3. h[t] = IF seq[i] \in S THEN Append(h[u], seq[i]) ELSE h[u]
    BY <1>1, <1>4, <2>1 DEF Filters
  <2> HIDE DEF i
  <2>4. CASE seq[i] \in S
    <3>1. I(t) = I(u) \cup {i} /\ I(u) \cap {i} = {}
      BY <2>1, <2>4
    <3>2. <<seq[i]>> \in Seq(A) /\ Lists(<<seq[i]>>, seq, {i})
      BY <1>2, <2>1, ListsFew
    <3>3. h[t] = h[u] \o <<seq[i]>> /\ h[u] \o <<seq[i]>> \in Seq(A)
      BY <1>2, <2>1, <2>2, <2>3, <2>4, <3>2, AppendIsConcat, ConcatProperties
    <3> HIDE DEF I, u
    <3>4. Lists(h[u] \o <<seq[i]>>, seq, I(u) \cup {i})
      BY <2>2, <3>1, <3>2, ListsJoined
    <3> QED BY <3>1, <3>3, <3>4
  <2>5. CASE seq[i] \notin S
    <3>1. I(t) = I(u)
      BY <2>5
    <3> QED BY <2>2, <2>3, <2>5, <3>1
  <2> QED BY <2>4, <2>5
<1> HIDE DEF X, c
<1>5. SUBSET D \subseteq X
  BY <1>2, <1>3, <1>4, PickInduction
<1>6. D \in X
  BY <1>5
<1> QED BY <1>1, <1>6 DEF X

\* The pods sorted by size are the pods, each once.
LEMMA DecreasingLists ==
  ASSUME NEW A, NEW ps \in Seq(A), \A p \in A : p.size \in 1..LargestPod
  PROVE  Lists(decreasing(ps), ps, DOMAIN ps) /\ decreasing(ps) \in Seq(A)
<1> DEFINE N == LargestPod
           B(k) == {p \in Range(ps) : p.size = LargestPod + 1 - k}
           q == [k \in 1..N |-> among(ps, B(k))]
           I(k) == {j \in DOMAIN ps : ps[j].size = N + 1 - k}
           U(k) == {j \in DOMAIN ps : ps[j].size >= N + 1 - k}
<1>1. \A j \in DOMAIN ps : ps[j] \in A /\ ps[j] \in Range(ps) /\ ps[j].size \in 1..N
  BY LastPicked DEF Range
<1>2. N \in Nat /\ N # 0 /\ N \in 1..N
  BY SizeAssumption
<1>3. \A k : among(ps, B(k)) \in Seq(A) /\ Lists(among(ps, B(k)), ps, I(k))
  <2> TAKE k
  <2>1. among(ps, B(k)) \in Seq(B(k)) /\ B(k) \subseteq A
    BY LastPicked, Among DEF Range
  <2>2. Lists(among(ps, B(k)), ps, {j \in DOMAIN ps : ps[j] \in B(k)})
    BY AmongLists
  <2>3. {j \in DOMAIN ps : ps[j] \in B(k)} = I(k)
    BY <1>1
  <2> QED BY <2>1, <2>2, <2>3, SeqMonotonic
<1>4. q \in [1..N -> Seq(A)] /\ \A k \in 1..N : Lists(q[k], ps, I(k))
  BY <1>3
<1>5. decreasing(ps) = FlattenSeq(q)
  BY DEF decreasing
<1> HIDE DEF q, N
<1>6. PICK h : FlattenSeq(q) = h[N] /\ Joins(h, q, N)
  BY <1>2, <1>4, FlattenUnfolds
<1> DEFINE Bad == {k \in 1..N : ~(h[k] \in Seq(A) /\ Lists(h[k], ps, U(k)))}
<1>7. ASSUME Bad # {} PROVE FALSE
  <2>1. PICK k \in Bad : \A j \in Bad : k =< j
    <3>1. Bad \subseteq Nat
      BY <1>2
    <3> HIDE DEF Bad
    <3> QED BY <1>7, <3>1, Least
  <2>2. k \in 1..N /\ k \in Nat /\ ~(h[k] \in Seq(A) /\ Lists(h[k], ps, U(k)))
    BY <1>2
  <2>3. q[k] \in Seq(A) /\ Lists(q[k], ps, I(k))
    BY <1>4, <2>2
  <2>4. h[k] = IF k = 1 THEN q[k] ELSE h[k - 1] \o q[k]
    BY <1>6, <2>2 DEF Joins
  <2>5. CASE k = 1
    <3>1. U(k) = I(k)
      BY <1>1, <1>2, <2>5
    <3> HIDE DEF U, I
    <3> QED BY <2>2, <2>3, <2>4, <2>5, <3>1
  <2>6. CASE k # 1
    <3>1. k - 1 \in 1..N /\ ~(k =< k - 1)
      BY <1>2, <2>2, <2>6
    <3>2. k - 1 \notin Bad
      <4> HIDE DEF Bad
      <4> QED BY <2>1, <3>1
    <3>3. h[k - 1] \in Seq(A) /\ Lists(h[k - 1], ps, U(k - 1))
      BY <3>1, <3>2
    <3>4. U(k) = U(k - 1) \cup I(k) /\ U(k - 1) \cap I(k) = {}
      BY <1>1, <1>2, <2>2
    <3> HIDE DEF U, I, Bad
    <3>5. h[k] \in Seq(A)
      BY <2>3, <2>4, <2>6, <3>3, ConcatProperties
    <3>6. Lists(h[k - 1] \o q[k], ps, U(k - 1) \cup I(k))
      BY <2>3, <3>3, <3>4, ListsJoined
    <3> QED BY <2>2, <2>4, <2>6, <3>4, <3>5, <3>6
  <2> QED BY <2>5, <2>6
<1>8. U(N) = DOMAIN ps
  <2>1. N + 1 - N = 1 /\ \A j \in DOMAIN ps : ps[j].size >= 1
    BY <1>1, <1>2
  <2> QED BY <2>1
<1>9. h[N] \in Seq(A) /\ Lists(h[N], ps, U(N))
  BY <1>2, <1>7
<1> QED BY <1>5, <1>6, <1>8, <1>9

-----------------------------------------------------------------------------
(* The snapshot.                                                           *)

\* What the pods in T request together.
Load(T) == FoldSet(LAMBDA x, sum : sum + Request[x], 0, T)

\* The load of no pods is nothing, and one more pod adds its request.
LEMMA LoadAdds ==
  /\ Load({}) = 0
  /\ \A T \in SUBSET Pods : /\ Load(T) \in Nat
                            /\ \A x \in Pods \ T : Load(T \cup {x}) = Load(T) + Request[x]
<1> DEFINE some(t) == CHOOSE x \in t : TRUE
           c == [t \in SUBSET Pods |-> some(t)]
           f == [xi \in Nat \X Pods |-> xi[1] + Request[xi[2]]]
<1>1. IsFiniteSet(Pods) /\ \A x \in Pods : Request[x] \in Nat
  BY FleetAssumption, SizeAssumption
<1>2. Picks(c, Pods)
  BY DEF Picks
<1>3. \A t \in SUBSET Pods : t # {} => some(t) \in t /\ c[t] = some(t)
  OBVIOUS
<1> HIDE DEF some
<1>4. f \in [Nat \X Pods -> Nat] /\ \A x \in Nat, i \in Pods : f[<<x, i>>] = x + Request[i]
  BY <1>1
<1>5. PICK g \in [SUBSET Pods -> Nat] : Unfolds(g, Pods, c, 0, f)
  <2>1. 0 \in Nat
    OBVIOUS
  <2> HIDE DEF c, f
  <2> QED BY <1>1, <1>2, <1>4, <2>1, FoldExists, Zenon
<1>6. /\ g[{}] = 0
      /\ \A t \in SUBSET Pods : t # {} => g[t] = g[t \ {some(t)}] + Request[some(t)]
  BY <1>3, <1>4, <1>5 DEF Unfolds
<1> HIDE DEF f, c
<1>7. ASSUME NEW T \in SUBSET Pods PROVE Load(T) = g[T]
  <2> DEFINE Is(h) == h = [t \in SUBSET T |->
                             IF t = {} THEN 0 ELSE h[t \ {some(t)}] + Request[some(t)]]
             h == CHOOSE h : Is(h)
  <2>1. Is([t \in SUBSET T |-> g[t]])
    <3>1. \A t \in SUBSET T : t # {} => /\ t \ {some(t)} \in SUBSET T
                                        /\ g[t] = g[t \ {some(t)}] + Request[some(t)]
      BY <1>6
    <3> QED BY <1>6, <3>1
  <2>2. Is(h)
    BY <2>1
  <2>3. Load(T) = h[T]
    BY DEF Load, FoldSet, MapThenFoldSet, some
  <2> HIDE DEF h
  <2> DEFINE X == {t \in SUBSET T : h[t] = g[t]}
  <2>4. \A t \in SUBSET T : (\A u \in SUBSET t : u # t => u \in X) => t \in X
    <3> SUFFICES ASSUME NEW t \in SUBSET T, \A u \in SUBSET t : u # t => u \in X
                 PROVE  h[t] = g[t]
      OBVIOUS
    <3>1. CASE t = {}
      BY <1>6, <2>2, <3>1
    <3>2. CASE t # {}
      <4>1. t \ {some(t)} \in X
        BY <1>3, <3>2
      <4>2. h[t] = h[t \ {some(t)}] + Request[some(t)]
        BY <2>2, <3>2
      <4> QED BY <1>6, <3>2, <4>1, <4>2
    <3> QED BY <3>1, <3>2
  <2>5. IsFiniteSet(T)
    BY <1>1, FS_Subset
  <2> HIDE DEF X
  <2>6. SUBSET T \subseteq X
    BY <2>4, <2>5, SubsetInduction
  <2>7. T \in X
    BY <2>6
  <2> QED BY <2>3, <2>7 DEF X
<1> DEFINE X == {T \in SUBSET Pods : \A x \in Pods \ T : g[T \cup {x}] = g[T] + Request[x]}
<1>8. \A t \in SUBSET Pods : (\A u \in SUBSET t : u # t => u \in X) => t \in X
  <2> SUFFICES ASSUME NEW t \in SUBSET Pods, \A u \in SUBSET t : u # t => u \in X,
                      NEW x \in Pods \ t
               PROVE  g[t \cup {x}] = g[t] + Request[x]
    OBVIOUS
  <2> DEFINE U == t \cup {x}
             y == some(U)
  <2>1. U \in SUBSET Pods /\ U # {}
    OBVIOUS
  <2>2. y \in U /\ g[U] = g[U \ {y}] + Request[y]
    BY <1>3, <1>6, <2>1
  <2> HIDE DEF y
  <2>3. CASE y = x
    <3>1. U \ {y} = t
      BY <2>3
    <3> QED BY <2>2, <2>3, <3>1
  <2>4. CASE y # x
    <3> DEFINE v == t \ {y}
    <3>1. y \in t /\ v \in X /\ v \in SUBSET Pods /\ y \in Pods \ v /\ x \in Pods \ v
      BY <2>2, <2>4
    <3>2. g[v \cup {x}] = g[v] + Request[x] /\ g[v \cup {y}] = g[v] + Request[y]
      BY <3>1
    <3>3. v \cup {y} = t /\ U \ {y} = v \cup {x}
      BY <2>4, <3>1
    <3>4. g[v] \in Nat /\ Request[x] \in Nat /\ Request[y] \in Nat
      BY <1>1, <1>5, <3>1
    <3> HIDE DEF U, v, X
    <3>5. g[U] = g[v \cup {x}] + Request[y]
      BY <2>2, <3>3
    <3>6. g[t] = g[v] + Request[y]
      BY <3>2, <3>3
    <3>7. g[U] = g[t] + Request[x]
      BY <3>2, <3>4, <3>5, <3>6
    <3> QED BY <3>7 DEF U
  <2> QED BY <2>3, <2>4
<1> HIDE DEF X
<1>9. SUBSET Pods \subseteq X
  BY <1>1, <1>8, SubsetInduction
<1>10. \A T \in SUBSET Pods : \A x \in Pods \ T : g[T \cup {x}] = g[T] + Request[x]
  BY <1>9 DEF X
<1> HIDE DEF Load
<1>11. Load({}) = 0
  BY <1>6, <1>7
<1>12. ASSUME NEW T \in SUBSET Pods, NEW x \in Pods \ T
       PROVE  Load(T \cup {x}) = Load(T) + Request[x]
  <2>1. T \cup {x} \in SUBSET Pods
    OBVIOUS
  <2> QED BY <1>7, <1>10, <2>1
<1>13. \A T \in SUBSET Pods : Load(T) \in Nat
  BY <1>5, <1>7
<1> QED BY <1>11, <1>12, <1>13

\* Fewer pods are no larger a load.
LEMMA LoadLess ==
  ASSUME NEW T \in SUBSET Pods, NEW x
  PROVE  Load(T \ {x}) <= Load(T)
<1>1. CASE x \in T
  <2> DEFINE u == T \ {x}
  <2>1. u \in SUBSET Pods /\ x \in Pods \ u /\ u \cup {x} = T
    BY <1>1
  <2> HIDE DEF u
  <2>2. Load(u) \in Nat /\ Load(u \cup {x}) = Load(u) + Request[x]
    BY <2>1, LoadAdds
  <2>3. Request[x] \in Nat
    BY <2>1, FleetAssumption, SizeAssumption
  <2>4. Load(T) = Load(u) + Request[x]
    BY <2>1, <2>2
  <2>5. Load(u) <= Load(T)
    BY <2>2, <2>3, <2>4
  <2> QED BY <2>5 DEF u
<1>2. CASE x \notin T
  <2>1. T \ {x} = T /\ Load(T) \in Nat
    BY <1>2, LoadAdds
  <2> QED BY <2>1
<1> QED BY <1>1, <1>2

\* What the pods of a machine request adds up to a number.
LEMMA UsedType ==
  ASSUME NEW n
  PROVE  used(n) \in Nat
<1>1. pods_on(n) \in SUBSET Pods
  BY DEF pods_on
<1> QED BY <1>1, LoadAdds DEF used, Load

\* The elements of a finite set can be put in a sequence.
LEMMA Listed ==
  ASSUME NEW S, IsFiniteSet(S)
  PROVE  SetToSeq(S) \in Seq(S)
<1>1. Cardinality(S) \in Nat /\ ExistsBijection(1..Cardinality(S), S)
  BY FS_CardinalityType
<1>2. \E f \in [1..Cardinality(S) -> S] : IsInjective(f)
  BY <1>1 DEF ExistsBijection, Bijection, Injection, IsInjective
<1>3. SetToSeq(S) \in [1..Cardinality(S) -> S]
  BY <1>2 DEF SetToSeq
<1> QED BY <1>1, <1>3, IsASeq

-----------------------------------------------------------------------------
(* Powering on.                                                            *)

\* What the plan needs of a snapshot whose pods are in V.
Sound(s, V) ==
  /\ IsFiniteSet(DOMAIN s.members) /\ IsFiniteSet(DOMAIN s.external)
  /\ \A n \in DOMAIN s.members : /\ s.members[n].size \in Int /\ s.members[n].used \in Int
                                 /\ s.members[n].pods \in Seq(V)
  /\ \A n \in DOMAIN s.external : s.external[n] \in Int
  /\ s.listing \in Seq(Range(s.listing)) /\ s.spec.order \in Seq(Range(s.spec.order))
  /\ s.pending \in Seq(V) /\ \A p \in V : p.size \in Int
  /\ s.spec.min_online \in Nat /\ s.spec.max_online \in Nat
  /\ s.spec.up_step \in Nat /\ s.spec.down_step \in Nat

\* The members in some states are counted by a number.
LEMMA Counted ==
  ASSUME NEW s, NEW V, Sound(s, V), NEW S
  PROVE  /\ in_state(s, S) \subseteq DOMAIN s.members
         /\ IsFiniteSet(in_state(s, S)) /\ Cardinality(in_state(s, S)) \in Nat
<1>1. in_state(s, S) \in SUBSET DOMAIN s.members
  BY DEF in_state
<1>2. IsFiniteSet(DOMAIN s.members)
  BY DEF Sound
<1> QED BY <1>1, <1>2, FS_Subset, FS_CardinalityType

\* The pods a pool cares about are pods.
LEMMA RelevantPods ==
  ASSUME NEW s, NEW V, Sound(s, V)
  PROVE  selected(s) \in Seq(V) /\ relevant(s) \in Seq(V)
<1> DEFINE old == {p \in Range(s.pending) : /\ s.now - p.created >= s.spec.pending_grace
                                            /\ s.spec.require_explicit => p.selects}
           fits == {p \in Range(selected(s)) :
                      \E n \in in_state(s, {"Booting"}) \cup wakeable(s) :
                        pod_fits(p, n, s.members[n].size)}
<1>1. s.pending \in Seq(V)
  BY DEF Sound
<1>2. old \subseteq V
  <2>1. Range(s.pending) \subseteq V
    BY <1>1, LastPicked DEF Range
  <2> QED BY <2>1
<1>3. selected(s) \in Seq(V)
  <2> HIDE DEF old
  <2>1. among(s.pending, old) \in Seq(old)
    BY <1>1, Among
  <2>2. selected(s) = among(s.pending, old)
    BY DEF selected, old
  <2> QED BY <1>2, <2>1, <2>2, SeqMonotonic
<1>4. fits \subseteq V
  <2>1. Range(selected(s)) \subseteq V
    BY <1>3, LastPicked DEF Range
  <2> QED BY <2>1
<1>5. relevant(s) \in Seq(V)
  <2> HIDE DEF fits
  <2>1. among(selected(s), fits) \in Seq(fits)
    BY <1>3, Among
  <2>2. relevant(s) = among(selected(s), fits)
    BY DEF relevant, fits
  <2> QED BY <1>4, <2>1, <2>2, SeqMonotonic
<1> QED BY <1>3, <1>5

\* The machines considered for pending pods: those opened can still be woken,
\* and with them no more are on than maxOnline.
Openings(s) ==
  {up \in [bins : Seq(DOMAIN s.members), free : [DOMAIN s.members -> Int],
           offline : Seq(wakeable(s)), opened : Seq(wakeable(s))] :
     up.opened # <<>> => online_now(s) + Len(up.opened) <= s.spec.max_online}

\* Placing one pod keeps it so.
LEMMA PlaceOpens ==
  ASSUME NEW s, NEW V, Sound(s, V), NEW up \in Openings(s), NEW p \in V
  PROVE  place(s, up, p) \in Openings(s)
<1> DEFINE M == DOMAIN s.members
           W == wakeable(s)
           bins == among(up.bins, {n \in Range(up.bins) : pod_fits(p, n, up.free[n])})
           off  == among(up.offline, {n \in Range(up.offline) :
                                        pod_fits(p, n, s.members[n].size)})
           rest == among(up.offline, Range(up.offline) \ {Head(off)})
<1>1. /\ up.bins \in Seq(M) /\ up.free \in [M -> Int]
      /\ up.offline \in Seq(W) /\ up.opened \in Seq(W)
      /\ up = [bins |-> up.bins, free |-> up.free, offline |-> up.offline, opened |-> up.opened]
  BY DEF Openings
<1>2. bins \in Seq(M)
  <2>1. bins \in Seq({n \in Range(up.bins) : pod_fits(p, n, up.free[n])})
    BY <1>1, Among
  <2>2. Range(up.bins) \subseteq M
    BY <1>1, LastPicked DEF Range
  <2>3. {n \in Range(up.bins) : pod_fits(p, n, up.free[n])} \subseteq M
    BY <2>2
  <2> HIDE DEF bins, M
  <2> QED BY <2>1, <2>3, SeqMonotonic
<1>3. Range(up.offline) \subseteq W
  BY <1>1, LastPicked DEF Range
<1>4. off \in Seq(W)
  <2>1. off \in Seq({n \in Range(up.offline) : pod_fits(p, n, s.members[n].size)})
    BY <1>1, Among
  <2>2. {n \in Range(up.offline) : pod_fits(p, n, s.members[n].size)} \subseteq W
    BY <1>3
  <2> HIDE DEF off, W
  <2> QED BY <2>1, <2>2, SeqMonotonic
<1>5. rest \in Seq(W)
  <2>1. rest \in Seq(Range(up.offline) \ {Head(off)})
    BY <1>1, Among
  <2>2. Range(up.offline) \ {Head(off)} \subseteq W
    BY <1>3
  <2> HIDE DEF rest, W
  <2> QED BY <2>1, <2>2, SeqMonotonic
<1>6. W \subseteq M /\ p.size \in Int /\ \A n \in M : s.members[n].size \in Int
  BY DEF wakeable, in_state, Sound
<1>7. online_now(s) \in Nat /\ s.spec.max_online \in Nat
  BY Counted DEF online_now, Sound
<1>8. place(s, up, p) =
        CASE ~s.spec.up_enabled -> up
          [] s.spec.up_enabled /\ bins # <<>> ->
               [up EXCEPT !.free[Head(bins)] = @ - p.size]
          [] s.spec.up_enabled /\ bins = <<>> /\ can_open(s, up.opened) /\ off # <<>> ->
               [ bins    |-> Append(up.bins, Head(off)),
                 free    |-> [up.free EXCEPT ![Head(off)] = s.members[Head(off)].size - p.size],
                 offline |-> rest,
                 opened  |-> Append(up.opened, Head(off)) ]
          [] OTHER -> up
  BY DEF place
<1> HIDE DEF bins, off, rest, M, W
<1>9. CASE s.spec.up_enabled /\ bins # <<>>
  <2>1. Head(bins) \in M
    BY <1>2, <1>9
  <2>2. [up.free EXCEPT ![Head(bins)] = @ - p.size] \in [M -> Int]
    BY <1>1, <1>6, <2>1
  <2> DEFINE free == [up.free EXCEPT ![Head(bins)] = @ - p.size]
  <2>3. place(s, up, p) = [bins |-> up.bins, free |-> free, offline |-> up.offline,
                           opened |-> up.opened]
    BY <1>1, <1>8, <1>9
  <2> HIDE DEF free
  <2>4. free \in [M -> Int]
    BY <2>2 DEF free
  <2> QED BY <1>1, <2>3, <2>4 DEF Openings, M, W
<1>10. CASE s.spec.up_enabled /\ bins = <<>> /\ can_open(s, up.opened) /\ off # <<>>
  <2> DEFINE n == Head(off)
             free == [up.free EXCEPT ![n] = s.members[n].size - p.size]
  <2>1. n \in W /\ n \in M
    BY <1>4, <1>6, <1>10
  <2>2. free \in [M -> Int]
    BY <1>1, <1>6, <2>1
  <2>3. place(s, up, p) = [bins |-> Append(up.bins, n), free |-> free, offline |-> rest,
                           opened |-> Append(up.opened, n)]
    BY <1>8, <1>10
  <2> HIDE DEF free, n
  <2>4. Append(up.bins, n) \in Seq(M) /\ Append(up.opened, n) \in Seq(W)
    BY <1>1, <2>1
  <2>5. online_now(s) + Len(Append(up.opened, n)) <= s.spec.max_online
    <3>1. online_now(s) + Len(up.opened) < s.spec.max_online
      BY <1>10 DEF can_open
    <3>2. Len(Append(up.opened, n)) = Len(up.opened) + 1 /\ Len(up.opened) \in Nat
      BY <1>1
    <3> QED BY <1>7, <3>1, <3>2
  <2> QED BY <1>5, <2>2, <2>3, <2>4, <2>5 DEF Openings, M, W
<1>11. CASE ~s.spec.up_enabled \/ place(s, up, p) = up
  BY <1>8, <1>11
<1> QED BY <1>8, <1>9, <1>10, <1>11

\* What is left and what is opened once every pod is placed.
LEMMA PendingOpens ==
  ASSUME NEW s, NEW V, Sound(s, V)
  PROVE  for_pending(s) \in Openings(s)
<1> DEFINE ps == decreasing(relevant(s))
           D == DOMAIN ps
           c == [t \in SUBSET D |-> Max(t)]
           X == Openings(s)
           base == [ bins    |-> among(s.listing, in_state(s, {"Booting"})),
                     free    |-> [n \in DOMAIN s.members |-> room(s.members[n])],
                     offline |-> ranked(s, wakeable(s)),
                     opened  |-> <<>> ]
           Is(h) == h = [t \in SUBSET D |->
                           IF t = {} THEN base ELSE place(s, h[t \ {Max(t)}], ps[Max(t)])]
           f == [xi \in X \X D |-> place(s, xi[1], ps[xi[2]])]
<1>1. ps \in Seq(V)
  BY RelevantPods, Decreasing
<1> HIDE DEF ps
<1>2. IsFiniteSet(D) /\ Picks(c, D) /\ \A i \in D : ps[i] \in V
  BY <1>1, LastPicked
<1>3. base \in X
  <2>1. in_state(s, {"Booting"}) \subseteq DOMAIN s.members
    BY Counted
  <2>2. among(s.listing, in_state(s, {"Booting"})) \in Seq(DOMAIN s.members)
    <3>1. among(s.listing, in_state(s, {"Booting"})) \in Seq(in_state(s, {"Booting"}))
      BY Among DEF Sound
    <3> QED BY <2>1, <3>1, SeqMonotonic
  <2>3. ranked(s, wakeable(s)) \in Seq(wakeable(s))
    BY Among DEF Sound, ranked
  <2>4. [n \in DOMAIN s.members |-> room(s.members[n])] \in [DOMAIN s.members -> Int]
    BY DEF room, Sound
  <2> DEFINE free == [n \in DOMAIN s.members |-> room(s.members[n])]
             bins == among(s.listing, in_state(s, {"Booting"}))
  <2>5. base = [bins |-> bins, free |-> free, offline |-> ranked(s, wakeable(s)), opened |-> <<>>]
    OBVIOUS
  <2>6. <<>> \in Seq(wakeable(s)) /\ free \in [DOMAIN s.members -> Int] /\ bins \in Seq(DOMAIN s.members)
    BY <2>2, <2>4
  <2> HIDE DEF base, free, bins
  <2> QED BY <2>3, <2>5, <2>6 DEF Openings
<1>4. \A x \in X, i \in D : place(s, x, ps[i]) \in X
  BY <1>2, PlaceOpens
<1>5. \A t \in SUBSET D : t # {} => Max(t) \in D /\ t \ {Max(t)} \in SUBSET D /\ c[t] = Max(t)
  BY <1>2 DEF Picks
<1> HIDE DEF D, X, base
<1>6. f \in [X \X D -> X] /\ \A x \in X, i \in D : f[<<x, i>>] = place(s, x, ps[i])
  BY <1>4
<1>7. \E h : Is(h)
  <2> HIDE DEF c, f
  <2>1. PICK g \in [SUBSET D -> X] : Unfolds(g, D, c, base, f)
    <3>1. f \in [X \X D -> X]
      BY <1>6
    <3> QED BY <1>2, <1>3, <3>1, FoldExists, Zenon
  <2>2. \A t \in SUBSET D : g[t] = IF t = {} THEN base ELSE place(s, g[t \ {Max(t)}], ps[Max(t)])
    BY <1>5, <1>6, <2>1 DEF Unfolds
  <2>3. Is(g)
    BY <2>2
  <2> QED BY <2>3
<1> DEFINE h == CHOOSE h : Is(h)
<1>8. Is(h)
  BY <1>7
<1>9. for_pending(s) = h[D]
  BY DEF for_pending, FoldLeft, MapThenFoldSet, D, base, ps
<1> HIDE DEF h
<1>10. h[{}] \in X /\ \A t \in SUBSET D : t # {} /\ h[t \ {c[t]}] \in X => h[t] \in X
  <2>1. h[{}] = base
    BY <1>8
  <2>2. \A t \in SUBSET D : t # {} => h[t] = place(s, h[t \ {Max(t)}], ps[Max(t)])
    BY <1>8
  <2> HIDE DEF c
  <2> QED BY <1>3, <1>4, <1>5, <2>1, <2>2
<1> HIDE DEF Is, c
<1>11. \A t \in SUBSET D : h[t] \in X
  BY <1>2, <1>10, FoldStays
<1> QED BY <1>9, <1>11 DEF X

\* The plan powers on members that are off, and no more than maxOnline allows.
LEMMA PowerOnLimited ==
  ASSUME NEW s, NEW V, Sound(s, V)
  PROVE  /\ power_on(s) \in Seq(wakeable(s))
         /\ power_on(s) # <<>> => online_now(s) + Len(power_on(s)) <= s.spec.max_online
<1> DEFINE up == for_pending(s)
           W == wakeable(s)
           wanted == AtMost(s.spec.min_online, s.spec.max_online)
           missing == wanted - online_now(s) - Len(up.opened)
           extra == IF missing > 0 THEN AtMost(missing, Len(up.offline)) ELSE 0
<1>1. /\ up.offline \in Seq(W) /\ up.opened \in Seq(W)
      /\ up.opened # <<>> => online_now(s) + Len(up.opened) <= s.spec.max_online
  BY PendingOpens DEF Openings
<1>2. online_now(s) \in Nat /\ wanted \in Nat /\ wanted <= s.spec.max_online /\ s.spec.max_online \in Nat
  <2>1. online_now(s) \in Nat
    BY Counted DEF online_now
  <2>2. s.spec.min_online \in Nat /\ s.spec.max_online \in Nat
    BY DEF Sound
  <2> QED BY <2>1, <2>2 DEF AtMost
<1>3. power_on(s) = up.opened \o SubSeq(up.offline, 1, extra)
  BY DEF power_on
<1> HIDE DEF up, W, wanted
<1>4. Len(up.opened) \in Nat /\ Len(up.offline) \in Nat
  BY <1>1
<1>5. /\ extra \in 0..Len(up.offline)
      /\ extra > 0 => online_now(s) + Len(up.opened) + extra <= s.spec.max_online
  <2>1. missing \in Int
    BY <1>2, <1>4
  <2>2. missing > 0 => online_now(s) + Len(up.opened) + missing <= s.spec.max_online
    BY <1>2, <1>4
  <2>3. missing > 0 => extra \in 0..Len(up.offline) /\ extra <= missing
    <3> HIDE DEF missing
    <3> QED BY <1>4, <2>1 DEF AtMost
  <2>4. ~(missing > 0) => extra = 0
    <3> HIDE DEF missing
    <3> QED OBVIOUS
  <2> HIDE DEF missing, extra
  <2> QED BY <1>2, <1>4, <2>1, <2>2, <2>3, <2>4
<1> HIDE DEF extra
<1>6. SubSeq(up.offline, 1, extra) \in Seq(W) /\ Len(SubSeq(up.offline, 1, extra)) = extra
  BY <1>1, <1>4, <1>5, SubSeqProperties
<1>7. power_on(s) \in Seq(W) /\ Len(power_on(s)) = Len(up.opened) + extra
  BY <1>1, <1>3, <1>6, ConcatProperties
<1>8. power_on(s) # <<>> => extra > 0 \/ up.opened # <<>>
  <2>1. extra = 0 /\ up.opened = <<>> => Len(power_on(s)) = 0
    BY <1>7
  <2> QED BY <1>5, <1>7, <2>1
<1>9. power_on(s) # <<>> => online_now(s) + Len(power_on(s)) <= s.spec.max_online
  <2>1. CASE extra > 0
    BY <1>2, <1>4, <1>5, <1>7, <2>1
  <2>2. CASE ~(extra > 0)
    BY <1>1, <1>2, <1>4, <1>5, <1>7, <1>8, <2>2
  <2> QED BY <2>1, <2>2
<1> QED BY <1>7, <1>9 DEF W

-----------------------------------------------------------------------------
(* Powering off.                                                           *)

\* The room left on the members and on the nodes outside.
Rooms(s) == [DOMAIN s.members \cup DOMAIN s.external -> Int]

\* A trial placement so far.
Fits(s) == [ok : BOOLEAN, free : Rooms(s)]

\* The pods of a machine are placed where there is a known room.
LEMMA TargetsKnown ==
  ASSUME NEW s, NEW V, Sound(s, V), NEW n, NEW removed
  PROVE  targets(s, n, removed) \in Seq(DOMAIN s.members \cup DOMAIN s.external)
<1> DEFINE N == DOMAIN s.members \cup DOMAIN s.external
           stay == in_state(s, {"Online", "Manual"}) \ ({n} \cup Range(removed))
<1>1. stay \subseteq N
  BY Counted
<1>2. among(s.listing, stay) \in Seq(stay)
  BY Among DEF Sound
<1>3. SetToSeq(DOMAIN s.external) \in Seq(DOMAIN s.external) /\ DOMAIN s.external \subseteq N
  BY Listed DEF Sound
<1> HIDE DEF stay, N
<1>4. among(s.listing, stay) \in Seq(N) /\ SetToSeq(DOMAIN s.external) \in Seq(N)
  BY <1>1, <1>2, <1>3, SeqMonotonic
<1>5. targets(s, n, removed) = among(s.listing, stay) \o SetToSeq(DOMAIN s.external)
  BY DEF targets, stay
<1> QED BY <1>4, <1>5 DEF N

\* Placing one pod on trial keeps the rooms known.
LEMMA MoveFits ==
  ASSUME NEW s, NEW V, Sound(s, V), NEW p \in V, NEW fit \in Fits(s),
         NEW to \in Seq(DOMAIN s.members \cup DOMAIN s.external)
  PROVE  move(to, fit, p) \in Fits(s)
<1> DEFINE N == DOMAIN s.members \cup DOMAIN s.external
           here == {o \in Range(to) : pod_fits(p, o, fit.free[o])}
           slots == among(to, here)
<1>1. slots \in Seq(N)
  <2>1. here \subseteq N
    BY LastPicked DEF Range
  <2>2. slots \in Seq(here)
    BY Among
  <2> HIDE DEF here, slots, N
  <2> QED BY <2>1, <2>2, SeqMonotonic
<1>2. p.size \in Int /\ fit.free \in [N -> Int] /\ fit.ok \in BOOLEAN
      /\ fit = [ok |-> fit.ok, free |-> fit.free]
  BY DEF Sound, Fits, Rooms
<1>3. move(to, fit, p) = IF ~fit.ok \/ slots = <<>> THEN [fit EXCEPT !.ok = FALSE]
                         ELSE [fit EXCEPT !.free[Head(slots)] = @ - p.size]
  BY DEF move
<1> HIDE DEF slots, N
<1>4. CASE ~fit.ok \/ slots = <<>>
  <2>1. move(to, fit, p) = [ok |-> FALSE, free |-> fit.free]
    BY <1>2, <1>3, <1>4
  <2> QED BY <1>2, <2>1 DEF Fits, Rooms, N
<1>5. CASE ~(~fit.ok \/ slots = <<>>)
  <2> DEFINE free == [fit.free EXCEPT ![Head(slots)] = @ - p.size]
  <2>1. Head(slots) \in N
    BY <1>1, <1>5
  <2>2. free \in [N -> Int]
    BY <1>2, <2>1
  <2>3. move(to, fit, p) = [ok |-> fit.ok, free |-> free]
    BY <1>2, <1>3, <1>5
  <2> HIDE DEF free
  <2> QED BY <1>2, <2>2, <2>3 DEF Fits, Rooms, N
<1> QED BY <1>4, <1>5

\* The rooms and placements tried for the pods of n, one after the other.
Trials(h, s, down, n) ==
  LET ps == decreasing(s.members[n].pods)
  IN /\ h[{}] = [ok |-> TRUE, free |-> down.free]
     /\ \A t \in SUBSET DOMAIN ps :
          /\ h[t] \in Fits(s)
          /\ t # {} => h[t] = move(targets(s, n, down.removed), h[t \ {Max(t)}], ps[Max(t)])

\* Considering a machine tries its pods one after the other.
LEMMA TrialUnfolds ==
  ASSUME NEW s, NEW V, Sound(s, V), NEW n \in DOMAIN s.members,
         NEW down, down.free \in Rooms(s)
  PROVE  \E h : /\ Trials(h, s, down, n)
                /\ try_remove(s, down, n) =
                     LET fit == h[DOMAIN decreasing(s.members[n].pods)]
                     IN IF \/ n \in s.kept_by_others
                           \/ Len(down.removed) >= budget(s)
                           \/ online_now(s) - Len(down.removed) <= s.spec.min_online
                           \/ ~fit.ok
                        THEN down
                        ELSE [removed |-> Append(down.removed, n), free |-> fit.free]
<1> DEFINE ps == decreasing(s.members[n].pods)
           D == DOMAIN ps
           c == [t \in SUBSET D |-> Max(t)]
           X == Fits(s)
           base == [ok |-> TRUE, free |-> down.free]
           to == targets(s, n, down.removed)
           Is(h) == h = [t \in SUBSET D |->
                           IF t = {} THEN base ELSE move(to, h[t \ {Max(t)}], ps[Max(t)])]
           f == [xi \in X \X D |-> move(to, xi[1], ps[xi[2]])]
<1>1. ps \in Seq(V)
  BY Decreasing DEF Sound
<1> HIDE DEF ps
<1>2. IsFiniteSet(D) /\ Picks(c, D) /\ \A i \in D : ps[i] \in V
  BY <1>1, LastPicked
<1>3. base \in X
  BY DEF Fits
<1>4. \A x \in X, i \in D : move(to, x, ps[i]) \in X
  BY <1>2, TargetsKnown, MoveFits
<1>5. \A t \in SUBSET D : t # {} => Max(t) \in D /\ t \ {Max(t)} \in SUBSET D /\ c[t] = Max(t)
  BY <1>2 DEF Picks
<1> HIDE DEF D, X, base, to
<1>6. f \in [X \X D -> X] /\ \A x \in X, i \in D : f[<<x, i>>] = move(to, x, ps[i])
  BY <1>4
<1>7. \E h : Is(h)
  <2> HIDE DEF c, f
  <2>1. PICK g \in [SUBSET D -> X] : Unfolds(g, D, c, base, f)
    <3>1. f \in [X \X D -> X]
      BY <1>6
    <3> QED BY <1>2, <1>3, <3>1, FoldExists, Zenon
  <2>2. \A t \in SUBSET D : g[t] = IF t = {} THEN base ELSE move(to, g[t \ {Max(t)}], ps[Max(t)])
    BY <1>5, <1>6, <2>1 DEF Unfolds
  <2>3. Is(g)
    BY <2>2
  <2> QED BY <2>3
<1> DEFINE h == CHOOSE h : Is(h)
           fit == h[D]
<1>8. Is(h)
  BY <1>7
<1>9. try_remove(s, down, n) =
        IF \/ n \in s.kept_by_others
           \/ Len(down.removed) >= budget(s)
           \/ online_now(s) - Len(down.removed) <= s.spec.min_online
           \/ ~fit.ok
        THEN down
        ELSE [removed |-> Append(down.removed, n), free |-> fit.free]
  BY DEF try_remove, FoldLeft, MapThenFoldSet, D, base, ps, to
<1> HIDE DEF h
<1>10. /\ h[{}] = base
       /\ \A t \in SUBSET D : t # {} => h[t] = move(to, h[t \ {Max(t)}], ps[Max(t)])
  BY <1>8
<1>11. h[{}] \in X /\ \A t \in SUBSET D : t # {} /\ h[t \ {c[t]}] \in X => h[t] \in X
  <2> HIDE DEF c, Is
  <2> QED BY <1>3, <1>4, <1>5, <1>10
<1> HIDE DEF Is, c
<1>12. \A t \in SUBSET D : h[t] \in X
  BY <1>2, <1>11, FoldStays
<1>13. Trials(h, s, down, n)
  BY <1>10, <1>12 DEF Trials, D, X, base, to, ps
<1> QED BY <1>9, <1>13 DEF D, ps

\* The machines chosen to be powered off, while members are left over.
Removals(s, S) ==
  {down \in [removed : Seq(S), free : Rooms(s)] :
     /\ \A n \in Range(down.removed) : n \notin s.kept_by_others
     /\ down.removed # <<>> => online_now(s) - Len(down.removed) >= s.spec.min_online}

\* Considering one more machine keeps it so.
LEMMA RemovalKept ==
  ASSUME NEW s, NEW V, Sound(s, V), NEW S, S \subseteq DOMAIN s.members,
         NEW down \in Removals(s, S), NEW n \in S
  PROVE  try_remove(s, down, n) \in Removals(s, S)
<1> DEFINE D == DOMAIN decreasing(s.members[n].pods)
<1>1. down.free \in Rooms(s) /\ n \in DOMAIN s.members
  BY DEF Removals
<1>2. PICK h : /\ Trials(h, s, down, n)
               /\ try_remove(s, down, n) =
                    LET fit == h[D]
                    IN IF \/ n \in s.kept_by_others
                          \/ Len(down.removed) >= budget(s)
                          \/ online_now(s) - Len(down.removed) <= s.spec.min_online
                          \/ ~fit.ok
                       THEN down
                       ELSE [removed |-> Append(down.removed, n), free |-> fit.free]
  BY <1>1, TrialUnfolds
<1> DEFINE fit == h[D]
<1>3. fit.free \in Rooms(s)
  <2>1. D \in SUBSET D
    OBVIOUS
  <2>2. fit \in Fits(s)
    BY <1>2, <2>1 DEF Trials
  <2> QED BY <2>2 DEF Fits
<1> HIDE DEF D
<1>4. CASE ~(\/ n \in s.kept_by_others
              \/ online_now(s) - Len(down.removed) <= s.spec.min_online)
            /\ try_remove(s, down, n) = [removed |-> Append(down.removed, n), free |-> fit.free]
  <2>1. down.removed \in Seq(S) /\ \A m \in Range(down.removed) : m \notin s.kept_by_others
    BY DEF Removals
  <2> DEFINE all == Append(down.removed, n)
  <2>2. all \in Seq(S) /\ Len(all) = Len(down.removed) + 1 /\ Len(down.removed) \in Nat
    BY <2>1, AppendProperties
  <2>3. \A m \in Range(all) : m \notin s.kept_by_others
    <3>1. \A i \in DOMAIN all : all[i] = n \/ (i \in DOMAIN down.removed /\ all[i] = down.removed[i])
      BY <2>1, AppendProperties
    <3> HIDE DEF all
    <3> QED BY <1>4, <2>1, <3>1 DEF Range
  <2>4. online_now(s) \in Nat /\ s.spec.min_online \in Nat
    BY Counted DEF online_now, Sound
  <2> HIDE DEF all
  <2>5. online_now(s) - Len(all) >= s.spec.min_online
    BY <1>4, <2>2, <2>4
  <2>6. try_remove(s, down, n) = [removed |-> all, free |-> fit.free]
    BY <1>4 DEF all
  <2> QED BY <1>3, <2>2, <2>3, <2>5, <2>6 DEF Removals
<1> QED BY <1>2, <1>4 DEF fit

\* The room there is before anything is moved.
Start(s) == [o \in DOMAIN s.members \cup DOMAIN s.external |->
               IF o \in DOMAIN s.members THEN room(s.members[o]) ELSE s.external[o]]

\* The machines chosen so far as those in order are considered one after the
\* other.
Considers(h, s, order) ==
  /\ h[{}] = [removed |-> <<>>, free |-> Start(s)]
  /\ \A t \in SUBSET DOMAIN order :
       /\ h[t] \in Removals(s, DOMAIN s.members)
       /\ t # {} => h[t] = try_remove(s, h[t \ {Max(t)}], order[Max(t)])

\* Powering off considers the eligible machines one after the other.
LEMMA RemovalsUnfold ==
  ASSUME NEW s, NEW V, Sound(s, V), NEW on, NEW idle, idle \subseteq DOMAIN s.members
  PROVE  \E order \in Seq(DOMAIN s.members) : \E h :
           /\ Considers(h, s, order)
           /\ power_off(s, on, idle) =
                IF blocked(s, on) \/ (leaving(s) >= s.spec.down_step /\ over_max(s) = 0) THEN <<>>
                ELSE h[DOMAIN order].removed
<1> DEFINE M == DOMAIN s.members
           order == Reverse(ranked(s, eligible(s, idle)))
           D == DOMAIN order
           c == [t \in SUBSET D |-> Max(t)]
           X == Removals(s, M)
           base == [removed |-> <<>>, free |-> Start(s)]
           Is(h) == h = [t \in SUBSET D |->
                           IF t = {} THEN base ELSE try_remove(s, h[t \ {Max(t)}], order[Max(t)])]
           f == [xi \in X \X D |-> try_remove(s, xi[1], order[xi[2]])]
<1>1. order \in Seq(M)
  <2>1. eligible(s, idle) \subseteq M
    BY Counted DEF eligible, candidates
  <2>2. ranked(s, eligible(s, idle)) \in Seq(eligible(s, idle))
    BY Among DEF Sound, ranked
  <2>3. ranked(s, eligible(s, idle)) \in Seq(M)
    <3> HIDE DEF M
    <3> QED BY <2>1, <2>2, SeqMonotonic
  <2> HIDE DEF M
  <2> QED BY <2>3 DEF Reverse
<1> HIDE DEF order
<1>2. IsFiniteSet(D) /\ Picks(c, D) /\ \A i \in D : order[i] \in M
  BY <1>1, LastPicked
<1>3. base \in X
  <2>1. Start(s) \in Rooms(s)
    BY DEF Sound, Rooms, room, Start
  <2>2. <<>> \in Seq(M) /\ Range(<<>>) = {}
    BY DEF Range
  <2> QED BY <2>1, <2>2 DEF Removals
<1>4. \A x \in X, i \in D : try_remove(s, x, order[i]) \in X
  BY <1>2, RemovalKept
<1>5. \A t \in SUBSET D : t # {} => Max(t) \in D /\ t \ {Max(t)} \in SUBSET D /\ c[t] = Max(t)
  BY <1>2 DEF Picks
<1> HIDE DEF D, X, base
<1>6. f \in [X \X D -> X] /\ \A x \in X, i \in D : f[<<x, i>>] = try_remove(s, x, order[i])
  BY <1>4
<1>7. \E h : Is(h)
  <2> HIDE DEF c, f
  <2>1. PICK g \in [SUBSET D -> X] : Unfolds(g, D, c, base, f)
    <3>1. f \in [X \X D -> X]
      BY <1>6
    <3> QED BY <1>2, <1>3, <3>1, FoldExists, Zenon
  <2>2. \A t \in SUBSET D :
          g[t] = IF t = {} THEN base ELSE try_remove(s, g[t \ {Max(t)}], order[Max(t)])
    BY <1>5, <1>6, <2>1 DEF Unfolds
  <2>3. Is(g)
    BY <2>2
  <2> QED BY <2>3
<1> DEFINE h == CHOOSE h : Is(h)
<1>8. Is(h)
  BY <1>7
<1>9. power_off(s, on, idle) =
        IF blocked(s, on) \/ (leaving(s) >= s.spec.down_step /\ over_max(s) = 0) THEN <<>>
        ELSE h[D].removed
  BY DEF power_off, FoldLeft, MapThenFoldSet, D, base, order, Start
<1> HIDE DEF h
<1>10. /\ h[{}] = base
       /\ \A t \in SUBSET D : t # {} => h[t] = try_remove(s, h[t \ {Max(t)}], order[Max(t)])
  BY <1>8
<1>11. h[{}] \in X /\ \A t \in SUBSET D : t # {} /\ h[t \ {c[t]}] \in X => h[t] \in X
  <2> HIDE DEF c, Is
  <2> QED BY <1>3, <1>4, <1>5, <1>10
<1> HIDE DEF Is, c
<1>12. \A t \in SUBSET D : h[t] \in X
  BY <1>2, <1>11, FoldStays
<1>13. Considers(h, s, order)
  BY <1>10, <1>12 DEF Considers, D, X, base
<1> QED BY <1>1, <1>9, <1>13 DEF D

\* The machines planned off leave minOnline, no other pool holds them, and
\* nothing blocks the plan.
LEMMA PowerOffLimited ==
  ASSUME NEW s, NEW V, Sound(s, V), NEW on, NEW idle, idle \subseteq DOMAIN s.members
  PROVE  /\ power_off(s, on, idle) \in Seq(DOMAIN s.members)
         /\ \A n \in Range(power_off(s, on, idle)) : n \notin s.kept_by_others
         /\ power_off(s, on, idle) # <<>> =>
              /\ ~blocked(s, on)
              /\ online_now(s) - Len(power_off(s, on, idle)) >= s.spec.min_online
<1> DEFINE M == DOMAIN s.members
<1>0. PICK order \in Seq(M) : \E h :
        /\ Considers(h, s, order)
        /\ power_off(s, on, idle) =
             IF blocked(s, on) \/ (leaving(s) >= s.spec.down_step /\ over_max(s) = 0) THEN <<>>
             ELSE h[DOMAIN order].removed
  BY RemovalsUnfold
<1>1. PICK h :
        /\ Considers(h, s, order)
        /\ power_off(s, on, idle) =
             IF blocked(s, on) \/ (leaving(s) >= s.spec.down_step /\ over_max(s) = 0) THEN <<>>
             ELSE h[DOMAIN order].removed
  BY <1>0
<1>2. h[DOMAIN order] \in Removals(s, M)
  <2>1. DOMAIN order \in SUBSET DOMAIN order
    OBVIOUS
  <2> QED BY <1>1, <2>1 DEF Considers
<1>3. CASE power_off(s, on, idle) = <<>>
  BY <1>3 DEF Range
<1>4. CASE power_off(s, on, idle) = h[DOMAIN order].removed /\ ~blocked(s, on)
  BY <1>2, <1>4 DEF Removals
<1> QED BY <1>1, <1>3, <1>4

-----------------------------------------------------------------------------
(* What a pool plans.                                                      *)

Views == {PodView(x) : x \in Pods}

\* The snapshot of a pool is one the plan can work with.
LEMMA SnapshotSound ==
  ASSUME TypeOK, NEW p \in Pools
  PROVE  /\ Sound(snapshot(p), Views)
         /\ DOMAIN snapshot(p).members = Members[p]
         /\ online_now(snapshot(p)) = Cardinality(on_members(p))
<1> DEFINE s == snapshot(p)
           waiting == {x \in Pods : where[x] = "pending"}
           pending == SetToSeq(waiting)
<1>1. /\ s.spec = PoolSpec[p] /\ s.members = [n \in Members[p] |-> build_member(n)]
      /\ s.listing = among(Machines, Members[p])
      /\ s.pending = [i \in DOMAIN pending |-> PodView(pending[i])]
      /\ s.external = << >>
  BY DEF snapshot
<1> HIDE DEF s
<1>2. IsFiniteSet(Fleet) /\ Members[p] \subseteq Fleet /\ IsFiniteSet(Members[p])
  <2>1. Machines \in Seq(Fleet)
    BY FleetAssumption
  <2>2. Fleet = {Machines[i] : i \in 1..Len(Machines)} /\ Len(Machines) \in Nat
    BY <2>1, LastPicked DEF Fleet, Range
  <2>3. IsFiniteSet(Fleet)
    <3>1. IsFiniteSet(1..Len(Machines))
      BY <2>2, FS_Interval
    <3> DEFINE g == [i \in 1..Len(Machines) |-> Machines[i]]
    <3>2. g \in Surjection(1..Len(Machines), Fleet)
      BY <2>2 DEF Surjection
    <3> QED BY <3>1, <3>2, FS_Surjection
  <2> QED BY <2>3, PoolAssumption, FS_Subset
<1>3. \A S \in SUBSET Pods : LET q == SetToSeq(S) IN [i \in DOMAIN q |-> PodView(q[i])] \in Seq(Views)
  <2> SUFFICES ASSUME NEW S \in SUBSET Pods
               PROVE  LET q == SetToSeq(S) IN [i \in DOMAIN q |-> PodView(q[i])] \in Seq(Views)
    OBVIOUS
  <2> DEFINE q == SetToSeq(S)
  <2>1. q \in Seq(S)
    BY FleetAssumption, FS_Subset, Listed
  <2> HIDE DEF q
  <2>2. DOMAIN q = 1..Len(q) /\ Len(q) \in Nat /\ \A i \in DOMAIN q : q[i] \in S
    BY <2>1, LastPicked
  <2>3. [i \in DOMAIN q |-> PodView(q[i])] \in [1..Len(q) -> Views]
    BY <2>2 DEF Views
  <2>4. [i \in DOMAIN q |-> PodView(q[i])] \in Seq(Views)
    BY <2>2, <2>3, IsASeq
  <2> QED BY <2>4 DEF q
<1>4. \A n \in Members[p] : /\ s.members[n].size = Size[n] /\ s.members[n].used = used(n)
                            /\ s.members[n].state = member_state(n)
                            /\ s.members[n].pods \in Seq(Views)
  <2> TAKE n \in Members[p]
  <2>1. pods_on(n) \in SUBSET Pods
    BY DEF pods_on
  <2>2. s.members[n] = build_member(n)
    BY <1>1
  <2> QED BY <1>3, <2>1, <2>2 DEF build_member
<1>5. \A n \in Members[p] : Size[n] \in Int /\ used(n) \in Int
  BY <1>2, UsedType, FleetAssumption
<1>6. s.pending \in Seq(Views) /\ \A v \in Views : v.size \in Int
  <2>1. waiting \in SUBSET Pods
    OBVIOUS
  <2>2. s.pending \in Seq(Views)
    BY <1>1, <1>3, <2>1
  <2>3. \A x \in Pods : PodView(x).size \in Int
    BY FleetAssumption, SizeAssumption DEF PodView
  <2> QED BY <2>2, <2>3 DEF Views
<1>7. s.listing \in Seq(Range(s.listing)) /\ s.spec.order \in Seq(Range(s.spec.order))
  <2>1. s.listing \in Seq(Members[p])
    <3>1. Machines \in Seq(Fleet)
      BY FleetAssumption
    <3> QED BY <1>1, <3>1, Among
  <2>2. s.spec.order \in Seq(Fleet)
    BY <1>1, PoolAssumption
  <2>3. \A A : \A q \in Seq(A) : q \in Seq(Range(q))
    <3> SUFFICES ASSUME NEW A, NEW q \in Seq(A) PROVE q \in Seq(Range(q))
      OBVIOUS
    <3>1. DOMAIN q = 1..Len(q) /\ Len(q) \in Nat
      BY LastPicked
    <3>2. q = [i \in 1..Len(q) |-> q[i]]
      BY <3>1
    <3>3. q \in [1..Len(q) -> Range(q)]
      BY <3>1, <3>2 DEF Range
    <3> QED BY <3>1, <3>3, IsASeq
  <2> QED BY <2>1, <2>2, <2>3
<1>8. DOMAIN s.external = {} /\ IsFiniteSet({}) /\ DOMAIN s.members = Members[p]
  BY <1>1, FS_EmptySet
<1>9. Sound(s, Views)
  BY <1>1, <1>2, <1>4, <1>5, <1>6, <1>7, <1>8, PoolAssumption DEF Sound
<1>10. in_state(s, {"Online", "Booting"}) = on_members(p)
  BY <1>4, <1>8 DEF in_state, on_members
<1> QED BY <1>8, <1>9, <1>10 DEF online_now, s

\* The pool is over its maxOnline, or its hold after a power-on is over.
HoldOver(p) ==
  \/ Cardinality(on_members(p)) > PoolSpec[p].max_online
  \/ pool[p].last_scale_up = NoTime
  \/ now >= pool[p].last_scale_up + PoolSpec[p].hold

\* What a pool plans stays within its limits, names members of the pool that no
\* other pool holds, and lets others power off what it has not needed for long
\* enough.
LEMMA PlanLimited ==
  ASSUME TypeOK, NEW p \in Pools, NEW s, s = snapshot(p)
  PROVE  /\ plan(s).power_on \in Seq(Members[p]) /\ plan(s).power_off \in Seq(Members[p])
         /\ plan(s).power_on # <<>> =>
              Cardinality(on_members(p)) + Len(plan(s).power_on) <= PoolSpec[p].max_online
         /\ plan(s).power_off # <<>> =>
              /\ plan(s).power_on = <<>>
              /\ Cardinality(on_members(p)) - Len(plan(s).power_off) >= PoolSpec[p].min_online
              /\ HoldOver(p)
         /\ \A n \in Range(plan(s).power_off) : ~other_pools_holding(p, n)
         /\ plan(s).unneeded_since \in [Members[p] -> Times]
         /\ plan(s).releasable \subseteq Members[p]
         /\ \A n \in plan(s).releasable :
              /\ plan(s).unneeded_since[n] # NoTime
              /\ now - plan(s).unneeded_since[n] >= PoolSpec[p].unneeded
<1> DEFINE on    == power_on(s)
           since == unneeded_since(s)
           idle  == expired(s, since) \cup released(s)
           off   == power_off(s, on, idle)
<1>1. /\ plan(s).power_on = on /\ plan(s).power_off = off
      /\ plan(s).unneeded_since = since /\ plan(s).releasable = releasable(s, on, idle)
  BY DEF plan
<1>2. /\ Sound(s, Views) /\ DOMAIN s.members = Members[p]
      /\ online_now(s) = Cardinality(on_members(p))
  BY SnapshotSound
<1>3. /\ s.spec = PoolSpec[p] /\ s.now = now /\ s.unneeded_since = pool[p].unneeded_since
      /\ s.kept_by_others = {n \in Members[p] : other_pools_holding(p, n)}
      /\ \A n \in Members[p] : s.members[n].release_after = NoTime
  BY DEF snapshot, build_member
<1>4. candidates(s) \subseteq Members[p] /\ wakeable(s) \subseteq Members[p]
  BY <1>2, Counted DEF candidates, wakeable
<1>5. since \in [Members[p] -> Times]
  <2>1. now \in Times /\ NoTime \in Times
    BY DEF TypeOK, Times
  <2>2. \A n \in Members[p] : pool[p].unneeded_since[n] \in Times
    BY PoolAssumption DEF TypeOK, PoolStatus
  <2>3. \A n \in Members[p] : since[n] \in {NoTime, now, pool[p].unneeded_since[n]}
    BY <1>2, <1>3 DEF unneeded_since
  <2>4. DOMAIN since = Members[p] /\ since = [n \in DOMAIN since |-> since[n]]
    BY <1>2 DEF unneeded_since
  <2> HIDE DEF since
  <2>5. \A n \in Members[p] : since[n] \in Times
    BY <2>1, <2>2, <2>3
  <2> QED BY <2>4, <2>5
<1>6. released(s) = {}
  BY <1>3, <1>4 DEF released
<1> HIDE DEF since
<1>7. /\ idle \subseteq Members[p]
      /\ \A n \in idle : since[n] # NoTime /\ now - since[n] >= PoolSpec[p].unneeded
  BY <1>3, <1>4, <1>6 DEF expired
<1>8. releasable(s, on, idle) \subseteq idle
  BY DEF releasable
<1> HIDE DEF idle, on
<1>9. /\ on \in Seq(Members[p])
      /\ on # <<>> => Cardinality(on_members(p)) + Len(on) <= PoolSpec[p].max_online
  <2>1. on \in Seq(wakeable(s))
    BY <1>2, PowerOnLimited DEF on
  <2>2. on # <<>> => online_now(s) + Len(on) <= s.spec.max_online
    BY <1>2, PowerOnLimited DEF on
  <2> QED BY <1>2, <1>3, <1>4, <2>1, <2>2, SeqMonotonic
<1>10. /\ off \in Seq(Members[p])
       /\ \A n \in Range(off) : n \notin s.kept_by_others
       /\ off # <<>> => /\ ~blocked(s, on)
                        /\ Cardinality(on_members(p)) - Len(off) >= PoolSpec[p].min_online
  BY <1>2, <1>3, <1>7, PowerOffLimited
<1> HIDE DEF off
<1>11. ~blocked(s, on) => on = <<>> /\ HoldOver(p)
  <2> SUFFICES ASSUME ~blocked(s, on) PROVE on = <<>> /\ HoldOver(p)
    OBVIOUS
  <2>1. on = <<>> /\ (over_max(s) = 0 => ~holding(s))
    BY DEF blocked
  <2>2. CASE over_max(s) = 0
    <3>1. s.last_scale_up = pool[p].last_scale_up /\ s.last_scale_up \in Times
      BY DEF snapshot, TypeOK, PoolStatus
    <3>2. s.last_scale_up = NoTime \/ ~(now < s.last_scale_up + PoolSpec[p].hold)
      BY <1>3, <2>1, <2>2 DEF holding
    <3>3. now \in Nat /\ PoolSpec[p].hold \in Nat
      BY PoolAssumption DEF TypeOK
    <3>4. s.last_scale_up # NoTime => now >= s.last_scale_up + PoolSpec[p].hold
      BY <3>1, <3>2, <3>3 DEF Times
    <3> QED BY <2>1, <3>1, <3>4 DEF HoldOver
  <2>3. CASE over_max(s) # 0
    <3>1. online_now(s) > PoolSpec[p].max_online
      BY <1>3, <2>3 DEF over_max
    <3> QED BY <1>2, <2>1, <3>1 DEF HoldOver
  <2> QED BY <2>2, <2>3
<1>12. \A n \in Range(off) : ~other_pools_holding(p, n)
  <2>1. Range(off) \subseteq Members[p]
    BY <1>10, LastPicked DEF Range
  <2> QED BY <1>3, <1>10, <2>1
<1> QED BY <1>1, <1>5, <1>7, <1>8, <1>9, <1>10, <1>12, <1>11

-----------------------------------------------------------------------------
(* One reconcile.                                                          *)

\* Decisions of one pool that keep it within its limits.
Allowed(p, todo) ==
  /\ \A i \in DOMAIN todo : todo[i].machine \in Members[p]
  /\ todo # <<>> =>
       \/ /\ \A i \in DOMAIN todo : todo[i].target = "On"
          /\ Cardinality(on_members(p)) + Len(todo) <= PoolSpec[p].max_online
       \/ /\ \A i \in DOMAIN todo : todo[i].target = "Off"
          /\ Cardinality(on_members(p)) - Len(todo) >= PoolSpec[p].min_online

\* The status lets other pools power off only what has been unneeded for long
\* enough.
Agreed(p, status) ==
  \A n \in status.releasable :
    /\ status.unneeded_since[n] # NoTime
    /\ now - status.unneeded_since[n] >= PoolSpec[p].unneeded

\* What a plan leaves to be written.
LEMMA PlanStep ==
  ASSUME TypeOK, NEW p \in Pools, Plan(p)
  PROVE  \E todo \in Seq(Decision), new \in PoolStatus :
           /\ rec' = [rec EXCEPT ![p] = [pc |-> "decide", todo |-> todo, new |-> new]]
           /\ Allowed(p, todo) /\ Agreed(p, new)
           /\ \A i \in DOMAIN todo : todo[i].target = "Off" =>
                ~other_pools_holding(p, todo[i].machine)
           /\ new.last_scale_up \in {pool[p].last_scale_up, now}
           /\ \A i \in DOMAIN todo : \/ todo[i].target = "On" /\ new.last_scale_up = now
                                     \/ todo[i].target = "Off" /\ HoldOver(p)
<1> DEFINE s   == snapshot(p)
           pl  == plan(s)
           ons  == [i \in DOMAIN pl.power_on |-> [machine |-> pl.power_on[i], target |-> "On"]]
           offs == [i \in DOMAIN pl.power_off |-> [machine |-> pl.power_off[i], target |-> "Off"]]
           todo == ons \o offs
           up   == IF pl.power_on # <<>> THEN now ELSE pool[p].last_scale_up
           since == [n \in Fleet |-> IF n \in Members[p] THEN pl.unneeded_since[n] ELSE NoTime]
           new  == [last_scale_up |-> up, unneeded_since |-> since, releasable |-> pl.releasable]
           k    == Cardinality(on_members(p))
<1>1. rec' = [rec EXCEPT ![p] = [pc |-> "decide", todo |-> todo, new |-> new]]
  BY DEF Plan
<1>2. /\ pl.power_on \in Seq(Members[p]) /\ pl.power_off \in Seq(Members[p])
      /\ pl.power_on # <<>> => k + Len(pl.power_on) <= PoolSpec[p].max_online
      /\ pl.power_off # <<>> => /\ pl.power_on = <<>>
                                /\ k - Len(pl.power_off) >= PoolSpec[p].min_online
                                /\ HoldOver(p)
      /\ \A n \in Range(pl.power_off) : ~other_pools_holding(p, n)
  BY PlanLimited
<1>3. /\ pl.unneeded_since \in [Members[p] -> Times] /\ pl.releasable \subseteq Members[p]
      /\ \A n \in pl.releasable : /\ pl.unneeded_since[n] # NoTime
                                  /\ now - pl.unneeded_since[n] >= PoolSpec[p].unneeded
  BY PlanLimited
<1>4. Members[p] \subseteq Fleet
  BY PoolAssumption
<1> HIDE DEF pl, s
<1>5. new \in PoolStatus
  <2>1. up \in Times
    BY DEF TypeOK, PoolStatus, Times
  <2>2. since \in [Fleet -> Times]
    BY <1>3 DEF Times
  <2>3. pl.releasable \in SUBSET Fleet
    BY <1>3, <1>4
  <2> HIDE DEF up, since
  <2> QED BY <2>1, <2>2, <2>3 DEF PoolStatus
<1>6. Agreed(p, new)
  <2>1. \A n \in pl.releasable : since[n] = pl.unneeded_since[n]
    BY <1>3, <1>4
  <2> HIDE DEF since
  <2> QED BY <1>3, <2>1 DEF Agreed
<1>7. /\ DOMAIN pl.power_on = 1..Len(pl.power_on) /\ Len(pl.power_on) \in Nat
      /\ \A i \in DOMAIN pl.power_on : pl.power_on[i] \in Members[p]
      /\ DOMAIN pl.power_off = 1..Len(pl.power_off) /\ Len(pl.power_off) \in Nat
      /\ \A i \in DOMAIN pl.power_off : pl.power_off[i] \in Members[p]
  BY <1>2, LastPicked
<1>8. /\ ons \in Seq(Decision) /\ Len(ons) = Len(pl.power_on)
      /\ offs \in Seq(Decision) /\ Len(offs) = Len(pl.power_off)
  <2>1. ons \in [1..Len(pl.power_on) -> Decision] /\ offs \in [1..Len(pl.power_off) -> Decision]
    BY <1>4, <1>7 DEF Decision
  <2>2. DOMAIN ons = 1..Len(pl.power_on) /\ DOMAIN offs = 1..Len(pl.power_off)
    BY <1>7
  <2> HIDE DEF ons, offs
  <2>3. ons \in Seq(Decision) /\ offs \in Seq(Decision)
    BY <1>7, <2>1, IsASeq
  <2> QED BY <1>7, <2>2, <2>3, LenProperties
<1>9. \A i \in DOMAIN ons : ons[i].machine \in Members[p] /\ ons[i].target = "On"
  BY <1>7
<1>10. \A i \in DOMAIN offs : /\ offs[i].machine \in Members[p] /\ offs[i].target = "Off"
                              /\ ~other_pools_holding(p, offs[i].machine)
  BY <1>2, <1>7 DEF Range
<1>11. /\ new.last_scale_up \in {pool[p].last_scale_up, now}
       /\ pl.power_on # <<>> => new.last_scale_up = now
  OBVIOUS
<1> HIDE DEF ons, offs, new
<1>12. todo \in Seq(Decision)
  BY <1>8, ConcatProperties
<1>13. CASE offs = <<>>
  <2>1. todo = ons
    BY <1>8, <1>13, ConcatEmptySeq
  <2>2. ons # <<>> => k + Len(ons) <= PoolSpec[p].max_online
    <3>1. ons # <<>> => pl.power_on # <<>>
      BY <1>2, <1>8, EmptySeq
    <3> QED BY <1>2, <1>8, <3>1
  <2>3. Allowed(p, ons)
    BY <1>9, <2>2 DEF Allowed
  <2>4. \A i \in DOMAIN ons : new.last_scale_up = now
    <3>1. ons # <<>> => pl.power_on # <<>>
      BY <1>2, <1>8, EmptySeq
    <3>2. DOMAIN ons # {} => ons # <<>>
      OBVIOUS
    <3> QED BY <1>11, <3>1, <3>2
  <2> HIDE DEF todo
  <2> QED BY <1>1, <1>5, <1>6, <1>9, <1>12, <1>11, <2>1, <2>3, <2>4
<1>14. CASE offs # <<>>
  <2>1. pl.power_off # <<>>
    BY <1>2, <1>8, <1>14, EmptySeq
  <2>2. ons = <<>>
    BY <1>2, <1>8, <2>1, EmptySeq
  <2>3. todo = offs
    BY <1>8, <2>2, ConcatEmptySeq
  <2>4. k - Len(offs) >= PoolSpec[p].min_online
    BY <1>2, <1>8, <2>1
  <2>5. Allowed(p, offs)
    BY <1>10, <2>4 DEF Allowed
  <2> HIDE DEF todo
  <2>6. HoldOver(p)
    BY <1>2, <2>1
  <2> QED BY <1>1, <1>5, <1>6, <1>10, <1>12, <1>11, <2>3, <2>5, <2>6
<1> QED BY <1>13, <1>14

-----------------------------------------------------------------------------
(* Types.                                                                  *)

\* What a decision in a status may be.
Stamped == [pool : Pools, target : {"On", "Off"}] \cup {Undecided}
Configs == [phase : {"Off", "PoweringOn", "On", "Draining"}, decision : Stamped]

\* A reconcile that has planned is not idle.
LEMMA Reconciling ==
  ASSUME TypeOK, NEW p \in Pools, rec[p].pc = "decide"
  PROVE  /\ rec[p].todo \in Seq(Decision) /\ rec[p].new \in PoolStatus
         /\ rec[p] = [pc |-> "decide", todo |-> rec[p].todo, new |-> rec[p].new]
<1>1. rec[p] # Idle
  BY DEF Idle
<1>2. rec[p] \in [pc : {"decide"}, todo : Seq(Decision), new : PoolStatus]
  BY <1>1 DEF TypeOK
<1> HIDE DEF PoolStatus
<1> QED BY <1>2

\* One decision of a reconcile is written: the others are left.
LEMMA DecideStep ==
  ASSUME TypeOK, NEW p \in Pools, Decide(p), NEW todo, todo = rec[p].todo
  PROVE  /\ todo \in Seq(Decision) /\ rec[p].new \in PoolStatus
         /\ Head(todo) \in Decision /\ Tail(todo) \in Seq(Decision)
         /\ rec' = [rec EXCEPT ![p] =
                      [pc |-> "decide", todo |-> Tail(todo), new |-> rec[p].new]]
         /\ fleet' = [fleet EXCEPT ![Head(todo).machine].decision =
                        [pool |-> p, target |-> Head(todo).target]]
         /\ Head(todo) = todo[1] /\ 1 \in DOMAIN todo /\ Len(todo) = Len(Tail(todo)) + 1
         /\ DOMAIN Tail(todo) = 1..Len(Tail(todo)) /\ Len(Tail(todo)) \in Nat
<1> DEFINE new == rec[p].new
<1>1. rec[p].pc = "decide" /\ todo # <<>>
  BY DEF Decide
<1>2. /\ todo \in Seq(Decision) /\ new \in PoolStatus
      /\ rec[p] = [pc |-> "decide", todo |-> todo, new |-> new]
  BY <1>1, Reconciling
<1>3. /\ rec' = [rec EXCEPT ![p] = [rec[p] EXCEPT !.todo = Tail(todo)]]
      /\ fleet' = [fleet EXCEPT ![Head(todo).machine].decision =
                     [pool |-> p, target |-> Head(todo).target]]
  BY DEF Decide
<1>4. /\ Head(todo) \in Decision /\ Tail(todo) \in Seq(Decision)
      /\ Head(todo) = todo[1] /\ Len(todo) = Len(Tail(todo)) + 1 /\ Len(Tail(todo)) \in Nat
      /\ \A i \in 1..Len(Tail(todo)) : Tail(todo)[i] = todo[i + 1]
      /\ DOMAIN todo = 1..Len(todo) /\ DOMAIN Tail(todo) = 1..Len(Tail(todo))
  BY <1>1, <1>2, LenProperties, HeadTailProperties
<1>5. 1 \in DOMAIN todo
  BY <1>4
<1> HIDE DEF new
<1>6. [rec[p] EXCEPT !.todo = Tail(todo)] = [pc |-> "decide", todo |-> Tail(todo), new |-> new]
  <2> DEFINE r == rec[p]
             rest == Tail(todo)
  <2>1. r = [pc |-> "decide", todo |-> todo, new |-> new]
    BY <1>2
  <2> HIDE DEF r, rest
  <2>2. [r EXCEPT !.todo = rest] = [pc |-> "decide", todo |-> rest, new |-> new]
    BY <2>1
  <2> QED BY <2>2 DEF r, rest
<1> QED BY <1>2, <1>3, <1>4, <1>5, <1>6 DEF new

\* Writing one field of the status of a machine keeps the types.
LEMMA FleetKept ==
  ASSUME TypeOK, NEW n \in Fleet
  PROVE  /\ \A d \in Stamped : [fleet EXCEPT ![n].decision = d] \in [Fleet -> Configs]
         /\ \A to \in {"Off", "PoweringOn", "On", "Draining"} :
              [fleet EXCEPT ![n].phase = to] \in [Fleet -> Configs]
<1>1. fleet \in [Fleet -> Configs]
  BY DEF TypeOK, Configs, Stamped
<1>2. \A d \in Stamped : [fleet[n] EXCEPT !.decision = d] \in Configs
  BY <1>1 DEF Configs
<1>3. \A to \in {"Off", "PoweringOn", "On", "Draining"} : [fleet[n] EXCEPT !.phase = to] \in Configs
  BY <1>1 DEF Configs
<1> HIDE DEF Configs
<1> QED BY <1>1, <1>2, <1>3

\* Replacing the reconcile of one pool keeps the types.
LEMMA RecKept ==
  ASSUME TypeOK, NEW p \in Pools
  PROVE  /\ [rec EXCEPT ![p] = Idle] \in [Pools -> {Idle} \cup
              [pc : {"decide"}, todo : Seq(Decision), new : PoolStatus]]
         /\ \A todo \in Seq(Decision), new \in PoolStatus :
              [rec EXCEPT ![p] = [pc |-> "decide", todo |-> todo, new |-> new]]
                \in [Pools -> {Idle} \cup
                       [pc : {"decide"}, todo : Seq(Decision), new : PoolStatus]]
<1> DEFINE R == {Idle} \cup [pc : {"decide"}, todo : Seq(Decision), new : PoolStatus]
<1>1. rec \in [Pools -> R]
  BY DEF TypeOK
<1>2. Idle \in R
  OBVIOUS
<1>3. \A todo \in Seq(Decision), new \in PoolStatus :
        [pc |-> "decide", todo |-> todo, new |-> new] \in R
  <2> TAKE todo \in Seq(Decision), new \in PoolStatus
  <2>1. [pc |-> "decide", todo |-> todo, new |-> new]
          \in [pc : {"decide"}, todo : Seq(Decision), new : PoolStatus]
    OBVIOUS
  <2> QED BY <2>1
<1> HIDE DEF R
<1>4. [rec EXCEPT ![p] = Idle] \in [Pools -> R]
  BY <1>1, <1>2
<1>5. \A todo \in Seq(Decision), new \in PoolStatus :
        [rec EXCEPT ![p] = [pc |-> "decide", todo |-> todo, new |-> new]] \in [Pools -> R]
  BY <1>1, <1>3
<1> QED BY <1>4, <1>5 DEF R

\* The merge patch replaces every field of the pool's status but unneededSince,
\* of which it replaces the entries that the new status has.
LEMMA Patched ==
  ASSUME TypeOK, NEW p \in Pools, PatchPool(p)
  PROVE  /\ rec[p].pc = "decide" /\ rec' = [rec EXCEPT ![p] = Idle]
         /\ UNCHANGED <<fleet, where, now, failures, woke>>
         /\ pool' \in [Pools -> PoolStatus] /\ idle_since' \in [Pools -> [Fleet -> Times]]
         /\ \A q \in Pools \ {p} : pool'[q] = pool[q] /\ idle_since'[q] = idle_since[q]
         /\ pool'[p].last_scale_up = rec[p].new.last_scale_up
         /\ pool'[p].releasable = rec[p].new.releasable
         /\ \A n \in Fleet : rec[p].new.unneeded_since[n] # NoTime =>
              /\ pool'[p].unneeded_since[n] = rec[p].new.unneeded_since[n]
              /\ idle_since'[p][n] # NoTime
<1> DEFINE new == rec[p].new
           kept == merged(pool[p].unneeded_since, new.unneeded_since)
           seen == [n \in Fleet |->
                      CASE new.unneeded_since[n] = NoTime -> NoTime
                        [] new.unneeded_since[n] # NoTime /\ idle_since[p][n] # NoTime
                             -> idle_since[p][n]
                        [] new.unneeded_since[n] # NoTime /\ idle_since[p][n] = NoTime -> now]
<1>1. /\ rec[p].pc = "decide" /\ rec' = [rec EXCEPT ![p] = Idle]
      /\ UNCHANGED <<fleet, where, now, failures, woke>>
      /\ pool' = [pool EXCEPT ![p] = [new EXCEPT !.unneeded_since = kept]]
      /\ idle_since' = [idle_since EXCEPT ![p] = seen]
  BY DEF PatchPool
<1>2. new \in PoolStatus
  BY <1>1, Reconciling
<1>3. /\ pool \in [Pools -> PoolStatus] /\ idle_since \in [Pools -> [Fleet -> Times]]
      /\ now \in Times /\ now # NoTime
  BY SizeAssumption DEF TypeOK, Times
<1>4. /\ new.unneeded_since \in [Fleet -> Times] /\ pool[p].unneeded_since \in [Fleet -> Times]
      /\ new.last_scale_up \in Times /\ new.releasable \in SUBSET Fleet
  BY <1>2, <1>3 DEF PoolStatus
<1> DEFINE old == pool[p].unneeded_since
           next == new.unneeded_since
<1>5. /\ merged(old, next) \in [Fleet -> Times]
      /\ \A n \in Fleet : next[n] # NoTime => merged(old, next)[n] = next[n]
  <2>1. old \in [Fleet -> Times] /\ next \in [Fleet -> Times]
    BY <1>4
  <2> HIDE DEF old, next, Times
  <2> QED BY <2>1 DEF merged
<1>6. seen \in [Fleet -> Times] /\ \A n \in Fleet : next[n] # NoTime => seen[n] # NoTime
  <2>1. NoTime \in Times
    BY DEF Times
  <2>2. idle_since[p] \in [Fleet -> Times] /\ next \in [Fleet -> Times]
    BY <1>3, <1>4
  <2> HIDE DEF next, Times
  <2> QED BY <1>3, <2>1, <2>2 DEF next
<1>7. /\ [new EXCEPT !.unneeded_since = kept] \in PoolStatus
      /\ [new EXCEPT !.unneeded_since = kept].last_scale_up = new.last_scale_up
      /\ [new EXCEPT !.unneeded_since = kept].releasable = new.releasable
      /\ [new EXCEPT !.unneeded_since = kept].unneeded_since = kept
  <2>1. kept \in [Fleet -> Times]
    BY <1>5
  <2> HIDE DEF kept, new
  <2> QED BY <1>2, <2>1 DEF PoolStatus
<1> DEFINE status == [new EXCEPT !.unneeded_since = kept]
<1> HIDE DEF status
<1>8. /\ pool'[p] = status /\ pool' \in [Pools -> PoolStatus]
      /\ \A q \in Pools \ {p} : pool'[q] = pool[q]
  <2> HIDE DEF PoolStatus
  <2> QED BY <1>1, <1>3, <1>7 DEF status
<1> HIDE DEF seen
<1>9. /\ idle_since'[p] = seen /\ idle_since' \in [Pools -> [Fleet -> Times]]
      /\ \A q \in Pools \ {p} : idle_since'[q] = idle_since[q]
  <2> HIDE DEF Times
  <2> QED BY <1>1, <1>3, <1>6
<1> QED BY <1>1, <1>5, <1>6, <1>7, <1>8, <1>9 DEF status

\* The types hold at the start.
LEMMA TypeInit == Init => TypeOK
<1> SUFFICES ASSUME Init PROVE TypeOK
  OBVIOUS
<1>1. fleet \in [Fleet -> Configs]
  <2>1. \A n \in Fleet : [phase |-> IF n \in InitiallyOn THEN "On" ELSE "Off",
                          decision |-> Undecided] \in Configs
    BY DEF Configs, Stamped
  <2> HIDE DEF Configs
  <2> QED BY <2>1 DEF Init
<1>2. pool \in [Pools -> PoolStatus]
  BY DEF Init, PoolStatus, Times
<1>3. rec \in [Pools -> {Idle} \cup [pc : {"decide"}, todo : Seq(Decision), new : PoolStatus]]
  BY DEF Init
<1>4. where \in [Pods -> Fleet \cup {"pending", "none"}]
  BY DEF Init
<1>5. /\ now \in Nat /\ failures \in Nat /\ woke \in [Pools -> Times]
      /\ idle_since \in [Pools -> [Fleet -> Times]]
  BY DEF Init, Times
<1> QED BY <1>1, <1>2, <1>3, <1>4, <1>5 DEF TypeOK, Configs, Stamped

\* Every step keeps the types.
LEMMA TypeStep == TypeOK /\ [Next]_vars => TypeOK'
<1> SUFFICES ASSUME TypeOK, [Next]_vars PROVE TypeOK'
  OBVIOUS
<1> DEFINE R == {Idle} \cup [pc : {"decide"}, todo : Seq(Decision), new : PoolStatus]
<1>0. /\ fleet \in [Fleet -> Configs] /\ where \in [Pods -> Fleet \cup {"pending", "none"}]
      /\ pool \in [Pools -> PoolStatus] /\ rec \in [Pools -> R]
      /\ now \in Nat /\ failures \in Nat /\ woke \in [Pools -> Times]
      /\ idle_since \in [Pools -> [Fleet -> Times]]
  BY DEF TypeOK, Configs, Stamped
<1>g. ASSUME /\ fleet' \in [Fleet -> Configs] /\ where' \in [Pods -> Fleet \cup {"pending", "none"}]
             /\ pool' \in [Pools -> PoolStatus] /\ rec' \in [Pools -> R]
             /\ now' \in Nat /\ failures' \in Nat /\ woke' \in [Pools -> Times]
             /\ idle_since' \in [Pools -> [Fleet -> Times]]
      PROVE  TypeOK'
  BY <1>g DEF TypeOK, Configs, Stamped, Times, PoolStatus, Decision
<1>1. ASSUME NEW p \in Pools, Plan(p) PROVE TypeOK'
  <2>1. rec' \in [Pools -> R]
    BY <1>1, PlanStep, RecKept
  <2>2. UNCHANGED <<fleet, where, pool, now, failures, woke, idle_since>>
    BY <1>1 DEF Plan
  <2> HIDE DEF R
  <2> QED BY <1>0, <1>g, <2>1, <2>2
<1>2. ASSUME NEW p \in Pools, Decide(p) PROVE TypeOK'
  <2> DEFINE d == Head(rec[p].todo)
             rest == Tail(rec[p].todo)
             new == rec[p].new
  <2>1. /\ d \in Decision /\ rest \in Seq(Decision) /\ new \in PoolStatus
        /\ rec' = [rec EXCEPT ![p] = [pc |-> "decide", todo |-> rest, new |-> new]]
        /\ fleet' = [fleet EXCEPT ![d.machine].decision = [pool |-> p, target |-> d.target]]
    BY <1>2, DecideStep
  <2> HIDE DEF d, rest, new
  <2>2. rec' \in [Pools -> R]
    BY <2>1, RecKept
  <2>3. d.machine \in Fleet /\ [pool |-> p, target |-> d.target] \in Stamped
    BY <2>1 DEF Decision, Stamped
  <2>4. fleet' \in [Fleet -> Configs]
    BY <2>1, <2>3, FleetKept
  <2>5. woke' \in [Pools -> Times]
    <3>1. woke' = woke \/ woke' = [woke EXCEPT ![p] = now]
      BY <1>2 DEF Decide
    <3> QED BY <1>0, <3>1 DEF Times
  <2>6. UNCHANGED <<where, pool, now, failures, idle_since>>
    BY <1>2 DEF Decide
  <2> HIDE DEF R
  <2> QED BY <1>0, <1>g, <2>2, <2>4, <2>5, <2>6
<1>3. ASSUME NEW p \in Pools, PatchPool(p) PROVE TypeOK'
  <2>1. /\ pool' \in [Pools -> PoolStatus] /\ idle_since' \in [Pools -> [Fleet -> Times]]
        /\ UNCHANGED <<fleet, where, now, failures, woke>>
    BY <1>3, Patched
  <2>2. rec' \in [Pools -> R]
    BY <1>3, Patched, RecKept
  <2> HIDE DEF R
  <2> QED BY <1>0, <1>g, <2>1, <2>2
<1>4. ASSUME NEW p \in Pools, ReconcileFails(p) PROVE TypeOK'
  <2>1. rec' \in [Pools -> R]
    BY <1>4, RecKept DEF ReconcileFails
  <2>2. UNCHANGED <<fleet, where, pool, now, woke, idle_since>> /\ failures' = failures + 1
    BY <1>4 DEF ReconcileFails
  <2>3. failures' \in Nat
    BY <1>0, <2>2
  <2> HIDE DEF R
  <2> QED BY <1>0, <1>g, <2>1, <2>2, <2>3
<1>5. ASSUME NEW n \in Fleet, PowersOn(n) \/ BecomesOn(n) \/ Drains(n) \/ PowersOff(n)
      PROVE  TypeOK'
  <2>1. PICK to \in {"Off", "PoweringOn", "On", "Draining"} :
          /\ fleet' = [fleet EXCEPT ![n].phase = to]
          /\ UNCHANGED <<where, pool, rec, now, failures, woke, idle_since>>
    BY <1>5 DEF PowersOn, BecomesOn, Drains, PowersOff, Moves
  <2>2. fleet' \in [Fleet -> Configs]
    BY <2>1, FleetKept
  <2> HIDE DEF R
  <2> QED BY <1>0, <1>g, <2>1, <2>2
<1>6. ASSUME NEW x \in Pods, PodCreated(x) \/ PodBound(x) \/ PodDone(x) \/ PodEvicted(x)
      PROVE  TypeOK'
  <2>1. PICK to \in Fleet \cup {"pending", "none"} : Rebinds(x, to)
    <3>1. CASE PodBound(x)
      <4>1. PICK n \in Admits[x] : fleet[n].phase = "On" /\ Rebinds(x, n)
        BY <3>1 DEF PodBound
      <4> QED BY <4>1, FleetAssumption
    <3> QED BY <1>6, <3>1 DEF PodCreated, PodDone, PodEvicted
  <2>2. where' \in [Pods -> Fleet \cup {"pending", "none"}]
        /\ UNCHANGED <<fleet, pool, rec, now, failures, woke, idle_since>>
    BY <1>0, <2>1 DEF Rebinds
  <2> HIDE DEF R
  <2> QED BY <1>0, <1>g, <2>2
<1>7. CASE Tick
  <2>1. now' \in Nat /\ UNCHANGED <<fleet, where, pool, rec, failures, woke, idle_since>>
    BY <1>0, <1>7 DEF Tick
  <2> HIDE DEF R
  <2> QED BY <1>0, <1>g, <2>1
<1>8. CASE UNCHANGED vars
  <2> HIDE DEF R
  <2> QED BY <1>0, <1>8, <1>g DEF vars
<1> QED BY <1>1, <1>2, <1>3, <1>4, <1>5, <1>6, <1>7, <1>8 DEF Next

\* The state of every controller is of its type, for every fleet and every set
\* of pools (the statuses in src/crd.rs).
THEOREM TypeCorrect == Spec => []TypeOK
<1> QED BY TypeInit, TypeStep, PTL DEF Spec

-----------------------------------------------------------------------------
(* Pools that share machines.                                              *)

\* A pool's status, and the one a reconcile is about to write, let other pools
\* power off only what has a long enough unneededSince; and the stored one only
\* what its last plan found unneeded.
AgreedInv ==
  \A p \in Pools : /\ Agreed(p, pool[p])
                   /\ rec[p].pc = "decide" => Agreed(p, rec[p].new)
                   /\ \A n \in pool[p].releasable : idle_since[p][n] # NoTime

\* Every step but a plan keeps what pools agree to, and none of them plans.
LEMMA AgreedKept ==
  ASSUME TypeOK, AgreedInv, [Next]_vars, \A p \in Pools : ~Plan(p)
  PROVE  AgreedInv' /\ \A p \in Pools : ~Planned(p)
<1> USE DEF Agreed, AgreedInv
<1>1. ASSUME NEW p \in Pools, Decide(p) PROVE AgreedInv' /\ \A q \in Pools : ~Planned(q)
  <2>1. rec' = [rec EXCEPT ![p] =
                  [pc |-> "decide", todo |-> Tail(rec[p].todo), new |-> rec[p].new]]
    BY <1>1, DecideStep
  <2>2. rec[p].pc = "decide" /\ UNCHANGED <<pool, now, idle_since>>
    BY <1>1 DEF Decide
  <2>3. \A q \in Pools : rec'[q].pc = rec[q].pc /\ (rec[q].pc = "decide" => rec'[q].new = rec[q].new)
    BY <2>1, <2>2 DEF TypeOK
  <2> QED BY <2>2, <2>3 DEF Planned
<1>2. ASSUME NEW p \in Pools, PatchPool(p) PROVE AgreedInv' /\ \A q \in Pools : ~Planned(q)
  <2>1. /\ rec[p].pc = "decide" /\ now' = now /\ rec' = [rec EXCEPT ![p] = Idle]
        /\ \A q \in Pools \ {p} : pool'[q] = pool[q] /\ idle_since'[q] = idle_since[q]
        /\ pool'[p].releasable = rec[p].new.releasable
        /\ \A n \in Fleet : rec[p].new.unneeded_since[n] # NoTime =>
             /\ pool'[p].unneeded_since[n] = rec[p].new.unneeded_since[n]
             /\ idle_since'[p][n] # NoTime
    BY <1>2, Patched
  <2>2. rec[p].new.releasable \subseteq Fleet
    BY <2>1, Reconciling DEF PoolStatus
  <2>3. \A q \in Pools : rec'[q] = IF q = p THEN Idle ELSE rec[q]
    BY <2>1 DEF TypeOK
  <2>4. Agreed(p, pool[p])' /\ \A n \in pool'[p].releasable : idle_since'[p][n] # NoTime
    BY <2>1, <2>2
  <2>5. \A q \in Pools \ {p} :
          Agreed(q, pool[q])' /\ \A n \in pool'[q].releasable : idle_since'[q][n] # NoTime
    BY <2>1
  <2>6. \A q \in Pools : rec'[q].pc = "decide" => q # p /\ Agreed(q, rec[q].new)'
    BY <2>1, <2>3 DEF Idle
  <2> QED BY <2>1, <2>3, <2>4, <2>5, <2>6 DEF Planned, Idle
<1>3. ASSUME NEW p \in Pools, ReconcileFails(p) PROVE AgreedInv' /\ \A q \in Pools : ~Planned(q)
  <2>1. UNCHANGED <<pool, now, idle_since>> /\ rec' = [rec EXCEPT ![p] = Idle]
    BY <1>3 DEF ReconcileFails
  <2>2. \A q \in Pools : rec'[q] = IF q = p THEN Idle ELSE rec[q]
    BY <2>1 DEF TypeOK
  <2> QED BY <2>1, <2>2 DEF Planned, Idle
<1>4. CASE UNCHANGED <<pool, rec, now, idle_since>>
  BY <1>4 DEF Planned
<1>5. ASSUME NEW n \in Fleet, PowersOn(n) \/ BecomesOn(n) \/ Drains(n) \/ PowersOff(n)
      PROVE  UNCHANGED <<pool, rec, now, idle_since>>
  BY <1>5 DEF PowersOn, BecomesOn, Drains, PowersOff, Moves
<1>6. ASSUME NEW x \in Pods, PodCreated(x) \/ PodBound(x) \/ PodDone(x) \/ PodEvicted(x)
      PROVE  UNCHANGED <<pool, rec, now, idle_since>>
  BY <1>6 DEF PodCreated, PodBound, PodDone, PodEvicted, Rebinds
<1>7. CASE Tick
  <2>1. /\ now' = now + 1 /\ now \in Nat /\ UNCHANGED <<pool, rec, idle_since>>
        /\ \A p \in Pools : rec[p] = Idle
    BY <1>7 DEF Tick, TypeOK
  <2>2. ASSUME NEW p \in Pools, NEW n \in pool[p].releasable
        PROVE  /\ pool[p].unneeded_since[n] # NoTime
               /\ now' - pool[p].unneeded_since[n] >= PoolSpec[p].unneeded
    <3> DEFINE t == pool[p].unneeded_since[n]
    <3>1. n \in Fleet /\ t \in Times
      BY DEF TypeOK, PoolStatus
    <3>2. t # NoTime /\ now - t >= PoolSpec[p].unneeded /\ PoolSpec[p].unneeded \in Nat
      BY PoolAssumption
    <3> HIDE DEF t
    <3>3. now' - t >= PoolSpec[p].unneeded
      BY <2>1, <3>1, <3>2 DEF Times
    <3> QED BY <3>2, <3>3 DEF t
  <2> QED BY <2>1, <2>2 DEF Planned, Idle
<1>8. CASE UNCHANGED vars
  BY <1>4, <1>8 DEF vars
<1> QED BY <1>1, <1>2, <1>3, <1>4, <1>5, <1>6, <1>7, <1>8 DEF Next

\* A plan keeps what pools agree to, and takes from the machines they share
\* only those that every other pool's last plan found unneeded, with a long
\* enough unneededSince.
LEMMA AgreedPlan ==
  ASSUME TypeOK, AgreedInv, NEW p \in Pools, Plan(p)
  PROVE  /\ AgreedInv'
         /\ \A q \in Pools : Planned(q) => q = p
         /\ \A n \in planned_off(p) : \A q \in selecting(n) \ {p} :
              /\ idle_since[q][n] # NoTime
              /\ pool[q].unneeded_since[n] # NoTime
              /\ now - pool[q].unneeded_since[n] >= PoolSpec[q].unneeded
<1>1. PICK todo \in Seq(Decision), new \in PoolStatus :
        /\ rec' = [rec EXCEPT ![p] = [pc |-> "decide", todo |-> todo, new |-> new]]
        /\ Allowed(p, todo) /\ Agreed(p, new)
        /\ \A i \in DOMAIN todo : todo[i].target = "Off" =>
             ~other_pools_holding(p, todo[i].machine)
  BY PlanStep
<1>2. UNCHANGED <<now, pool, idle_since>>
  BY DEF Plan
<1>3. /\ rec'[p].pc = "decide" /\ rec'[p].todo = todo /\ rec'[p].new = new
      /\ \A q \in Pools : q # p => rec'[q] = rec[q]
  BY <1>1 DEF TypeOK
<1>4. AgreedInv'
  BY <1>1, <1>2, <1>3 DEF AgreedInv, Agreed
<1>5. \A q \in Pools : Planned(q) => q = p
  BY <1>3 DEF Planned
<1>6. ASSUME NEW n \in planned_off(p), NEW q \in selecting(n) \ {p}
      PROVE  /\ idle_since[q][n] # NoTime
             /\ pool[q].unneeded_since[n] # NoTime
             /\ now - pool[q].unneeded_since[n] >= PoolSpec[q].unneeded
  <2>1. PICK i \in DOMAIN todo : todo[i].target = "Off" /\ n = todo[i].machine
    BY <1>3 DEF planned_off
  <2>2. n \in pool[q].releasable
    BY <1>1, <2>1 DEF other_pools_holding
  <2>3. q \in Pools
    BY DEF selecting
  <2> QED BY <2>2, <2>3 DEF AgreedInv, Agreed
<1> QED BY <1>4, <1>5, <1>6

\* No pool plans a machine off unless the last plan that each other pool selecting
\* it stored found it unneeded, with an unneededSince that is that pool's own
\* unneededSeconds ago (other_pools_holding in
\* src/controller/node_scaling_pool.rs), however the pools overlap, and
\* whichever reconciles fail in between.  The machine need not have been unneeded
\* all that time: the merge patch can keep the entry of an earlier spell.
THEOREM PoolsAgree == Spec => AllPoolsAgree
<1>1. Init => AgreedInv
  BY DEF Init, AgreedInv, Agreed, Idle
<1>2. ASSUME TypeOK, AgreedInv, [Next]_vars
      PROVE  /\ AgreedInv'
             /\ [\A p \in Pools : Planned(p) =>
                   \A n \in planned_off(p) : \A q \in selecting(n) \ {p} :
                     /\ idle_since[q][n] # NoTime
                     /\ pool[q].unneeded_since[n] # NoTime
                     /\ now - pool[q].unneeded_since[n] >= PoolSpec[q].unneeded]_vars
  <2>1. CASE \E p \in Pools : Plan(p)
    BY <1>2, <2>1, AgreedPlan
  <2>2. CASE \A p \in Pools : ~Plan(p)
    BY <1>2, <2>2, AgreedKept
  <2> QED BY <2>1, <2>2
<1> QED BY <1>1, <1>2, TypeCorrect, PTL DEF Spec, AllPoolsAgree

-----------------------------------------------------------------------------
(* The limits of pools that share no machine.                              *)

Apart == \A p, q \in Pools : p # q => Members[p] \cap Members[q] = {}

StartsWithin ==
  \A p \in Pools : Cardinality(Members[p] \cap InitiallyOn) <= PoolSpec[p].max_online

\* What is still to be written of a reconcile keeps the pool within its limits.
AllowedInv == \A p \in Pools : rec[p].pc = "decide" => Allowed(p, rec[p].todo)

\* A config that counts as on.
OnConfig(c) ==
  \/ c.decision.target = "On"
  \/ c.decision.target = "" /\ c.phase \in {"On", "PoweringOn"}

\* The members that count as on, now and after a step.
LEMMA OnWhen ==
  ASSUME TypeOK, TypeOK'
  PROVE  \A p \in Pools : /\ on_members(p) = {n \in Members[p] : OnConfig(fleet[n])}
                          /\ on_members(p)' = {n \in Members[p] : OnConfig(fleet'[n])}
<1>1. \A c \in Configs : c.decision.target \in {"On", "Off", ""}
                         /\ c.phase \in {"Off", "PoweringOn", "On", "Draining"}
  <2>1. \A d \in Stamped : d.target \in {"On", "Off", ""}
    <3>1. Undecided.target = ""
      BY DEF Undecided
    <3> QED BY <3>1 DEF Stamped
  <2>2. \A c \in Configs : c.decision \in Stamped
                           /\ c.phase \in {"Off", "PoweringOn", "On", "Draining"}
    BY DEF Configs
  <2> QED BY <2>1, <2>2
<1>2. fleet \in [Fleet -> Configs] /\ fleet' \in [Fleet -> Configs]
  BY DEF TypeOK, Configs, Stamped, Times, PoolStatus, Decision
<1>3. \A n \in Fleet : member_state(n) \in {"Online", "Booting"} <=> OnConfig(fleet[n])
  BY <1>1, <1>2 DEF member_state, OnConfig
<1>4. \A n \in Fleet : (member_state(n))' \in {"Online", "Booting"} <=> OnConfig(fleet'[n])
  BY <1>1, <1>2 DEF member_state, OnConfig
<1>5. \A p \in Pools : Members[p] \subseteq Fleet
  BY PoolAssumption
<1> QED BY <1>3, <1>4, <1>5 DEF on_members

\* The members of a pool that count as on are counted by a number, which one
\* machine changes by one at most.
LEMMA OnCounted ==
  ASSUME TypeOK, NEW p \in Pools, NEW m
  PROVE  /\ Cardinality(on_members(p)) \in Nat
         /\ Cardinality(on_members(p) \cup {m}) \in
              {Cardinality(on_members(p)), Cardinality(on_members(p)) + 1}
         /\ Cardinality(on_members(p) \ {m}) \in
              {Cardinality(on_members(p)), Cardinality(on_members(p)) - 1}
<1>1. Sound(snapshot(p), Views) /\ DOMAIN snapshot(p).members = Members[p]
  BY SnapshotSound
<1>2. IsFiniteSet(Members[p])
  BY <1>1 DEF Sound
<1>3. on_members(p) \in SUBSET Members[p]
  BY DEF on_members
<1>4. IsFiniteSet(on_members(p))
  BY <1>2, <1>3, FS_Subset
<1> QED BY <1>4, FS_CardinalityType, FS_AddElement, FS_RemoveElement

\* Machines that carry out decisions change no count, nor does anything else
\* but a decision.
LEMMA CountKept ==
  ASSUME TypeOK, TypeOK', [Next]_vars, \A p \in Pools : ~Decide(p)
  PROVE  \A p \in Pools : on_members(p)' = on_members(p)
<1>1. ASSUME fleet' = fleet PROVE \A p \in Pools : on_members(p)' = on_members(p)
  BY <1>1, OnWhen
<1>2. ASSUME NEW n \in Fleet, PowersOn(n) \/ BecomesOn(n) \/ Drains(n) \/ PowersOff(n)
      PROVE  \A p \in Pools : on_members(p)' = on_members(p)
  <2>1. PICK to \in {"Off", "PoweringOn", "On", "Draining"} :
          /\ fleet' = [fleet EXCEPT ![n].phase = to]
          /\ \/ fleet[n].decision.target \in {"On", "Off"}
             \/ fleet[n].phase = "PoweringOn" /\ to = "On"
    BY <1>2 DEF PowersOn, BecomesOn, Drains, PowersOff, Moves
  <2>2. fleet \in [Fleet -> Configs]
    BY DEF TypeOK, Configs, Stamped
  <2>3. fleet'[n].decision = fleet[n].decision /\ fleet'[n].phase = to
    BY <2>1, <2>2 DEF Configs
  <2>4. \A m \in Fleet : m # n => fleet'[m] = fleet[m]
    BY <2>1, <2>2
  <2>5. OnConfig(fleet'[n]) <=> OnConfig(fleet[n])
    BY <2>1, <2>3 DEF OnConfig
  <2>6. \A m \in Fleet : OnConfig(fleet'[m]) <=> OnConfig(fleet[m])
    BY <2>4, <2>5
  <2>7. \A p \in Pools : Members[p] \subseteq Fleet
    BY PoolAssumption
  <2> QED BY <2>6, <2>7, OnWhen
<1>3. ASSUME NEW x \in Pods, PodCreated(x) \/ PodBound(x) \/ PodDone(x) \/ PodEvicted(x)
      PROVE  fleet' = fleet
  BY <1>3 DEF PodCreated, PodBound, PodDone, PodEvicted, Rebinds
<1>4. ASSUME NEW p \in Pools, Plan(p) \/ PatchPool(p) \/ ReconcileFails(p)
      PROVE  fleet' = fleet
  BY <1>4 DEF Plan, PatchPool, ReconcileFails
<1> QED BY <1>1, <1>2, <1>3, <1>4 DEF Next, Tick, vars

\* A decision changes the count of its own pool only: up by one at most when it
\* is On, down by one at most when it is Off.
LEMMA DecideCount ==
  ASSUME Apart, TypeOK, TypeOK', AllowedInv, NEW p \in Pools, Decide(p),
         NEW d, d = Head(rec[p].todo)
  PROVE  /\ \A q \in Pools : q # p => on_members(q)' = on_members(q)
         /\ d.target = "On"  => on_members(p)' = on_members(p) \cup {d.machine}
         /\ d.target = "Off" => on_members(p)' = on_members(p) \ {d.machine}
         /\ d.target \in {"On", "Off"}
<1>1. /\ d \in Decision /\ d = rec[p].todo[1] /\ 1 \in DOMAIN rec[p].todo
      /\ fleet' = [fleet EXCEPT ![d.machine].decision = [pool |-> p, target |-> d.target]]
  BY DecideStep
<1>2. d.machine \in Members[p] /\ d.machine \in Fleet /\ d.target \in {"On", "Off"}
  BY <1>1 DEF AllowedInv, Allowed, Decide, Decision
<1>3. fleet \in [Fleet -> Configs]
  BY DEF TypeOK, Configs, Stamped
<1>4. \A m \in Fleet : m # d.machine => fleet'[m] = fleet[m]
  BY <1>1, <1>3
<1>5. fleet'[d.machine].decision.target = d.target
  BY <1>1, <1>2, <1>3 DEF Configs
<1>6. OnConfig(fleet'[d.machine]) <=> d.target = "On"
  BY <1>2, <1>5 DEF OnConfig
<1>7. \A q \in Pools : Members[q] \subseteq Fleet /\ (q # p => d.machine \notin Members[q])
  BY <1>2, PoolAssumption DEF Apart
<1>8. \A q \in Pools : /\ on_members(q) = {n \in Members[q] : OnConfig(fleet[n])}
                       /\ on_members(q)' = {n \in Members[q] : OnConfig(fleet'[n])}
  BY OnWhen
<1>9. \A q \in Pools : q # p => \A n \in Members[q] : fleet'[n] = fleet[n]
  BY <1>4, <1>7
<1>10. \A q \in Pools : q # p => on_members(q)' = on_members(q)
  <2> SUFFICES ASSUME NEW q \in Pools, q # p PROVE on_members(q)' = on_members(q)
    OBVIOUS
  <2>1. {n \in Members[q] : OnConfig(fleet'[n])} = {n \in Members[q] : OnConfig(fleet[n])}
    BY <1>9
  <2> QED BY <1>8, <2>1
<1>11. \A n \in Members[p] : n # d.machine => fleet'[n] = fleet[n]
  BY <1>4, <1>7
<1>12. d.target = "On" => on_members(p)' = on_members(p) \cup {d.machine}
  BY <1>2, <1>6, <1>8, <1>11
<1>13. d.target = "Off" => on_members(p)' = on_members(p) \ {d.machine}
  BY <1>2, <1>6, <1>8, <1>11
<1> QED BY <1>2, <1>10, <1>12, <1>13

\* One decision, and what it leaves of the reconcile: the pool stays within its
\* limits, and what is still to be written keeps it there.
LEMMA DecideAllowed ==
  ASSUME Apart, TypeOK, TypeOK', AllowedInv, NEW p \in Pools, Decide(p)
  PROVE  /\ AllowedInv'
         /\ Cardinality(on_members(p)') <= Cardinality(on_members(p))
              \/ Cardinality(on_members(p)') <= PoolSpec[p].max_online
         /\ Cardinality(on_members(p)') < PoolSpec[p].min_online
              => Cardinality(on_members(p)') >= Cardinality(on_members(p))
         /\ \A q \in Pools : q # p => on_members(q)' = on_members(q)
<1> DEFINE todo == rec[p].todo
           d    == Head(todo)
           rest == Tail(todo)
           k    == Cardinality(on_members(p))
           k1   == Cardinality(on_members(p)')
<1>1. /\ todo \in Seq(Decision) /\ d = todo[1] /\ 1 \in DOMAIN todo
      /\ Len(todo) = Len(rest) + 1 /\ Len(rest) \in Nat /\ DOMAIN rest = 1..Len(rest)
      /\ \A i \in DOMAIN rest : i + 1 \in DOMAIN todo /\ rest[i] = todo[i + 1]
      /\ rec' = [rec EXCEPT ![p] = [pc |-> "decide", todo |-> rest, new |-> rec[p].new]]
  <2>1. /\ rec[p].todo \in Seq(Decision)
        /\ Head(rec[p].todo) = rec[p].todo[1] /\ 1 \in DOMAIN rec[p].todo
        /\ Len(rec[p].todo) = Len(Tail(rec[p].todo)) + 1
        /\ DOMAIN Tail(rec[p].todo) = 1..Len(Tail(rec[p].todo)) /\ Len(Tail(rec[p].todo)) \in Nat
    BY DecideStep
  <2>2. \A i \in DOMAIN rest : i + 1 \in DOMAIN todo /\ rest[i] = todo[i + 1]
    <3>1. todo \in Seq(Decision) /\ todo # <<>>
      BY <2>1 DEF Decide
    <3> HIDE DEF todo
    <3>2. /\ DOMAIN todo = 1..Len(todo) /\ DOMAIN rest = 1..Len(rest)
          /\ Len(todo) = Len(rest) + 1 /\ Len(rest) \in Nat
          /\ \A i \in 1..Len(rest) : rest[i] = todo[i + 1]
      BY <3>1, LenProperties, HeadTailProperties
    <3> HIDE DEF rest
    <3> QED BY <3>2
  <2>3. rec' = [rec EXCEPT ![p] =
                  [pc |-> "decide", todo |-> Tail(rec[p].todo), new |-> rec[p].new]]
    BY DecideStep
  <2> QED BY <2>1, <2>2, <2>3
<1>2. Allowed(p, todo) /\ todo # <<>>
  BY DEF AllowedInv, Decide
<1>3. /\ \A q \in Pools : q # p => on_members(q)' = on_members(q)
      /\ d.target = "On"  => on_members(p)' = on_members(p) \cup {d.machine}
      /\ d.target = "Off" => on_members(p)' = on_members(p) \ {d.machine}
      /\ d.target \in {"On", "Off"}
  BY DecideCount
<1>4. /\ k \in Nat
      /\ d.target = "On"  => k1 = k \/ k1 = k + 1
      /\ d.target = "Off" => k1 = k \/ k1 = k - 1
  BY <1>3, OnCounted
<1>5. PoolSpec[p].min_online \in Nat /\ PoolSpec[p].max_online \in Nat
  BY PoolAssumption
<1>6. /\ \A i \in DOMAIN rest : rest[i].machine \in Members[p]
      /\ \A i \in DOMAIN rest : rest[i].target = d.target
      /\ d.target = "On"  => k + Len(todo) <= PoolSpec[p].max_online
      /\ d.target = "Off" => k - Len(todo) >= PoolSpec[p].min_online
  BY <1>1, <1>2 DEF Allowed
<1>7. /\ \A q \in Pools : q # p => rec'[q] = rec[q]
      /\ rec'[p].todo = rest
  BY <1>1 DEF TypeOK
<1> HIDE DEF rest, d, k, k1
<1>8. /\ d.target = "On"  => k1 + Len(rest) <= PoolSpec[p].max_online
      /\ d.target = "Off" => k1 - Len(rest) >= PoolSpec[p].min_online
  BY <1>1, <1>4, <1>5, <1>6
<1>9. Allowed(p, rec[p].todo)'
  BY <1>3, <1>6, <1>7, <1>8 DEF Allowed, k1
<1>10. AllowedInv'
  BY <1>3, <1>7, <1>9 DEF AllowedInv, Allowed
<1>11. k1 <= k \/ k1 <= PoolSpec[p].max_online
  BY <1>1, <1>3, <1>4, <1>5, <1>8
<1>12. k1 < PoolSpec[p].min_online => k1 >= k
  BY <1>1, <1>3, <1>4, <1>5, <1>8
<1> QED BY <1>3, <1>10, <1>11, <1>12 DEF k, k1

\* Every other step keeps what is still to be written allowed.
LEMMA AllowedKept ==
  ASSUME TypeOK, TypeOK', AllowedInv, [Next]_vars, \A p \in Pools : ~Decide(p)
  PROVE  AllowedInv'
<1>1. \A p \in Pools : on_members(p)' = on_members(p)
  BY CountKept
<1>2. \A p \in Pools : \A todo : Allowed(p, todo) => Allowed(p, todo)'
  BY <1>1 DEF Allowed
<1>3. ASSUME NEW p \in Pools, Plan(p) PROVE AllowedInv'
  <2>1. PICK todo \in Seq(Decision), new \in PoolStatus :
          /\ rec' = [rec EXCEPT ![p] = [pc |-> "decide", todo |-> todo, new |-> new]]
          /\ Allowed(p, todo)
    BY <1>3, PlanStep
  <2>2. rec'[p].todo = todo /\ \A q \in Pools : q # p => rec'[q] = rec[q]
    BY <2>1 DEF TypeOK
  <2> QED BY <1>1, <2>1, <2>2 DEF AllowedInv, Allowed
<1>4. ASSUME NEW p \in Pools, PatchPool(p) \/ ReconcileFails(p) PROVE AllowedInv'
  <2>1. rec' = [rec EXCEPT ![p] = Idle]
    BY <1>4 DEF PatchPool, ReconcileFails
  <2>2. rec'[p] = Idle /\ \A q \in Pools : q # p => rec'[q] = rec[q]
    BY <2>1 DEF TypeOK
  <2> QED BY <1>1, <2>2 DEF AllowedInv, Allowed, Idle
<1>5. ASSUME rec' = rec PROVE AllowedInv'
  BY <1>1, <1>5 DEF AllowedInv, Allowed
<1>6. ASSUME NEW n \in Fleet, PowersOn(n) \/ BecomesOn(n) \/ Drains(n) \/ PowersOff(n)
      PROVE  rec' = rec
  BY <1>6 DEF PowersOn, BecomesOn, Drains, PowersOff, Moves
<1>7. ASSUME NEW x \in Pods, PodCreated(x) \/ PodBound(x) \/ PodDone(x) \/ PodEvicted(x)
      PROVE  rec' = rec
  BY <1>7 DEF PodCreated, PodBound, PodDone, PodEvicted, Rebinds
<1> QED BY <1>3, <1>4, <1>5, <1>6, <1>7 DEF Next, Tick, vars

\* What is still to be written is allowed at the start and after every step.
LEMMA AlwaysAllowed ==
  ASSUME Apart
  PROVE  Spec => []AllowedInv
<1>1. Init => AllowedInv
  BY DEF Init, AllowedInv, Idle
<1>2. TypeOK /\ TypeOK' /\ AllowedInv /\ [Next]_vars => AllowedInv'
  BY DecideAllowed, AllowedKept
<1> QED BY <1>1, <1>2, TypeCorrect, PTL DEF Spec

\* A pool that shares no machine with another never has more than maxOnline
\* machines on or on their way, when no more were on at the start: whatever the
\* demand, and whichever reconciles fail with part of their decisions written
\* (power_on in src/scaling.rs, decide in src/controller/node_scaling_pool.rs).
THEOREM WithinMax ==
  ASSUME Apart, StartsWithin
  PROVE  Spec => []MaxOnlineKept
<1>1. Init => MaxOnlineKept
  <2> SUFFICES ASSUME Init, NEW p \in Pools
               PROVE  Cardinality(on_members(p)) <= PoolSpec[p].max_online
    BY DEF MaxOnlineKept
  <2>1. Members[p] \subseteq Fleet
    BY PoolAssumption
  <2>2. \A n \in Fleet : fleet[n].decision.target = ""
                         /\ fleet[n].phase = (IF n \in InitiallyOn THEN "On" ELSE "Off")
    BY DEF Init, Undecided
  <2>3. on_members(p) = Members[p] \cap InitiallyOn
    BY <2>1, <2>2 DEF on_members, member_state
  <2> QED BY <2>3 DEF StartsWithin
<1>2. ASSUME TypeOK, TypeOK', AllowedInv, MaxOnlineKept, [Next]_vars PROVE MaxOnlineKept'
  <2> USE <1>2
  <2>1. \A p \in Pools : Cardinality(on_members(p)) <= PoolSpec[p].max_online
    BY DEF MaxOnlineKept
  <2>2. ASSUME NEW p \in Pools, Decide(p) PROVE MaxOnlineKept'
    <3>1. /\ Cardinality(on_members(p)') <= Cardinality(on_members(p))
               \/ Cardinality(on_members(p)') <= PoolSpec[p].max_online
          /\ \A q \in Pools : q # p => on_members(q)' = on_members(q)
      BY <2>2, DecideAllowed
    <3>2. Cardinality(on_members(p)) \in Nat /\ PoolSpec[p].max_online \in Nat
      BY OnCounted, PoolAssumption
    <3>3. TypeOK' => Cardinality(on_members(p)') \in Int
      <4>1. on_members(p)' \in SUBSET Members[p]
        BY DEF on_members
      <4>2. IsFiniteSet(Members[p])
        BY SnapshotSound DEF Sound
      <4> QED BY <4>1, <4>2, FS_Subset, FS_CardinalityType
    <3> QED BY <2>1, <3>1, <3>2, <3>3 DEF MaxOnlineKept
  <2>3. CASE \A p \in Pools : ~Decide(p)
    <3>1. \A p \in Pools : on_members(p)' = on_members(p)
      BY <2>3, CountKept
    <3> QED BY <2>1, <3>1 DEF MaxOnlineKept
  <2> QED BY <2>2, <2>3
<1> QED BY <1>1, <1>2, AlwaysAllowed, TypeCorrect, PTL DEF Spec

\* No step takes a pool that shares no machine with another below its minOnline
\* or further below it: however many machines are still leaving, and whichever
\* reconciles fail (try_remove and the budget of power_off in src/scaling.rs).
THEOREM WithinMin ==
  ASSUME Apart
  PROVE  Spec => MinOnlineKept
<1>1. ASSUME TypeOK, TypeOK', AllowedInv, [Next]_vars
      PROVE  [\A p \in Pools :
                Cardinality(on_members(p)') < PoolSpec[p].min_online
                  => Cardinality(on_members(p)') >= Cardinality(on_members(p))]_vars
  <2> SUFFICES ASSUME NEW p \in Pools,
                      Cardinality(on_members(p)') < PoolSpec[p].min_online
               PROVE  Cardinality(on_members(p)') >= Cardinality(on_members(p))
    OBVIOUS
  <2>1. Cardinality(on_members(p)) \in Nat
    BY <1>1, OnCounted
  <2>2. CASE \A q \in Pools : ~Decide(q)
    <3>1. on_members(p)' = on_members(p)
      BY <1>1, <2>2, CountKept
    <3> QED BY <2>1, <3>1
  <2>3. ASSUME NEW q \in Pools, Decide(q) PROVE Cardinality(on_members(p)') >= Cardinality(on_members(p))
    <3>1. q # p => on_members(p)' = on_members(p)
      BY <1>1, <2>3, DecideAllowed
    <3>2. q = p => Cardinality(on_members(p)') >= Cardinality(on_members(p))
      BY <1>1, <2>3, DecideAllowed
    <3> QED BY <2>1, <3>1, <3>2
  <2> QED BY <2>2, <2>3
<1> QED BY <1>1, AlwaysAllowed, TypeCorrect, PTL DEF Spec, MinOnlineKept

-----------------------------------------------------------------------------
(* The hold after a power-on.                                              *)

\* The last power-on a pool has recorded, or is about to.
Recorded(p) == IF rec[p].pc = "decide" THEN rec[p].new.last_scale_up ELSE pool[p].last_scale_up

\* Every power-on that was written is recorded, or about to be; and while Off
\* decisions are to be written the hold is over.
HoldInv ==
  \A p \in Pools :
    /\ woke[p] # NoTime => Recorded(p) # NoTime /\ woke[p] <= Recorded(p) /\ woke[p] <= now
    /\ rec[p].pc = "decide" /\ rec[p].todo # <<>> =>
         \/ /\ \A i \in DOMAIN rec[p].todo : rec[p].todo[i].target = "On"
            /\ rec[p].new.last_scale_up = now
         \/ /\ \A i \in DOMAIN rec[p].todo : rec[p].todo[i].target = "Off"
            /\ woke[p] = NoTime \/ now >= woke[p] + PoolSpec[p].hold

NoFailure == failures = 0

\* Every step keeps it, but for a reconcile that fails.
LEMMA HoldStep ==
  ASSUME TypeOK, MaxOnlineKept, HoldInv, [Next]_vars, \A p \in Pools : ~ReconcileFails(p)
  PROVE  HoldInv'
<1> USE DEF HoldInv
<1>0. /\ \A p \in Pools : /\ woke[p] \in Times /\ pool[p].last_scale_up \in Times
                          /\ PoolSpec[p].hold \in Nat
      /\ now \in Nat /\ NoTime \notin Nat
  BY PoolAssumption, SizeAssumption DEF TypeOK, PoolStatus
<1>1. ASSUME NEW p \in Pools, Plan(p) PROVE HoldInv'
  <2>1. PICK todo \in Seq(Decision), new \in PoolStatus :
          /\ rec' = [rec EXCEPT ![p] = [pc |-> "decide", todo |-> todo, new |-> new]]
          /\ Allowed(p, todo) /\ Agreed(p, new)
          /\ \A i \in DOMAIN todo : todo[i].target = "Off" =>
               ~other_pools_holding(p, todo[i].machine)
          /\ new.last_scale_up \in {pool[p].last_scale_up, now}
          /\ \A i \in DOMAIN todo : \/ todo[i].target = "On" /\ new.last_scale_up = now
                                    \/ todo[i].target = "Off" /\ HoldOver(p)
    BY <1>1, PlanStep
  <2>2. /\ rec'[p].pc = "decide" /\ rec'[p].todo = todo /\ rec'[p].new = new
        /\ \A q \in Pools : q # p => rec'[q] = rec[q]
    BY <2>1 DEF TypeOK
  <2>3. woke' = woke /\ now' = now /\ pool' = pool /\ rec[p].pc = "idle"
    BY <1>1 DEF Plan, Idle
  <2>4. woke[p] # NoTime => /\ pool[p].last_scale_up # NoTime
                            /\ woke[p] <= pool[p].last_scale_up /\ woke[p] <= now
    BY <2>3 DEF Recorded
  <2>5. HoldOver(p) => woke[p] = NoTime \/ now >= woke[p] + PoolSpec[p].hold
    <3>1. ~(Cardinality(on_members(p)) > PoolSpec[p].max_online)
      <4>1. Cardinality(on_members(p)) <= PoolSpec[p].max_online
        BY DEF MaxOnlineKept
      <4>2. Cardinality(on_members(p)) \in Nat /\ PoolSpec[p].max_online \in Nat
        BY OnCounted, PoolAssumption
      <4> QED BY <4>1, <4>2
    <3> QED BY <1>0, <2>4, <3>1 DEF HoldOver, Times
  <2>6. woke[p] # NoTime => new.last_scale_up # NoTime /\ woke[p] <= new.last_scale_up
    BY <1>0, <2>1, <2>4
  <2>7. \A q \in Pools : q # p => Recorded(q)' = Recorded(q)
    BY <2>2, <2>3 DEF Recorded
  <2>8. Recorded(p)' = new.last_scale_up
    BY <2>2 DEF Recorded
  <2>9. todo # <<>> =>
          \/ (\A i \in DOMAIN todo : todo[i].target = "On") /\ new.last_scale_up = now
          \/ /\ \A i \in DOMAIN todo : todo[i].target = "Off"
             /\ woke[p] = NoTime \/ now >= woke[p] + PoolSpec[p].hold
    <3> SUFFICES ASSUME todo # <<>>
                 PROVE  \/ (\A i \in DOMAIN todo : todo[i].target = "On") /\ new.last_scale_up = now
                        \/ /\ \A i \in DOMAIN todo : todo[i].target = "Off"
                           /\ woke[p] = NoTime \/ now >= woke[p] + PoolSpec[p].hold
      OBVIOUS
    <3>1. 1 \in DOMAIN todo
      BY LastPicked, EmptySeq
    <3>2. \/ \A i \in DOMAIN todo : todo[i].target = "On"
          \/ \A i \in DOMAIN todo : todo[i].target = "Off"
      BY <2>1 DEF Allowed
    <3> QED BY <2>1, <2>5, <3>1, <3>2
  <2>10. woke[p] # NoTime => Recorded(p)' # NoTime /\ woke[p] <= Recorded(p)' /\ woke[p] <= now
    BY <2>4, <2>6, <2>8
  <2> QED BY <2>2, <2>3, <2>7, <2>9, <2>10
<1>2. ASSUME NEW p \in Pools, Decide(p) PROVE HoldInv'
  <2> DEFINE todo == rec[p].todo
             rest == Tail(todo)
             d == Head(todo)
  <2>1. todo \in Seq(Decision) /\ todo # <<>> /\ rec[p].pc = "decide" /\ 1 \in DOMAIN todo
        /\ d = todo[1]
    BY <1>2, DecideStep DEF Decide
  <2>2. rec' = [rec EXCEPT ![p] = [pc |-> "decide", todo |-> rest, new |-> rec[p].new]]
    BY <1>2, DecideStep
  <2>3. /\ rec'[p].pc = "decide" /\ rec'[p].todo = rest /\ rec'[p].new = rec[p].new
        /\ \A q \in Pools : q # p => rec'[q] = rec[q]
    BY <2>2 DEF TypeOK
  <2>4. /\ pool' = pool /\ now' = now
        /\ woke' = IF d.target = "On" THEN [woke EXCEPT ![p] = now] ELSE woke
    BY <1>2 DEF Decide
  <2>5. \A q \in Pools : Recorded(q)' = Recorded(q) /\ (q # p => woke'[q] = woke[q])
    BY <2>1, <2>3, <2>4 DEF Recorded, TypeOK
  <2>6. woke'[p] = IF d.target = "On" THEN now ELSE woke[p]
    BY <2>4 DEF TypeOK
  <2>7. \A i \in DOMAIN rest : i + 1 \in DOMAIN todo /\ rest[i] = todo[i + 1]
    <3> HIDE DEF todo
    <3>2. /\ DOMAIN todo = 1..Len(todo) /\ DOMAIN rest = 1..Len(rest)
          /\ Len(todo) = Len(rest) + 1 /\ Len(rest) \in Nat
          /\ \A i \in 1..Len(rest) : rest[i] = todo[i + 1]
      BY <2>1, LenProperties, HeadTailProperties
    <3> HIDE DEF rest
    <3> QED BY <3>2
  <2>8. \/ /\ \A i \in DOMAIN todo : todo[i].target = "On"
           /\ rec[p].new.last_scale_up = now
        \/ /\ \A i \in DOMAIN todo : todo[i].target = "Off"
           /\ woke[p] = NoTime \/ now >= woke[p] + PoolSpec[p].hold
    BY <2>1
  <2>9. CASE /\ \A i \in DOMAIN todo : todo[i].target = "On"
             /\ rec[p].new.last_scale_up = now
    <3>1. woke'[p] = now /\ Recorded(p) = now
      BY <2>1, <2>6, <2>9 DEF Recorded
    <3>2. \A i \in DOMAIN rest : rest[i].target = "On"
      BY <2>7, <2>9
    <3> HIDE DEF todo, rest
    <3> QED BY <1>0, <2>3, <2>4, <2>5, <2>9, <3>1, <3>2
  <2>10. CASE /\ \A i \in DOMAIN todo : todo[i].target = "Off"
              /\ woke[p] = NoTime \/ now >= woke[p] + PoolSpec[p].hold
    <3>1. woke'[p] = woke[p]
      BY <2>1, <2>6, <2>10
    <3>2. \A i \in DOMAIN rest : rest[i].target = "Off"
      BY <2>7, <2>10
    <3> HIDE DEF todo, rest
    <3> QED BY <2>3, <2>4, <2>5, <2>10, <3>1, <3>2
  <2> QED BY <2>8, <2>9, <2>10
<1>3. ASSUME NEW p \in Pools, PatchPool(p) PROVE HoldInv'
  <2>1. /\ rec[p].pc = "decide" /\ now' = now /\ woke' = woke /\ rec' = [rec EXCEPT ![p] = Idle]
        /\ pool'[p].last_scale_up = rec[p].new.last_scale_up
        /\ \A q \in Pools : q # p => pool'[q] = pool[q]
    BY <1>3, Patched
  <2>2. rec'[p] = Idle /\ \A q \in Pools : q # p => rec'[q] = rec[q]
    BY <2>1 DEF TypeOK
  <2>3. \A q \in Pools : Recorded(q)' = Recorded(q)
    BY <2>1, <2>2 DEF Recorded, Idle
  <2> QED BY <2>1, <2>2, <2>3 DEF Idle
<1>4. CASE Tick
  <2>1. /\ now' = now + 1 /\ UNCHANGED <<pool, rec, woke>> /\ \A p \in Pools : rec[p] = Idle
    BY <1>4 DEF Tick
  <2>2. \A q \in Pools : Recorded(q)' = Recorded(q)
    BY <2>1 DEF Recorded
  <2>3. \A q \in Pools : woke[q] # NoTime => woke[q] <= now'
    BY <1>0, <2>1 DEF Times
  <2> QED BY <2>1, <2>2, <2>3 DEF Idle
<1>5. ASSUME UNCHANGED <<pool, rec, woke, now>> PROVE HoldInv'
  BY <1>5 DEF Recorded
<1>6. ASSUME NEW n \in Fleet, PowersOn(n) \/ BecomesOn(n) \/ Drains(n) \/ PowersOff(n)
      PROVE  UNCHANGED <<pool, rec, woke, now>>
  BY <1>6 DEF PowersOn, BecomesOn, Drains, PowersOff, Moves
<1>7. ASSUME NEW x \in Pods, PodCreated(x) \/ PodBound(x) \/ PodDone(x) \/ PodEvicted(x)
      PROVE  UNCHANGED <<pool, rec, woke, now>>
  BY <1>7 DEF PodCreated, PodBound, PodDone, PodEvicted, Rebinds
<1> QED BY <1>1, <1>2, <1>3, <1>4, <1>5, <1>6, <1>7 DEF Next, vars

\* A pool that shares no machine with another honours holdAfterPowerOnSeconds as
\* long as no reconcile fails: none of its members is decided off before the
\* hold is over (holding in src/scaling.rs).  A reconcile that fails between a
\* power-on decision and the status patch is the one way to lose the hold.
THEOREM HoldUnlessFailure ==
  ASSUME Apart, StartsWithin, MaxFailures = 0
  PROVE  Spec => HoldKept
<1>1. Init => HoldInv
  BY DEF Init, HoldInv, Idle
<1>2. Init => NoFailure
  BY DEF Init, NoFailure
<1>3. ASSUME NoFailure, [Next]_vars
      PROVE  NoFailure' /\ \A p \in Pools : ~ReconcileFails(p)
  <2> SUFFICES failures' = 0 /\ \A p \in Pools : ~ReconcileFails(p)
    BY DEF NoFailure
  <2>1. \A p \in Pools : ~ReconcileFails(p)
    BY <1>3 DEF ReconcileFails, NoFailure
  <2> QED BY <1>3, <2>1 DEF NoFailure, Next, Plan, Decide, PatchPool, PowersOn, BecomesOn, Drains, PowersOff, Moves,
                      PodCreated, PodBound, PodDone, PodEvicted, Rebinds, Tick, vars
<1>4. TypeOK /\ MaxOnlineKept /\ HoldInv /\ NoFailure /\ [Next]_vars => HoldInv'
  BY <1>3, HoldStep
<1>5. ASSUME TypeOK, TypeOK', AllowedInv, HoldInv, [Next]_vars
      PROVE  [\A p \in Pools : \A n \in Members[p] :
                (fleet'[n].decision.target = "Off" /\ fleet'[n].decision # fleet[n].decision)
                  => woke[p] = NoTime \/ now >= woke[p] + PoolSpec[p].hold]_vars
  <2> SUFFICES ASSUME NEW p \in Pools, NEW n \in Members[p], fleet'[n].decision.target = "Off",
                      fleet'[n].decision # fleet[n].decision
               PROVE  woke[p] = NoTime \/ now >= woke[p] + PoolSpec[p].hold
    OBVIOUS
  <2>1. n \in Fleet /\ fleet \in [Fleet -> Configs]
    BY <1>5, PoolAssumption DEF TypeOK, Configs, Stamped
  <2>2. PICK q \in Pools : Decide(q)
    <3> SUFFICES ASSUME \A q \in Pools : ~Decide(q) PROVE FALSE
      OBVIOUS
    <3>1. fleet' = fleet \/ \E m \in Fleet : \E to : fleet' = [fleet EXCEPT ![m].phase = to]
      BY <1>5 DEF Next, Plan, PatchPool, ReconcileFails, PowersOn, BecomesOn, Drains, PowersOff, Moves,
                  PodCreated, PodBound, PodDone, PodEvicted, Rebinds, Tick, vars
    <3>2. fleet'[n].decision = fleet[n].decision
      BY <2>1, <3>1 DEF Configs
    <3> QED BY <3>2
  <2> DEFINE d == Head(rec[q].todo)
  <2>3. /\ d = rec[q].todo[1] /\ 1 \in DOMAIN rec[q].todo
        /\ fleet' = [fleet EXCEPT ![d.machine].decision = [pool |-> q, target |-> d.target]]
    BY <1>5, <2>2, DecideStep
  <2>4. rec[q].pc = "decide" /\ rec[q].todo # <<>>
    BY <2>2 DEF Decide
  <2>5. d.machine \in Members[q]
    BY <1>5, <2>3, <2>4 DEF AllowedInv, Allowed
  <2> HIDE DEF d
  <2>6. n = d.machine
    BY <2>1, <2>3
  <2>7. q = p
    BY <2>5, <2>6 DEF Apart
  <2>8. d.target = "Off"
    BY <2>1, <2>3, <2>6 DEF Configs
  <2> QED BY <1>5, <2>3, <2>4, <2>7, <2>8 DEF HoldInv
<1> QED BY <1>1, <1>2, <1>3, <1>4, <1>5, AlwaysAllowed, WithinMax, TypeCorrect, PTL DEF Spec, HoldKept

-----------------------------------------------------------------------------
(* Room for the pods.                                                      *)

\* Where the pods of a machine may go.
Stay(s, n) == (in_state(s, {"Online", "Manual"}) \ {n}) \cup DOMAIN s.external

\* The pods P are on machines other than n, and left of the room at the start
\* is what they do not take.
Placed(s, n, P, start, left) ==
  \E to \in [P -> Stay(s, n)] :
    /\ \A x \in P : to[x] \in Admits[x]
    /\ \A o \in DOMAIN s.members \cup DOMAIN s.external :
         /\ left[o] = start[o] - Load({x \in P : to[x] = o})
         /\ (\E x \in P : to[x] = o) => left[o] >= 0

\* The pods the snapshot shows of n are P.
Shows(s, n, P) ==
  LET ps == decreasing(s.members[n].pods)
  IN \E pi \in Bijection(DOMAIN ps, P) : \A i \in DOMAIN ps : ps[i] = PodView(pi[i])

\* One more pod is placed where it is admitted and fits.
LEMMA MovePlaces ==
  ASSUME NEW s, Sound(s, Views), NEW n, NEW P \in SUBSET Pods, NEW x \in Pods \ P,
         NEW start \in Rooms(s), NEW fit \in Fits(s), NEW tos \in Seq(Stay(s, n)),
         fit.ok => Placed(s, n, P, start, fit.free),
         move(tos, fit, PodView(x)).ok
  PROVE  Placed(s, n, P \cup {x}, start, move(tos, fit, PodView(x)).free)
<1> DEFINE N == DOMAIN s.members \cup DOMAIN s.external
           v == PodView(x)
           here == {o \in Range(tos) : pod_fits(v, o, fit.free[o])}
           slots == among(tos, here)
           o1 == Head(slots)
           free == [fit.free EXCEPT ![o1] = @ - Request[x]]
           P1 == P \cup {x}
<1>1. v.size = Request[x] /\ v.on = Admits[x]
  BY DEF PodView
<1>2. fit.free \in [N -> Int] /\ fit.ok \in BOOLEAN
      /\ fit = [ok |-> fit.ok, free |-> fit.free] /\ start \in [N -> Int]
  BY DEF Fits, Rooms
<1>3. move(tos, fit, v) = IF ~fit.ok \/ slots = <<>> THEN [fit EXCEPT !.ok = FALSE]
                          ELSE [fit EXCEPT !.free[o1] = @ - v.size]
  BY DEF move
<1>4. slots \in Seq(here)
  BY Among
<1> HIDE DEF v, slots
<1>5. fit.ok /\ slots # <<>>
  <2> SUFFICES ASSUME ~fit.ok \/ slots = <<>> PROVE FALSE
    OBVIOUS
  <2>1. move(tos, fit, v) = [ok |-> FALSE, free |-> fit.free]
    BY <1>2, <1>3
  <2> QED BY <2>1 DEF v
<1>6. o1 \in here
  BY <1>4, <1>5, HeadTailProperties
<1>7. o1 \in Stay(s, n) /\ Stay(s, n) \subseteq N
  <2>1. Range(tos) \subseteq Stay(s, n)
    BY LastPicked DEF Range
  <2>2. Stay(s, n) \subseteq N
    BY DEF Stay, in_state
  <2> QED BY <1>6, <2>1, <2>2
<1>8. o1 \in Admits[x] /\ Request[x] <= fit.free[o1]
  BY <1>1, <1>6 DEF pod_fits
<1> HIDE DEF o1, here
<1>9. move(tos, fit, v).free = free
  BY <1>1, <1>2, <1>3, <1>5
<1>10. PICK to \in [P -> Stay(s, n)] :
         /\ \A y \in P : to[y] \in Admits[y]
         /\ \A o \in N : /\ fit.free[o] = start[o] - Load({y \in P : to[y] = o})
                         /\ (\E y \in P : to[y] = o) => fit.free[o] >= 0
  BY <1>5 DEF Placed
<1> DEFINE to1 == [y \in P1 |-> IF y = x THEN o1 ELSE to[y]]
<1>11. to1 \in [P1 -> Stay(s, n)] /\ \A y \in P1 : to1[y] \in Admits[y]
  BY <1>7, <1>8, <1>10
<1>12. ASSUME NEW o \in N
       PROVE  /\ free[o] = start[o] - Load({y \in P1 : to1[y] = o})
              /\ (\E y \in P1 : to1[y] = o) => free[o] >= 0
  <2> DEFINE T == {y \in P : to[y] = o}
  <2>1. T \in SUBSET Pods /\ x \in Pods \ T
    OBVIOUS
  <2>2. Load(T) \in Nat /\ Load(T \cup {x}) = Load(T) + Request[x] /\ Request[x] \in Nat
    <3> HIDE DEF T
    <3>1. Load(T) \in Nat /\ Load(T \cup {x}) = Load(T) + Request[x]
      BY <2>1, LoadAdds
    <3>2. Request[x] \in Nat
      BY FleetAssumption, SizeAssumption
    <3> QED BY <3>1, <3>2
  <2>3. CASE o = o1
    <3>1. {y \in P1 : to1[y] = o} = T \cup {x}
      BY <2>3
    <3>2. free[o] = fit.free[o] - Request[x]
      BY <1>2, <2>3
    <3>3. fit.free[o] = start[o] - Load(T) /\ fit.free[o] \in Int /\ start[o] \in Int
      BY <1>2, <1>10
    <3> HIDE DEF T, P1, to1, free
    <3>4. Load({y \in P1 : to1[y] = o}) = Load(T) + Request[x]
      BY <2>2, <3>1
    <3>5. free[o] = start[o] - Load({y \in P1 : to1[y] = o})
      BY <2>2, <3>2, <3>3, <3>4
    <3> QED BY <1>8, <2>2, <2>3, <3>2, <3>3, <3>5
  <2>4. CASE o # o1
    <3>1. {y \in P1 : to1[y] = o} = T
      BY <2>4
    <3>2. free[o] = fit.free[o]
      BY <1>2, <2>4
    <3>3. (\E y \in P1 : to1[y] = o) => \E y \in P : to[y] = o
      BY <2>4
    <3> QED BY <1>10, <3>1, <3>2, <3>3
  <2> QED BY <2>3, <2>4
<1> HIDE DEF to1, free, P1
<1>13. Placed(s, n, P1, start, free)
  BY <1>11, <1>12 DEF Placed
<1> QED BY <1>9, <1>13 DEF P1, v

\* A machine that goes has its pods placed, within the budget.
LEMMA RemovePlaces ==
  ASSUME NEW s, Sound(s, Views), NEW n \in DOMAIN s.members, NEW P \in SUBSET Pods,
         Shows(s, n, P), NEW down, down.free \in Rooms(s)
  PROVE  \/ try_remove(s, down, n) = down
         \/ \E left \in Rooms(s) :
              /\ try_remove(s, down, n) = [removed |-> Append(down.removed, n), free |-> left]
              /\ Placed(s, n, P, down.free, left)
              /\ ~(Len(down.removed) >= budget(s))
<1> DEFINE ps == decreasing(s.members[n].pods)
           D == DOMAIN ps
           tos == targets(s, n, down.removed)
<1>1. PICK h : /\ Trials(h, s, down, n)
               /\ try_remove(s, down, n) =
                    LET fit == h[D]
                    IN IF \/ n \in s.kept_by_others
                          \/ Len(down.removed) >= budget(s)
                          \/ online_now(s) - Len(down.removed) <= s.spec.min_online
                          \/ ~fit.ok
                       THEN down
                       ELSE [removed |-> Append(down.removed, n), free |-> fit.free]
  BY TrialUnfolds
<1> DEFINE c == [t \in SUBSET D |-> Max(t)]
<1>2. ps \in Seq(Views)
  BY Decreasing DEF Sound
<1>3. PICK pi \in [D -> P] : /\ \A i, j \in D : pi[i] = pi[j] => i = j
                             /\ \A x \in P : \E i \in D : pi[i] = x
                             /\ \A i \in D : ps[i] = PodView(pi[i])
  BY Matching DEF Shows
<1>4. /\ h[{}] = [ok |-> TRUE, free |-> down.free]
      /\ \A t \in SUBSET D : /\ h[t] \in Fits(s)
                             /\ t # {} => h[t] = move(tos, h[t \ {Max(t)}], ps[Max(t)])
  BY <1>1 DEF Trials
<1>5. tos \in Seq(Stay(s, n))
  <2> DEFINE stay == in_state(s, {"Online", "Manual"}) \ ({n} \cup Range(down.removed))
  <2>1. among(s.listing, stay) \in Seq(stay) /\ stay \subseteq Stay(s, n)
    BY Among DEF Sound, Stay
  <2>2. SetToSeq(DOMAIN s.external) \in Seq(DOMAIN s.external)
        /\ DOMAIN s.external \subseteq Stay(s, n)
    BY Listed DEF Sound, Stay
  <2> HIDE DEF stay
  <2>3. among(s.listing, stay) \in Seq(Stay(s, n)) /\ SetToSeq(DOMAIN s.external) \in Seq(Stay(s, n))
    BY <2>1, <2>2, SeqMonotonic
  <2>4. tos = among(s.listing, stay) \o SetToSeq(DOMAIN s.external)
    BY DEF targets, stay
  <2> HIDE DEF tos
  <2> QED BY <2>3, <2>4, ConcatProperties
<1> HIDE DEF ps, tos
<1>6. IsFiniteSet(D) /\ Picks(c, D)
  BY <1>2, LastPicked
<1> DEFINE Q(t) == {pi[i] : i \in t}
           X == {t \in SUBSET D : h[t].ok => Placed(s, n, Q(t), down.free, h[t].free)}
<1> HIDE DEF D
<1>7. {} \in X
  <2>1. h[{}].free = down.free /\ Q({}) = {}
    BY <1>4
  <2> DEFINE to == [x \in {} |-> x]
  <2>2. \A o : {x \in {} : to[x] = o} = {}
    OBVIOUS
  <2>3. \A o \in DOMAIN s.members \cup DOMAIN s.external : down.free[o] = down.free[o] - 0
    BY DEF Rooms
  <2>4. to \in [{} -> Stay(s, n)]
    OBVIOUS
  <2> HIDE DEF to
  <2>5. Placed(s, n, {}, down.free, down.free)
    BY <2>2, <2>3, <2>4, LoadAdds DEF Placed
  <2> QED BY <2>1, <2>5
<1>8. ASSUME NEW t \in SUBSET D, t # {}, t \ {c[t]} \in X PROVE t \in X
  <2> DEFINE i == c[t]
             u == t \ {i}
  <2>1. i = Max(t) /\ i \in t /\ i \in D
    BY <1>6, <1>8 DEF Picks
  <2>2. h[t] = move(tos, h[u], ps[i]) /\ h[u] \in Fits(s) /\ ps[i] = PodView(pi[i])
    BY <1>3, <1>4, <1>8, <2>1
  <2>3. h[u].ok => Placed(s, n, Q(u), down.free, h[u].free)
    BY <1>8
  <2> HIDE DEF i
  <2>4. Q(t) = Q(u) \cup {pi[i]} /\ Q(u) \in SUBSET Pods /\ pi[i] \in Pods \ Q(u)
    <3>1. Q(t) = Q(u) \cup {pi[i]} /\ Q(u) \in SUBSET P /\ pi[i] \in P
      BY <1>3, <2>1
    <3>2. pi[i] \notin Q(u)
      BY <1>3, <2>1
    <3> HIDE DEF Q
    <3> QED BY <3>1, <3>2
  <2> HIDE DEF Q, u
  <2>5. move(tos, h[u], PodView(pi[i])).ok =>
          Placed(s, n, Q(u) \cup {pi[i]}, down.free, move(tos, h[u], PodView(pi[i])).free)
    BY <1>5, <2>2, <2>3, <2>4, MovePlaces
  <2> QED BY <2>2, <2>4, <2>5
<1> HIDE DEF X, c
<1>9. SUBSET D \subseteq X
  BY <1>6, <1>7, <1>8, PickInduction
<1>10. h[D].ok => Placed(s, n, P, down.free, h[D].free)
  <2>1. Q(D) = P
    BY <1>3
  <2>2. D \in X
    BY <1>9
  <2> HIDE DEF Q
  <2> QED BY <2>1, <2>2 DEF X
<1>11. h[D].free \in Rooms(s)
  BY <1>4 DEF Fits
<1> QED BY <1>1, <1>10, <1>11

\* How many more machines may leave is a number.
LEMMA BudgetType ==
  ASSUME NEW s, NEW V, Sound(s, V)
  PROVE  /\ over_max(s) \in Nat /\ budget(s) \in Nat
         /\ over_max(s) = 0 => budget(s) <= s.spec.down_step
<1>1. online_now(s) \in Nat /\ leaving(s) \in Nat
  BY Counted DEF online_now, leaving
<1>2. s.spec.max_online \in Nat /\ s.spec.down_step \in Nat
  BY DEF Sound
<1>3. over_max(s) \in Nat
  BY <1>1, <1>2 DEF over_max
<1> QED BY <1>1, <1>2, <1>3 DEF budget

\* The pods P fit, beside those there, on the members that stay and outside.
Relocated(s, n, P) ==
  \E to \in [P -> Stay(s, n)] :
    /\ \A x \in P : to[x] \in Admits[x]
    /\ \A o \in DOMAIN s.members \cup DOMAIN s.external :
         (\E x \in P : to[x] = o) => Load({x \in P : to[x] = o}) <= Start(s)[o]

\* The pods of every machine chosen fit on machines other than itself, and no
\* more are chosen than may leave.
LEMMA PowerOffPlaces ==
  ASSUME NEW s, Sound(s, Views), NEW on, NEW idle, idle \subseteq DOMAIN s.members,
         NEW held \in [DOMAIN s.members -> SUBSET Pods],
         \A n \in DOMAIN s.members : Shows(s, n, held[n])
  PROVE  /\ \A n \in Range(power_off(s, on, idle)) : Relocated(s, n, held[n])
         /\ Len(power_off(s, on, idle)) <= budget(s)
<1> DEFINE M == DOMAIN s.members
           N == M \cup DOMAIN s.external
<1>0. PICK order \in Seq(M) : \E h :
        /\ Considers(h, s, order)
        /\ power_off(s, on, idle) =
             IF blocked(s, on) \/ (leaving(s) >= s.spec.down_step /\ over_max(s) = 0) THEN <<>>
             ELSE h[DOMAIN order].removed
  BY RemovalsUnfold
<1>1. PICK h :
        /\ Considers(h, s, order)
        /\ power_off(s, on, idle) =
             IF blocked(s, on) \/ (leaving(s) >= s.spec.down_step /\ over_max(s) = 0) THEN <<>>
             ELSE h[DOMAIN order].removed
  BY <1>0
<1> DEFINE D == DOMAIN order
           c == [t \in SUBSET D |-> Max(t)]
           X == {t \in SUBSET D :
                   /\ \A o \in N : h[t].free[o] <= Start(s)[o]
                   /\ Len(h[t].removed) <= budget(s)
                   /\ \A n \in Range(h[t].removed) : Relocated(s, n, held[n])}
<1>2. IsFiniteSet(D) /\ Picks(c, D) /\ \A i \in D : order[i] \in M
  BY LastPicked
<1>3. /\ h[{}] = [removed |-> <<>>, free |-> Start(s)]
      /\ \A t \in SUBSET D : /\ h[t] \in Removals(s, M)
                             /\ t # {} => h[t] = try_remove(s, h[t \ {Max(t)}], order[Max(t)])
  BY <1>1 DEF Considers
<1>4. Start(s) \in [N -> Int] /\ budget(s) \in Nat
  <2>1. budget(s) \in Nat
    BY BudgetType
  <2>2. /\ \A o \in M : room(s.members[o]) \in Int
        /\ \A o \in DOMAIN s.external : s.external[o] \in Int
    BY DEF Sound, room
  <2> QED BY <2>1, <2>2 DEF Start
<1>5. {} \in X
  <2>1. Len(<<>>) = 0 /\ Range(<<>>) = {}
    BY DEF Range
  <2>2. h[{}].removed = <<>> /\ h[{}].free = Start(s)
    BY <1>3
  <2> HIDE DEF N, D
  <2> QED BY <1>4, <2>1, <2>2
<1>6. ASSUME NEW t \in SUBSET D, t # {}, t \ {c[t]} \in X PROVE t \in X
  <2> DEFINE i == c[t]
             u == t \ {i}
             down == h[u]
             n == order[i]
  <2>1. i = Max(t) /\ i \in t /\ i \in D /\ n \in M
    BY <1>2, <1>6 DEF Picks
  <2>2. h[t] = try_remove(s, down, n) /\ down \in Removals(s, M)
    BY <1>3, <1>6, <2>1
  <2>3. /\ \A o \in N : down.free[o] <= Start(s)[o]
        /\ Len(down.removed) <= budget(s)
        /\ \A m \in Range(down.removed) : Relocated(s, m, held[m])
    BY <1>6
  <2>4. down.free \in [N -> Int] /\ down.removed \in Seq(M)
    BY <2>2 DEF Removals, Rooms
  <2> HIDE DEF i, u, down, n
  <2>5. \/ h[t] = down
        \/ \E left \in Rooms(s) :
             /\ h[t] = [removed |-> Append(down.removed, n), free |-> left]
             /\ Placed(s, n, held[n], down.free, left)
             /\ ~(Len(down.removed) >= budget(s))
    <3>1. held[n] \in SUBSET Pods /\ Shows(s, n, held[n]) /\ down.free \in Rooms(s)
      BY <2>1, <2>4 DEF Rooms
    <3> QED BY <2>1, <2>2, <3>1, RemovePlaces
  <2>6. CASE h[t] = down
    BY <2>3, <2>6
  <2>7. ASSUME NEW left \in Rooms(s),
               h[t] = [removed |-> Append(down.removed, n), free |-> left],
               Placed(s, n, held[n], down.free, left),
               ~(Len(down.removed) >= budget(s))
        PROVE  t \in X
    <3>1. h[t].removed = Append(down.removed, n) /\ h[t].free = left /\ left \in [N -> Int]
      BY <2>7 DEF Rooms
    <3>2. PICK to \in [held[n] -> Stay(s, n)] :
            /\ \A x \in held[n] : to[x] \in Admits[x]
            /\ \A o \in N : /\ left[o] = down.free[o] - Load({x \in held[n] : to[x] = o})
                            /\ (\E x \in held[n] : to[x] = o) => left[o] >= 0
      BY <2>7 DEF Placed
    <3>3. \A o \in N : Load({x \in held[n] : to[x] = o}) \in Nat
      <4> TAKE o \in N
      <4>1. {x \in held[n] : to[x] = o} \in SUBSET Pods
        BY <2>1
      <4> QED BY <4>1, LoadAdds
    <3>4. ASSUME NEW o \in N
          PROVE  /\ left[o] <= Start(s)[o]
                 /\ (\E x \in held[n] : to[x] = o) => Load({x \in held[n] : to[x] = o}) <= Start(s)[o]
      <4> DEFINE load == Load({x \in held[n] : to[x] = o})
      <4>1. /\ left[o] = down.free[o] - load /\ load \in Nat
            /\ (\E x \in held[n] : to[x] = o) => left[o] >= 0
        BY <3>2, <3>3
      <4>2. down.free[o] \in Int /\ Start(s)[o] \in Int /\ left[o] \in Int
            /\ down.free[o] <= Start(s)[o]
        BY <1>4, <2>3, <2>4, <3>1
      <4> HIDE DEF load
      <4>3. left[o] <= Start(s)[o] /\ (left[o] >= 0 => load <= Start(s)[o])
        BY <4>1, <4>2
      <4> QED BY <4>1, <4>3 DEF load
    <3>5. Relocated(s, n, held[n])
      BY <3>2, <3>4 DEF Relocated
    <3>6. /\ Len(Append(down.removed, n)) = Len(down.removed) + 1 /\ Len(down.removed) \in Nat
          /\ \A m \in Range(Append(down.removed, n)) : m = n \/ m \in Range(down.removed)
      BY <2>1, <2>4, AppendProperties DEF Range
    <3>7. Len(h[t].removed) <= budget(s)
      BY <1>4, <2>7, <3>1, <3>6
    <3> QED BY <2>3, <3>1, <3>4, <3>5, <3>6, <3>7
  <2> QED BY <2>5, <2>6, <2>7
<1> HIDE DEF X, c, N, D
<1>7. SUBSET D \subseteq X
  BY <1>2, <1>5, <1>6, PickInduction
<1>8. Len(h[D].removed) <= budget(s) /\ \A n \in Range(h[D].removed) : Relocated(s, n, held[n])
  <2>1. D \in X
    BY <1>7
  <2> QED BY <2>1 DEF X
<1>9. CASE power_off(s, on, idle) = <<>>
  <2>1. Len(<<>>) = 0 /\ Range(<<>>) = {}
    BY DEF Range
  <2> QED BY <1>4, <1>9, <2>1
<1> QED BY <1>1, <1>8, <1>9 DEF D

\* A snapshot shows of every member the pods that run there.
LEMMA SnapshotShows ==
  ASSUME TypeOK, NEW p \in Pools, NEW n \in Members[p]
  PROVE  Shows(snapshot(p), n, pods_on(n))
<1> DEFINE P == pods_on(n)
           order == SetToSeq(P)
           ps == [i \in DOMAIN order |-> PodView(order[i])]
           dec == decreasing(ps)
<1>1. IsFiniteSet(P) /\ P \in SUBSET Pods
  <2>1. P \in SUBSET Pods
    BY DEF pods_on
  <2> QED BY <2>1, FleetAssumption, FS_Subset
<1>2. order \in Bijection(DOMAIN order, P) /\ DOMAIN order = 1..Cardinality(P) /\ Cardinality(P) \in Nat
  <2>1. Cardinality(P) \in Nat /\ ExistsBijection(1..Cardinality(P), P)
    BY <1>1, FS_CardinalityType
  <2>2. \E f \in [1..Cardinality(P) -> P] : IsInjective(f)
    BY <2>1 DEF ExistsBijection, Bijection, Injection
  <2>3. order \in [1..Cardinality(P) -> P] /\ IsInjective(order)
    BY <2>2 DEF SetToSeq
  <2>4. order \in Injection(1..Cardinality(P), P)
    BY <2>3 DEF Injection
  <2>5. Cardinality(1..Cardinality(P)) = Cardinality(P)
    BY <2>1, FS_Interval
  <2>6. order \in Surjection(1..Cardinality(P), P)
    BY <1>1, <2>4, <2>5, FS_Injection
  <2> HIDE DEF order
  <2> QED BY <2>1, <2>3, <2>4, <2>6 DEF Bijection
<1>3. snapshot(p).members[n].pods = ps
  BY DEF snapshot, build_member
<1> HIDE DEF order, P
<1>4. \A i \in DOMAIN order : order[i] \in P
  BY <1>2, Matching
<1>5. ps \in Seq(Views) /\ DOMAIN ps = DOMAIN order
  <2>1. ps \in [1..Cardinality(P) -> Views]
    BY <1>1, <1>2, <1>4 DEF Views
  <2> QED BY <1>2, <2>1, IsASeq
<1>6. \A v \in Views : v.size \in 1..LargestPod
  <2>1. \A x \in Pods : PodView(x).size \in 1..LargestPod
    BY FleetAssumption DEF PodView
  <2> QED BY <2>1 DEF Views
<1>7. \A i \in DOMAIN order : ps[i] = PodView(order[i])
  OBVIOUS
<1> HIDE DEF ps
<1>8. PICK pi \in Bijection(DOMAIN dec, DOMAIN order) : \A j \in DOMAIN dec : dec[j] = ps[pi[j]]
  <2>1. Lists(decreasing(ps), ps, DOMAIN ps)
    BY <1>5, <1>6, DecreasingLists
  <2> QED BY <1>5, <2>1 DEF Lists
<1> DEFINE D == DOMAIN dec
           to == [j \in D |-> order[pi[j]]]
<1> HIDE DEF dec
<1>9. pi \in [D -> DOMAIN order] /\ (\A j, k \in D : pi[j] = pi[k] => j = k)
      /\ \A i \in DOMAIN order : \E j \in D : pi[j] = i
  BY <1>8, Matching
<1>10. (\A i, j \in DOMAIN order : order[i] = order[j] => i = j)
       /\ \A x \in P : \E i \in DOMAIN order : order[i] = x
  BY <1>2, Matching
<1>11. to \in Bijection(D, P)
  <2>1. to \in [D -> P]
    BY <1>4, <1>9
  <2>2. \A j, k \in D : to[j] = to[k] => j = k
    BY <1>9, <1>10
  <2>3. \A x \in P : \E j \in D : to[j] = x
    BY <1>9, <1>10
  <2> HIDE DEF to, D
  <2> QED BY <2>1, <2>2, <2>3, Matching
<1>12. \A j \in D : dec[j] = PodView(to[j])
  BY <1>7, <1>8, <1>9
<1> HIDE DEF to
<1> QED BY <1>3, <1>11, <1>12 DEF Shows, dec, P

\* Nothing runs on a machine that it has no room for.
RoomInv == \A n \in Fleet : Load(pods_on(n)) <= Size[n]

\* The scheduler binds a pod where it fits, and nothing else adds pods.
LEMMA RoomStep == TypeOK /\ RoomInv /\ [Next]_vars => RoomInv'
<1> SUFFICES ASSUME TypeOK, RoomInv, [Next]_vars PROVE RoomInv'
  OBVIOUS
<1>1. /\ \A n \in Fleet : /\ pods_on(n) \in SUBSET Pods /\ Size[n] \in Nat
                           /\ Load(pods_on(n)) \in Nat /\ Load(pods_on(n)) <= Size[n]
      /\ \A n : pods_on(n)' = {x \in Pods : where'[x] = n}
  <2>1. \A n : pods_on(n) \in SUBSET Pods /\ pods_on(n)' = {x \in Pods : where'[x] = n}
    BY DEF pods_on
  <2>2. \A n : Load(pods_on(n)) \in Nat
    BY <2>1, LoadAdds
  <2>3. \A n \in Fleet : Size[n] \in Nat
    BY FleetAssumption
  <2> QED BY <2>1, <2>2, <2>3 DEF RoomInv
<1>2. CASE where' = where
  <2>1. \A n : pods_on(n)' = pods_on(n)
    BY <1>2 DEF pods_on
  <2> QED BY <1>1, <2>1 DEF RoomInv
<1>3. ASSUME NEW x \in Pods, NEW to, to \notin Fleet, where' = [where EXCEPT ![x] = to]
      PROVE  RoomInv'
  <2>1. \A n \in Fleet : {y \in Pods : where'[y] = n} = pods_on(n) \ {x}
    BY <1>3 DEF pods_on, TypeOK
  <2>2. ASSUME NEW n \in Fleet PROVE Load(pods_on(n)') <= Size[n]
    <3>1. pods_on(n)' = pods_on(n) \ {x} /\ pods_on(n) \ {x} \in SUBSET Pods
      BY <1>1, <2>1
    <3>2. Load(pods_on(n) \ {x}) <= Load(pods_on(n)) /\ Load(pods_on(n) \ {x}) \in Nat
      BY <1>1, <3>1, LoadLess, LoadAdds
    <3>3. Load(pods_on(n)') = Load(pods_on(n) \ {x})
      BY <3>1
    <3> QED BY <1>1, <3>2, <3>3
  <2> QED BY <2>2 DEF RoomInv
<1>4. {"pending", "none"} \cap Fleet = {}
  BY FleetAssumption
<1>5. ASSUME NEW x \in Pods, PodBound(x) PROVE RoomInv'
  <2>1. PICK m \in Admits[x] : used(m) + Request[x] <= Size[m] /\ where' = [where EXCEPT ![x] = m]
    BY <1>5 DEF PodBound, Rebinds
  <2>2. where[x] = "pending" /\ m \in Fleet /\ used(m) = Load(pods_on(m))
    BY <1>5, FleetAssumption DEF PodBound, used, Load
  <2>3. \A n \in Fleet : n # m => {y \in Pods : where'[y] = n} = pods_on(n)
    BY <1>4, <2>1, <2>2 DEF pods_on, TypeOK
  <2>4. {y \in Pods : where'[y] = m} = pods_on(m) \cup {x} /\ x \in Pods \ pods_on(m)
    BY <1>4, <2>1, <2>2 DEF pods_on, TypeOK
  <2>5. Load(pods_on(m)') = Load(pods_on(m)) + Request[x]
    <3>1. pods_on(m)' = pods_on(m) \cup {x}
      BY <1>1, <2>4
    <3>2. Load(pods_on(m) \cup {x}) = Load(pods_on(m)) + Request[x]
      BY <1>1, <2>2, <2>4, LoadAdds
    <3> QED BY <3>1, <3>2
  <2>6. Load(pods_on(m)') <= Size[m]
    BY <2>1, <2>2, <2>5
  <2>7. \A n \in Fleet : n # m => pods_on(n)' = pods_on(n)
    BY <1>1, <2>3
  <2> QED BY <1>1, <2>6, <2>7 DEF RoomInv
<1>6. ASSUME NEW x \in Pods, PodCreated(x) \/ PodDone(x) \/ PodEvicted(x) PROVE RoomInv'
  BY <1>3, <1>4, <1>6 DEF PodCreated, PodDone, PodEvicted, Rebinds
<1>7. ASSUME NEW p \in Pools, Plan(p) \/ Decide(p) \/ PatchPool(p) \/ ReconcileFails(p)
      PROVE  where' = where
  BY <1>7 DEF Plan, Decide, PatchPool, ReconcileFails
<1>8. ASSUME NEW n \in Fleet, PowersOn(n) \/ BecomesOn(n) \/ Drains(n) \/ PowersOff(n)
      PROVE  where' = where
  BY <1>8 DEF PowersOn, BecomesOn, Drains, PowersOff, Moves
<1> QED BY <1>2, <1>5, <1>6, <1>7, <1>8 DEF Next, Tick, vars

\* At the start a machine that is on runs one pod at most, and has room for it.
LEMMA RoomInit == Init => RoomInv
<1> SUFFICES ASSUME Init, NEW n \in Fleet PROVE Load(pods_on(n)) <= Size[n]
  BY DEF RoomInv
<1>1. Size[n] \in Nat
  BY FleetAssumption
<1>2. CASE pods_on(n) = {}
  BY <1>1, <1>2, LoadAdds
<1>3. CASE pods_on(n) # {}
  <2>1. PICK x \in Pods : where[x] = n
    BY <1>3 DEF pods_on
  <2>2. pods_on(n) = {x} /\ Request[x] <= Size[n]
    BY <2>1 DEF Init
  <2>3. {} \in SUBSET Pods /\ x \in Pods \ {} /\ {} \cup {x} = {x} /\ Request[x] \in Nat
    BY FleetAssumption, SizeAssumption
  <2>4. Load({x}) = Load({}) + Request[x]
    BY <2>3, LoadAdds
  <2> QED BY <1>1, <2>2, <2>3, <2>4, LoadAdds
<1> QED BY <1>2, <1>3

\* The members that stay online when n goes.
Others(p, n) == {m \in Members[p] : member_state(m) = "Online"} \ {n}

\* When a pool plans to power machines off, the pods of each fit on the other
\* members that are online; and one machine is chosen when one may leave.
LEMMA PlanPlaces ==
  ASSUME TypeOK, RoomInv, NEW p \in Pools, Plan(p)
  PROVE  /\ planned_off(p) \subseteq Members[p]
         /\ \A n \in planned_off(p) : FitTogether(pods_on(n), Others(p, n))
         /\ budget(snapshot(p)) <= 1 => \A m, n \in planned_off(p) : m = n
<1> DEFINE s   == snapshot(p)
           pl  == plan(s)
           on  == power_on(s)
           idle == expired(s, unneeded_since(s)) \cup released(s)
           off == power_off(s, on, idle)
           ons  == [i \in DOMAIN pl.power_on |-> [machine |-> pl.power_on[i], target |-> "On"]]
           offs == [i \in DOMAIN off |-> [machine |-> off[i], target |-> "Off"]]
           todo == ons \o offs
<1>1. Sound(s, Views) /\ DOMAIN s.members = Members[p]
  BY SnapshotSound
<1>2. idle \subseteq Members[p]
  BY <1>1, Counted DEF expired, released, candidates
<1>3. pl.power_off = off
  BY DEF plan
<1>4. rec'[p].todo = todo
  BY <1>3 DEF Plan, TypeOK
<1> DEFINE held == [n \in Members[p] |-> pods_on(n)]
<1>5. \A n \in Members[p] : Shows(s, n, held[n])
  BY SnapshotShows
<1>6. held \in [DOMAIN s.members -> SUBSET Pods]
  BY <1>1 DEF pods_on
<1> HIDE DEF held, idle, on, s
<1>7. /\ \A n \in Range(off) : Relocated(s, n, held[n])
      /\ Len(off) <= budget(s)
  BY <1>1, <1>2, <1>5, <1>6, PowerOffPlaces
<1>8. off \in Seq(Members[p])
  BY <1>1, <1>2, PowerOffLimited
<1>9. pl.power_on \in Seq(Members[p])
  BY PlanLimited DEF s
<1> HIDE DEF pl, off
<1>10. planned_off(p) \subseteq Range(off)
  <2> DEFINE Choice == [machine : Members[p], target : {"On", "Off"}]
  <2>1. /\ DOMAIN pl.power_on = 1..Len(pl.power_on) /\ Len(pl.power_on) \in Nat
        /\ DOMAIN off = 1..Len(off) /\ Len(off) \in Nat
        /\ \A i \in DOMAIN pl.power_on : pl.power_on[i] \in Members[p]
        /\ \A i \in DOMAIN off : off[i] \in Members[p]
    BY <1>8, <1>9, LastPicked
  <2>2. ons \in [1..Len(pl.power_on) -> Choice] /\ offs \in [1..Len(off) -> Choice]
    BY <2>1
  <2>3. ons \in Seq(Choice) /\ offs \in Seq(Choice) /\ DOMAIN ons = 1..Len(pl.power_on) /\ DOMAIN offs = 1..Len(off)
    BY <2>1, <2>2, IsASeq
  <2>4. (\A i \in DOMAIN ons : ons[i].target = "On") /\ \A i \in DOMAIN offs : offs[i].machine = off[i]
    OBVIOUS
  <2> HIDE DEF ons, offs, Choice
  <2>5. Len(ons) = Len(pl.power_on) /\ Len(offs) = Len(off)
    BY <2>1, <2>3, LenProperties
  <2>6. /\ todo \in Seq(Choice) /\ Len(todo) = Len(ons) + Len(offs)
        /\ \A i \in 1..(Len(ons) + Len(offs)) :
             todo[i] = IF i <= Len(ons) THEN ons[i] ELSE offs[i - Len(ons)]
    BY <2>3, ConcatProperties
  <2>7. DOMAIN todo = 1..(Len(ons) + Len(offs))
    BY <2>6, LenProperties
  <2> HIDE DEF todo
  <2>8. ASSUME NEW i \in DOMAIN todo, todo[i].target = "Off" PROVE todo[i].machine \in Range(off)
    <3>1. i \in Int /\ 1 <= i /\ i <= Len(ons) + Len(offs)
      BY <2>1, <2>5, <2>7
    <3>2. ~(i <= Len(ons))
      <4> SUFFICES ASSUME i <= Len(ons) PROVE FALSE
        OBVIOUS
      <4>1. i \in DOMAIN ons
        BY <2>1, <2>3, <2>5, <3>1
      <4> QED BY <2>4, <2>6, <2>7, <2>8, <4>1
    <3>3. i - Len(ons) \in DOMAIN offs
      BY <2>1, <2>3, <2>5, <3>1, <3>2
    <3>4. todo[i].machine = off[i - Len(ons)]
      BY <2>4, <2>6, <2>7, <3>2, <3>3
    <3>5. i - Len(ons) \in DOMAIN off
      BY <2>1, <2>3, <3>3
    <3> QED BY <3>4, <3>5 DEF Range
  <2> QED BY <1>4, <2>8 DEF planned_off
<1>11. planned_off(p) \subseteq Members[p]
  BY <1>8, <1>10, LastPicked DEF Range
<1>12. ASSUME NEW n \in planned_off(p) PROVE FitTogether(pods_on(n), Others(p, n))
  <2>1. n \in Members[p] /\ held[n] = pods_on(n) /\ Relocated(s, n, pods_on(n))
    BY <1>7, <1>10, <1>11 DEF held
  <2>2. /\ s.external = << >> /\ \A m \in Members[p] : s.members[m] = build_member(m)
    BY DEF s, snapshot
  <2>3. Stay(s, n) = Others(p, n) /\ Others(p, n) \subseteq Members[p]
    <3>1. \A m : member_state(m) # "Manual"
      BY DEF member_state
    <3>2. \A m \in Members[p] : s.members[m].state = member_state(m)
      <4>1. \A m : build_member(m).state = member_state(m)
        BY DEF build_member
      <4> QED BY <2>2, <4>1
    <3>3. DOMAIN s.external = {}
      BY <2>2
    <3> QED BY <1>1, <3>1, <3>2, <3>3 DEF Stay, in_state, Others
  <2>4. PICK to \in [pods_on(n) -> Others(p, n)] :
          /\ \A x \in pods_on(n) : to[x] \in Admits[x]
          /\ \A o \in Members[p] :
               (\E x \in pods_on(n) : to[x] = o) => Load({x \in pods_on(n) : to[x] = o}) <= Start(s)[o]
    BY <1>1, <2>1, <2>3 DEF Relocated
  <2>5. \A o \in Members[p] : Start(s)[o] = Size[o] - used(o)
    <3>1. \A o : build_member(o).size = Size[o] /\ build_member(o).used = used(o)
      BY DEF build_member
    <3>2. \A o \in Members[p] : s.members[o].size = Size[o] /\ s.members[o].used = used(o)
      BY <2>2, <3>1
    <3> QED BY <1>1, <3>2 DEF Start, room
  <2>6. ASSUME NEW o \in Others(p, n)
        PROVE  used(o) + Load({x \in pods_on(n) : to[x] = o}) <= Size[o]
    <3> DEFINE T == {x \in pods_on(n) : to[x] = o}
    <3>1. o \in Fleet /\ used(o) \in Nat /\ Size[o] \in Nat /\ used(o) <= Size[o]
      BY <2>3, PoolAssumption, FleetAssumption, UsedType DEF RoomInv, used, Load
    <3>2. T \in SUBSET Pods
      BY DEF pods_on
    <3>3. Load(T) \in Nat
      BY <3>2, LoadAdds
    <3>4. CASE T = {}
      BY <3>1, <3>4, LoadAdds
    <3>5. CASE T # {}
      <4>1. Load(T) <= Size[o] - used(o)
        BY <2>3, <2>4, <2>5, <3>5
      <4> HIDE DEF T
      <4>2. used(o) + Load(T) <= Size[o]
        BY <3>1, <3>3, <4>1
      <4> QED BY <4>2 DEF T
    <3> QED BY <3>4, <3>5
  <2> QED BY <2>4, <2>6 DEF FitTogether, Load
<1>13. ASSUME budget(s) <= 1, NEW m \in planned_off(p), NEW n \in planned_off(p) PROVE m = n
  <2>1. Len(off) \in Nat /\ DOMAIN off = 1..Len(off) /\ budget(s) \in Nat
    BY <1>1, <1>8, LastPicked, BudgetType
  <2>2. Len(off) <= 1
    BY <1>7, <1>13, <2>1
  <2>3. \A i \in DOMAIN off : i = 1
    BY <2>1, <2>2
  <2> QED BY <1>10, <1>13, <2>3 DEF Range
<1> QED BY <1>11, <1>12, <1>13 DEF s

\* Whenever a pool plans to power machines off, the pods of each of them fit
\* together on the other members that are online, beside the pods already there.
EachHasRoom ==
  [][\A p \in Pools : Planned(p) =>
       \A n \in planned_off(p) : FitTogether(pods_on(n), Others(p, n))]_vars

\* Only a plan plans.
LEMMA PlannedBy ==
  ASSUME TypeOK, [Next]_vars, NEW p \in Pools, Planned(p)
  PROVE  Plan(p)
<1>1. ASSUME NEW q \in Pools, Plan(q) PROVE q = p
  BY <1>1 DEF Plan, Planned, TypeOK
<1>2. ASSUME NEW q \in Pools, Decide(q) PROVE FALSE
  BY <1>2, DecideStep DEF Decide, Planned, TypeOK
<1>3. ASSUME NEW q \in Pools, PatchPool(q) \/ ReconcileFails(q) PROVE FALSE
  BY <1>3 DEF PatchPool, ReconcileFails, Planned, TypeOK, Idle
<1>4. ASSUME NEW n \in Fleet, PowersOn(n) \/ BecomesOn(n) \/ Drains(n) \/ PowersOff(n)
      PROVE  FALSE
  BY <1>4 DEF PowersOn, BecomesOn, Drains, PowersOff, Moves, Planned
<1>5. ASSUME NEW x \in Pods, PodCreated(x) \/ PodBound(x) \/ PodDone(x) \/ PodEvicted(x)
      PROVE  FALSE
  BY <1>5 DEF PodCreated, PodBound, PodDone, PodEvicted, Rebinds, Planned
<1>6. CASE Tick \/ UNCHANGED vars
  BY <1>6 DEF Tick, vars, Planned
<1> QED BY <1>1, <1>2, <1>3, <1>4, <1>5, <1>6 DEF Next

\* The pods of a machine about to be powered off have somewhere to go, each
\* admitted and all of them within the room that is free: whatever pods, sizes
\* and affinities there are, and in whichever order first-fit decreasing takes
\* them (targets, move and try_remove in src/scaling.rs).
THEOREM EachRoom == Spec => EachHasRoom
<1>1. ASSUME TypeOK, RoomInv, [Next]_vars
      PROVE  [\A p \in Pools : Planned(p) =>
                \A n \in planned_off(p) : FitTogether(pods_on(n), Others(p, n))]_vars
  BY <1>1, PlannedBy, PlanPlaces
<1>2. Spec => []RoomInv
  BY RoomInit, RoomStep, TypeCorrect, PTL DEF Spec
<1> QED BY <1>1, <1>2, TypeCorrect, PTL DEF Spec, EachHasRoom

\* When maxNodesPerStep is 1, all the machines a pool plans off are one, and
\* its pods fit on the members that stay (power_off in src/scaling.rs), as long
\* as maxOnline never is exceeded: no machine is shared and no more were on at
\* the start.
THEOREM OneAtATimeRoom ==
  ASSUME Apart, StartsWithin, \A p \in Pools : PoolSpec[p].down_step <= 1
  PROVE  Spec => RoomKept
<1>1. ASSUME TypeOK, RoomInv, MaxOnlineKept, [Next]_vars
      PROVE  [\A p \in Pools : (Planned(p) /\ planned_off(p) # {}) =>
                FitTogether(UNION {pods_on(n) : n \in planned_off(p)},
                            {n \in Members[p] : member_state(n) = "Online"} \ planned_off(p))]_vars
  <2> SUFFICES ASSUME NEW p \in Pools, Planned(p), planned_off(p) # {}
               PROVE  FitTogether(UNION {pods_on(n) : n \in planned_off(p)},
                            {n \in Members[p] : member_state(n) = "Online"} \ planned_off(p))
    OBVIOUS
  <2> USE <1>1
  <2>1. Plan(p)
    BY PlannedBy
  <2>2. budget(snapshot(p)) <= 1
    <3> DEFINE s == snapshot(p)
    <3>1. Sound(s, Views) /\ online_now(s) = Cardinality(on_members(p)) /\ s.spec = PoolSpec[p]
      BY SnapshotSound DEF snapshot
    <3>2. Cardinality(on_members(p)) <= PoolSpec[p].max_online
      BY DEF MaxOnlineKept
    <3>3. online_now(s) \in Nat /\ s.spec.max_online \in Nat /\ s.spec.down_step \in Nat
      BY <3>1, Counted DEF online_now, Sound
    <3> HIDE DEF s
    <3>4. over_max(s) = 0
      BY <3>1, <3>2, <3>3 DEF over_max
    <3>5. budget(s) <= s.spec.down_step /\ budget(s) \in Nat
      BY <3>1, <3>4, BudgetType
    <3>6. s.spec.down_step <= 1
      BY <3>1
    <3>7. budget(s) <= 1
      BY <3>3, <3>5, <3>6
    <3> QED BY <3>7 DEF s
  <2>3. PICK n \in planned_off(p) : FitTogether(pods_on(n), Others(p, n))
    BY <2>1, PlanPlaces
  <2>4. planned_off(p) = {n}
    BY <2>1, <2>2, PlanPlaces
  <2>5. UNION {pods_on(m) : m \in planned_off(p)} = pods_on(n)
        /\ {m \in Members[p] : member_state(m) = "Online"} \ planned_off(p) = Others(p, n)
    BY <2>4 DEF Others
  <2> QED BY <2>3, <2>5
<1>2. Spec => []RoomInv
  BY RoomInit, RoomStep, TypeCorrect, PTL DEF Spec
<1> QED BY <1>1, <1>2, WithinMax, TypeCorrect, PTL DEF Spec, RoomKept
=============================================================================
