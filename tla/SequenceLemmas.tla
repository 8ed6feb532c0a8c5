---------------------------- MODULE SequenceLemmas ----------------------------
(***************************************************************************)
(* What the proofs about several components need of numbers and sequences: *)
(* induction without an operator as a parameter, recursive functions over  *)
(* a sequence, FlattenSeq.                                                 *)
(***************************************************************************)
EXTENDS Integers, SequencesExt, SequenceTheorems, FiniteSetTheorems, FunctionTheorems, TLAPS

(***************************************************************************)
(* FlattenSeq, whose recursion is unfolded by induction over indices.      *)
(***************************************************************************)
LEMMA SetInduction ==
    ASSUME NEW S \in SUBSET Nat, 0 \in S, \A n \in S : n + 1 \in S
    PROVE  \A n \in Nat : n \in S
<1> SUFFICES ASSUME NEW n \in Nat, n \notin S PROVE FALSE
  OBVIOUS
<1> DEFINE D == {k \in S : k <= n}
           next == [k \in D |-> k + 1]
<1>1. D \in SUBSET Nat /\ \A k \in D : k <= n
  OBVIOUS
<1>2. IsFiniteSet(D)
  BY <1>1, FS_BoundedSetOfNaturals
<1>3. \A k \in D : k + 1 \in D \ {0}
  OBVIOUS
<1>4. next \in Injection(D, D \ {0})
  <2>1. next \in [D -> D \ {0}]
    BY <1>3
  <2>2. ASSUME NEW a \in D, NEW b \in D, next[a] = next[b] PROVE a = b
    BY <1>1, <2>2
  <2> HIDE DEF next, D
  <2> QED
    BY <2>1, <2>2, Fun_IsInj
<1>5. IsFiniteSet(D \ {0}) /\ Cardinality(D \ {0}) = Cardinality(D) - 1
  BY <1>2, FS_RemoveElement
<1>6. Cardinality(D) <= Cardinality(D \ {0})
  <2> HIDE DEF D, next
  <2> QED
    BY <1>4, <1>5, FS_Injection
<1> QED
  BY <1>2, <1>5, <1>6, FS_CardinalityType

LEMMA IndexInduction ==
    ASSUME NEW n \in Nat, NEW S, n > 0 => 1 \in S,
           \A m \in S : m \in Nat /\ m < n => m + 1 \in S
    PROVE  \A m \in 1..n : m \in S
<1> DEFINE T == {k \in Nat : k < n => k + 1 \in S}
<1>1. T \in SUBSET Nat /\ 0 \in T
  OBVIOUS
<1>2. ASSUME NEW k \in T PROVE k + 1 \in T
  OBVIOUS
<1>3. \A k \in Nat : k \in T
  <2> HIDE DEF T
  <2> QED
    BY <1>1, <1>2, SetInduction
<1>4. ASSUME NEW m \in 1..n PROVE m \in S
  <2>1. m - 1 \in Nat /\ m - 1 < n
    OBVIOUS
  <2>2. m - 1 \in T
    BY <1>3, <2>1
  <2> QED
    BY <2>1, <2>2
<1> QED
  BY <1>4

IsFlattening(flat, seqs, n) ==
    flat = [i \in 1..n |-> IF i = 1 THEN seqs[i] ELSE flat[i - 1] \o seqs[i]]

LEMMA FlatteningExists ==
    ASSUME NEW seqs, NEW n \in Nat
    PROVE  \E flat : IsFlattening(flat, seqs, n)
<1> DEFINE S == {m \in Nat : \E flat : IsFlattening(flat, seqs, m)}
<1>1. 0 \in S
  <2>1. IsFlattening([i \in 1..0 |-> << >>], seqs, 0)
    BY DEF IsFlattening
  <2> QED
    BY <2>1
<1>2. ASSUME NEW m \in S PROVE m + 1 \in S
  <2>1. m \in Nat /\ \E f : IsFlattening(f, seqs, m)
    OBVIOUS
  <2>2. PICK flat : IsFlattening(flat, seqs, m)
    BY <2>1
  <2> DEFINE new == [i \in 1..(m + 1) |->
                       IF i = m + 1 THEN IF m = 0 THEN seqs[1] ELSE flat[m] \o seqs[m + 1]
                       ELSE flat[i]]
  <2>3. \A i \in 1..m : flat[i] = IF i = 1 THEN seqs[i] ELSE flat[i - 1] \o seqs[i]
    BY <2>2 DEF IsFlattening
  <2>4. ASSUME NEW i \in 1..(m + 1)
        PROVE  new[i] = IF i = 1 THEN seqs[i] ELSE new[i - 1] \o seqs[i]
    <3>1. CASE i = m + 1 /\ m = 0
      BY <3>1
    <3>2. CASE i = m + 1 /\ m # 0
      <4>1. i - 1 = m /\ i # 1 /\ m \in 1..(m + 1) /\ m # m + 1
        BY <2>1, <3>2
      <4>2. new[i - 1] = flat[m]
        BY <4>1
      <4> QED
        BY <3>2, <4>1, <4>2
    <3>3. CASE i \in 1..m /\ i # 1
      <4>1. i # m + 1 /\ i - 1 \in 1..m /\ i - 1 # m + 1 /\ i - 1 \in 1..(m + 1)
        BY <2>1, <3>3
      <4>2. new[i - 1] = flat[i - 1] /\ new[i] = flat[i]
        BY <4>1
      <4> QED
        BY <2>3, <3>3, <4>2
    <3>4. CASE i = 1 /\ m # 0
      <4>1. i \in 1..m /\ i # m + 1
        BY <2>1, <3>4
      <4> QED
        BY <2>3, <3>4, <4>1
    <3> QED
      BY <2>1, <3>1, <3>2, <3>3, <3>4
  <2>5. new = [i \in 1..(m + 1) |-> IF i = 1 THEN seqs[i] ELSE new[i - 1] \o seqs[i]]
    <3>1. new = [i \in 1..(m + 1) |-> new[i]]
      OBVIOUS
    <3> HIDE DEF new
    <3> QED
      BY <2>4, <3>1
  <2>6. IsFlattening(new, seqs, m + 1)
    <3> HIDE DEF new
    <3> QED
      BY <2>5 DEF IsFlattening
  <2> HIDE DEF new
  <2> QED
    BY <2>1, <2>6
<1>3. \A m \in Nat : m \in S
  <2> HIDE DEF S
  <2>1. S \in SUBSET Nat
    BY DEF S
  <2> QED
    BY <1>1, <1>2, <2>1, SetInduction
<1> QED
  BY <1>3

Associates(S) == \A a, b, c \in Seq(S) : (a \o b) \o c = a \o (b \o c)

LEMMA Associative == \A S : Associates(S)
BY ConcatAssociative DEF Associates

LEMMA FlattenUnfolds ==
    ASSUME NEW seqs, Len(seqs) \in Nat \ {0}
    PROVE  \E flat : /\ flat[1] = seqs[1]
                     /\ \A i \in 1..(Len(seqs) - 1) : flat[i + 1] = flat[i] \o seqs[i + 1]
                     /\ FlattenSeq(seqs) = flat[Len(seqs)]
<1> DEFINE n == Len(seqs)
           flat == CHOOSE f : f = [i \in 1..n |-> IF i = 1 THEN seqs[i] ELSE f[i - 1] \o seqs[i]]
<1>1. FlattenSeq(seqs) = flat[n]
  BY DEF FlattenSeq
<1>2. \E f : f = [i \in 1..n |-> IF i = 1 THEN seqs[i] ELSE f[i - 1] \o seqs[i]]
  BY FlatteningExists DEF IsFlattening
<1>3. flat = [i \in 1..n |-> IF i = 1 THEN seqs[i] ELSE flat[i - 1] \o seqs[i]]
  BY <1>2
<1> HIDE DEF flat
<1>4. \A i \in 1..n : flat[i] = IF i = 1 THEN seqs[i] ELSE flat[i - 1] \o seqs[i]
  BY <1>3
<1>5. flat[1] = seqs[1]
  BY <1>4
<1>6. ASSUME NEW i \in 1..(n - 1) PROVE flat[i + 1] = flat[i] \o seqs[i + 1]
  <2>1. i + 1 \in 1..n /\ i + 1 # 1 /\ i + 1 - 1 = i
    OBVIOUS
  <2>2. ASSUME NEW j \in 1..n, j # 1 PROVE flat[j] = flat[j - 1] \o seqs[j]
    BY <1>4, <2>2
  <2>3. flat[i + 1] = flat[(i + 1) - 1] \o seqs[i + 1]
    BY <2>1, <2>2
  <2>4. (i + 1) - 1 = i
    OBVIOUS
  <2> QED
    BY <2>3, <2>4
<1> QED
  BY <1>1, <1>5, <1>6

LEMMA FlattenType ==
    ASSUME NEW S, NEW seqs \in Seq(Seq(S))
    PROVE  FlattenSeq(seqs) \in Seq(S)
<1>1. CASE Len(seqs) = 0
  <2>1. seqs = << >>
    BY <1>1, EmptySeq
  <2>2. << >> \in Seq(S)
    BY EmptySeq
  <2> QED
    BY <1>1, <2>1, <2>2 DEF FlattenSeq
<1>2. CASE Len(seqs) # 0
  <2>1. Len(seqs) \in Nat \ {0}
    BY <1>2, LenProperties
  <2>2. PICK flat : /\ flat[1] = seqs[1]
                    /\ \A i \in 1..(Len(seqs) - 1) : flat[i + 1] = flat[i] \o seqs[i + 1]
                    /\ FlattenSeq(seqs) = flat[Len(seqs)]
    BY <2>1, FlattenUnfolds
  <2> DEFINE T == {m \in 1..Len(seqs) : flat[m] \in Seq(S)}
  <2>3. \A i \in 1..Len(seqs) : seqs[i] \in Seq(S)
    BY ElementOfSeq
  <2>4. 1 \in T
    BY <2>1, <2>2, <2>3
  <2>5. ASSUME NEW m \in T, m < Len(seqs) PROVE m + 1 \in T
    <3>1. m \in 1..(Len(seqs) - 1) /\ m + 1 \in 1..Len(seqs)
      BY <2>1, <2>5
    <3>2. flat[m + 1] = flat[m] \o seqs[m + 1]
      BY <2>2, <3>1
    <3>3. flat[m] \in Seq(S) /\ seqs[m + 1] \in Seq(S)
      BY <2>3, <3>1
    <3>4. flat[m] \o seqs[m + 1] \in Seq(S)
      BY <3>3, ConcatProperties
    <3> QED
      BY <3>1, <3>2, <3>4
  <2>6. \A m \in 1..Len(seqs) : m \in T
    <3> HIDE DEF T
    <3> QED
      BY <2>1, <2>4, <2>5, IndexInduction
  <2>7. Len(seqs) \in T
    BY <2>1, <2>6
  <2> QED
    BY <2>2, <2>7
<1> QED
  BY <1>1, <1>2

(* The first sequence apart from the others.                               *)
LEMMA FlattenFirst ==
    ASSUME NEW S, NEW first \in Seq(S), NEW seqs \in Seq(Seq(S)), NEW all,
           Len(all) = Len(seqs) + 1, all[1] = first,
           \A i \in 1..Len(seqs) : all[i + 1] = seqs[i]
    PROVE  FlattenSeq(all) = first \o FlattenSeq(seqs)
<1>0. Associates(S)
  BY Associative
<1> DEFINE n == Len(seqs)
<1>1. n \in Nat /\ Len(all) \in Nat \ {0} /\ \A i \in 1..n : seqs[i] \in Seq(S)
  BY LenProperties, ElementOfSeq
<1>2. PICK flat : /\ flat[1] = all[1]
                  /\ \A i \in 1..(Len(all) - 1) : flat[i + 1] = flat[i] \o all[i + 1]
                  /\ FlattenSeq(all) = flat[Len(all)]
  BY <1>1, FlattenUnfolds
<1>3. CASE n = 0
  <2>1. seqs = << >> /\ FlattenSeq(seqs) = seqs
    BY <1>3, EmptySeq DEF FlattenSeq
  <2>2. FlattenSeq(all) = first
    BY <1>2, <1>3
  <2> QED
    BY <2>1, <2>2, ConcatEmptySeq
<1>4. CASE n # 0
  <2>1. PICK rest : /\ rest[1] = seqs[1]
                    /\ \A i \in 1..(n - 1) : rest[i + 1] = rest[i] \o seqs[i + 1]
                    /\ FlattenSeq(seqs) = rest[n]
    BY <1>1, <1>4, FlattenUnfolds
  <2> DEFINE T == {m \in 1..n : rest[m] \in Seq(S) /\ flat[m + 1] = first \o rest[m]}
  <2>2. 1 \in T
    <3>1. 1 \in 1..n /\ 1 \in 1..(Len(all) - 1) /\ all[1 + 1] = seqs[1] /\ rest[1] \in Seq(S)
      BY <1>1, <1>4, <2>1
    <3>2. flat[1 + 1] = flat[1] \o all[1 + 1]
      BY <1>2, <3>1
    <3> QED
      BY <1>2, <2>1, <3>1, <3>2
  <2>3. ASSUME NEW m \in T, m < n PROVE m + 1 \in T
    <3>1. m \in 1..(n - 1) /\ m + 1 \in 1..n /\ m + 1 \in 1..(Len(all) - 1)
      BY <1>1, <2>3
    <3>2. rest[m + 1] = rest[m] \o seqs[m + 1]
      BY <2>1, <3>1
    <3>3. flat[(m + 1) + 1] = flat[m + 1] \o all[(m + 1) + 1]
      BY <1>2, <3>1
    <3>4. all[(m + 1) + 1] = seqs[m + 1] /\ seqs[m + 1] \in Seq(S) /\ rest[m] \in Seq(S)
          /\ flat[m + 1] = first \o rest[m]
      BY <1>1, <3>1
    <3>5. rest[m + 1] \in Seq(S)
      BY <3>2, <3>4, ConcatProperties
    <3>6. rest[m] \in Seq(S) /\ seqs[m + 1] \in Seq(S)
      BY <3>4
    <3>7. (first \o rest[m]) \o seqs[m + 1] = first \o (rest[m] \o seqs[m + 1])
      BY <1>0, <3>6 DEF Associates
    <3> QED
      BY <3>1, <3>2, <3>3, <3>4, <3>5, <3>7
  <2>4. \A m \in 1..n : m \in T
    <3> HIDE DEF T, n
    <3> QED
      BY <1>1, <2>2, <2>3, IndexInduction
  <2>5. n \in T
    BY <1>1, <1>4, <2>4
  <2> QED
    BY <1>2, <2>1, <2>5
<1> QED
  BY <1>3, <1>4

(* Sequences that begin with empty ones.                                   *)
LEMMA FlattenEmpty ==
    ASSUME NEW n \in Nat, NEW seqs, Len(seqs) = n, n > 0 \/ seqs = << >>,
           \A i \in 1..n : seqs[i] = << >>
    PROVE  FlattenSeq(seqs) = << >>
<1>1. CASE n = 0
  BY <1>1 DEF FlattenSeq
<1>2. CASE n # 0
  <2>1. PICK flat : /\ flat[1] = seqs[1]
                    /\ \A i \in 1..(n - 1) : flat[i + 1] = flat[i] \o seqs[i + 1]
                    /\ FlattenSeq(seqs) = flat[n]
    BY <1>2, FlattenUnfolds
  <2> DEFINE T == {m \in 1..n : flat[m] = << >>}
  <2>2. 1 \in T
    BY <1>2, <2>1
  <2>3. ASSUME NEW m \in T, m < n PROVE m + 1 \in T
    <3>1. m \in 1..(n - 1) /\ m + 1 \in 1..n /\ flat[m] = << >> /\ seqs[m + 1] = << >>
      BY <2>3
    <3>2. flat[m + 1] = flat[m] \o seqs[m + 1]
      BY <2>1, <3>1
    <3>3. << >> \in Seq({})
      BY EmptySeq
    <3>4. << >> \o << >> = << >>
      BY <3>3, ConcatEmptySeq
    <3> QED
      BY <3>1, <3>2, <3>4
  <2>4. \A m \in 1..n : m \in T
    <3> HIDE DEF T
    <3> QED
      BY <1>2, <2>2, <2>3, IndexInduction
  <2> QED
    BY <1>2, <2>1, <2>4
<1> QED
  BY <1>1, <1>2

(* Of all and seqs, k is the first place that is not empty, and all has    *)
(* first in front there.                                                   *)
Leads(first, k, all, seqs) ==
    /\ all[k] = first \o seqs[k]
    /\ \A i \in 1..Len(seqs) :
          /\ i < k => all[i] = << >> /\ seqs[i] = << >>
          /\ i > k => all[i] = seqs[i]

LEMMA FlattenHead ==
    ASSUME NEW S, NEW all \in Seq(Seq(S)), NEW seqs \in Seq(Seq(S)), Len(all) = Len(seqs),
           NEW first \in Seq(S), NEW k \in 1..Len(seqs), Leads(first, k, all, seqs)
    PROVE  FlattenSeq(all) = first \o FlattenSeq(seqs)
<1>0. Associates(S)
  BY Associative
<1> DEFINE n == Len(seqs)
<1>1. n \in Nat \ {0} /\ k \in Nat \ {0} /\ k <= n
      /\ \A i \in 1..n : seqs[i] \in Seq(S) /\ all[i] \in Seq(S)
  BY LenProperties, ElementOfSeq
<1>2. PICK flat : /\ flat[1] = all[1]
                  /\ \A i \in 1..(n - 1) : flat[i + 1] = flat[i] \o all[i + 1]
                  /\ FlattenSeq(all) = flat[n]
  BY <1>1, FlattenUnfolds
<1>3. PICK rest : /\ rest[1] = seqs[1]
                  /\ \A i \in 1..(n - 1) : rest[i + 1] = rest[i] \o seqs[i + 1]
                  /\ FlattenSeq(seqs) = rest[n]
  BY <1>1, FlattenUnfolds
<1> DEFINE Early(m) == rest[m] = << >> /\ flat[m] = << >>
           Late(m) == rest[m] \in Seq(S) /\ flat[m] = first \o rest[m]
           T == {m \in 1..n : (m < k => Early(m)) /\ (m >= k => Late(m))}
<1>4. 1 \in T
  <2>1. 1 \in 1..n
    BY <1>1
  <2>2. CASE 1 < k
    <3>1. all[1] = << >> /\ seqs[1] = << >>
      BY <2>1, <2>2 DEF Leads
    <3>2. Early(1)
      BY <1>2, <1>3, <3>1
    <3> QED
      BY <1>1, <2>1, <2>2, <3>2
  <2>3. CASE k = 1
    <3>1. all[1] = first \o seqs[1]
      BY <2>3 DEF Leads
    <3>2. Late(1)
      BY <1>1, <1>2, <1>3, <2>1, <3>1
    <3> QED
      BY <2>1, <2>3, <3>2
  <2> QED
    BY <1>1, <2>2, <2>3
<1>5. ASSUME NEW m \in T, m < n PROVE m + 1 \in T
  <2>1. m \in Nat /\ m \in 1..(n - 1) /\ m + 1 \in 1..n
    BY <1>1, <1>5
  <2>2. (m < k => Early(m)) /\ (m >= k => Late(m))
    OBVIOUS
  <2> HIDE DEF Early, Late
  <2>3. rest[m + 1] = rest[m] \o seqs[m + 1] /\ flat[m + 1] = flat[m] \o all[m + 1]
    BY <1>2, <1>3, <2>1
  <2>4. seqs[m + 1] \in Seq(S) /\ all[m + 1] \in Seq(S)
    BY <1>1, <2>1
  <2>5. << >> \o seqs[m + 1] = seqs[m + 1] /\ << >> \o all[m + 1] = all[m + 1]
    BY <2>4, ConcatEmptySeq
  <2>6. CASE m + 1 < k
    <3>1. Early(m)
      BY <1>1, <2>1, <2>2, <2>6
    <3>2. seqs[m + 1] = << >> /\ all[m + 1] = << >>
      BY <2>1, <2>6 DEF Leads
    <3>3. Early(m + 1)
      BY <2>3, <2>5, <3>1, <3>2 DEF Early
    <3> QED
      BY <1>1, <2>1, <2>6, <3>3
  <2>7. CASE m + 1 = k
    <3>1. Early(m)
      BY <1>1, <2>1, <2>2, <2>7
    <3>2. all[m + 1] = first \o seqs[m + 1]
      BY <2>7 DEF Leads
    <3>3. Late(m + 1)
      BY <2>3, <2>4, <2>5, <3>1, <3>2 DEF Early, Late
    <3> QED
      BY <1>1, <2>1, <2>7, <3>3
  <2>8. CASE m + 1 > k
    <3>1. Late(m)
      BY <1>1, <2>1, <2>2, <2>8
    <3>2. all[m + 1] = seqs[m + 1]
      BY <2>1, <2>8 DEF Leads
    <3>3. rest[m + 1] \in Seq(S)
      BY <2>3, <2>4, <3>1, ConcatProperties DEF Late
    <3>4. (first \o rest[m]) \o seqs[m + 1] = first \o (rest[m] \o seqs[m + 1])
      BY <1>0, <2>4, <3>1 DEF Late, Associates
    <3>5. Late(m + 1)
      BY <2>3, <3>1, <3>2, <3>3, <3>4 DEF Late
    <3> QED
      BY <1>1, <2>1, <2>8, <3>5
  <2> QED
    BY <1>1, <2>1, <2>6, <2>7, <2>8
<1>6. \A m \in 1..n : m \in T
  <2> HIDE DEF T, n
  <2> QED
    BY <1>1, <1>4, <1>5, IndexInduction
<1>7. n \in T /\ n >= k
  <2> HIDE DEF T
  <2> QED
    BY <1>1, <1>6
<1>8. Late(n)
  BY <1>7
<1> QED
  BY <1>2, <1>3, <1>8

(***************************************************************************)
(* What comes of a sequence taken in element by element.                   *)
(***************************************************************************)
IsStep(step, T, W) == step \in [T \X W -> T]
IsFold(f, T, step, base, n, s) ==
    /\ f \in [0..n -> T] /\ f[0] = base
    /\ \A i \in 1..n : f[i] = step[<<f[i - 1], s[i]>>]

LEMMA FoldExists ==
    ASSUME NEW T, NEW W, NEW step, IsStep(step, T, W), NEW base \in T, NEW n \in Nat,
           NEW s \in [1..n -> W]
    PROVE  \E f : IsFold(f, T, step, base, n, s)
<1> USE DEF IsStep
<1> DEFINE Right(f, m) == /\ f \in [0..m -> T] /\ f[0] = base
                          /\ \A i \in 1..m : f[i] = step[<<f[i - 1], s[i]>>]
           S == {m \in Nat : m <= n => \E f : Right(f, m)}
<1>1. 0 \in S
  <2>1. Right([i \in 0..0 |-> base], 0)
    OBVIOUS
  <2> QED
    BY <2>1
<1>2. ASSUME NEW m \in S PROVE m + 1 \in S
  <2>1. m \in Nat /\ m + 1 \in Nat
    OBVIOUS
  <2>2. SUFFICES ASSUME m + 1 <= n PROVE \E f : Right(f, m + 1)
    BY <2>1
  <2>3. PICK f : Right(f, m)
    BY <2>1, <2>2
  <2> DEFINE g == [i \in 0..(m + 1) |-> IF i = m + 1 THEN step[<<f[m], s[m + 1]>>] ELSE f[i]]
  <2>4. f[m] \in T /\ s[m + 1] \in W
    BY <2>1, <2>2, <2>3
  <2>5. step[<<f[m], s[m + 1]>>] \in T
    BY <2>4
  <2>6. g \in [0..(m + 1) -> T]
    <3>1. \A i \in 0..(m + 1) : i # m + 1 => i \in 0..m
      BY <2>1
    <3> QED
      BY <2>3, <2>5, <3>1
  <2>7. g[0] = base
    BY <2>1, <2>3
  <2>8. ASSUME NEW i \in 1..(m + 1) PROVE g[i] = step[<<g[i - 1], s[i]>>]
    <3>1. i - 1 \in 0..(m + 1) /\ i - 1 # m + 1 /\ i \in 0..(m + 1)
      BY <2>1
    <3>2. g[i - 1] = f[i - 1]
      BY <3>1
    <3>3. CASE i = m + 1
      BY <2>1, <3>1, <3>2, <3>3
    <3>4. CASE i # m + 1
      <4>1. i \in 1..m
        BY <2>1, <3>4
      <4> QED
        BY <2>3, <3>1, <3>2, <3>4, <4>1
    <3> QED
      BY <3>3, <3>4
  <2>9. Right(g, m + 1)
    <3> HIDE DEF g
    <3> QED
      BY <2>6, <2>7, <2>8
  <2> HIDE DEF g, Right
  <2> QED
    BY <2>9
<1>3. \A m \in Nat : m \in S
  <2> HIDE DEF S
  <2>1. S \in SUBSET Nat
    BY DEF S
  <2> QED
    BY <1>1, <1>2, <2>1, SetInduction
<1>4. PICK f : Right(f, n)
  BY <1>3
<1> QED
  BY <1>4 DEF IsFold

(* The last sequence apart from the others.                                *)
LEMMA FlattenLast ==
    ASSUME NEW S, NEW seqs \in Seq(Seq(S)), NEW last \in Seq(S), NEW all,
           Len(all) = Len(seqs) + 1, all[Len(all)] = last,
           \A i \in 1..Len(seqs) : all[i] = seqs[i]
    PROVE  FlattenSeq(all) = FlattenSeq(seqs) \o last
<1> DEFINE n == Len(seqs)
<1>1. n \in Nat /\ Len(all) \in Nat \ {0}
  BY LenProperties
<1>2. PICK flat : /\ flat[1] = all[1]
                  /\ \A i \in 1..(Len(all) - 1) : flat[i + 1] = flat[i] \o all[i + 1]
                  /\ FlattenSeq(all) = flat[Len(all)]
  BY <1>1, FlattenUnfolds
<1>3. CASE n = 0
  <2>1. seqs = << >> /\ FlattenSeq(seqs) = seqs
    BY <1>3, EmptySeq DEF FlattenSeq
  <2>2. FlattenSeq(all) = last
    BY <1>2, <1>3
  <2> QED
    BY <2>1, <2>2, ConcatEmptySeq
<1>4. CASE n # 0
  <2>1. PICK rest : /\ rest[1] = seqs[1]
                    /\ \A i \in 1..(n - 1) : rest[i + 1] = rest[i] \o seqs[i + 1]
                    /\ FlattenSeq(seqs) = rest[n]
    BY <1>1, <1>4, FlattenUnfolds
  <2> DEFINE T == {m \in 1..n : flat[m] = rest[m]}
  <2>2. 1 \in T
    BY <1>1, <1>2, <1>4, <2>1
  <2>3. ASSUME NEW m \in T, m < n PROVE m + 1 \in T
    <3>1. m \in 1..(n - 1) /\ m + 1 \in 1..n /\ m \in 1..(Len(all) - 1)
      BY <1>1, <2>3
    <3>2. rest[m + 1] = rest[m] \o seqs[m + 1] /\ flat[m + 1] = flat[m] \o all[m + 1]
      BY <1>2, <2>1, <3>1
    <3> QED
      BY <3>1, <3>2
  <2>4. \A m \in 1..n : m \in T
    <3> HIDE DEF T, n
    <3> QED
      BY <1>1, <2>2, <2>3, IndexInduction
  <2>5. n \in T /\ n \in 1..(Len(all) - 1) /\ n + 1 = Len(all)
    BY <1>1, <1>4, <2>4
  <2>6. flat[n + 1] = flat[n] \o all[n + 1]
    BY <1>2, <2>5
  <2> QED
    BY <1>2, <2>1, <2>5, <2>6
<1> QED
  BY <1>3, <1>4
===============================================================================
