-------------------------- MODULE Deobfuscator_proofs --------------------------
(***************************************************************************)
(* For any nodes met in any order, any names and any texts: the groups of  *)
(* common_hexadecimal_prefix, whatever the order names are taken in; the   *)
(* counters, as those of the nodes met; and the grounds of every verdict   *)
(* and warning drawn from them.                                            *)
(***************************************************************************)
EXTENDS VerdictMeaning, SequenceLemmas

(***************************************************************************)
(* The longest beginning that words share.                                 *)
(***************************************************************************)
Word == Seq(Nat) \ {<< >>}

Starts(s, t) == Len(s) <= Len(t) /\ \A i \in 1..Len(s) : s[i] = t[i]
IsLongest(L, A) ==
    /\ L \in Seq(Nat) /\ \A t \in A : Starts(L, t)
    /\ \A p \in Seq(Nat) : (\A t \in A : Starts(p, t)) => Len(p) <= Len(L)

LEMMA WordFacts ==
    ASSUME NEW w \in Word
    PROVE  w \in Seq(Nat) /\ Len(w) \in Nat \ {0} /\ w[1] \in Nat
BY DEF Word

LEMMA PrefixIs ==
    ASSUME NEW s \in Seq(Nat), NEW t \in Seq(Nat)
    PROVE  IsPrefix(s, t) <=> Starts(s, t)
<1>1. Len(s) \in Nat /\ Len(t) \in Nat
  OBVIOUS
<1>2. SubSeq(s, 1, Len(s)) = [i \in 1..Len(s) |-> s[i]]
  OBVIOUS
<1>3. ASSUME Len(s) <= Len(t) PROVE SubSeq(t, 1, Len(s)) = [i \in 1..Len(s) |-> t[i]]
  BY <1>1, <1>3
<1>4. ASSUME Len(s) <= Len(t), \A i \in 1..Len(s) : s[i] = t[i]
      PROVE  [i \in 1..Len(s) |-> s[i]] = [i \in 1..Len(s) |-> t[i]]
  BY <1>4
<1>5. ASSUME [i \in 1..Len(s) |-> s[i]] = [i \in 1..Len(s) |-> t[i]], NEW i \in 1..Len(s)
      PROVE  s[i] = t[i]
  <2>1. [j \in 1..Len(s) |-> s[j]][i] = [j \in 1..Len(s) |-> t[j]][i]
    BY <1>5
  <2> QED
    BY <2>1
<1> QED
  BY <1>2, <1>3, <1>4, <1>5 DEF IsPrefix, Starts

LEMMA CommonIs ==
    ASSUME NEW A \in SUBSET Seq(Nat), A # {}, NEW p
    PROVE  p \in CommonPrefixes(A) <=> p \in Seq(Nat) /\ \A t \in A : Starts(p, t)
<1>1. ASSUME p \in CommonPrefixes(A) PROVE p \in Seq(Nat) /\ \A t \in A : Starts(p, t)
  <2>1. PICK s \in A : p \in Prefixes(s)
    BY <1>1 DEF CommonPrefixes
  <2>2. PICK l \in 0..Len(s) : p = SubSeq(s, 1, l)
    BY <2>1 DEF Prefixes
  <2>3. s \in Seq(Nat)
    OBVIOUS
  <2>4. p \in Seq(Nat)
    BY <2>2, <2>3
  <2>5. \A t \in A : IsPrefix(p, t)
    BY <1>1 DEF CommonPrefixes
  <2> QED
    BY <2>4, <2>5, PrefixIs
<1>2. ASSUME p \in Seq(Nat), \A t \in A : Starts(p, t) PROVE p \in CommonPrefixes(A)
  <2>1. PICK s \in A : TRUE
    OBVIOUS
  <2>2. s \in Seq(Nat) /\ Starts(p, s) /\ Len(p) \in Nat /\ Len(s) \in Nat
    BY <1>2
  <2>3. Len(p) \in 0..Len(s)
    BY <2>2 DEF Starts
  <2>4. p = SubSeq(p, 1, Len(p))
    BY <1>2
  <2>5. SubSeq(p, 1, Len(p)) = SubSeq(s, 1, Len(p))
    BY <1>2, <2>2, PrefixIs DEF IsPrefix
  <2>6. p \in Prefixes(s)
    BY <2>3, <2>4, <2>5 DEF Prefixes
  <2>7. \A t \in A : IsPrefix(p, t)
    BY <1>2, PrefixIs
  <2> QED
    BY <2>6, <2>7 DEF CommonPrefixes
<1> QED
  BY <1>1, <1>2

LEMMA MaximumExists ==
    ASSUME NEW N \in SUBSET Nat, 0 \in N, NEW b \in Nat, \A k \in N : k <= b
    PROVE  \E m \in N : \A k \in N : k <= m
<1> SUFFICES ASSUME \A m \in N : \E k \in N : ~(k <= m) PROVE FALSE
  OBVIOUS
<1> DEFINE S == {n \in Nat : \E k \in N : k >= n}
<1>1. S \in SUBSET Nat /\ 0 \in S
  OBVIOUS
<1>2. ASSUME NEW n \in S PROVE n + 1 \in S
  <2>1. PICK k \in N : k >= n
    OBVIOUS
  <2>2. PICK j \in N : ~(j <= k)
    OBVIOUS
  <2>3. j \in Nat /\ k \in Nat /\ n \in Nat /\ j >= n + 1
    BY <2>1, <2>2
  <2> QED
    BY <2>3
<1>3. \A n \in Nat : n \in S
  <2> HIDE DEF S
  <2> QED
    BY <1>1, <1>2, SetInduction
<1>4. b + 1 \in S
  <2> HIDE DEF S
  <2> QED
    BY <1>3
<1>5. PICK k \in N : k >= b + 1
  BY <1>4
<1> QED
  BY <1>5

LEMMA LongestExists ==
    ASSUME NEW A \in SUBSET Seq(Nat), A # {}
    PROVE  \E L : IsLongest(L, A)
<1> DEFINE C == {p \in Seq(Nat) : \A t \in A : Starts(p, t)}
           N == {Len(p) : p \in C}
<1>1. PICK s \in A : TRUE
  OBVIOUS
<1>2. s \in Seq(Nat) /\ Len(s) \in Nat
  OBVIOUS
<1>3. << >> \in C
  <2>1. \A t \in A : Len(t) \in Nat
    OBVIOUS
  <2> QED
    BY <2>1 DEF Starts
<1>4. N \in SUBSET Nat /\ 0 \in N
  <2>1. \A p \in C : Len(p) \in Nat
    OBVIOUS
  <2>2. Len(<< >>) = 0
    OBVIOUS
  <2> QED
    BY <1>3, <2>1, <2>2
<1>5. \A k \in N : k <= Len(s)
  BY DEF Starts
<1>6. PICK m \in N : \A k \in N : k <= m
  <2> HIDE DEF N, C
  <2> QED
    BY <1>2, <1>4, <1>5, MaximumExists
<1>7. PICK L \in C : m = Len(L)
  OBVIOUS
<1> QED
  BY <1>6, <1>7 DEF IsLongest

LEMMA SameStart ==
    ASSUME NEW p \in Seq(Nat), NEW q \in Seq(Nat), NEW t \in Seq(Nat),
           Starts(p, t), Starts(q, t), Len(p) <= Len(q)
    PROVE  Starts(p, q) /\ (Len(p) = Len(q) => p = q)
<1>1. Len(p) \in Nat /\ Len(q) \in Nat
  OBVIOUS
<1>2. ASSUME NEW i \in 1..Len(p) PROVE p[i] = q[i]
  BY <1>1 DEF Starts
<1>3. p = [i \in 1..Len(p) |-> p[i]] /\ q = [i \in 1..Len(q) |-> q[i]]
  OBVIOUS
<1> QED
  BY <1>2, <1>3 DEF Starts

LEMMA LongestIs ==
    ASSUME NEW A \in SUBSET Seq(Nat), A # {}, NEW L, IsLongest(L, A)
    PROVE  LongestCommonPrefix(A) = L
<1> DEFINE M == LongestCommonPrefix(A)
<1>1. \A p : p \in CommonPrefixes(A) <=> p \in Seq(Nat) /\ \A t \in A : Starts(p, t)
  BY CommonIs
<1>2. L \in CommonPrefixes(A) /\ \A other \in CommonPrefixes(A) : Len(other) <= Len(L)
  BY <1>1 DEF IsLongest
<1>3. M \in CommonPrefixes(A) /\ \A other \in CommonPrefixes(A) : Len(other) <= Len(M)
  BY <1>2 DEF LongestCommonPrefix
<1>4. PICK s \in A : TRUE
  OBVIOUS
<1>5. M \in Seq(Nat) /\ L \in Seq(Nat) /\ s \in Seq(Nat) /\ Starts(M, s) /\ Starts(L, s)
  BY <1>1, <1>2, <1>3, <1>4
<1>6. Len(M) = Len(L)
  <2> HIDE DEF M
  <2>1. Len(M) \in Nat /\ Len(L) \in Nat
    BY <1>5
  <2> QED
    BY <1>2, <1>3, <2>1
<1> HIDE DEF M
<1>7. Len(M) <= Len(L)
  BY <1>5, <1>6
<1> QED
  BY <1>5, <1>6, <1>7, SameStart DEF M

LEMMA LongestOfOne ==
    ASSUME NEW t \in Seq(Nat)
    PROVE  IsLongest(t, {t})
<1>1. Len(t) \in Nat
  OBVIOUS
<1> QED
  BY <1>1 DEF IsLongest, Starts

LEMMA StartsTransitive ==
    ASSUME NEW p \in Seq(Nat), NEW q \in Seq(Nat), NEW t \in Seq(Nat), Starts(p, q), Starts(q, t)
    PROVE  Starts(p, t)
<1>1. Len(p) \in Nat /\ Len(q) \in Nat /\ Len(t) \in Nat
  OBVIOUS
<1>2. ASSUME NEW i \in 1..Len(p) PROVE p[i] = t[i]
  BY <1>1 DEF Starts
<1> QED
  BY <1>1, <1>2 DEF Starts

(* What words share with one more is what their longest beginning does.    *)
LEMMA LongestJoins ==
    ASSUME NEW A \in SUBSET Seq(Nat), A # {}, NEW x \in Seq(Nat),
           NEW L, IsLongest(L, A), NEW M, IsLongest(M, {L, x})
    PROVE  IsLongest(M, A \cup {x})
<1>1. L \in Seq(Nat) /\ M \in Seq(Nat) /\ Starts(M, L) /\ Starts(M, x)
  BY DEF IsLongest
<1>2. ASSUME NEW t \in A PROVE Starts(M, t)
  <2>1. Starts(L, t) /\ t \in Seq(Nat)
    BY DEF IsLongest
  <2> QED
    BY <1>1, <2>1, StartsTransitive
<1>3. ASSUME NEW p \in Seq(Nat), \A t \in A \cup {x} : Starts(p, t) PROVE Len(p) <= Len(M)
  <2>1. Len(p) <= Len(L)
    BY <1>3 DEF IsLongest
  <2>2. PICK s \in A : TRUE
    OBVIOUS
  <2>3. s \in Seq(Nat) /\ Starts(p, s) /\ Starts(L, s)
    BY <1>3, <2>2 DEF IsLongest
  <2>4. Starts(p, L)
    BY <1>1, <2>1, <2>3, SameStart
  <2>5. \A t \in {L, x} : Starts(p, t)
    BY <1>3, <2>4
  <2> QED
    BY <2>5 DEF IsLongest
<1> QED
  BY <1>1, <1>2, <1>3 DEF IsLongest

LEMMA LongestBegins ==
    ASSUME NEW A \in SUBSET Word, A # {}, NEW c \in Nat, \A t \in A : t[1] = c,
           NEW L, IsLongest(L, A)
    PROVE  L \in Word /\ L[1] = c
<1>1. <<c>> \in Seq(Nat) /\ Len(<<c>>) = 1 /\ <<c>>[1] = c
  OBVIOUS
<1>2. ASSUME NEW t \in A PROVE Starts(<<c>>, t)
  <2>1. Len(t) \in Nat \ {0} /\ t[1] = c
    BY WordFacts
  <2> QED
    BY <1>1, <2>1 DEF Starts
<1>3. Len(L) >= 1 /\ L \in Seq(Nat)
  <2>1. Len(<<c>>) <= Len(L) /\ L \in Seq(Nat)
    BY <1>1, <1>2 DEF IsLongest
  <2> QED
    BY <1>1, <2>1
<1>4. PICK s \in A : TRUE
  OBVIOUS
<1>5. Starts(L, s) /\ s[1] = c
  BY DEF IsLongest
<1> QED
  BY <1>3, <1>5 DEF Starts, Word

(* Two words share a beginning exactly if they begin with the same.        *)
LEMMA SharedIs ==
    ASSUME NEW a \in Word, NEW b \in Word
    PROVE  IsLongest(Shared(a, b), {a, b}) /\ (Shared(a, b) # << >> <=> a[1] = b[1])
<1> DEFINE L == Shared(a, b)
<1>1. a \in Seq(Nat) /\ b \in Seq(Nat) /\ Len(a) \in Nat \ {0} /\ Len(b) \in Nat \ {0}
      /\ a[1] \in Nat
  BY WordFacts
<1>2. {a, b} \in SUBSET Seq(Nat) /\ {a, b} # {}
  BY <1>1
<1>3. IsLongest(L, {a, b})
  BY <1>2, LongestExists, LongestIs DEF Shared
<1> HIDE DEF L
<1>4. ASSUME a[1] = b[1] PROVE L # << >>
  <2>1. \A t \in {a, b} : t[1] = a[1]
    BY <1>4
  <2>2. {a, b} \in SUBSET Word /\ {a, b} # {}
    OBVIOUS
  <2>3. L \in Word
    BY <1>1, <1>3, <2>1, <2>2, LongestBegins
  <2> QED
    BY <2>3 DEF Word
<1>5. ASSUME L # << >> PROVE a[1] = b[1]
  <2>1. L \in Seq(Nat) /\ Starts(L, a) /\ Starts(L, b)
    BY <1>3 DEF IsLongest
  <2>2. Len(L) \in Nat \ {0}
    BY <1>5, <2>1
  <2> QED
    BY <2>1, <2>2 DEF Starts
<1> QED
  BY <1>3, <1>4, <1>5 DEF L

GroupType == [prefix : Word, count : Nat]

(***************************************************************************)
(* A group is right when it holds the words that begin like it does, and   *)
(* what they share.                                                        *)
(***************************************************************************)
AlikeIn(w, m, c) == {k \in 1..m : w[k][1] = c}
WordsIn(w, m, c) == {w[k] : k \in AlikeIn(w, m, c)}
GroupRight(g, w, m) ==
    /\ AlikeIn(w, m, g.prefix[1]) # {}
    /\ IsLongest(g.prefix, WordsIn(w, m, g.prefix[1]))
    /\ g.count = Cardinality(AlikeIn(w, m, g.prefix[1]))
GroupsRight(G, w, m) ==
    /\ G \in Seq(GroupType)
    /\ \A j \in 1..Len(G) : GroupRight(G[j], w, m)
    /\ \A j, k \in 1..Len(G) : G[j].prefix[1] = G[k].prefix[1] => j = k
    /\ \A k \in 1..m : \E j \in 1..Len(G) : G[j].prefix[1] = w[k][1]

(* Joining opens a group or puts another one in the place of the one joined, *)
(* wherever it then stands.                                                  *)
JoinsOne(G, name, H) ==
    /\ \A j \in 1..Len(G) : G[j].prefix[1] # name[1]
    /\ H = Append(G, [prefix |-> name, count |-> 1])
Moved(p, n) ==
    /\ p \in [1..n -> 1..n] /\ \A j, k \in 1..n : p[j] = p[k] => j = k
    /\ \A k \in 1..n : \E j \in 1..n : p[j] = k
Replaces(G, i, g, H, p) ==
    /\ H \in Seq(GroupType) /\ Len(H) = Len(G) /\ Moved(p, Len(G))
    /\ \A j \in 1..Len(G) : H[j] = IF p[j] = i THEN g ELSE G[p[j]]
Grown(g, name) == [prefix |-> Shared(g.prefix, name), count |-> g.count + 1]

LEMMA GroupFacts ==
    ASSUME NEW G \in Seq(GroupType), NEW name \in Word, NEW j \in 1..Len(G)
    PROVE  /\ G[j] \in GroupType /\ G[j].prefix \in Word /\ G[j].count \in Nat
           /\ IsLongest(Shared(G[j].prefix, name), {G[j].prefix, name})
           /\ Shared(G[j].prefix, name) # << >> <=> G[j].prefix[1] = name[1]
<1>1. G[j] \in GroupType
  OBVIOUS
<1>2. G[j].prefix \in Word /\ G[j].count \in Nat
  BY <1>1 DEF GroupType
<1> QED
  BY <1>1, <1>2, SharedIs

LEMMA GrownIs ==
    ASSUME NEW G \in Seq(GroupType), NEW name \in Word, NEW i \in 1..Len(G),
           G[i].prefix[1] = name[1]
    PROVE  Grown(G[i], name) \in GroupType /\ Grown(G[i], name).prefix[1] = name[1]
<1>1. /\ G[i].prefix \in Word /\ G[i].count \in Nat
      /\ IsLongest(Shared(G[i].prefix, name), {G[i].prefix, name})
  BY GroupFacts
<1>2. name[1] \in Nat /\ {G[i].prefix, name} \in SUBSET Word /\ {G[i].prefix, name} # {}
  BY <1>1, WordFacts
<1>3. \A t \in {G[i].prefix, name} : t[1] = name[1]
  OBVIOUS
<1>4. Shared(G[i].prefix, name) \in Word /\ Shared(G[i].prefix, name)[1] = name[1]
  <2> DEFINE A == {G[i].prefix, name}
             L == Shared(G[i].prefix, name)
  <2>1. /\ A \in SUBSET Word /\ A # {} /\ name[1] \in Nat /\ IsLongest(L, A)
        /\ \A t \in A : t[1] = name[1]
    BY <1>1, <1>2, <1>3
  <2> HIDE DEF A, L
  <2>2. L \in Word /\ L[1] = name[1]
    BY <2>1, LongestBegins
  <2> QED
    BY <2>2 DEF L
<1> QED
  BY <1>1, <1>4 DEF Grown, GroupType

LEMMA MovesLast ==
    ASSUME NEW n \in Nat, NEW i \in 1..n
    PROVE  Moved([j \in 1..n |-> IF j < i THEN j ELSE IF j < n THEN j + 1 ELSE i], n)
<1> DEFINE p == [j \in 1..n |-> IF j < i THEN j ELSE IF j < n THEN j + 1 ELSE i]
<1>1. p \in [1..n -> 1..n]
  OBVIOUS
<1>2. \A j, k \in 1..n : p[j] = p[k] => j = k
  OBVIOUS
<1>3. ASSUME NEW k \in 1..n PROVE \E j \in 1..n : p[j] = k
  <2>1. CASE k < i
    BY <2>1
  <2>2. CASE k = i
    <3>1. n \in 1..n /\ p[n] = k
      BY <2>2
    <3> QED
      BY <3>1
  <2>3. CASE k > i
    <3>1. k - 1 \in 1..n /\ p[k - 1] = k
      BY <2>3
    <3> QED
      BY <3>1
  <2> QED
    BY <2>1, <2>2, <2>3
<1> QED
  BY <1>1, <1>2, <1>3 DEF Moved

(* Removing and inserting at a place.                                      *)
LEMMA RemoveAtIs ==
    ASSUME NEW T, NEW s \in Seq(T), NEW i \in 1..Len(s)
    PROVE  /\ RemoveAt(s, i) \in Seq(T) /\ Len(RemoveAt(s, i)) = Len(s) - 1
           /\ \A j \in 1..(Len(s) - 1) : RemoveAt(s, i)[j] = IF j < i THEN s[j] ELSE s[j + 1]
<1> DEFINE n == Len(s)
           A == SubSeq(s, 1, i - 1)
           B == SubSeq(s, i + 1, n)
<1>1. n \in Nat
  OBVIOUS
<1>2. A \in Seq(T) /\ Len(A) = i - 1 /\ \A j \in 1..(i - 1) : A[j] = s[j]
  BY <1>1
<1>3. B \in Seq(T) /\ Len(B) = n - i /\ \A j \in 1..(n - i) : B[j] = s[i + j]
  BY <1>1
<1>4. RemoveAt(s, i) = A \o B
  BY DEF RemoveAt
<1> HIDE DEF A, B
<1>5. A \o B \in Seq(T) /\ Len(A \o B) = n - 1
  <2>1. A \o B \in Seq(T) /\ Len(A \o B) = Len(A) + Len(B)
    BY <1>2, <1>3, ConcatProperties
  <2> QED
    BY <1>1, <1>2, <1>3, <2>1
<1>6. ASSUME NEW j \in 1..(n - 1) PROVE (A \o B)[j] = IF j < i THEN s[j] ELSE s[j + 1]
  <2>1. CASE j < i
    <3>1. j \in 1..(i - 1) /\ j \in 1..Len(A)
      BY <1>1, <1>2, <2>1
    <3>2. (A \o B)[j] = A[j]
      BY <1>1, <1>2, <1>3, <3>1
    <3> QED
      BY <1>2, <2>1, <3>1, <3>2
  <2>2. CASE ~(j < i)
    <3>1. j - (i - 1) \in 1..(n - i) /\ j - Len(A) = j - (i - 1) /\ Len(A) < j
      BY <1>1, <1>2, <2>2
    <3>2. (A \o B)[j] = B[j - Len(A)]
      BY <1>1, <1>2, <1>3, <3>1
    <3>3. i + (j - (i - 1)) = j + 1
      BY <1>1
    <3>4. B[j - (i - 1)] = s[i + (j - (i - 1))]
      BY <1>3, <3>1
    <3>5. (A \o B)[j] = s[j + 1]
      BY <3>1, <3>2, <3>3, <3>4
    <3> QED
      BY <2>2, <3>5
  <2> QED
    BY <2>1, <2>2
<1> QED
  BY <1>4, <1>5, <1>6

LEMMA JoinedIs ==
    ASSUME NEW G \in Seq(GroupType), NEW name \in Word,
           \A j, k \in 1..Len(G) : G[j].prefix[1] = G[k].prefix[1] => j = k
    PROVE  \/ JoinsOne(G, name, Joined(G, name))
           \/ \E i \in 1..Len(G) : \E p :
                 /\ G[i].prefix[1] = name[1]
                 /\ Replaces(G, i, Grown(G[i], name), Joined(G, name), p)
<1> DEFINE n == Len(G)
           Test(g) == Shared(g.prefix, name) # << >>
           I == {j \in 1..n : Test(G[j])}
<1>1. n \in Nat
  OBVIOUS
<1>2. \A j \in 1..n : Test(G[j]) <=> G[j].prefix[1] = name[1]
  BY GroupFacts
<1>3. CASE \A j \in 1..n : G[j].prefix[1] # name[1]
  <2>1. I = {}
    BY <1>2, <1>3
  <2>2. SelectInSeq(G, LAMBDA g : Shared(g.prefix, name) # << >>) = 0
    BY <2>1 DEF SelectInSeq
  <2>3. Joined(G, name) = Append(G, [prefix |-> name, count |-> 1])
    BY <2>2 DEF Joined
  <2> QED
    BY <1>3, <2>3 DEF JoinsOne
<1>4. CASE \E i \in 1..n : G[i].prefix[1] = name[1]
  <2>1. PICK i \in 1..n : G[i].prefix[1] = name[1]
    BY <1>4
  <2> DEFINE g == Grown(G[i], name)
             shared == Shared(G[i].prefix, name)
  <2>2. I = {i}
    BY <1>2, <2>1
  <2>3. Min({i}) = i
    BY DEF Min
  <2>4. SelectInSeq(G, LAMBDA x : Shared(x.prefix, name) # << >>) = i
    BY <2>2, <2>3 DEF SelectInSeq
  <2>5. /\ shared = G[i].prefix => Joined(G, name) = [G EXCEPT ![i].count = @ + 1]
        /\ shared # G[i].prefix => Joined(G, name) = Append(RemoveAt(G, i), g)
    <3>1. i # 0
      BY <1>1
    <3> QED
      BY <2>4, <3>1, Zenon DEF Joined, Grown
  <2>6. G[i] \in GroupType /\ g \in GroupType
    BY <2>1, GroupFacts, GrownIs
  <2>7. CASE shared = G[i].prefix
    <3> DEFINE H == [G EXCEPT ![i].count = @ + 1]
    <3>1. g = [G[i] EXCEPT !.count = @ + 1]
      BY <2>6, <2>7 DEF Grown, GroupType
    <3>2. H = [G EXCEPT ![i] = g]
      BY <3>1
    <3>3. H \in Seq(GroupType) /\ Len(H) = n
      BY <2>6, <3>2
    <3>4. \A j \in 1..n : H[j] = IF j = i THEN g ELSE G[j]
      BY <3>2
    <3> DEFINE p == [j \in 1..n |-> j]
    <3>5. Moved(p, n)
      BY <1>1 DEF Moved
    <3>6. \A j \in 1..n : H[j] = IF p[j] = i THEN g ELSE G[p[j]]
      BY <3>4
    <3>7. Replaces(G, i, g, H, p)
      <4> HIDE DEF H, p, g
      <4> QED
        BY <3>3, <3>5, <3>6 DEF Replaces
    <3>8. Joined(G, name) = H
      BY <2>5, <2>7
    <3> QED
      BY <2>1, <3>7, <3>8
  <2>8. CASE shared # G[i].prefix
    <3> DEFINE H == Append(RemoveAt(G, i), g)
               p == [j \in 1..n |-> IF j < i THEN j ELSE IF j < n THEN j + 1 ELSE i]
    <3>1. RemoveAt(G, i) \in Seq(GroupType) /\ Len(RemoveAt(G, i)) = n - 1
      BY RemoveAtIs
    <3>2. \A j \in 1..(n - 1) : RemoveAt(G, i)[j] = IF j < i THEN G[j] ELSE G[j + 1]
      BY RemoveAtIs
    <3>3. H \in Seq(GroupType) /\ Len(H) = n
      BY <1>1, <2>6, <3>1
    <3>4. \A j \in 1..(n - 1) : H[j] = RemoveAt(G, i)[j]
      BY <1>1, <3>1
    <3>5. H[n] = g
      BY <1>1, <3>1
    <3>6. Moved(p, n)
      BY <1>1, MovesLast
    <3>7. ASSUME NEW j \in 1..n PROVE H[j] = IF p[j] = i THEN g ELSE G[p[j]]
      <4> HIDE DEF H
      <4>1. CASE j = n
        BY <1>1, <3>5, <4>1
      <4>2. CASE j # n
        <5>1. j \in 1..(n - 1)
          BY <1>1, <4>2
        <5>2. H[j] = IF j < i THEN G[j] ELSE G[j + 1]
          BY <3>2, <3>4, <5>1
        <5> QED
          BY <5>1, <5>2
      <4> QED
        BY <4>1, <4>2
    <3>8. Replaces(G, i, g, H, p)
      <4> HIDE DEF H, p, g
      <4> QED
        BY <3>3, <3>6, <3>7 DEF Replaces
    <3>9. Joined(G, name) = H
      BY <2>5, <2>8
    <3> QED
      BY <2>1, <3>8, <3>9
  <2> QED
    BY <2>7, <2>8
<1> QED
  BY <1>3, <1>4

(***************************************************************************)
(* One word more: a group takes it in, or it opens one, and all stay right. *)
(***************************************************************************)
LEMMA AlikeGrows ==
    ASSUME NEW w \in Seq(Word), NEW m \in Nat, m + 1 <= Len(w), NEW c
    PROVE  /\ AlikeIn(w, m, c) \in SUBSET (1..m) /\ IsFiniteSet(AlikeIn(w, m, c))
           /\ Cardinality(AlikeIn(w, m, c)) \in Nat
           /\ WordsIn(w, m, c) \in SUBSET Word
           /\ c # w[m + 1][1] => AlikeIn(w, m + 1, c) = AlikeIn(w, m, c)
                                 /\ WordsIn(w, m + 1, c) = WordsIn(w, m, c)
           /\ c = w[m + 1][1] =>
                 /\ Cardinality(AlikeIn(w, m + 1, c)) = Cardinality(AlikeIn(w, m, c)) + 1
                 /\ WordsIn(w, m + 1, c) = WordsIn(w, m, c) \cup {w[m + 1]}
                 /\ m + 1 \in AlikeIn(w, m + 1, c)
<1> DEFINE A == AlikeIn(w, m, c)
           B == AlikeIn(w, m + 1, c)
<1>1. A \in SUBSET (1..m) /\ IsFiniteSet(A) /\ Cardinality(A) \in Nat
  <2>1. A \in SUBSET (1..m)
    BY DEF AlikeIn
  <2>2. IsFiniteSet(1..m)
    BY FS_Interval
  <2> HIDE DEF A
  <2> QED
    BY <2>1, <2>2, FS_Subset, FS_CardinalityType
<1>2. WordsIn(w, m, c) \in SUBSET Word
  <2>1. \A k \in 1..m : w[k] \in Word
    OBVIOUS
  <2> QED
    BY <1>1, <2>1 DEF WordsIn
<1>3. \A k \in 1..(m + 1) : k \in 1..m \/ k = m + 1
  OBVIOUS
<1>3a. (1..m) \subseteq 1..(m + 1) /\ m + 1 \in 1..(m + 1) /\ m + 1 \notin 1..m
  OBVIOUS
<1>4. c # w[m + 1][1] => B = A
  BY <1>3, <1>3a DEF AlikeIn
<1>5. c = w[m + 1][1] => B = A \cup {m + 1}
  BY <1>3, <1>3a DEF AlikeIn
<1>6. m + 1 \notin A
  BY <1>1, <1>3a
<1> HIDE DEF A, B
<1>7. c = w[m + 1][1] => Cardinality(B) = Cardinality(A) + 1
  BY <1>1, <1>5, <1>6, FS_AddElement
<1>8. c # w[m + 1][1] => WordsIn(w, m + 1, c) = WordsIn(w, m, c)
  BY <1>4 DEF WordsIn, A, B
<1>9. c = w[m + 1][1] => WordsIn(w, m + 1, c) = WordsIn(w, m, c) \cup {w[m + 1]}
  BY <1>5 DEF WordsIn, A, B
<1>10. c = w[m + 1][1] => m + 1 \in B
  BY <1>5
<1> QED
  BY <1>1, <1>2, <1>4, <1>7, <1>8, <1>9, <1>10 DEF A, B

LEMMA StaysRight ==
    ASSUME NEW w \in Seq(Word), NEW m \in Nat, m + 1 <= Len(w), NEW g,
           GroupRight(g, w, m), g.prefix[1] # w[m + 1][1]
    PROVE  GroupRight(g, w, m + 1)
<1> DEFINE c == g.prefix[1]
<1>1. AlikeIn(w, m + 1, c) = AlikeIn(w, m, c) /\ WordsIn(w, m + 1, c) = WordsIn(w, m, c)
  <2> HIDE DEF c
  <2>1. c # w[m + 1][1]
    BY DEF c
  <2> QED
    BY <2>1, AlikeGrows
<1> QED
  BY <1>1 DEF GroupRight

LEMMA GrowsRight ==
    ASSUME NEW w \in Seq(Word), NEW m \in Nat, m + 1 <= Len(w), NEW g \in GroupType,
           GroupRight(g, w, m), g.prefix[1] = w[m + 1][1]
    PROVE  GroupRight(Grown(g, w[m + 1]), w, m + 1)
<1> DEFINE x == w[m + 1]
           c == x[1]
           L == g.prefix
           M == Shared(L, x)
<1>1. x \in Word /\ L \in Word /\ g.count \in Nat
  <2>1. m + 1 \in 1..Len(w)
    OBVIOUS
  <2> QED
    BY <2>1 DEF GroupType
<1>2. IsLongest(M, {L, x})
  BY <1>1, SharedIs
<1>3. /\ WordsIn(w, m, c) \in SUBSET Word /\ Cardinality(AlikeIn(w, m, c)) \in Nat
      /\ Cardinality(AlikeIn(w, m + 1, c)) = Cardinality(AlikeIn(w, m, c)) + 1
      /\ WordsIn(w, m + 1, c) = WordsIn(w, m, c) \cup {x}
      /\ m + 1 \in AlikeIn(w, m + 1, c)
  BY AlikeGrows
<1>4. /\ AlikeIn(w, m, c) # {} /\ IsLongest(L, WordsIn(w, m, c))
      /\ g.count = Cardinality(AlikeIn(w, m, c))
  BY DEF GroupRight
<1>5. WordsIn(w, m, c) # {} /\ WordsIn(w, m, c) \in SUBSET Seq(Nat) /\ x \in Seq(Nat)
  BY <1>1, <1>3, <1>4 DEF WordsIn, Word
<1>6. IsLongest(M, WordsIn(w, m + 1, c))
  <2> HIDE DEF x, L, M, c
  <2>1. IsLongest(M, WordsIn(w, m, c) \cup {x})
    BY <1>2, <1>4, <1>5, LongestJoins
  <2> QED
    BY <1>3, <2>1
<1>7. M \in Word /\ M[1] = c
  <2> DEFINE A == {L, x}
  <2>1. A \in SUBSET Word /\ A # {} /\ c \in Nat /\ IsLongest(M, A) /\ \A t \in A : t[1] = c
    BY <1>1, <1>2, WordFacts
  <2> HIDE DEF A, M, c
  <2> QED
    BY <2>1, LongestBegins
<1>8. Grown(g, x) = [prefix |-> M, count |-> g.count + 1]
  BY DEF Grown
<1> HIDE DEF M, c, L, x
<1>9. Grown(g, x).prefix = M /\ Grown(g, x).count = g.count + 1
  BY <1>8
<1>10. GroupRight(Grown(g, x), w, m + 1)
  BY <1>3, <1>4, <1>6, <1>7, <1>9 DEF GroupRight
<1> QED
  BY <1>10 DEF x

LEMMA StartsRight ==
    ASSUME NEW w \in Seq(Word), NEW m \in Nat, m + 1 <= Len(w),
           AlikeIn(w, m, w[m + 1][1]) = {}
    PROVE  GroupRight([prefix |-> w[m + 1], count |-> 1], w, m + 1)
<1> DEFINE x == w[m + 1]
           c == x[1]
           g == [prefix |-> x, count |-> 1]
<1>1. x \in Word /\ x \in Seq(Nat)
  <2>1. m + 1 \in 1..Len(w)
    OBVIOUS
  <2> QED
    BY <2>1 DEF Word
<1>2. /\ Cardinality(AlikeIn(w, m + 1, c)) = Cardinality(AlikeIn(w, m, c)) + 1
      /\ WordsIn(w, m + 1, c) = WordsIn(w, m, c) \cup {x}
      /\ m + 1 \in AlikeIn(w, m + 1, c)
  BY AlikeGrows
<1>3. Cardinality(AlikeIn(w, m, c)) = 0 /\ WordsIn(w, m, c) = {}
  BY FS_EmptySet DEF WordsIn
<1>4. IsLongest(x, {x})
  BY <1>1, LongestOfOne
<1>5. g.prefix = x /\ g.count = 1
  OBVIOUS
<1> HIDE DEF g, x, c
<1>6. WordsIn(w, m + 1, c) = {x} /\ Cardinality(AlikeIn(w, m + 1, c)) = 1
  BY <1>2, <1>3
<1>7. x[1] = c
  BY DEF c
<1>8. GroupRight(g, w, m + 1)
  BY <1>2, <1>4, <1>5, <1>6, <1>7 DEF GroupRight
<1> QED
  BY <1>8 DEF g, x

LEMMA JoinsRight ==
    ASSUME NEW w \in Seq(Word), NEW m \in Nat, m + 1 <= Len(w), NEW G, GroupsRight(G, w, m)
    PROVE  GroupsRight(Joined(G, w[m + 1]), w, m + 1)
<1> DEFINE x == w[m + 1]
           H == Joined(G, x)
<1>1. x \in Word
  <2>1. m + 1 \in 1..Len(w)
    OBVIOUS
  <2> QED
    BY <2>1
<1>2. /\ G \in Seq(GroupType) /\ Len(G) \in Nat
      /\ \A j \in 1..Len(G) : GroupRight(G[j], w, m)
      /\ \A j, k \in 1..Len(G) : G[j].prefix[1] = G[k].prefix[1] => j = k
      /\ \A k \in 1..m : \E j \in 1..Len(G) : G[j].prefix[1] = w[k][1]
  BY DEF GroupsRight
<1>3. \A k \in 1..(m + 1) : k \in 1..m \/ k = m + 1
  OBVIOUS
<1>4. CASE JoinsOne(G, x, H)
  <2> DEFINE g == [prefix |-> x, count |-> 1]
             n == Len(G)
  <2>1. (\A j \in 1..n : G[j].prefix[1] # x[1]) /\ H = Append(G, g)
    BY <1>4 DEF JoinsOne
  <2>2. AlikeIn(w, m, x[1]) = {}
    BY <1>2, <2>1 DEF AlikeIn
  <2>3. GroupRight(g, w, m + 1)
    BY <2>2, StartsRight
  <2>4. g \in GroupType /\ g.prefix = x
    BY <1>1 DEF GroupType
  <2> HIDE DEF g, x
  <2>5. H \in Seq(GroupType) /\ Len(H) = n + 1 /\ H[n + 1] = g /\ \A j \in 1..n : H[j] = G[j]
    BY <1>2, <2>1, <2>4
  <2> HIDE DEF H
  <2>6. \A j \in 1..Len(H) : j \in 1..n \/ j = n + 1
    BY <1>2, <2>5
  <2>7. \A j \in 1..n : GroupRight(G[j], w, m + 1)
    BY <1>2, <2>1, StaysRight DEF x
  <2>8. \A j \in 1..Len(H) : GroupRight(H[j], w, m + 1)
    BY <2>3, <2>5, <2>6, <2>7
  <2>9. \A j, k \in 1..Len(H) : H[j].prefix[1] = H[k].prefix[1] => j = k
    BY <1>2, <2>1, <2>4, <2>5, <2>6
  <2>10. \A k \in 1..(m + 1) : \E j \in 1..Len(H) : H[j].prefix[1] = w[k][1]
    <3>1. n + 1 \in 1..Len(H) /\ (1..n) \subseteq 1..Len(H)
      BY <1>2, <2>5
    <3>2. \A k \in 1..m : \E j \in 1..Len(H) : H[j].prefix[1] = w[k][1]
      BY <1>2, <2>5, <3>1
    <3>3. H[n + 1].prefix[1] = w[m + 1][1]
      BY <2>4, <2>5 DEF x
    <3> QED
      BY <1>3, <3>1, <3>2, <3>3
  <2> QED
    BY <2>5, <2>8, <2>9, <2>10 DEF GroupsRight, H, x
<1>5. CASE \E i \in 1..Len(G) : \E p : /\ G[i].prefix[1] = x[1]
                                   /\ Replaces(G, i, Grown(G[i], x), H, p)
  <2> DEFINE n == Len(G)
  <2>0. PICK i \in 1..n : \E p : G[i].prefix[1] = x[1] /\ Replaces(G, i, Grown(G[i], x), H, p)
    BY <1>5
  <2>1. PICK p : G[i].prefix[1] = x[1] /\ Replaces(G, i, Grown(G[i], x), H, p)
    BY <2>0
  <2> DEFINE g == Grown(G[i], x)
  <2>2. g.prefix[1] = x[1]
    BY <1>1, <1>2, <2>1, GrownIs
  <2>3. GroupRight(g, w, m + 1)
    <3>1. G[i] \in GroupType /\ GroupRight(G[i], w, m) /\ G[i].prefix[1] = w[m + 1][1]
      BY <1>2, <2>1
    <3> QED
      BY <3>1, GrowsRight
  <2>4. /\ H \in Seq(GroupType) /\ Len(H) = n /\ p \in [1..n -> 1..n]
        /\ \A j, k \in 1..n : p[j] = p[k] => j = k
        /\ \A k \in 1..n : \E j \in 1..n : p[j] = k
        /\ \A j \in 1..n : H[j] = IF p[j] = i THEN g ELSE G[p[j]]
    BY <2>1 DEF Replaces, Moved
  <2> HIDE DEF g, H
  <2>5. \A j \in 1..n : j # i => G[j].prefix[1] # x[1]
    BY <1>2, <2>1
  <2> HIDE DEF x
  <2>6. ASSUME NEW j \in 1..n, j # i PROVE GroupRight(G[j], w, m + 1)
    <3>1. GroupRight(G[j], w, m) /\ G[j].prefix[1] # w[m + 1][1]
      BY <1>2, <2>5, <2>6 DEF x
    <3> QED
      BY <3>1, StaysRight
  <2>7. \A j \in 1..n : GroupRight(H[j], w, m + 1)
    BY <2>3, <2>4, <2>6
  <2>8. \A j \in 1..n : H[j].prefix[1] = G[p[j]].prefix[1]
    BY <2>1, <2>2, <2>4
  <2>9. \A j, k \in 1..n : H[j].prefix[1] = H[k].prefix[1] => j = k
    <3> SUFFICES ASSUME NEW j \in 1..n, NEW k \in 1..n, H[j].prefix[1] = H[k].prefix[1]
                 PROVE  j = k
      OBVIOUS
    <3>1. p[j] \in 1..n /\ p[k] \in 1..n
      BY <2>4
    <3>2. G[p[j]].prefix[1] = G[p[k]].prefix[1]
      BY <2>8
    <3>3. p[j] = p[k]
      BY <1>2, <3>1, <3>2
    <3> QED
      BY <2>4, <3>3
  <2>10. \A k \in 1..(m + 1) : \E j \in 1..n : G[j].prefix[1] = w[k][1]
    BY <1>2, <1>3, <2>1 DEF x
  <2>11. \A k \in 1..(m + 1) : \E j \in 1..n : H[j].prefix[1] = w[k][1]
    <3> SUFFICES ASSUME NEW k \in 1..(m + 1) PROVE \E j \in 1..n : H[j].prefix[1] = w[k][1]
      OBVIOUS
    <3>1. PICK j \in 1..n : G[j].prefix[1] = w[k][1]
      BY <2>10
    <3>2. PICK h \in 1..n : p[h] = j
      BY <2>4
    <3>3. H[h].prefix[1] = w[k][1]
      BY <2>8, <3>1, <3>2
    <3> QED
      BY <3>3
  <2> QED
    BY <2>4, <2>7, <2>9, <2>11 DEF GroupsRight, H, x
<1>6. JoinsOne(G, x, H) \/ \E i \in 1..Len(G) : \E p : /\ G[i].prefix[1] = x[1]
                                   /\ Replaces(G, i, Grown(G[i], x), H, p)
  BY <1>1, <1>2, JoinedIs
<1> QED
  BY <1>4, <1>5, <1>6

(* Grouped, word by word.                                                  *)
LEMMA AllRight ==
    ASSUME NEW w \in Seq(Word), NEW f, f[0] = << >>,
           \A i \in 1..Len(w) : GroupsRight(f[i - 1], w, i - 1) => f[i] = Joined(f[i - 1], w[i])
    PROVE  \A m \in 0..Len(w) : GroupsRight(f[m], w, m)
<1> DEFINE n == Len(w)
           S == {m \in Nat : m <= n => GroupsRight(f[m], w, m)}
<1>1. n \in Nat
  OBVIOUS
<1>2. 0 \in S
  <2>1. GroupsRight(<< >>, w, 0)
    BY DEF GroupsRight
  <2> QED
    BY <2>1
<1>3. ASSUME NEW m \in S PROVE m + 1 \in S
  <2> SUFFICES ASSUME m + 1 <= n PROVE GroupsRight(f[m + 1], w, m + 1)
    OBVIOUS
  <2>1. m \in Nat /\ m <= n /\ m + 1 \in 1..n /\ (m + 1) - 1 = m
    BY <1>1
  <2>2. GroupsRight(f[m], w, m)
    BY <2>1
  <2>3. f[m + 1] = Joined(f[m], w[m + 1])
    BY <2>1, <2>2
  <2> QED
    BY <2>1, <2>2, <2>3, JoinsRight
<1>4. \A m \in Nat : m \in S
  <2> HIDE DEF S
  <2>1. S \in SUBSET Nat
    BY DEF S
  <2> QED
    BY <1>2, <1>3, <2>1, SetInduction
<1> QED
  BY <1>1, <1>4

LEMMA GroupedRight ==
    ASSUME NEW w \in Seq(Word)
    PROVE  GroupsRight(Grouped(w), w, Len(w))
<1> DEFINE n == Len(w)
           T == Seq(GroupType)
           step == [d \in T \X Word |->
                       IF Joined(d[1], d[2]) \in T THEN Joined(d[1], d[2]) ELSE d[1]]
           Is(g) == g = [i \in 0..n |-> IF i = 0 THEN << >> ELSE Joined(g[i - 1], w[i])]
           groups == CHOOSE g : Is(g)
           base == << >>
<1>1. n \in Nat /\ w \in [1..n -> Word] /\ << >> \in T
  OBVIOUS
<1>2. step \in [T \X Word -> T]
  OBVIOUS
<1>3. PICK f : IsFold(f, T, step, base, n, w)
  <2>1. base \in T /\ IsStep(step, T, Word)
    BY <1>2 DEF IsStep
  <2> HIDE DEF step, T, n, base
  <2> QED
    BY <1>1, <2>1, FoldExists
<1>4. f \in [0..n -> T] /\ f[0] = << >> /\ \A i \in 1..n : f[i] = step[<<f[i - 1], w[i]>>]
  <2> HIDE DEF step, T, n
  <2> QED
    BY <1>3 DEF IsFold
<1>5. ASSUME NEW i \in 1..n, Joined(f[i - 1], w[i]) \in T PROVE f[i] = Joined(f[i - 1], w[i])
  <2>1. i - 1 \in 0..n /\ w[i] \in Word
    BY <1>1
  <2>2. f[i - 1] \in T
    BY <1>4, <2>1
  <2>3. <<f[i - 1], w[i]>> \in T \X Word
    BY <2>1, <2>2
  <2>4. step[<<f[i - 1], w[i]>>] = Joined(f[i - 1], w[i])
    BY <1>5, <2>3
  <2> QED
    BY <1>4, <2>4
<1>6. ASSUME NEW i \in 1..n, GroupsRight(f[i - 1], w, i - 1)
      PROVE  f[i] = Joined(f[i - 1], w[i])
  <2>1. i - 1 \in Nat /\ (i - 1) + 1 = i /\ i <= n
    BY <1>1
  <2>2. GroupsRight(Joined(f[i - 1], w[i]), w, i)
    <3> DEFINE m == i - 1
    <3>1. m \in Nat /\ m + 1 <= Len(w) /\ GroupsRight(f[m], w, m) /\ m + 1 = i
      BY <1>6, <2>1
    <3> HIDE DEF m
    <3>2. GroupsRight(Joined(f[m], w[m + 1]), w, m + 1)
      BY <3>1, JoinsRight
    <3> QED
      BY <3>1, <3>2 DEF m
  <2>3. Joined(f[i - 1], w[i]) \in T
    BY <2>2 DEF GroupsRight
  <2> QED
    BY <1>5, <2>3
<1>7. \A m \in 0..n : GroupsRight(f[m], w, m)
  <2> HIDE DEF step
  <2> QED
    BY <1>4, <1>6, AllRight
<1>8. \A i \in 1..n : f[i] = Joined(f[i - 1], w[i])
  <2>1. ASSUME NEW i \in 1..n PROVE i - 1 \in 0..n
    BY <1>1
  <2> QED
    BY <1>6, <1>7, <2>1
<1>9. Is(f)
  <2>1. \A i \in 0..n : f[i] = IF i = 0 THEN << >> ELSE Joined(f[i - 1], w[i])
    <3>1. \A i \in 0..n : i = 0 \/ i \in 1..n
      BY <1>1
    <3> QED
      BY <1>4, <1>8, <3>1
  <2>2. f = [i \in 0..n |-> f[i]]
    BY <1>4
  <2> QED
    BY <2>1, <2>2
<1>10. Is(groups)
  <2> HIDE DEF Is
  <2> QED
    BY <1>9
<1>11. Grouped(w) = groups[n]
  BY DEF Grouped
<1> HIDE DEF groups
<1>12. groups[0] = << >> /\ \A i \in 1..n : groups[i] = Joined(groups[i - 1], w[i])
  <2>1. \A i \in 0..n : groups[i] = IF i = 0 THEN << >> ELSE Joined(groups[i - 1], w[i])
    BY <1>10
  <2>2. 0 \in 0..n /\ (\A i \in 1..n : i \in 0..n /\ i # 0)
    BY <1>1
  <2> QED
    BY <2>1, <2>2
<1>13. \A m \in 0..n : GroupsRight(groups[m], w, m)
  BY <1>12, AllRight
<1>14. n \in 0..n
  BY <1>1
<1> QED
  BY <1>11, <1>13, <1>14

(* What comes out, whatever the order the words were taken in.             *)
LEMMA GroupedIs ==
    ASSUME NEW w \in Seq(Word)
    PROVE  Range(Grouped(w)) = {Group(w, c) : c \in Firsts(w)}
<1> DEFINE n == Len(w)
           G == Grouped(w)
<1>1. n \in Nat /\ DOMAIN w = 1..n
  OBVIOUS
<1>2. /\ G \in Seq(GroupType) /\ DOMAIN G = 1..Len(G)
      /\ \A j \in 1..Len(G) : GroupRight(G[j], w, n)
      /\ \A k \in 1..n : \E j \in 1..Len(G) : G[j].prefix[1] = w[k][1]
  <2> HIDE DEF G
  <2>1. GroupsRight(G, w, n)
    BY GroupedRight DEF G
  <2> QED
    BY <2>1 DEF GroupsRight
<1> HIDE DEF G
<1>3. ASSUME NEW j \in 1..Len(G)
      PROVE  G[j].prefix[1] \in Firsts(w) /\ G[j] = Group(w, G[j].prefix[1])
  <2> DEFINE c == G[j].prefix[1]
             A == WordsIn(w, n, c)
  <2>1. /\ AlikeIn(w, n, c) # {} /\ IsLongest(G[j].prefix, A)
        /\ G[j].count = Cardinality(AlikeIn(w, n, c))
    BY <1>2 DEF GroupRight
  <2>2. AlikeIn(w, n, c) = Alike(w, c)
    BY <1>1 DEF AlikeIn, Alike
  <2>3. PICK k \in 1..n : w[k][1] = c
    BY <2>1 DEF AlikeIn
  <2>4. c \in Firsts(w)
    BY <1>1, <2>3 DEF Firsts
  <2>5. \A i \in 1..n : w[i] \in Seq(Nat)
    BY DEF Word
  <2>6. A \in SUBSET Seq(Nat) /\ A # {}
    BY <2>1, <2>5 DEF WordsIn, AlikeIn
  <2>7. LongestCommonPrefix(A) = G[j].prefix
    <3> HIDE DEF A
    <3> QED
      BY <2>1, <2>6, LongestIs
  <2>8. A = {w[i] : i \in Alike(w, c)}
    BY <2>2 DEF WordsIn
  <2>9. G[j] \in GroupType
    BY <1>2
  <2>10. G[j] = [prefix |-> G[j].prefix, count |-> G[j].count]
    BY <2>9 DEF GroupType
  <2>11. Group(w, c) = [prefix |-> LongestCommonPrefix(A), count |-> Cardinality(Alike(w, c))]
    BY <2>8 DEF Group
  <2> HIDE DEF A
  <2>12. G[j] = Group(w, c)
    BY <2>1, <2>2, <2>7, <2>10, <2>11
  <2> QED
    BY <2>4, <2>12
<1>4. ASSUME NEW c \in Firsts(w) PROVE \E j \in 1..Len(G) : G[j] = Group(w, c)
  <2>1. PICK k \in 1..n : w[k][1] = c
    BY <1>1 DEF Firsts
  <2>2. PICK j \in 1..Len(G) : G[j].prefix[1] = c
    BY <1>2, <2>1
  <2> QED
    BY <1>3, <2>2
<1>5. Range(G) = {G[j] : j \in 1..Len(G)}
  BY <1>2 DEF Range
<1>6. {G[j] : j \in 1..Len(G)} = {Group(w, c) : c \in Firsts(w)}
  BY <1>3, <1>4
<1> QED
  BY <1>5, <1>6 DEF G

(***************************************************************************)
(* Sorting only shuffles, however Before compares.                         *)
(***************************************************************************)
Inserts(t, T, s, i, e) ==
    /\ t \in Seq(T) /\ Len(t) = Len(s) + 1
    /\ \A j \in 1..(Len(s) + 1) :
          t[j] = IF j < i THEN s[j] ELSE IF j = i THEN e ELSE s[j - 1]

LEMMA InsertAtIs ==
    ASSUME NEW T, NEW s \in Seq(T), NEW e \in T, NEW i \in 1..(Len(s) + 1)
    PROVE  Inserts(InsertAt(s, i, e), T, s, i, e)
<1> DEFINE n == Len(s)
           A == SubSeq(s, 1, i - 1)
           C == SubSeq(s, i, n)
           AB == A \o <<e>>
<1>1. n \in Nat
  OBVIOUS
<1>2. A \in Seq(T) /\ Len(A) = i - 1 /\ \A j \in 1..(i - 1) : A[j] = s[j]
  BY <1>1
<1>3. C \in Seq(T) /\ Len(C) = n - i + 1 /\ \A j \in 1..(n - i + 1) : C[j] = s[i + j - 1]
  BY <1>1
<1>4. InsertAt(s, i, e) = AB \o C
  BY DEF InsertAt
<1>5. AB \in Seq(T) /\ Len(AB) = i /\ AB[i] = e /\ \A j \in 1..(i - 1) : AB[j] = s[j]
  <2> HIDE DEF A
  <2>1. AB = Append(A, e)
    BY <1>2
  <2> QED
    BY <1>1, <1>2, <2>1
<1> HIDE DEF A, C, AB
<1>6. AB \o C \in Seq(T) /\ Len(AB \o C) = n + 1
  <2>1. AB \o C \in Seq(T) /\ Len(AB \o C) = Len(AB) + Len(C)
    BY <1>3, <1>5, ConcatProperties
  <2> QED
    BY <1>1, <1>3, <1>5, <2>1
<1>7. ASSUME NEW j \in 1..(n + 1)
      PROVE  (AB \o C)[j] = IF j < i THEN s[j] ELSE IF j = i THEN e ELSE s[j - 1]
  <2>1. CASE j <= i
    <3>1. j \in 1..Len(AB) /\ (j = i \/ j \in 1..(i - 1))
      BY <1>1, <1>5, <2>1
    <3>2. (AB \o C)[j] = AB[j]
      BY <1>3, <1>5, <3>1
    <3> QED
      BY <1>5, <2>1, <3>1, <3>2
  <2>2. CASE ~(j <= i)
    <3>1. j - i \in 1..(n - i + 1) /\ j - Len(AB) = j - i /\ Len(AB) < j
      BY <1>1, <1>5, <2>2
    <3>2. (AB \o C)[j] = C[j - Len(AB)]
      BY <1>1, <1>3, <1>5, <3>1
    <3>3. i + (j - i) - 1 = j - 1
      BY <1>1
    <3>4. C[j - i] = s[i + (j - i) - 1]
      BY <1>3, <3>1
    <3>5. (AB \o C)[j] = s[j - 1]
      BY <3>1, <3>2, <3>3, <3>4
    <3>6. ~(j < i) /\ j # i
      BY <2>2
    <3> QED
      BY <3>5, <3>6
  <2> QED
    BY <2>1, <2>2
<1> QED
  BY <1>4, <1>6, <1>7 DEF Inserts

(* A shuffle of the first words.                                           *)
IsShuffle(s, w, m, p) ==
    s \in Seq(Word) /\ Len(s) = m /\ Moved(p, m) /\ \A j \in 1..m : s[j] = w[p[j]]
Shuffled(s, w, m) == \E p : IsShuffle(s, w, m, p)

LEMMA InsertsShuffle ==
    ASSUME NEW w \in Seq(Word), NEW m \in Nat, m + 1 <= Len(w), NEW s, Shuffled(s, w, m)
    PROVE  Shuffled(Inserted(s, w[m + 1]), w, m + 1)
<1> DEFINE x == w[m + 1]
           behind == {i \in DOMAIN s : Before(x, s[i])}
           k == Len(s) + 1 - Cardinality(behind)
           H == Inserted(s, x)
<1>1. x \in Word
  <2>1. m + 1 \in 1..Len(w)
    OBVIOUS
  <2> QED
    BY <2>1
<1>2. PICK p : s \in Seq(Word) /\ Len(s) = m /\ Moved(p, m) /\ \A j \in 1..m : s[j] = w[p[j]]
  BY DEF Shuffled, IsShuffle
<1>3. Cardinality(behind) \in Nat /\ Cardinality(behind) <= m
  <2>1. behind \in SUBSET (1..m)
    BY <1>2
  <2>2. IsFiniteSet(1..m) /\ Cardinality(1..m) = m
    BY FS_Interval
  <2> HIDE DEF behind
  <2>3. IsFiniteSet(behind) /\ Cardinality(behind) <= Cardinality(1..m)
    BY <2>1, <2>2, FS_Subset
  <2> QED
    BY <2>2, <2>3, FS_CardinalityType
<1>4. H = InsertAt(s, k, x)
  BY DEF Inserted
<1> HIDE DEF behind
<1>5. k \in 1..(m + 1) /\ k \in 1..(Len(s) + 1)
  BY <1>2, <1>3
<1> HIDE DEF k, x, H
<1>6. /\ H \in Seq(Word) /\ Len(H) = m + 1
      /\ \A j \in 1..(m + 1) : H[j] = IF j < k THEN s[j] ELSE IF j = k THEN x ELSE s[j - 1]
  <2>1. s \in Seq(Word) /\ k \in 1..(Len(s) + 1)
    BY <1>2, <1>5
  <2>2. Inserts(H, Word, s, k, x)
    BY <1>1, <1>4, <2>1, InsertAtIs
  <2> QED
    BY <1>2, <2>2 DEF Inserts
<1> DEFINE q == [j \in 1..(m + 1) |-> IF j < k THEN p[j] ELSE IF j = k THEN m + 1 ELSE p[j - 1]]
<1>7. /\ p \in [1..m -> 1..m] /\ \A i, j \in 1..m : p[i] = p[j] => i = j
      /\ \A h \in 1..m : \E j \in 1..m : p[j] = h
  BY <1>2 DEF Moved
<1>8. \A j \in 1..(m + 1) : /\ j < k => j \in 1..m
                            /\ j > k => j - 1 \in 1..m
  BY <1>5
<1>9. q \in [1..(m + 1) -> 1..(m + 1)]
  <2>1. ASSUME NEW j \in 1..(m + 1) PROVE q[j] \in 1..(m + 1)
    <3>1. j < k => p[j] \in 1..m
      BY <1>7, <1>8
    <3>2. j > k => p[j - 1] \in 1..m
      BY <1>7, <1>8
    <3> QED
      BY <1>5, <3>1, <3>2
  <2> QED
    BY <2>1
<1>10. ASSUME NEW i \in 1..(m + 1), NEW j \in 1..(m + 1), q[i] = q[j] PROVE i = j
  <2> DEFINE from(h) == IF h < k THEN h ELSE h - 1
  <2>1. ASSUME NEW h \in 1..(m + 1), h # k
        PROVE  from(h) \in 1..m /\ q[h] = p[from(h)] /\ q[h] \in 1..m
    <3>1. from(h) \in 1..m /\ q[h] = p[from(h)]
      BY <1>5, <1>8, <2>1
    <3> QED
      BY <1>7, <3>1
  <2>2. q[k] = m + 1 /\ m + 1 \notin 1..m
    BY <1>5
  <2>3. CASE i = k \/ j = k
    BY <1>10, <2>1, <2>2, <2>3
  <2>4. CASE i # k /\ j # k
    <3>1. from(i) = from(j)
      <4> HIDE DEF from, q
      <4> QED
        BY <1>7, <1>10, <2>1, <2>4
    <3> QED
      BY <1>5, <2>4, <3>1
  <2> QED
    BY <2>3, <2>4
<1>11. ASSUME NEW h \in 1..(m + 1) PROVE \E j \in 1..(m + 1) : q[j] = h
  <2>1. CASE h = m + 1
    BY <1>5, <2>1
  <2>2. CASE h # m + 1
    <3>1. h \in 1..m
      BY <2>2
    <3>2. PICK j \in 1..m : p[j] = h
      BY <1>7, <3>1
    <3>3. CASE j < k
      BY <3>2, <3>3
    <3>4. CASE ~(j < k)
      <4>1. j + 1 \in 1..(m + 1) /\ ~(j + 1 < k) /\ j + 1 # k /\ (j + 1) - 1 = j
        BY <1>5, <3>4
      <4>2. q[j + 1] = p[(j + 1) - 1]
        BY <4>1
      <4> QED
        BY <3>2, <4>1, <4>2
    <3> QED
      BY <3>3, <3>4
  <2> QED
    BY <2>1, <2>2
<1>12. ASSUME NEW j \in 1..(m + 1) PROVE H[j] = w[q[j]]
  <2>1. CASE j < k
    <3>1. j \in 1..m /\ H[j] = s[j] /\ q[j] = p[j]
      BY <1>6, <1>8, <2>1
    <3> QED
      BY <1>2, <3>1
  <2>2. CASE j = k
    BY <1>6, <2>2 DEF x
  <2>3. CASE j > k
    <3>1. j - 1 \in 1..m /\ H[j] = s[j - 1] /\ q[j] = p[j - 1]
      BY <1>5, <1>6, <1>8, <2>3
    <3> QED
      BY <1>2, <3>1
  <2> QED
    BY <1>5, <2>1, <2>2, <2>3
<1>13. Moved(q, m + 1)
  <2> HIDE DEF q
  <2> QED
    BY <1>9, <1>10, <1>11 DEF Moved
<1>14. IsShuffle(H, w, m + 1, q)
  <2> HIDE DEF q
  <2> QED
    BY <1>6, <1>12, <1>13 DEF IsShuffle
<1>15. Shuffled(H, w, m + 1)
  <2> HIDE DEF q
  <2> QED
    BY <1>14 DEF Shuffled
<1> QED
  BY <1>15 DEF H, x

LEMMA AllShuffled ==
    ASSUME NEW w \in Seq(Word), NEW f, f[0] = << >>,
           \A i \in 1..Len(w) : Shuffled(f[i - 1], w, i - 1) => f[i] = Inserted(f[i - 1], w[i])
    PROVE  \A m \in 0..Len(w) : Shuffled(f[m], w, m)
<1> DEFINE n == Len(w)
           S == {m \in Nat : m <= n => Shuffled(f[m], w, m)}
<1>1. n \in Nat
  OBVIOUS
<1>2. 0 \in S
  <2> DEFINE p == [j \in 1..0 |-> j]
  <2>1. Moved(p, 0)
    BY DEF Moved
  <2>2. << >> \in Seq(Word) /\ Len(<< >>) = 0 /\ \A j \in 1..0 : FALSE
    OBVIOUS
  <2> HIDE DEF p
  <2>3. IsShuffle(<< >>, w, 0, p)
    BY <2>1, <2>2 DEF IsShuffle
  <2>4. Shuffled(<< >>, w, 0)
    BY <2>3 DEF Shuffled
  <2> QED
    BY <2>4
<1>3. ASSUME NEW m \in S PROVE m + 1 \in S
  <2> SUFFICES ASSUME m + 1 <= n PROVE Shuffled(f[m + 1], w, m + 1)
    OBVIOUS
  <2>1. m \in Nat /\ m <= n /\ m + 1 \in 1..n /\ (m + 1) - 1 = m
    BY <1>1
  <2>2. Shuffled(f[m], w, m)
    BY <2>1
  <2>3. f[m + 1] = Inserted(f[m], w[m + 1])
    BY <2>1, <2>2
  <2> QED
    BY <2>1, <2>2, <2>3, InsertsShuffle
<1>4. \A m \in Nat : m \in S
  <2> HIDE DEF S
  <2>1. S \in SUBSET Nat
    BY DEF S
  <2> QED
    BY <1>2, <1>3, <2>1, SetInduction
<1> QED
  BY <1>1, <1>4

LEMMA SortedShuffles ==
    ASSUME NEW w \in Seq(Word)
    PROVE  Shuffled(Sorted(w), w, Len(w))
<1> DEFINE n == Len(w)
           T == Seq(Word)
           step == [d \in T \X Word |->
                       IF Inserted(d[1], d[2]) \in T THEN Inserted(d[1], d[2]) ELSE d[1]]
           Is(g) == g = [i \in 0..n |-> IF i = 0 THEN << >> ELSE Inserted(g[i - 1], w[i])]
           sorted == CHOOSE g : Is(g)
           base == << >>
<1>1. n \in Nat /\ w \in [1..n -> Word] /\ << >> \in T
  OBVIOUS
<1>2. step \in [T \X Word -> T]
  OBVIOUS
<1>3. PICK f : IsFold(f, T, step, base, n, w)
  <2>1. base \in T /\ IsStep(step, T, Word)
    BY <1>2 DEF IsStep
  <2> HIDE DEF step, T, n, base
  <2> QED
    BY <1>1, <2>1, FoldExists
<1>4. f \in [0..n -> T] /\ f[0] = << >> /\ \A i \in 1..n : f[i] = step[<<f[i - 1], w[i]>>]
  <2> HIDE DEF step, T, n
  <2> QED
    BY <1>3 DEF IsFold
<1>5. ASSUME NEW i \in 1..n, Inserted(f[i - 1], w[i]) \in T PROVE f[i] = Inserted(f[i - 1], w[i])
  <2>1. i - 1 \in 0..n /\ w[i] \in Word
    BY <1>1
  <2>2. f[i - 1] \in T
    BY <1>4, <2>1
  <2>3. <<f[i - 1], w[i]>> \in T \X Word
    BY <2>1, <2>2
  <2>4. step[<<f[i - 1], w[i]>>] = Inserted(f[i - 1], w[i])
    BY <1>5, <2>3
  <2> QED
    BY <1>4, <2>4
<1>6. ASSUME NEW i \in 1..n, Shuffled(f[i - 1], w, i - 1)
      PROVE  f[i] = Inserted(f[i - 1], w[i])
  <2>1. i - 1 \in Nat /\ (i - 1) + 1 = i /\ i <= n
    BY <1>1
  <2>2. Shuffled(Inserted(f[i - 1], w[i]), w, i)
    <3> DEFINE m == i - 1
    <3>1. m \in Nat /\ m + 1 <= Len(w) /\ Shuffled(f[m], w, m) /\ m + 1 = i
      BY <1>6, <2>1
    <3> HIDE DEF m
    <3>2. Shuffled(Inserted(f[m], w[m + 1]), w, m + 1)
      BY <3>1, InsertsShuffle
    <3> QED
      BY <3>1, <3>2 DEF m
  <2>3. Inserted(f[i - 1], w[i]) \in T
    BY <2>2 DEF Shuffled, IsShuffle
  <2> QED
    BY <1>5, <2>3
<1>7. \A m \in 0..n : Shuffled(f[m], w, m)
  <2> HIDE DEF step
  <2> QED
    BY <1>4, <1>6, AllShuffled
<1>8. \A i \in 1..n : f[i] = Inserted(f[i - 1], w[i])
  <2>1. ASSUME NEW i \in 1..n PROVE i - 1 \in 0..n
    BY <1>1
  <2> QED
    BY <1>6, <1>7, <2>1
<1>9. Is(f)
  <2>1. \A i \in 0..n : f[i] = IF i = 0 THEN << >> ELSE Inserted(f[i - 1], w[i])
    <3>1. \A i \in 0..n : i = 0 \/ i \in 1..n
      BY <1>1
    <3> QED
      BY <1>4, <1>8, <3>1
  <2>2. f = [i \in 0..n |-> f[i]]
    BY <1>4
  <2> QED
    BY <2>1, <2>2
<1>10. Is(sorted)
  <2> HIDE DEF Is
  <2> QED
    BY <1>9
<1>11. Sorted(w) = sorted[n]
  BY DEF Sorted
<1> HIDE DEF sorted
<1>12. sorted[0] = << >> /\ \A i \in 1..n : sorted[i] = Inserted(sorted[i - 1], w[i])
  <2>1. \A i \in 0..n : sorted[i] = IF i = 0 THEN << >> ELSE Inserted(sorted[i - 1], w[i])
    BY <1>10
  <2>2. 0 \in 0..n /\ (\A i \in 1..n : i \in 0..n /\ i # 0)
    BY <1>1
  <2> QED
    BY <2>1, <2>2
<1>13. \A m \in 0..n : Shuffled(sorted[m], w, m)
  BY <1>12, AllShuffled
<1>14. n \in 0..n
  BY <1>1
<1> QED
  BY <1>11, <1>13, <1>14

(* A shuffle has the same groups.                                          *)
LEMMA ShuffleAlike ==
    ASSUME NEW w \in Seq(Word), NEW s, Shuffled(s, w, Len(w)), NEW c
    PROVE  /\ IsFiniteSet(Alike(w, c)) /\ Cardinality(Alike(w, c)) \in Nat
           /\ Cardinality(Alike(s, c)) = Cardinality(Alike(w, c))
           /\ {s[k] : k \in Alike(s, c)} = {w[k] : k \in Alike(w, c)}
<1> DEFINE n == Len(w)
<1>1. n \in Nat /\ DOMAIN w = 1..n
  OBVIOUS
<1>2a. PICK p : IsShuffle(s, w, n, p)
  BY DEF Shuffled
<1>2. /\ s \in Seq(Word) /\ Len(s) = n /\ DOMAIN s = 1..n
      /\ p \in [1..n -> 1..n] /\ (\A j, k \in 1..n : p[j] = p[k] => j = k)
      /\ (\A k \in 1..n : \E j \in 1..n : p[j] = k)
      /\ \A j \in 1..n : s[j] = w[p[j]]
  <2>1. s \in Seq(Word) /\ Len(s) = n /\ Moved(p, n) /\ \A j \in 1..n : s[j] = w[p[j]]
    BY <1>2a DEF IsShuffle
  <2>2. DOMAIN s = 1..n
    BY <2>1
  <2> QED
    BY <2>1, <2>2 DEF Moved
<1> DEFINE A == Alike(s, c)
           C == Alike(w, c)
<1>3. A = {j \in 1..n : w[p[j]][1] = c} /\ C = {j \in 1..n : w[j][1] = c}
  BY <1>1, <1>2 DEF Alike
<1>4. IsFiniteSet(A) /\ IsFiniteSet(C) /\ Cardinality(C) \in Nat
  <2>1. A \in SUBSET (1..n) /\ C \in SUBSET (1..n) /\ IsFiniteSet(1..n)
    BY <1>1, <1>3, FS_Interval
  <2> HIDE DEF A, C
  <2> QED
    BY <2>1, FS_Subset, FS_CardinalityType
<1> DEFINE q == [j \in A |-> p[j]]
<1> HIDE DEF A, C
<1>5. /\ A \in SUBSET (1..n) /\ C \in SUBSET (1..n)
      /\ \A j \in 1..n : p[j] \in 1..n /\ (j \in A <=> p[j] \in C)
  BY <1>2, <1>3
<1>6. q \in Bijection(A, C)
  <2>1. q \in Injection(A, C)
    <3>1. q \in [A -> C] /\ \A j, k \in A : q[j] = q[k] => j = k
      BY <1>2, <1>5
    <3> QED
      BY <3>1, Fun_IsInj
  <2>2. q \in Surjection(A, C)
    <3>1. q \in [A -> C]
      BY <1>5
    <3>2. \A k \in C : \E j \in A : q[j] = k
      BY <1>2, <1>5
    <3> QED
      BY <3>1, <3>2, Fun_IsSurj
  <2> QED
    BY <2>1, <2>2 DEF Bijection
<1>7. Cardinality(A) = Cardinality(C)
  BY <1>4, <1>6, FS_Bijection DEF ExistsBijection
<1>8. {s[k] : k \in A} \subseteq {w[k] : k \in C}
  BY <1>2, <1>5
<1>9. ASSUME NEW k \in C PROVE w[k] \in {s[j] : j \in A}
  <2>1. PICK j \in 1..n : p[j] = k
    BY <1>2, <1>5
  <2>2. j \in A /\ s[j] = w[k]
    BY <1>2, <1>5, <2>1
  <2> QED
    BY <2>2
<1> QED
  BY <1>4, <1>7, <1>8, <1>9 DEF A, C

LEMMA ShuffleFirsts ==
    ASSUME NEW w \in Seq(Word), NEW s, Shuffled(s, w, Len(w))
    PROVE  Firsts(s) = Firsts(w)
<1> DEFINE n == Len(w)
<1>1. n \in Nat /\ DOMAIN w = 1..n
  OBVIOUS
<1>2a. PICK p : IsShuffle(s, w, n, p)
  BY DEF Shuffled
<1>2. /\ s \in Seq(Word) /\ Len(s) = n /\ DOMAIN s = 1..n
      /\ p \in [1..n -> 1..n] /\ (\A j, k \in 1..n : p[j] = p[k] => j = k)
      /\ (\A k \in 1..n : \E j \in 1..n : p[j] = k)
      /\ \A j \in 1..n : s[j] = w[p[j]]
  <2>1. s \in Seq(Word) /\ Len(s) = n /\ Moved(p, n) /\ \A j \in 1..n : s[j] = w[p[j]]
    BY <1>2a DEF IsShuffle
  <2>2. DOMAIN s = 1..n
    BY <2>1
  <2> QED
    BY <2>1, <2>2 DEF Moved
<1>3. ASSUME NEW j \in 1..n PROVE s[j][1] \in Firsts(w)
  <2>1. p[j] \in 1..n /\ s[j] = w[p[j]]
    BY <1>2
  <2> QED
    BY <1>1, <2>1 DEF Firsts
<1>4. ASSUME NEW k \in 1..n PROVE w[k][1] \in Firsts(s)
  <2>1. PICK j \in 1..n : p[j] = k
    BY <1>2
  <2>2. s[j] = w[k] /\ j \in DOMAIN s
    BY <1>2, <2>1
  <2> QED
    BY <2>2 DEF Firsts
<1>5. Firsts(w) = {w[k][1] : k \in 1..n} /\ Firsts(s) = {s[j][1] : j \in 1..n}
  BY <1>1, <1>2 DEF Firsts
<1>6. Firsts(s) \subseteq Firsts(w)
  BY <1>3, <1>5
<1>7. Firsts(w) \subseteq Firsts(s)
  BY <1>4, <1>5
<1> QED
  BY <1>6, <1>7

(* common_hexadecimal_prefix finds the groups, all of them and no other.   *)
LEMMA GroupsAreRight ==
    ASSUME NEW w \in Seq(Word)
    PROVE  CommonPrefixGroups(w) =
             {Group(w, c) : c \in {d \in Firsts(w) : Cardinality(Alike(w, d)) > 1}}
<1> DEFINE s == Sorted(w)
           G == Range(Grouped(s))
<1>1. Shuffled(s, w, Len(w))
  BY SortedShuffles
<1>2. s \in Seq(Word)
  BY <1>1 DEF Shuffled, IsShuffle
<1> HIDE DEF s
<1>3. G = {Group(s, c) : c \in Firsts(s)}
  BY <1>2, GroupedIs
<1>4. Firsts(s) = Firsts(w)
  BY <1>1, ShuffleFirsts
<1>5. ASSUME NEW c PROVE Group(s, c) = Group(w, c)
  <2>1. /\ Cardinality(Alike(s, c)) = Cardinality(Alike(w, c))
        /\ {s[k] : k \in Alike(s, c)} = {w[k] : k \in Alike(w, c)}
    BY <1>1, ShuffleAlike
  <2> QED
    BY <2>1 DEF Group
<1>6. G = {Group(w, c) : c \in Firsts(w)}
  <2> HIDE DEF G
  <2> QED
    BY <1>3, <1>4, <1>5
<1>7. \A c : Group(w, c).count = Cardinality(Alike(w, c))
  BY DEF Group
<1>8. CommonPrefixGroups(w) = {g \in G : g.count > 1}
  BY DEF CommonPrefixGroups, s
<1> HIDE DEF G
<1> QED
  BY <1>6, <1>7, <1>8

(* Adding up.                                                              *)
Sums(f, s) ==
    /\ f \in [0..Len(s) -> Nat] /\ f[0] = 0
    /\ \A i \in 1..Len(s) : f[i] = f[i - 1] + s[i]

LEMMA TotalUnfolds ==
    ASSUME NEW s \in Seq(Nat)
    PROVE  \E f : Sums(f, s) /\ Total(s) = f[Len(s)]
<1> DEFINE n == Len(s)
           step == [d \in Nat \X Nat |-> d[1] + d[2]]
           Is(g) == g = [i \in 0..n |-> IF i = 0 THEN 0 ELSE g[i - 1] + s[i]]
           sum == CHOOSE g : Is(g)
<1>1. n \in Nat /\ s \in [1..n -> Nat]
  OBVIOUS
<1>2. PICK f : IsFold(f, Nat, step, 0, n, s)
  <2>1. IsStep(step, Nat, Nat)
    BY DEF IsStep
  <2> HIDE DEF step, n
  <2> QED
    BY <1>1, <2>1, FoldExists
<1>3. f \in [0..n -> Nat] /\ f[0] = 0 /\ \A i \in 1..n : f[i] = step[<<f[i - 1], s[i]>>]
  <2> HIDE DEF step, n
  <2> QED
    BY <1>2 DEF IsFold
<1>4. ASSUME NEW i \in 1..n PROVE f[i] = f[i - 1] + s[i]
  <2>1. i - 1 \in 0..n
    BY <1>1
  <2>2. f[i - 1] \in Nat /\ s[i] \in Nat
    BY <1>1, <1>3, <2>1
  <2>3. step[<<f[i - 1], s[i]>>] = f[i - 1] + s[i]
    BY <2>2
  <2> QED
    BY <1>3, <2>3
<1>5. Is(f)
  <2>1. \A i \in 0..n : f[i] = IF i = 0 THEN 0 ELSE f[i - 1] + s[i]
    <3>1. \A i \in 0..n : i = 0 \/ i \in 1..n
      BY <1>1
    <3> QED
      BY <1>3, <1>4, <3>1
  <2>2. f = [i \in 0..n |-> f[i]]
    BY <1>3
  <2> QED
    BY <2>1, <2>2
<1>6. Is(sum)
  <2> HIDE DEF Is
  <2> QED
    BY <1>5
<1>7. Total(s) = sum[n]
  BY DEF Total
<1> HIDE DEF sum
<1>8. \A i \in 0..n : sum[i] = IF i = 0 THEN 0 ELSE sum[i - 1] + s[i]
  BY <1>6
<1>9. DOMAIN sum = 0..n /\ sum = [i \in 0..n |-> sum[i]]
  BY <1>6
<1>10. sum[0] = 0 /\ \A i \in 1..n : sum[i] = sum[i - 1] + s[i]
  <2>1. 0 \in 0..n /\ (\A i \in 1..n : i \in 0..n /\ i # 0)
    BY <1>1
  <2> QED
    BY <1>8, <2>1
<1>11. \A m \in 0..n : sum[m] \in Nat
  <2> DEFINE S == {m \in Nat : m <= n => sum[m] \in Nat}
  <2>1. 0 \in S
    BY <1>10
  <2>2. ASSUME NEW m \in S PROVE m + 1 \in S
    <3> SUFFICES ASSUME m + 1 <= n PROVE sum[m + 1] \in Nat
      OBVIOUS
    <3>1. m + 1 \in 1..n /\ (m + 1) - 1 = m /\ sum[m] \in Nat
      BY <1>1
    <3>2. sum[m + 1] = sum[m] + s[m + 1] /\ s[m + 1] \in Nat
      BY <1>1, <1>10, <3>1
    <3> QED
      BY <3>1, <3>2
  <2>3. \A m \in Nat : m \in S
    <3> HIDE DEF S
    <3>1. S \in SUBSET Nat
      BY DEF S
    <3> QED
      BY <2>1, <2>2, <3>1, SetInduction
  <2> QED
    BY <1>1, <2>3
<1>12. sum \in [0..n -> Nat]
  <2> HIDE DEF Is
  <2> QED
    BY <1>9, <1>11
<1>13. Sums(sum, s)
  BY <1>10, <1>12 DEF Sums
<1> QED
  BY <1>7, <1>13

(* What is added up is at most 2 each, if none is larger.                  *)
LEMMA TotalAtMost ==
    ASSUME NEW s \in Seq(Nat), \A i \in 1..Len(s) : s[i] <= 2
    PROVE  Total(s) \in Nat /\ Total(s) <= 2 * Len(s)
<1> DEFINE n == Len(s)
<1>1. n \in Nat /\ \A i \in 1..n : s[i] \in Nat
  OBVIOUS
<1>2. PICK f : Sums(f, s) /\ Total(s) = f[n]
  BY TotalUnfolds
<1>3. f \in [0..n -> Nat] /\ f[0] = 0 /\ \A i \in 1..n : f[i] = f[i - 1] + s[i]
  BY <1>2 DEF Sums
<1> DEFINE S == {m \in Nat : m <= n => f[m] <= 2 * m}
<1>4. 0 \in S
  BY <1>3
<1>5. ASSUME NEW m \in S PROVE m + 1 \in S
  <2> SUFFICES ASSUME m + 1 <= n PROVE f[m + 1] <= 2 * (m + 1)
    OBVIOUS
  <2>1. m \in Nat /\ m \in 0..n /\ m + 1 \in 1..n /\ (m + 1) - 1 = m /\ f[m] <= 2 * m
    BY <1>1
  <2>2. f[m + 1] = f[m] + s[m + 1] /\ f[m] \in Nat /\ s[m + 1] \in Nat /\ s[m + 1] <= 2
    BY <1>1, <1>3, <2>1
  <2> QED
    BY <2>1, <2>2
<1>6. \A m \in Nat : m \in S
  <2> HIDE DEF S
  <2>1. S \in SUBSET Nat
    BY DEF S
  <2> QED
    BY <1>4, <1>5, <2>1, SetInduction
<1>7. n \in 0..n /\ f[n] <= 2 * n
  BY <1>1, <1>6
<1> QED
  BY <1>2, <1>3, <1>7

(* and at least one for each that is not 0, and another for each above 1.  *)
Least(s, m, k) == {i \in 1..m : s[i] >= k}

LEMMA LeastGrows ==
    ASSUME NEW s \in Seq(Nat), NEW m \in Nat, m + 1 <= Len(s), NEW k \in Nat
    PROVE  /\ Cardinality(Least(s, m, k)) \in Nat
           /\ Cardinality(Least(s, m + 1, k)) =
                 Cardinality(Least(s, m, k)) + (IF s[m + 1] >= k THEN 1 ELSE 0)
<1> DEFINE A == Least(s, m, k)
           C == Least(s, m + 1, k)
<1>1. IsFiniteSet(A) /\ Cardinality(A) \in Nat
  <2>1. A \in SUBSET (1..m) /\ IsFiniteSet(1..m)
    BY FS_Interval DEF Least
  <2> HIDE DEF A
  <2> QED
    BY <2>1, FS_Subset, FS_CardinalityType
<1>2. \A i \in 1..(m + 1) : i \in 1..m \/ i = m + 1
  OBVIOUS
<1>3. (1..m) \subseteq 1..(m + 1) /\ m + 1 \in 1..(m + 1) /\ m + 1 \notin 1..m
  OBVIOUS
<1>4. CASE s[m + 1] >= k
  <2>1. C = A \cup {m + 1} /\ m + 1 \notin A
    BY <1>2, <1>3, <1>4 DEF Least
  <2> HIDE DEF A, C
  <2>2. Cardinality(C) = Cardinality(A) + 1
    BY <1>1, <2>1, FS_AddElement
  <2> QED
    BY <1>1, <1>4, <2>2 DEF A, C
<1>5. CASE ~(s[m + 1] >= k)
  <2>1. C = A
    BY <1>2, <1>3, <1>5 DEF Least
  <2> HIDE DEF A, C
  <2>2. Cardinality(C) = Cardinality(A) + 0
    BY <1>1, <2>1
  <2> QED
    BY <1>1, <1>5, <2>2 DEF A, C
<1> QED
  BY <1>4, <1>5

LEMMA TotalAtLeast ==
    ASSUME NEW s \in Seq(Nat)
    PROVE  /\ Total(s) \in Nat
           /\ Cardinality(Least(s, Len(s), 1)) \in Nat /\ Cardinality(Least(s, Len(s), 2)) \in Nat
           /\ Total(s) >= Cardinality(Least(s, Len(s), 1)) + Cardinality(Least(s, Len(s), 2))
<1> DEFINE n == Len(s)
           one(m) == Cardinality(Least(s, m, 1))
           two(m) == Cardinality(Least(s, m, 2))
<1>1. n \in Nat /\ \A i \in 1..n : s[i] \in Nat
  OBVIOUS
<1>2. PICK f : Sums(f, s) /\ Total(s) = f[n]
  BY TotalUnfolds
<1>3. f \in [0..n -> Nat] /\ f[0] = 0 /\ \A i \in 1..n : f[i] = f[i - 1] + s[i]
  BY <1>2 DEF Sums
<1> DEFINE S == {m \in Nat : m <= n => one(m) \in Nat /\ two(m) \in Nat /\ f[m] >= one(m) + two(m)}
<1>4. 0 \in S
  <2>1. Least(s, 0, 1) = {} /\ Least(s, 0, 2) = {}
    BY DEF Least
  <2>2. one(0) = 0 /\ two(0) = 0
    BY <2>1, FS_EmptySet
  <2> HIDE DEF one, two
  <2> QED
    BY <1>3, <2>2
<1>5. ASSUME NEW m \in S PROVE m + 1 \in S
  <2> SUFFICES ASSUME m + 1 <= n
               PROVE  /\ one(m + 1) \in Nat /\ two(m + 1) \in Nat
                      /\ f[m + 1] >= one(m + 1) + two(m + 1)
    <3> HIDE DEF one, two
    <3> QED
      OBVIOUS
  <2>1. /\ m \in Nat /\ m \in 0..n /\ m + 1 \in 1..n /\ (m + 1) - 1 = m
        /\ one(m) \in Nat /\ two(m) \in Nat /\ f[m] >= one(m) + two(m)
    <3> HIDE DEF one, two
    <3> QED
      BY <1>1
  <2>2. f[m + 1] = f[m] + s[m + 1] /\ f[m] \in Nat /\ s[m + 1] \in Nat
    BY <1>1, <1>3, <2>1
  <2>3. /\ one(m + 1) = one(m) + (IF s[m + 1] >= 1 THEN 1 ELSE 0)
        /\ two(m + 1) = two(m) + (IF s[m + 1] >= 2 THEN 1 ELSE 0)
    <3>1. m + 1 <= Len(s)
      OBVIOUS
    <3> QED
      BY <2>1, <3>1, LeastGrows
  <2> HIDE DEF one, two
  <2>4. s[m + 1] = 0 \/ s[m + 1] = 1 \/ s[m + 1] >= 2
    BY <2>2
  <2>5. CASE s[m + 1] = 0
    <3>1. one(m + 1) = one(m) /\ two(m + 1) = two(m) /\ f[m + 1] = f[m]
      BY <2>1, <2>2, <2>3, <2>5
    <3> QED
      BY <2>1, <3>1
  <2>6. CASE s[m + 1] = 1
    <3>1. one(m + 1) = one(m) + 1 /\ two(m + 1) = two(m) /\ f[m + 1] = f[m] + 1
      BY <2>1, <2>2, <2>3, <2>6
    <3> QED
      BY <2>1, <2>2, <3>1
  <2>7. CASE s[m + 1] >= 2
    <3>1. one(m + 1) = one(m) + 1 /\ two(m + 1) = two(m) + 1 /\ f[m + 1] >= f[m] + 2
      BY <2>1, <2>2, <2>3, <2>7
    <3>2. f[m + 1] \in Nat /\ f[m] >= one(m) + two(m) /\ one(m) \in Nat /\ two(m) \in Nat
      BY <2>1, <2>2
    <3>3. \A a, b, x, y \in Nat : x >= a + b /\ y >= x + 2 => y >= (a + 1) + (b + 1)
      OBVIOUS
    <3>4. f[m + 1] >= (one(m) + 1) + (two(m) + 1)
      BY <2>2, <3>1, <3>2, <3>3
    <3> QED
      BY <3>1, <3>2, <3>4
  <2> QED
    BY <2>4, <2>5, <2>6, <2>7
<1>6. \A m \in Nat : m \in S
  <2> HIDE DEF S
  <2>1. S \in SUBSET Nat
    BY DEF S
  <2> QED
    BY <1>4, <1>5, <2>1, SetInduction
<1>7. n \in 0..n /\ one(n) \in Nat /\ two(n) \in Nat /\ f[n] >= one(n) + two(n)
  <2> HIDE DEF one, two
  <2> QED
    BY <1>1, <1>6
<1> QED
  BY <1>2, <1>3, <1>7

Identifier == [name : STRING, type : STRING]
NamedType == {id \in Identifier : Spelling(id.name) \in Word}

(***************************************************************************)
(* What the deobfuscator holds once it has observed a sequence of nodes.   *)
(***************************************************************************)
Brought(nodes) == [i \in DOMAIN nodes |-> NamesOfNode(nodes[i])]
Counting(nodes, c) == {i \in DOMAIN nodes : CounterOf(nodes[i]) = c}
TextsIn(nodes) == UNION {Range(TextsOf(nodes[i])) : i \in DOMAIN nodes}
IsRecord(d) ==
    d = [identifiers |-> d.identifiers, counts |-> d.counts, scores |-> d.scores,
         dictionary |-> d.dictionary, morse |-> d.morse]
ScoresOf(texts) == {Texture(text).score : text \in texts}
Holds(d, nodes) ==
    /\ IsRecord(d)
    /\ d.identifiers = FlattenSeq(Brought(nodes))
    /\ d.counts = [c \in Counter |-> Cardinality(Counting(nodes, c))]
    /\ d.morse = {text \in TextsIn(nodes) : Texture(text).morse}
    /\ d.scores \in Seq(ScoresOf(TextsIn(nodes)))

LEMMA TaggedIs ==
    ASSUME NEW type \in STRING, NEW names \in Seq(STRING),
           \A name \in Range(names) : Spelling(name) \in Word
    PROVE  /\ Tagged(type, names) \in Seq(NamedType)
           /\ Len(Tagged(type, names)) = Len(names)
<1>1. /\ Len(names) \in Nat /\ DOMAIN names = 1..Len(names)
      /\ \A i \in 1..Len(names) : names[i] \in STRING
  OBVIOUS
<1>2. Tagged(type, names) = [i \in 1..Len(names) |-> [name |-> names[i], type |-> type]]
  BY <1>1 DEF Tagged
<1>3. \A i \in 1..Len(names) : Spelling(names[i]) \in Word
  BY <1>1 DEF Range
<1>4. \A i \in 1..Len(names) : [name |-> names[i], type |-> type] \in NamedType
  BY <1>1, <1>3 DEF Identifier, NamedType
<1>5. [i \in 1..Len(names) |-> [name |-> names[i], type |-> type]] \in Seq(NamedType)
  BY <1>1, <1>4
<1>6. Len([i \in 1..Len(names) |-> [name |-> names[i], type |-> type]]) = Len(names)
  BY <1>1
<1> QED
  BY <1>2, <1>5, <1>6

(* What DeobfuscatorAssumption says of one node.                           *)
LEMMA NodeFacts ==
    ASSUME NEW node \in Node
    PROVE  /\ Extracted(node) \in Seq(NamedType)
           /\ Tagged(node.type, CountedNames(node)) \in Seq(NamedType)
           /\ Len(Tagged(node.type, CountedNames(node))) = Len(CountedNames(node))
           /\ NamesOfNode(node) \in Seq(NamedType)
           /\ TextsOf(node) \in Seq(Text) /\ Range(TextsOf(node)) \in SUBSET Text
<1>1. /\ node.type \in STRING /\ TextsOf(node) \in Seq(Text)
      /\ Extracted(node) \in Seq(Identifier) /\ CountedNames(node) \in Seq(STRING)
      /\ \A name \in Range(CountedNames(node)) : Spelling(name) \in Word
      /\ \A id \in Range(Extracted(node)) : Spelling(id.name) \in Word
  BY DeobfuscatorAssumption DEF Identifier, Word
<1>2. Extracted(node) \in Seq(NamedType)
  <2> DEFINE E == Extracted(node)
  <2>1. E \in Seq(Identifier) /\ \A id \in Range(E) : Spelling(id.name) \in Word
    BY <1>1
  <2> HIDE DEF E
  <2>2. \A i \in 1..Len(E) : E[i] \in NamedType
    <3>1. DOMAIN E = 1..Len(E) /\ \A i \in 1..Len(E) : E[i] \in Identifier
      BY <2>1
    <3> QED
      BY <2>1, <3>1 DEF NamedType, Range
  <2>3. E \in Seq(NamedType)
    <3>1. E = [i \in 1..Len(E) |-> E[i]] /\ Len(E) \in Nat
      BY <2>1
    <3> QED
      BY <2>2, <3>1
  <2> QED
    BY <2>3 DEF E
<1>3. /\ Tagged(node.type, CountedNames(node)) \in Seq(NamedType)
      /\ Len(Tagged(node.type, CountedNames(node))) = Len(CountedNames(node))
  BY <1>1, TaggedIs
<1>4. NamesOfNode(node) \in Seq(NamedType)
  BY <1>2, <1>3, ConcatProperties DEF NamesOfNode
<1>5. Range(TextsOf(node)) \in SUBSET Text
  <2> DEFINE t == TextsOf(node)
  <2>1. t \in Seq(Text)
    BY <1>1
  <2> HIDE DEF t
  <2>2. DOMAIN t = 1..Len(t) /\ \A i \in 1..Len(t) : t[i] \in Text
    BY <2>1
  <2>3. Range(t) \in SUBSET Text
    BY <2>2 DEF Range
  <2> QED
    BY <2>3 DEF t
<1> QED
  BY <1>1, <1>2, <1>3, <1>4, <1>5

(* One node more.                                                          *)
LEMMA AppendIs ==
    ASSUME NEW nodes \in Seq(Node), NEW node \in Node
    PROVE  /\ Append(nodes, node) \in Seq(Node)
           /\ Len(nodes) \in Nat /\ DOMAIN nodes = 1..Len(nodes)
           /\ DOMAIN Append(nodes, node) = 1..(Len(nodes) + 1)
           /\ \A i \in 1..Len(nodes) : Append(nodes, node)[i] = nodes[i] /\ nodes[i] \in Node
           /\ Append(nodes, node)[Len(nodes) + 1] = node
           /\ \A i \in 1..(Len(nodes) + 1) : i \in 1..Len(nodes) \/ i = Len(nodes) + 1
           /\ Len(nodes) + 1 \in 1..(Len(nodes) + 1)
           /\ (1..Len(nodes)) \subseteq 1..(Len(nodes) + 1)
           /\ Len(nodes) + 1 \notin 1..Len(nodes)
OBVIOUS

LEMMA BroughtGrows ==
    ASSUME NEW nodes \in Seq(Node), NEW node \in Node
    PROVE  /\ FlattenSeq(Brought(Append(nodes, node)))
                 = FlattenSeq(Brought(nodes)) \o NamesOfNode(node)
           /\ FlattenSeq(Brought(nodes)) \in Seq(NamedType)
<1> DEFINE n == Len(nodes)
           old == Brought(nodes)
           new == Brought(Append(nodes, node))
           last == NamesOfNode(node)
<1>1. n \in Nat /\ last \in Seq(NamedType)
  BY NodeFacts
<1>2. /\ old = [i \in 1..n |-> NamesOfNode(nodes[i])]
      /\ \A i \in 1..n : NamesOfNode(nodes[i]) \in Seq(NamedType)
  BY AppendIs, NodeFacts DEF Brought
<1>3. old \in Seq(Seq(NamedType)) /\ Len(old) = n
  BY <1>1, <1>2
<1>4. new = [i \in 1..(n + 1) |-> NamesOfNode(Append(nodes, node)[i])]
  BY AppendIs DEF Brought
<1>5. Len(new) = n + 1 /\ new[n + 1] = last /\ \A i \in 1..n : new[i] = old[i]
  BY <1>1, <1>2, <1>4, AppendIs
<1> HIDE DEF old, new, last, n
<1>6. FlattenSeq(new) = FlattenSeq(old) \o last
  <2>1. Len(new) = Len(old) + 1 /\ new[Len(new)] = last /\ \A i \in 1..Len(old) : new[i] = old[i]
    BY <1>3, <1>5
  <2> QED
    BY <1>1, <1>3, <2>1, FlattenLast
<1>7. FlattenSeq(old) \in Seq(NamedType)
  BY <1>3, FlattenType
<1> QED
  BY <1>6, <1>7 DEF old, new, last

LEMMA CountingGrows ==
    ASSUME NEW nodes \in Seq(Node), NEW node \in Node, NEW c
    PROVE  /\ IsFiniteSet(Counting(nodes, c)) /\ Cardinality(Counting(nodes, c)) \in Nat
           /\ c = CounterOf(node) => Cardinality(Counting(Append(nodes, node), c))
                                        = Cardinality(Counting(nodes, c)) + 1
           /\ c # CounterOf(node) => Cardinality(Counting(Append(nodes, node), c))
                                        = Cardinality(Counting(nodes, c))
<1> DEFINE A == Counting(nodes, c)
           C == Counting(Append(nodes, node), c)
           n == Len(nodes)
<1>1. IsFiniteSet(A) /\ Cardinality(A) \in Nat /\ n + 1 \notin A
  <2>0. n \in Int /\ IsFiniteSet(1..n)
    BY FS_Interval
  <2>1. A \in SUBSET (1..n) /\ IsFiniteSet(1..n)
    BY <2>0, AppendIs DEF Counting
  <2>2. n + 1 \notin 1..n
    OBVIOUS
  <2> HIDE DEF A
  <2> QED
    BY <2>1, <2>2, FS_Subset, FS_CardinalityType
<1>2. c = CounterOf(node) => C = A \cup {n + 1}
  BY AppendIs DEF Counting
<1>3. c # CounterOf(node) => C = A
  BY AppendIs DEF Counting
<1> HIDE DEF A, C
<1> QED
  BY <1>1, <1>2, <1>3, FS_AddElement DEF A, C

LEMMA TextsGrow ==
    ASSUME NEW nodes \in Seq(Node), NEW node \in Node
    PROVE  TextsIn(Append(nodes, node)) = TextsIn(nodes) \cup Range(TextsOf(node))
<1> DEFINE all == Append(nodes, node)
           n == Len(nodes)
<1>1. TextsIn(all) = UNION {Range(TextsOf(all[i])) : i \in 1..(n + 1)}
  BY AppendIs DEF TextsIn
<1>2. TextsIn(nodes) = UNION {Range(TextsOf(nodes[i])) : i \in 1..n}
  BY AppendIs DEF TextsIn
<1>3. all[n + 1] = node /\ \A i \in 1..n : all[i] = nodes[i]
  BY AppendIs
<1>4. /\ \A i \in 1..(n + 1) : i \in 1..n \/ i = n + 1
      /\ n + 1 \in 1..(n + 1) /\ (1..n) \subseteq 1..(n + 1)
  BY AppendIs
<1> HIDE DEF all, n
<1> QED
  BY <1>1, <1>2, <1>3, <1>4 DEF all

Scores(texts) == [i \in DOMAIN texts |-> IF Texture(texts[i]).score = 0 THEN << >>
                                         ELSE <<Texture(texts[i]).score>>]

LEMMA ScoresGrow ==
    ASSUME NEW nodes \in Seq(Node), NEW node \in Node,
           NEW scores \in Seq(ScoresOf(TextsIn(nodes)))
    PROVE  scores \o FlattenSeq(Scores(TextsOf(node)))
              \in Seq(ScoresOf(TextsIn(Append(nodes, node))))
<1> DEFINE texts == TextsOf(node)
           S == ScoresOf(TextsIn(nodes))
           T == ScoresOf(TextsIn(Append(nodes, node)))
           flat == FlattenSeq(Scores(texts))
<1>1. texts \in Seq(Text) /\ DOMAIN texts = 1..Len(texts) /\ Len(texts) \in Nat
  <2>1. texts \in Seq(Text)
    BY NodeFacts
  <2> QED
    BY <2>1
<1>2. TextsIn(Append(nodes, node)) = TextsIn(nodes) \cup Range(texts)
  BY TextsGrow
<1>3. S \subseteq T
  BY <1>2 DEF ScoresOf
<1>4. \A i \in 1..Len(texts) : Texture(texts[i]).score \in T
  BY <1>1, <1>2 DEF ScoresOf, Range
<1> HIDE DEF texts, S, T
<1>5. Scores(texts) \in Seq(Seq(T))
  <2>1. Scores(texts) = [i \in 1..Len(texts) |-> IF Texture(texts[i]).score = 0 THEN << >>
                                                  ELSE <<Texture(texts[i]).score>>]
    BY <1>1 DEF Scores
  <2>2. \A i \in 1..Len(texts) : (IF Texture(texts[i]).score = 0 THEN << >>
                                                  ELSE <<Texture(texts[i]).score>>) \in Seq(T)
    BY <1>4
  <2> QED
    BY <1>1, <2>1, <2>2
<1>6. flat \in Seq(T)
  BY <1>5, FlattenType
<1>7. scores \in Seq(T)
  <2>1. scores \in Seq(S)
    BY DEF S
  <2>2. \A i \in 1..Len(scores) : scores[i] \in T
    BY <1>3, <2>1
  <2>3. scores = [i \in 1..Len(scores) |-> scores[i]] /\ Len(scores) \in Nat
    BY <2>1
  <2> QED
    BY <2>2, <2>3
<1> HIDE DEF flat
<1>8. scores \o flat \in Seq(T)
  BY <1>6, <1>7, ConcatProperties
<1> QED
  BY <1>8 DEF flat, T, texts

LEMMA ObservedIs ==
    ASSUME NEW d, IsRecord(d), NEW node
    PROVE  /\ IsRecord(Observed(d, node))
           /\ Observed(d, node).identifiers = d.identifiers \o Extracted(node)
                 \o Tagged(node.type, CountedNames(node))
           /\ Observed(d, node).counts =
                 [c \in Counter |-> IF c = CounterOf(node) THEN d.counts[c] + 1 ELSE d.counts[c]]
           /\ Observed(d, node).scores = d.scores \o FlattenSeq(Scores(TextsOf(node)))
           /\ Observed(d, node).morse =
                 d.morse \cup {text \in Range(TextsOf(node)) : Texture(text).morse}
<1> DEFINE e == Counted(d, node)
           texts == TextsOf(node)
           ids == d.identifiers \o Extracted(node) \o Tagged(node.type, CountedNames(node))
           counts == [c \in Counter |->
                         IF c = CounterOf(node) THEN d.counts[c] + 1 ELSE d.counts[c]]
<1>1. e = [identifiers |-> ids, counts |-> counts, scores |-> d.scores,
           dictionary |-> d.dictionary, morse |-> d.morse]
  <2>1. e = [d EXCEPT !.identifiers = ids, !.counts = counts]
    BY DEF Counted
  <2> HIDE DEF e, ids, counts
  <2> QED
    BY <2>1 DEF IsRecord
<1> DEFINE scores == d.scores \o FlattenSeq(Scores(texts))
           dictionary == d.dictionary \/ \E i \in DOMAIN texts : Texture(texts[i]).dictionary
           morse == d.morse \cup {text \in Range(texts) : Texture(text).morse}
<1> HIDE DEF ids, counts, texts
<1>2. StringsAnalysed(e, texts) = [identifiers |-> ids, counts |-> counts, scores |-> scores,
                                   dictionary |-> dictionary, morse |-> morse]
  <2>1. e.scores = d.scores /\ e.dictionary = d.dictionary /\ e.morse = d.morse
    <3> HIDE DEF e
    <3> QED
      BY <1>1
  <2>2. StringsAnalysed(e, texts) =
          [e EXCEPT !.scores = e.scores \o FlattenSeq(Scores(texts)),
                    !.dictionary = e.dictionary
                                     \/ \E i \in DOMAIN texts : Texture(texts[i]).dictionary,
                    !.morse = e.morse \cup {text \in Range(texts) : Texture(text).morse}]
    <3> HIDE DEF e
    <3> QED
      BY DEF StringsAnalysed, Scores
  <2>3. StringsAnalysed(e, texts) =
          [e EXCEPT !.scores = scores, !.dictionary = dictionary, !.morse = morse]
    <3> HIDE DEF e
    <3> QED
      BY <2>1, <2>2
  <2> HIDE DEF e, scores, dictionary, morse
  <2> QED
    BY <1>1, <2>3
<1>3. Observed(d, node) = StringsAnalysed(e, texts)
  BY DEF Observed, e, texts
<1> HIDE DEF e, scores, dictionary, morse
<1> QED
  BY <1>2, <1>3 DEF texts, ids, counts, scores, morse, IsRecord

LEMMA ObservedHolds ==
    ASSUME NEW nodes \in Seq(Node), NEW node \in Node, NEW d, Holds(d, nodes)
    PROVE  Holds(Observed(d, node), Append(nodes, node))
<1> DEFINE e == Observed(d, node)
           all == Append(nodes, node)
<1>1. /\ IsRecord(d) /\ d.identifiers = FlattenSeq(Brought(nodes))
      /\ d.counts = [c \in Counter |-> Cardinality(Counting(nodes, c))]
      /\ d.morse = {text \in TextsIn(nodes) : Texture(text).morse}
      /\ d.scores \in Seq(ScoresOf(TextsIn(nodes)))
  BY DEF Holds
<1>2. IsRecord(e)
  BY <1>1, ObservedIs
<1>3. e.identifiers = FlattenSeq(Brought(all))
  <2> DEFINE x == d.identifiers
             y == Extracted(node)
             z == Tagged(node.type, CountedNames(node))
  <2>1. x \in Seq(NamedType) /\ y \in Seq(NamedType) /\ z \in Seq(NamedType)
    BY <1>1, BroughtGrows, NodeFacts
  <2>2. e.identifiers = (x \o y) \o z
    BY <1>1, ObservedIs
  <2>3. FlattenSeq(Brought(all)) = x \o (y \o z)
    BY <1>1, BroughtGrows DEF NamesOfNode
  <2> HIDE DEF x, y, z
  <2>4. (x \o y) \o z = x \o (y \o z)
    BY <2>1, Associative DEF Associates
  <2> QED
    BY <2>2, <2>3, <2>4
<1>4. e.counts = [c \in Counter |-> Cardinality(Counting(all, c))]
  <2>1. e.counts = [c \in Counter |-> IF c = CounterOf(node) THEN d.counts[c] + 1 ELSE d.counts[c]]
    BY <1>1, ObservedIs
  <2>2. ASSUME NEW c \in Counter
        PROVE  (IF c = CounterOf(node) THEN d.counts[c] + 1 ELSE d.counts[c])
                  = Cardinality(Counting(all, c))
    <3>1. d.counts[c] = Cardinality(Counting(nodes, c))
      BY <1>1
    <3> QED
      BY <3>1, CountingGrows
  <2> QED
    BY <2>1, <2>2
<1>5. e.morse = {text \in TextsIn(all) : Texture(text).morse}
  <2>1. e.morse = d.morse \cup {text \in Range(TextsOf(node)) : Texture(text).morse}
    BY <1>1, ObservedIs
  <2>2. TextsIn(all) = TextsIn(nodes) \cup Range(TextsOf(node))
    BY TextsGrow
  <2> HIDE DEF e, all
  <2> QED
    BY <1>1, <2>1, <2>2
<1>6. e.scores \in Seq(ScoresOf(TextsIn(all)))
  <2>1. e.scores = d.scores \o FlattenSeq(Scores(TextsOf(node)))
    BY <1>1, ObservedIs
  <2> QED
    BY <1>1, <2>1, ScoresGrow
<1> HIDE DEF e, all
<1>7. Holds(e, all)
  BY <1>2, <1>3, <1>4, <1>5, <1>6 DEF Holds
<1> QED
  BY <1>7 DEF e, all

LEMMA NewHolds == Holds(NewDeobfuscator, << >>)
<1> DEFINE e == << >>
<1>1. DOMAIN e = {}
  OBVIOUS
<1>2. Brought(e) = << >>
  BY DEF Brought
<1>3. FlattenSeq(Brought(e)) = << >>
  <2>1. Len(<< >>) = 0
    OBVIOUS
  <2> QED
    BY <1>2, <2>1 DEF FlattenSeq
<1>4. ASSUME NEW c PROVE Cardinality(Counting(e, c)) = 0
  BY <1>1, FS_EmptySet DEF Counting
<1>5. TextsIn(e) = {}
  BY <1>1 DEF TextsIn
<1>6. << >> \in Seq(ScoresOf(TextsIn(e)))
  OBVIOUS
<1> HIDE DEF e
<1>7. Holds(NewDeobfuscator, e)
  <2>1. /\ NewDeobfuscator.identifiers = << >> /\ NewDeobfuscator.scores = << >>
        /\ NewDeobfuscator.counts = [c \in Counter |-> 0] /\ NewDeobfuscator.morse = {}
        /\ IsRecord(NewDeobfuscator)
    BY DEF NewDeobfuscator, IsRecord
  <2>2. [c \in Counter |-> 0] = [c \in Counter |-> Cardinality(Counting(e, c))]
    BY <1>4
  <2> QED
    BY <1>3, <1>5, <1>6, <2>1, <2>2 DEF Holds
<1> QED
  BY <1>7 DEF e

LEMMA BroughtIs ==
    ASSUME NEW nodes \in Seq(Node)
    PROVE  FlattenSeq(Brought(nodes)) \in Seq(NamedType)
<1> DEFINE n == Len(nodes)
           all == Brought(nodes)
<1>1. n \in Nat /\ DOMAIN nodes = 1..n /\ \A i \in 1..n : nodes[i] \in Node
  OBVIOUS
<1>2. /\ all = [i \in 1..n |-> NamesOfNode(nodes[i])]
      /\ \A i \in 1..n : NamesOfNode(nodes[i]) \in Seq(NamedType)
  BY <1>1, NodeFacts DEF Brought
<1>3. all \in Seq(Seq(NamedType))
  BY <1>1, <1>2
<1> HIDE DEF all
<1> QED
  BY <1>3, FlattenType DEF all

(***************************************************************************)
(* The inductive invariant: the counters are those of what was met, and a  *)
(* verdict, once given, is that of the counters.                           *)
(***************************************************************************)
KeptInv ==
    /\ seen \in Seq(Node) /\ Holds(deobfuscator, seen)
    /\ NamesCoverProperties
    /\ verdict = "Undecided" => warnings = {}
    /\ verdict # "Undecided" =>
          /\ verdict = Verdict(deobfuscator)
          /\ \E isMinified \in BOOLEAN : warnings = Summary(deobfuscator, isMinified)

(* What the identifiers are, and how they are spelled.                     *)
LEMMA Named ==
    ASSUME KeptInv
    PROVE  /\ deobfuscator.identifiers = NamesMet /\ NamesMet \in Seq(NamedType)
           /\ DOMAIN NamesMet = 1..Len(NamesMet) /\ Len(NamesMet) \in Nat
           /\ \A i \in 1..Len(NamesMet) : NamesMet[i] \in NamedType
           /\ Spelled \in Seq(Word) /\ DOMAIN Spelled = 1..Len(NamesMet)
           /\ \A i \in 1..Len(NamesMet) : /\ Spelled[i] = Spelling(NamesMet[i].name)
                                          /\ Spelled[i] \in Word /\ FirstOf(i) = Spelled[i][1]
           /\ Firsts(Spelled) = Initials
           /\ \A c : Alike(Spelled, c) = Beginning({c})
<1> DEFINE n == Len(NamesMet)
<1>1. deobfuscator.identifiers = NamesMet /\ NamesMet \in Seq(NamedType)
  <2>1. deobfuscator.identifiers = FlattenSeq(Brought(seen)) /\ seen \in Seq(Node)
    BY DEF KeptInv, Holds
  <2> QED
    BY <2>1, BroughtIs DEF NamesMet, Brought
<1>2. n \in Nat /\ DOMAIN NamesMet = 1..n /\ \A i \in 1..n : NamesMet[i] \in NamedType
  BY <1>1
<1>3. Spelled = [i \in 1..n |-> Spelling(NamesMet[i].name)]
  BY <1>1, <1>2 DEF Spelled
<1>4. \A i \in 1..n : Spelling(NamesMet[i].name) \in Word
  BY <1>2 DEF NamedType
<1>5. Spelled \in Seq(Word) /\ DOMAIN Spelled = 1..n
  BY <1>2, <1>3, <1>4
<1>6. \A i \in 1..n : /\ Spelled[i] = Spelling(NamesMet[i].name)
                      /\ Spelled[i] \in Word /\ FirstOf(i) = Spelled[i][1]
  BY <1>3, <1>4 DEF FirstOf
<1>7. Firsts(Spelled) = Initials
  BY <1>2, <1>5, <1>6 DEF Firsts, Initials
<1>8. ASSUME NEW c PROVE Alike(Spelled, c) = Beginning({c})
  BY <1>2, <1>5, <1>6 DEF Alike, Beginning
<1> QED
  BY <1>1, <1>2, <1>5, <1>6, <1>7, <1>8

(* PrefixesAreGroups follows.                                              *)
LEMMA InvPrefixes ==
    ASSUME KeptInv
    PROVE  PrefixesAreGroups
BY Named, GroupsAreRight DEF PrefixesAreGroups

(* The counters are the numbers of the nodes they are of.                  *)
LEMMA Counters ==
    ASSUME KeptInv
    PROVE  /\ \A c \in Counter : /\ IsFiniteSet(Counting(seen, c))
                                 /\ Cardinality(Counting(seen, c)) \in Nat
                                 /\ deobfuscator.counts[c] = Cardinality(Counting(seen, c))
           /\ Counting(seen, "Property") = NamedProperties
           /\ Counting(seen, "DoubleUnaryExpression") = DoubleUnaries
           /\ Counting(seen, "StaticMember") = Dotted
           /\ \A type \in {"VariableDeclarator", "FunctionDeclaration", "AssignmentExpression"} :
                 Counting(seen, type) = Met(type)
<1>1. seen \in Seq(Node) /\ deobfuscator.counts = [c \in Counter |-> Cardinality(Counting(seen, c))]
  BY DEF KeptInv, Holds
<1>2. ASSUME NEW c PROVE IsFiniteSet(Counting(seen, c)) /\ Cardinality(Counting(seen, c)) \in Nat
  <2> DEFINE A == Counting(seen, c)
             n == Len(seen)
  <2>1. n \in Int /\ DOMAIN seen = 1..n
    BY <1>1
  <2>2. IsFiniteSet(1..n) /\ A \in SUBSET (1..n)
    BY <2>1, FS_Interval DEF Counting
  <2> HIDE DEF A
  <2> QED
    BY <2>2, FS_Subset, FS_CardinalityType DEF A
<1>3. ASSUME NEW node
      PROVE  CounterOf(node) = "Property" <=> node.type = "Property" /\ IsName(node.key)
  BY DEF CounterOf, IsDoubleUnary
<1>4. ASSUME NEW node PROVE CounterOf(node) = "DoubleUnaryExpression" <=> IsDoubleUnary(node)
  BY DEF CounterOf, IsDoubleUnary
<1>5. ASSUME NEW node
      PROVE  CounterOf(node) = "StaticMember" <=> node.type = "MemberExpression" /\ ~node.computed
  BY DEF CounterOf, IsDoubleUnary
<1>6. ASSUME NEW node,
             NEW type \in {"VariableDeclarator", "FunctionDeclaration", "AssignmentExpression"}
      PROVE  CounterOf(node) = type <=> node.type = type
  BY DEF CounterOf, IsDoubleUnary
<1>7. Counting(seen, "Property") = NamedProperties
  BY <1>3 DEF Counting, NamedProperties, Met
<1>8. Counting(seen, "DoubleUnaryExpression") = DoubleUnaries
  BY <1>4 DEF Counting, DoubleUnaries
<1>9. Counting(seen, "StaticMember") = Dotted
  BY <1>5 DEF Counting, Dotted, Met
<1>10. \A type \in {"VariableDeclarator", "FunctionDeclaration", "AssignmentExpression"} :
                 Counting(seen, type) = Met(type)
  BY <1>6 DEF Counting, Met
<1> QED
  BY <1>1, <1>2, <1>7, <1>8, <1>9, <1>10

LEMMA CounterIsEmpty ==
    ASSUME KeptInv, NEW c \in Counter, deobfuscator.counts[c] = 0
    PROVE  Counting(seen, c) = {}
BY Counters, FS_EmptySet

(***************************************************************************)
(* VerdictsHaveGrounds follows, verdict by verdict.                        *)
(***************************************************************************)
LEMMA JsfuckHasGrounds ==
    ASSUME KeptInv, IsJsfuck(deobfuscator)
    PROVE  /\ Cardinality(DoubleUnaries) >= 5 /\ NamedProperties = {}
           /\ Met("AssignmentExpression") \cup Met("FunctionDeclaration")
                 \cup Met("VariableDeclarator") = {}
<1>1. /\ deobfuscator.counts["AssignmentExpression"] = 0
      /\ deobfuscator.counts["FunctionDeclaration"] = 0
      /\ deobfuscator.counts["VariableDeclarator"] = 0
      /\ deobfuscator.counts["Property"] = 0
      /\ deobfuscator.counts["DoubleUnaryExpression"] >= 5
  BY DEF IsJsfuck, MinimumDoubleUnary
<1>2. {"AssignmentExpression", "FunctionDeclaration", "VariableDeclarator", "Property",
       "DoubleUnaryExpression"} \subseteq Counter
  BY DEF Counter
<1>3. /\ Counting(seen, "AssignmentExpression") = {} /\ Counting(seen, "FunctionDeclaration") = {}
      /\ Counting(seen, "VariableDeclarator") = {} /\ Counting(seen, "Property") = {}
  BY <1>1, <1>2, CounterIsEmpty
<1>4. deobfuscator.counts["DoubleUnaryExpression"] = Cardinality(DoubleUnaries)
  BY <1>2, Counters
<1> QED
  BY <1>1, <1>3, <1>4, Counters

LEMMA JjencodeHasGrounds ==
    ASSUME KeptInv, IsJjencode(deobfuscator)
    PROVE  /\ Met("VariableDeclarator") \cup Met("FunctionDeclaration") = {}
           /\ 5 * Cardinality(Beginning({36, 95})) > 4 * Len(NamesMet)
<1> DEFINE n == Len(NamesMet)
           A == {i \in 1..n : \A char \in Range(Spelling(NamesMet[i].name)) : IsSymbol(char)}
           C == Beginning({36, 95})
<1>1. /\ deobfuscator.counts["VariableDeclarator"] = 0
      /\ deobfuscator.counts["FunctionDeclaration"] = 0
  BY DEF IsJjencode
<1>2. Counting(seen, "VariableDeclarator") = {} /\ Counting(seen, "FunctionDeclaration") = {}
  <2>1. {"VariableDeclarator", "FunctionDeclaration"} \subseteq Counter
    BY DEF Counter
  <2> QED
    BY <1>1, <2>1, CounterIsEmpty
<1>3. Met("VariableDeclarator") \cup Met("FunctionDeclaration") = {}
  BY <1>2, Counters
<1>4. Cardinality(A) * 100 > 80 * n
  <2>1. deobfuscator.identifiers = NamesMet /\ DOMAIN NamesMet = 1..n
    BY Named
  <2> QED
    BY <2>1 DEF IsJjencode, MostOf
<1>5. n \in Nat /\ IsFiniteSet(1..n) /\ C \in SUBSET (1..n)
  <2>1. n \in Nat /\ DOMAIN NamesMet = 1..n
    BY Named
  <2> HIDE DEF n
  <2> QED
    BY <2>1, FS_Interval DEF Beginning
<1>6. A \in SUBSET C
  <2>1. ASSUME NEW i \in A PROVE FirstOf(i) \in {36, 95} /\ i \in 1..n
    <3>1. /\ Spelled[i] = Spelling(NamesMet[i].name) /\ Spelled[i] \in Word
          /\ FirstOf(i) = Spelled[i][1]
      BY Named
    <3>2. 1 \in DOMAIN Spelled[i]
      BY <3>1 DEF Word
    <3>3. FirstOf(i) \in Range(Spelling(NamesMet[i].name))
      BY <3>1, <3>2 DEF Range
    <3> QED
      BY <3>3 DEF IsSymbol
  <2>2. DOMAIN NamesMet = 1..n
    BY Named
  <2> QED
    BY <2>1, <2>2 DEF Beginning
<1> HIDE DEF A, C, n
<1>7. IsFiniteSet(C)
  BY <1>5, FS_Subset
<1>8. IsFiniteSet(A) /\ Cardinality(A) <= Cardinality(C)
  BY <1>6, <1>7, FS_Subset
<1>9. Cardinality(A) \in Nat /\ Cardinality(C) \in Nat
  BY <1>7, <1>8, FS_CardinalityType
<1>10. 5 * Cardinality(C) > 4 * n
  BY <1>4, <1>5, <1>8, <1>9
<1> QED
  BY <1>3, <1>10 DEF C, n

LEMMA BeginningFacts ==
    ASSUME KeptInv, NEW chars
    PROVE  IsFiniteSet(Beginning(chars)) /\ Cardinality(Beginning(chars)) \in Nat
           /\ Beginning(chars) \in SUBSET (1..Len(NamesMet))
           /\ Cardinality(Beginning(chars)) <= Len(NamesMet)
<1> DEFINE n == Len(NamesMet)
           C == Beginning(chars)
<1>1. n \in Nat /\ DOMAIN NamesMet = 1..n
  BY Named
<1>2. C \in SUBSET (1..n)
  BY <1>1 DEF Beginning
<1> HIDE DEF C, n
<1>3. IsFiniteSet(1..n) /\ Cardinality(1..n) = n
  BY <1>1, FS_Interval
<1> QED
  BY <1>2, <1>3, FS_Subset, FS_CardinalityType DEF C, n

(* A group is of the names that begin with one character.                  *)
LEMMA GroupFound ==
    ASSUME KeptInv, NEW g \in CommonPrefixGroups(Spelled)
    PROVE  \E c \in Initials : /\ g.count = Cardinality(Beginning({c})) /\ g.count > 1
                               /\ g.prefix \in Word /\ g.prefix[1] = c
                               /\ g = Group(Spelled, c)
<1>1. PICK c \in Firsts(Spelled) : Cardinality(Alike(Spelled, c)) > 1 /\ g = Group(Spelled, c)
  BY Named, GroupsAreRight
<1> DEFINE A == {Spelled[j] : j \in Alike(Spelled, c)}
           L == LongestCommonPrefix(A)
<1>2. g.count = Cardinality(Alike(Spelled, c)) /\ g.prefix = L
  BY <1>1 DEF Group
<1>3. c \in Initials /\ Alike(Spelled, c) = Beginning({c})
  BY <1>1, Named
<1>4. \A j \in Alike(Spelled, c) : Spelled[j] \in Word /\ Spelled[j][1] = c
  BY Named DEF Alike
<1>5. A \in SUBSET Word /\ \A t \in A : t[1] = c
  BY <1>4
<1>6. PICK j \in DOMAIN Spelled : c = Spelled[j][1]
  BY <1>1 DEF Firsts
<1>7. A # {} /\ c \in Nat
  <2>1. j \in Alike(Spelled, c)
    BY <1>6 DEF Alike
  <2>2. Spelled[j] \in Word /\ Spelled[j] \in A
    BY <1>4, <2>1
  <2>3. Spelled[j][1] \in Nat
    BY <2>2, WordFacts
  <2> QED
    BY <1>6, <2>2, <2>3
<1> HIDE DEF A, L
<1>8. A \in SUBSET Seq(Nat)
  BY <1>5 DEF Word
<1>9. IsLongest(L, A)
  BY <1>7, <1>8, LongestExists, LongestIs DEF L
<1>10. L \in Word /\ L[1] = c
  BY <1>5, <1>7, <1>9, LongestBegins
<1> QED
  BY <1>1, <1>2, <1>3, <1>10

LEMMA FreejsHasGrounds ==
    ASSUME KeptInv, IsFreejs(deobfuscator, CommonPrefixGroups(Spelled))
    PROVE  Len(NamesMet) > 1 /\ \E char \in Initials : Initials = {char}
<1> DEFINE n == Len(NamesMet)
<1>1. PICK g \in CommonPrefixGroups(Spelled) :
           \A i \in DOMAIN deobfuscator.identifiers :
              IsFreejsName(g.prefix, Spelling(deobfuscator.identifiers[i].name))
  BY DEF IsFreejs
<1>2. PICK c \in Initials : /\ g.count = Cardinality(Beginning({c})) /\ g.count > 1
                            /\ g.prefix \in Word /\ g.prefix[1] = c
  BY GroupFound
<1>3. n > 1
  <2>1. n \in Nat
    BY Named
  <2>2. Cardinality(Beginning({c})) <= n /\ Cardinality(Beginning({c})) \in Nat
    BY BeginningFacts
  <2> HIDE DEF n
  <2> QED
    BY <1>2, <2>1, <2>2
<1>4. ASSUME NEW i \in DOMAIN NamesMet PROVE FirstOf(i) = c
  <2>1. /\ i \in 1..n /\ Spelled[i] = Spelling(NamesMet[i].name) /\ Spelled[i] \in Word
        /\ FirstOf(i) = Spelled[i][1]
    BY Named
  <2>2. IsFreejsName(g.prefix, Spelled[i])
    BY <1>1, <2>1, Named
  <2>3. IsPrefix(g.prefix, Spelled[i])
    BY <2>2 DEF IsFreejsName
  <2>4. Starts(g.prefix, Spelled[i])
    BY <1>2, <2>1, <2>3, PrefixIs DEF Word
  <2>5. Len(g.prefix) \in Nat \ {0}
    BY <1>2, WordFacts
  <2> QED
    BY <1>2, <2>1, <2>4, <2>5 DEF Starts
<1>5. Initials = {c}
  BY <1>4 DEF Initials
<1> QED
  BY <1>3, <1>5

LEMMA TwoBeginnings ==
    ASSUME KeptInv, NEW a, NEW b
    PROVE  /\ Cardinality(Beginning({a})) <= Cardinality(Beginning({a, b}))
           /\ a # b => Cardinality(Beginning({a, b}))
                          = Cardinality(Beginning({a})) + Cardinality(Beginning({b}))
<1> DEFINE A == Beginning({a})
           C == Beginning({b})
           D == Beginning({a, b})
<1>1. D = A \cup C /\ (a # b => A \cap C = {})
  BY DEF Beginning
<1>2. /\ IsFiniteSet(A) /\ Cardinality(A) \in Nat /\ IsFiniteSet(C) /\ Cardinality(C) \in Nat
      /\ IsFiniteSet(D)
  BY BeginningFacts
<1> HIDE DEF A, C, D
<1>3. Cardinality(A) <= Cardinality(D)
  BY <1>1, <1>2, FS_Subset
<1>4. a # b => Cardinality(D) = Cardinality(A) + Cardinality(C)
  <2>1. Cardinality(A \cup C) = Cardinality(A) + Cardinality(C) - Cardinality(A \cap C)
    BY <1>2, FS_Union
  <2>2. a # b => Cardinality(A \cap C) = 0
    BY <1>1, FS_EmptySet
  <2> QED
    BY <1>1, <1>2, <2>1, <2>2
<1> QED
  BY <1>3, <1>4 DEF A, C, D

LEMMA ObfuscatorIoHasGrounds ==
    ASSUME KeptInv, IsObfuscatorIo(deobfuscator, CommonPrefixGroups(Spelled))
    PROVE  /\ Dotted = {} /\ DoubleUnaries # {} /\ Len(NamesMet) > 5
           /\ \E a, b \in Initials :
                 5 * Cardinality(Beginning({a, b}))
                    > 4 * (Len(NamesMet) - Cardinality(NamedProperties))
<1> DEFINE n == Len(NamesMet)
           props == Cardinality(NamedProperties)
<1>1. n \in Nat /\ deobfuscator.identifiers = NamesMet
  BY Named
<1>2. {"StaticMember", "DoubleUnaryExpression", "Property"} \subseteq Counter
  BY DEF Counter
<1>3. Dotted = {}
  BY <1>2, CounterIsEmpty, Counters DEF IsObfuscatorIo
<1>4. DoubleUnaries # {}
  <2>1. Cardinality(DoubleUnaries) > 0
    BY <1>2, Counters DEF IsObfuscatorIo
  <2> QED
    BY <2>1, FS_EmptySet
<1>5. props = deobfuscator.counts["Property"] /\ props \in Nat
  BY <1>2, Counters
<1>6. n > 5 /\ \E g, h \in CommonPrefixGroups(Spelled) :
                 (IF g = h THEN g.count ELSE g.count + h.count) * 100 > 80 * (n - props)
  <2> HIDE DEF props
  <2> QED
    BY <1>1, <1>5 DEF IsObfuscatorIo, MostlyPrefixed, MinimumIds, MostOf
<1>7. PICK g \in CommonPrefixGroups(Spelled), h \in CommonPrefixGroups(Spelled) :
           (IF g = h THEN g.count ELSE g.count + h.count) * 100 > 80 * (n - props)
  BY <1>6
<1>8. PICK a \in Initials : g.count = Cardinality(Beginning({a})) /\ g = Group(Spelled, a)
  BY GroupFound
<1>9. PICK b \in Initials : h.count = Cardinality(Beginning({b})) /\ h = Group(Spelled, b)
  BY GroupFound
<1> DEFINE x == Cardinality(Beginning({a, b}))
<1>10. x \in Nat /\ g.count \in Nat /\ h.count \in Nat
  BY <1>8, <1>9, BeginningFacts
<1>11. (IF g = h THEN g.count ELSE g.count + h.count) <= x
  <2>1. CASE g = h
    BY <1>8, <2>1, TwoBeginnings
  <2>2. CASE g # h /\ a # b
    <3>1. x = g.count + h.count
      <4>1. x = Cardinality(Beginning({a})) + Cardinality(Beginning({b}))
        BY <2>2, TwoBeginnings
      <4> HIDE DEF x
      <4> QED
        BY <1>8, <1>9, <4>1
    <3> HIDE DEF x
    <3> QED
      BY <1>10, <2>2, <3>1
  <2>3. CASE g # h /\ a = b
    BY <1>8, <1>9, <2>3
  <2> QED
    BY <2>1, <2>2, <2>3
<1>12. 5 * x > 4 * (n - props)
  <2> DEFINE y == IF g = h THEN g.count ELSE g.count + h.count
  <2>1. y \in Nat /\ y <= x /\ y * 100 > 80 * (n - props)
    BY <1>7, <1>10, <1>11
  <2> HIDE DEF y, x, n, props
  <2> QED
    BY <1>1, <1>5, <1>10, <2>1
<1> QED
  BY <1>3, <1>4, <1>6, <1>8, <1>9, <1>12

LEMMA ShortHasGrounds ==
    ASSUME KeptInv, NEW isMinified, "short-identifiers" \in Summary(deobfuscator, isMinified)
    PROVE  Cardinality(Others) > 5 /\ 2 * Cardinality(Long) <= Cardinality(Others)
<1> DEFINE n == Len(NamesMet)
           lengths == [i \in 1..n |-> IF i \in Others THEN Len(Spelling(NamesMet[i].name)) ELSE 0]
<1>1. /\ n \in Nat /\ deobfuscator.identifiers = NamesMet /\ DOMAIN NamesMet = 1..n
      /\ \A i \in 1..n : Spelling(NamesMet[i].name) \in Word
  BY Named
<1>2. Others = {i \in DOMAIN NamesMet : NamesMet[i].type # "Property"}
  BY DEF Others
<1>3. /\ Cardinality(Others) > 5
      /\ 2 * Total(lengths) <= 3 * Cardinality(Others)
  <2>1. Summary(deobfuscator, isMinified) =
          (IF Verdict(deobfuscator) = "None" THEN {} ELSE {"obfuscated-code"})
          \cup (IF /\ ~isMinified /\ Cardinality(Others) > 5
                   /\ 2 * Total(lengths) <= 3 * Cardinality(Others)
                THEN {"short-identifiers"} ELSE {})
          \cup (IF /\ deobfuscator.scores # << >>
                   /\ Total(deobfuscator.scores) >= 3 * Len(deobfuscator.scores)
                THEN {"suspicious-literal"} ELSE {})
    BY <1>1, <1>2, Zenon DEF Summary
  <2> HIDE DEF lengths
  <2>2. "short-identifiers" # "suspicious-literal" /\ "short-identifiers" # "obfuscated-code"
    OBVIOUS
  <2> QED
    BY <2>1, <2>2
<1>4. \A i \in 1..n : Len(Spelling(NamesMet[i].name)) \in Nat \ {0}
  BY <1>1, WordFacts
<1>5. lengths \in Seq(Nat) /\ Len(lengths) = n
  BY <1>1, <1>4
<1>6. Least(lengths, n, 1) = Others
  BY <1>1, <1>2, <1>4 DEF Least
<1>7. Least(lengths, n, 2) = Long
  BY <1>1, <1>2, <1>4 DEF Least, Long
<1> HIDE DEF lengths, n
<1>8. /\ Total(lengths) \in Nat /\ Cardinality(Others) \in Nat /\ Cardinality(Long) \in Nat
      /\ Total(lengths) >= Cardinality(Others) + Cardinality(Long)
  BY <1>5, <1>6, <1>7, TotalAtLeast
<1>9. 2 * Cardinality(Long) <= Cardinality(Others)
  BY <1>3, <1>8
<1> QED
  BY <1>3, <1>9

LEMMA LiteralHasGrounds ==
    ASSUME KeptInv, NEW isMinified, "suspicious-literal" \in Summary(deobfuscator, isMinified)
    PROVE  \E text \in Texts : Texture(text).score >= 3
<1> DEFINE scores == deobfuscator.scores
<1>1. scores # << >> /\ Total(scores) >= 3 * Len(scores)
  <2>1. \E A, C : /\ "suspicious-literal" \notin A
                 /\ Summary(deobfuscator, isMinified) = A \cup C
                 /\ C = IF scores # << >> /\ Total(scores) >= 3 * Len(scores)
                        THEN {"suspicious-literal"} ELSE {}
    <3> DEFINE P == Verdict(deobfuscator) = "None"
               ids == deobfuscator.identifiers
               counted == {i \in DOMAIN ids : ids[i].type # "Property"}
               letters == Total([i \in DOMAIN ids |->
                             IF i \in counted THEN Len(Spelling(ids[i].name)) ELSE 0])
               Q == /\ ~isMinified /\ Cardinality(counted) > 5
                    /\ 2 * letters <= 3 * Cardinality(counted)
               A == (IF P THEN {} ELSE {"obfuscated-code"})
                    \cup (IF Q THEN {"short-identifiers"} ELSE {})
               C == IF scores # << >> /\ Total(scores) >= 3 * Len(scores)
                    THEN {"suspicious-literal"} ELSE {}
    <3>1. Summary(deobfuscator, isMinified) = A \cup C
      BY Zenon DEF Summary
    <3>2. "suspicious-literal" \notin A
      <4> HIDE DEF P, Q
      <4> QED
        OBVIOUS
    <3> HIDE DEF A
    <3> QED
      BY <3>1, <3>2
  <2> QED
    BY <2>1
<1>2. scores \in Seq(ScoresOf(Texts))
  <2>1. scores \in Seq(ScoresOf(TextsIn(seen)))
    BY DEF KeptInv, Holds
  <2> QED
    BY <2>1 DEF TextsIn, Texts
<1>3. Texts \in SUBSET Text
  <2>1. \A i \in DOMAIN seen : seen[i] \in Node
    BY DEF KeptInv
  <2> QED
    BY <2>1, NodeFacts DEF Texts
<1>4. ScoresOf(Texts) \in SUBSET Nat
  <2>1. \A text \in Texts : Texture(text).score \in Nat
    BY <1>3, DeobfuscatorAssumption
  <2> QED
    BY <2>1 DEF ScoresOf
<1> HIDE DEF scores
<1>5. /\ Len(scores) \in Nat
      /\ \A k \in 1..Len(scores) : scores[k] \in ScoresOf(Texts) /\ scores[k] \in Nat
  BY <1>2, <1>4
<1>6. scores \in Seq(Nat) /\ Len(scores) # 0
  <2>1. scores = [k \in 1..Len(scores) |-> scores[k]]
    BY <1>2
  <2>2. scores \in Seq(Nat)
    BY <1>5, <2>1
  <2> QED
    BY <1>1, <2>2, EmptySeq
<1>7. PICK k \in 1..Len(scores) : scores[k] >= 3
  <2> SUFFICES ASSUME \A k \in 1..Len(scores) : ~(scores[k] >= 3) PROVE FALSE
    OBVIOUS
  <2>1. \A k \in 1..Len(scores) : scores[k] <= 2
    BY <1>5
  <2>2. Total(scores) \in Nat /\ Total(scores) <= 2 * Len(scores)
    BY <1>6, <2>1, TotalAtMost
  <2> QED
    BY <1>1, <1>5, <1>6, <2>2
<1> QED
  BY <1>5, <1>7 DEF ScoresOf

LEMMA InvGrounds ==
    ASSUME KeptInv
    PROVE  VerdictsHaveGrounds
<1>1. CASE verdict = "Undecided"
  <2>1. warnings = {}
    BY <1>1 DEF KeptInv
  <2> QED
    BY <1>1, <2>1 DEF VerdictsHaveGrounds
<1>2. CASE verdict # "Undecided"
  <2>1. PICK isMinified \in BOOLEAN : warnings = Summary(deobfuscator, isMinified)
    BY <1>2 DEF KeptInv
  <2>2. verdict = Verdict(deobfuscator)
    BY <1>2 DEF KeptInv
  <2>3. /\ verdict = "jsfuck" => IsJsfuck(deobfuscator)
        /\ verdict = "jjencode" => IsJjencode(deobfuscator)
        /\ verdict = "morse" => Cardinality(deobfuscator.morse) >= MinimumMorse
        /\ verdict = "freejsobfuscator" => IsFreejs(deobfuscator, CommonPrefixGroups(Spelled))
        /\ verdict = "obfuscator.io" => IsObfuscatorIo(deobfuscator, CommonPrefixGroups(Spelled))
    BY <2>2 DEF Verdict, Spelled
  <2>4. deobfuscator.morse = {text \in Texts : Texture(text).morse}
    BY DEF KeptInv, Holds, TextsIn, Texts
  <2>5. verdict = "morse" => Cardinality({text \in Texts : Texture(text).morse}) >= 36
    BY <2>3, <2>4 DEF MinimumMorse
  <2>6. "short-identifiers" \in warnings =>
           Cardinality(Others) > 5 /\ 2 * Cardinality(Long) <= Cardinality(Others)
    BY <2>1, ShortHasGrounds
  <2>7. "suspicious-literal" \in warnings => \E text \in Texts : Texture(text).score >= 3
    BY <2>1, LiteralHasGrounds
  <2>8. verdict = "jsfuck" =>
          /\ Cardinality(DoubleUnaries) >= 5 /\ NamedProperties = {}
          /\ Met("AssignmentExpression") \cup Met("FunctionDeclaration")
                \cup Met("VariableDeclarator") = {}
    BY <2>3, JsfuckHasGrounds
  <2>9. verdict = "jjencode" =>
          /\ Met("VariableDeclarator") \cup Met("FunctionDeclaration") = {}
          /\ 5 * Cardinality(Beginning({36, 95})) > 4 * Len(NamesMet)
    BY <2>3, JjencodeHasGrounds
  <2>10. verdict = "freejsobfuscator" =>
          Len(NamesMet) > 1 /\ \E char \in Initials : Initials = {char}
    BY <2>3, FreejsHasGrounds
  <2>11. verdict = "obfuscator.io" =>
          /\ Dotted = {} /\ DoubleUnaries # {} /\ Len(NamesMet) > 5
          /\ \E a, b \in Initials :
                5 * Cardinality(Beginning({a, b}))
                   > 4 * (Len(NamesMet) - Cardinality(NamedProperties))
    BY <2>3, ObfuscatorIoHasGrounds
  <2> QED
    BY <2>5, <2>6, <2>7, <2>8, <2>9, <2>10, <2>11, Zenon DEF VerdictsHaveGrounds
<1> QED
  BY <1>1, <1>2

(* A node that counts as a Property adds the name of its key. *)
LEMMA PropertyAddsItsKey ==
    ASSUME NEW node, CounterOf(node) = "Property"
    PROVE  Len(CountedNames(node)) = 1
<1>1. node.type = "Property"
  BY DEF CounterOf
<1>2. IsName(node.key)
  BY <1>1 DEF CounterOf, IsDoubleUnary
<1>3. CountedNames(node) = <<node.key.name>>
  BY <1>1, <1>2 DEF CountedNames, NameOf
<1> QED
  BY <1>3

(***************************************************************************)
(* KeptInv is inductive.                                                   *)
(***************************************************************************)
LEMMA ObserveKeeps ==
    ASSUME KeptInv, NEW node \in Node, Observe(node)
    PROVE  KeptInv'
<1>1. /\ verdict = "Undecided" /\ verdict' = verdict /\ warnings' = warnings
      /\ deobfuscator' = Observed(deobfuscator, node) /\ seen' = Append(seen, node)
  BY DEF Observe
<1>2. /\ seen \in Seq(Node) /\ Holds(deobfuscator, seen) /\ NamesCoverProperties /\ warnings = {}
      /\ IsRecord(deobfuscator)
  BY <1>1 DEF KeptInv, Holds
<1>3. seen' \in Seq(Node)
  BY <1>1, <1>2, AppendIs
<1>4. Holds(deobfuscator', seen')
  BY <1>1, <1>2, ObservedHolds
<1>5. NamesCoverProperties'
  <2> DEFINE ids == deobfuscator.identifiers
             E == Extracted(node)
             added == Tagged(node.type, CountedNames(node))
             k == deobfuscator.counts["Property"]
  <2>1. ids \in Seq(NamedType)
    BY <1>2, BroughtIs DEF Holds
  <2>2. E \in Seq(NamedType) /\ added \in Seq(NamedType) /\ Len(added) = Len(CountedNames(node))
    BY NodeFacts
  <2>3. deobfuscator'.identifiers = (ids \o E) \o added
    BY <1>1, <1>2, ObservedIs
  <2>4. deobfuscator'.counts["Property"] = IF CounterOf(node) = "Property" THEN k + 1 ELSE k
    <3>1. deobfuscator'.counts = [c \in Counter |-> IF c = CounterOf(node)
              THEN deobfuscator.counts[c] + 1 ELSE deobfuscator.counts[c]]
      BY <1>1, <1>2, ObservedIs
    <3> QED
      BY <3>1 DEF Counter
  <2>5. CounterOf(node) = "Property" => Len(added) = 1
    BY <2>2, PropertyAddsItsKey
  <2>6. k <= Len(ids)
    BY <1>2 DEF NamesCoverProperties
  <2>7. k \in Nat
    <3>1. "Property" \in Counter
      BY DEF Counter
    <3> QED
      BY <3>1, Counters
  <2> HIDE DEF ids, E, added, k
  <2>8. ids \o E \in Seq(NamedType) /\ Len(ids \o E) = Len(ids) + Len(E)
    BY <2>1, <2>2, ConcatProperties
  <2>9. Len((ids \o E) \o added) = Len(ids \o E) + Len(added)
    BY <2>2, <2>8, ConcatProperties
  <2>10. Len(ids) \in Nat /\ Len(E) \in Nat /\ Len(added) \in Nat
    BY <2>1, <2>2
  <2>11. deobfuscator'.counts["Property"] <= Len(deobfuscator'.identifiers)
    <3>1. Len(deobfuscator'.identifiers) = Len(ids) + Len(E) + Len(added)
      BY <2>3, <2>8, <2>9
    <3>2. CASE CounterOf(node) = "Property"
      <4>1. deobfuscator'.counts["Property"] = k + 1 /\ Len(added) = 1
        BY <2>4, <2>5, <3>2
      <4> QED
        BY <2>6, <2>7, <2>10, <3>1, <4>1
    <3>3. CASE CounterOf(node) # "Property"
      <4>1. deobfuscator'.counts["Property"] = k
        BY <2>4, <3>3
      <4> QED
        BY <2>6, <2>7, <2>10, <3>1, <4>1
    <3> QED
      BY <3>2, <3>3
  <2> QED
    BY <2>11 DEF NamesCoverProperties
<1> QED
  BY <1>1, <1>2, <1>3, <1>4, <1>5 DEF KeptInv

LEMMA JudgeKeeps ==
    ASSUME KeptInv, Judge
    PROVE  KeptInv'
<1>1. /\ verdict' = Verdict(deobfuscator) /\ seen' = seen /\ deobfuscator' = deobfuscator
      /\ \E isMinified \in BOOLEAN : warnings' = Summary(deobfuscator, isMinified)
  BY DEF Judge
<1>2. verdict' # "Undecided"
  BY <1>1 DEF Verdict
<1>3. seen \in Seq(Node) /\ Holds(deobfuscator, seen) /\ NamesCoverProperties
  BY DEF KeptInv
<1>4. NamesCoverProperties'
  BY <1>1, <1>3 DEF NamesCoverProperties
<1>5. /\ verdict' = Verdict(deobfuscator')
      /\ \E isMinified \in BOOLEAN : warnings' = Summary(deobfuscator', isMinified)
  BY <1>1
<1>6. Holds(deobfuscator', seen') /\ seen' \in Seq(Node)
  BY <1>1, <1>3
<1> QED
  BY <1>2, <1>4, <1>5, <1>6 DEF KeptInv

LEMMA KeptInvHolds == DeobfuscatorSpec => []KeptInv
<1>1. seen = << >> /\ DeobfuscatorInit => KeptInv
  <2> SUFFICES ASSUME seen = << >>, DeobfuscatorInit PROVE KeptInv
    OBVIOUS
  <2>1. deobfuscator = NewDeobfuscator /\ verdict = "Undecided" /\ warnings = {}
    BY DEF DeobfuscatorInit
  <2>2. Holds(deobfuscator, seen)
    BY <2>1, NewHolds
  <2>3. NamesCoverProperties
    BY <2>1 DEF NamesCoverProperties, NewDeobfuscator, Counter
  <2>4. seen \in Seq(Node)
    OBVIOUS
  <2> QED
    BY <2>1, <2>2, <2>3, <2>4 DEF KeptInv
<1>2. KeptInv /\ [DeobfuscatorNext]_deobfuscatorVars => KeptInv'
  <2> SUFFICES ASSUME KeptInv, [DeobfuscatorNext]_deobfuscatorVars PROVE KeptInv'
    OBVIOUS
  <2>1. ASSUME NEW node \in Node, Observe(node) PROVE KeptInv'
    BY <2>1, ObserveKeeps
  <2>2. CASE Judge
    BY <2>2, JudgeKeeps
  <2>3. CASE UNCHANGED deobfuscatorVars
    BY <2>3 DEF deobfuscatorVars, KeptInv, NamesCoverProperties
  <2> QED
    BY <2>1, <2>2, <2>3 DEF DeobfuscatorNext
<1> QED
  BY <1>1, <1>2, PTL DEF DeobfuscatorSpec

(***************************************************************************)
(* walk and analyze_string keep it: what is divided by in                  *)
(* calc_avg_prefixed_identifiers is at least 0, for every program.         *)
(***************************************************************************)
THEOREM PropertiesAreNamed == DeobfuscatorSpec => []NamesCoverProperties
<1>1. KeptInv => NamesCoverProperties
  BY DEF KeptInv
<1> QED
  BY <1>1, KeptInvHolds, PTL

(***************************************************************************)
(* common_hexadecimal_prefix, which takes the names in one after another   *)
(* and lets a prefix shrink on the way, ends with the groups of names that *)
(* share their first character, whatever order the names were met in.      *)
(***************************************************************************)
THEOREM GroupsAreFound == DeobfuscatorSpec => []PrefixesAreGroups
  BY KeptInvHolds, InvPrefixes, PTL

(***************************************************************************)
(* assert_obfuscation and get_result judge only on what the walk met: each *)
(* verdict and each of the two warnings has its grounds in the nodes.      *)
(***************************************************************************)
THEOREM VerdictsAreGrounded == DeobfuscatorSpec => []VerdictsHaveGrounds
  BY KeptInvHolds, InvGrounds, PTL
===============================================================================
