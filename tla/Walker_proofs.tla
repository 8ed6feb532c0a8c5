---------------------------- MODULE Walker_proofs ----------------------------
(***************************************************************************)
(* Walks of Walker do what their handlers ask for, for all trees and all   *)
(* handlers.                                                               *)
(***************************************************************************)
EXTENDS WalkMeaning, SequenceLemmas

(***************************************************************************)
(* Sequences put together and taken apart.                                 *)
(***************************************************************************)
LEMMA ConcatParts ==
    ASSUME NEW S, NEW u \in Seq(S), NEW v \in Seq(S)
    PROVE  /\ SubSeq(u \o v, 1, Len(u)) = u
           /\ SubSeq(u \o v, Len(u) + 1, Len(u \o v)) = v
<1>1. /\ u \o v \in Seq(S) /\ Len(u \o v) = Len(u) + Len(v)
      /\ Len(u) \in Nat /\ Len(v) \in Nat
      /\ \A i \in 1..(Len(u) + Len(v)) : /\ (u \o v)[i] \in S
                                         /\ (u \o v)[i] = IF i <= Len(u) THEN u[i] ELSE v[i - Len(u)]
  <2>1. u \o v \in Seq(S) /\ Len(u \o v) = Len(u) + Len(v)
    BY ConcatProperties
  <2>2. Len(u) \in Nat /\ Len(v) \in Nat
    BY LenProperties
  <2>3. \A i \in 1..(Len(u) + Len(v)) : (u \o v)[i] \in S
    BY <2>1, ElementOfSeq
  <2> QED
    BY <2>1, <2>2, <2>3, ConcatProperties
<1> DEFINE w == u \o v
<1>2. SubSeq(w, 1, Len(u)) = u
  <2>1. \A i \in 1..Len(u) : w[i] \in S /\ w[i] = u[i]
    BY <1>1
  <2> HIDE DEF w
  <2>2. /\ SubSeq(w, 1, Len(u)) \in Seq(S) /\ Len(SubSeq(w, 1, Len(u))) = Len(u)
        /\ \A i \in 1..Len(u) : SubSeq(w, 1, Len(u))[i] = w[i]
    <3>1. Len(u) \in Int /\ 1 \in Int
      BY <1>1
    <3>2. /\ SubSeq(w, 1, Len(u)) \in Seq(S)
          /\ Len(SubSeq(w, 1, Len(u))) = IF 1 <= Len(u) THEN Len(u) - 1 + 1 ELSE 0
          /\ \A i \in 1..(Len(u) - 1 + 1) : SubSeq(w, 1, Len(u))[i] = w[1 + i - 1]
      BY <2>1, <3>1, SubSeqProperties
    <3> QED
      BY <1>1, <3>2
  <2> QED
    BY <2>1, <2>2, SeqEqual
<1>3. SubSeq(w, Len(u) + 1, Len(w)) = v
  <2>1. Len(w) = Len(u) + Len(v) /\ \A i \in (Len(u) + 1)..Len(w) : w[i] \in S
    BY <1>1
  <2>2. \A i \in 1..Len(v) : w[Len(u) + i] = v[i]
    BY <1>1
  <2> HIDE DEF w
  <2> DEFINE t == SubSeq(w, Len(u) + 1, Len(w))
  <2>3. /\ t \in Seq(S) /\ Len(t) = Len(v)
        /\ \A i \in 1..Len(v) : t[i] = w[Len(u) + i]
    <3>1. Len(u) + 1 \in Int /\ Len(w) \in Int
      BY <1>1, <2>1
    <3>2. /\ t \in Seq(S)
          /\ Len(t) = IF Len(u) + 1 <= Len(w) THEN Len(w) - (Len(u) + 1) + 1 ELSE 0
          /\ \A i \in 1..(Len(w) - (Len(u) + 1) + 1) : t[i] = w[(Len(u) + 1) + i - 1]
      BY <2>1, <3>1, SubSeqProperties
    <3> HIDE DEF t
    <3>3. Len(w) - (Len(u) + 1) + 1 = Len(v)
      BY <1>1, <2>1
    <3>4. ASSUME NEW i \in 1..Len(v) PROVE t[i] = w[Len(u) + i]
      <4>1. (Len(u) + 1) + i - 1 = Len(u) + i
        BY <1>1
      <4> QED
        BY <3>2, <3>3, <4>1
    <3> QED
      BY <1>1, <2>1, <3>2, <3>3, <3>4
  <2> HIDE DEF t
  <2> QED
    BY <2>2, <2>3, SeqEqual DEF t
<1> QED
  BY <1>2, <1>3

LEMMA TakenOut ==
    ASSUME NEW S, NEW s \in Seq(S), NEW i \in 1..Len(s)
    PROVE  /\ SubSeq(s, 1, i - 1) \in Seq(S) /\ Len(SubSeq(s, 1, i - 1)) = i - 1
           /\ SubSeq(s, i + 1, Len(s)) \in Seq(S) /\ Len(SubSeq(s, i + 1, Len(s))) = Len(s) - i
           /\ \A j \in 1..(Len(s) - i) : SubSeq(s, i + 1, Len(s))[j] = s[i + j]
           /\ SubSeq(s, 1, i - 1) \o <<s[i]>> \o SubSeq(s, i + 1, Len(s)) = s
<1>1. Len(s) \in Nat /\ i \in Nat /\ \A j \in 1..Len(s) : s[j] \in S
  BY LenProperties, ElementOfSeq
<1> DEFINE a == SubSeq(s, 1, i - 1)
           b == SubSeq(s, i + 1, Len(s))
<1>2. a \in Seq(S) /\ Len(a) = i - 1
  <2>1. 1 \in Int /\ i - 1 \in Int /\ \A j \in 1..(i - 1) : s[j] \in S
    BY <1>1
  <2>2. a \in Seq(S) /\ Len(a) = IF 1 <= i - 1 THEN (i - 1) - 1 + 1 ELSE 0
    BY <2>1, SubSeqProperties
  <2> HIDE DEF a
  <2> QED
    BY <1>1, <2>2
<1>3. b \in Seq(S) /\ Len(b) = Len(s) - i /\ \A j \in 1..(Len(s) - i) : b[j] = s[i + j]
  <2>1. i + 1 \in Int /\ Len(s) \in Int /\ \A j \in (i + 1)..Len(s) : s[j] \in S
    BY <1>1
  <2>2. /\ b \in Seq(S) /\ Len(b) = IF i + 1 <= Len(s) THEN Len(s) - (i + 1) + 1 ELSE 0
        /\ \A j \in 1..(Len(s) - (i + 1) + 1) : b[j] = s[(i + 1) + j - 1]
    BY <2>1, SubSeqProperties
  <2> HIDE DEF b
  <2>3. Len(s) - (i + 1) + 1 = Len(s) - i
    BY <1>1
  <2>4. ASSUME NEW j \in 1..(Len(s) - i) PROVE b[j] = s[i + j]
    <3>1. (i + 1) + j - 1 = i + j
      BY <1>1
    <3> QED
      BY <2>2, <2>3, <3>1
  <2>5. Len(b) = Len(s) - i
    BY <1>1, <2>2
  <2> QED
    BY <2>2, <2>4, <2>5
<1>4. a \o <<s[i]>> = SubSeq(s, 1, i)
  <2>1. 1 \in 1..Len(s) /\ i \in 1..Len(s)
    BY <1>1
  <2> QED
    BY <2>1, SubSeqRecursiveSecond
<1>5. SubSeq(s, 1, i) \o SubSeq(s, i + 1, Len(s)) = SubSeq(s, 1, Len(s))
  <2>1. 1 \in 1..(Len(s) + 1) /\ i \in (1 - 1)..Len(s) /\ Len(s) \in i..Len(s)
    BY <1>1
  <2> QED
    BY <2>1, ConcatAdjacentSubSeq
<1>6. SubSeq(s, 1, Len(s)) = s
  BY SubSeqFull
<1>7. (a \o <<s[i]>>) \o b = s
  BY <1>4, <1>5, <1>6
<1> HIDE DEF a, b
<1>8. a \o <<s[i]>> \o b = s
  BY <1>7
<1> QED
  BY <1>2, <1>3, <1>8 DEF a, b

(***************************************************************************)
(* What a handler keeps of a list, and of a node, its children done.       *)
(***************************************************************************)
Keeps(h, child) == IF child = Missing THEN <<Missing>> ELSE Kept(h, child)
KeptAll(h, nodes) == FlattenSeq([i \in DOMAIN nodes |-> Keeps(h, nodes[i])])
FirstOf(nodes) == IF nodes = << >> THEN Missing ELSE nodes[1]
Renewed(h, node, f) ==
    IF IsList(node, f) THEN KeptAll(h, node[f]) ELSE FirstOf(Keeps(h, node[f]))
Rebuilt(h, node) ==
    [f \in DOMAIN node |-> IF Contains(FieldsOf(node), f) THEN Renewed(h, node, f) ELSE node[f]]

(* What the lists of a node hold while they are walked.                    *)
Children(h) == NodesFor(h) \cup {Missing}
Things(h) == Children(h) \cup {Kept(h, node)[1] : node \in NodesFor(h)}

LEMMA RebuiltIs == \A h, node : Rebuild(node, LAMBDA child : Kept(h, child)) = Rebuilt(h, node)
  BY DEF Rebuild, Rebuilt, Renewed, KeptAll, Keeps, FirstOf

LEMMA InsideIs == \A h, node : Inside(h, node) = Rebuilt(h, AsReplaced(node, Asks(h, node).enter))
  BY RebuiltIs DEF Inside

LEMMA KeptShape ==
    ASSUME NEW h \in Handler, NEW node \in NodesFor(h)
    PROVE  /\ Kept(h, node) \in Seq(Things(h)) /\ Len(Kept(h, node)) \in {0, 1}
           /\ Kept(h, node) = << >> \/ Kept(h, node) = <<Kept(h, node)[1]>>
<1>1. Kept(h, node) = KeptBy(h, node)
  BY RecursionAssumption
<1>2. Kept(h, node) = << >> \/ \E x : Kept(h, node) = <<x>>
  BY <1>1 DEF KeptBy
<1>3. CASE Kept(h, node) = << >>
  <2>1. << >> \in Seq(Things(h))
    BY EmptySeq
  <2> QED
    BY <1>3, <2>1
<1>4. CASE \E x : Kept(h, node) = <<x>>
  <2>1. PICK x : Kept(h, node) = <<x>>
    BY <1>4
  <2>2. x = Kept(h, node)[1] /\ x \in Things(h)
    BY <2>1 DEF Things
  <2>3. <<x>> \in Seq(Things(h)) /\ Len(<<x>>) = 1
    BY <2>2
  <2> QED
    BY <2>1, <2>2, <2>3
<1> QED
  BY <1>2, <1>3, <1>4

LEMMA KeepsShape ==
    ASSUME NEW h \in Handler, NEW child \in Children(h)
    PROVE  /\ Keeps(h, child) \in Seq(Things(h)) /\ Len(Keeps(h, child)) \in {0, 1}
           /\ Keeps(h, child) = << >> \/ Keeps(h, child) = <<FirstOf(Keeps(h, child))>>
<1>1. CASE child = Missing
  <2>1. Keeps(h, child) = <<Missing>> /\ Missing \in Things(h)
    BY <1>1 DEF Keeps, Things, Children
  <2>2. <<Missing>> \in Seq(Things(h)) /\ Len(<<Missing>>) = 1 /\ <<Missing>> # << >>
    BY <2>1
  <2>3. FirstOf(<<Missing>>) = Missing
    BY DEF FirstOf
  <2> QED
    BY <2>1, <2>2, <2>3
<1>2. CASE child # Missing
  <2>1. Keeps(h, child) = Kept(h, child) /\ child \in NodesFor(h)
    BY <1>2 DEF Keeps, Children
  <2> QED
    BY <2>1, KeptShape DEF FirstOf
<1> QED
  BY <1>1, <1>2

LEMMA KeptAllType ==
    ASSUME NEW h \in Handler, NEW nodes \in Seq(Children(h))
    PROVE  KeptAll(h, nodes) \in Seq(Things(h))
<1> DEFINE seqs == [i \in DOMAIN nodes |-> Keeps(h, nodes[i])]
<1>1. Len(nodes) \in Nat /\ DOMAIN nodes = 1..Len(nodes)
  BY LenProperties
<1>2. \A i \in 1..Len(nodes) : Keeps(h, nodes[i]) \in Seq(Things(h))
  BY ElementOfSeq, KeepsShape
<1>3. seqs \in Seq(Seq(Things(h)))
  BY <1>1, <1>2
<1> HIDE DEF seqs
<1>4. FlattenSeq(seqs) \in Seq(Things(h))
  BY <1>3, FlattenType
<1> QED
  BY <1>4 DEF KeptAll, seqs

LEMMA KeptAllEmpty == \A h : KeptAll(h, << >>) = << >>
<1> TAKE h
<1> DEFINE seqs == [i \in DOMAIN << >> |-> Keeps(h, << >>[i])]
<1>1. seqs = << >>
  OBVIOUS
<1>2. FlattenSeq(<< >>) = << >>
  BY DEF FlattenSeq
<1> QED
  BY <1>1, <1>2 DEF KeptAll

(* The members of a list from place i on: what f makes of the first of     *)
(* them, and of the others.                                                *)
OfAll(f, nodes) == FlattenSeq([i \in DOMAIN nodes |-> f[nodes[i]]])

From(C, s, i) == \A j \in i..Len(s) : s[j] \in C

LEMMA ListFrom ==
    ASSUME NEW C, NEW X, NEW Y, NEW f \in [C -> Seq(Y)],
           NEW s \in Seq(X), NEW i \in 1..Len(s), From(C, s, i)
    PROVE  /\ SubSeq(s, i, Len(s)) \in Seq(C) /\ SubSeq(s, i + 1, Len(s)) \in Seq(C)
           /\ OfAll(f, SubSeq(s, i, Len(s))) = f[s[i]] \o OfAll(f, SubSeq(s, i + 1, Len(s)))
<1>1. Len(s) \in Nat /\ i \in Nat /\ \A j \in i..Len(s) : s[j] \in C
  BY LenProperties DEF From
<1> DEFINE t == SubSeq(s, i, Len(s))
           u == SubSeq(s, i + 1, Len(s))
<1>2. /\ t \in Seq(C) /\ Len(t) = Len(s) - i + 1
      /\ \A j \in 1..(Len(s) - i + 1) : t[j] = s[i + j - 1]
  <2>1. i \in Int /\ Len(s) \in Int
    BY <1>1
  <2>2. /\ t \in Seq(C) /\ Len(t) = IF i <= Len(s) THEN Len(s) - i + 1 ELSE 0
        /\ \A j \in 1..(Len(s) - i + 1) : t[j] = s[i + j - 1]
    BY <1>1, <2>1, SubSeqProperties
  <2> HIDE DEF t
  <2> QED
    BY <1>1, <2>2
<1>3. /\ u \in Seq(C) /\ Len(u) = Len(s) - i
      /\ \A j \in 1..(Len(s) - i) : u[j] = s[i + j]
  <2>1. \A j \in (i + 1)..Len(s) : s[j] \in C
    BY <1>1
  <2>2. i + 1 \in Int /\ Len(s) \in Int
    BY <1>1
  <2>3. u \in Seq(C)
    BY <2>1, <2>2, SubSeqProperties
  <2> HIDE DEF u
  <2> QED
    BY <2>3, TakenOut DEF u
<1> DEFINE all == [j \in DOMAIN t |-> f[t[j]]]
           rest == [j \in DOMAIN u |-> f[u[j]]]
<1>4. DOMAIN t = 1..Len(t) /\ DOMAIN u = 1..Len(u)
  BY <1>2, <1>3, LenProperties
<1>5. rest \in Seq(Seq(Y)) /\ Len(rest) = Len(s) - i
  <2>1. Len(s) - i \in Nat
    BY <1>1
  <2>2. \A j \in 1..Len(u) : f[u[j]] \in Seq(Y)
    BY <1>3, ElementOfSeq
  <2> HIDE DEF u
  <2> QED
    BY <1>3, <1>4, <2>1, <2>2
<1>6. Len(all) = Len(rest) + 1 /\ all[1] = f[s[i]]
  <2>1. 1 \in 1..Len(t) /\ t[1] = s[i] /\ Len(t) \in Nat
    BY <1>1, <1>2
  <2>2. all[1] = f[s[i]]
    BY <1>4, <2>1
  <2>3. Len(all) = Len(t)
    BY <1>4, <2>1
  <2> HIDE DEF all, rest, t
  <2> QED
    BY <1>1, <1>2, <1>5, <2>2, <2>3
<1>7. ASSUME NEW j \in 1..Len(rest) PROVE all[j + 1] = rest[j]
  <2>1. j \in 1..(Len(s) - i) /\ j + 1 \in 1..(Len(s) - i + 1) /\ i + (j + 1) - 1 = i + j
    BY <1>1, <1>5
  <2>2. t[j + 1] = u[j] /\ j + 1 \in DOMAIN t /\ j \in DOMAIN u
    <3> HIDE DEF t, u
    <3> QED
      BY <1>2, <1>3, <1>4, <2>1
  <2> HIDE DEF t, u
  <2> QED
    BY <2>2
<1>8. f[s[i]] \in Seq(Y)
  BY <1>1
<1>9. FlattenSeq(all) = f[s[i]] \o FlattenSeq(rest)
  <2> HIDE DEF all, rest
  <2> QED
    BY <1>5, <1>6, <1>7, <1>8, FlattenFirst
<1> HIDE DEF all, rest, t, u
<1> QED
  BY <1>2, <1>3, <1>9 DEF OfAll, all, rest, t, u

Unfolds(C, X, Y) ==
    \A f \in [C -> Seq(Y)], s \in Seq(X) : \A i \in 1..Len(s) : From(C, s, i) =>
        /\ SubSeq(s, i, Len(s)) \in Seq(C) /\ SubSeq(s, i + 1, Len(s)) \in Seq(C)
        /\ OfAll(f, SubSeq(s, i, Len(s))) = f[s[i]] \o OfAll(f, SubSeq(s, i + 1, Len(s)))

LEMMA ListUnfolds == \A C, X, Y : Unfolds(C, X, Y)
  BY ListFrom DEF Unfolds

LEMMA KeptAllFrom ==
    ASSUME NEW h \in Handler, NEW s \in Seq(Things(h)), NEW i \in 1..Len(s),
           \A j \in i..Len(s) : s[j] \in Children(h)
    PROVE  /\ SubSeq(s, i + 1, Len(s)) \in Seq(Children(h))
           /\ KeptAll(h, SubSeq(s, i, Len(s)))
                = Keeps(h, s[i]) \o KeptAll(h, SubSeq(s, i + 1, Len(s)))
<1> DEFINE f == [child \in Children(h) |-> Keeps(h, child)]
<1>1. f \in [Children(h) -> Seq(Things(h))]
  BY KeepsShape
<1>2. ASSUME NEW nodes \in Seq(Children(h)) PROVE OfAll(f, nodes) = KeptAll(h, nodes)
  <2>1. \A k \in DOMAIN nodes : f[nodes[k]] = Keeps(h, nodes[k])
    BY ElementOfSeq, LenProperties
  <2> HIDE DEF f
  <2> QED
    BY <2>1 DEF OfAll, KeptAll
<1>3. f[s[i]] = Keeps(h, s[i])
  BY LenProperties
<1> HIDE DEF f
<1>4. /\ SubSeq(s, i, Len(s)) \in Seq(Children(h)) /\ SubSeq(s, i + 1, Len(s)) \in Seq(Children(h))
      /\ OfAll(f, SubSeq(s, i, Len(s))) = f[s[i]] \o OfAll(f, SubSeq(s, i + 1, Len(s)))
  <2>1. From(Children(h), s, i)
    BY DEF From
  <2>2. Unfolds(Children(h), Things(h), Things(h))
    BY ListUnfolds
  <2> QED
    BY <1>1, <2>1, <2>2 DEF Unfolds
<1> QED
  BY <1>2, <1>3, <1>4

(***************************************************************************)
(* A frame and what becomes of its node: the fields before the one the     *)
(* walker is at are done, those after it are to be walked.                 *)
(***************************************************************************)
At(frame, f) == ~Exhausted(frame) /\ KeyOf(frame) = f
Later(frame, f) ==
    \E i \in 1..Len(FieldsOf(frame.node)) : i > frame.key /\ FieldsOf(frame.node)[i] = f
Halfway(h, frame) ==
    IF Listed(frame)
    THEN SubSeq(Held(frame), 1, frame.item - 1)
            \o KeptAll(h, SubSeq(Held(frame), frame.item, Len(Held(frame))))
    ELSE IF frame.item = 1 THEN FirstOf(Keeps(h, frame.node[KeyOf(frame)]))
    ELSE frame.node[KeyOf(frame)]
Finished(h, frame) ==
    [f \in DOMAIN frame.node |->
        IF At(frame, f) THEN Halfway(h, frame)
        ELSE IF Later(frame, f) THEN Renewed(h, frame.node, f)
        ELSE frame.node[f]]

(* The fields of a node are its own, and none comes twice.                 *)
IsRecord(node) ==
    /\ node = [f \in DOMAIN node |-> node[f]] /\ "type" \in DOMAIN node
    /\ FieldsOf(node) \in Seq(DOMAIN node \ {"type"})
    /\ \A i, j \in 1..Len(FieldsOf(node)) : FieldsOf(node)[i] = FieldsOf(node)[j] => i = j

FrameRight(h, frame) ==
    /\ frame = [node |-> frame.node, key |-> frame.key, item |-> frame.item]
    /\ IsRecord(frame.node) /\ frame.key \in Nat \ {0} /\ frame.item \in Nat \ {0}
    /\ \A i \in 1..Len(FieldsOf(frame.node)) : i > frame.key =>
          HeldAt(frame.node, FieldsOf(frame.node)[i]) \in Seq(Children(h))
    /\ ~Exhausted(frame) =>
          /\ Held(frame) \in Seq(Things(h)) /\ frame.item <= Len(Held(frame)) + 1
          /\ \A j \in frame.item..Len(Held(frame)) : Held(frame)[j] \in Children(h)

LEMMA NodeIsRecord ==
    ASSUME NEW N, NEW node, IsNode(node, N)
    PROVE  /\ IsRecord(node)
           /\ \A i \in 1..Len(FieldsOf(node)) :
                 HeldAt(node, FieldsOf(node)[i]) \in Seq(N \cup {Missing})
<1>1. DOMAIN FieldsOf(node) = 1..Len(FieldsOf(node))
  BY LenProperties DEF IsNode
<1> QED
  BY <1>1 DEF IsNode, IsRecord

LEMMA FreshFrameRight ==
    ASSUME NEW h \in Handler, NEW node, IsNode(node, NodesFor(h))
    PROVE  FrameRight(h, Frame(node))
<1> DEFINE frame == Frame(node)
           F == FieldsOf(node)
<1>1. frame.node = node /\ frame.key = 1 /\ frame.item = 1
  BY DEF Frame
<1>2. /\ IsRecord(node) /\ Len(F) \in Nat
      /\ \A i \in 1..Len(F) : HeldAt(node, F[i]) \in Seq(Children(h))
  <2>1. IsRecord(node)
    BY NodeIsRecord
  <2>2. Len(F) \in Nat
    BY <2>1, LenProperties DEF IsRecord
  <2> QED
    BY <2>1, <2>2, NodeIsRecord DEF Children
<1>3. ASSUME ~Exhausted(frame)
      PROVE  /\ Held(frame) \in Seq(Things(h)) /\ frame.item <= Len(Held(frame)) + 1
             /\ \A j \in frame.item..Len(Held(frame)) : Held(frame)[j] \in Children(h)
  <2>1. 1 \in 1..Len(F) /\ Held(frame) = HeldAt(node, F[1])
    BY <1>1, <1>2, <1>3 DEF Exhausted, Held, KeyOf
  <2>2. Held(frame) \in Seq(Children(h)) /\ Len(Held(frame)) \in Nat
    BY <1>2, <2>1, LenProperties
  <2>3. Children(h) \subseteq Things(h)
    BY DEF Things
  <2>4. Held(frame) \in Seq(Things(h))
    BY <2>2, <2>3, SeqMonotonic
  <2>5. \A j \in 1..Len(Held(frame)) : Held(frame)[j] \in Children(h)
    BY <2>2, ElementOfSeq
  <2> QED
    BY <1>1, <2>2, <2>4, <2>5
<1>4. frame = [node |-> frame.node, key |-> frame.key, item |-> frame.item]
  BY DEF Frame
<1> HIDE DEF frame
<1> QED
  BY <1>1, <1>2, <1>3, <1>4 DEF FrameRight, frame

LEMMA WholeList ==
    ASSUME NEW S, NEW s \in Seq(S)
    PROVE  /\ SubSeq(s, 1, Len(s)) = s /\ SubSeq(s, 1, 0) = << >>
           /\ SubSeq(s, Len(s) + 1, Len(s)) = << >>
           /\ s \o << >> = s /\ << >> \o s = s
<1>1. Len(s) \in Nat
  BY LenProperties
<1>2. SubSeq(s, 1, Len(s)) = s
  BY SubSeqFull
<1>3. s \o << >> = s /\ << >> \o s = s
  BY ConcatEmptySeq
<1>4. 0 < 1 /\ Len(s) < Len(s) + 1 /\ Len(s) + 1 \in Int /\ 0 \in Int /\ 1 \in Int
  BY <1>1
<1>5. SubSeq(s, 1, 0) = << >>
  BY <1>4, SubSeqEmpty
<1>6. SubSeq(s, Len(s) + 1, Len(s)) = << >>
  BY <1>4, SubSeqEmpty
<1> QED
  BY <1>2, <1>3, <1>5, <1>6

(* At the beginning of a field, nothing of it is done.                     *)
LEMMA HalfwayAtFirst ==
    ASSUME NEW h \in Handler, NEW frame, FrameRight(h, frame), ~Exhausted(frame), frame.item = 1
    PROVE  Halfway(h, frame) = Renewed(h, frame.node, KeyOf(frame))
<1>1. CASE Listed(frame)
  <2>1. IsList(frame.node, KeyOf(frame)) /\ Held(frame) = frame.node[KeyOf(frame)]
    BY <1>1 DEF Listed, Held, HeldAt
  <2>2. Held(frame) \in Seq(Things(h)) /\ Len(Held(frame)) \in Nat
        /\ \A j \in 1..Len(Held(frame)) : Held(frame)[j] \in Children(h)
    BY LenProperties DEF FrameRight
  <2>3. SubSeq(Held(frame), 1, Len(Held(frame))) = Held(frame) /\ SubSeq(Held(frame), 1, 0) = << >>
    BY <2>2, WholeList
  <2>4. SubSeq(Held(frame), 1, Len(Held(frame))) \in Seq(Children(h))
    <3>1. 1 \in Int /\ Len(Held(frame)) \in Int
      BY <2>2
    <3> QED
      BY <2>2, <3>1, SubSeqProperties
  <2>5. KeptAll(h, Held(frame)) \in Seq(Things(h))
    BY <2>3, <2>4, KeptAllType
  <2>6. << >> \o KeptAll(h, Held(frame)) = KeptAll(h, Held(frame))
    BY <2>5, WholeList
  <2>7. Halfway(h, frame) = SubSeq(Held(frame), 1, 1 - 1)
                               \o KeptAll(h, SubSeq(Held(frame), 1, Len(Held(frame))))
    BY <1>1 DEF Halfway
  <2>8. 1 - 1 = 0
    OBVIOUS
  <2>9. Halfway(h, frame) = KeptAll(h, Held(frame))
    BY <2>3, <2>6, <2>7, <2>8
  <2> QED
    BY <2>1, <2>9 DEF Renewed
<1>2. CASE ~Listed(frame)
  BY <1>2 DEF Halfway, Listed, Renewed
<1> QED
  BY <1>1, <1>2

(* And at its end, everything.                                             *)
LEMMA HalfwayAtLast ==
    ASSUME NEW h \in Handler, NEW frame, FrameRight(h, frame), ~Exhausted(frame), ~Reached(frame)
    PROVE  Halfway(h, frame) = frame.node[KeyOf(frame)]
<1>1. Held(frame) \in Seq(Things(h)) /\ Len(Held(frame)) \in Nat /\ frame.item = Len(Held(frame)) + 1
  BY LenProperties DEF FrameRight, Reached
<1>2. CASE Listed(frame)
  <2>1. Held(frame) = frame.node[KeyOf(frame)]
    BY <1>2 DEF Listed, Held, HeldAt
  <2>2. Halfway(h, frame) = SubSeq(Held(frame), 1, frame.item - 1)
                               \o KeptAll(h, SubSeq(Held(frame), frame.item, Len(Held(frame))))
    BY <1>2 DEF Halfway
  <2>3. frame.item - 1 = Len(Held(frame))
    BY <1>1
  <2>4. /\ SubSeq(Held(frame), 1, Len(Held(frame))) = Held(frame)
        /\ SubSeq(Held(frame), Len(Held(frame)) + 1, Len(Held(frame))) = << >>
        /\ Held(frame) \o << >> = Held(frame)
    BY <1>1, WholeList
  <2> QED
    BY <1>1, <2>1, <2>2, <2>3, <2>4, KeptAllEmpty
<1>3. CASE ~Listed(frame)
  <2>1. Held(frame) = <<frame.node[KeyOf(frame)]>>
    BY <1>3 DEF Listed, Held, HeldAt
  <2>2. frame.item # 1
    BY <1>1, <2>1
  <2> QED
    BY <1>3, <2>2 DEF Halfway
<1> QED
  BY <1>2, <1>3

LEMMA FreshFrameFinishes ==
    ASSUME NEW h \in Handler, NEW node, IsNode(node, NodesFor(h))
    PROVE  Finished(h, Frame(node)) = Rebuilt(h, node)
<1> DEFINE frame == Frame(node)
           F == FieldsOf(node)
<1>1. frame.node = node /\ frame.key = 1 /\ frame.item = 1
  BY DEF Frame
<1>2. FrameRight(h, frame)
  BY FreshFrameRight
<1>3. Len(F) \in Nat
  BY <1>1, <1>2, LenProperties DEF FrameRight, IsRecord
<1> HIDE DEF frame
<1>4. ASSUME NEW f \in DOMAIN node, At(frame, f) PROVE Halfway(h, frame) = Renewed(h, node, f)
  BY <1>1, <1>2, <1>4, HalfwayAtFirst DEF At
<1>5. ASSUME NEW f \in DOMAIN node
      PROVE  Contains(F, f) <=> At(frame, f) \/ Later(frame, f)
  <2>1. At(frame, f) <=> 1 \in 1..Len(F) /\ F[1] = f
    BY <1>1, <1>3 DEF At, Exhausted, KeyOf
  <2>2. Later(frame, f) <=> \E i \in 1..Len(F) : i > 1 /\ F[i] = f
    BY <1>1 DEF Later
  <2>3. Contains(F, f) <=> \E i \in 1..Len(F) : F[i] = f
    BY DEF Contains
  <2>4. \A i \in 1..Len(F) : i = 1 \/ i > 1
    OBVIOUS
  <2> QED
    BY <2>1, <2>2, <2>3, <2>4
<1> QED
  BY <1>1, <1>4, <1>5 DEF Finished, Rebuilt, frame

LEMMA ExhaustedIsFinished ==
    ASSUME NEW h, NEW frame, FrameRight(h, frame), Exhausted(frame)
    PROVE  Finished(h, frame) = frame.node
<1>1. Len(FieldsOf(frame.node)) \in Nat /\ frame.key \in Nat
  BY LenProperties DEF FrameRight, IsRecord
<1>2. \A f : ~At(frame, f) /\ ~Later(frame, f)
  BY <1>1 DEF At, Later, Exhausted
<1>3. Finished(h, frame) = [f \in DOMAIN frame.node |-> frame.node[f]]
  BY <1>2 DEF Finished
<1> QED
  BY <1>3 DEF FrameRight, IsRecord

(***************************************************************************)
(* A child put back, or left out.                                          *)
(***************************************************************************)
Done(frame) == SubSeq(Held(frame), 1, frame.item - 1)
Ahead(frame) == SubSeq(Held(frame), frame.item, Len(Held(frame)))
Beyond(frame) == SubSeq(Held(frame), frame.item + 1, Len(Held(frame)))

LEMMA TypeStays ==
    ASSUME NEW node, IsRecord(node), NEW f \in DOMAIN node \ {"type"}, NEW x,
           NEW new, new = [node EXCEPT ![f] = x]
    PROVE  /\ DOMAIN new = DOMAIN node /\ new[f] = x
           /\ \A g \in DOMAIN node : g # f => new[g] = node[g]
           /\ FieldsOf(new) = FieldsOf(node) /\ \A g : IsList(new, g) = IsList(node, g)
           /\ IsRecord(new)
<1>1. /\ DOMAIN new = DOMAIN node /\ new[f] = x
      /\ \A g \in DOMAIN node : g # f => new[g] = node[g]
  BY DEF IsRecord
<1>2. "type" \in DOMAIN node /\ new.type = node.type
  BY <1>1 DEF IsRecord
<1>3. FieldsOf(new) = FieldsOf(node) /\ \A g : IsList(new, g) = IsList(node, g)
  BY <1>2 DEF FieldsOf, IsList
<1>4. new = [g \in DOMAIN new |-> new[g]]
  BY <1>1
<1>5. /\ "type" \in DOMAIN new /\ FieldsOf(new) \in Seq(DOMAIN new \ {"type"})
      /\ \A i, j \in 1..Len(FieldsOf(new)) : FieldsOf(new)[i] = FieldsOf(new)[j] => i = j
  <2>1. /\ FieldsOf(node) \in Seq(DOMAIN node \ {"type"})
        /\ \A i, j \in 1..Len(FieldsOf(node)) : FieldsOf(node)[i] = FieldsOf(node)[j] => i = j
    BY DEF IsRecord
  <2>2. FieldsOf(new) = FieldsOf(node) /\ DOMAIN new = DOMAIN node
    BY <1>1, <1>3
  <2>3. "type" \in DOMAIN new
    BY <1>2, <2>2
  <2> DEFINE F == FieldsOf(node)
             D == DOMAIN node
  <2>4. F \in Seq(D \ {"type"}) /\ \A i, j \in 1..Len(F) : F[i] = F[j] => i = j
    BY <2>1
  <2>5. FieldsOf(new) = F /\ DOMAIN new = D
    BY <2>2
  <2> HIDE DEF F, D
  <2> QED
    BY <2>3, <2>4, <2>5
<1>6. IsRecord(new)
  BY <1>4, <1>5 DEF IsRecord
<1> QED
  BY <1>1, <1>3, <1>6

LEMMA ReachedPlace ==
    ASSUME NEW h \in Handler, NEW frame, FrameRight(h, frame), Reached(frame)
    PROVE  /\ KeyOf(frame) \in DOMAIN frame.node \ {"type"}
           /\ Held(frame) \in Seq(Things(h)) /\ Len(Held(frame)) \in Nat
           /\ frame.item \in 1..Len(Held(frame)) /\ Child(frame) \in Children(h)
           /\ \A j \in frame.item..Len(Held(frame)) : Held(frame)[j] \in Children(h)
           /\ Done(frame) \in Seq(Things(h)) /\ Len(Done(frame)) = frame.item - 1
           /\ Beyond(frame) \in Seq(Children(h)) /\ Beyond(frame) \in Seq(Things(h))
           /\ ~Listed(frame) => Held(frame) = <<frame.node[KeyOf(frame)]>> /\ frame.item = 1
<1>1. ~Exhausted(frame) /\ frame.item <= Len(Held(frame))
  BY DEF Reached
<1>2. /\ Held(frame) \in Seq(Things(h)) /\ Len(Held(frame)) \in Nat
      /\ \A j \in frame.item..Len(Held(frame)) : Held(frame)[j] \in Children(h)
  BY <1>1, LenProperties DEF FrameRight
<1>3. frame.item \in 1..Len(Held(frame))
  BY <1>1, <1>2 DEF FrameRight
<1>4. KeyOf(frame) \in DOMAIN frame.node \ {"type"}
  <2>1. frame.key \in 1..Len(FieldsOf(frame.node))
    BY <1>1, LenProperties DEF FrameRight, IsRecord, Exhausted
  <2> QED
    BY <2>1, ElementOfSeq DEF FrameRight, IsRecord, KeyOf
<1>5. Child(frame) \in Children(h)
  BY <1>2, <1>3 DEF Child
<1>6. Done(frame) \in Seq(Things(h)) /\ Len(Done(frame)) = frame.item - 1
  BY <1>2, <1>3, TakenOut DEF Done
<1>7. Beyond(frame) \in Seq(Children(h)) /\ Beyond(frame) \in Seq(Things(h))
  BY <1>2, <1>3, TakenOut, KeptAllFrom DEF Beyond
<1>8. ~Listed(frame) => Held(frame) = <<frame.node[KeyOf(frame)]>> /\ frame.item = 1
  <2> SUFFICES ASSUME ~Listed(frame)
               PROVE  Held(frame) = <<frame.node[KeyOf(frame)]>> /\ frame.item = 1
    OBVIOUS
  <2>1. Held(frame) = <<frame.node[KeyOf(frame)]>>
    BY DEF Listed, Held, HeldAt
  <2>2. Len(Held(frame)) = 1
    BY <2>1
  <2>3. frame.item = 1
    BY <1>3, <2>2
  <2> QED
    BY <2>1, <2>3
<1> QED
  BY <1>2, <1>3, <1>4, <1>5, <1>6, <1>7, <1>8

LEMMA PutBackShape ==
    ASSUME NEW h \in Handler, NEW frame, FrameRight(h, frame), Reached(frame),
           NEW kept \in Seq(Things(h)), kept = << >> \/ kept = <<FirstOf(kept)>>,
           NEW new, new = PutBack(frame, kept)
    PROVE  /\ new = [node |-> new.node, key |-> frame.key, item |-> new.item]
           /\ FieldsOf(new.node) = FieldsOf(frame.node) /\ IsRecord(new.node)
           /\ DOMAIN new.node = DOMAIN frame.node
           /\ \A f : IsList(new.node, f) = IsList(frame.node, f)
           /\ \A f \in DOMAIN frame.node : f # KeyOf(frame) => new.node[f] = frame.node[f]
           /\ ~Exhausted(new) /\ KeyOf(new) = KeyOf(frame) /\ Listed(new) = Listed(frame)
           /\ Listed(frame) => /\ Held(new) = (Done(frame) \o kept) \o Beyond(frame)
                               /\ new.item = frame.item + Len(kept)
           /\ ~Listed(frame) => Held(new) = <<FirstOf(kept)>> /\ new.item = 2
<1> DEFINE K == KeyOf(frame)
           x == IF Listed(frame) THEN (Done(frame) \o kept) \o Beyond(frame) ELSE FirstOf(kept)
           item == IF Listed(frame) THEN frame.item + Len(kept) ELSE frame.item + 1
<1>1. new = [frame EXCEPT !.node[K] = x, !.item = item]
  BY DEF PutBack, FirstOf, Done, Beyond
<1>2. frame = [node |-> frame.node, key |-> frame.key, item |-> frame.item]
  BY DEF FrameRight
<1> HIDE DEF x, item
<1>3. /\ new.node = [frame.node EXCEPT ![K] = x] /\ new.item = item
      /\ new = [node |-> new.node, key |-> frame.key, item |-> new.item]
  BY <1>1, <1>2
<1>4. K \in DOMAIN frame.node \ {"type"} /\ IsRecord(frame.node)
  BY ReachedPlace DEF FrameRight
<1>5. /\ DOMAIN new.node = DOMAIN frame.node /\ new.node[K] = x
      /\ \A g \in DOMAIN frame.node : g # K => new.node[g] = frame.node[g]
      /\ FieldsOf(new.node) = FieldsOf(frame.node)
      /\ \A g : IsList(new.node, g) = IsList(frame.node, g)
      /\ IsRecord(new.node)
  <2> HIDE DEF K
  <2> QED
    BY <1>3, <1>4, TypeStays
<1>6. new.key = frame.key
  BY <1>3
<1>7. ~Exhausted(new) /\ KeyOf(new) = K /\ Listed(new) = Listed(frame)
  BY <1>5, <1>6 DEF Exhausted, Reached, KeyOf, Listed
<1>8. ASSUME Listed(frame)
      PROVE  /\ Held(new) = (Done(frame) \o kept) \o Beyond(frame)
             /\ new.item = frame.item + Len(kept)
  <2>1. Held(new) = new.node[K]
    BY <1>7, <1>8 DEF Held, HeldAt, Listed
  <2> QED
    BY <1>3, <1>5, <1>8, <2>1 DEF x, item
<1>9. ASSUME ~Listed(frame) PROVE Held(new) = <<FirstOf(kept)>> /\ new.item = 2
  <2>1. Held(new) = <<new.node[K]>>
    BY <1>7, <1>9 DEF Held, HeldAt, Listed
  <2>2. frame.item = 1
    BY <1>9, ReachedPlace
  <2> QED
    BY <1>3, <1>5, <1>9, <2>1, <2>2 DEF x, item
<1> QED
  BY <1>3, <1>5, <1>7, <1>8, <1>9

(* The lists before and behind the place of the child.                     *)
LEMMA PutBackAhead ==
    ASSUME NEW h \in Handler, NEW frame, FrameRight(h, frame), Reached(frame),
           NEW kept \in Seq(Things(h)), kept = << >> \/ kept = <<FirstOf(kept)>>,
           NEW new, new = PutBack(frame, kept)
    PROVE  /\ Held(new) \in Seq(Things(h)) /\ new.item \in Nat \ {0}
           /\ new.item <= Len(Held(new)) + 1 /\ Ahead(new) = Beyond(frame)
           /\ Listed(frame) => Done(new) = Done(frame) \o kept
           /\ \A j \in new.item..Len(Held(new)) : Held(new)[j] \in Children(h)
<1>1. CASE Listed(frame)
  <2> DEFINE u == Done(frame) \o kept
             v == Beyond(frame)
  <2>1. Held(new) = u \o v /\ new.item = frame.item + Len(kept)
    BY <1>1, PutBackShape
  <2>2. Done(frame) \in Seq(Things(h)) /\ Len(Done(frame)) = frame.item - 1
        /\ frame.item \in Nat \ {0} /\ Len(kept) \in Nat
        /\ Beyond(frame) \in Seq(Children(h)) /\ Beyond(frame) \in Seq(Things(h))
    BY ReachedPlace, LenProperties
  <2>3. u \in Seq(Things(h)) /\ Len(u) = new.item - 1
    <3>1. u \in Seq(Things(h)) /\ Len(u) = Len(Done(frame)) + Len(kept)
      BY <2>2, ConcatProperties
    <3> HIDE DEF u
    <3> QED
      BY <2>1, <2>2, <3>1
  <2>4. Held(new) \in Seq(Things(h)) /\ Len(Held(new)) = Len(u) + Len(v) /\ Len(v) \in Nat
        /\ \A j \in 1..(Len(u) + Len(v)) : Held(new)[j] = IF j <= Len(u) THEN u[j] ELSE v[j - Len(u)]
    <3>1. v \in Seq(Things(h))
      BY <2>2
    <3> HIDE DEF u, v
    <3>2. u \o v \in Seq(Things(h)) /\ Len(u \o v) = Len(u) + Len(v)
      BY <2>3, <3>1, ConcatProperties
    <3>3. \A j \in 1..(Len(u) + Len(v)) : (u \o v)[j] = IF j <= Len(u) THEN u[j] ELSE v[j - Len(u)]
      BY <2>3, <3>1, ConcatProperties
    <3>4. Len(v) \in Nat
      BY <3>1, LenProperties
    <3> QED
      BY <2>1, <3>2, <3>3, <3>4
  <2>5. new.item \in Nat \ {0} /\ new.item = Len(u) + 1
    BY <2>1, <2>2, <2>3
  <2>6. Ahead(new) = v /\ Done(new) = u
    <3>1. SubSeq(u \o v, 1, Len(u)) = u /\ SubSeq(u \o v, Len(u) + 1, Len(u \o v)) = v
      <4> HIDE DEF u
      <4> QED
        BY <2>2, <2>3, ConcatParts
    <3> HIDE DEF u, v
    <3> QED
      BY <2>1, <2>3, <2>5, <3>1 DEF Ahead, Done
  <2>7. ASSUME NEW j \in new.item..Len(Held(new)) PROVE Held(new)[j] \in Children(h)
    <3> HIDE DEF u, v
    <3>1. j \in 1..(Len(u) + Len(v)) /\ ~(j <= Len(u)) /\ j - Len(u) \in 1..Len(v)
      BY <2>3, <2>4, <2>5
    <3>2. v[j - Len(u)] \in Children(h)
      BY <2>2, <3>1, ElementOfSeq DEF v
    <3> QED
      BY <2>4, <3>1, <3>2
  <2> QED
    BY <1>1, <2>3, <2>4, <2>5, <2>6, <2>7
<1>2. CASE ~Listed(frame)
  <2>1. Held(new) = <<FirstOf(kept)>> /\ new.item = 2 /\ frame.item = 1
        /\ Len(Held(frame)) = 1 /\ Held(frame) \in Seq(Things(h))
    <3>1. Held(new) = <<FirstOf(kept)>> /\ new.item = 2
      BY <1>2, PutBackShape
    <3>2. Held(frame) = <<frame.node[KeyOf(frame)]>> /\ frame.item = 1
          /\ Held(frame) \in Seq(Things(h))
      BY <1>2, ReachedPlace
    <3> QED
      BY <3>1, <3>2
  <2>2. FirstOf(kept) \in Things(h)
    <3>1. CASE kept = << >>
      BY <3>1 DEF FirstOf, Things, Children
    <3>2. CASE kept # << >>
      <4>1. 1 \in 1..Len(kept)
        BY <3>2, EmptySeq, LenProperties
      <4>2. kept[1] \in Things(h)
        BY <4>1, ElementOfSeq
      <4> QED
        BY <3>2, <4>2 DEF FirstOf
    <3> QED
      BY <3>1, <3>2
  <2>3. Held(new) \in Seq(Things(h)) /\ Len(Held(new)) = 1
    BY <2>1, <2>2
  <2>4. SubSeq(Held(new), Len(Held(new)) + 1, Len(Held(new))) = << >>
        /\ SubSeq(Held(frame), Len(Held(frame)) + 1, Len(Held(frame))) = << >>
    BY <2>1, <2>3, WholeList
  <2>5. 1 + 1 = 2
    OBVIOUS
  <2>6. Ahead(new) = Beyond(frame)
    BY <2>1, <2>3, <2>4, <2>5 DEF Ahead, Beyond
  <2> QED
    BY <1>2, <2>1, <2>3, <2>6
<1> QED
  BY <1>1, <1>2

LEMMA OtherFields ==
    ASSUME NEW h \in Handler, NEW frame, FrameRight(h, frame), Reached(frame),
           NEW kept \in Seq(Things(h)), kept = << >> \/ kept = <<FirstOf(kept)>>,
           NEW new, new = PutBack(frame, kept),
           NEW i \in 1..Len(FieldsOf(frame.node)), i > frame.key
    PROVE  LET f == FieldsOf(frame.node)[i]
           IN  /\ f \in DOMAIN frame.node /\ f # KeyOf(frame) /\ new.node[f] = frame.node[f]
               /\ HeldAt(new.node, f) = HeldAt(frame.node, f)
               /\ Renewed(h, new.node, f) = Renewed(h, frame.node, f)
<1> DEFINE F == FieldsOf(frame.node)
           f == F[i]
<1>1. /\ F \in Seq(DOMAIN frame.node \ {"type"}) /\ Len(F) \in Nat
      /\ \A a, b \in 1..Len(F) : F[a] = F[b] => a = b
  BY LenProperties DEF FrameRight, IsRecord
<1>2. frame.key \in 1..Len(F) /\ KeyOf(frame) = F[frame.key]
  BY <1>1 DEF Reached, Exhausted, FrameRight, KeyOf
<1>3. f \in DOMAIN frame.node
  BY <1>1, ElementOfSeq
<1>4. f # KeyOf(frame)
  <2>1. i # frame.key
    BY <1>2
  <2> QED
    BY <1>1, <1>2, <2>1
<1> HIDE DEF f
<1>5. new.node[f] = frame.node[f] /\ IsList(new.node, f) = IsList(frame.node, f)
  <2>1. /\ \A g : IsList(new.node, g) = IsList(frame.node, g)
        /\ \A g \in DOMAIN frame.node : g # KeyOf(frame) => new.node[g] = frame.node[g]
    BY PutBackShape
  <2> QED
    BY <1>3, <1>4, <2>1
<1>6. HeldAt(new.node, f) = HeldAt(frame.node, f)
  BY <1>5 DEF HeldAt
<1>7. Renewed(h, new.node, f) = Renewed(h, frame.node, f)
  BY <1>5 DEF Renewed
<1> QED
  BY <1>3, <1>4, <1>5, <1>6, <1>7 DEF f

LEMMA HalfwayStays ==
    ASSUME NEW h \in Handler, NEW frame, FrameRight(h, frame), Reached(frame),
           NEW kept, kept = Keeps(h, Child(frame)), NEW new, new = PutBack(frame, kept)
    PROVE  Halfway(h, new) = Halfway(h, frame)
<1>1. kept \in Seq(Things(h)) /\ (kept = << >> \/ kept = <<FirstOf(kept)>>)
  BY ReachedPlace, KeepsShape
<1>2. Listed(new) = Listed(frame) /\ KeyOf(new) = KeyOf(frame)
  BY <1>1, PutBackShape
<1>3. CASE Listed(frame)
  <2>1. Halfway(h, new) = Done(new) \o KeptAll(h, Ahead(new))
        /\ Halfway(h, frame) = Done(frame) \o KeptAll(h, Ahead(frame))
    BY <1>2, <1>3 DEF Halfway, Done, Ahead
  <2>2. Done(new) = Done(frame) \o kept /\ Ahead(new) = Beyond(frame)
    BY <1>1, <1>3, PutBackAhead
  <2>3. KeptAll(h, Ahead(frame)) = kept \o KeptAll(h, Beyond(frame))
    BY ReachedPlace, KeptAllFrom DEF Ahead, Beyond, Child
  <2>4. Done(frame) \in Seq(Things(h)) /\ KeptAll(h, Beyond(frame)) \in Seq(Things(h))
    BY ReachedPlace, KeptAllType
  <2>5. (Done(frame) \o kept) \o KeptAll(h, Beyond(frame))
           = Done(frame) \o (kept \o KeptAll(h, Beyond(frame)))
    <3>1. Associates(Things(h))
      BY Associative
    <3> QED
      BY <1>1, <2>4, <3>1 DEF Associates
  <2> QED
    BY <2>1, <2>2, <2>3, <2>5
<1>4. CASE ~Listed(frame)
  <2>1. Held(frame) = <<frame.node[KeyOf(frame)]>> /\ frame.item = 1
    BY <1>4, ReachedPlace
  <2>2. Child(frame) = frame.node[KeyOf(frame)]
    BY <2>1 DEF Child
  <2>3. Halfway(h, frame) = FirstOf(kept)
    BY <1>4, <2>1, <2>2 DEF Halfway
  <2>4. Held(new) = <<FirstOf(kept)>> /\ new.item = 2
    BY <1>1, <1>4, PutBackShape
  <2>5. Held(new) = <<new.node[KeyOf(new)]>>
    BY <1>2, <1>4 DEF Held, HeldAt, Listed
  <2>6. new.node[KeyOf(new)] = FirstOf(kept)
    BY <2>4, <2>5
  <2>7. Halfway(h, new) = new.node[KeyOf(new)]
    BY <1>2, <1>4, <2>4 DEF Halfway
  <2> QED
    BY <2>3, <2>6, <2>7
<1> QED
  BY <1>3, <1>4

LEMMA PutBackKeeps ==
    ASSUME NEW h \in Handler, NEW frame, FrameRight(h, frame), Reached(frame),
           NEW kept, kept = Keeps(h, Child(frame)), NEW new, new = PutBack(frame, kept)
    PROVE  FrameRight(h, new) /\ Finished(h, new) = Finished(h, frame)
<1> DEFINE F == FieldsOf(frame.node)
<1>1. kept \in Seq(Things(h)) /\ (kept = << >> \/ kept = <<FirstOf(kept)>>)
  BY ReachedPlace, KeepsShape
<1>2. /\ new = [node |-> new.node, key |-> frame.key, item |-> new.item]
      /\ FieldsOf(new.node) = F /\ IsRecord(new.node) /\ DOMAIN new.node = DOMAIN frame.node
      /\ \A f \in DOMAIN frame.node : f # KeyOf(frame) => new.node[f] = frame.node[f]
      /\ ~Exhausted(new) /\ KeyOf(new) = KeyOf(frame)
  BY <1>1, PutBackShape
<1>3. new.key = frame.key /\ frame.key \in Nat \ {0} /\ ~Exhausted(frame)
  BY <1>2 DEF FrameRight, Reached
<1>4. FrameRight(h, new)
  <2>1. ASSUME NEW i \in 1..Len(F), i > frame.key
        PROVE  HeldAt(new.node, F[i]) \in Seq(Children(h))
    <3>1. HeldAt(new.node, F[i]) = HeldAt(frame.node, F[i])
      BY <1>1, <2>1, OtherFields
    <3> QED
      BY <2>1, <3>1 DEF FrameRight
  <2>2. new = [node |-> new.node, key |-> new.key, item |-> new.item]
    BY <1>2
  <2>3. /\ Held(new) \in Seq(Things(h)) /\ new.item \in Nat \ {0}
        /\ new.item <= Len(Held(new)) + 1
        /\ \A j \in new.item..Len(Held(new)) : Held(new)[j] \in Children(h)
    BY <1>1, PutBackAhead
  <2> QED
    BY <1>2, <1>3, <2>1, <2>2, <2>3 DEF FrameRight
<1>5. Halfway(h, new) = Halfway(h, frame)
  BY HalfwayStays
<1>6. ASSUME NEW f PROVE (At(new, f) <=> At(frame, f)) /\ (Later(new, f) <=> Later(frame, f))
  BY <1>2, <1>3 DEF At, Later
<1>7. ASSUME NEW f \in DOMAIN frame.node, ~At(frame, f) PROVE new.node[f] = frame.node[f]
  BY <1>2, <1>3, <1>7 DEF At
<1>8. ASSUME NEW f \in DOMAIN frame.node, Later(frame, f)
      PROVE  Renewed(h, new.node, f) = Renewed(h, frame.node, f)
  <2>1. PICK i \in 1..Len(F) : i > frame.key /\ F[i] = f
    BY <1>8 DEF Later
  <2> QED
    BY <1>1, <2>1, OtherFields
<1>9. Finished(h, new) = [f \in DOMAIN frame.node |->
         IF At(frame, f) THEN Halfway(h, frame)
         ELSE IF Later(frame, f) THEN Renewed(h, frame.node, f) ELSE frame.node[f]]
  BY <1>2, <1>5, <1>6, <1>7, <1>8 DEF Finished
<1> QED
  BY <1>4, <1>9 DEF Finished

(***************************************************************************)
(* The walker moves on: past an element that is no node, or to the next    *)
(* field.                                                                  *)
(***************************************************************************)
NextItem(frame) == [frame EXCEPT !.item = @ + 1]
NextField(frame) == [frame EXCEPT !.key = @ + 1, !.item = 1]

LEMMA NextItemPutsBack ==
    ASSUME NEW h \in Handler, NEW frame, FrameRight(h, frame), Reached(frame)
    PROVE  NextItem(frame) = PutBack(frame, <<Child(frame)>>)
<1> DEFINE K == KeyOf(frame)
           child == Child(frame)
           list == SubSeq(Held(frame), 1, frame.item - 1) \o <<child>>
                   \o SubSeq(Held(frame), frame.item + 1, Len(Held(frame)))
           x == IF Listed(frame) THEN list ELSE <<child>>[1]
<1>1. x = frame.node[K]
  <2>1. CASE Listed(frame)
    <3>1. list = Held(frame)
      <4>1. Held(frame) \in Seq(Things(h)) /\ frame.item \in 1..Len(Held(frame))
        BY ReachedPlace
      <4> QED
        BY <4>1, TakenOut DEF Child
    <3>2. Held(frame) = frame.node[K]
      BY <2>1 DEF Listed, Held, HeldAt
    <3> QED
      BY <2>1, <3>1, <3>2
  <2>2. CASE ~Listed(frame)
    <3>1. Held(frame) = <<frame.node[K]>> /\ frame.item = 1
      BY <2>2, ReachedPlace
    <3> QED
      BY <2>2, <3>1 DEF Child
  <2> QED
    BY <2>1, <2>2
<1>2. PutBack(frame, <<child>>) = [frame EXCEPT !.node[K] = x,
                                     !.item = IF Listed(frame) THEN @ + Len(<<child>>) ELSE @ + 1]
  <2>1. <<child>> # << >>
    OBVIOUS
  <2> QED
    BY <2>1 DEF PutBack
<1>3. Len(<<child>>) = 1
  OBVIOUS
<1> HIDE DEF x, child
<1>4. PutBack(frame, <<child>>) = [frame EXCEPT !.node[K] = frame.node[K], !.item = @ + 1]
  BY <1>1, <1>2, <1>3
<1>5. frame = [node |-> frame.node, key |-> frame.key, item |-> frame.item]
      /\ frame.node = [f \in DOMAIN frame.node |-> frame.node[f]]
  BY DEF FrameRight, IsRecord
<1>6. [frame.node EXCEPT ![K] = frame.node[K]] = frame.node
  BY <1>5
<1>7. [frame EXCEPT !.node[K] = frame.node[K], !.item = @ + 1]
         = [node |-> frame.node, key |-> frame.key, item |-> frame.item + 1]
  <2> HIDE DEF K
  <2> DEFINE node == frame.node
             same == [node EXCEPT ![K] = node[K]]
  <2>1. frame.node = node /\ same = node
    BY <1>6
  <2>2. [frame EXCEPT !.node[K] = frame.node[K], !.item = @ + 1]
           = [frame EXCEPT !.node = same, !.item = @ + 1]
    BY <1>5
  <2> HIDE DEF same
  <2>3. [frame EXCEPT !.node = same, !.item = @ + 1]
           = [node |-> same, key |-> frame.key, item |-> frame.item + 1]
    <3>1. PICK n, k, i : frame = [node |-> n, key |-> k, item |-> i]
      BY <1>5
    <3>2. frame.key = k /\ frame.item = i
      BY <3>1
    <3> DEFINE next == frame.item + 1
    <3> HIDE DEF next
    <3>3. PICK half : half = [frame EXCEPT !.node = same]
      OBVIOUS
    <3>4. half = [node |-> same, key |-> k, item |-> i]
      BY <3>1, <3>3
    <3>5. [half EXCEPT !.item = next] = [node |-> same, key |-> k, item |-> next]
      BY <3>4
    <3>6. [frame EXCEPT !.node = same, !.item = next] = [half EXCEPT !.item = next]
      BY <3>3
    <3> QED
      BY <3>2, <3>5, <3>6 DEF next
  <2> QED
    BY <2>1, <2>2, <2>3
<1>8. NextItem(frame) = [node |-> frame.node, key |-> frame.key, item |-> frame.item + 1]
  BY <1>5 DEF NextItem
<1> QED
  BY <1>4, <1>7, <1>8 DEF child

LEMMA NextItemKeeps ==
    ASSUME NEW h \in Handler, NEW frame, FrameRight(h, frame), Reached(frame), ~AtChild(frame)
    PROVE  FrameRight(h, NextItem(frame)) /\ Finished(h, NextItem(frame)) = Finished(h, frame)
<1>1. Child(frame) = Missing
  BY DEF AtChild, Child
<1>2. Keeps(h, Child(frame)) = <<Child(frame)>>
  BY <1>1 DEF Keeps
<1> QED
  BY <1>2, NextItemPutsBack, PutBackKeeps

LEMMA NextFieldKeeps ==
    ASSUME NEW h \in Handler, NEW frame, FrameRight(h, frame), ~Exhausted(frame), ~Reached(frame)
    PROVE  FrameRight(h, NextField(frame)) /\ Finished(h, NextField(frame)) = Finished(h, frame)
<1> DEFINE F == FieldsOf(frame.node)
           new == NextField(frame)
<1>1. /\ F \in Seq(DOMAIN frame.node \ {"type"}) /\ Len(F) \in Nat /\ IsRecord(frame.node)
      /\ \A a, b \in 1..Len(F) : F[a] = F[b] => a = b
      /\ frame = [node |-> frame.node, key |-> frame.key, item |-> frame.item]
  BY LenProperties DEF FrameRight, IsRecord
<1>2. new = [node |-> frame.node, key |-> frame.key + 1, item |-> 1]
  <2>1. PICK n, k, i : frame = [node |-> n, key |-> k, item |-> i]
    BY <1>1
  <2>2. frame.node = n /\ frame.key = k
    BY <2>1
  <2> DEFINE next == frame.key + 1
             one == 1
  <2> HIDE DEF next, one
  <2>3. PICK half : half = [frame EXCEPT !.key = next]
    OBVIOUS
  <2>4. half = [node |-> n, key |-> next, item |-> i]
    BY <2>1, <2>3
  <2>5. [half EXCEPT !.item = one] = [node |-> n, key |-> next, item |-> one]
    BY <2>4
  <2>6. NextField(frame) = [half EXCEPT !.item = one]
    BY <2>3 DEF NextField, next, one
  <2> QED
    BY <2>2, <2>5, <2>6 DEF next, one
<1>3. new.node = frame.node /\ new.key = frame.key + 1 /\ new.item = 1
      /\ new = [node |-> new.node, key |-> new.key, item |-> new.item]
  BY <1>2
<1> HIDE DEF new
<1>4. frame.key \in 1..Len(F) /\ KeyOf(frame) = F[frame.key]
  BY <1>1 DEF Exhausted, FrameRight, KeyOf
<1>5. FrameRight(h, new)
  <2>1. \A i \in 1..Len(F) : i > frame.key => HeldAt(frame.node, F[i]) \in Seq(Children(h))
    BY DEF FrameRight
  <2>2. ASSUME ~Exhausted(new)
        PROVE  /\ Held(new) \in Seq(Things(h)) /\ new.item <= Len(Held(new)) + 1
               /\ \A j \in new.item..Len(Held(new)) : Held(new)[j] \in Children(h)
    <3>1. frame.key + 1 \in 1..Len(F) /\ frame.key + 1 > frame.key
      BY <1>1, <1>3, <1>4, <2>2 DEF Exhausted
    <3>2. Held(new) = HeldAt(frame.node, F[frame.key + 1])
      BY <1>3 DEF Held, KeyOf
    <3>3. Held(new) \in Seq(Children(h)) /\ Len(Held(new)) \in Nat
      BY <2>1, <3>1, <3>2, LenProperties
    <3>4. Children(h) \subseteq Things(h)
      BY DEF Things
    <3>5. Held(new) \in Seq(Things(h))
      BY <3>3, <3>4, SeqMonotonic
    <3>6. \A j \in 1..Len(Held(new)) : Held(new)[j] \in Children(h)
      BY <3>3, ElementOfSeq
    <3> QED
      BY <1>3, <3>3, <3>5, <3>6
  <2>3. new.key \in Nat \ {0} /\ new.item \in Nat \ {0}
    BY <1>1, <1>3, <1>4
  <2>4. \A i \in 1..Len(F) : i > new.key => i > frame.key
    BY <1>1, <1>3, <1>4
  <2> QED
    BY <1>1, <1>3, <2>1, <2>2, <2>3, <2>4 DEF FrameRight
<1>6. Halfway(h, frame) = frame.node[KeyOf(frame)]
  BY HalfwayAtLast
<1>7. ASSUME NEW f
      PROVE  /\ At(frame, f) => ~At(new, f) /\ ~Later(new, f)
             /\ Later(frame, f) <=> At(new, f) \/ Later(new, f)
  <2>1. At(frame, f) <=> F[frame.key] = f
    BY <1>4 DEF At
  <2>2. At(new, f) <=> frame.key + 1 \in 1..Len(F) /\ F[frame.key + 1] = f
    BY <1>1, <1>3, <1>4 DEF At, Exhausted, KeyOf
  <2>3. Later(new, f) <=> \E i \in 1..Len(F) : i > frame.key + 1 /\ F[i] = f
    BY <1>3 DEF Later
  <2>4. Later(frame, f) <=> \E i \in 1..Len(F) : i > frame.key /\ F[i] = f
    BY DEF Later
  <2>5. \A i \in 1..Len(F) : i > frame.key <=> i = frame.key + 1 \/ i > frame.key + 1
    BY <1>1, <1>4
  <2>6. Later(frame, f) <=> At(new, f) \/ Later(new, f)
    BY <1>1, <1>4, <2>2, <2>3, <2>4, <2>5
  <2>7. At(frame, f) => ~Later(frame, f)
    BY <1>1, <1>4, <2>1, <2>4
  <2> QED
    BY <2>6, <2>7
<1>8. ASSUME NEW f, At(new, f) PROVE Halfway(h, new) = Renewed(h, frame.node, f)
  <2>1. ~Exhausted(new) /\ KeyOf(new) = f
    BY <1>8 DEF At
  <2> QED
    BY <1>3, <1>5, <2>1, HalfwayAtFirst
<1>9. ASSUME NEW f, At(frame, f) PROVE Halfway(h, frame) = frame.node[f]
  BY <1>6, <1>9 DEF At
<1>10. Finished(h, new) = Finished(h, frame)
  BY <1>3, <1>7, <1>8, <1>9 DEF Finished
<1> QED
  BY <1>5, <1>10 DEF new

(***************************************************************************)
(* Stacks: t is the first n - 1 elements of s, and x on top of them.       *)
(***************************************************************************)
Sequential(s) == \E S : s \in Seq(S)
Topped(t, s, n, x) ==
    /\ Sequential(t) /\ Len(t) = n /\ n \in Nat \ {0} /\ t[n] = x
    /\ \A k \in 1..(n - 1) : t[k] = s[k]

LEMMA ToppedLast ==
    ASSUME NEW t, NEW s, NEW n, NEW x, Topped(t, s, n, x)
    PROVE  Last(t) = x /\ t # << >> /\ Len(t) \in Nat \ {0}
<1>1. Len(t) = n /\ n \in Nat \ {0} /\ t[n] = x
  BY DEF Topped
<1>2. t # << >>
  BY <1>1
<1> QED
  BY <1>1, <1>2 DEF Last

LEMMA Push ==
    ASSUME NEW s, Sequential(s), NEW x
    PROVE  Topped(Append(s, x), s, Len(s) + 1, x)
<1>1. PICK S : s \in Seq(S)
  BY DEF Sequential
<1> DEFINE T == S \cup {x}
<1>2. s \in Seq(T) /\ x \in T
  BY <1>1, SeqMonotonic
<1> HIDE DEF T
<1>3. /\ Append(s, x) \in Seq(T) /\ Len(Append(s, x)) = Len(s) + 1
      /\ \A i \in 1..Len(s) : Append(s, x)[i] = s[i]
      /\ Append(s, x)[Len(s) + 1] = x
  BY <1>2, AppendProperties
<1>4. Len(s) \in Nat /\ Sequential(Append(s, x))
  BY <1>1, <1>3, LenProperties DEF Sequential
<1>5. Len(s) + 1 \in Nat \ {0} /\ (Len(s) + 1) - 1 = Len(s)
  BY <1>4
<1> QED
  BY <1>3, <1>4, <1>5 DEF Topped

LEMMA FrontOf ==
    ASSUME NEW s, Sequential(s), Len(s) \in Nat \ {0}
    PROVE  /\ Sequential(Front(s)) /\ Len(Front(s)) = Len(s) - 1
           /\ \A k \in 1..(Len(s) - 1) : Front(s)[k] = s[k]
<1>1. PICK S : s \in Seq(S)
  BY DEF Sequential
<1>2. s # << >>
  OBVIOUS
<1>3. /\ Front(s) \in Seq(S) /\ Len(Front(s)) = Len(s) - 1
      /\ \A k \in 1..(Len(s) - 1) : Front(s)[k] = s[k]
  <2> DEFINE n == Len(s) - 1
  <2>1. 1 \in Int /\ n \in Int /\ \A k \in 1..n : s[k] \in S
    BY <1>1, ElementOfSeq
  <2>2. /\ SubSeq(s, 1, n) \in Seq(S)
        /\ Len(SubSeq(s, 1, n)) = IF 1 <= n THEN n - 1 + 1 ELSE 0
        /\ \A k \in 1..(n - 1 + 1) : SubSeq(s, 1, n)[k] = s[1 + k - 1]
    BY <2>1, SubSeqProperties
  <2>3. n - 1 + 1 = n /\ \A k \in 1..n : 1 + k - 1 = k
    OBVIOUS
  <2>4. n = 0 \/ 1 <= n
    OBVIOUS
  <2>5. Front(s) = SubSeq(s, 1, n)
    BY DEF Front
  <2> HIDE DEF n
  <2>6. \A k \in 1..n : SubSeq(s, 1, n)[k] = s[k]
    BY <2>2, <2>3
  <2>7. Len(SubSeq(s, 1, n)) = n
    BY <2>2, <2>3, <2>4
  <2> QED
    BY <2>2, <2>5, <2>6, <2>7 DEF n
<1> QED
  BY <1>3 DEF Sequential

LEMMA Retop ==
    ASSUME NEW s, Sequential(s), Len(s) \in Nat \ {0}, NEW x
    PROVE  Topped(Append(Front(s), x), s, Len(s), x)
<1>1. /\ Sequential(Front(s)) /\ Len(Front(s)) = Len(s) - 1
      /\ \A k \in 1..(Len(s) - 1) : Front(s)[k] = s[k]
  BY FrontOf
<1>2. Topped(Append(Front(s), x), Front(s), Len(Front(s)) + 1, x)
  BY <1>1, Push
<1>3. Len(Front(s)) + 1 = Len(s)
  BY <1>1
<1> QED
  BY <1>1, <1>2, <1>3 DEF Topped

LEMMA Pop ==
    ASSUME NEW s, Sequential(s), Len(s) \in Nat \ {0}, Len(s) > 1
    PROVE  Topped(Front(s), s, Len(s) - 1, s[Len(s) - 1])
<1>1. /\ Sequential(Front(s)) /\ Len(Front(s)) = Len(s) - 1
      /\ \A k \in 1..(Len(s) - 1) : Front(s)[k] = s[k]
  BY FrontOf
<1> DEFINE n == Len(s) - 1
<1>2. n \in Nat \ {0}
  <2>1. \A m \in Nat : m > 1 => m - 1 \in Nat \ {0}
    OBVIOUS
  <2> QED
    BY <2>1
<1> HIDE DEF n
<1>3. n \in 1..n /\ \A k \in 1..(n - 1) : k \in 1..n
  BY <1>2
<1>4. Sequential(Front(s)) /\ Len(Front(s)) = n /\ \A k \in 1..n : Front(s)[k] = s[k]
  BY <1>1 DEF n
<1>5. Topped(Front(s), s, n, s[n])
  BY <1>2, <1>3, <1>4 DEF Topped
<1> QED
  BY <1>5 DEF n

LEMMA PopRetop ==
    ASSUME NEW s, Sequential(s), Len(s) \in Nat \ {0}, Len(s) > 1, NEW x
    PROVE  Topped(Append(Front(Front(s)), x), s, Len(s) - 1, x) /\ Last(Front(s)) = s[Len(s) - 1]
<1>1. Topped(Front(s), s, Len(s) - 1, s[Len(s) - 1])
  BY Pop
<1>2. Last(Front(s)) = s[Len(s) - 1]
  BY <1>1, ToppedLast
<1>3. /\ Sequential(Front(s)) /\ Len(Front(s)) = Len(s) - 1 /\ Len(Front(s)) \in Nat \ {0}
      /\ \A k \in 1..((Len(s) - 1) - 1) : Front(s)[k] = s[k]
  BY <1>1 DEF Topped
<1>4. Topped(Append(Front(Front(s)), x), Front(s), Len(Front(s)), x)
  BY <1>3, Retop
<1> QED
  BY <1>2, <1>3, <1>4 DEF Topped

LEMMA ExceptTop ==
    ASSUME NEW s, Sequential(s), Len(s) \in Nat \ {0}, NEW x, NEW t, t = [s EXCEPT ![Len(s)] = x]
    PROVE  Topped(t, s, Len(s), x)
<1>1. PICK S : s \in Seq(S)
  BY DEF Sequential
<1> DEFINE T == S \cup {x}
<1>2. s \in Seq(T) /\ x \in T /\ Len(s) \in 1..Len(s)
  BY <1>1, SeqMonotonic
<1> HIDE DEF T
<1>3. /\ t \in Seq(T) /\ Len(t) = Len(s) /\ t[Len(s)] = x
      /\ \A k \in 1..(Len(s) - 1) : t[k] = s[k]
  <2>1. \A k \in 1..(Len(s) - 1) : k \in 1..Len(s) /\ k # Len(s)
    OBVIOUS
  <2>2. DOMAIN s = 1..Len(s)
    BY <1>2, LenProperties
  <2>3. t[Len(s)] = x /\ \A k \in 1..(Len(s) - 1) : t[k] = s[k]
    BY <1>2, <2>1, <2>2
  <2>4. t \in Seq(T) /\ Len(t) = Len(s)
    BY <1>2, ExceptSeq
  <2> QED
    BY <2>3, <2>4
<1> QED
  BY <1>3 DEF Topped, Sequential

(***************************************************************************)
(* Sequences put together from the last one backwards.                     *)
(***************************************************************************)
Backwards(seqs, m) == FlattenSeq([k \in 1..m |-> seqs[m + 1 - k]])

LEMMA BackwardsUnfolds ==
    ASSUME NEW S, NEW m \in Nat, NEW seqs, \A k \in 1..(m + 1) : seqs[k] \in Seq(S)
    PROVE  /\ Backwards(seqs, m + 1) = seqs[m + 1] \o Backwards(seqs, m)
           /\ Backwards(seqs, m) \in Seq(S) /\ seqs[m + 1] \in Seq(S)
<1> DEFINE all == [k \in 1..(m + 1) |-> seqs[m + 1 + 1 - k]]
           rest == [k \in 1..m |-> seqs[m + 1 - k]]
           first == seqs[m + 1]
<1>1. first \in Seq(S)
  OBVIOUS
<1>2. rest \in Seq(Seq(S)) /\ Len(rest) = m
  <2>1. \A k \in 1..m : m + 1 - k \in 1..(m + 1)
    OBVIOUS
  <2>2. \A k \in 1..m : seqs[m + 1 - k] \in Seq(S)
    BY <2>1
  <2> QED
    BY <2>2
<1>3. Len(all) = m + 1
  OBVIOUS
<1>4. all[1] = first
  <2>1. 1 \in 1..(m + 1) /\ m + 1 + 1 - 1 = m + 1
    OBVIOUS
  <2> QED
    BY <2>1
<1>5. ASSUME NEW k \in 1..m PROVE all[k + 1] = rest[k]
  <2>1. k + 1 \in 1..(m + 1) /\ m + 1 + 1 - (k + 1) = m + 1 - k
    OBVIOUS
  <2> QED
    BY <2>1
<1> HIDE DEF all, rest, first
<1>6. FlattenSeq(all) = first \o FlattenSeq(rest)
  BY <1>1, <1>2, <1>3, <1>4, <1>5, FlattenFirst
<1>7. FlattenSeq(rest) \in Seq(S)
  BY <1>2, FlattenType
<1> QED
  BY <1>1, <1>6, <1>7 DEF Backwards, all, rest, first

LEMMA BackwardsSame ==
    ASSUME NEW m \in Nat, NEW s, NEW t, \A k \in 1..m : s[k] = t[k]
    PROVE  Backwards(s, m) = Backwards(t, m)
<1>1. \A k \in 1..m : m + 1 - k \in 1..m
  OBVIOUS
<1>2. \A k \in 1..m : s[m + 1 - k] = t[m + 1 - k]
  BY <1>1
<1> QED
  BY <1>2 DEF Backwards

LEMMA BackwardsNone == \A s : Backwards(s, 0) = << >>
<1> TAKE s
<1>1. [k \in 1..0 |-> s[0 + 1 - k]] = << >>
  OBVIOUS
<1>2. FlattenSeq(<< >>) = << >>
  BY DEF FlattenSeq
<1> QED
  BY <1>1, <1>2 DEF Backwards

(***************************************************************************)
(* What the handler is still to be called on: in the rest of a list, in    *)
(* the rest of a node, and in the nodes above.                             *)
(***************************************************************************)
Shows(h, child) == IF child = Missing THEN << >> ELSE Visits(h, child)
Remaining(h, node, key, list) ==
    FlattenSeq([i \in 1..Len(FieldsOf(node)) |->
        IF i < key THEN << >>
        ELSE IF i = key THEN SeenIn(h, list)
        ELSE SeenIn(h, HeldAt(node, FieldsOf(node)[i]))])
SeenFrom(h, frame) == Remaining(h, frame.node, frame.key, Ahead(frame))
SeenAfter(h, frame) == Remaining(h, frame.node, frame.key, Beyond(frame))

LEMMA ShowsType ==
    ASSUME NEW h \in Handler, NEW child \in Children(h)
    PROVE  Shows(h, child) \in Seq(NodesFor(h))
<1>1. << >> \in Seq(NodesFor(h))
  BY EmptySeq
<1> QED
  BY <1>1, RecursionAssumption DEF Shows, Children

LEMMA SeenInType ==
    ASSUME NEW h \in Handler, NEW nodes \in Seq(Children(h))
    PROVE  SeenIn(h, nodes) \in Seq(NodesFor(h))
<1> DEFINE seqs == [i \in DOMAIN nodes |-> Shows(h, nodes[i])]
<1>1. Len(nodes) \in Nat /\ DOMAIN nodes = 1..Len(nodes)
  BY LenProperties
<1>2. \A i \in 1..Len(nodes) : Shows(h, nodes[i]) \in Seq(NodesFor(h))
  BY ElementOfSeq, ShowsType
<1>3. seqs \in Seq(Seq(NodesFor(h)))
  BY <1>1, <1>2
<1> HIDE DEF seqs
<1>4. FlattenSeq(seqs) \in Seq(NodesFor(h))
  BY <1>3, FlattenType
<1> QED
  BY <1>4 DEF SeenIn, Shows, seqs

LEMMA SeenInEmpty == \A h : SeenIn(h, << >>) = << >>
<1> TAKE h
<1>1. [i \in DOMAIN << >> |-> IF << >>[i] = Missing THEN << >> ELSE Visits(h, << >>[i])] = << >>
  OBVIOUS
<1>2. FlattenSeq(<< >>) = << >>
  BY DEF FlattenSeq
<1> QED
  BY <1>1, <1>2 DEF SeenIn

LEMMA SeenInFrom ==
    ASSUME NEW h \in Handler, NEW s \in Seq(Things(h)), NEW i \in 1..Len(s),
           \A j \in i..Len(s) : s[j] \in Children(h)
    PROVE  SeenIn(h, SubSeq(s, i, Len(s))) = Shows(h, s[i]) \o SeenIn(h, SubSeq(s, i + 1, Len(s)))
<1> DEFINE f == [child \in Children(h) |-> Shows(h, child)]
<1>1. f \in [Children(h) -> Seq(NodesFor(h))]
  BY ShowsType
<1>2. ASSUME NEW nodes \in Seq(Children(h)) PROVE OfAll(f, nodes) = SeenIn(h, nodes)
  <2>1. \A k \in DOMAIN nodes : f[nodes[k]] = Shows(h, nodes[k])
    BY ElementOfSeq, LenProperties
  <2> HIDE DEF f
  <2> QED
    BY <2>1 DEF OfAll, SeenIn, Shows
<1>3. f[s[i]] = Shows(h, s[i])
  BY LenProperties
<1> HIDE DEF f
<1>4. /\ SubSeq(s, i, Len(s)) \in Seq(Children(h)) /\ SubSeq(s, i + 1, Len(s)) \in Seq(Children(h))
      /\ OfAll(f, SubSeq(s, i, Len(s))) = f[s[i]] \o OfAll(f, SubSeq(s, i + 1, Len(s)))
  <2>1. From(Children(h), s, i)
    BY DEF From
  <2>2. Unfolds(Children(h), Things(h), NodesFor(h))
    BY ListUnfolds
  <2> QED
    BY <1>1, <2>1, <2>2 DEF Unfolds
<1> QED
  BY <1>2, <1>3, <1>4

LEMMA RemainingType ==
    ASSUME NEW h \in Handler, NEW frame, FrameRight(h, frame), NEW list \in Seq(Children(h))
    PROVE  Remaining(h, frame.node, frame.key, list) \in Seq(NodesFor(h))
<1> DEFINE F == FieldsOf(frame.node)
           seqs == [i \in 1..Len(F) |->
                      IF i < frame.key THEN << >>
                      ELSE IF i = frame.key THEN SeenIn(h, list)
                      ELSE SeenIn(h, HeldAt(frame.node, F[i]))]
<1>1. Len(F) \in Nat /\ frame.key \in Nat
  BY LenProperties DEF FrameRight, IsRecord
<1>2. << >> \in Seq(NodesFor(h)) /\ SeenIn(h, list) \in Seq(NodesFor(h))
  BY EmptySeq, SeenInType
<1>3. ASSUME NEW i \in 1..Len(F), i > frame.key
      PROVE  SeenIn(h, HeldAt(frame.node, F[i])) \in Seq(NodesFor(h))
  BY <1>3, SeenInType DEF FrameRight
<1>4. \A i \in 1..Len(F) : i < frame.key \/ i = frame.key \/ i > frame.key
  BY <1>1
<1>5. \A i \in 1..Len(F) : seqs[i] \in Seq(NodesFor(h))
  BY <1>2, <1>3, <1>4
<1>6. seqs \in Seq(Seq(NodesFor(h)))
  <2>1. seqs = [i \in 1..Len(F) |-> seqs[i]]
    OBVIOUS
  <2> HIDE DEF seqs
  <2> QED
    BY <1>1, <1>5, <2>1
<1> HIDE DEF seqs
<1>7. FlattenSeq(seqs) \in Seq(NodesFor(h))
  BY <1>6, FlattenType
<1> QED
  BY <1>7 DEF Remaining, seqs

LEMMA RemainingNone ==
    ASSUME NEW h, NEW frame, FrameRight(h, frame), Exhausted(frame), NEW list
    PROVE  Remaining(h, frame.node, frame.key, list) = << >>
<1> DEFINE F == FieldsOf(frame.node)
           seqs == [i \in 1..Len(F) |->
                      IF i < frame.key THEN << >>
                      ELSE IF i = frame.key THEN SeenIn(h, list)
                      ELSE SeenIn(h, HeldAt(frame.node, F[i]))]
<1>1. Len(F) \in Nat /\ frame.key \in Nat /\ frame.key > Len(F)
  BY LenProperties DEF FrameRight, IsRecord, Exhausted
<1>2. \A i \in 1..Len(F) : seqs[i] = << >>
  BY <1>1
<1>3. Len(seqs) = Len(F) /\ (Len(F) = 0 => seqs = << >>)
  BY <1>1
<1> HIDE DEF seqs
<1>4. FlattenSeq(seqs) = << >>
  BY <1>1, <1>2, <1>3, FlattenEmpty
<1> QED
  BY <1>4 DEF Remaining, seqs

(* A list with something in front.                                         *)
LEMMA RemainingHead ==
    ASSUME NEW h \in Handler, NEW frame, FrameRight(h, frame), ~Exhausted(frame),
           NEW list \in Seq(Children(h)), NEW rest \in Seq(Children(h)),
           NEW first \in Seq(NodesFor(h)), SeenIn(h, list) = first \o SeenIn(h, rest)
    PROVE  Remaining(h, frame.node, frame.key, list)
              = first \o Remaining(h, frame.node, frame.key, rest)
<1> DEFINE F == FieldsOf(frame.node)
           k == frame.key
           of(l) == [i \in 1..Len(F) |->
                       IF i < k THEN << >> ELSE IF i = k THEN SeenIn(h, l)
                       ELSE SeenIn(h, HeldAt(frame.node, F[i]))]
           all == of(list)
           seqs == of(rest)
<1>1. Len(F) \in Nat /\ k \in 1..Len(F)
  BY LenProperties DEF FrameRight, IsRecord, Exhausted
<1>2. << >> \in Seq(NodesFor(h)) /\ SeenIn(h, list) \in Seq(NodesFor(h))
      /\ SeenIn(h, rest) \in Seq(NodesFor(h))
  BY EmptySeq, SeenInType
<1>3. ASSUME NEW i \in 1..Len(F), i > k
      PROVE  SeenIn(h, HeldAt(frame.node, F[i])) \in Seq(NodesFor(h))
  BY <1>3, SeenInType DEF FrameRight
<1>4. \A i \in 1..Len(F) : i < k \/ i = k \/ i > k
  BY <1>1
<1>5. all \in Seq(Seq(NodesFor(h))) /\ seqs \in Seq(Seq(NodesFor(h)))
      /\ Len(all) = Len(F) /\ Len(seqs) = Len(F)
  <2>1. /\ \A i \in 1..Len(F) : all[i] \in Seq(NodesFor(h)) /\ seqs[i] \in Seq(NodesFor(h))
        /\ all = [i \in 1..Len(F) |-> all[i]] /\ seqs = [i \in 1..Len(F) |-> seqs[i]]
    BY <1>2, <1>3, <1>4
  <2> HIDE DEF all, seqs
  <2> QED
    BY <1>1, <2>1
<1>6. Leads(first, k, all, seqs)
  <2>1. all[k] = SeenIn(h, list) /\ seqs[k] = SeenIn(h, rest)
    BY <1>1
  <2>2. ASSUME NEW i \in 1..Len(F), i < k PROVE all[i] = << >> /\ seqs[i] = << >>
    BY <2>2
  <2>3. ASSUME NEW i \in 1..Len(F), i > k PROVE all[i] = seqs[i]
    BY <1>1, <2>3
  <2> HIDE DEF all, seqs
  <2> QED
    BY <1>5, <2>1, <2>2, <2>3 DEF Leads
<1> HIDE DEF all, seqs
<1>7. FlattenSeq(all) = first \o FlattenSeq(seqs)
  BY <1>1, <1>5, <1>6, FlattenHead
<1> QED
  BY <1>7 DEF Remaining, all, seqs

LEMMA AheadType ==
    ASSUME NEW h \in Handler, NEW frame, FrameRight(h, frame), ~Exhausted(frame)
    PROVE  Ahead(frame) \in Seq(Children(h))
<1>1. /\ Held(frame) \in Seq(Things(h)) /\ frame.item \in Nat \ {0} /\ Len(Held(frame)) \in Nat
      /\ \A j \in frame.item..Len(Held(frame)) : Held(frame)[j] \in Children(h)
  BY LenProperties DEF FrameRight
<1> DEFINE s == Held(frame)
           i == frame.item
           n == Len(s)
<1>2. i \in Int /\ n \in Int /\ \A j \in i..n : s[j] \in Children(h)
  BY <1>1
<1> HIDE DEF s, i, n
<1>3. SubSeq(s, i, n) \in Seq(Children(h))
  BY <1>2, SubSeqProperties
<1> QED
  BY <1>3 DEF Ahead, s, i, n

LEMMA SeenFromChild ==
    ASSUME NEW h \in Handler, NEW frame, FrameRight(h, frame), Reached(frame)
    PROVE  /\ SeenFrom(h, frame) = Shows(h, Child(frame)) \o SeenAfter(h, frame)
           /\ SeenAfter(h, frame) \in Seq(NodesFor(h))
           /\ Shows(h, Child(frame)) \in Seq(NodesFor(h))
<1>1. ~Exhausted(frame)
  BY DEF Reached
<1>2. Ahead(frame) \in Seq(Children(h)) /\ Beyond(frame) \in Seq(Children(h))
  BY <1>1, AheadType, ReachedPlace
<1>3. Shows(h, Child(frame)) \in Seq(NodesFor(h))
  BY ReachedPlace, ShowsType
<1>4. SeenIn(h, Ahead(frame)) = Shows(h, Child(frame)) \o SeenIn(h, Beyond(frame))
  BY ReachedPlace, SeenInFrom DEF Ahead, Beyond, Child
<1>5. SeenFrom(h, frame) = Shows(h, Child(frame)) \o SeenAfter(h, frame)
  BY <1>1, <1>2, <1>3, <1>4, RemainingHead DEF SeenFrom, SeenAfter
<1>6. SeenAfter(h, frame) \in Seq(NodesFor(h))
  BY <1>2, RemainingType DEF SeenAfter
<1> QED
  BY <1>3, <1>5, <1>6

LEMMA SeenFromPutBack ==
    ASSUME NEW h \in Handler, NEW frame, FrameRight(h, frame), Reached(frame),
           NEW kept \in Seq(Things(h)), kept = << >> \/ kept = <<FirstOf(kept)>>,
           NEW new, new = PutBack(frame, kept)
    PROVE  SeenFrom(h, new) = SeenAfter(h, frame)
<1> DEFINE F == FieldsOf(frame.node)
<1>1. FieldsOf(new.node) = F /\ new.key = frame.key
  <2>1. /\ new = [node |-> new.node, key |-> frame.key, item |-> new.item]
        /\ FieldsOf(new.node) = F
    BY PutBackShape
  <2>2. new.key = frame.key
    BY <2>1
  <2> QED
    BY <2>1, <2>2
<1>2. Ahead(new) = Beyond(frame)
  BY PutBackAhead
<1>3. ASSUME NEW i \in 1..Len(F), i > frame.key
      PROVE  HeldAt(new.node, F[i]) = HeldAt(frame.node, F[i])
  BY <1>3, OtherFields
<1>4. \A i \in 1..Len(F) : i < frame.key \/ i = frame.key \/ i > frame.key
  BY LenProperties DEF FrameRight
<1>5. Remaining(h, new.node, new.key, Ahead(new)) = Remaining(h, frame.node, frame.key, Beyond(frame))
  BY <1>1, <1>2, <1>3, <1>4 DEF Remaining
<1> QED
  BY <1>5 DEF SeenFrom, SeenAfter

LEMMA SeenFromNextItem ==
    ASSUME NEW h \in Handler, NEW frame, FrameRight(h, frame), Reached(frame), ~AtChild(frame)
    PROVE  SeenFrom(h, NextItem(frame)) = SeenFrom(h, frame)
<1>1. Child(frame) = Missing
  BY DEF AtChild, Child
<1>2. Shows(h, Child(frame)) = << >>
  BY <1>1 DEF Shows
<1>3. SeenFrom(h, frame) = << >> \o SeenAfter(h, frame) /\ SeenAfter(h, frame) \in Seq(NodesFor(h))
  BY <1>2, SeenFromChild
<1>4. << >> \o SeenAfter(h, frame) = SeenAfter(h, frame)
  BY <1>3, ConcatEmptySeq
<1> DEFINE kept == <<Child(frame)>>
<1>5. kept \in Seq(Things(h)) /\ kept = <<FirstOf(kept)>>
  <2>1. Child(frame) \in Things(h)
    BY ReachedPlace DEF Things
  <2>2. kept # << >> /\ kept[1] = Child(frame)
    OBVIOUS
  <2> QED
    BY <2>1, <2>2 DEF FirstOf
<1>6. NextItem(frame) = PutBack(frame, kept)
  BY NextItemPutsBack
<1> HIDE DEF kept
<1>7. SeenFrom(h, NextItem(frame)) = SeenAfter(h, frame)
  BY <1>5, <1>6, SeenFromPutBack
<1> QED
  BY <1>3, <1>4, <1>7

LEMMA SeenFromNextField ==
    ASSUME NEW h \in Handler, NEW frame, FrameRight(h, frame), ~Exhausted(frame), ~Reached(frame)
    PROVE  SeenFrom(h, NextField(frame)) = SeenFrom(h, frame)
<1> DEFINE F == FieldsOf(frame.node)
           new == NextField(frame)
           k == frame.key
<1>1. Len(F) \in Nat /\ k \in 1..Len(F)
  BY LenProperties DEF FrameRight, IsRecord, Exhausted
<1>2. new.node = frame.node /\ new.key = k + 1 /\ new.item = 1
  <2>1. PICK n, j, i : frame = [node |-> n, key |-> j, item |-> i]
    BY DEF FrameRight
  <2> QED
    BY <2>1 DEF NextField
<1> HIDE DEF new
<1>3. SeenIn(h, Ahead(frame)) = << >>
  <2>1. /\ Held(frame) \in Seq(Things(h)) /\ Len(Held(frame)) \in Nat
        /\ frame.item = Len(Held(frame)) + 1
    BY LenProperties DEF FrameRight, Reached
  <2>2. SubSeq(Held(frame), Len(Held(frame)) + 1, Len(Held(frame))) = << >>
    BY <2>1, WholeList
  <2> QED
    BY <2>1, <2>2, SeenInEmpty DEF Ahead
<1>4. ASSUME k + 1 \in 1..Len(F) PROVE Ahead(new) = HeldAt(frame.node, F[k + 1])
  <2>1. Held(new) = HeldAt(frame.node, F[k + 1])
    BY <1>2 DEF Held, KeyOf
  <2>2. k + 1 > k
    BY <1>1
  <2>3. Held(new) \in Seq(Children(h))
    BY <1>4, <2>1, <2>2 DEF FrameRight
  <2>4. SubSeq(Held(new), 1, Len(Held(new))) = Held(new)
    BY <2>3, WholeList
  <2> QED
    BY <1>2, <2>1, <2>4 DEF Ahead
<1> DEFINE old(i) == IF i < k THEN << >> ELSE IF i = k THEN SeenIn(h, Ahead(frame))
                     ELSE SeenIn(h, HeldAt(frame.node, F[i]))
           young(i) == IF i < k + 1 THEN << >> ELSE IF i = k + 1 THEN SeenIn(h, Ahead(new))
                       ELSE SeenIn(h, HeldAt(frame.node, F[i]))
<1>5. ASSUME NEW i \in 1..Len(F) PROVE old(i) = young(i)
  <2>1. CASE i < k
    BY <1>1, <2>1
  <2>2. CASE i = k
    BY <1>1, <1>3, <2>2
  <2>3. CASE i = k + 1
    <3>1. Ahead(new) = HeldAt(frame.node, F[i])
      BY <1>4, <2>3
    <3>2. ~(i < k) /\ i # k /\ ~(i < k + 1)
      BY <1>1, <2>3
    <3> QED
      BY <2>3, <3>1, <3>2
  <2>4. CASE i > k + 1
    <3>1. ~(i < k) /\ i # k /\ ~(i < k + 1) /\ i # k + 1
      BY <1>1, <2>4
    <3> QED
      BY <3>1
  <2> QED
    BY <1>1, <2>1, <2>2, <2>3, <2>4
<1>6. SeenFrom(h, frame) = FlattenSeq([i \in 1..Len(F) |-> old(i)])
      /\ SeenFrom(h, new) = FlattenSeq([i \in 1..Len(F) |-> young(i)])
  BY <1>2 DEF SeenFrom, Remaining
<1> HIDE DEF old, young
<1>7. [i \in 1..Len(F) |-> old(i)] = [i \in 1..Len(F) |-> young(i)]
  BY <1>5
<1> QED
  BY <1>6, <1>7 DEF new

LEMMA SeenFromFresh ==
    ASSUME NEW h \in Handler, NEW node, IsNode(node, NodesFor(h))
    PROVE  SeenFrom(h, Frame(node)) = SeenBelow(h, node)
<1> DEFINE F == FieldsOf(node)
           frame == Frame(node)
<1>1. frame.node = node /\ frame.key = 1 /\ frame.item = 1
  BY DEF Frame
<1>2. /\ Len(F) \in Nat /\ DOMAIN F = 1..Len(F)
      /\ \A i \in 1..Len(F) : HeldAt(node, F[i]) \in Seq(Children(h))
  <2>1. IsRecord(node) /\ \A i \in 1..Len(F) : HeldAt(node, F[i]) \in Seq(Children(h))
    BY NodeIsRecord DEF Children
  <2>2. Len(F) \in Nat /\ DOMAIN F = 1..Len(F)
    BY <2>1, LenProperties DEF IsRecord
  <2> QED
    BY <2>1, <2>2
<1> HIDE DEF frame
<1>3. ASSUME 1 \in 1..Len(F) PROVE Ahead(frame) = HeldAt(node, F[1])
  <2>1. Held(frame) = HeldAt(node, F[1])
    BY <1>1 DEF Held, KeyOf
  <2>2. Held(frame) \in Seq(Children(h))
    BY <1>2, <1>3, <2>1
  <2>3. SubSeq(Held(frame), 1, Len(Held(frame))) = Held(frame)
    BY <2>2, WholeList
  <2> QED
    BY <1>1, <2>1, <2>3 DEF Ahead
<1> DEFINE young(i) == IF i < 1 THEN << >> ELSE IF i = 1 THEN SeenIn(h, Ahead(frame))
                       ELSE SeenIn(h, HeldAt(node, F[i]))
<1>4. ASSUME NEW i \in 1..Len(F) PROVE young(i) = SeenIn(h, HeldAt(node, F[i]))
  BY <1>2, <1>3
<1>5. SeenFrom(h, frame) = FlattenSeq([i \in 1..Len(F) |-> young(i)])
  BY <1>1 DEF SeenFrom, Remaining
<1> HIDE DEF young
<1>6. [i \in 1..Len(F) |-> young(i)] = [i \in 1..Len(F) |-> SeenIn(h, HeldAt(node, F[i]))]
  BY <1>4
<1>7. SeenBelow(h, node) = FlattenSeq([i \in 1..Len(F) |-> SeenIn(h, HeldAt(node, F[i]))])
  BY <1>2 DEF SeenBelow
<1> QED
  BY <1>5, <1>6, <1>7 DEF frame

LEMMA SeenFromExhausted ==
    ASSUME NEW h, NEW frame, FrameRight(h, frame), Exhausted(frame)
    PROVE  SeenFrom(h, frame) = << >>
  BY RemainingNone DEF SeenFrom

LEMMA SeenFromType ==
    ASSUME NEW h \in Handler, NEW frame, FrameRight(h, frame)
    PROVE  SeenFrom(h, frame) \in Seq(NodesFor(h))
<1>1. CASE Exhausted(frame)
  <2>1. SeenFrom(h, frame) = << >>
    BY <1>1, SeenFromExhausted
  <2>2. << >> \in Seq(NodesFor(h))
    BY EmptySeq
  <2> QED
    BY <2>1, <2>2
<1>2. CASE ~Exhausted(frame)
  BY <1>2, AheadType, RemainingType DEF SeenFrom
<1> QED
  BY <1>1, <1>2

(***************************************************************************)
(* A walk: every frame but the last is at the node that the handler was    *)
(* called on and that the next frame is inside of; while the handler runs, *)
(* the last one is at the node it was called on.                           *)
(***************************************************************************)
Entered(h, upper, lower) ==
    /\ AtChild(upper)
    /\ LET enter == Asks(h, Child(upper)).enter IN ~enter.skip /\ ~enter.remove
    /\ Finished(h, lower) = Inside(h, Child(upper))
FramesRight(h, frames) ==
    /\ Sequential(frames) /\ Len(frames) \in Nat \ {0}
    /\ \A k \in 1..Len(frames) : FrameRight(h, frames[k])
    /\ \A k \in 1..(Len(frames) - 1) : Entered(h, frames[k], frames[k + 1])
WalkerRight(h, w) ==
    /\ w = [frames |-> w.frames, context |-> w.context, handling |-> w.handling]
    /\ FramesRight(h, w.frames) /\ w.handling \in BOOLEAN
    /\ w.handling => /\ AtChild(Last(w.frames))
                     /\ w.context = Asks(h, Child(Last(w.frames))).enter

InsideSeen(h, child) ==
    LET enter == Asks(h, child).enter
    IN  IF enter.skip \/ enter.remove THEN << >> ELSE SeenBelow(h, AsReplaced(child, enter))
Above(h, frames, m) == Backwards([k \in 1..m |-> SeenAfter(h, frames[k])], m)
Left(h, w) ==
    IF w.handling
    THEN InsideSeen(h, Child(Last(w.frames))) \o Above(h, w.frames, Len(w.frames))
    ELSE SeenFrom(h, Last(w.frames)) \o Above(h, w.frames, Len(w.frames) - 1)

LEMMA ChildIsNode ==
    ASSUME NEW h \in Handler, NEW frame, FrameRight(h, frame), AtChild(frame)
    PROVE  Reached(frame) /\ Child(frame) \in NodesFor(h) /\ Child(frame) # Missing
           /\ IsRequest(Asks(h, Child(frame)).enter)
<1>1. Reached(frame) /\ Child(frame) # Missing
  BY DEF AtChild, Child
<1>2. Child(frame) \in NodesFor(h)
  BY <1>1, ReachedPlace DEF Children
<1> QED
  BY <1>1, <1>2, HandlerAssumption

LEMMA LastOf ==
    ASSUME NEW frames, Len(frames) \in Nat \ {0}
    PROVE  Last(frames) = frames[Len(frames)] /\ Len(frames) \in 1..Len(frames)
  BY DEF Last

LEMMA FramesTopped ==
    ASSUME NEW h \in Handler, NEW old, FramesRight(h, old), NEW n \in 1..(Len(old) + 1),
           NEW new, NEW x, Topped(new, old, n, x), FrameRight(h, x),
           n <= Len(old) => Finished(h, x) = Finished(h, old[n]),
           n = Len(old) + 1 => Entered(h, old[Len(old)], x)
    PROVE  /\ FramesRight(h, new) /\ Finished(h, new[1]) = Finished(h, old[1])
           /\ Last(new) = x /\ Len(new) = n
           /\ Above(h, new, n - 1) = Above(h, old, n - 1)
<1>1. /\ Sequential(new) /\ Len(new) = n /\ n \in Nat \ {0} /\ new[n] = x
      /\ \A k \in 1..(n - 1) : new[k] = old[k]
  BY DEF Topped
<1>2. /\ Len(old) \in Nat \ {0} /\ \A k \in 1..Len(old) : FrameRight(h, old[k])
      /\ \A k \in 1..(Len(old) - 1) : Entered(h, old[k], old[k + 1])
  BY DEF FramesRight
<1>3. ASSUME NEW k \in 1..n PROVE FrameRight(h, new[k])
  <2>1. k = n \/ (k \in 1..(n - 1) /\ k \in 1..Len(old))
    BY <1>1, <1>2
  <2> QED
    BY <1>1, <1>2, <2>1
<1>4. ASSUME n > 1 PROVE Entered(h, old[n - 1], x)
  <2>1. CASE n = Len(old) + 1
    <3>1. n - 1 = Len(old)
      BY <1>2, <2>1
    <3> QED
      BY <2>1, <3>1
  <2>2. CASE n # Len(old) + 1
    <3>1. n <= Len(old) /\ n - 1 \in 1..(Len(old) - 1) /\ (n - 1) + 1 = n
      BY <1>2, <1>4, <2>2
    <3>2. Entered(h, old[n - 1], old[(n - 1) + 1])
      BY <1>2, <3>1
    <3>3. Entered(h, old[n - 1], old[n]) /\ Finished(h, x) = Finished(h, old[n])
      BY <3>1, <3>2
    <3> QED
      BY <3>3 DEF Entered
  <2> QED
    BY <2>1, <2>2
<1>5. ASSUME NEW k \in 1..(n - 1) PROVE Entered(h, new[k], new[k + 1])
  <2>1. CASE k = n - 1
    <3>1. n > 1 /\ k + 1 = n /\ new[k] = old[n - 1]
      BY <1>1, <2>1
    <3> QED
      BY <1>1, <1>4, <3>1
  <2>2. CASE k # n - 1
    <3>1. k + 1 \in 1..(n - 1) /\ k \in 1..(Len(old) - 1)
      BY <1>1, <1>2, <2>2
    <3>2. new[k] = old[k] /\ new[k + 1] = old[k + 1]
      BY <1>1, <3>1
    <3> QED
      BY <1>2, <3>1, <3>2
  <2> QED
    BY <2>1, <2>2
<1>6. FramesRight(h, new)
  BY <1>1, <1>3, <1>5 DEF FramesRight
<1>7. Finished(h, new[1]) = Finished(h, old[1])
  <2>1. CASE n = 1
    <3>1. n <= Len(old)
      BY <1>2, <2>1
    <3> QED
      BY <1>1, <2>1, <3>1
  <2>2. CASE n # 1
    <3>1. 1 \in 1..(n - 1)
      BY <1>1, <2>2
    <3> QED
      BY <1>1, <3>1
  <2> QED
    BY <2>1, <2>2
<1>8. Last(new) = x
  BY ToppedLast
<1>9. Above(h, new, n - 1) = Above(h, old, n - 1)
  <2>1. \A k \in 1..(n - 1) : SeenAfter(h, new[k]) = SeenAfter(h, old[k])
    BY <1>1
  <2>2. [k \in 1..(n - 1) |-> SeenAfter(h, new[k])] = [k \in 1..(n - 1) |-> SeenAfter(h, old[k])]
    BY <2>1
  <2> QED
    BY <2>2 DEF Above
<1> QED
  BY <1>1, <1>6, <1>7, <1>8, <1>9

LEMMA AboveUnfolds ==
    ASSUME NEW h \in Handler, NEW frames, FramesRight(h, frames), NEW m \in 1..Len(frames),
           m = Len(frames) => Reached(frames[m])
    PROVE  /\ Above(h, frames, m) = SeenAfter(h, frames[m]) \o Above(h, frames, m - 1)
           /\ SeenAfter(h, frames[m]) \in Seq(NodesFor(h))
           /\ Above(h, frames, m - 1) \in Seq(NodesFor(h))
           /\ Above(h, frames, m) \in Seq(NodesFor(h))
<1> DEFINE of(n) == [k \in 1..n |-> SeenAfter(h, frames[k])]
           p == m - 1
<1>1. /\ Len(frames) \in Nat /\ p \in Nat /\ p + 1 = m
      /\ \A k \in 1..m : k \in 1..Len(frames) /\ (k = m \/ k \in 1..p)
  BY DEF FramesRight
<1>2. ASSUME NEW k \in 1..m PROVE FrameRight(h, frames[k]) /\ Reached(frames[k])
  <2>1. FrameRight(h, frames[k])
    BY <1>1 DEF FramesRight
  <2>2. CASE k = Len(frames)
    <3>1. k = m
      BY <1>1, <2>2
    <3> QED
      BY <2>1, <2>2, <3>1
  <2>3. CASE k # Len(frames)
    <3>1. k \in 1..(Len(frames) - 1)
      BY <1>1, <2>3
    <3>2. AtChild(frames[k])
      BY <3>1 DEF FramesRight, Entered
    <3> QED
      BY <2>1, <3>2 DEF AtChild
  <2> QED
    BY <2>2, <2>3
<1>3. \A k \in 1..m : SeenAfter(h, frames[k]) \in Seq(NodesFor(h))
  BY <1>2, SeenFromChild
<1>4. \A k \in 1..m : of(m)[k] = SeenAfter(h, frames[k]) /\ of(m)[k] \in Seq(NodesFor(h))
  BY <1>3
<1>5. \A k \in 1..p : of(m)[k] = of(p)[k]
  BY <1>1
<1>6. of(m)[m] = SeenAfter(h, frames[m])
  BY <1>1
<1> HIDE DEF of, p
<1>7. /\ Backwards(of(m), p + 1) = of(m)[p + 1] \o Backwards(of(m), p)
      /\ Backwards(of(m), p) \in Seq(NodesFor(h)) /\ of(m)[p + 1] \in Seq(NodesFor(h))
  BY <1>1, <1>4, BackwardsUnfolds
<1>8. Backwards(of(m), p) = Backwards(of(p), p)
  BY <1>1, <1>5, BackwardsSame
<1>9. Above(h, frames, m) = SeenAfter(h, frames[m]) \o Above(h, frames, p)
      /\ SeenAfter(h, frames[m]) \in Seq(NodesFor(h)) /\ Above(h, frames, p) \in Seq(NodesFor(h))
  BY <1>1, <1>6, <1>7, <1>8 DEF Above, of
<1>10. Above(h, frames, m) \in Seq(NodesFor(h))
  BY <1>9, ConcatProperties
<1> QED
  BY <1>9, <1>10 DEF p

LEMMA AboveNone == \A h, frames : Above(h, frames, 0) = << >>
  BY BackwardsNone DEF Above

LEMMA AboveType ==
    ASSUME NEW h \in Handler, NEW frames, FramesRight(h, frames), NEW m \in 0..(Len(frames) - 1)
    PROVE  Above(h, frames, m) \in Seq(NodesFor(h))
<1>1. CASE m = 0
  <2>1. << >> \in Seq(NodesFor(h))
    BY EmptySeq
  <2> QED
    BY <1>1, <2>1, AboveNone
<1>2. CASE m # 0
  <2>1. m \in 1..Len(frames) /\ m # Len(frames)
    BY <1>2 DEF FramesRight
  <2> QED
    BY <2>1, AboveUnfolds
<1> QED
  BY <1>1, <1>2

LEMMA InsideSeenType ==
    ASSUME NEW h \in Handler, NEW child \in NodesFor(h)
    PROVE  InsideSeen(h, child) \in Seq(NodesFor(h))
<1> DEFINE enter == Asks(h, child).enter
           node == AsReplaced(child, enter)
<1>1. << >> \in Seq(NodesFor(h))
  BY EmptySeq
<1>2. ASSUME ~enter.skip, ~enter.remove PROVE SeenBelow(h, node) \in Seq(NodesFor(h))
  <2>1. IsNode(node, NodesFor(h))
    BY <1>2, HandlerAssumption
  <2> HIDE DEF node
  <2>2. FrameRight(h, Frame(node))
    BY <2>1, FreshFrameRight
  <2>3. SeenFrom(h, Frame(node)) \in Seq(NodesFor(h))
    BY <2>2, SeenFromType
  <2> QED
    BY <2>1, <2>3, SeenFromFresh
<1> QED
  BY <1>1, <1>2 DEF InsideSeen

(***************************************************************************)
(* One step of a walk leaves what it comes to, and what its handler is     *)
(* still to be called on, as they are.  A step leads to the frames topped  *)
(* with x.                                                                 *)
(***************************************************************************)
Onward(frames) == [frames |-> frames, context |-> Nothing, handling |-> FALSE]
Goes(h, w, v) ==
    /\ WalkerRight(h, v) /\ Finished(h, v.frames[1]) = Finished(h, w.frames[1])
    /\ Left(h, v) = Left(h, w)

LEMMA GoesOn ==
    ASSUME NEW h \in Handler, NEW w, WalkerRight(h, w), NEW n \in 1..(Len(w.frames) + 1),
           NEW frames, NEW x, Topped(frames, w.frames, n, x), FrameRight(h, x),
           n <= Len(w.frames) => Finished(h, x) = Finished(h, w.frames[n]),
           n = Len(w.frames) + 1 => Entered(h, w.frames[Len(w.frames)], x),
           Left(h, w) = SeenFrom(h, x) \o Above(h, w.frames, n - 1)
    PROVE  Goes(h, w, Onward(frames))
<1> DEFINE v == Onward(frames)
<1>1. v.frames = frames /\ v.handling = FALSE
      /\ v = [frames |-> v.frames, context |-> v.context, handling |-> v.handling]
  BY DEF Onward
<1> HIDE DEF v
<1>2. /\ FramesRight(h, frames) /\ Finished(h, frames[1]) = Finished(h, w.frames[1])
      /\ Last(frames) = x /\ Len(frames) = n
      /\ Above(h, frames, n - 1) = Above(h, w.frames, n - 1)
  <2>1. FramesRight(h, w.frames)
    BY DEF WalkerRight
  <2> QED
    BY <2>1, FramesTopped
<1>3. WalkerRight(h, v)
  BY <1>1, <1>2 DEF WalkerRight
<1>4. Left(h, v) = Left(h, w)
  BY <1>1, <1>2 DEF Left
<1> QED
  BY <1>1, <1>2, <1>3, <1>4 DEF Goes, v

LEMMA TopOf ==
    ASSUME NEW h, NEW w, WalkerRight(h, w)
    PROVE  LET n == Len(w.frames)
           IN  /\ n \in Nat \ {0} /\ n \in 1..n /\ n \in 1..(n + 1) /\ n # n + 1
               /\ Sequential(w.frames) /\ FramesRight(h, w.frames)
               /\ Last(w.frames) = w.frames[n] /\ FrameRight(h, w.frames[n])
<1>1. FramesRight(h, w.frames)
  BY DEF WalkerRight
<1>2. Len(w.frames) \in Nat \ {0} /\ Sequential(w.frames)
      /\ \A k \in 1..Len(w.frames) : FrameRight(h, w.frames[k])
  BY <1>1 DEF FramesRight
<1>3. Last(w.frames) = w.frames[Len(w.frames)] /\ Len(w.frames) \in 1..Len(w.frames)
  BY <1>2, LastOf
<1> QED
  BY <1>1, <1>2, <1>3

LEMMA MoveGoes ==
    ASSUME NEW h \in Handler, NEW w, WalkerRight(h, w), ~w.handling,
           ~Exhausted(Last(w.frames)), ~AtChild(Last(w.frames))
    PROVE  Goes(h, w, Onward(Append(Front(w.frames),
                         IF Reached(Last(w.frames)) THEN NextItem(Last(w.frames))
                         ELSE NextField(Last(w.frames)))))
<1> DEFINE n == Len(w.frames)
           top == Last(w.frames)
           x == IF Reached(top) THEN NextItem(top) ELSE NextField(top)
           frames == Append(Front(w.frames), x)
<1>1. n \in Nat \ {0} /\ n \in 1..(n + 1) /\ n # n + 1 /\ Sequential(w.frames)
      /\ top = w.frames[n] /\ FrameRight(h, top)
  BY TopOf
<1>2. FrameRight(h, x) /\ Finished(h, x) = Finished(h, top) /\ SeenFrom(h, x) = SeenFrom(h, top)
  <2>1. CASE Reached(top)
    BY <1>1, <2>1, NextItemKeeps, SeenFromNextItem
  <2>2. CASE ~Reached(top)
    BY <1>1, <2>2, NextFieldKeeps, SeenFromNextField
  <2> QED
    BY <2>1, <2>2
<1>3. Left(h, w) = SeenFrom(h, x) \o Above(h, w.frames, n - 1)
  BY <1>2 DEF Left
<1> HIDE DEF x
<1>4. Topped(frames, w.frames, n, x)
  BY <1>1, Retop
<1>5. Finished(h, x) = Finished(h, w.frames[n])
  BY <1>1, <1>2
<1> HIDE DEF n, frames
<1>6. Goes(h, w, Onward(frames))
  BY <1>1, <1>2, <1>3, <1>4, <1>5, GoesOn DEF n
<1> QED
  BY <1>6 DEF frames, x

(* The child is put back, or what its handler asks for in its place.       *)
LEMMA ReturnGoes ==
    ASSUME NEW h \in Handler, NEW w, WalkerRight(h, w), w.handling,
           NEW enter, enter = w.context, NEW node, node = AsReplaced(Child(Last(w.frames)), enter),
           NEW top, top = Last(w.frames)
    PROVE  /\ enter.remove =>
                Goes(h, w, Onward(Append(Front(w.frames), PutBack(top, << >>))))
           /\ ~enter.remove /\ enter.skip =>
                Goes(h, w, Onward(Append(Front(w.frames), PutBack(top, <<node>>))))
           /\ ~enter.remove /\ ~enter.skip => Goes(h, w, Onward(Append(w.frames, Frame(node))))
<1> DEFINE n == Len(w.frames)
           child == Child(top)
<1>1. /\ n \in Nat \ {0} /\ n \in 1..n /\ n \in 1..(n + 1) /\ n # n + 1 /\ Sequential(w.frames)
      /\ FramesRight(h, w.frames) /\ top = w.frames[n] /\ FrameRight(h, top)
  BY TopOf
<1>2. AtChild(top) /\ enter = Asks(h, child).enter
  BY DEF WalkerRight
<1>3. Reached(top) /\ child \in NodesFor(h) /\ child # Missing /\ IsRequest(enter)
  BY <1>1, <1>2, ChildIsNode
<1>4. Left(h, w) = InsideSeen(h, child) \o Above(h, w.frames, n)
  BY DEF Left
<1>5. /\ Above(h, w.frames, n) = SeenAfter(h, top) \o Above(h, w.frames, n - 1)
      /\ Above(h, w.frames, n) \in Seq(NodesFor(h))
  BY <1>1, <1>3, AboveUnfolds
<1>6. Keeps(h, child) = KeptBy(h, child)
  BY <1>3, RecursionAssumption DEF Keeps
<1> HIDE DEF n, child
<1>7. ASSUME NEW kept, kept = Keeps(h, child), InsideSeen(h, child) = << >>
      PROVE  Goes(h, w, Onward(Append(Front(w.frames), PutBack(top, kept))))
  <2> DEFINE x == PutBack(top, kept)
  <2>1. FrameRight(h, x) /\ Finished(h, x) = Finished(h, top)
    BY <1>1, <1>3, <1>7, PutBackKeeps DEF child
  <2>2. SeenFrom(h, x) = SeenAfter(h, top)
    <3>1. child \in Children(h)
      BY <1>3 DEF Children
    <3>2. kept \in Seq(Things(h)) /\ (kept = << >> \/ kept = <<FirstOf(kept)>>)
      BY <1>7, <3>1, KeepsShape
    <3> QED
      BY <1>1, <1>3, <3>2, SeenFromPutBack
  <2>3. Left(h, w) = Above(h, w.frames, n)
    <3>1. << >> \o Above(h, w.frames, n) = Above(h, w.frames, n)
      BY <1>5, ConcatEmptySeq
    <3> QED
      BY <1>4, <1>7, <3>1
  <2>4. Left(h, w) = SeenFrom(h, x) \o Above(h, w.frames, n - 1)
    BY <1>5, <2>2, <2>3
  <2> HIDE DEF x
  <2> DEFINE frames == Append(Front(w.frames), x)
  <2>5. Topped(frames, w.frames, n, x)
    BY <1>1, Retop DEF n
  <2>6. Finished(h, x) = Finished(h, w.frames[n])
    BY <1>1, <2>1
  <2> HIDE DEF frames
  <2>7. Goes(h, w, Onward(frames))
    BY <1>1, <2>1, <2>4, <2>5, <2>6, GoesOn DEF n
  <2> QED
    BY <2>7 DEF frames, x
<1>8. ASSUME enter.remove PROVE Goes(h, w, Onward(Append(Front(w.frames), PutBack(top, << >>))))
  <2>1. Keeps(h, child) = << >>
    BY <1>2, <1>6, <1>8 DEF KeptBy
  <2>2. InsideSeen(h, child) = << >>
    BY <1>2, <1>8 DEF InsideSeen
  <2> QED
    BY <1>7, <2>1, <2>2
<1>9. ASSUME ~enter.remove, enter.skip
      PROVE  Goes(h, w, Onward(Append(Front(w.frames), PutBack(top, <<node>>))))
  <2>1. Keeps(h, child) = <<node>>
    BY <1>2, <1>6, <1>9 DEF KeptBy, child
  <2>2. InsideSeen(h, child) = << >>
    BY <1>2, <1>9 DEF InsideSeen
  <2> QED
    BY <1>7, <2>1, <2>2
<1>10. ASSUME ~enter.remove, ~enter.skip
       PROVE  Goes(h, w, Onward(Append(w.frames, Frame(node))))
  <2> DEFINE x == Frame(node)
             frames == Append(w.frames, x)
             m == n + 1
  <2>1. node = AsReplaced(child, enter) /\ IsNode(node, NodesFor(h))
    <3>1. node = AsReplaced(child, enter)
      BY DEF child
    <3>2. node \in NodesFor(h)
      BY <1>2, <1>3, <1>10, <3>1, HandlerAssumption
    <3> QED
      BY <3>1, <3>2, HandlerAssumption
  <2>2. FrameRight(h, x) /\ Finished(h, x) = Rebuilt(h, node) /\ SeenFrom(h, x) = SeenBelow(h, node)
    BY <2>1, FreshFrameRight, FreshFrameFinishes, SeenFromFresh
  <2>3. Entered(h, top, x)
    <3>1. Inside(h, child) = Rebuilt(h, node)
      BY <1>2, <2>1, InsideIs
    <3> QED
      BY <1>2, <1>10, <2>2, <3>1 DEF Entered, child
  <2>4. InsideSeen(h, child) = SeenFrom(h, x)
    BY <1>2, <1>10, <2>1, <2>2 DEF InsideSeen
  <2> HIDE DEF x
  <2>5. Topped(frames, w.frames, m, x)
    BY <1>1, Push DEF n
  <2>6. m \in 1..(n + 1) /\ m = n + 1 /\ ~(m <= n) /\ m - 1 = n
    BY <1>1
  <2> HIDE DEF frames, m
  <2>7. Left(h, w) = SeenFrom(h, x) \o Above(h, w.frames, m - 1)
    BY <1>4, <2>4, <2>6
  <2>8. Entered(h, w.frames[n], x)
    BY <1>1, <2>3
  <2>9. Goes(h, w, Onward(frames))
    BY <2>2, <2>5, <2>6, <2>7, <2>8, GoesOn DEF n
  <2> QED
    BY <2>9 DEF frames, x
<1> QED
  BY <1>8, <1>9, <1>10

(* A node is done, and put back as its handler asks for on leaving it.     *)
LEMMA LeaveGoes ==
    ASSUME NEW h \in Handler, NEW w, WalkerRight(h, w), ~w.handling,
           NEW top, top = Last(w.frames), Exhausted(top), Len(w.frames) > 1,
           NEW leave, leave = Asks(h, top.node).leave,
           NEW kept, kept = IF leave.remove THEN << >> ELSE <<AsReplaced(top.node, leave)>>
    PROVE  Goes(h, w, Onward(Append(Front(Front(w.frames)),
                                    PutBack(Last(Front(w.frames)), kept))))
<1> DEFINE n == Len(w.frames)
           m == n - 1
           upper == w.frames[m]
           child == Child(upper)
           x == PutBack(upper, kept)
           frames == Append(Front(Front(w.frames)), x)
<1>1. /\ n \in Nat \ {0} /\ n \in 1..n /\ Sequential(w.frames) /\ FramesRight(h, w.frames)
      /\ top = w.frames[n] /\ FrameRight(h, top) /\ n > 1
  BY TopOf
<1>2. Last(Front(w.frames)) = upper /\ Topped(frames, w.frames, m, x)
  BY <1>1, PopRetop
<1> HIDE DEF x, frames, child
<1>3. m \in 1..n /\ m \in 1..(n + 1) /\ m \in 1..(n - 1) /\ m + 1 = n /\ m <= n /\ m # n + 1 /\ m # n
  BY <1>1
<1> HIDE DEF n, m
<1>4. FrameRight(h, upper) /\ Entered(h, upper, top)
  BY <1>1, <1>3 DEF FramesRight, n
<1>5. AtChild(upper) /\ Finished(h, top) = Inside(h, child)
      /\ ~Asks(h, child).enter.skip /\ ~Asks(h, child).enter.remove
  BY <1>4 DEF Entered, child
<1>6. Reached(upper) /\ child \in NodesFor(h) /\ child # Missing
  BY <1>4, <1>5, ChildIsNode DEF child
<1>7. top.node = Inside(h, child)
  BY <1>1, <1>5, ExhaustedIsFinished
<1>8. IsRequest(leave)
  BY <1>6, <1>7, HandlerAssumption
<1>9. kept = Keeps(h, child)
  <2>1. Keeps(h, child) = KeptBy(h, child)
    BY <1>6, RecursionAssumption DEF Keeps
  <2> QED
    BY <1>5, <1>7, <2>1 DEF KeptBy
<1>10. FrameRight(h, x) /\ Finished(h, x) = Finished(h, w.frames[m])
  BY <1>4, <1>6, <1>9, PutBackKeeps DEF x, child
<1>11. SeenFrom(h, x) = SeenAfter(h, upper)
  <2>1. child \in Children(h)
    BY <1>6 DEF Children
  <2>2. kept \in Seq(Things(h)) /\ (kept = << >> \/ kept = <<FirstOf(kept)>>)
    BY <1>9, <2>1, KeepsShape
  <2> QED
    BY <1>4, <1>6, <2>2, SeenFromPutBack DEF x
<1>12. Left(h, w) = SeenFrom(h, x) \o Above(h, w.frames, m - 1)
  <2>1. /\ Above(h, w.frames, m) = SeenAfter(h, upper) \o Above(h, w.frames, m - 1)
        /\ Above(h, w.frames, m) \in Seq(NodesFor(h))
    BY <1>1, <1>3, <1>6, AboveUnfolds DEF n
  <2>2. Left(h, w) = SeenFrom(h, top) \o Above(h, w.frames, m)
    BY DEF Left, m, n
  <2>3. SeenFrom(h, top) = << >>
    BY <1>1, SeenFromExhausted
  <2>4. << >> \o Above(h, w.frames, m) = Above(h, w.frames, m)
    BY <2>1, ConcatEmptySeq
  <2> QED
    BY <1>11, <2>1, <2>2, <2>3, <2>4
<1>13. Goes(h, w, Onward(frames))
  BY <1>2, <1>3, <1>10, <1>12, GoesOn DEF n
<1> QED
  BY <1>2, <1>13 DEF frames, x

(* The handler is called on a child: on it, on what the handler walks      *)
(* meanwhile, and later on what is inside.                                 *)
Calls(v, w, enter) == v = [w EXCEPT !.handling = TRUE, !.context = enter]

CalledOn(h, w, v, child, nested) ==
    /\ WalkerRight(h, v) /\ v.handling /\ Finished(h, v.frames[1]) = Finished(h, w.frames[1])
    /\ child \in NodesFor(h) /\ nested \in Seq(NodesFor(h))
    /\ SeenIn(h, nested) \in Seq(NodesFor(h)) /\ Left(h, v) \in Seq(NodesFor(h))
    /\ Left(h, w) = (<<child>> \o SeenIn(h, nested)) \o Left(h, v)

LEMMA EnterGoes ==
    ASSUME NEW h \in Handler, NEW w, WalkerRight(h, w), ~w.handling,
           NEW top, top = Last(w.frames), AtChild(top),
           NEW asked, asked = Asks(h, Child(top)),
           NEW v, Calls(v, w, asked.enter)
    PROVE  CalledOn(h, w, v, Child(top), asked.nested)
<1> DEFINE n == Len(w.frames)
           child == Child(top)
           N == NodesFor(h)
<1>1. /\ n \in Nat \ {0} /\ n \in 1..n /\ FramesRight(h, w.frames)
      /\ top = w.frames[n] /\ FrameRight(h, top)
  BY TopOf
<1>2. Reached(top) /\ child \in N /\ child # Missing
  BY <1>1, ChildIsNode
<1>3. v.frames = w.frames /\ v.handling = TRUE /\ v.context = asked.enter
      /\ v = [frames |-> v.frames, context |-> v.context, handling |-> v.handling]
  <2>1. w = [frames |-> w.frames, context |-> w.context, handling |-> w.handling]
    BY DEF WalkerRight
  <2> QED
    BY <2>1 DEF Calls
<1>4. WalkerRight(h, v)
  BY <1>1, <1>3 DEF WalkerRight
<1>5. asked.nested \in Seq(N) /\ SeenIn(h, asked.nested) \in Seq(N)
  <2>1. asked.nested \in Seq(N)
    BY <1>2, HandlerAssumption
  <2>2. N \subseteq Children(h)
    BY DEF Children
  <2>3. asked.nested \in Seq(Children(h))
    BY <2>1, <2>2, SeqMonotonic
  <2> QED
    BY <2>1, <2>3, SeenInType
<1> DEFINE a == <<child>> \o SeenIn(h, asked.nested)
           b == InsideSeen(h, child)
           c == Above(h, w.frames, n)
           d == Above(h, w.frames, n - 1)
           e == SeenAfter(h, top)
<1>6. b \in Seq(N)
  BY <1>2, InsideSeenType
<1>7. c = e \o d /\ c \in Seq(N) /\ d \in Seq(N) /\ e \in Seq(N)
  BY <1>1, <1>2, AboveUnfolds
<1>8. a \in Seq(N)
  <2>1. <<child>> \in Seq(N)
    BY <1>2
  <2> QED
    BY <1>5, <2>1, ConcatProperties
<1>9. Shows(h, child) = a \o b
  <2>1. Visits(h, child) = VisitsBy(h, child)
    BY <1>2, RecursionAssumption
  <2> QED
    BY <1>2, <2>1 DEF Shows, VisitsBy, InsideSeen
<1>10. Left(h, w) = (Shows(h, child) \o e) \o d
  <2>1. SeenFrom(h, top) = Shows(h, child) \o e
    BY <1>1, <1>2, SeenFromChild
  <2> QED
    BY <2>1 DEF Left
<1>11. Left(h, v) = b \o c
  BY <1>3 DEF Left
<1> HIDE DEF a, b, c, d, e, N
<1>12. ((a \o b) \o e) \o d = a \o (b \o (e \o d))
  <2>1. Associates(N)
    BY Associative
  <2>2. (a \o b) \o e = a \o (b \o e) /\ b \o e \in Seq(N) /\ e \o d \in Seq(N)
    BY <1>6, <1>7, <1>8, <2>1, ConcatProperties DEF Associates
  <2>3. (a \o (b \o e)) \o d = a \o ((b \o e) \o d)
    BY <1>7, <1>8, <2>1, <2>2 DEF Associates
  <2>4. (b \o e) \o d = b \o (e \o d)
    BY <1>6, <1>7, <2>1 DEF Associates
  <2> QED
    BY <2>2, <2>3, <2>4
<1>13. Left(h, w) = a \o Left(h, v)
  BY <1>7, <1>9, <1>10, <1>11, <1>12
<1>14. Left(h, v) \in Seq(N)
  BY <1>6, <1>7, <1>11, ConcatProperties
<1> QED
  BY <1>2, <1>3, <1>4, <1>5, <1>13, <1>14 DEF a, N, CalledOn

(***************************************************************************)
(* A walk that begins, over an array of nodes.                             *)
(***************************************************************************)
LEMMA ArrayIsNode ==
    ASSUME NEW h \in Handler, NEW nodes \in Seq(NodesFor(h))
    PROVE  /\ IsNode(Array(nodes), NodesFor(h)) /\ SeenBelow(h, Array(nodes)) = SeenIn(h, nodes)
           /\ Rebuilt(h, Array(nodes)).body = KeptAll(h, nodes)
           /\ SeenIn(h, nodes) \in Seq(NodesFor(h))
<1> DEFINE node == Array(nodes)
<1>1. node.type = "Array" /\ node.body = nodes /\ DOMAIN node = {"type", "body"}
      /\ node = [f \in DOMAIN node |-> node[f]]
  BY DEF Array
<1>2. node # Missing
  <2>1. Missing.type = "Null"
    BY DEF Missing
  <2> QED
    BY <1>1, <2>1
<1> HIDE DEF node
<1>3. FieldsOf(node) = <<"body">>
  BY <1>1 DEF FieldsOf, Fields
<1>4. IsList(node, "body") /\ HeldAt(node, "body") = nodes
  BY <1>1 DEF IsList, HeldAt
<1>5. nodes \in Seq(Children(h)) /\ SeenIn(h, nodes) \in Seq(NodesFor(h))
  <2>1. NodesFor(h) \subseteq Children(h)
    BY DEF Children
  <2>2. nodes \in Seq(Children(h))
    BY <2>1, SeqMonotonic
  <2> QED
    BY <2>2, SeenInType
<1>6. DOMAIN <<"body">> = {1} /\ <<"body">>[1] = "body" /\ Len(<<"body">>) = 1
  OBVIOUS
<1>7. IsNode(node, NodesFor(h))
  <2>1. <<"body">> \in Seq(DOMAIN node \ {"type"})
    BY <1>1
  <2>2. HeldAt(node, "body") \in Seq(NodesFor(h) \cup {Missing})
    BY <1>4, <1>5 DEF Children
  <2>3. \A i, j \in DOMAIN FieldsOf(node) : i = j
    BY <1>3, <1>6
  <2>4. \A i \in DOMAIN FieldsOf(node) : FieldsOf(node)[i] = "body"
    BY <1>3, <1>6
  <2>5. FieldsOf(node) \in Seq(DOMAIN node \ {"type"}) /\ "type" \in DOMAIN node
    BY <1>1, <1>3, <2>1
  <2> QED
    BY <1>1, <1>2, <2>2, <2>3, <2>4, <2>5 DEF IsNode
<1>8. SeenBelow(h, node) = SeenIn(h, nodes)
  <2> DEFINE all == [i \in DOMAIN FieldsOf(node) |-> SeenIn(h, HeldAt(node, FieldsOf(node)[i]))]
             first == SeenIn(h, nodes)
  <2>1. all = [i \in {1} |-> first]
    BY <1>3, <1>4, <1>6
  <2>2. all[1] = first /\ Len(all) = 1
    <3>1. {1} = 1..1
      OBVIOUS
    <3> HIDE DEF first
    <3> QED
      BY <2>1, <3>1
  <2> HIDE DEF all
  <2>3. PICK flat : flat[1] = all[1] /\ FlattenSeq(all) = flat[Len(all)]
    <3>1. Len(all) \in Nat \ {0}
      BY <2>2
    <3> QED
      BY <3>1, FlattenUnfolds
  <2>4. FlattenSeq(all) = first
    BY <2>2, <2>3
  <2> QED
    BY <2>4 DEF SeenBelow, all
<1>9. Rebuilt(h, node).body = KeptAll(h, nodes)
  <2>1. Contains(FieldsOf(node), "body")
    BY <1>3, <1>6 DEF Contains
  <2>2. Rebuilt(h, node).body = Renewed(h, node, "body")
    BY <1>1, <2>1 DEF Rebuilt
  <2> QED
    BY <1>1, <1>4, <2>2 DEF Renewed
<1> QED
  BY <1>5, <1>7, <1>8, <1>9 DEF node

LEMMA FreshWalk ==
    ASSUME NEW h \in Handler, NEW nodes \in Seq(NodesFor(h)), NEW w, w = WalkOf(nodes)
    PROVE  /\ WalkerRight(h, w) /\ Left(h, w) = SeenIn(h, nodes)
           /\ Finished(h, w.frames[1]) = Rebuilt(h, Array(nodes))
<1> DEFINE frame == Frame(Array(nodes))
<1>1. w = [frames |-> <<frame>>, context |-> Nothing, handling |-> FALSE]
  BY DEF WalkOf
<1>2. IsNode(Array(nodes), NodesFor(h)) /\ SeenBelow(h, Array(nodes)) = SeenIn(h, nodes)
  BY ArrayIsNode
<1>3. /\ FrameRight(h, frame) /\ Finished(h, frame) = Rebuilt(h, Array(nodes))
      /\ SeenFrom(h, frame) = SeenIn(h, nodes)
  BY <1>2, FreshFrameRight, FreshFrameFinishes, SeenFromFresh
<1> HIDE DEF frame
<1>4. /\ Len(<<frame>>) = 1 /\ <<frame>>[1] = frame /\ <<frame>> \in Seq({frame})
      /\ w.frames = <<frame>> /\ w.handling = FALSE
      /\ w = [frames |-> w.frames, context |-> w.context, handling |-> w.handling]
  BY <1>1
<1>5. FramesRight(h, <<frame>>)
  <2>1. Sequential(<<frame>>)
    BY <1>4 DEF Sequential
  <2> QED
    BY <1>3, <1>4, <2>1 DEF FramesRight
<1>6. Last(<<frame>>) = frame
  BY <1>4 DEF Last
<1>7. Left(h, w) = SeenIn(h, nodes)
  <2>1. 1 - 1 = 0
    OBVIOUS
  <2>2. Left(h, w) = SeenIn(h, nodes) \o << >>
    BY <1>3, <1>4, <1>6, <2>1, AboveNone DEF Left
  <2>3. SeenIn(h, nodes) \in Seq(NodesFor(h))
    BY ArrayIsNode
  <2> QED
    BY <2>2, <2>3, ConcatEmptySeq
<1> QED
  BY <1>3, <1>4, <1>5, <1>7 DEF WalkerRight

(***************************************************************************)
(* All walks at once: those under the one at work wait for it, in the      *)
(* handler that started it.                                                *)
(***************************************************************************)
WalksRight(h, ws) ==
    /\ Sequential(ws) /\ Len(ws) \in Nat \ {0}
    /\ \A k \in 1..Len(ws) : WalkerRight(h, ws[k])
    /\ \A k \in 1..(Len(ws) - 1) : ws[k].handling
AllLeft(h, ws, m) == Backwards([k \in 1..m |-> Left(h, ws[k])], m)
StateRight(h, b, ws, sn) ==
    /\ WalksRight(h, ws) /\ b \in Seq(NodesFor(h)) /\ sn \in Seq(NodesFor(h))
    /\ Finished(h, ws[1].frames[1]) = Rebuilt(h, Array(b))
    /\ sn \o AllLeft(h, ws, Len(ws)) = SeenIn(h, b)

LEMMA LeftType ==
    ASSUME NEW h \in Handler, NEW w, WalkerRight(h, w)
    PROVE  Left(h, w) \in Seq(NodesFor(h))
<1> DEFINE n == Len(w.frames)
<1>1. /\ n \in Nat \ {0} /\ n \in 1..n /\ FramesRight(h, w.frames)
      /\ Last(w.frames) = w.frames[n] /\ FrameRight(h, w.frames[n])
  BY TopOf
<1>2. CASE w.handling
  <2>1. AtChild(Last(w.frames))
    BY <1>2 DEF WalkerRight
  <2>2. Reached(w.frames[n]) /\ Child(w.frames[n]) \in NodesFor(h)
    BY <1>1, <2>1, ChildIsNode
  <2>3. Above(h, w.frames, n) \in Seq(NodesFor(h))
    BY <1>1, <2>2, AboveUnfolds
  <2>4. InsideSeen(h, Child(Last(w.frames))) \in Seq(NodesFor(h))
    BY <1>1, <2>2, InsideSeenType
  <2> QED
    BY <1>2, <2>3, <2>4, ConcatProperties DEF Left
<1>3. CASE ~w.handling
  <2>1. n - 1 \in 0..(n - 1)
    BY <1>1
  <2>2. Above(h, w.frames, n - 1) \in Seq(NodesFor(h))
    BY <1>1, <2>1, AboveType
  <2>3. SeenFrom(h, Last(w.frames)) \in Seq(NodesFor(h))
    BY <1>1, SeenFromType
  <2> QED
    BY <1>3, <2>2, <2>3, ConcatProperties DEF Left
<1> QED
  BY <1>2, <1>3

LEMMA WalksTopped ==
    ASSUME NEW h \in Handler, NEW ws, WalksRight(h, ws), NEW n \in 1..(Len(ws) + 1),
           NEW vs, NEW v, Topped(vs, ws, n, v), WalkerRight(h, v),
           n = Len(ws) + 1 => ws[Len(ws)].handling
    PROVE  /\ WalksRight(h, vs) /\ Len(vs) = n /\ vs[n] = v /\ (n > 1 => vs[1] = ws[1])
           /\ AllLeft(h, vs, n) = Left(h, v) \o AllLeft(h, ws, n - 1)
           /\ AllLeft(h, ws, n - 1) \in Seq(NodesFor(h)) /\ Left(h, v) \in Seq(NodesFor(h))
<1>1. /\ Sequential(vs) /\ Len(vs) = n /\ n \in Nat \ {0} /\ vs[n] = v
      /\ \A k \in 1..(n - 1) : vs[k] = ws[k]
  BY DEF Topped
<1>2. /\ Len(ws) \in Nat \ {0} /\ \A k \in 1..Len(ws) : WalkerRight(h, ws[k])
      /\ \A k \in 1..(Len(ws) - 1) : ws[k].handling
  BY DEF WalksRight
<1>3. ASSUME NEW k \in 1..n PROVE WalkerRight(h, vs[k])
  <2>1. k = n \/ (k \in 1..(n - 1) /\ k \in 1..Len(ws))
    BY <1>1, <1>2
  <2> QED
    BY <1>1, <1>2, <2>1
<1>4. ASSUME NEW k \in 1..(n - 1) PROVE vs[k].handling
  <2>1. CASE k = Len(ws)
    <3>1. n = Len(ws) + 1
      BY <1>1, <1>2, <2>1
    <3> QED
      BY <1>1, <2>1, <3>1
  <2>2. CASE k # Len(ws)
    <3>1. k \in 1..(Len(ws) - 1)
      BY <1>1, <1>2, <2>2
    <3> QED
      BY <1>1, <1>2, <3>1
  <2> QED
    BY <2>1, <2>2
<1>5. WalksRight(h, vs)
  BY <1>1, <1>3, <1>4 DEF WalksRight
<1>6. n > 1 => vs[1] = ws[1]
  <2>1. n > 1 => 1 \in 1..(n - 1)
    BY <1>1
  <2> QED
    BY <1>1, <2>1
<1> DEFINE p == n - 1
           of(s, m) == [k \in 1..m |-> Left(h, s[k])]
<1>7. p \in Nat /\ p + 1 = n
  BY <1>1
<1>8. \A k \in 1..n : of(vs, n)[k] \in Seq(NodesFor(h))
  BY <1>3, LeftType
<1>9. of(vs, n)[n] = Left(h, v)
  BY <1>1
<1>10. \A k \in 1..p : of(vs, n)[k] = of(ws, p)[k]
  BY <1>1
<1> HIDE DEF p, of
<1>11. /\ Backwards(of(vs, n), p + 1) = of(vs, n)[p + 1] \o Backwards(of(vs, n), p)
       /\ Backwards(of(vs, n), p) \in Seq(NodesFor(h)) /\ of(vs, n)[p + 1] \in Seq(NodesFor(h))
  BY <1>7, <1>8, BackwardsUnfolds
<1>12. Backwards(of(vs, n), p) = Backwards(of(ws, p), p)
  BY <1>7, <1>10, BackwardsSame
<1>13. /\ AllLeft(h, vs, n) = Left(h, v) \o AllLeft(h, ws, p)
       /\ AllLeft(h, ws, p) \in Seq(NodesFor(h)) /\ Left(h, v) \in Seq(NodesFor(h))
  BY <1>7, <1>9, <1>11, <1>12 DEF AllLeft, of
<1> QED
  BY <1>1, <1>5, <1>6, <1>13 DEF p

LEMMA WalksSplit ==
    ASSUME NEW h \in Handler, NEW ws, WalksRight(h, ws)
    PROVE  LET n == Len(ws)
           IN  /\ n \in Nat \ {0} /\ n \in 1..n /\ n \in 1..(n + 1) /\ n # n + 1 /\ Sequential(ws)
               /\ Last(ws) = ws[n] /\ WalkerRight(h, ws[n])
               /\ AllLeft(h, ws, n) = Left(h, ws[n]) \o AllLeft(h, ws, n - 1)
               /\ AllLeft(h, ws, n - 1) \in Seq(NodesFor(h)) /\ Left(h, ws[n]) \in Seq(NodesFor(h))
<1> DEFINE n == Len(ws)
<1>1. /\ Sequential(ws) /\ n \in Nat \ {0} /\ \A k \in 1..n : WalkerRight(h, ws[k])
  BY DEF WalksRight
<1>2. n \in 1..n /\ n \in 1..(n + 1) /\ n # n + 1 /\ Last(ws) = ws[n]
  BY <1>1, LastOf
<1>3. Topped(ws, ws, n, ws[n]) /\ WalkerRight(h, ws[n])
  BY <1>1, <1>2 DEF Topped
<1>4. /\ AllLeft(h, ws, n) = Left(h, ws[n]) \o AllLeft(h, ws, n - 1)
      /\ AllLeft(h, ws, n - 1) \in Seq(NodesFor(h)) /\ Left(h, ws[n]) \in Seq(NodesFor(h))
  BY <1>2, <1>3, WalksTopped
<1> QED
  BY <1>1, <1>2, <1>3, <1>4

LEMMA BeginRight ==
    ASSUME NEW h \in Handler, NEW b \in Seq(NodesFor(h)), NEW ws, ws = <<WalkOf(b)>>,
           NEW sn, sn = << >>
    PROVE  StateRight(h, b, ws, sn)
<1> DEFINE w == WalkOf(b)
<1>1. /\ WalkerRight(h, w) /\ Left(h, w) = SeenIn(h, b)
      /\ Finished(h, w.frames[1]) = Rebuilt(h, Array(b))
  BY FreshWalk
<1>2. SeenIn(h, b) \in Seq(NodesFor(h))
  BY ArrayIsNode
<1> HIDE DEF w
<1>3. Len(ws) = 1 /\ ws[1] = w /\ ws \in Seq({w})
  BY DEF w
<1>4. WalksRight(h, ws)
  <2>1. Sequential(ws)
    BY <1>3 DEF Sequential
  <2>2. Len(ws) \in Nat \ {0} /\ \A k \in 1..Len(ws) : k = 1
    BY <1>3
  <2>3. 1..(Len(ws) - 1) = {}
    BY <1>3
  <2> QED
    BY <1>1, <1>3, <2>1, <2>2, <2>3 DEF WalksRight
<1>5. AllLeft(h, ws, Len(ws)) = Left(h, w) \o AllLeft(h, ws, 0)
  <2>1. 1 - 1 = 0
    OBVIOUS
  <2> QED
    BY <1>3, <1>4, <2>1, WalksSplit
<1>6. AllLeft(h, ws, 0) = << >>
  BY BackwardsNone DEF AllLeft
<1>7. sn \in Seq(NodesFor(h)) /\ sn \o AllLeft(h, ws, Len(ws)) = SeenIn(h, b)
  <2>1. << >> \in Seq(NodesFor(h))
    BY EmptySeq
  <2>2. SeenIn(h, b) \o << >> = SeenIn(h, b) /\ << >> \o SeenIn(h, b) = SeenIn(h, b)
    BY <1>2, ConcatEmptySeq
  <2> QED
    BY <1>1, <1>5, <1>6, <2>1, <2>2
<1> QED
  BY <1>1, <1>3, <1>4, <1>7 DEF StateRight

LEMMA StepRight ==
    ASSUME NEW h \in Handler, NEW b, NEW ws, NEW sn, StateRight(h, b, ws, sn),
           NEW v, Goes(h, Last(ws), v), NEW vs, Topped(vs, ws, Len(ws), v)
    PROVE  StateRight(h, b, vs, sn)
<1> DEFINE n == Len(ws)
<1>1. WalksRight(h, ws)
  BY DEF StateRight
<1>2. /\ n \in Nat \ {0} /\ n \in 1..(n + 1) /\ n # n + 1 /\ Sequential(ws) /\ Last(ws) = ws[n]
      /\ AllLeft(h, ws, n) = Left(h, ws[n]) \o AllLeft(h, ws, n - 1)
  BY <1>1, WalksSplit
<1>3. Topped(vs, ws, n, v)
  OBVIOUS
<1>4. WalkerRight(h, v) /\ Finished(h, v.frames[1]) = Finished(h, ws[n].frames[1])
      /\ Left(h, v) = Left(h, ws[n])
  BY <1>2 DEF Goes
<1>5. /\ WalksRight(h, vs) /\ Len(vs) = n /\ vs[n] = v /\ (n > 1 => vs[1] = ws[1])
      /\ AllLeft(h, vs, n) = Left(h, v) \o AllLeft(h, ws, n - 1)
  <2>1. n \in 1..(Len(ws) + 1) /\ n # Len(ws) + 1 /\ WalkerRight(h, v)
    BY <1>2, <1>4
  <2> HIDE DEF n
  <2> QED
    BY <1>1, <1>3, <2>1, WalksTopped
<1> HIDE DEF n
<1>6. Finished(h, vs[1].frames[1]) = Finished(h, ws[1].frames[1])
  <2>1. n = 1 \/ n > 1
    BY <1>2
  <2> QED
    BY <1>4, <1>5, <2>1
<1>7. AllLeft(h, vs, Len(vs)) = AllLeft(h, ws, n)
  BY <1>2, <1>4, <1>5
<1> QED
  BY <1>5, <1>6, <1>7 DEF StateRight, n

(* The walks with those of the statements the handler walks meanwhile.     *)
Joined(vs, us, nested) ==
    vs = us \o (IF nested = << >> THEN << >> ELSE <<WalkOf(nested)>>)

LEMMA EnterRight ==
    ASSUME NEW h \in Handler, NEW b, NEW ws, NEW sn, StateRight(h, b, ws, sn),
           NEW w, w = Last(ws), ~w.handling, NEW top, top = Last(w.frames), AtChild(top),
           NEW asked, asked = Asks(h, Child(top)),
           NEW v, Calls(v, w, asked.enter), NEW us, Topped(us, ws, Len(ws), v),
           NEW vs, Joined(vs, us, asked.nested)
    PROVE  StateRight(h, b, vs, Append(sn, Child(top)))
<1>0. CalledOn(h, w, v, Child(top), asked.nested)
  <2>1. WalkerRight(h, w)
    BY WalksSplit DEF StateRight
  <2> QED
    BY <2>1, EnterGoes
<1> DEFINE n == Len(ws)
           N == NodesFor(h)
           s == SeenIn(h, asked.nested)
           l == Left(h, v)
           r == AllLeft(h, ws, n - 1)
           child == Child(top)
<1>1. WalksRight(h, ws) /\ sn \in Seq(N) /\ sn \o AllLeft(h, ws, n) = SeenIn(h, b)
      /\ b \in Seq(N) /\ Finished(h, ws[1].frames[1]) = Rebuilt(h, Array(b))
  BY DEF StateRight
<1>2. /\ n \in Nat \ {0} /\ n \in 1..(n + 1) /\ n # n + 1 /\ Sequential(ws) /\ w = ws[n]
      /\ WalkerRight(h, w) /\ AllLeft(h, ws, n) = Left(h, w) \o r /\ r \in Seq(N)
  BY <1>1, WalksSplit
<1>3. /\ WalkerRight(h, v) /\ v.handling /\ Finished(h, v.frames[1]) = Finished(h, w.frames[1])
      /\ child \in N /\ asked.nested \in Seq(N) /\ s \in Seq(N) /\ l \in Seq(N)
      /\ Left(h, w) = (<<child>> \o s) \o l
  BY <1>0 DEF CalledOn
<1>4. Topped(us, ws, n, v)
  OBVIOUS
<1>5. /\ WalksRight(h, us) /\ Len(us) = n /\ us[n] = v /\ (n > 1 => us[1] = ws[1])
      /\ AllLeft(h, us, n) = l \o r
  <2>1. n \in 1..(Len(ws) + 1) /\ n # Len(ws) + 1 /\ WalkerRight(h, v)
    BY <1>2, <1>3
  <2> HIDE DEF n
  <2> QED
    BY <1>1, <1>4, <2>1, WalksTopped
<1> HIDE DEF n, r, N
<1>6. Finished(h, us[1].frames[1]) = Rebuilt(h, Array(b))
  <2>1. n = 1 \/ n > 1
    BY <1>2
  <2> QED
    BY <1>1, <1>2, <1>3, <1>5, <2>1
<1>7. l \o r \in Seq(N)
  BY <1>2, <1>3, ConcatProperties
<1>8. /\ WalksRight(h, vs) /\ Finished(h, vs[1].frames[1]) = Rebuilt(h, Array(b))
      /\ AllLeft(h, vs, Len(vs)) = s \o (l \o r)
  <2>1. CASE asked.nested = << >>
    <3>1. vs = us \o << >>
      BY <2>1 DEF Joined
    <3>2. vs = us
      <4>1. PICK S : us \in Seq(S)
        BY <1>4 DEF Topped, Sequential
      <4> QED
        BY <3>1, <4>1, ConcatEmptySeq
    <3>3. s = << >>
      BY <2>1, SeenInEmpty
    <3>4. << >> \o (l \o r) = l \o r
      BY <1>7, ConcatEmptySeq
    <3> QED
      BY <1>5, <1>6, <3>2, <3>3, <3>4
  <2>2. CASE asked.nested # << >>
    <3> DEFINE u == WalkOf(asked.nested)
               m == n + 1
    <3>1. WalkerRight(h, u) /\ Left(h, u) = s
      BY <1>3, FreshWalk DEF N
    <3> HIDE DEF u
    <3>2. vs = us \o <<u>>
      BY <2>2 DEF Joined, u
    <3>3. vs = Append(us, u)
      <4>1. PICK S : us \in Seq(S)
        BY <1>4 DEF Topped, Sequential
      <4> DEFINE T == S \cup {u}
      <4>2. us \in Seq(T) /\ u \in T
        BY <4>1, SeqMonotonic
      <4> HIDE DEF T
      <4> QED
        BY <3>2, <4>2, AppendIsConcat
    <3>4. Topped(vs, us, m, u)
      <4>1. Sequential(us) /\ Len(us) = n
        BY <1>4, <1>5 DEF Topped
      <4>2. Topped(Append(us, u), us, Len(us) + 1, u)
        BY <4>1, Push
      <4> QED
        BY <3>3, <4>1, <4>2
    <3>5. m \in 1..(Len(us) + 1) /\ us[Len(us)].handling /\ m - 1 = n /\ m > 1 /\ 1 \in 1..n
      <4>1. n \in Nat \ {0} /\ Len(us) = n
        BY <1>2, <1>5
      <4>2. us[Len(us)] = v /\ v.handling
        BY <1>3, <1>5
      <4>3. m \in 1..(n + 1) /\ m - 1 = n /\ m > 1 /\ 1 \in 1..n
        BY <4>1
      <4> QED
        BY <4>1, <4>2, <4>3
    <3> HIDE DEF m
    <3>6. /\ WalksRight(h, vs) /\ Len(vs) = m /\ (m > 1 => vs[1] = us[1])
          /\ AllLeft(h, vs, m) = Left(h, u) \o AllLeft(h, us, m - 1)
      <4>1. m = Len(us) + 1 => us[Len(us)].handling
        BY <3>5
      <4>2. WalksRight(h, us) /\ WalkerRight(h, u) /\ m \in 1..(Len(us) + 1)
        BY <1>5, <3>1, <3>5
      <4> QED
        BY <3>4, <4>1, <4>2, WalksTopped
    <3> QED
      BY <1>5, <1>6, <3>1, <3>5, <3>6
  <2> QED
    BY <2>1, <2>2
<1>9. Append(sn, child) = sn \o <<child>> /\ Append(sn, child) \in Seq(N) /\ <<child>> \in Seq(N)
  BY <1>1, <1>3, AppendIsConcat, AppendProperties
<1> HIDE DEF s, l, child
<1> DEFINE c == <<child>>
<1>10. c \in Seq(N)
  BY <1>9
<1> HIDE DEF c
<1>11. (sn \o c) \o (s \o (l \o r)) = sn \o (((c \o s) \o l) \o r)
  <2>1. Associates(N)
    BY Associative
  <2>2. c \o s \in Seq(N) /\ s \o (l \o r) \in Seq(N)
    BY <1>3, <1>7, <1>10, ConcatProperties
  <2>3. s \in Seq(N) /\ l \in Seq(N) /\ r \in Seq(N) /\ sn \in Seq(N)
    BY <1>1, <1>2, <1>3
  <2> HIDE DEF s, l, r, N
  <2>4. ((c \o s) \o l) \o r = (c \o s) \o (l \o r)
    BY <2>1, <2>2, <2>3 DEF Associates
  <2>5. (c \o s) \o (l \o r) = c \o (s \o (l \o r))
    BY <1>7, <1>10, <2>1, <2>3 DEF Associates
  <2>6. (sn \o c) \o (s \o (l \o r)) = sn \o (c \o (s \o (l \o r)))
    <3> DEFINE x == s \o (l \o r)
    <3>1. x \in Seq(N)
      BY <2>2
    <3> HIDE DEF x
    <3>2. (sn \o c) \o x = sn \o (c \o x)
      BY <1>10, <2>1, <2>3, <3>1 DEF Associates
    <3> QED
      BY <3>2 DEF x
  <2> QED
    BY <2>4, <2>5, <2>6
<1>12. Append(sn, child) \o AllLeft(h, vs, Len(vs)) = SeenIn(h, b)
  BY <1>1, <1>2, <1>3, <1>8, <1>9, <1>11 DEF c
<1> QED
  BY <1>1, <1>8, <1>9, <1>12 DEF StateRight, child, N

LEMMA EndNestedRight ==
    ASSUME NEW h \in Handler, NEW b, NEW ws, NEW sn, StateRight(h, b, ws, sn), Len(ws) > 1,
           NEW w, w = Last(ws), ~w.handling, Len(w.frames) = 1, Exhausted(Last(w.frames))
    PROVE  StateRight(h, b, Front(ws), sn) /\ Left(h, w) = << >>
<1> DEFINE n == Len(ws)
           m == n - 1
           vs == Front(ws)
           r == AllLeft(h, ws, m)
<1>1. WalksRight(h, ws) /\ sn \o AllLeft(h, ws, n) = SeenIn(h, b)
      /\ Finished(h, ws[1].frames[1]) = Rebuilt(h, Array(b))
  BY DEF StateRight
<1>2. /\ n \in Nat \ {0} /\ n > 1 /\ Sequential(ws) /\ w = ws[n] /\ WalkerRight(h, w)
      /\ AllLeft(h, ws, n) = Left(h, w) \o r /\ r \in Seq(NodesFor(h))
  BY <1>1, WalksSplit
<1>3. Left(h, w) = << >>
  <2>1. FrameRight(h, Last(w.frames))
    BY <1>2, TopOf
  <2>2. SeenFrom(h, Last(w.frames)) = << >>
    BY <2>1, SeenFromExhausted
  <2>3. Len(w.frames) - 1 = 0
    OBVIOUS
  <2>4. << >> \o << >> = << >>
    <3>1. << >> \in Seq({})
      BY EmptySeq
    <3> QED
      BY <3>1, ConcatEmptySeq
  <2> QED
    BY <2>2, <2>3, <2>4, AboveNone DEF Left
<1>4. Topped(vs, ws, m, ws[m])
  BY <1>2, Pop
<1> HIDE DEF vs
<1>5. m \in 1..n /\ m \in 1..(n + 1) /\ m # n + 1 /\ m > 0
  BY <1>2
<1> HIDE DEF m, n
<1>6. WalkerRight(h, ws[m])
  BY <1>1, <1>5 DEF WalksRight, n
<1>7. /\ WalksRight(h, vs) /\ Len(vs) = m /\ vs[m] = ws[m] /\ (m > 1 => vs[1] = ws[1])
      /\ AllLeft(h, vs, m) = Left(h, ws[m]) \o AllLeft(h, ws, m - 1)
  <2>1. m \in 1..(Len(ws) + 1) /\ m # Len(ws) + 1
    BY <1>5 DEF n
  <2>2. WalksRight(h, ws)
    BY <1>1
  <2>3. m = Len(ws) + 1 => ws[Len(ws)].handling
    BY <2>1
  <2> HIDE DEF r
  <2> QED
    BY <1>4, <1>6, <2>1, <2>2, <2>3, WalksTopped
<1>8. vs[1] = ws[1]
  BY <1>5, <1>7
<1>9. AllLeft(h, vs, m) = r
  <2>1. \A k \in 1..m : vs[k] = ws[k]
    <3>1. \A k \in 1..m : k = m \/ k \in 1..(m - 1)
      BY <1>5, <1>2
    <3> QED
      BY <1>4, <1>7, <3>1 DEF Topped
  <2>2. [k \in 1..m |-> Left(h, vs[k])] = [k \in 1..m |-> Left(h, ws[k])]
    BY <2>1
  <2> QED
    BY <2>2 DEF AllLeft
<1>10. << >> \o r = r
  BY <1>2, ConcatEmptySeq
<1>11. sn \o AllLeft(h, vs, Len(vs)) = SeenIn(h, b)
  BY <1>1, <1>2, <1>3, <1>7, <1>9, <1>10
<1> QED
  BY <1>1, <1>3, <1>7, <1>8, <1>11 DEF StateRight, vs

(* What a walk that is over has come to.                                   *)
LEMMA WalkedAll ==
    ASSUME NEW h \in Handler, NEW b, NEW ws, NEW sn, StateRight(h, b, ws, sn), Len(ws) = 1,
           NEW w, w = Last(ws), ~w.handling, Len(w.frames) = 1, Exhausted(Last(w.frames))
    PROVE  /\ Last(w.frames).node.body = FlattenSeq([i \in DOMAIN b |-> Kept(h, b[i])])
           /\ sn = SeenIn(h, b)
<1> DEFINE top == Last(w.frames)
<1>1. WalksRight(h, ws) /\ sn \o AllLeft(h, ws, 1) = SeenIn(h, b) /\ b \in Seq(NodesFor(h))
      /\ Finished(h, ws[1].frames[1]) = Rebuilt(h, Array(b)) /\ sn \in Seq(NodesFor(h))
  BY DEF StateRight
<1>2. w = ws[1] /\ WalkerRight(h, w) /\ AllLeft(h, ws, 1) = Left(h, w) \o AllLeft(h, ws, 0)
  <2>1. 1 - 1 = 0
    OBVIOUS
  <2> QED
    BY <1>1, <2>1, WalksSplit
<1>3. top = w.frames[1] /\ FrameRight(h, top)
  BY <1>2, TopOf
<1>4. top.node.body = KeptAll(h, b)
  <2>1. top.node = Rebuilt(h, Array(b))
    BY <1>1, <1>2, <1>3, ExhaustedIsFinished
  <2> QED
    BY <1>1, <2>1, ArrayIsNode
<1>5. KeptAll(h, b) = FlattenSeq([i \in DOMAIN b |-> Kept(h, b[i])])
  <2>1. \A i \in DOMAIN b : b[i] \in NodesFor(h)
    BY <1>1, ElementOfSeq, LenProperties
  <2>2. \A node \in NodesFor(h) : node # Missing
    BY HandlerAssumption DEF IsNode
  <2>3. \A i \in DOMAIN b : Keeps(h, b[i]) = Kept(h, b[i])
    BY <2>1, <2>2 DEF Keeps
  <2> QED
    BY <2>3 DEF KeptAll
<1>6. sn = SeenIn(h, b)
  <2>1. SeenFrom(h, top) = << >>
    BY <1>3, SeenFromExhausted
  <2>2. Len(w.frames) - 1 = 0
    OBVIOUS
  <2>3. << >> \o << >> = << >>
    <3>1. << >> \in Seq({})
      BY EmptySeq
    <3> QED
      BY <3>1, ConcatEmptySeq
  <2>4. Left(h, w) = << >>
    BY <2>1, <2>2, <2>3, AboveNone DEF Left
  <2>5. AllLeft(h, ws, 0) = << >>
    BY BackwardsNone DEF AllLeft
  <2>6. sn \o << >> = sn
    BY <1>1, ConcatEmptySeq
  <2> QED
    BY <1>1, <1>2, <2>3, <2>4, <2>5, <2>6
<1> QED
  BY <1>4, <1>5, <1>6

(***************************************************************************)
(* The invariant, and the theorem.                                         *)
(***************************************************************************)
StackInv ==
    /\ handler \in Handler
    /\ walkers # << >> => StateRight(handler, body, walkers, seen)

LEMMA AtWork ==
    ASSUME StackInv, walkers # << >>
    PROVE  /\ handler \in Handler /\ StateRight(handler, body, walkers, seen)
           /\ WalksRight(handler, walkers) /\ Sequential(walkers)
           /\ Len(walkers) \in Nat \ {0} /\ WalkerRight(handler, Walking)
<1>1. handler \in Handler /\ StateRight(handler, body, walkers, seen)
  BY DEF StackInv
<1>2. WalksRight(handler, walkers)
  BY <1>1 DEF StateRight
<1>3. Sequential(walkers) /\ Len(walkers) \in Nat \ {0}
  BY <1>2 DEF WalksRight
<1>4. WalkerRight(handler, Walking)
  BY <1>1, <1>2, WalksSplit DEF Walking
<1> QED
  BY <1>1, <1>2, <1>3, <1>4

LEMMA Continues ==
    ASSUME StackInv, walkers # << >>, NEW frames, Continue(frames),
           Goes(handler, Walking, Onward(frames)), UNCHANGED <<body, handler, seen>>
    PROVE  StackInv'
<1> DEFINE v == Onward(frames)
<1>1. walkers' = [walkers EXCEPT ![Len(walkers)] = v]
  BY DEF Continue, Onward
<1> HIDE DEF v
<1>2. Topped(walkers', walkers, Len(walkers), v)
  BY <1>1, AtWork, ExceptTop
<1>3. Goes(handler, Last(walkers), v)
  BY DEF v, Walking
<1>4. StateRight(handler, body, walkers', seen)
  BY <1>2, <1>3, AtWork, StepRight
<1> QED
  BY <1>4, AtWork DEF StackInv

LEMMA MovesKeep == ASSUME StackInv, Move PROVE StackInv'
<1>1. /\ walkers # << >> /\ ~Walking.handling /\ ~Exhausted(Current) /\ ~AtChild(Current)
      /\ UNCHANGED <<body, handler, seen>>
      /\ Continue(Append(Front(Walking.frames),
            IF Reached(Current) THEN NextItem(Current) ELSE NextField(Current)))
  BY DEF Move, Free, NextItem, NextField
<1>2. Goes(handler, Walking, Onward(Append(Front(Walking.frames),
         IF Reached(Current) THEN NextItem(Current) ELSE NextField(Current))))
  BY <1>1, AtWork, MoveGoes DEF Current
<1> QED
  BY <1>1, <1>2, Continues

LEMMA ReturnsKeep == ASSUME StackInv, Return PROVE StackInv'
<1> DEFINE asked == Walking.context
           node == AsReplaced(Child(Current), asked)
           above == Front(Walking.frames)
<1>1. walkers # << >> /\ Walking.handling /\ UNCHANGED <<body, handler, seen>>
  BY DEF Return
<1>2. /\ asked.remove => Continue(Append(above, PutBack(Current, << >>)))
      /\ ~asked.remove /\ asked.skip => Continue(Append(above, PutBack(Current, <<node>>)))
      /\ ~asked.remove /\ ~asked.skip => Continue(Append(Walking.frames, Frame(node)))
  BY DEF Return, AsReplaced
<1>3. /\ asked.remove =>
            Goes(handler, Walking, Onward(Append(above, PutBack(Current, << >>))))
      /\ ~asked.remove /\ asked.skip =>
            Goes(handler, Walking, Onward(Append(above, PutBack(Current, <<node>>))))
      /\ ~asked.remove /\ ~asked.skip =>
            Goes(handler, Walking, Onward(Append(Walking.frames, Frame(node))))
  BY <1>1, AtWork, ReturnGoes DEF Current
<1>4. CASE asked.remove
  BY <1>1, <1>2, <1>3, <1>4, Continues
<1>5. CASE ~asked.remove /\ asked.skip
  BY <1>1, <1>2, <1>3, <1>5, Continues
<1>6. CASE ~asked.remove /\ ~asked.skip
  BY <1>1, <1>2, <1>3, <1>6, Continues
<1> QED
  BY <1>4, <1>5, <1>6

LEMMA LeavesKeep == ASSUME StackInv, LeaveAsked PROVE StackInv'
<1> DEFINE leave == Asks(handler, Current.node).leave
           kept == IF leave.remove THEN << >> ELSE <<AsReplaced(Current.node, leave)>>
           above == Front(Walking.frames)
           frames == Append(Front(above), PutBack(Last(above), kept))
<1>1. /\ walkers # << >> /\ ~Walking.handling /\ Exhausted(Current) /\ Len(Walking.frames) > 1
      /\ UNCHANGED <<body, handler, seen>> /\ Continue(frames)
  BY DEF LeaveAsked, Leave, Free, AsReplaced
<1>2. Goes(handler, Walking, Onward(frames))
  BY <1>1, AtWork, LeaveGoes DEF Current
<1> HIDE DEF frames
<1> QED
  BY <1>1, <1>2, Continues

LEMMA EntersKeep == ASSUME StackInv, EnterAsked PROVE StackInv'
<1> DEFINE asked == Asks(handler, Child(Current))
           v == [Walking EXCEPT !.handling = TRUE, !.context = asked.enter]
           us == [walkers EXCEPT ![Len(walkers)] = v]
<1>1. /\ walkers # << >> /\ ~Walking.handling /\ AtChild(Current)
      /\ seen' = Append(seen, Child(Current)) /\ UNCHANGED <<body, handler>>
  BY DEF EnterAsked, Enter, Free
<1>2. walkers' = us \o (IF asked.nested = << >> THEN << >> ELSE <<WalkOf(asked.nested)>>)
  <2>1. walkers' = [walkers EXCEPT ![Len(walkers)] =
                        [@ EXCEPT !.handling = TRUE, !.context = asked.enter]]
                   \o (IF asked.nested = << >> THEN << >> ELSE <<WalkOf(asked.nested)>>)
    BY DEF EnterAsked, Enter, Requested
  <2>2. walkers[Len(walkers)] = Walking
    BY DEF Walking, Last
  <2> QED
    BY <2>1, <2>2
<1>3. Calls(v, Walking, asked.enter) /\ Joined(walkers', us, asked.nested)
  BY <1>2 DEF Calls, Joined
<1> HIDE DEF v
<1>4. Topped(us, walkers, Len(walkers), v)
  BY <1>1, AtWork, ExceptTop
<1> HIDE DEF us
<1>5. StateRight(handler, body, walkers', Append(seen, Child(Current)))
  BY <1>1, <1>3, <1>4, AtWork, EnterRight DEF Current, Walking
<1> QED
  BY <1>1, <1>5, AtWork DEF StackInv

LEMMA EndsKeep == ASSUME StackInv, EndNested PROVE StackInv'
<1>1. /\ walkers # << >> /\ ~Walking.handling /\ Exhausted(Current) /\ Len(Walking.frames) = 1
      /\ Len(walkers) > 1 /\ walkers' = Front(walkers) /\ UNCHANGED <<body, handler, seen>>
  BY DEF EndNested, WalkOver, Free
<1>2. StateRight(handler, body, walkers', seen)
  BY <1>1, AtWork, EndNestedRight DEF Current, Walking
<1> QED
  BY <1>1, <1>2, AtWork DEF StackInv

LEMMA StackInvHolds == WalkerSpec => []StackInv
<1>1. WalkerInit => StackInv
  BY DEF WalkerInit, StackInv
<1>2. StackInv /\ [WalkerNext]_walkerVars => StackInv'
  <2> SUFFICES ASSUME StackInv, [WalkerNext]_walkerVars PROVE StackInv'
    OBVIOUS
  <2>1. ASSUME NEW h \in Handler, body \in Seq(NodesFor(h)), Begin(h) PROVE StackInv'
    <3>1. handler' = h /\ walkers' = <<WalkOf(body)>> /\ seen' = << >> /\ body' = body
      BY <2>1 DEF Begin
    <3>2. StateRight(h, body, walkers', seen')
      BY <2>1, <3>1, BeginRight
    <3> QED
      BY <3>1, <3>2 DEF StackInv
  <2>2. ASSUME End(Current.node.body) PROVE StackInv'
    BY <2>2 DEF End, StackInv
  <2>3. CASE UNCHANGED walkerVars
    BY <2>3 DEF walkerVars, StackInv
  <2> QED
    BY <2>1, <2>2, <2>3, MovesKeep, EntersKeep, ReturnsKeep, LeavesKeep, EndsKeep DEF WalkerNext
<1> QED
  BY <1>1, <1>2, PTL DEF WalkerSpec

LEMMA ObeyedAtTheEnd == ASSUME StackInv PROVE RequestsAreObeyed
<1> SUFFICES ASSUME PassOver
             PROVE  /\ Current.node.body = FlattenSeq([i \in DOMAIN body |-> Kept(handler, body[i])])
                    /\ seen = SeenIn(handler, body)
  BY DEF RequestsAreObeyed
<1>1. /\ walkers # << >> /\ ~Walking.handling /\ Exhausted(Current) /\ Len(Walking.frames) = 1
      /\ Len(walkers) = 1
  BY DEF PassOver, WalkOver, Free
<1> QED
  BY <1>1, AtWork, WalkedAll DEF Current, Walking

(***************************************************************************)
(* Whatever the tree, and whatever its handlers ask for: when a pass is    *)
(* over, exactly the requested nodes are removed and replaced, and the     *)
(* handler was called on every node it is to be called on, once and in     *)
(* order (visit, visit_children, visit_array and run_handler of            *)
(* walker/mod.rs).                                                         *)
(***************************************************************************)
THEOREM WalksDoAsAsked == WalkerSpec => []RequestsAreObeyed
  BY StackInvHolds, ObeyedAtTheEnd, PTL
==============================================================================
