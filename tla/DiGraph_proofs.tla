---------------------------- MODULE DiGraph_proofs ----------------------------
(***************************************************************************)
(* What the answers of DiGraph are, for every graph, every order in which  *)
(* it is built and asked, and every limit: the search of                   *)
(* find_deep_dependencies finds what is reachable, the backtracking of     *)
(* find_cycles ends in a cycle, each cyclic edge is on one of them and no  *)
(* two have the same vertices.                                             *)
(***************************************************************************)
EXTENDS DiGraph, FiniteSetTheorems, SequenceTheorems, TLAPS

-----------------------------------------------------------------------------
(***************************************************************************)
(* Sequences without repetition.                                           *)
(***************************************************************************)
LEMMA ContainsIsMember ==
  ASSUME NEW S, NEW s \in Seq(S), NEW x
  PROVE  Contains(s, x) <=> x \in ToSet(s)
BY DEF Contains, ToSet

LEMMA AppendAdds ==
  ASSUME NEW S, NEW s \in Seq(S), NEW x \in S
  PROVE  /\ Append(s, x) \in Seq(S) /\ Len(Append(s, x)) = Len(s) + 1
         /\ \A k \in 1..Len(s) : Append(s, x)[k] = s[k]
         /\ Append(s, x)[Len(s) + 1] = x
         /\ ToSet(Append(s, x)) = ToSet(s) \cup {x}
         /\ IsInjective(s) /\ x \notin ToSet(s) => IsInjective(Append(s, x))
<1>1. /\ Append(s, x) \in Seq(S) /\ Len(Append(s, x)) = Len(s) + 1
      /\ \A k \in 1..Len(s) : Append(s, x)[k] = s[k]
      /\ Append(s, x)[Len(s) + 1] = x
  OBVIOUS
<1>2. DOMAIN s = 1..Len(s) /\ DOMAIN Append(s, x) = 1..(Len(s) + 1) /\ Len(s) \in Nat
  OBVIOUS
<1>3. ToSet(Append(s, x)) = ToSet(s) \cup {x}
  BY <1>1, <1>2 DEF ToSet
<1>4. IsInjective(s) /\ x \notin ToSet(s) => IsInjective(Append(s, x))
  BY <1>1, <1>2 DEF ToSet, IsInjective
<1> QED
  BY <1>1, <1>3, <1>4

LEMMA HeadOrTail ==
  ASSUME NEW S, NEW s \in Seq(S), s # << >>
  PROVE  /\ Head(s) \in S /\ Tail(s) \in Seq(S)
         /\ ToSet(s) = {Head(s)} \cup ToSet(Tail(s))
<1>1. /\ Head(s) = s[1] /\ Tail(s) \in Seq(S) /\ Len(s) \in Nat \ {0}
      /\ Len(Tail(s)) = Len(s) - 1
      /\ \A k \in 1..(Len(s) - 1) : Tail(s)[k] = s[k + 1]
  OBVIOUS
<1>2. DOMAIN s = 1..Len(s) /\ DOMAIN Tail(s) = 1..(Len(s) - 1)
  BY <1>1
<1>3. ASSUME NEW y \in ToSet(s) PROVE y \in {Head(s)} \cup ToSet(Tail(s))
  <2>1. PICK k \in 1..Len(s) : y = s[k]
    BY <1>2 DEF ToSet
  <2>2. CASE k = 1
    BY <2>1, <2>2, <1>1
  <2>3. CASE k # 1
    <3>1. k - 1 \in 1..(Len(s) - 1) /\ (k - 1) + 1 = k
      BY <2>3, <1>1
    <3>2. Tail(s)[k - 1] = y
      BY <3>1, <2>1, <1>1
    <3> QED
      BY <3>1, <3>2, <1>2 DEF ToSet
  <2> QED
    BY <2>2, <2>3
<1>4. ASSUME NEW y \in {Head(s)} \cup ToSet(Tail(s)) PROVE y \in ToSet(s)
  <2>1. CASE y = Head(s)
    BY <2>1, <1>1, <1>2 DEF ToSet
  <2>2. CASE y \in ToSet(Tail(s))
    <3>1. PICK k \in 1..(Len(s) - 1) : y = Tail(s)[k]
      BY <2>2, <1>2 DEF ToSet
    <3>2. k + 1 \in 1..Len(s) /\ s[k + 1] = y
      BY <3>1, <1>1
    <3> QED
      BY <3>2, <1>2 DEF ToSet
  <2> QED
    BY <1>4, <2>1, <2>2
<1> QED
  BY <1>1, <1>3, <1>4

LEMMA InjectiveLength ==
  ASSUME NEW S, IsFiniteSet(S), NEW s \in Seq(S), IsInjective(s)
  PROVE  Len(s) <= Cardinality(S)
<1>1. s \in [1..Len(s) -> S] /\ Len(s) \in Nat
  OBVIOUS
<1>2. s \in Injection(1..Len(s), S)
  BY <1>1 DEF Injection, IsInjective
<1>3. Cardinality(1..Len(s)) <= Cardinality(S)
  BY <1>2, FS_Injection
<1>4. Cardinality(1..Len(s)) = Len(s)
  <2>1. 1 \in Int /\ Len(s) \in Int
    BY <1>1
  <2>2. Cardinality(1..Len(s)) = IF 1 > Len(s) THEN 0 ELSE Len(s) - 1 + 1
    BY <2>1, FS_Interval, Zenon
  <2> QED
    BY <1>1, <2>2
<1> QED
  BY <1>1, <1>3, <1>4

LEMMA FiniteElements ==
  ASSUME NEW S, NEW s \in Seq(S)
  PROVE  IsFiniteSet(ToSet(s))
<1>1. s \in [1..Len(s) -> ToSet(s)] /\ \A t \in ToSet(s) : \E k \in 1..Len(s) : s[k] = t
  BY DEF ToSet
<1>2. IsFiniteSet(1..Len(s))
  <2>1. 1 \in Int /\ Len(s) \in Int
    OBVIOUS
  <2> QED
    BY <2>1, FS_Interval, Zenon
<1>3. s \in Surjection(1..Len(s), ToSet(s))
  BY <1>1 DEF Surjection
<1> QED
  BY <1>2, <1>3, FS_Surjection

(***************************************************************************)
(* Two sequences without repetition that have the same elements are        *)
(* equally long.                                                           *)
(***************************************************************************)
LEMMA SameElementsSameLength ==
  ASSUME NEW S, NEW p \in Seq(S), NEW q \in Seq(S),
         IsInjective(p), IsInjective(q), ToSet(p) = ToSet(q)
  PROVE  Len(p) = Len(q)
<1> DEFINE T == ToSet(p)
<1>1. \A s \in {p, q} : s \in [1..Len(s) -> T] /\ Len(s) \in Nat /\ IsInjective(s)
  <2>1. p \in [1..Len(p) -> ToSet(p)] /\ Len(p) \in Nat
    BY DEF ToSet
  <2>2. q \in [1..Len(q) -> ToSet(q)] /\ Len(q) \in Nat
    BY DEF ToSet
  <2> QED
    BY <2>1, <2>2
<1>2. IsFiniteSet(T)
  BY FiniteElements
<1>3. ASSUME NEW s \in {p, q} PROVE Len(s) = Cardinality(T)
  <2>1. 1 \in Int /\ Len(s) \in Int /\ Len(s) \in Nat /\ s \in [1..Len(s) -> T]
    BY <1>1
  <2>2. IsFiniteSet(1..Len(s)) /\ Cardinality(1..Len(s)) = IF 1 > Len(s) THEN 0 ELSE Len(s) - 1 + 1
    BY <2>1, FS_Interval, Zenon
  <2>3. \A t \in T : \E k \in 1..Len(s) : s[k] = t
    BY <2>1 DEF T, ToSet
  <2>4. s \in Surjection(1..Len(s), T) /\ s \in Injection(1..Len(s), T)
    BY <2>1, <2>3, <1>1 DEF Surjection, Injection, IsInjective
  <2>5. Cardinality(T) = Cardinality(1..Len(s))
    BY <2>2, <2>4, FS_Surjection
  <2> QED
    BY <2>1, <2>2, <2>5
<1> QED
  BY <1>3

-----------------------------------------------------------------------------
(***************************************************************************)
(* Types.                                                                  *)
(***************************************************************************)
LEMMA GraphIsKept ==
  ASSUME GraphOK, UNCHANGED graph
  PROVE  GraphOK' /\ Vertices' = Vertices /\ Calls' = Calls
BY DEF GraphOK, graph, Vertices, Neighbours, Calls

LEMMA NeighboursAreVertices ==
  ASSUME TypeOK, NEW v \in Vertices
  PROVE  /\ adjacent[v] \in Seq(Id) /\ adjacent[v] \in Seq(Vertices)
         /\ IsInjective(adjacent[v]) /\ v \in Id
         /\ Neighbours(v) \subseteq Vertices \ {v}
         /\ \A k \in 1..Len(adjacent[v]) : adjacent[v][k] \in Neighbours(v)
<1>1. adjacent[v] \in Seq(Id) /\ IsInjective(adjacent[v]) /\ Neighbours(v) \subseteq Vertices \ {v}
  BY DEF TypeOK, GraphOK
<1>2. v \in Id
  BY DEF TypeOK, GraphOK, ToSet
<1>3. \A k \in 1..Len(adjacent[v]) : adjacent[v][k] \in Neighbours(v)
  BY <1>1 DEF Neighbours, ToSet
<1>4. adjacent[v] \in Seq(Vertices)
  BY <1>1, <1>3
<1> QED
  BY <1>1, <1>2, <1>3, <1>4

LEMMA RowsAreVertices ==
  ASSUME TypeOK, row <= Len(ids)
  PROVE  row \in 1..Len(ids) /\ ids[row] \in Vertices
BY DEF TypeOK, GraphOK, ToSet

(***************************************************************************)
(* What the innermost call meets, and the calls when its loop has gone on. *)
(***************************************************************************)
LEMMA AdvancedCalls ==
  ASSUME TypeOK, Meeting
  PROVE  /\ Len(calls) \in Nat \ {0} /\ Innermost = calls[Len(calls)]
         /\ Met \in Vertices /\ Met \in ToSet(calls[Len(calls)].todo)
         /\ Advanced \in Seq(Calls) /\ Len(Advanced) = Len(calls)
         /\ \A k \in 1..Len(calls) :
               /\ Advanced[k].of = calls[k].of /\ Advanced[k].left = calls[k].left
               /\ ToSet(calls[k].todo) = IF k = Len(calls)
                                         THEN {Met} \cup ToSet(Advanced[k].todo)
                                         ELSE ToSet(Advanced[k].todo)
<1>1. calls \in Seq(Calls) /\ Len(calls) \in Nat \ {0} /\ Innermost = calls[Len(calls)]
      /\ Innermost.todo # << >>
  BY DEF TypeOK, Meeting, Innermost, Last
<1>2. Innermost \in Calls
  BY <1>1
<1>3. Innermost.todo \in Seq(Vertices) /\ Innermost.todo # << >>
  BY <1>1, <1>2 DEF Calls
<1>4. /\ Met \in Vertices /\ Tail(Innermost.todo) \in Seq(Vertices)
      /\ ToSet(Innermost.todo) = {Met} \cup ToSet(Tail(Innermost.todo))
  BY <1>3, HeadOrTail DEF Met
<1> DEFINE next == [Innermost EXCEPT !.todo = Tail(Innermost.todo)]
<1>5. /\ next \in Calls /\ next.of = Innermost.of /\ next.left = Innermost.left
      /\ next.todo = Tail(Innermost.todo)
  <2>1. ASSUME NEW e \in Calls, NEW t \in Seq(Vertices)
        PROVE  LET n == [e EXCEPT !.todo = t]
               IN  n \in Calls /\ n.of = e.of /\ n.left = e.left /\ n.todo = t
    BY <2>1 DEF Calls
  <2> QED
    BY <1>2, <1>4, <2>1
<1>6. Advanced = [calls EXCEPT ![Len(calls)] = next]
  BY DEF Advanced
<1> HIDE DEF next
<1>7. /\ Advanced \in Seq(Calls) /\ Len(Advanced) = Len(calls)
      /\ \A k \in 1..Len(calls) : Advanced[k] = IF k = Len(calls) THEN next ELSE calls[k]
  BY <1>1, <1>5, <1>6
<1>8. ASSUME NEW k \in 1..Len(calls)
      PROVE  /\ Advanced[k].of = calls[k].of /\ Advanced[k].left = calls[k].left
             /\ ToSet(calls[k].todo) = IF k = Len(calls)
                                       THEN {Met} \cup ToSet(Advanced[k].todo)
                                       ELSE ToSet(Advanced[k].todo)
  <2>1. CASE k = Len(calls)
    BY <2>1, <1>1, <1>4, <1>5, <1>7
  <2>2. CASE k # Len(calls)
    BY <2>2, <1>7
  <2> QED
    BY <2>1, <2>2
<1> QED
  BY <1>1, <1>4, <1>7, <1>8

(***************************************************************************)
(* The path up to the root.                                                *)
(***************************************************************************)
LEMMA PathToRoot ==
  ASSUME TypeOK, CycleHere
  PROVE  /\ RootAt \in 1..Len(found) /\ found[RootAt] = root /\ root \in Id
         /\ path' \in Seq(Id) /\ Len(path') = RootAt + 1 /\ path'[1] = root
         /\ \A k \in 1..RootAt : path'[k + 1] = found[k]
<1>1. RootAt \in 1..Len(found) /\ found[RootAt] = root /\ found \in Seq(Id)
  <2>1. found \in Seq(Id) /\ \E k \in 1..Len(found) : found[k] = root
    BY DEF CycleHere, Contains, TypeOK
  <2>2. DOMAIN found = 1..Len(found)
    BY <2>1
  <2> QED
    BY <2>1, <2>2 DEF RootAt
<1>2. root \in Id /\ path' = <<root>> \o SubSeq(found, 1, RootAt)
  BY <1>1 DEF CycleHere
<1>3. /\ SubSeq(found, 1, RootAt) \in Seq(Id) /\ Len(SubSeq(found, 1, RootAt)) = RootAt
      /\ \A k \in 1..RootAt : SubSeq(found, 1, RootAt)[k] = found[k]
  BY <1>1
<1> QED
  BY <1>1, <1>2, <1>3

LEMMA DroppedPath ==
  ASSUME NEW S, NEW p \in Seq(S), NEW n \in 1..Len(p)
  PROVE  /\ RemoveAt(p, n) \in Seq(S) /\ Len(RemoveAt(p, n)) = Len(p) - 1
         /\ \A k \in 1..(Len(p) - 1) : RemoveAt(p, n)[k] = IF k < n THEN p[k] ELSE p[k + 1]
<1> DEFINE before == SubSeq(p, 1, n - 1)
           after == SubSeq(p, n + 1, Len(p))
<1>1. Len(p) \in Nat /\ n \in Nat /\ n >= 1 /\ n <= Len(p)
  OBVIOUS
<1>2. before \in Seq(S) /\ Len(before) = n - 1 /\ \A k \in 1..(n - 1) : before[k] = p[k]
  BY <1>1
<1>3. after \in Seq(S) /\ Len(after) = Len(p) - n /\ \A k \in 1..(Len(p) - n) : after[k] = p[k + n]
  BY <1>1
<1>4. RemoveAt(p, n) = before \o after
  BY DEF RemoveAt
<1> HIDE DEF before, after
<1>5. RemoveAt(p, n) \in Seq(S) /\ Len(RemoveAt(p, n)) = Len(p) - 1
  BY <1>1, <1>2, <1>3, <1>4
<1>6. ASSUME NEW k \in 1..(Len(p) - 1)
      PROVE  RemoveAt(p, n)[k] = IF k < n THEN p[k] ELSE p[k + 1]
  <2>1. CASE k < n
    BY <2>1, <1>1, <1>2, <1>3, <1>4
  <2>2. CASE ~(k < n)
    <3>1. RemoveAt(p, n)[k] = after[k - (n - 1)] /\ k - (n - 1) \in 1..(Len(p) - n)
      BY <2>2, <1>1, <1>2, <1>3, <1>4
    <3>2. after[k - (n - 1)] = p[k - (n - 1) + n] /\ k - (n - 1) + n = k + 1
      BY <3>1, <1>1, <1>3
    <3> QED
      BY <3>1, <3>2, <2>2
  <2> QED
    BY <2>1, <2>2
<1> QED
  BY <1>5, <1>6

-----------------------------------------------------------------------------
LEMMA InitTypes == Init => TypeOK
<1> SUFFICES ASSUME Init PROVE TypeOK
  OBVIOUS
<1>1. ids = << >> /\ adjacent = << >> /\ DOMAIN << >> = {} /\ Len(<< >>) = 0
  BY DEF Init
<1>2. GraphOK
  BY <1>1 DEF GraphOK, Vertices, IsInjective, ToSet
<1> QED
  BY <1>1, <1>2, GraphAssumption DEF Init, TypeOK

(***************************************************************************)
(* While the graph grows nothing is being worked out.                      *)
(***************************************************************************)
LEMMA GrowthKeepsTypes ==
  ASSUME TypeOK, GraphOK', Vertices \subseteq Vertices', Len(ids) <= Len(ids'), Len(ids') \in Nat,
         UNCHANGED <<phase, search, loop, cut>>
  PROVE  TypeOK'
<1>1. calls' \in Seq(Calls')
  <2>1. Calls \subseteq Calls'
    <3>1. \A s \in Seq(Vertices) : s \in Seq(Vertices')
      OBVIOUS
    <3> QED
      BY <3>1 DEF Calls
  <2>2. calls \in Seq(Calls) /\ calls' = calls
    BY DEF TypeOK, search
  <2> QED
    BY <2>1, <2>2
<1>2. Len(ids) \in Nat
  BY DEF TypeOK, GraphOK
<1> QED
  BY <1>1, <1>2 DEF TypeOK, search, loop, cut

LEMMA AddVertexKeepsTypes ==
  ASSUME TypeOK, NEW v \in Id, AddVertex(v)
  PROVE  TypeOK'
<1>1. /\ ids \in Seq(Id) /\ IsInjective(ids) /\ ToSet(ids) = Vertices
      /\ adjacent \in [Vertices -> Seq(Id)]
  BY DEF TypeOK, GraphOK
<1>2. v \notin Vertices /\ ids' = Append(ids, v)
  BY DEF AddVertex, HasVertex, Vertices
<1>3. ids' \in Seq(Id) /\ IsInjective(ids') /\ ToSet(ids') = Vertices \cup {v} /\ Len(ids') = Len(ids) + 1
  BY <1>1, <1>2, AppendAdds
<1>4. /\ Vertices' = Vertices \cup {v} /\ adjacent' \in [Vertices \cup {v} -> Seq(Id)]
      /\ adjacent'[v] = << >> /\ \A u \in Vertices : adjacent'[u] = adjacent[u]
  BY <1>1, <1>2 DEF AddVertex, Vertices
<1>5. ASSUME NEW u \in Vertices'
      PROVE  IsInjective(adjacent'[u]) /\ Neighbours(u)' \subseteq Vertices' \ {u}
  <2>1. CASE u = v
    BY <2>1, <1>4 DEF IsInjective, Neighbours, ToSet
  <2>2. CASE u # v
    <3>1. IsInjective(adjacent[u]) /\ ToSet(adjacent[u]) \subseteq Vertices \ {u} /\ adjacent'[u] = adjacent[u]
      BY <2>2, <1>4 DEF TypeOK, GraphOK, Neighbours
    <3> QED
      BY <3>1, <1>4 DEF Neighbours
  <2> QED
    BY <2>1, <2>2
<1>6. GraphOK'
  BY <1>3, <1>4, <1>5 DEF GraphOK
<1>7. Len(ids) <= Len(ids') /\ Len(ids') \in Nat
  BY <1>1, <1>3
<1>8. UNCHANGED <<phase, search, loop, cut>>
  BY DEF AddVertex
<1> QED
  BY <1>4, <1>6, <1>7, <1>8, GrowthKeepsTypes

LEMMA AddEdgeKeepsTypes ==
  ASSUME TypeOK, NEW from \in Id, NEW to \in Id, AddEdge(from, to)
  PROVE  TypeOK'
<1>1. /\ from \in Vertices /\ to \in Vertices /\ from # to /\ to \notin Neighbours(from)
      /\ adjacent \in [Vertices -> Seq(Id)] /\ adjacent[from] \in Seq(Id)
      /\ adjacent' = [adjacent EXCEPT ![from] = Append(adjacent[from], to)] /\ ids' = ids
  BY ContainsIsMember DEF AddEdge, HasVertex, Vertices, TypeOK, GraphOK, Neighbours
<1>2. /\ Vertices' = Vertices /\ adjacent' \in [Vertices -> Seq(Id)]
      /\ adjacent'[from] = Append(adjacent[from], to)
      /\ \A u \in Vertices \ {from} : adjacent'[u] = adjacent[u]
  BY <1>1, AppendAdds DEF Vertices
<1>3. ASSUME NEW u \in Vertices
      PROVE  IsInjective(adjacent'[u]) /\ Neighbours(u)' \subseteq Vertices \ {u}
  <2>1. IsInjective(adjacent[u]) /\ ToSet(adjacent[u]) \subseteq Vertices \ {u}
    BY DEF TypeOK, GraphOK, Neighbours
  <2>2. CASE u = from
    <3>1. IsInjective(adjacent'[u]) /\ ToSet(adjacent'[u]) = ToSet(adjacent[u]) \cup {to}
      BY <2>1, <2>2, <1>1, <1>2, AppendAdds DEF Neighbours
    <3> QED
      BY <3>1, <2>1, <2>2, <1>1 DEF Neighbours
  <2>3. CASE u # from
    BY <2>1, <2>3, <1>2 DEF Neighbours
  <2> QED
    BY <2>2, <2>3
<1>4. GraphOK'
  BY <1>1, <1>2, <1>3 DEF GraphOK, TypeOK
<1>5. Len(ids) <= Len(ids') /\ Len(ids') \in Nat
  BY <1>1 DEF TypeOK, GraphOK
<1>6. UNCHANGED <<phase, search, loop, cut>>
  BY DEF AddEdge
<1> QED
  BY <1>2, <1>4, <1>5, <1>6, GrowthKeepsTypes

LEMMA CallIsTyped ==
  ASSUME TypeOK, NEW v \in Vertices, NEW todo \in Seq(Vertices), NEW left \in Nat \cup {Unlimited}
  PROVE  /\ Call(v, todo, left) \in Calls /\ Call(v, todo, left).of = v
         /\ Call(v, todo, left).todo = todo /\ Call(v, todo, left).left = left
BY DEF Call, Calls

LEMMA SearchKeepsTypes ==
  ASSUME TypeOK, SkipVisited \/ VisitLeaf \/ VisitInner \/ Return
  PROVE  TypeOK'
<1>1. /\ UNCHANGED <<graph, phase, root, limit, loop, cut>>
      /\ GraphOK' /\ Vertices' = Vertices /\ Calls' = Calls /\ ids' = ids
  BY GraphIsKept DEF SkipVisited, VisitLeaf, VisitInner, Return, TypeOK, graph
<1>2. SUFFICES calls' \in Seq(Calls) /\ found' \in Seq(Id)
  BY <1>1, <1>2 DEF TypeOK, loop, cut
<1>3. calls \in Seq(Calls) /\ found \in Seq(Id)
  BY DEF TypeOK
<1>4. CASE SkipVisited
  BY <1>3, <1>4, AdvancedCalls DEF SkipVisited
<1>5. CASE VisitLeaf
  <2>1. Met \in Id /\ Advanced \in Seq(Calls)
    BY <1>5, AdvancedCalls, NeighboursAreVertices DEF VisitLeaf
  <2> QED
    BY <2>1, <1>3, <1>5, AppendAdds DEF VisitLeaf
<1>6. CASE VisitInner
  <2>1. Met \in Id /\ Met \in Vertices /\ adjacent[Met] \in Seq(Vertices) /\ Advanced \in Seq(Calls)
    BY <1>6, AdvancedCalls, NeighboursAreVertices DEF VisitInner
  <2>2. Innermost.left \in Nat \cup {Unlimited} /\ Innermost.left # 0
    <3>1. Innermost \in Calls
      BY <1>3, <1>6, AdvancedCalls DEF VisitInner
    <3> QED
      BY <3>1, <1>6 DEF VisitInner, IsLeaf, Calls
  <2>3. Deeper(Innermost.left) \in Nat \cup {Unlimited}
    BY <2>2 DEF Deeper, Unlimited
  <2>4. Call(Met, adjacent[Met], Deeper(Innermost.left)) \in Calls
    BY <2>1, <2>3, CallIsTyped
  <2> QED
    BY <2>1, <2>4, <1>3, <1>6, AppendAdds DEF VisitInner
<1>7. CASE Return
  <2>1. calls' = SubSeq(calls, 1, Len(calls) - 1) /\ Len(calls) \in Nat /\ Len(calls) >= 1
    BY <1>3, <1>7 DEF Return, Front
  <2> QED
    BY <2>1, <1>3, <1>7 DEF Return
<1> QED
  BY <1>4, <1>5, <1>6, <1>7

LEMMA ChildrenKeepTypes ==
  ASSUME TypeOK, NEW r \in Id, NEW n \in Limits, AskChildren(r, n)
  PROVE  TypeOK'
<1>1. /\ UNCHANGED <<graph, loop, cut>> /\ phase' = "children" /\ root' = r /\ limit' = n /\ found' = << >>
      /\ GraphOK' /\ Vertices' = Vertices /\ Calls' = Calls /\ ids' = ids
  BY GraphIsKept DEF AskChildren, TypeOK, graph
<1>2. calls' \in Seq(Calls)
  <2>1. CASE HasVertex(r)
    <3>1. r \in Vertices /\ adjacent[r] \in Seq(Vertices)
      BY <2>1, NeighboursAreVertices DEF HasVertex, Vertices
    <3>2. (IF n = 0 THEN 0 ELSE n - 1) \in Nat \cup {Unlimited}
      BY GraphAssumption
    <3>3. Call(r, adjacent[r], IF n = 0 THEN 0 ELSE n - 1) \in Calls
      BY <3>1, <3>2, CallIsTyped
    <3> QED
      BY <3>3, <2>1 DEF AskChildren
  <2>2. CASE ~HasVertex(r)
    BY <2>2 DEF AskChildren
  <2> QED
    BY <2>1, <2>2
<1> QED
  BY <1>1, <1>2 DEF TypeOK, loop, cut

LEMMA PairKeepsTypes ==
  ASSUME TypeOK, NextPair
  PROVE  TypeOK'
<1>1. /\ UNCHANGED <<graph, row, cycles, cut>> /\ phase' = "deep" /\ root' = ids[row]
      /\ limit' = Unlimited /\ found' = << >> /\ column' = column + 1
      /\ GraphOK' /\ Vertices' = Vertices /\ Calls' = Calls /\ ids' = ids
  BY GraphIsKept DEF NextPair, TypeOK, graph
<1>2. ids[row] \in Vertices /\ ids[row] \in Id /\ adjacent[ids[row]] \in Seq(Vertices)
  BY RowsAreVertices, NeighboursAreVertices DEF NextPair
<1>3. <<adjacent[ids[row]][column]>> \in Seq(Vertices)
  BY <1>2 DEF NextPair, TypeOK
<1>4. Call(ids[row], <<adjacent[ids[row]][column]>>, Unlimited) \in Calls
  BY <1>2, <1>3, CallIsTyped
<1>5. calls' \in Seq(Calls)
  BY <1>4 DEF NextPair
<1> QED
  BY <1>1, <1>2, <1>5 DEF TypeOK, cut

LEMMA CutKeepsTypes ==
  ASSUME TypeOK, CycleHere \/ DropDeadEnd \/ BacktrackEnds \/ Filter
  PROVE  TypeOK'
<1>1. /\ UNCHANGED <<graph, search, loop>> /\ GraphOK' /\ Vertices' = Vertices /\ Calls' = Calls
      /\ ids' = ids /\ phase' \in {"backtrack", "filter"}
  BY GraphIsKept DEF CycleHere, DropDeadEnd, BacktrackEnds, Filter, TypeOK, graph
<1>2. SUFFICES /\ path' \in Seq(Id) /\ position' \in 0..(Len(path') + 1) /\ cycle' \in Seq(Id)
               /\ phase' = "filter" => position' >= 1
  BY <1>1, <1>2 DEF TypeOK, search, loop
<1>3. path \in Seq(Id) /\ position \in 0..(Len(path) + 1) /\ cycle \in Seq(Id) /\ Len(path) \in Nat
  BY DEF TypeOK
<1>4. CASE CycleHere
  <2>1. path' \in Seq(Id) /\ Len(path') = RootAt + 1 /\ RootAt \in Nat
    BY <1>4, PathToRoot DEF TypeOK
  <2> QED
    BY <2>1, <1>3, <1>4 DEF CycleHere
<1>5. CASE DropDeadEnd
  <2>1. position - 1 \in 1..Len(path) /\ position' = position - 1 /\ cycle' = cycle
    BY <1>3, <1>5 DEF DropDeadEnd
  <2> phase' = "backtrack"
    BY <1>5 DEF DropDeadEnd
  <2>2. CASE path' = path
    BY <2>1, <2>2, <1>3
  <2>3. CASE path' = RemoveAt(path, position - 1)
    <3>1. path' \in Seq(Id) /\ Len(path') = Len(path) - 1
      BY <2>1, <2>3, <1>3, DroppedPath
    <3> QED
      BY <3>1, <2>1, <1>3
  <2> QED
    BY <2>2, <2>3, <1>5 DEF DropDeadEnd
<1>6. CASE BacktrackEnds
  BY <1>3, <1>6 DEF BacktrackEnds
<1>7. CASE Filter
  <2>1. path' = path /\ position' = position + 1 /\ position <= Len(path)
    BY <1>7 DEF Filter
  <2>2. cycle' \in Seq(Id)
    <3>1. CASE cycle' = cycle
      BY <3>1, <1>3
    <3>2. CASE cycle' = Append(cycle, path[position])
      <4>1. position \in 1..Len(path)
        BY <2>1, <1>3, <1>7 DEF Filter, TypeOK
      <4> QED
        BY <3>2, <4>1, <1>3
    <3> QED
      BY <3>1, <3>2, <1>7 DEF Filter
  <2> QED
    BY <2>1, <2>2, <1>3, <1>7 DEF Filter, TypeOK
<1> QED
  BY <1>4, <1>5, <1>6, <1>7

LEMMA KeepCycleKeepsTypes ==
  ASSUME TypeOK, KeepCycle
  PROVE  TypeOK'
<1>1. /\ UNCHANGED <<graph, row, column>> /\ GraphOK' /\ Vertices' = Vertices /\ ids' = ids
      /\ phase' = "pairs" /\ calls' = << >>
  BY GraphIsKept DEF KeepCycle, EndSearch, TypeOK, graph
<1>2. cycles \in Seq(Seq(Id)) /\ cycle \in Seq(Id)
  BY DEF TypeOK
<1>3. cycles' \in Seq(Seq(Id))
  <2>1. CASE cycles' = cycles
    BY <2>1, <1>2
  <2>2. CASE cycles' = Append(cycles, cycle)
    BY <2>2, <1>2
  <2> QED
    BY <2>1, <2>2 DEF KeepCycle
<1> QED
  BY <1>1, <1>3 DEF TypeOK, KeepCycle, EndSearch

LEMMA LoopKeepsTypes ==
  ASSUME TypeOK, \/ TakeChildren \/ AskCycles \/ NextRoot \/ NoCycleHere \/ TakeCycles
                 \/ UNCHANGED vars
  PROVE  TypeOK'
<1>1. UNCHANGED graph
  BY DEF TakeChildren, AskCycles, NextRoot, NoCycleHere, TakeCycles, vars
<1>2. GraphOK' /\ Vertices' = Vertices /\ Calls' = Calls /\ ids' = ids /\ Len(ids) \in Nat
  BY <1>1, GraphIsKept DEF TypeOK, graph, GraphOK
<1>3. CASE TakeChildren
  BY <1>2, <1>3 DEF TakeChildren, EndSearch, TypeOK, loop, cut
<1>4. CASE AskCycles
  BY <1>2, <1>4 DEF AskCycles, TypeOK, search, loop, cut
<1>5. CASE NextRoot
  BY <1>2, <1>5 DEF NextRoot, TypeOK, search, cut
<1>6. CASE NoCycleHere
  BY <1>2, <1>6 DEF NoCycleHere, EndSearch, TypeOK, loop, cut
<1>7. CASE TakeCycles
  BY <1>2, <1>7 DEF TakeCycles, TypeOK, search, cut
<1>8. CASE UNCHANGED vars
  BY <1>2, <1>8 DEF TypeOK, vars, search, loop, cut
<1> QED
  BY <1>3, <1>4, <1>5, <1>6, <1>7, <1>8

LEMMA StepKeepsTypes ==
  ASSUME TypeOK, [Next]_vars
  PROVE  TypeOK'
BY AddVertexKeepsTypes, AddEdgeKeepsTypes, SearchKeepsTypes, ChildrenKeepTypes, PairKeepsTypes,
   CutKeepsTypes, KeepCycleKeepsTypes, LoopKeepsTypes DEF Next

(***************************************************************************)
(* For every set of names and limits the graph stays one without loops and *)
(* parallel edges, and what a search, the backtracking and the filter work *)
(* with stays within it.                                                   *)
(***************************************************************************)
THEOREM TypeCorrect == Spec => []TypeOK
<1>1. TypeOK /\ [Next]_vars => TypeOK'
  BY StepKeepsTypes
<1> QED
  BY <1>1, InitTypes, PTL DEF Spec

-----------------------------------------------------------------------------
(***************************************************************************)
(* The search.  A call of find_deep_dependencies is at a neighbour of the  *)
(* vertex its caller is at, no two calls are at the same vertex, and the   *)
(* depth a call hands on is what the calls before it have left of it.      *)
(* What has been found has a predecessor found earlier that is not the     *)
(* root, and what a vertex leads to has been found once no call is at it   *)
(* any more -- unless the vertex is the root, which the search does not    *)
(* expand, or the limit is smaller than the graph.                         *)
(***************************************************************************)
Partner == adjacent[ids[row]][column - 1]
Starts == IF phase = "children" THEN Neighbours(root) ELSE {Partner}
Depth == IF limit = 0 THEN 1 ELSE limit
Wide == phase = "deep" \/ limit >= Cardinality(Vertices)

Searching == phase \in {"children", "deep"} /\ HasVertex(root)

Ready ==
    /\ calls # << >> => phase \in {"children", "deep"} /\ HasVertex(root)
    /\ phase = "children" => limit \in Nat
    /\ phase \in {"deep", "backtrack", "filter"} =>
          /\ row <= Len(ids) /\ root = ids[row]
          /\ column - 1 \in 1..Len(adjacent[root])

StackIs(c, f) ==
    /\ c # << >> => c[1].of = root /\ ToSet(c[1].todo) \subseteq Starts
    /\ \A k \in 1..Len(c) : ToSet(c[k].todo) \subseteq Neighbours(c[k].of)
    /\ \A k \in 2..Len(c) : /\ c[k].of \in ToSet(f) \ {root}
                            /\ c[k].of \in Neighbours(c[k - 1].of)
    /\ \A j, k \in 1..Len(c) : c[j].of = c[k].of => j = k

DepthIs(c) ==
    \A k \in 1..Len(c) :
        IF phase = "deep" THEN c[k].left = Unlimited
        ELSE k <= Depth /\ c[k].left = Depth - k

HasParent(f, j) ==
    f[j] \in Starts \/ \E k \in 1..(j - 1) : f[k] # root /\ f[j] \in Neighbours(f[k])

FoundIs(f) ==
    /\ IsInjective(f) /\ ToSet(f) \subseteq Vertices
    /\ \A j \in 1..Len(f) : HasParent(f, j)
    /\ phase = "children" => ToSet(f) \subseteq Within(root, Depth)
    /\ \A S \in SUBSET Vertices :
          Closed(S) /\ Neighbours(root) \subseteq S => ToSet(f) \subseteq S

PendingIs(c, f) ==
    /\ Starts \subseteq ToSet(f) \cup (IF c = << >> THEN {} ELSE ToSet(c[1].todo))
    /\ \A k \in 2..Len(c) : Neighbours(c[k].of) \subseteq ToSet(f) \cup ToSet(c[k].todo)

ExpandedIs(c, f) ==
    Wide => \A v \in ToSet(f) : \/ v = root
                                \/ \E k \in 2..Len(c) : v = c[k].of
                                \/ Neighbours(v) \subseteq ToSet(f)

SearchIs(c, f) ==
    StackIs(c, f) /\ DepthIs(c) /\ FoundIs(f) /\ PendingIs(c, f) /\ ExpandedIs(c, f)
SearchInv == Ready /\ (Searching => SearchIs(calls, found))

-----------------------------------------------------------------------------
LEMMA EdgeIsNeighbour ==
  ASSUME TypeOK, NEW u \in Vertices, NEW v
  PROVE  Edge(u, v) <=> v \in Neighbours(u)
BY NeighboursAreVertices, ContainsIsMember DEF Edge, HasVertex, Vertices, Neighbours

LEMMA MetIsNeighbour ==
  ASSUME TypeOK, SearchInv, Meeting
  PROVE  /\ Searching /\ SearchIs(calls, found)
         /\ Len(calls) \in Nat \ {0} /\ Met \in Vertices
         /\ \A k \in 1..Len(calls) : calls[k].of \in Vertices
         /\ Innermost = calls[Len(calls)] /\ Met \in Neighbours(calls[Len(calls)].of)
         /\ calls[1].of = root
         /\ Len(calls) = 1 => Met \in Starts
         /\ Len(calls) # 1 => calls[Len(calls)].of \in ToSet(found) \ {root}
<1>1. PICK n \in Nat \ {0} : n = Len(calls)
  BY AdvancedCalls
<1>2. /\ Innermost = calls[n] /\ calls # << >>
      /\ Met \in Vertices /\ Met \in ToSet(calls[n].todo)
  BY <1>1, AdvancedCalls DEF Meeting
<1>3. Searching /\ SearchIs(calls, found) /\ StackIs(calls, found)
  BY <1>2 DEF Searching, SearchInv, Ready, SearchIs
<1>4. \A k \in 1..n : calls[k].of \in Vertices
  <2>1. calls \in Seq(Calls)
    BY DEF TypeOK
  <2>2. \A k \in 1..n : calls[k] \in Calls
    BY <2>1, <1>1
  <2> QED
    BY <2>2 DEF Calls
<1>5. n \in 1..n /\ (n # 1 => n \in 2..n)
  BY <1>1
<1>6. Met \in Neighbours(calls[n].of) /\ calls[1].of = root /\ (n = 1 => Met \in Starts)
  BY <1>1, <1>2, <1>3, <1>5 DEF StackIs
<1>7. n # 1 => calls[n].of \in ToSet(found) \ {root}
  BY <1>1, <1>3, <1>5 DEF StackIs
<1> QED
  BY <1>1, <1>2, <1>3, <1>4, <1>6, <1>7

(***************************************************************************)
(* The calls spell out a walk from the root to the vertex that is met.     *)
(***************************************************************************)
LEMMA MetIsWithin ==
  ASSUME TypeOK, SearchInv, Meeting, phase = "children"
  PROVE  Met \in Within(root, Depth)
<1> DEFINE n == Len(calls)
           w == [j \in 1..n |-> IF j < n THEN calls[j + 1].of ELSE Met]
<1>1. /\ n \in Nat \ {0} /\ Met \in Vertices /\ Met \in Neighbours(calls[n].of) /\ calls[1].of = root
      /\ \A k \in 1..n : calls[k].of \in Vertices
      /\ StackIs(calls, found) /\ DepthIs(calls)
  BY MetIsNeighbour DEF SearchIs
<1>2. n \in 1..Depth
  <2>1. n \in 1..n
    BY <1>1
  <2>2. n <= Depth
    BY <2>1, <1>1 DEF DepthIs
  <2>3. Depth \in Int
    BY DEF Depth, SearchInv, Ready
  <2> QED
    BY <1>1, <2>2, <2>3
<1> HIDE DEF n
<1>3. w \in [1..n -> Vertices] /\ DOMAIN w = 1..n
  <2>1. \A j \in 1..n : (IF j < n THEN calls[j + 1].of ELSE Met) \in Vertices
    <3>1. \A j \in 1..n : j < n => j + 1 \in 1..n
      BY <1>1
    <3> QED
      BY <3>1, <1>1
  <2> QED
    BY <2>1
<1>4. w[n] = Met /\ \A k \in 1..n : k < n => w[k] = calls[k + 1].of
  BY <1>1
<1> HIDE DEF w
<1>5. ASSUME NEW k \in 1..n
      PROVE  Edge(IF k = 1 THEN root ELSE w[k - 1], w[k])
  <2>1. (IF k = 1 THEN root ELSE w[k - 1]) = calls[k].of
    <3>1. k # 1 => k - 1 \in 1..n /\ k - 1 < n /\ (k - 1) + 1 = k
      BY <1>1
    <3> QED
      BY <3>1, <1>1, <1>4
  <2>2. w[k] \in Neighbours(calls[k].of)
    <3>1. CASE k = n
      BY <3>1, <1>1, <1>4
    <3>2. CASE k # n
      <4>1. k + 1 \in 2..n /\ (k + 1) - 1 = k /\ w[k] = calls[k + 1].of
        BY <3>2, <1>1, <1>4
      <4>2. calls[k + 1].of \in Neighbours(calls[(k + 1) - 1].of)
        BY <4>1, <1>1 DEF StackIs, n
      <4> QED
        BY <4>1, <4>2
    <3> QED
      BY <3>1, <3>2
  <2> QED
    BY <2>1, <2>2, <1>1, EdgeIsNeighbour
<1>6. IsWalk(root, w)
  BY <1>3, <1>5 DEF IsWalk
<1> QED
  BY <1>1, <1>2, <1>3, <1>4, <1>6 DEF Within

LEMMA FoundGrows ==
  ASSUME TypeOK, SearchInv, Meeting, Met \notin ToSet(found)
  PROVE  FoundIs(Append(found, Met)) /\ ToSet(Append(found, Met)) = ToSet(found) \cup {Met}
<1> DEFINE f == Append(found, Met)
<1>1. /\ Len(calls) \in Nat \ {0} /\ Met \in Vertices /\ Met \in Neighbours(calls[Len(calls)].of)
      /\ FoundIs(found) /\ calls[1].of = root
      /\ (Len(calls) = 1 => Met \in Starts)
      /\ (Len(calls) # 1 => calls[Len(calls)].of \in ToSet(found) \ {root})
  BY MetIsNeighbour DEF SearchIs
<1>2. found \in Seq(Id) /\ Met \in Id /\ Len(found) \in Nat
  BY <1>1, NeighboursAreVertices DEF TypeOK
<1>3. /\ Len(f) = Len(found) + 1 /\ f[Len(found) + 1] = Met
      /\ \A k \in 1..Len(found) : f[k] = found[k]
      /\ ToSet(f) = ToSet(found) \cup {Met} /\ IsInjective(f)
  <2>1. IsInjective(found)
    BY <1>1 DEF FoundIs
  <2> QED
    BY <2>1, <1>2, AppendAdds
<1> HIDE DEF f
<1>4. ASSUME NEW j \in 1..Len(f) PROVE HasParent(f, j)
  <2>1. CASE j \in 1..Len(found)
    <3>1. HasParent(found, j) /\ f[j] = found[j]
      BY <2>1, <1>1, <1>3 DEF FoundIs
    <3>2. \A k \in 1..(j - 1) : f[k] = found[k]
      BY <2>1, <1>2, <1>3
    <3> QED
      BY <3>1, <3>2 DEF HasParent
  <2>2. CASE j = Len(found) + 1
    <3>1. CASE Len(calls) = 1
      BY <3>1, <2>2, <1>1, <1>3 DEF HasParent
    <3>2. CASE Len(calls) # 1
      <4>1. PICK k \in 1..Len(found) : found[k] = calls[Len(calls)].of
        BY <3>2, <1>1, <1>2 DEF ToSet
      <4>2. k \in 1..(j - 1) /\ f[k] # root /\ f[j] \in Neighbours(f[k])
        BY <4>1, <3>2, <2>2, <1>1, <1>2, <1>3
      <4> QED
        BY <4>2 DEF HasParent
    <3> QED
      BY <3>1, <3>2
  <2> QED
    BY <2>1, <2>2, <1>2, <1>3
<1>5. ToSet(f) \subseteq Vertices /\ (phase = "children" => ToSet(f) \subseteq Within(root, Depth))
  BY <1>1, <1>3, MetIsWithin DEF FoundIs
<1>6. ASSUME NEW S \in SUBSET Vertices, Closed(S), Neighbours(root) \subseteq S
      PROVE  ToSet(f) \subseteq S
  <2>1. ToSet(found) \subseteq S
    BY <1>1, <1>6 DEF FoundIs
  <2>2. Met \in S
    <3>1. CASE Len(calls) = 1
      BY <3>1, <1>1, <1>6
    <3>2. CASE Len(calls) # 1
      BY <3>2, <2>1, <1>1, <1>6 DEF Closed
    <3> QED
      BY <3>1, <3>2
  <2> QED
    BY <2>1, <2>2, <1>3
<1>7. FoundIs(f)
  BY <1>3, <1>4, <1>5, <1>6 DEF FoundIs
<1> QED
  BY <1>3, <1>7 DEF f

(***************************************************************************)
(* With a limit that is no smaller than the graph the depth never runs     *)
(* out: the calls are at different vertices, and so is the one that is     *)
(* met.                                                                    *)
(***************************************************************************)
LEMMA LeafIsRoot ==
  ASSUME TypeOK, SearchInv, Meeting, Met \notin ToSet(found), IsLeaf(Met, Innermost.left), Wide
  PROVE  Met = root
<1> SUFFICES ASSUME Met # root PROVE FALSE
  OBVIOUS
<1>1. PICK n \in Nat \ {0} : n = Len(calls)
  BY AdvancedCalls
<1>2. /\ Searching /\ StackIs(calls, found) /\ DepthIs(calls) /\ Met \in Vertices
      /\ \A k \in 1..n : calls[k].of \in Vertices
      /\ Innermost = calls[n] /\ calls[1].of = root
  BY <1>1, MetIsNeighbour DEF SearchIs
<1>3. calls[n].left = 0 /\ n \in 1..n
  BY <1>1, <1>2 DEF IsLeaf
<1>4. phase = "children" /\ n = Depth /\ limit \in Nat
  <2>1. phase # "deep"
    BY <1>1, <1>2, <1>3 DEF DepthIs, Unlimited
  <2>2. phase = "children" /\ limit \in Nat
    BY <2>1, <1>2 DEF Searching, SearchInv, Ready
  <2>3. calls[n].left = Depth - n /\ n <= Depth
    BY <2>1, <1>1, <1>3, <1>2 DEF DepthIs
  <2>4. Depth \in Nat
    BY <2>2 DEF Depth
  <2> QED
    BY <2>2, <2>3, <2>4, <1>3
<1>5. limit >= Cardinality(Vertices) /\ limit <= n
  BY <1>4 DEF Wide, Depth
<1> DEFINE s == [k \in 1..(n + 1) |-> IF k <= n THEN calls[k].of ELSE Met]
<1>6. s \in Seq(Vertices) /\ Len(s) = n + 1
  BY <1>1, <1>2
<1>7. /\ \A k \in 1..n : s[k] = calls[k].of
      /\ s[n + 1] = Met /\ DOMAIN s = 1..(n + 1)
  BY <1>1
<1>8. \A k \in 1..n : Met # calls[k].of
  <2> SUFFICES ASSUME NEW k \in 1..n PROVE Met # calls[k].of
    OBVIOUS
  <2>1. CASE k = 1
    BY <2>1, <1>2
  <2>2. CASE k # 1
    <3>1. k \in 2..Len(calls)
      BY <2>2, <1>1
    <3>2. calls[k].of \in ToSet(found)
      BY <3>1, <1>2 DEF StackIs
    <3> QED
      BY <3>2
  <2> QED
    BY <2>1, <2>2
<1> HIDE DEF s
<1>9. IsInjective(s)
  <2> SUFFICES ASSUME NEW a \in 1..(n + 1), NEW b \in 1..(n + 1), s[a] = s[b] PROVE a = b
    BY <1>7 DEF IsInjective
  <2>1. CASE a \in 1..n /\ b \in 1..n
    BY <2>1, <1>1, <1>2, <1>7 DEF StackIs
  <2>2. CASE a = n + 1 \/ b = n + 1
    BY <2>2, <1>1, <1>7, <1>8
  <2> QED
    BY <2>1, <2>2, <1>1
<1>10. IsFiniteSet(Vertices)
  BY FiniteElements DEF TypeOK, GraphOK
<1>11. Len(s) <= Cardinality(Vertices) /\ Cardinality(Vertices) \in Nat
  BY <1>6, <1>9, <1>10, InjectiveLength, FS_CardinalityType
<1> QED
  BY <1>1, <1>4, <1>5, <1>6, <1>11

LEMMA AdvancedKeeps ==
  ASSUME TypeOK, SearchInv, Meeting, NEW f, ToSet(f) = ToSet(found) \cup {Met}
  PROVE  /\ StackIs(Advanced, f) /\ DepthIs(Advanced) /\ PendingIs(Advanced, f)
         /\ Met \in ToSet(found) \cup {root} \/ ~Wide => ExpandedIs(Advanced, f)
<1>1. PICK n \in Nat \ {0} : n = Len(calls)
  BY AdvancedCalls
<1>2. /\ n = Len(Advanced) /\ Advanced # << >> /\ calls # << >>
      /\ \A k \in 1..n :
            /\ Advanced[k].of = calls[k].of /\ Advanced[k].left = calls[k].left
            /\ ToSet(Advanced[k].todo) \subseteq ToSet(calls[k].todo)
            /\ ToSet(calls[k].todo) \subseteq {Met} \cup ToSet(Advanced[k].todo)
  <2>1. n = Len(Advanced) /\ Advanced # << >> /\ calls # << >>
    BY <1>1, AdvancedCalls DEF Meeting
  <2>2. \A k \in 1..n : Advanced[k].of = calls[k].of /\ Advanced[k].left = calls[k].left
    BY <1>1, AdvancedCalls
  <2>3. ASSUME NEW k \in 1..n
        PROVE  /\ ToSet(Advanced[k].todo) \subseteq ToSet(calls[k].todo)
               /\ ToSet(calls[k].todo) \subseteq {Met} \cup ToSet(Advanced[k].todo)
    <3>1. ToSet(calls[k].todo) = IF k = Len(calls) THEN {Met} \cup ToSet(Advanced[k].todo)
                                                   ELSE ToSet(Advanced[k].todo)
      BY <1>1, AdvancedCalls
    <3> QED
      BY <3>1
  <2> QED
    BY <2>1, <2>2, <2>3
<1>3. /\ StackIs(calls, found) /\ DepthIs(calls) /\ PendingIs(calls, found) /\ ExpandedIs(calls, found)
  BY MetIsNeighbour DEF SearchIs
<1>4. 1 \in 1..n /\ \A k \in 2..n : k \in 1..n /\ k - 1 \in 1..n
  BY <1>1
<1>5. StackIs(Advanced, f)
  <2>1. Advanced[1].of = root /\ ToSet(Advanced[1].todo) \subseteq Starts
    BY <1>2, <1>3, <1>4 DEF StackIs
  <2>2. \A k \in 1..n : ToSet(Advanced[k].todo) \subseteq Neighbours(Advanced[k].of)
    BY <1>1, <1>2, <1>3 DEF StackIs
  <2>3. \A k \in 2..n : /\ Advanced[k].of \in ToSet(f) \ {root}
                        /\ Advanced[k].of \in Neighbours(Advanced[k - 1].of)
    BY <1>1, <1>2, <1>3, <1>4 DEF StackIs
  <2>4. \A j, k \in 1..n : Advanced[j].of = Advanced[k].of => j = k
    BY <1>1, <1>2, <1>3 DEF StackIs
  <2> QED
    BY <2>1, <2>2, <2>3, <2>4, <1>2 DEF StackIs
<1>6. DepthIs(Advanced)
  BY <1>1, <1>2, <1>3 DEF DepthIs
<1>7. PendingIs(Advanced, f)
  <2>1. Starts \subseteq ToSet(f) \cup ToSet(Advanced[1].todo)
    BY <1>2, <1>3, <1>4 DEF PendingIs
  <2>2. \A k \in 2..n : Neighbours(Advanced[k].of) \subseteq ToSet(f) \cup ToSet(Advanced[k].todo)
    BY <1>1, <1>2, <1>3, <1>4 DEF PendingIs
  <2> QED
    BY <2>1, <2>2, <1>2 DEF PendingIs
<1>8. ASSUME Met \in ToSet(found) \cup {root} \/ ~Wide PROVE ExpandedIs(Advanced, f)
  BY <1>1, <1>2, <1>3, <1>4, <1>8 DEF ExpandedIs
<1> QED
  BY <1>5, <1>6, <1>7, <1>8

LEMMA SkipKeepsSearch ==
  ASSUME TypeOK, SearchInv, SkipVisited
  PROVE  SearchIs(calls', found')
<1>1. Meeting /\ calls' = Advanced /\ found' = found
  BY DEF SkipVisited
<1>2. Met \in ToSet(found) /\ ToSet(found) = ToSet(found) \cup {Met}
  BY ContainsIsMember DEF SkipVisited, TypeOK
<1> QED
  BY <1>1, <1>2, AdvancedKeeps, MetIsNeighbour DEF SearchIs

LEMMA LeafKeepsSearch ==
  ASSUME TypeOK, SearchInv, VisitLeaf
  PROVE  SearchIs(calls', found')
<1>1. Meeting /\ calls' = Advanced /\ found' = Append(found, Met) /\ IsLeaf(Met, Innermost.left)
  BY DEF VisitLeaf
<1>2. Met \notin ToSet(found)
  BY ContainsIsMember DEF VisitLeaf, TypeOK
<1>3. FoundIs(Append(found, Met)) /\ ToSet(Append(found, Met)) = ToSet(found) \cup {Met}
  BY <1>1, <1>2, FoundGrows
<1>4. Met = root \/ ~Wide
  BY <1>1, <1>2, LeafIsRoot
<1> QED
  BY <1>1, <1>3, <1>4, AdvancedKeeps DEF SearchIs

LEMMA InnerKeepsSearch ==
  ASSUME TypeOK, SearchInv, VisitInner
  PROVE  SearchIs(calls', found')
<1> DEFINE left == Deeper(Innermost.left)
           call == Call(Met, adjacent[Met], left)
           f == Append(found, Met)
<1>1. PICK n \in Nat \ {0} : n = Len(calls)
  BY AdvancedCalls DEF VisitInner
<1>2. /\ Meeting /\ calls' = Append(Advanced, call) /\ found' = f
      /\ Met # root /\ Innermost.left # 0 /\ Innermost = calls[n]
  BY <1>1, MetIsNeighbour DEF VisitInner, IsLeaf
<1>3. Met \notin ToSet(found)
  BY ContainsIsMember DEF VisitInner, TypeOK
<1>4. FoundIs(f) /\ ToSet(f) = ToSet(found) \cup {Met}
  BY <1>2, <1>3, FoundGrows
<1>5. call.of = Met /\ ToSet(call.todo) = Neighbours(Met) /\ call.left = left
  BY DEF Call, Neighbours
<1>6. /\ StackIs(Advanced, f) /\ DepthIs(Advanced) /\ PendingIs(Advanced, f)
      /\ Advanced \in Seq(Calls) /\ Len(Advanced) = n /\ Advanced # << >>
      /\ \A k \in 1..n : Advanced[k].of = calls[k].of
      /\ Advanced[n].left = Innermost.left
      /\ StackIs(calls, found) /\ ExpandedIs(calls, found)
      /\ Met \in Neighbours(Advanced[n].of) /\ phase \in {"children", "deep"}
  <2>1. n \in 1..n
    BY <1>1
  <2>2. StackIs(Advanced, f) /\ DepthIs(Advanced) /\ PendingIs(Advanced, f)
    BY <1>2, <1>4, AdvancedKeeps
  <2> QED
    BY <2>1, <2>2, <1>1, <1>2, AdvancedCalls, MetIsNeighbour DEF SearchIs, Meeting
<1>7. /\ Len(calls') = n + 1 /\ calls'[n + 1] = call /\ calls' # << >>
      /\ \A k \in 1..n : calls'[k] = Advanced[k]
  BY <1>1, <1>2, <1>6
<1> HIDE DEF call, f, left
<1>8. 1 \in 1..n /\ n \in 1..n /\ \A k \in 1..(n + 1) : k = n + 1 \/ k \in 1..n
  BY <1>1
<1>9. \A k \in 2..(n + 1) : k = n + 1 \/ k \in 2..n
  BY <1>1
<1>10. \A k \in 2..n : k \in 1..n /\ k - 1 \in 1..n
  BY <1>1
<1>11. StackIs(calls', f)
  <2>1. calls'[1].of = root /\ ToSet(calls'[1].todo) \subseteq Starts
    BY <1>6, <1>7, <1>8 DEF StackIs
  <2>2. ASSUME NEW k \in 1..(n + 1)
        PROVE  ToSet(calls'[k].todo) \subseteq Neighbours(calls'[k].of)
    <3>1. CASE k = n + 1
      BY <3>1, <1>5, <1>7
    <3>2. CASE k \in 1..n
      BY <3>2, <1>6, <1>7 DEF StackIs
    <3> QED
      BY <3>1, <3>2, <1>8
  <2>3. ASSUME NEW k \in 2..(n + 1)
        PROVE  calls'[k].of \in ToSet(f) \ {root} /\ calls'[k].of \in Neighbours(calls'[k - 1].of)
    <3>1. CASE k = n + 1
      <4>1. k - 1 = n
        BY <3>1, <1>1
      <4> QED
        BY <3>1, <4>1, <1>2, <1>4, <1>5, <1>6, <1>7, <1>8
    <3>2. CASE k \in 2..n
      BY <3>2, <1>6, <1>7, <1>10 DEF StackIs
    <3> QED
      BY <3>1, <3>2, <1>9
  <2>4. \A k \in 1..n : calls'[k].of # Met
    <3> SUFFICES ASSUME NEW k \in 1..n PROVE calls[k].of # Met
      BY <1>6, <1>7
    <3>1. CASE k = 1
      BY <3>1, <1>2, MetIsNeighbour
    <3>2. CASE k # 1
      <4>1. k \in 2..Len(calls)
        BY <3>2, <1>1
      <4>2. calls[k].of \in ToSet(found)
        BY <4>1, <1>6 DEF StackIs
      <4> QED
        BY <4>2, <1>3
    <3> QED
      BY <3>1, <3>2
  <2>5. ASSUME NEW j \in 1..(n + 1), NEW k \in 1..(n + 1), calls'[j].of = calls'[k].of PROVE j = k
    <3>1. CASE j \in 1..n /\ k \in 1..n
      BY <3>1, <2>5, <1>6, <1>7 DEF StackIs
    <3>2. CASE j = n + 1 \/ k = n + 1
      BY <3>2, <2>4, <2>5, <1>5, <1>7, <1>8
    <3> QED
      BY <3>1, <3>2, <1>8
  <2> QED
    BY <2>1, <2>2, <2>3, <2>5, <1>7 DEF StackIs
<1>12. DepthIs(calls')
  <2>1. \A k \in 1..n : IF phase = "deep" THEN calls'[k].left = Unlimited
                        ELSE k <= Depth /\ calls'[k].left = Depth - k
    BY <1>6, <1>7 DEF DepthIs
  <2>2. IF phase = "deep" THEN left = Unlimited ELSE n + 1 <= Depth /\ left = Depth - (n + 1)
    <3>1. CASE phase = "deep"
      BY <3>1, <2>1, <1>6, <1>7, <1>8 DEF left, Deeper
    <3>2. CASE phase # "deep"
      <4>1. limit \in Nat
        BY <3>2, <1>6 DEF SearchInv, Ready
      <4>2. Depth \in Nat
        BY <4>1 DEF Depth
      <4>3. n <= Depth /\ Innermost.left = Depth - n
        BY <3>2, <2>1, <1>6, <1>7, <1>8
      <4> QED
        BY <3>2, <4>2, <4>3, <1>1, <1>2 DEF left, Deeper, Unlimited
    <3> QED
      BY <3>1, <3>2
  <2> QED
    BY <2>1, <2>2, <1>5, <1>7, <1>8 DEF DepthIs
<1>13. PendingIs(calls', f)
  <2>1. Starts \subseteq ToSet(f) \cup ToSet(calls'[1].todo)
    BY <1>6, <1>7, <1>8 DEF PendingIs
  <2>2. \A k \in 2..(n + 1) : Neighbours(calls'[k].of) \subseteq ToSet(f) \cup ToSet(calls'[k].todo)
    BY <1>5, <1>6, <1>7, <1>9, <1>10 DEF PendingIs
  <2> QED
    BY <2>1, <2>2, <1>7 DEF PendingIs
<1>14. ExpandedIs(calls', f)
  <2> SUFFICES ASSUME Wide, NEW v \in ToSet(f), v # root, ~(Neighbours(v) \subseteq ToSet(f))
               PROVE  \E k \in 2..(n + 1) : v = calls'[k].of
    BY <1>7 DEF ExpandedIs
  <2>1. CASE v = Met
    <3>1. n + 1 \in 2..(n + 1)
      BY <1>1
    <3> QED
      BY <2>1, <3>1, <1>5, <1>7
  <2>2. CASE v \in ToSet(found)
    <3>1. PICK k \in 2..n : v = calls[k].of
      BY <2>2, <1>1, <1>4, <1>6 DEF ExpandedIs
    <3>2. k \in 2..(n + 1)
      BY <1>1
    <3> QED
      BY <3>1, <3>2, <1>6, <1>7, <1>10
  <2> QED
    BY <2>1, <2>2, <1>4
<1> QED
  BY <1>2, <1>4, <1>11, <1>12, <1>13, <1>14 DEF SearchIs

LEMMA ReturnKeepsSearch ==
  ASSUME TypeOK, SearchInv, Return
  PROVE  SearchIs(calls', found')
<1>1. PICK n \in Nat \ {0} : n = Len(calls)
  BY DEF Return, TypeOK
<1>2. calls \in Seq(Calls) /\ calls # << >> /\ found' = found /\ calls' = SubSeq(calls, 1, n - 1)
  BY <1>1 DEF Return, Front, TypeOK
<1>3. Len(calls') = n - 1 /\ (\A k \in 1..(n - 1) : calls'[k] = calls[k]) /\ (calls' = << >> <=> n = 1)
  <2>1. n - 1 \in Nat /\ n - 1 <= Len(calls)
    BY <1>1
  <2>2. Len(calls') = n - 1 /\ \A k \in 1..(n - 1) : calls'[k] = calls[k]
    BY <2>1, <1>2
  <2>3. calls' = << >> <=> Len(calls') = 0
    BY <2>1, <1>2
  <2> QED
    BY <2>1, <2>2, <2>3, <1>1
<1>4. Searching /\ SearchIs(calls, found)
  BY <1>2 DEF SearchInv, Ready, Searching
<1>5. ToSet(calls[n].todo) = {}
  BY <1>1, <1>2 DEF Return, Innermost, Last, ToSet
<1>6. /\ \A k \in 1..(n - 1) : k \in 1..n
      /\ \A k \in 2..(n - 1) : k \in 2..n /\ k \in 1..(n - 1) /\ k - 1 \in 1..(n - 1)
      /\ n # 1 => 1 \in 1..(n - 1)
  BY <1>1
<1>7. StackIs(calls', found)
  <2>1. calls' # << >> => calls'[1].of = root /\ ToSet(calls'[1].todo) \subseteq Starts
    BY <1>2, <1>3, <1>4, <1>6 DEF SearchIs, StackIs
  <2>2. \A k \in 1..(n - 1) : ToSet(calls'[k].todo) \subseteq Neighbours(calls'[k].of)
    BY <1>1, <1>3, <1>4, <1>6 DEF SearchIs, StackIs
  <2>3. \A k \in 2..(n - 1) : /\ calls'[k].of \in ToSet(found) \ {root}
                              /\ calls'[k].of \in Neighbours(calls'[k - 1].of)
    BY <1>1, <1>3, <1>4, <1>6 DEF SearchIs, StackIs
  <2>4. \A j, k \in 1..(n - 1) : calls'[j].of = calls'[k].of => j = k
    BY <1>1, <1>3, <1>4, <1>6 DEF SearchIs, StackIs
  <2> QED
    BY <2>1, <2>2, <2>3, <2>4, <1>3 DEF StackIs
<1>8. DepthIs(calls')
  BY <1>1, <1>3, <1>4, <1>6 DEF SearchIs, DepthIs
<1>9. PendingIs(calls', found)
  <2>1. Starts \subseteq ToSet(found) \cup ToSet(calls[1].todo)
    BY <1>2, <1>4 DEF SearchIs, PendingIs
  <2>2. Starts \subseteq ToSet(found) \cup (IF calls' = << >> THEN {} ELSE ToSet(calls'[1].todo))
    BY <2>1, <1>3, <1>5, <1>6
  <2>3. \A k \in 2..(n - 1) : Neighbours(calls'[k].of) \subseteq ToSet(found) \cup ToSet(calls'[k].todo)
    BY <1>1, <1>3, <1>4, <1>6 DEF SearchIs, PendingIs
  <2> QED
    BY <2>2, <2>3, <1>3 DEF PendingIs
<1>10. ExpandedIs(calls', found)
  <2> SUFFICES ASSUME Wide, NEW v \in ToSet(found), v # root, ~(Neighbours(v) \subseteq ToSet(found))
               PROVE  \E k \in 2..(n - 1) : v = calls'[k].of
    BY <1>3 DEF ExpandedIs
  <2>1. PICK k \in 2..n : v = calls[k].of
    <3>1. ExpandedIs(calls, found)
      BY <1>4 DEF SearchIs
    <3> QED
      BY <3>1, <1>1 DEF ExpandedIs
  <2>2. k # n
    <3>1. Neighbours(calls[k].of) \subseteq ToSet(found) \cup ToSet(calls[k].todo)
      <4>1. PendingIs(calls, found) /\ k \in 2..Len(calls)
        BY <2>1, <1>1, <1>4 DEF SearchIs
      <4> QED
        BY <4>1 DEF PendingIs
    <3> QED
      BY <3>1, <2>1, <1>5
  <2>3. k \in 2..(n - 1)
    BY <2>2, <1>1
  <2> QED
    BY <2>1, <2>3, <1>3, <1>6
<1> QED
  BY <1>2, <1>4, <1>7, <1>8, <1>9, <1>10 DEF SearchIs

(***************************************************************************)
(* A search begins with one call that has everything to look at.           *)
(***************************************************************************)
LEMMA SearchStarts ==
  ASSUME Len(calls') = 1, calls' # << >>, found' = << >>, calls'[1].of = root',
         ToSet(calls'[1].todo) = Starts', Starts' \subseteq Neighbours(root)',
         IF phase' = "deep" THEN calls'[1].left = Unlimited
         ELSE 1 <= Depth' /\ calls'[1].left = Depth' - 1
  PROVE  SearchIs(calls, found)'
<1>1. 1..Len(calls') = {1} /\ 2..Len(calls') = {} /\ ToSet(found') = {} /\ 1..Len(found') = {}
      /\ DOMAIN found' = {}
  <2>1. 1..1 = {1} /\ 2..1 = {} /\ 1..0 = {} /\ Len(found') = 0 /\ DOMAIN found' = {}
    OBVIOUS
  <2> QED
    BY <2>1 DEF ToSet
<1>2. StackIs(calls, found)'
  <2>1. ToSet(calls'[1].todo) \subseteq ToSet(adjacent'[calls'[1].of])
    BY DEF Neighbours
  <2> QED
    BY <1>1, <2>1 DEF StackIs, Neighbours
<1>3. DepthIs(calls)'
  BY <1>1 DEF DepthIs
<1>4. FoundIs(found)'
  BY <1>1 DEF FoundIs, IsInjective
<1>5. PendingIs(calls, found)'
  BY <1>1 DEF PendingIs
<1>6. ExpandedIs(calls, found)'
  BY <1>1 DEF ExpandedIs
<1> QED
  BY <1>2, <1>3, <1>4, <1>5, <1>6 DEF SearchIs

LEMMA ChildrenStartSearch ==
  ASSUME TypeOK, SearchInv, NEW r \in Id, NEW n \in Limits, AskChildren(r, n)
  PROVE  SearchInv'
<1>1. /\ phase' = "children" /\ root' = r /\ limit' = n /\ n \in Nat /\ found' = << >>
      /\ adjacent' = adjacent /\ Vertices' = Vertices
  BY GraphAssumption DEF AskChildren, graph, Vertices
<1>2. Ready'
  BY <1>1 DEF AskChildren, Ready, HasVertex
<1>3. ASSUME HasVertex(r) PROVE SearchIs(calls, found)'
  <2> DEFINE call == Call(r, adjacent[r], IF n = 0 THEN 0 ELSE n - 1)
  <2>1. calls' = <<call>> /\ call.of = r /\ call.todo = adjacent[r] /\ call.left = IF n = 0 THEN 0 ELSE n - 1
    BY <1>3 DEF AskChildren, Call
  <2> HIDE DEF call
  <2>2. Len(calls') = 1 /\ calls'[1] = call
    BY <2>1
  <2>3. Starts' = ToSet(adjacent[r]) /\ Neighbours(root)' = ToSet(adjacent[r])
    BY <1>1 DEF Starts, Neighbours
  <2>4. 1 <= Depth' /\ call.left = Depth' - 1
    BY <1>1, <2>1 DEF Depth
  <2>5. calls' # << >>
    BY <2>1
  <2>6. /\ Len(calls') = 1 /\ found' = << >>
        /\ calls'[1].of = root' /\ ToSet(calls'[1].todo) = Starts' /\ Starts' \subseteq Neighbours(root)'
        /\ IF phase' = "deep" THEN calls'[1].left = Unlimited
           ELSE 1 <= Depth' /\ calls'[1].left = Depth' - 1
    BY <1>1, <2>1, <2>2, <2>3, <2>4
  <2> QED
    BY <2>5, <2>6, SearchStarts
<1> QED
  BY <1>1, <1>2, <1>3 DEF SearchInv, Searching, HasVertex

LEMMA PairStartsSearch ==
  ASSUME TypeOK, SearchInv, NextPair
  PROVE  SearchInv'
<1>1. /\ phase' = "deep" /\ root' = ids[row] /\ ids' = ids /\ row' = row /\ column' = column + 1
      /\ adjacent' = adjacent /\ Vertices' = Vertices /\ found' = << >> /\ row <= Len(ids)
      /\ column <= Len(adjacent[ids[row]]) /\ column \in Nat \ {0}
  BY DEF NextPair, graph, Vertices, TypeOK
<1>2. ids[row] \in Vertices /\ adjacent[ids[row]] \in Seq(Vertices)
      /\ adjacent[ids[row]][column] \in Neighbours(ids[row])
  <2>1. ids[row] \in Vertices
    BY <1>1, RowsAreVertices
  <2>2. adjacent[ids[row]] \in Seq(Vertices)
    BY <2>1, NeighboursAreVertices
  <2>3. column \in 1..Len(adjacent[ids[row]])
    BY <1>1, <2>2
  <2> QED
    BY <2>1, <2>2, <2>3, NeighboursAreVertices
<1>3. column' - 1 = column /\ column' - 1 \in 1..Len(adjacent'[root'])
  BY <1>1, <1>2
<1>4. Ready'
  BY <1>1, <1>2, <1>3 DEF Ready, HasVertex, Vertices
<1> DEFINE call == Call(ids[row], <<adjacent[ids[row]][column]>>, Unlimited)
<1>5. calls' = <<call>> /\ call.of = ids[row] /\ call.todo = <<adjacent[ids[row]][column]>> /\ call.left = Unlimited
  BY DEF NextPair, Call
<1> HIDE DEF call
<1>6. Len(calls') = 1 /\ calls'[1] = call
  BY <1>5
<1>7. Starts' = {adjacent[ids[row]][column]} /\ Neighbours(root)' = Neighbours(ids[row])
  BY <1>1, <1>3 DEF Starts, Partner, Neighbours
<1>8. ToSet(<<adjacent[ids[row]][column]>>) = {adjacent[ids[row]][column]}
  BY DEF ToSet
<1>9. calls' # << >>
  BY <1>5
<1>10. /\ Len(calls') = 1 /\ found' = << >>
       /\ calls'[1].of = root' /\ ToSet(calls'[1].todo) = Starts' /\ Starts' \subseteq Neighbours(root)'
       /\ IF phase' = "deep" THEN calls'[1].left = Unlimited
          ELSE 1 <= Depth' /\ calls'[1].left = Depth' - 1
  BY <1>1, <1>2, <1>5, <1>6, <1>7, <1>8
<1>11. SearchIs(calls, found)'
  BY <1>9, <1>10, SearchStarts
<1> QED
  BY <1>4, <1>11 DEF SearchInv

(***************************************************************************)
(* What is said of a search depends on nothing that changes during it but  *)
(* the calls and what has been found.                                      *)
(***************************************************************************)
LEMMA SearchFrame ==
  ASSUME UNCHANGED <<ids, adjacent, phase, root, limit, row, column>>, SearchIs(calls', found')
  PROVE  SearchIs(calls, found)'
<1>1. /\ Vertices' = Vertices /\ Starts' = Starts /\ Depth' = Depth /\ Wide' = Wide
  BY DEF Vertices, Starts, Partner, Depth, Wide, Neighbours
<1>2. StackIs(calls, found)'
  BY <1>1 DEF SearchIs, StackIs, Neighbours
<1>3. DepthIs(calls)'
  BY <1>1 DEF SearchIs, DepthIs
<1>4. FoundIs(found)'
  <2>1. \A r, n : Within(r, n)' = Within(r, n)
    BY <1>1 DEF Within, IsWalk, Edge, HasVertex
  <2>2. \A S : Closed(S)' = Closed(S)
    BY DEF Closed, Neighbours
  <2> QED
    BY <1>1, <2>1, <2>2 DEF SearchIs, FoundIs, HasParent, Neighbours
<1>5. PendingIs(calls, found)'
  BY <1>1 DEF SearchIs, PendingIs, Neighbours
<1>6. ExpandedIs(calls, found)'
  BY <1>1 DEF SearchIs, ExpandedIs, Neighbours
<1> QED
  BY <1>2, <1>3, <1>4, <1>5, <1>6 DEF SearchIs

LEMMA SearchStepKeeps ==
  ASSUME TypeOK, SearchInv, SkipVisited \/ VisitLeaf \/ VisitInner \/ Return
  PROVE  SearchInv'
<1>1. /\ UNCHANGED <<ids, adjacent, phase, root, limit, row, column>>
      /\ phase \in {"children", "deep"} /\ calls # << >>
  BY DEF SkipVisited, VisitLeaf, VisitInner, Return, Meeting, graph, loop
<1>2. SearchIs(calls', found')
  BY SkipKeepsSearch, LeafKeepsSearch, InnerKeepsSearch, ReturnKeepsSearch
<1>3. Ready'
  BY <1>1 DEF SearchInv, Ready, HasVertex
<1> QED
  BY <1>1, <1>2, <1>3, SearchFrame DEF SearchInv

LEMMA QuietKeepsSearch ==
  ASSUME TypeOK, SearchInv,
         \/ \E v \in Id : AddVertex(v)
         \/ \E from, to \in Id : AddEdge(from, to)
         \/ TakeChildren \/ AskCycles \/ NextRoot \/ NoCycleHere \/ CycleHere
         \/ DropDeadEnd \/ BacktrackEnds \/ Filter \/ KeepCycle \/ TakeCycles
  PROVE  SearchInv'
<1>1. CASE \/ \E v \in Id : AddVertex(v)
           \/ \E from, to \in Id : AddEdge(from, to)
           \/ TakeChildren \/ AskCycles \/ NextRoot \/ NoCycleHere \/ KeepCycle \/ TakeCycles
  <2>1. phase' \in {"idle", "pairs"} /\ calls' = << >>
    BY <1>1 DEF AddVertex, AddEdge, TakeChildren, AskCycles, NextRoot, NoCycleHere, KeepCycle,
                TakeCycles, CyclesAnswered, EndSearch, SearchInv, Ready, search
  <2> QED
    BY <2>1 DEF SearchInv, Ready, Searching
<1>2. CASE CycleHere \/ DropDeadEnd \/ BacktrackEnds \/ Filter
  <2>1. /\ phase \in {"deep", "backtrack", "filter"} /\ phase' \in {"backtrack", "filter"}
        /\ calls = << >> /\ UNCHANGED <<ids, adjacent, root, calls, row, column>>
    BY <1>2 DEF CycleHere, DropDeadEnd, BacktrackEnds, Filter, SearchInv, Ready, graph, search, loop
  <2> QED
    BY <2>1 DEF SearchInv, Ready, Searching
<1> QED
  BY <1>1, <1>2

THEOREM SearchInvariant == Spec => [](TypeOK /\ SearchInv)
<1>1. Init => TypeOK /\ SearchInv
  BY InitTypes DEF Init, SearchInv, Ready, Searching
<1>2. TypeOK /\ SearchInv /\ [Next]_vars => TypeOK' /\ SearchInv'
  <2> SUFFICES ASSUME TypeOK, SearchInv, [Next]_vars PROVE SearchInv'
    BY StepKeepsTypes
  <2>1. CASE SkipVisited \/ VisitLeaf \/ VisitInner \/ Return
    BY <2>1, SearchStepKeeps
  <2>2. CASE \E r \in Id, n \in Limits : AskChildren(r, n)
    BY <2>2, ChildrenStartSearch
  <2>3. CASE NextPair
    BY <2>3, PairStartsSearch
  <2>4. CASE UNCHANGED vars
    <3>1. UNCHANGED <<ids, adjacent, phase, root, limit, row, column>> /\ calls' = calls /\ found' = found
      BY <2>4 DEF vars, graph, search, loop
    <3>2. Ready'
      BY <3>1 DEF SearchInv, Ready, HasVertex
    <3>3. CASE Searching
      <4>1. SearchIs(calls', found')
        BY <3>1, <3>3 DEF SearchInv
      <4> QED
        BY <3>1, <3>2, <4>1, SearchFrame DEF SearchInv
    <3>4. CASE ~Searching
      <4>1. ~Searching'
        BY <3>1, <3>4 DEF Searching, HasVertex
      <4> QED
        BY <3>2, <4>1 DEF SearchInv
    <3> QED
      BY <3>3, <3>4
  <2> QED
    BY <2>1, <2>2, <2>3, <2>4, QuietKeepsSearch DEF Next
<1> QED
  BY <1>1, <1>2, PTL DEF Spec

-----------------------------------------------------------------------------
LEMMA OneEdgeAway ==
  ASSUME TypeOK, NEW r \in Vertices, NEW v \in Within(r, 1)
  PROVE  v \in Neighbours(r)
<1>1. PICK k \in 1..1 : \E w \in [1..k -> Vertices] : IsWalk(r, w) /\ w[k] = v
  BY DEF Within
<1>2. k = 1
  OBVIOUS
<1>3. PICK w \in [1..1 -> Vertices] : IsWalk(r, w) /\ w[1] = v
  BY <1>1, <1>2
<1>4. Edge(r, v)
  BY <1>3 DEF IsWalk
<1> QED
  BY <1>4, EdgeIsNeighbour

(***************************************************************************)
(* When the stack of calls is empty and no limit has cut the search off,   *)
(* what has been found is everything reachable.                            *)
(***************************************************************************)
LEMMA FoundIsReachable ==
  ASSUME TypeOK, SearchInv, ChildrenAnswered, HasVertex(root), Wide
  PROVE  ToSet(found) = Reachable(root)
<1>1. SearchIs(<< >>, found) /\ Neighbours(root) \subseteq ToSet(found)
  BY DEF SearchInv, Searching, ChildrenAnswered, SearchIs, PendingIs, Starts
<1>2. ASSUME NEW v \in ToSet(found) PROVE Neighbours(v) \subseteq ToSet(found)
  BY <1>1 DEF SearchIs, ExpandedIs
<1>3. ToSet(found) \in SUBSET Vertices /\ Closed(ToSet(found))
  BY <1>1, <1>2 DEF SearchIs, FoundIs, Closed
<1>4. Reachable(root) \subseteq ToSet(found)
  BY <1>1, <1>3 DEF Reachable
<1>5. ToSet(found) \subseteq Reachable(root)
  BY <1>1 DEF SearchIs, FoundIs, Reachable
<1> QED
  BY <1>4, <1>5

(***************************************************************************)
(* For every graph, however cyclic, and every limit: get_deep_children     *)
(* lists no vertex twice, with a limit of 0 or 1 exactly what is adjacent, *)
(* with one no smaller than the graph exactly what is reachable, and never *)
(* a vertex that is further away than the limit.                           *)
(***************************************************************************)
THEOREM ChildrenAreInRange == Spec => []DeepChildrenInRange
<1>1. TypeOK /\ SearchInv => DeepChildrenInRange
  <2> SUFFICES ASSUME TypeOK, SearchInv, ChildrenAnswered, HasVertex(root)
               PROVE  /\ IsInjective(found)
                      /\ limit <= 1 => ToSet(found) = Neighbours(root)
                      /\ limit >= Cardinality(Vertices) => ToSet(found) = Reachable(root)
                      /\ limit >= 1 => \A v \in ToSet(found) : v \in Within(root, limit)
    BY DEF DeepChildrenInRange
  <2>1. /\ phase = "children" /\ limit \in Nat /\ IsInjective(found) /\ root \in Vertices
        /\ Neighbours(root) \subseteq ToSet(found) /\ ToSet(found) \subseteq Within(root, Depth)
    BY DEF SearchInv, Ready, Searching, ChildrenAnswered, SearchIs, PendingIs, FoundIs, Starts,
           HasVertex, Vertices
  <2>2. ASSUME limit <= 1 PROVE ToSet(found) = Neighbours(root)
    <3>1. Depth = 1
      BY <2>1, <2>2 DEF Depth
    <3> QED
      BY <3>1, <2>1, OneEdgeAway
  <2>3. limit >= Cardinality(Vertices) => ToSet(found) = Reachable(root)
    BY FoundIsReachable DEF Wide
  <2>4. limit >= 1 => Depth = limit
    BY <2>1 DEF Depth
  <2> QED
    BY <2>1, <2>2, <2>3, <2>4
<1> QED
  BY <1>1, SearchInvariant, PTL

-----------------------------------------------------------------------------
(***************************************************************************)
(* The backtracking.  The path starts with the root and the adjacent       *)
(* vertex, ends with the root and repeats no other vertex.  From position  *)
(* on it is a walk; before, each vertex has a predecessor that stands      *)
(* further in front, though not the root again.  So the predecessor of the *)
(* vertex at position is never dropped together with what stands between   *)
(* them, and the adjacent vertex is never dropped at all.                  *)
(***************************************************************************)
Ring(p) ==
    /\ Len(p) >= 3 /\ \A j \in 1..Len(p) : p[j] \in Vertices
    /\ p[1] = root /\ p[2] = Partner /\ p[Len(p)] = root
    /\ \A j, k \in 1..(Len(p) - 1) : p[j] = p[k] => j = k

Backtracking(p, n) ==
    /\ Ring(p) /\ n \in 1..Len(p)
    /\ \A j \in 3..n : \E k \in 2..(j - 1) : p[j] \in Neighbours(p[k])
    /\ \A j \in n..(Len(p) - 1) : p[j + 1] \in Neighbours(p[j])

Filtering(p, n, c) ==
    /\ Ring(p) /\ n \in 1..(Len(p) + 1)
    /\ \A j \in 1..(Len(p) - 1) : p[j + 1] \in Neighbours(p[j])
    /\ Len(c) = IF n <= Len(p) THEN n - 1 ELSE Len(p) - 1
    /\ \A j \in 1..Len(c) : c[j] = p[j]

CutInv ==
    /\ phase \notin {"backtrack", "filter"} => cycle = << >>
    /\ phase = "backtrack" => Backtracking(path, position) /\ cycle = << >>
    /\ phase = "filter" => Filtering(path, position, cycle)

-----------------------------------------------------------------------------
LEMMA PairOfVertices ==
  ASSUME TypeOK, SearchInv, phase \in {"deep", "backtrack", "filter"}
  PROVE  /\ HasVertex(root) /\ root \in Vertices /\ Partner \in Neighbours(root)
         /\ Partner \in Vertices /\ Partner # root
<1>1. row <= Len(ids) /\ root = ids[row] /\ column - 1 \in 1..Len(adjacent[root])
  BY DEF SearchInv, Ready
<1>2. root \in Vertices
  BY <1>1, RowsAreVertices
<1>3. Partner \in Neighbours(root)
  BY <1>1, <1>2, NeighboursAreVertices DEF Partner
<1> QED
  BY <1>2, <1>3, NeighboursAreVertices DEF HasVertex, Vertices

LEMMA PathIsRing ==
  ASSUME TypeOK, SearchInv, CycleHere
  PROVE  Backtracking(path', position')
<1>1. PICK m \in 1..Len(found) : /\ found[m] = root /\ Len(path') = m + 1 /\ path'[1] = root
                                 /\ \A k \in 1..m : path'[k + 1] = found[k]
  BY PathToRoot
<1>2. /\ root \in Vertices /\ Partner # root /\ found \in Seq(Id) /\ Len(found) \in Nat
      /\ FoundIs(found) /\ Starts = {Partner} /\ position' = Len(path')
  BY PairOfVertices DEF CycleHere, SearchInv, Searching, SearchIs, Starts, TypeOK
<1>3. /\ \A j, k \in 1..Len(found) : found[j] = found[k] => j = k
      /\ \A k \in 1..Len(found) : found[k] \in Vertices
      /\ \A k \in 1..Len(found) : \/ found[k] = Partner
                                  \/ \E i \in 1..(k - 1) : found[k] \in Neighbours(found[i])
  <2>1. DOMAIN found = 1..Len(found)
    BY <1>2
  <2> QED
    BY <2>1, <1>2 DEF FoundIs, HasParent, IsInjective, ToSet
<1>4. found[1] = Partner
  <2>1. 1 \in 1..Len(found) /\ 1..(1 - 1) = {}
    BY <1>2
  <2> QED
    BY <2>1, <1>3
<1>5. m >= 2 /\ m \in Nat /\ m <= Len(found)
  BY <1>1, <1>2, <1>4
<1>6. Ring(path')
  <2>1. Len(path') >= 3 /\ path'[1] = root
    BY <1>1, <1>5
  <2>2. path'[2] = Partner
    <3>1. 1 \in 1..m /\ 1 + 1 = 2
      BY <1>5
    <3>2. path'[1 + 1] = found[1]
      BY <3>1, <1>1
    <3> QED
      BY <3>1, <3>2, <1>4
  <2>3. path'[Len(path')] = root
    BY <1>1, <1>5
  <2>4. \A j \in 2..(m + 1) : j - 1 \in 1..m /\ j - 1 \in 1..Len(found) /\ path'[j] = found[j - 1]
    <3> SUFFICES ASSUME NEW j \in 2..(m + 1)
                 PROVE  j - 1 \in 1..m /\ j - 1 \in 1..Len(found) /\ path'[j] = found[j - 1]
      OBVIOUS
    <3>1. j - 1 \in 1..m /\ j - 1 \in 1..Len(found) /\ (j - 1) + 1 = j
      BY <1>5
    <3>2. path'[(j - 1) + 1] = found[j - 1]
      BY <3>1, <1>1
    <3> QED
      BY <3>1, <3>2
  <2>5. ASSUME NEW j \in 1..(m + 1) PROVE path'[j] \in Vertices
    <3>1. CASE j = 1
      BY <3>1, <2>1, <1>2
    <3>2. CASE j # 1
      <4>1. j \in 2..(m + 1)
        BY <3>2, <1>5
      <4> QED
        BY <4>1, <2>4, <1>3
    <3> QED
      BY <3>1, <3>2
  <2>6. ASSUME NEW j \in 2..m PROVE path'[j] # root
    <3>1. j \in 2..(m + 1) /\ j - 1 # m
      BY <1>5
    <3>2. path'[j] = found[j - 1] /\ j - 1 \in 1..Len(found)
      BY <3>1, <2>4
    <3> QED
      BY <3>1, <3>2, <1>1, <1>3
  <2>7. ASSUME NEW j \in 1..m, NEW k \in 1..m, path'[j] = path'[k] PROVE j = k
    <3>1. CASE j = 1 \/ k = 1
      <4>1. (j = 1 \/ j \in 2..m) /\ (k = 1 \/ k \in 2..m)
        BY <1>5
      <4> QED
        BY <4>1, <3>1, <2>1, <2>6, <2>7
    <3>2. CASE j # 1 /\ k # 1
      <4>1. j \in 2..(m + 1) /\ k \in 2..(m + 1)
        BY <3>2, <1>5
      <4>2. found[j - 1] = found[k - 1] /\ j - 1 \in 1..Len(found) /\ k - 1 \in 1..Len(found)
        BY <4>1, <2>4, <2>7
      <4>3. j - 1 = k - 1
        BY <4>2, <1>3
      <4> QED
        BY <4>3
    <3> QED
      BY <3>1, <3>2
  <2>8. Len(path') - 1 = m /\ Len(path') = m + 1
    BY <1>1, <1>5
  <2> QED
    BY <2>1, <2>2, <2>3, <2>5, <2>7, <2>8, <1>1 DEF Ring
<1>7. ASSUME NEW j \in 3..(m + 1)
      PROVE  \E k \in 2..(j - 1) : path'[j] \in Neighbours(path'[k])
  <2>1. j - 1 \in 1..m /\ j - 1 \in 1..Len(found) /\ j - 1 # 1 /\ (j - 1) + 1 = j
    BY <1>5
  <2>2. path'[(j - 1) + 1] = found[j - 1]
    BY <2>1, <1>1
  <2>3. 1 \in 1..Len(found)
    BY <1>5
  <2>4. found[j - 1] # Partner
    BY <2>1, <2>3, <1>3, <1>4
  <2>5. PICK i \in 1..((j - 1) - 1) : found[j - 1] \in Neighbours(found[i])
    BY <2>1, <2>4, <1>3
  <2>6. i \in 1..m /\ i + 1 \in 2..(j - 1)
    BY <1>5
  <2>7. path'[i + 1] = found[i]
    BY <2>6, <1>1
  <2> QED
    BY <2>1, <2>2, <2>5, <2>6, <2>7
<1>8. /\ position' \in 1..Len(path') /\ position' = m + 1
      /\ \A j \in position'..(Len(path') - 1) : FALSE
  BY <1>1, <1>2, <1>5
<1> QED
  BY <1>6, <1>7, <1>8 DEF Backtracking

LEMMA DropKeepsRing ==
  ASSUME TypeOK, SearchInv, CutInv, DropDeadEnd
  PROVE  Backtracking(path', position')
<1>1. PICK n \in Nat : n = position
  BY DEF TypeOK
<1>2. PICK m \in Nat : m = Len(path)
  BY DEF TypeOK
<1>3. /\ Ring(path) /\ n \in 1..m /\ n > 1 /\ position' = n - 1 /\ m >= 3 /\ path \in Seq(Id)
      /\ \A j \in 3..n : \E k \in 2..(j - 1) : path[j] \in Neighbours(path[k])
      /\ \A j \in n..(m - 1) : path[j + 1] \in Neighbours(path[j])
      /\ path' = IF Edge(path[n - 1], path[n]) THEN path ELSE RemoveAt(path, n - 1)
      /\ phase = "backtrack"
  BY <1>1, <1>2 DEF DropDeadEnd, CutInv, Backtracking, Ring, TypeOK
<1>4. \A j \in 1..m : path[j] \in Vertices
  BY <1>2, <1>3 DEF Ring
<1>5. CASE Edge(path[n - 1], path[n])
  <2>1. n - 1 \in 1..m /\ path' = path /\ (n - 1) + 1 = n
    BY <1>3, <1>5
  <2>2. path[n] \in Neighbours(path[n - 1])
    BY <2>1, <1>4, <1>5, EdgeIsNeighbour
  <2>3. \A j \in (n - 1)..(m - 1) : j = n - 1 \/ j \in n..(m - 1)
    BY <1>3
  <2>4. \A j \in (n - 1)..(m - 1) : path[j + 1] \in Neighbours(path[j])
    BY <2>1, <2>2, <2>3, <1>3
  <2>5. \A j \in 3..(n - 1) : j \in 3..n
    BY <1>3
  <2> QED
    BY <2>1, <2>4, <2>5, <1>2, <1>3 DEF Backtracking
<1>6. CASE ~Edge(path[n - 1], path[n])
  <2>1. n - 1 \in 1..m /\ path' = RemoveAt(path, n - 1)
    BY <1>3, <1>6
  <2>2. path[n] \notin Neighbours(path[n - 1])
    BY <2>1, <1>4, <1>6, EdgeIsNeighbour
  <2>3. n >= 4
    <3>1. path[1] = root /\ path[2] = Partner /\ Partner \in Neighbours(root)
      BY <1>3, PairOfVertices DEF Ring
    <3>2. n # 2
      BY <3>1, <2>2
    <3>3. n # 3
      <4>1. n = 3 => 3 \in 3..n
        OBVIOUS
      <4>2. n = 3 => path[3] \in Neighbours(path[2])
        BY <4>1, <1>3
      <4> QED
        BY <4>2, <2>2
    <3> QED
      BY <3>2, <3>3, <1>3
  <2>4. /\ Len(path') = m - 1
        /\ \A k \in 1..(m - 1) : path'[k] = IF k < n - 1 THEN path[k] ELSE path[k + 1]
    <3>1. path \in Seq(Id) /\ n - 1 \in 1..Len(path)
      BY <2>1, <1>2, <1>3
    <3> QED
      BY <3>1, <2>1, <1>2, DroppedPath
  <2>5. /\ \A k \in 1..(n - 2) : path'[k] = path[k] /\ k \in 1..m
        /\ \A k \in (n - 1)..(m - 1) : path'[k] = path[k + 1] /\ k + 1 \in 1..m
    <3>1. \A k \in 1..(n - 2) : k \in 1..(m - 1) /\ k < n - 1 /\ k \in 1..m
      BY <1>3
    <3>2. \A k \in (n - 1)..(m - 1) : k \in 1..(m - 1) /\ ~(k < n - 1) /\ k + 1 \in 1..m
      BY <2>3, <1>3
    <3> QED
      BY <3>1, <3>2, <2>4
  <2>6. Ring(path')
    <3>1. Len(path') >= 3 /\ Len(path') = m - 1
      BY <2>3, <2>4, <1>3
    <3>2. path'[1] = root /\ path'[2] = Partner
      <4>1. 1 \in 1..(n - 2) /\ 2 \in 1..(n - 2)
        BY <2>3
      <4> QED
        BY <4>1, <2>5, <1>3 DEF Ring
    <3>3. path'[m - 1] = root
      <4>1. m - 1 \in (n - 1)..(m - 1) /\ (m - 1) + 1 = m
        BY <1>3
      <4> QED
        BY <4>1, <2>5, <1>2, <1>3 DEF Ring
    <3>4. \A k \in 1..(m - 1) : k \in 1..(n - 2) \/ k \in (n - 1)..(m - 1)
      BY <2>3, <1>3
    <3>5. \A k \in 1..(m - 1) : path'[k] \in Vertices
      BY <3>4, <2>5, <1>4
    <3>6. ASSUME NEW j \in 1..(m - 2), NEW k \in 1..(m - 2), path'[j] = path'[k] PROVE j = k
      <4> DEFINE old(a) == IF a < n - 1 THEN a ELSE a + 1
      <4>1. j \in 1..(m - 1) /\ k \in 1..(m - 1) /\ old(j) \in 1..(m - 1) /\ old(k) \in 1..(m - 1)
        BY <1>3
      <4>2. path'[j] = path[old(j)] /\ path'[k] = path[old(k)]
        BY <4>1, <2>4
      <4>3. old(j) = old(k)
        BY <4>1, <4>2, <3>6, <1>2, <1>3 DEF Ring
      <4> QED
        BY <4>3, <1>3
    <3>7. Len(path') - 1 = m - 2
      BY <3>1
    <3> QED
      BY <3>1, <3>2, <3>3, <3>5, <3>6, <3>7 DEF Ring
  <2>7. ASSUME NEW j \in 3..(n - 1)
        PROVE  \E k \in 2..(j - 1) : path'[j] \in Neighbours(path'[k])
    <3>1. CASE j = n - 1
      <4>1. j \in (n - 1)..(m - 1) /\ j + 1 = n /\ n \in 3..n
        BY <3>1, <2>3, <1>3
      <4>2. path'[j] = path[n]
        BY <4>1, <2>5
      <4>3. PICK k \in 2..(n - 1) : path[n] \in Neighbours(path[k])
        BY <4>1, <1>3
      <4>4. k # n - 1
        BY <4>3, <2>2
      <4>5. k \in 2..(j - 1) /\ k \in 1..(n - 2)
        BY <3>1, <4>4, <1>3
      <4> QED
        BY <4>2, <4>3, <4>5, <2>5
    <3>2. CASE j # n - 1
      <4>1. j \in 1..(n - 2) /\ j \in 3..n
        BY <3>2, <1>3
      <4>2. PICK k \in 2..(j - 1) : path[j] \in Neighbours(path[k])
        BY <4>1, <1>3
      <4>3. k \in 1..(n - 2)
        BY <4>1
      <4> QED
        BY <4>1, <4>2, <4>3, <2>5
    <3> QED
      BY <3>1, <3>2
  <2>8. ASSUME NEW j \in (n - 1)..((m - 1) - 1)
        PROVE  path'[j + 1] \in Neighbours(path'[j])
    <3>1. j \in (n - 1)..(m - 1) /\ j + 1 \in (n - 1)..(m - 1) /\ j + 1 \in n..(m - 1)
      BY <1>3
    <3>2. path'[j] = path[j + 1] /\ path'[j + 1] = path[(j + 1) + 1]
      BY <3>1, <2>5
    <3> QED
      BY <3>1, <3>2, <1>3
  <2>9. n - 1 \in 1..(m - 1)
    BY <2>3, <1>3
  <2> QED
    BY <2>4, <2>6, <2>7, <2>8, <2>9, <1>3 DEF Backtracking
<1> QED
  BY <1>5, <1>6

LEMMA FilterStarts ==
  ASSUME TypeOK, CutInv, BacktrackEnds
  PROVE  Filtering(path', position', cycle')
<1>1. PICK m \in Nat : m = Len(path)
  BY DEF TypeOK
<1>2. /\ path' = path /\ position' = 1 /\ cycle' = << >> /\ position = 1
      /\ Ring(path) /\ m >= 3
      /\ \A j \in 1..(m - 1) : path[j + 1] \in Neighbours(path[j])
  <2>1. /\ Backtracking(path, position) /\ cycle = << >> /\ position <= 1
        /\ path' = path /\ position' = 1 /\ cycle' = cycle
    BY DEF BacktrackEnds, CutInv
  <2>2. position = 1
    BY <2>1 DEF Backtracking
  <2> QED
    BY <2>1, <2>2, <1>1 DEF Backtracking, Ring
<1> QED
  BY <1>1, <1>2 DEF Filtering

LEMMA FilterKeeps ==
  ASSUME TypeOK, CutInv, Filter
  PROVE  Filtering(path', position', cycle')
<1>1. PICK m \in Nat : m = Len(path)
  BY DEF TypeOK
<1>2. PICK n \in Nat : n = position
  BY DEF TypeOK
<1>3. /\ Ring(path) /\ m >= 3 /\ n \in 1..m /\ cycle \in Seq(Id) /\ path \in Seq(Id)
      /\ \A j \in 1..(m - 1) : path[j + 1] \in Neighbours(path[j])
      /\ Len(cycle) = n - 1 /\ \A j \in 1..(n - 1) : cycle[j] = path[j]
      /\ path' = path /\ position' = n + 1
      /\ cycle' = IF Contains(cycle, path[n]) THEN cycle ELSE Append(cycle, path[n])
  <2>1. Filtering(path, position, cycle) /\ position <= Len(path) /\ position' = position + 1
        /\ path' = path
        /\ cycle' = IF Contains(cycle, path[position]) THEN cycle ELSE Append(cycle, path[position])
    BY DEF Filter, CutInv
  <2> QED
    BY <2>1, <1>1, <1>2 DEF Filtering, Ring, TypeOK
<1>4. \A j, k \in 1..(m - 1) : path[j] = path[k] => j = k
  BY <1>1, <1>3 DEF Ring
<1>5. CASE n = m
  <2>1. 1 \in 1..(n - 1) /\ path[m] = path[1]
    BY <1>1, <1>3, <1>5 DEF Ring
  <2>2. Contains(cycle, path[n])
    BY <2>1, <1>3, <1>5 DEF Contains
  <2> QED
    BY <2>2, <1>1, <1>3, <1>5 DEF Filtering
<1>6. CASE n # m
  <2>1. n \in 1..(m - 1) /\ \A j \in 1..(n - 1) : j \in 1..(m - 1) /\ j # n
    BY <1>3, <1>6
  <2>2. ~Contains(cycle, path[n])
    BY <2>1, <1>3, <1>4 DEF Contains
  <2>3. path[n] \in Id
    BY <1>1, <1>3
  <2>4. /\ Len(cycle') = n
        /\ \A j \in 1..(n - 1) : cycle'[j] = path[j]
        /\ cycle'[n] = path[n]
    BY <2>2, <2>3, <1>3, AppendAdds
  <2>5. \A j \in 1..n : j = n \/ j \in 1..(n - 1)
    BY <1>3
  <2> QED
    BY <2>1, <2>4, <2>5, <1>1, <1>3 DEF Filtering
<1> QED
  BY <1>5, <1>6

(***************************************************************************)
(* What has passed the filter is a cycle through the pair.                 *)
(***************************************************************************)
LEMMA FilteredIsCycle ==
  ASSUME TypeOK, CutInv, KeepCycle
  PROVE  IsSimpleCycle(cycle) /\ {root, Partner} \subseteq ToSet(cycle)
<1>1. PICK m \in Nat : m = Len(path)
  BY DEF TypeOK
<1>2. /\ Ring(path) /\ m >= 3 /\ cycle \in Seq(Id)
      /\ \A j \in 1..(m - 1) : path[j + 1] \in Neighbours(path[j])
      /\ Len(cycle) = m - 1 /\ \A j \in 1..(m - 1) : cycle[j] = path[j]
  <2>1. Filtering(path, position, cycle) /\ position > Len(path)
    BY DEF KeepCycle, CutInv
  <2>2. ~(position <= Len(path))
    BY <2>1, <1>1 DEF TypeOK
  <2> QED
    BY <2>1, <2>2, <1>1 DEF Filtering, Ring, TypeOK
<1>3. /\ DOMAIN cycle = 1..(m - 1) /\ \A j \in 1..m : path[j] \in Vertices
      /\ path[1] = root /\ path[2] = Partner /\ path[m] = root
      /\ \A j, k \in 1..(m - 1) : path[j] = path[k] => j = k
  BY <1>1, <1>2 DEF Ring
<1>4. IsInjective(cycle) /\ Len(cycle) > 1
  BY <1>2, <1>3 DEF IsInjective
<1>5. ASSUME NEW k \in DOMAIN cycle
      PROVE  Edge(cycle[k], cycle[IF k = Len(cycle) THEN 1 ELSE k + 1])
  <2>1. k \in 1..(m - 1) /\ k \in 1..m /\ 1 \in 1..(m - 1) /\ cycle[k] = path[k]
    BY <1>2, <1>3
  <2>2. path[k + 1] \in Neighbours(cycle[k])
    BY <2>1, <1>2
  <2>3. cycle[IF k = Len(cycle) THEN 1 ELSE k + 1] = path[k + 1]
    <3>1. CASE k = m - 1
      BY <3>1, <2>1, <1>2, <1>3
    <3>2. CASE k # m - 1
      <4>1. k + 1 \in 1..(m - 1)
        BY <3>2, <2>1
      <4> QED
        BY <3>2, <4>1, <1>2
    <3> QED
      BY <3>1, <3>2
  <2> QED
    BY <2>1, <2>2, <2>3, <1>3, EdgeIsNeighbour
<1>6. 1 \in DOMAIN cycle /\ 2 \in DOMAIN cycle /\ cycle[1] = root /\ cycle[2] = Partner
  BY <1>2, <1>3
<1> QED
  BY <1>4, <1>5, <1>6 DEF IsSimpleCycle, ToSet

LEMMA CutStep ==
  ASSUME TypeOK, SearchInv, CutInv, [Next]_vars
  PROVE  CutInv'
<1>1. CASE CycleHere
  <2>1. Backtracking(path', position')
    BY <1>1, PathIsRing
  <2>2. phase' = "backtrack" /\ cycle' = << >>
    BY <1>1 DEF CycleHere, CutInv
  <2>3. UNCHANGED <<ids, adjacent, root, row, column>>
    BY <1>1 DEF CycleHere, graph, search, loop
  <2> QED
    BY <2>1, <2>2, <2>3 DEF CutInv, Backtracking, Ring, Partner, Neighbours, Vertices
<1>2. CASE DropDeadEnd
  <2>1. Backtracking(path', position')
    BY <1>2, DropKeepsRing
  <2>2. phase' = "backtrack" /\ cycle' = << >>
    BY <1>2 DEF DropDeadEnd, CutInv
  <2>3. UNCHANGED <<ids, adjacent, root, row, column>>
    BY <1>2 DEF DropDeadEnd, graph, search, loop
  <2> QED
    BY <2>1, <2>2, <2>3 DEF CutInv, Backtracking, Ring, Partner, Neighbours, Vertices
<1>3. CASE BacktrackEnds \/ Filter
  <2>1. Filtering(path', position', cycle')
    BY <1>3, FilterStarts, FilterKeeps
  <2>2. phase' = "filter" /\ UNCHANGED <<ids, adjacent, root, row, column>>
    BY <1>3 DEF BacktrackEnds, Filter, graph, search, loop
  <2> QED
    BY <2>1, <2>2 DEF CutInv, Filtering, Ring, Partner, Neighbours, Vertices
<1>4. CASE UNCHANGED vars
  <2>1. UNCHANGED <<ids, adjacent, phase, root, row, column, path, position, cycle>>
    BY <1>4 DEF vars, graph, search, loop, cut
  <2> QED
    BY <2>1 DEF CutInv, Backtracking, Filtering, Ring, Partner, Neighbours, Vertices
<1>5. CASE KeepCycle
  BY <1>5 DEF KeepCycle, CutInv
<1>6. CASE \/ \E v \in Id : AddVertex(v)
           \/ \E from, to \in Id : AddEdge(from, to)
           \/ SkipVisited \/ VisitLeaf \/ VisitInner \/ Return
           \/ \E r \in Id, n \in Limits : AskChildren(r, n)
           \/ TakeChildren \/ AskCycles \/ NextRoot \/ NextPair \/ NoCycleHere \/ TakeCycles
  <2>1. phase \notin {"backtrack", "filter"} /\ phase' \notin {"backtrack", "filter"} /\ cycle' = cycle
    BY <1>6 DEF AddVertex, AddEdge, SkipVisited, VisitLeaf, VisitInner, Meeting, Return, AskChildren,
                TakeChildren, ChildrenAnswered, AskCycles, NextRoot, NextPair, NoCycleHere,
                TakeCycles, CyclesAnswered, cut
  <2> QED
    BY <2>1 DEF CutInv
<1> QED
  BY <1>1, <1>2, <1>3, <1>4, <1>5, <1>6 DEF Next

-----------------------------------------------------------------------------
(***************************************************************************)
(* The answers.  Of the pairs whose search is over, each edge that lies on *)
(* a cycle is on one that has been kept.                                   *)
(***************************************************************************)
Covered(u, v) ==
    u \in Reachable(v) => \E k \in DOMAIN cycles : {u, v} \subseteq ToSet(cycles[k])
Passed(r, k) ==
    r < row \/ (r = row /\ k < IF phase = "pairs" THEN column ELSE column - 1)

PassedAreCovered ==
    \A r \in 1..Len(ids) : \A k \in 1..Len(adjacent[ids[r]]) :
        Passed(r, k) => Covered(ids[r], adjacent[ids[r]][k])

Fresh == phase \in {"idle", "children"} => row = 1 /\ column = 1 /\ cycles = << >>

AnswerInv == Fresh /\ CyclesAreCycles /\ CyclesDiffer /\ PassedAreCovered

-----------------------------------------------------------------------------
LEMMA NothingAnswered ==
  ASSUME row' = 1, column' = 1, cycles' = << >>, phase' \in {"idle", "children", "pairs"}
  PROVE  AnswerInv'
<1>1. Fresh'
  BY DEF Fresh
<1>2. DOMAIN cycles' = {}
  OBVIOUS
<1>3. CyclesAreCycles' /\ CyclesDiffer'
  BY <1>2 DEF CyclesAreCycles, CyclesDiffer
<1>4. ASSUME NEW r \in 1..Len(ids'), NEW k \in 1..Len(adjacent'[ids'[r]])
      PROVE  ~Passed(r, k)'
  <2>1. r \in Nat /\ k \in Nat /\ r >= 1 /\ k >= 1
    OBVIOUS
  <2> QED
    BY <2>1 DEF Passed
<1>5. PassedAreCovered'
  BY <1>4 DEF PassedAreCovered
<1> QED
  BY <1>1, <1>3, <1>5 DEF AnswerInv

(***************************************************************************)
(* While the kept cycles stay what they are, only what is newly passed     *)
(* matters.                                                                *)
(***************************************************************************)
LEMMA CyclesStay ==
  ASSUME AnswerInv, UNCHANGED <<ids, adjacent, cycles>>, phase' \notin {"idle", "children"},
         \A r \in 1..Len(ids) : \A k \in 1..Len(adjacent[ids[r]]) :
             Passed(r, k)' => Passed(r, k) \/ Covered(ids[r], adjacent[ids[r]][k])
  PROVE  AnswerInv'
<1>1. Fresh'
  BY DEF Fresh
<1>2. CyclesAreCycles' /\ CyclesDiffer'
  BY DEF AnswerInv, CyclesAreCycles, CyclesDiffer, IsSimpleCycle, Edge, HasVertex
<1>3. \A u, v : Covered(u, v)' <=> Covered(u, v)
  BY DEF Covered, Reachable, Vertices, Closed, Neighbours
<1>4. PassedAreCovered'
  BY <1>3 DEF AnswerInv, PassedAreCovered
<1> QED
  BY <1>1, <1>2, <1>4 DEF AnswerInv

LEMMA ColumnIsPassed ==
  ASSUME TypeOK, phase # "pairs", phase' = "pairs", UNCHANGED <<row, column>>,
         NEW r \in Nat, NEW k \in Nat, Passed(r, k)'
  PROVE  Passed(r, k) \/ (r = row /\ k = column - 1)
BY DEF Passed, TypeOK

(***************************************************************************)
(* A search that has not met the root has found everything its pair leads  *)
(* to, so the root cannot be reached.                                      *)
(***************************************************************************)
LEMMA RootIsOutOfReach ==
  ASSUME TypeOK, SearchInv, NoCycleHere
  PROVE  root \notin Reachable(Partner)
<1>1. /\ HasVertex(root) /\ Partner # root /\ phase = "deep" /\ calls = << >>
      /\ root \notin ToSet(found)
  BY PairOfVertices, ContainsIsMember DEF NoCycleHere, TypeOK
<1>2. SearchIs(<< >>, found) /\ Starts = {Partner} /\ Wide
  BY <1>1 DEF SearchInv, Searching, Starts, Wide
<1>3. Partner \in ToSet(found)
  BY <1>2 DEF SearchIs, PendingIs
<1>4. ASSUME NEW v \in ToSet(found) PROVE Neighbours(v) \subseteq ToSet(found)
  BY <1>1, <1>2 DEF SearchIs, ExpandedIs
<1>5. ToSet(found) \in SUBSET Vertices /\ Closed(ToSet(found))
  BY <1>2, <1>4 DEF SearchIs, FoundIs, Closed
<1> QED
  BY <1>1, <1>3, <1>4, <1>5 DEF Reachable

LEMMA NoCycleKeepsAnswers ==
  ASSUME TypeOK, SearchInv, AnswerInv, NoCycleHere
  PROVE  AnswerInv'
<1>1. /\ phase = "deep" /\ phase' = "pairs" /\ UNCHANGED <<ids, adjacent, cycles, row, column>>
  BY DEF NoCycleHere, graph, loop
<1>2. Covered(root, Partner) /\ root = ids[row]
  BY <1>1, RootIsOutOfReach DEF Covered, SearchInv, Ready
<1>3. ASSUME NEW r \in 1..Len(ids), NEW k \in 1..Len(adjacent[ids[r]]), Passed(r, k)'
      PROVE  Passed(r, k) \/ Covered(ids[r], adjacent[ids[r]][k])
  <2>1. r \in Nat /\ k \in Nat
    OBVIOUS
  <2>2. Passed(r, k) \/ (r = row /\ k = column - 1)
    BY <2>1, <1>1, <1>3, ColumnIsPassed
  <2> QED
    BY <2>2, <1>2 DEF Partner
<1> QED
  BY <1>1, <1>3, CyclesStay

LEMMA NextRootKeepsAnswers ==
  ASSUME TypeOK, AnswerInv, NextRoot
  PROVE  AnswerInv'
<1>1. /\ phase = "pairs" /\ phase' = "pairs" /\ UNCHANGED <<ids, adjacent, cycles>>
      /\ row' = row + 1 /\ column' = 1 /\ row <= Len(ids) /\ column > Len(adjacent[ids[row]])
  BY DEF NextRoot, graph
<1>2. row \in Nat /\ column \in Nat
  BY DEF TypeOK
<1>3. ids[row] \in Vertices /\ Len(adjacent[ids[row]]) \in Nat
  BY <1>1, RowsAreVertices, NeighboursAreVertices
<1>4. ASSUME NEW r \in 1..Len(ids), NEW k \in 1..Len(adjacent[ids[r]]), Passed(r, k)'
      PROVE  Passed(r, k)
  <2>1. r \in Nat /\ k \in Nat /\ k >= 1
    OBVIOUS
  <2>2. r < row + 1
    BY <2>1, <1>1, <1>4 DEF Passed
  <2>3. CASE r < row
    BY <2>3 DEF Passed
  <2>4. CASE r = row
    <3>1. k <= Len(adjacent[ids[row]])
      BY <2>4
    <3>2. k < column
      BY <3>1, <2>1, <1>1, <1>2, <1>3
    <3> QED
      BY <3>2, <2>4, <1>1 DEF Passed
  <2> QED
    BY <2>1, <2>2, <2>3, <2>4, <1>2
<1> QED
  BY <1>1, <1>4, CyclesStay

LEMMA WorkKeepsAnswers ==
  ASSUME TypeOK, AnswerInv,
         \/ phase = "deep" /\ (SkipVisited \/ VisitLeaf \/ VisitInner \/ Return)
         \/ NextPair \/ CycleHere \/ DropDeadEnd \/ BacktrackEnds \/ Filter
  PROVE  AnswerInv'
<1>1. /\ UNCHANGED <<ids, adjacent, cycles, row>>
      /\ \/ phase # "pairs" /\ phase' # "pairs" /\ column' = column
         \/ phase = "pairs" /\ phase' # "pairs" /\ column' = column + 1
      /\ phase' \notin {"idle", "children"}
  BY DEF SkipVisited, VisitLeaf, VisitInner, Return, Meeting, NextPair, CycleHere, DropDeadEnd,
         BacktrackEnds, Filter, graph, loop
<1>2. column \in Nat /\ row \in Nat /\ (column + 1) - 1 = column
  BY DEF TypeOK
<1>3. ASSUME NEW r, NEW k, Passed(r, k)' PROVE Passed(r, k)
  BY <1>1, <1>2, <1>3 DEF Passed
<1> QED
  BY <1>1, <1>3, CyclesStay

(***************************************************************************)
(* A path that is kept covers its pair; one that is dropped has the        *)
(* vertices of one that was kept before.                                   *)
(***************************************************************************)
LEMMA KeepCycleKeepsAnswers ==
  ASSUME TypeOK, SearchInv, CutInv, AnswerInv, KeepCycle
  PROVE  AnswerInv'
<1>1. /\ phase = "filter" /\ phase' = "pairs" /\ UNCHANGED <<ids, adjacent, row, column>>
      /\ cycles' = IF \E k \in DOMAIN cycles : SameVertices(cycles[k], cycle)
                   THEN cycles ELSE Append(cycles, cycle)
  BY DEF KeepCycle, graph
<1>2. /\ IsSimpleCycle(cycle) /\ {root, Partner} \subseteq ToSet(cycle)
      /\ root = ids[row] /\ cycle \in Seq(Id) /\ cycles \in Seq(Seq(Id))
  BY <1>1, FilteredIsCycle DEF SearchInv, Ready, TypeOK
<1>3. /\ cycles' \in Seq(Seq(Id)) /\ DOMAIN cycles \subseteq DOMAIN cycles'
      /\ \A k \in DOMAIN cycles : cycles'[k] = cycles[k]
      /\ \E k \in DOMAIN cycles' : ToSet(cycles'[k]) = ToSet(cycle)
      /\ \A k \in DOMAIN cycles' \ DOMAIN cycles :
            /\ cycles'[k] = cycle
            /\ \A j \in DOMAIN cycles' \ DOMAIN cycles : j = k
            /\ \A j \in DOMAIN cycles : ~SameVertices(cycles[j], cycle)
  <2>1. CASE \E k \in DOMAIN cycles : SameVertices(cycles[k], cycle)
    BY <2>1, <1>1, <1>2 DEF SameVertices
  <2>2. CASE ~\E k \in DOMAIN cycles : SameVertices(cycles[k], cycle)
    <3>1. PICK n \in Nat : n = Len(cycles)
      BY <1>2
    <3>2. /\ cycles' \in Seq(Seq(Id)) /\ DOMAIN cycles = 1..n /\ DOMAIN cycles' = 1..(n + 1)
          /\ cycles'[n + 1] = cycle /\ \A k \in 1..n : cycles'[k] = cycles[k]
      BY <2>2, <3>1, <1>1, <1>2
    <3>3. n + 1 \in 1..(n + 1) /\ \A k \in (1..(n + 1)) \ (1..n) : k = n + 1
      BY <3>1
    <3>4. \E k \in DOMAIN cycles' : ToSet(cycles'[k]) = ToSet(cycle)
      BY <3>2, <3>3
    <3>5. DOMAIN cycles \subseteq DOMAIN cycles'
      BY <3>1, <3>2
    <3>6. \A k \in DOMAIN cycles' \ DOMAIN cycles : k = n + 1
      BY <3>2, <3>3
    <3>7. \A k \in DOMAIN cycles : cycles'[k] = cycles[k]
      BY <3>2
    <3> QED
      BY <2>2, <3>2, <3>4, <3>5, <3>6, <3>7
  <2> QED
    BY <2>1, <2>2
<1>4. \A c : IsSimpleCycle(c)' <=> IsSimpleCycle(c)
  BY <1>1 DEF IsSimpleCycle, Edge, HasVertex
<1>5. CyclesAreCycles'
  BY <1>2, <1>3, <1>4 DEF AnswerInv, CyclesAreCycles
<1>6. ASSUME NEW j \in DOMAIN cycles, NEW k \in DOMAIN cycles' \ DOMAIN cycles
      PROVE  ToSet(cycles[j]) # ToSet(cycles'[k])
  <2>1. SUFFICES ASSUME ToSet(cycles[j]) = ToSet(cycle) PROVE FALSE
    BY <1>3
  <2>2. IsInjective(cycles[j]) /\ IsInjective(cycle) /\ cycles[j] \in Seq(Id)
    BY <1>2 DEF AnswerInv, CyclesAreCycles, IsSimpleCycle
  <2>3. Len(cycles[j]) = Len(cycle)
    BY <2>1, <2>2, <1>2, SameElementsSameLength
  <2>4. ~SameVertices(cycles[j], cycle)
    BY <1>3
  <2> QED
    BY <2>1, <2>3, <2>4 DEF SameVertices
<1>7. CyclesDiffer'
  BY <1>3, <1>6 DEF AnswerInv, CyclesDiffer
<1>8. \A u, v : Reachable(u)' = Reachable(u)
  BY <1>1 DEF Reachable, Vertices, Closed, Neighbours
<1>9. ASSUME NEW r \in 1..Len(ids), NEW k \in 1..Len(adjacent[ids[r]]), Passed(r, k)'
      PROVE  Covered(ids[r], adjacent[ids[r]][k])'
  <2>1. r \in Nat /\ k \in Nat
    OBVIOUS
  <2>2. Passed(r, k) \/ (r = row /\ k = column - 1)
    BY <2>1, <1>1, <1>9, ColumnIsPassed
  <2>3. CASE Passed(r, k)
    <3>1. Covered(ids[r], adjacent[ids[r]][k])
      BY <2>3 DEF AnswerInv, PassedAreCovered
    <3> QED
      BY <3>1, <1>1, <1>3, <1>8 DEF Covered
  <2>4. CASE r = row /\ k = column - 1
    <3>1. ids[r] = root /\ adjacent[ids[r]][k] = Partner
      BY <2>4, <1>2 DEF Partner
    <3>2. \E j \in DOMAIN cycles' : {root, Partner} \subseteq ToSet(cycles'[j])
      BY <1>2, <1>3
    <3> QED
      BY <3>1, <3>2, <1>1 DEF Covered
  <2> QED
    BY <2>2, <2>3, <2>4
<1>10. PassedAreCovered'
  BY <1>1, <1>9 DEF PassedAreCovered
<1> QED
  BY <1>1, <1>5, <1>7, <1>10 DEF AnswerInv, Fresh

LEMMA AnswerStep ==
  ASSUME TypeOK, SearchInv, CutInv, AnswerInv, [Next]_vars
  PROVE  AnswerInv'
<1>1. CASE \/ \E v \in Id : AddVertex(v)
           \/ \E from, to \in Id : AddEdge(from, to)
           \/ \E r \in Id, n \in Limits : AskChildren(r, n)
           \/ phase = "children" /\ (SkipVisited \/ VisitLeaf \/ VisitInner \/ Return)
           \/ TakeChildren \/ AskCycles
  <2>1. /\ phase \in {"idle", "children"} /\ phase' \in {"idle", "children", "pairs"}
        /\ UNCHANGED <<row, column, cycles>>
    BY <1>1 DEF AddVertex, AddEdge, AskChildren, SkipVisited, VisitLeaf, VisitInner, Return,
                TakeChildren, ChildrenAnswered, AskCycles, loop
  <2> QED
    BY <2>1, NothingAnswered DEF AnswerInv, Fresh
<1>2. CASE TakeCycles
  BY <1>2, NothingAnswered DEF TakeCycles
<1>3. CASE UNCHANGED vars
  <2>1. UNCHANGED <<ids, adjacent, cycles, row, column, phase>>
    BY <1>3 DEF vars, graph, loop
  <2>2. CASE phase \in {"idle", "children"}
    BY <2>1, <2>2, NothingAnswered DEF AnswerInv, Fresh
  <2>3. CASE phase \notin {"idle", "children"}
    <3>1. ASSUME NEW r, NEW k, Passed(r, k)' PROVE Passed(r, k)
      BY <2>1, <3>1 DEF Passed
    <3> QED
      BY <2>1, <2>3, <3>1, CyclesStay
  <2> QED
    BY <2>2, <2>3
<1>4. SkipVisited \/ VisitLeaf \/ VisitInner \/ Return => phase \in {"children", "deep"}
  BY DEF SkipVisited, VisitLeaf, VisitInner, Return, Meeting
<1> QED
  BY <1>1, <1>2, <1>3, <1>4, NoCycleKeepsAnswers, NextRootKeepsAnswers, WorkKeepsAnswers,
     KeepCycleKeepsAnswers DEF Next

THEOREM AnswerInvariant == Spec => [](TypeOK /\ SearchInv /\ CutInv /\ AnswerInv)
<1>1. Init => CutInv /\ AnswerInv
  BY DEF Init, CutInv, AnswerInv, Fresh, CyclesAreCycles, CyclesDiffer, PassedAreCovered
<1>2. TypeOK /\ SearchInv /\ CutInv /\ AnswerInv /\ [Next]_vars => CutInv' /\ AnswerInv'
  BY CutStep, AnswerStep
<1> QED
  BY <1>1, <1>2, SearchInvariant, PTL DEF Spec

(***************************************************************************)
(* For every graph, in whatever order it was built: backtracking over the  *)
(* flattened depth-first order ends in a cycle of the graph that repeats   *)
(* no vertex.                                                              *)
(***************************************************************************)
THEOREM CyclesAreReal == Spec => []CyclesAreCycles
<1>1. AnswerInv => CyclesAreCycles
  BY DEF AnswerInv
<1> QED
  BY <1>1, AnswerInvariant, PTL

(***************************************************************************)
(* For every graph: find_cycles returns no two cycles over the same        *)
(* vertices.                                                               *)
(***************************************************************************)
THEOREM CyclesAreDistinct == Spec => []CyclesDiffer
<1>1. AnswerInv => CyclesDiffer
  BY DEF AnswerInv
<1> QED
  BY <1>1, AnswerInvariant, PTL

(***************************************************************************)
(* For every graph: each edge that lies on a cycle has both its ends on a  *)
(* cycle that find_cycles returns.                                         *)
(***************************************************************************)
THEOREM CyclicEdgesAreCovered == Spec => []CyclicEdgesAreFound
<1>1. TypeOK /\ AnswerInv => CyclicEdgesAreFound
  <2> SUFFICES ASSUME TypeOK, AnswerInv, CyclesAnswered,
                      NEW u \in Vertices, NEW v \in Vertices, Edge(u, v), u \in Reachable(v)
               PROVE  \E k \in DOMAIN cycles : {u, v} \subseteq ToSet(cycles[k])
    BY DEF CyclicEdgesAreFound
  <2>1. PICK r \in 1..Len(ids) : ids[r] = u
    BY DEF TypeOK, GraphOK, ToSet
  <2>2. PICK k \in 1..Len(adjacent[u]) : adjacent[u][k] = v
    BY DEF Edge, Contains
  <2>3. r < row
    BY <2>1 DEF CyclesAnswered, TypeOK
  <2>4. Covered(u, v)
    BY <2>1, <2>2, <2>3 DEF AnswerInv, PassedAreCovered, Passed
  <2> QED
    BY <2>4 DEF Covered
<1> QED
  BY <1>1, AnswerInvariant, PTL
=============================================================================
