-------------------------- MODULE SourceReach_proofs --------------------------
(***************************************************************************)
(* For any trees and calls: a finished report has exactly the dependencies *)
(* in the trees that are reached, an analysis fails exactly for a text     *)
(* that does not parse, and encoded literals are counted on all the ways   *)
(* to them.                                                                *)
(***************************************************************************)
EXTENDS SourceReach, SourceWalk_proofs, SequenceLemmas

(* A stack without its top.                                                *)
LEMMA WithoutLast ==
    ASSUME NEW S, NEW s \in Seq(S), NEW t, Len(s) \in Nat \ {0},
           t = SubSeq(s, 1, Len(s) - 1)
    PROVE  /\ Len(t) = Len(s) - 1
           /\ \A i \in 1..(Len(s) - 1) : t[i] = s[i]
<1> DEFINE last == Len(s)
<1>1. last - 1 \in Int /\ 0 <= last - 1 /\ \A i \in 1..(last - 1) : s[i] \in S
  OBVIOUS
<1>2. t = SubSeq(s, 1, last - 1)
  OBVIOUS
<1> HIDE DEF last
<1>3. /\ Len(t) = IF 1 <= last - 1 THEN last - 1 - 1 + 1 ELSE 0
      /\ \A i \in 1..(last - 1 - 1 + 1) : t[i] = s[1 + i - 1]
  BY <1>1, <1>2, SubSeqProperties
<1>4. Len(t) = last - 1 /\ \A i \in 1..(last - 1) : t[i] = s[i]
  BY <1>1, <1>3
<1> QED
  BY <1>4 DEF last

(***************************************************************************)
(* The trees reached from a source.                                        *)
(***************************************************************************)
LEMMA BodiesAreTrees ==
    /\ Bodies \subseteq Tree
    /\ \A tree \in Tree : BodiesMet(tree) \subseteq Bodies
<1>1. ASSUME NEW tree \in Tree, NEW i \in 1..Len(tree)
      PROVE  tree[i].body \in Tree \cup NoTree
  <2>1. tree[i] \in SyntaxNode
    BY SourceAssumption
  <2> QED
    BY <2>1 DEF SyntaxNode, NoTree
<1>2. Bodies \subseteq Tree
  BY <1>1 DEF Bodies
<1>3. ASSUME NEW tree \in Tree, NEW body \in BodiesMet(tree)
      PROVE  body \in Bodies
  <2>1. PICK i \in 1..Len(tree) : body = tree[i].body /\ body \notin NoTree
    BY <1>3 DEF BodiesMet, Entered
  <2> QED
    BY <2>1 DEF Bodies
<1> QED
  BY <1>2, <1>3

LEMMA WalkedStep ==
    ASSUME NEW p \in Tree
    PROVE  /\ p \in Walked(p) /\ Walked(p) \subseteq Tree
           /\ HasBodies(Walked(p))
<1>1. p \in Walked(p)
  BY DEF Walked
<1>2. Walked(p) \subseteq Tree
  BY BodiesAreTrees DEF Walked
<1>3. ASSUME NEW tree \in Walked(p), NEW body \in BodiesMet(tree)
      PROVE  body \in Walked(p)
  <2>1. body \in Bodies
    BY <1>2, <1>3, BodiesAreTrees
  <2>2. ASSUME NEW S \in SUBSET (Bodies \cup {p}), p \in S, HasBodies(S)
        PROVE  body \in S
    <3>1. tree \in S
      BY <1>3, <2>2 DEF Walked
    <3> QED
      BY <1>3, <2>2, <3>1 DEF HasBodies
  <2> QED
    BY <2>1, <2>2 DEF Walked
<1> QED
  BY <1>1, <1>2, <1>3 DEF HasBodies

(* Beyond the source itself, what is reached is reached from a body in it. *)
LEMMA WalkedUnfolds ==
    ASSUME NEW p \in Tree, NEW tree \in Walked(p)
    PROVE  tree = p \/ \E body \in BodiesMet(p) : tree \in Walked(body)
<1> DEFINE S == {p} \cup UNION {Walked(body) : body \in BodiesMet(p)}
<1>1. \A body \in BodiesMet(p) : body \in Bodies /\ body \in Tree
  BY BodiesAreTrees
<1>2. \A body \in BodiesMet(p) : Walked(body) \subseteq Bodies
  BY <1>1 DEF Walked
<1>3. S \in SUBSET (Bodies \cup {p})
  BY <1>2
<1>4. ASSUME NEW u \in S, NEW inner \in BodiesMet(u)
      PROVE  inner \in S
  <2>1. CASE u = p
    <3>1. inner \in Walked(inner)
      BY <1>1, <1>4, <2>1, WalkedStep
    <3> QED
      BY <1>4, <2>1, <3>1
  <2>2. CASE u # p
    <3>1. PICK body \in BodiesMet(p) : u \in Walked(body)
      BY <1>4, <2>2
    <3>2. inner \in Walked(body)
      BY <1>1, <1>4, <3>1, WalkedStep DEF HasBodies
    <3> QED
      BY <3>1, <3>2
  <2> QED
    BY <2>1, <2>2
<1>5. p \in S /\ HasBodies(S)
  <2>1. p \in S
    OBVIOUS
  <2> HIDE DEF S
  <2> QED
    BY <1>4, <2>1 DEF HasBodies
<1>6. tree \in S
  <2> HIDE DEF S
  <2> QED
    BY <1>3, <1>5 DEF Walked
<1> QED
  BY <1>6

(***************************************************************************)
(* What is known of a node that was entered, of a tree that has been       *)
(* walked to its end, and of the nodes a call has passed.                  *)
(***************************************************************************)
Told(src, node) ==
    node.kind \in DependencyKind /\ Cleaned[node.name] # Blank
        => Cleaned[node.name] \in DOMAIN src.dependencies
Settled(src, p) ==
    \A tree \in Walked(p) : \A i \in Entered(tree) :
        Told(src, tree[i]) /\ tree[i].body # NotJs
Passed(src, fr) ==
    \A i \in Entered(fr.tree) : i < fr.at =>
        /\ Told(src, fr.tree[i]) /\ fr.tree[i].body # NotJs
        /\ fr.tree[i].body # NoBody => Settled(src, fr.tree[i].body)

(* A walk is on its way: every call walks a tree that is to be walked, is  *)
(* at a node to enter, waits at the eval whose body is above it, and what  *)
(* has been reported is to be reported.                                    *)
CallRight(p, src, fr) ==
    fr.tree \in Walked(p) /\ ~Covered(fr.tree, fr.at) /\ Passed(src, fr)
WaitsRight(src, fr, above) ==
    AtEval(fr) /\ Told(src, FrameAt(fr)) /\ above.tree = FrameAt(fr).body
ReachRight(p, src, frs) ==
    /\ p \in Tree \ {NotJs} /\ frs[1].tree = p
    /\ \A k \in 1..Len(frs) : CallRight(p, src, frs[k])
    /\ \A k \in 1..(Len(frs) - 1) : WaitsRight(src, frs[k], frs[k + 1])
    /\ DOMAIN src.dependencies \subseteq NamesToReport(p)

ReachInv ==
    /\ phase = "walking" => ReachRight(program, source, frames)
    /\ \A i \in 1..Len(outer) :
          ReachRight(outer[i].program, outer[i].source, outer[i].frames)
    /\ DependenciesComplete
    /\ FailsForBadBody

(* Reports only grow, and what was known stays so.                         *)
LEMMA GrownReportKeeps ==
    ASSUME NEW src, NEW new, DOMAIN src.dependencies \subseteq DOMAIN new.dependencies
    PROVE  /\ \A node : Told(src, node) => Told(new, node)
           /\ \A p : Settled(src, p) => Settled(new, p)
           /\ \A fr : Passed(src, fr) => Passed(new, fr)
           /\ \A p, fr : CallRight(p, src, fr) => CallRight(p, new, fr)
           /\ \A fr, above : WaitsRight(src, fr, above) => WaitsRight(new, fr, above)
<1>1. \A node : Told(src, node) => Told(new, node)
  BY DEF Told
<1>2. \A p : Settled(src, p) => Settled(new, p)
  BY <1>1 DEF Settled
<1>3. \A fr : Passed(src, fr) => Passed(new, fr)
  BY <1>1, <1>2 DEF Passed
<1> QED
  BY <1>1, <1>2, <1>3 DEF CallRight, WaitsRight

(***************************************************************************)
(* The nodes a call goes to, and what it passes on the way.                *)
(***************************************************************************)
LEMMA EnteredIsNode ==
    ASSUME NEW tree \in Tree, NEW i \in Entered(tree)
    PROVE  i \in 1..Len(tree) /\ Len(tree) \in Nat
  BY SourceAssumption DEF Entered

LEMMA AdvanceEnters ==
    ASSUME NEW fr \in Frame, fr.at <= Len(fr.tree), ~Covered(fr.tree, fr.at)
    PROVE  /\ fr.at \in Entered(fr.tree)
           /\ ~Covered(fr.tree, Advanced(fr).at)
           /\ \A i \in Entered(fr.tree) : i < Advanced(fr).at => i < fr.at \/ i = fr.at
<1> DEFINE p == fr.at
           tree == fr.tree
           next == Advanced(fr).at
<1>1. /\ tree \in Tree /\ p \in 1..Len(tree) /\ Len(tree) \in Nat
      /\ tree[p].last \in p..Len(tree)
      /\ next \in (p + 1)..(tree[p].last + 1)
      /\ ~Skips(tree[p]) => next = p + 1
      /\ Skips(tree[p]) => next = tree[p].last + 1
  BY AdvanceShape
<1>2. \A j \in 1..(p - 1) : Skips(tree[j]) => ~(p <= tree[j].last)
  BY DEF Covered
<1>3. p \in Entered(tree)
  BY <1>1 DEF Entered
<1> HIDE DEF next, p, tree
<1>4. ASSUME NEW j \in 1..(next - 1), Skips(tree[j]), next <= tree[j].last
      PROVE  FALSE
  <2>1. j \in 1..Len(tree)
    BY <1>1, <1>4
  <2>2. tree[j].last \in Nat
    BY <1>1, <2>1, TreeShape
  <2>3. CASE j < p
    <3>1. j \in 1..(p - 1)
      BY <1>1, <1>4, <2>3
    <3> QED
      BY <1>1, <1>2, <1>4, <2>2, <3>1
  <2>4. CASE j = p
    BY <1>1, <1>4, <2>2, <2>4
  <2>5. CASE j > p
    <3>1. next = tree[p].last + 1
      BY <1>1, <1>4, <2>5
    <3>2. j \in p..tree[p].last
      BY <1>1, <1>4, <2>5, <3>1
    <3>3. tree[j].last <= tree[p].last
      BY <1>1, <3>2, TreeShape
    <3> QED
      BY <1>1, <1>4, <2>2, <3>1, <3>3
  <2> QED
    BY <1>1, <2>1, <2>3, <2>4, <2>5
<1>5. ~Covered(tree, next)
  BY <1>4 DEF Covered
<1>6. ASSUME NEW i \in Entered(tree), i < next
      PROVE  i < p \/ i = p
  <2>1. i \in 1..Len(tree) /\ ~Covered(tree, i)
    BY DEF Entered
  <2>2. ASSUME i > p PROVE FALSE
    <3>1. Skips(tree[p]) /\ next = tree[p].last + 1
      BY <1>1, <1>6, <2>1, <2>2
    <3>2. p \in 1..(i - 1) /\ i <= tree[p].last
      BY <1>1, <1>6, <2>1, <2>2, <3>1
    <3> QED
      BY <2>1, <3>1, <3>2 DEF Covered
  <2> QED
    BY <1>1, <2>1, <2>2
<1> QED
  BY <1>3, <1>5, <1>6 DEF next, p, tree

(* What a step reports is told of the node it is at, and nothing else.     *)
LEMMA AddDependencyReports ==
    ASSUME NEW src \in SourceFile, NEW written, NEW unsafe \in BOOLEAN, NEW auto \in BOOLEAN
    PROVE  DOMAIN AddDependency(src, written, unsafe, auto).dependencies =
              DOMAIN src.dependencies \cup ({Cleaned[written]} \ {Blank})
<1> DEFINE name == Cleaned[written]
           d == With(src.dependencies, name, [unsafe |-> unsafe, inTry |-> src.inTry])
           c == IF name = OwnName \/ src.collected = NoSets THEN src.collected
                ELSE Append(src.collected, [name |-> name, unsafe |-> unsafe,
                                            inTry |-> src.inTry])
           listed == [src EXCEPT !.dependencies = d, !.collected = c]
<1>1. AddDependency(src, written, unsafe, auto) =
         IF name = Blank THEN src
         ELSE IF auto THEN Warn(listed, "unsafe-import", name) ELSE listed
  BY DEF AddDependency
<1>2. DOMAIN d = DOMAIN src.dependencies \cup {name}
  BY DEF With
<1> HIDE DEF d, c
<1>3. listed.dependencies = d /\ Warn(listed, "unsafe-import", name).dependencies = d
  BY DEF Warn, SourceFile
<1> HIDE DEF listed, name
<1>4. CASE name = Blank
  BY <1>1, <1>4 DEF name
<1>5. CASE name # Blank
  BY <1>1, <1>2, <1>3, <1>5 DEF name
<1> QED
  BY <1>4, <1>5

LEMMA StepReports ==
    ASSUME Walking, AtNode
    PROVE  /\ Here.kind \in DependencyKind =>
                DOMAIN AfterHere.dependencies =
                   DOMAIN source.dependencies \cup ({Cleaned[Here.name]} \ {Blank})
           /\ Here.kind \notin DependencyKind =>
                DOMAIN AfterHere.dependencies = DOMAIN source.dependencies
<1> DEFINE src == Bookkept(source, Here)
           node == Here
<1>1. Sound(src) /\ source \in SourceFile
  BY BookkeptKeeps DEF Walking, Sound
<1>2. src \in SourceFile /\ src.dependencies = source.dependencies
  BY <1>1 DEF Sound, Bookkept, SourceFile
<1>3. AfterHere = Probed(src, node)
  BY DEF AfterHere
<1> HIDE DEF src, node
<1>4. \A s, kind, value : s \in SourceFile => Warn(s, kind, value).dependencies = s.dependencies
  BY DEF Warn, SourceFile
<1>5. \A value : AddEncodedLiteral(src, value).dependencies = src.dependencies
  BY <1>2 DEF AddEncodedLiteral, Warn, SourceFile
<1>6. /\ AddDependency(src, node.name, TRUE, FALSE) \in SourceFile
      /\ AddDependency(src, node.name, TRUE, TRUE) \in SourceFile
      \/ node.kind \notin DependencyKind
  <2>1. Top \in Frame /\ Top.at <= Len(Top.tree)
    BY TopIsAFrame DEF AtNode
  <2>2. node.kind \in DependencyKind => node.name \in DOMAIN Cleaned
    BY <2>1, HereIsANode DEF Here, node
  <2> QED
    BY <1>1, <2>2, AddDependencyKeeps DEF Kept, Sound, src
<1>7. CASE node.kind = "Import"
  <2>1. AfterHere = AddDependency(src, node.name, FALSE, FALSE)
    BY <1>3, <1>7 DEF Probed
  <2> QED
    BY <1>2, <1>7, <2>1, AddDependencyReports DEF DependencyKind, node
<1>8. CASE node.kind = "Joined"
  <2>1. AfterHere = AddDependency(src, node.name, TRUE, FALSE)
    BY <1>3, <1>8 DEF Probed
  <2> QED
    BY <1>2, <1>8, <2>1, AddDependencyReports DEF DependencyKind, node
<1>9. CASE node.kind = "Built"
  <2>1. AfterHere = Warn(AddDependency(src, node.name, TRUE, FALSE), "unsafe-import", NotJs)
    BY <1>3, <1>9 DEF Probed
  <2>2. AfterHere.dependencies = AddDependency(src, node.name, TRUE, FALSE).dependencies
    BY <1>4, <1>6, <1>9, <2>1 DEF DependencyKind
  <2> QED
    BY <1>2, <1>9, <2>2, AddDependencyReports DEF DependencyKind, node
<1>10. CASE node.kind = "RequireByEval"
  <2>1. AfterHere = Warn(AddDependency(src, node.name, TRUE, TRUE), "unsafe-stmt", NotJs)
    BY <1>3, <1>10 DEF Probed
  <2>2. AfterHere.dependencies = AddDependency(src, node.name, TRUE, TRUE).dependencies
    BY <1>4, <1>6, <1>10, <2>1 DEF DependencyKind
  <2> QED
    BY <1>2, <1>10, <2>2, AddDependencyReports DEF DependencyKind, node
<1>11. CASE node.kind \notin DependencyKind
  <2>1. CASE node.kind = "Eval"
    BY <1>2, <1>3, <1>4, <2>1 DEF Probed, DependencyKind, node
  <2>2. CASE node.kind = "Encoded"
    BY <1>2, <1>3, <1>5, <2>2 DEF Probed, DependencyKind, node
  <2>3. CASE node.kind \notin {"Eval", "Encoded"}
    <3>1. AfterHere = src
      BY <1>3, <1>11, <2>3 DEF Probed, DependencyKind
    <3> QED
      BY <1>2, <1>11, <3>1 DEF node
  <2> QED
    BY <2>1, <2>2, <2>3
<1> QED
  BY <1>7, <1>8, <1>9, <1>10, <1>11 DEF DependencyKind

LEMMA NodesToEnterAre ==
    ASSUME NEW p, p # NotJs, NEW tree \in Walked(p), NEW i \in Entered(tree)
    PROVE  /\ tree[i] \in NodesToEnter(p)
           /\ tree[i].kind \in DependencyKind /\ Cleaned[tree[i].name] # Blank
                => Cleaned[tree[i].name] \in NamesToReport(p)
<1>1. tree[i] \in NodesToEnter(p)
  BY DEF NodesToEnter
<1> QED
  BY <1>1 DEF NamesToReport

(* What a settled tree says of its names and bodies.                       *)
LEMMA SettledIsComplete ==
    ASSUME NEW p, p # NotJs, NEW src, Settled(src, p),
           DOMAIN src.dependencies \subseteq NamesToReport(p)
    PROVE  DOMAIN src.dependencies = NamesToReport(p) /\ ~BadBody(p)
<1>1. ASSUME NEW n \in NodesToEnter(p)
      PROVE  Told(src, n) /\ n.body # NotJs
  <2>1. PICK tree \in Walked(p) : \E i \in Entered(tree) : n = tree[i]
    BY <1>1 DEF NodesToEnter
  <2> QED
    BY <2>1 DEF Settled
<1>2. NamesToReport(p) \subseteq DOMAIN src.dependencies
  BY <1>1 DEF NamesToReport, Told
<1>3. ~BadBody(p)
  BY <1>1 DEF BadBody
<1> QED
  BY <1>2, <1>3

(* A tree that a call has passed is settled with the bodies in it.         *)
LEMMA PassedIsSettled ==
    ASSUME NEW src, NEW fr \in Frame, Passed(src, fr), fr.at > Len(fr.tree)
    PROVE  Settled(src, fr.tree)
<1>1. fr.tree \in Tree /\ Len(fr.tree) \in Nat /\ fr.at \in Nat
  BY SourceAssumption DEF Frame
<1>2. \A i \in Entered(fr.tree) : i < fr.at
  BY <1>1 DEF Entered
<1>3. ASSUME NEW tree \in Walked(fr.tree), NEW i \in Entered(tree)
      PROVE  Told(src, tree[i]) /\ tree[i].body # NotJs
  <2>1. CASE tree = fr.tree
    BY <1>2, <1>3, <2>1 DEF Passed
  <2>2. CASE tree # fr.tree
    <3>1. PICK body \in BodiesMet(fr.tree) : tree \in Walked(body)
      BY <1>1, <2>2, WalkedUnfolds
    <3>2. PICK j \in Entered(fr.tree) : body = fr.tree[j].body /\ body \notin NoTree
      BY DEF BodiesMet
    <3>3. Settled(src, body)
      BY <1>2, <3>2 DEF Passed, NoTree
    <3> QED
      BY <3>1, <3>3 DEF Settled
  <2> QED
    BY <2>1, <2>2
<1> QED
  BY <1>3 DEF Settled

(***************************************************************************)
(* The steps.                                                              *)
(***************************************************************************)
LEMMA TopIsRight ==
    ASSUME Walking, AtNode, ReachRight(program, source, frames)
    PROVE  /\ frames \in Seq(Frame) /\ Len(frames) \in Nat \ {0} /\ Top \in Frame
           /\ Top = frames[Len(frames)] /\ Top.at <= Len(Top.tree)
           /\ CallRight(program, source, Top)
           /\ Top.at \in Entered(Top.tree) /\ Top.tree \in Walked(program)
           /\ Here = FrameAt(Top) /\ Here \in NodesToEnter(program)
           /\ Told(AfterHere, Here)
           /\ DOMAIN source.dependencies \subseteq DOMAIN AfterHere.dependencies
           /\ DOMAIN AfterHere.dependencies \subseteq NamesToReport(program)
<1>1. /\ frames \in Seq(Frame) /\ Len(frames) \in Nat \ {0} /\ Top \in Frame
      /\ Top = frames[Len(frames)] /\ Top.at <= Len(Top.tree)
  BY TopIsAFrame DEF Walking, Stack, AtNode, Top
<1>2. CallRight(program, source, Top) /\ program # NotJs
  BY <1>1 DEF ReachRight
<1>3. Top.at \in Entered(Top.tree) /\ Top.tree \in Walked(program)
  BY <1>1, <1>2, AdvanceEnters DEF CallRight
<1>4. Here = FrameAt(Top) /\ Here = Top.tree[Top.at]
  BY DEF Here, FrameAt
<1>5. /\ Here \in NodesToEnter(program)
      /\ Here.kind \in DependencyKind /\ Cleaned[Here.name] # Blank
           => Cleaned[Here.name] \in NamesToReport(program)
  BY <1>2, <1>3, <1>4, NodesToEnterAre
<1>6. DOMAIN source.dependencies \subseteq NamesToReport(program)
  BY DEF ReachRight
<1>7. Told(AfterHere, Here)
  BY StepReports DEF Told
<1>8. /\ DOMAIN source.dependencies \subseteq DOMAIN AfterHere.dependencies
      /\ DOMAIN AfterHere.dependencies \subseteq NamesToReport(program)
  BY <1>5, <1>6, StepReports
<1> QED
  BY <1>1, <1>2, <1>3, <1>4, <1>5, <1>7, <1>8

(* A call that goes on has passed the node it was at.                      *)
LEMMA AdvanceIsRight ==
    ASSUME NEW p, NEW src, NEW fr \in Frame, fr.at <= Len(fr.tree), CallRight(p, src, fr),
           Told(src, FrameAt(fr)), FrameAt(fr).body # NotJs,
           FrameAt(fr).body # NoBody => Settled(src, FrameAt(fr).body)
    PROVE  CallRight(p, src, Advanced(fr))
<1>1. Advanced(fr).tree = fr.tree
  BY AdvanceShape
<1>2. /\ ~Covered(fr.tree, Advanced(fr).at)
      /\ \A i \in Entered(fr.tree) : i < Advanced(fr).at => i < fr.at \/ i = fr.at
  BY AdvanceEnters DEF CallRight
<1>3. Passed(src, Advanced(fr))
  BY <1>1, <1>2 DEF Passed, CallRight, FrameAt
<1> QED
  BY <1>1, <1>2, <1>3 DEF CallRight

LEMMA EnterReach ==
    ASSUME SourceInv, ReachInv, Enter
    PROVE  ReachInv'
<1> DEFINE n == Len(frames)
<1>1. phase = "walking" /\ Walking /\ AtNode /\ ReachRight(program, source, frames)
  BY DEF Enter, AtNode, SourceInv, ReachInv
<1>2. /\ frames \in Seq(Frame) /\ n \in Nat \ {0} /\ Top \in Frame
      /\ Top = frames[n] /\ Top.at <= Len(Top.tree)
      /\ CallRight(program, source, Top) /\ Here = FrameAt(Top)
      /\ Told(AfterHere, Here)
      /\ DOMAIN source.dependencies \subseteq DOMAIN AfterHere.dependencies
      /\ DOMAIN AfterHere.dependencies \subseteq NamesToReport(program)
  BY <1>1, TopIsRight
<1>3. /\ source' = AfterHere /\ frames' = [frames EXCEPT ![n] = Advanced(Top)]
      /\ program' = program /\ outer' = outer /\ phase' = phase
  BY DEF Enter, ReplaceTop
<1>4. Here.body = NoBody /\ Here.body # NotJs
  BY SourceAssumption DEF Enter
<1>5. /\ \A fr : CallRight(program, source, fr) => CallRight(program, AfterHere, fr)
      /\ \A fr, above : WaitsRight(source, fr, above) => WaitsRight(AfterHere, fr, above)
  BY <1>2, GrownReportKeeps
<1>6. CallRight(program, AfterHere, Advanced(Top))
  BY <1>2, <1>4, <1>5, AdvanceIsRight
<1>7. /\ Len(frames') = n /\ frames'[n] = Advanced(Top)
      /\ \A k \in 1..(n - 1) : frames'[k] = frames[k]
      /\ Advanced(Top).tree = Top.tree
  BY <1>2, <1>3, AdvanceShape
<1> HIDE DEF n
<1>8. \A k \in 1..n : k \in 1..(n - 1) \/ k = n
  BY <1>2
<1>9. \A k \in 1..n : frames'[k].tree = frames[k].tree
  BY <1>2, <1>7, <1>8
<1>10. \A k \in 1..n : CallRight(program, AfterHere, frames'[k])
  <2>1. \A k \in 1..(n - 1) : k \in 1..n
    BY <1>2
  <2>2. \A k \in 1..(n - 1) : CallRight(program, source, frames[k])
    BY <1>1, <2>1 DEF ReachRight, n
  <2> QED
    BY <1>5, <1>6, <1>7, <1>8, <2>2
<1>11. \A k \in 1..(n - 1) : WaitsRight(AfterHere, frames'[k], frames'[k + 1])
  <2> SUFFICES ASSUME NEW k \in 1..(n - 1)
               PROVE  WaitsRight(AfterHere, frames'[k], frames'[k + 1])
    OBVIOUS
  <2>1. WaitsRight(AfterHere, frames[k], frames[k + 1])
    BY <1>1, <1>5 DEF ReachRight, n
  <2>2. k + 1 \in 1..n
    BY <1>2
  <2> QED
    BY <1>7, <1>9, <2>1, <2>2 DEF WaitsRight
<1>12. frames'[1].tree = program /\ program \in Tree \ {NotJs}
  <2>1. 1 \in 1..n
    BY <1>2
  <2> QED
    BY <1>1, <1>9, <2>1 DEF ReachRight
<1>13. ReachRight(program', source', frames')
  BY <1>2, <1>3, <1>7, <1>10, <1>11, <1>12 DEF ReachRight
<1> QED
  BY <1>1, <1>3, <1>13 DEF ReachInv, DependenciesComplete, FailsForBadBody

LEMMA EnterEvalReach ==
    ASSUME SourceInv, ReachInv, EnterEval
    PROVE  ReachInv'
<1> DEFINE n == Len(frames)
           inner == Call(Here.body)
<1>1. phase = "walking" /\ Walking /\ AtNode /\ ReachRight(program, source, frames)
  BY DEF EnterEval, AtNode, SourceInv, ReachInv
<1>2. /\ frames \in Seq(Frame) /\ n \in Nat \ {0} /\ Top \in Frame
      /\ Top = frames[n] /\ Top.at <= Len(Top.tree)
      /\ Top.at \in Entered(Top.tree) /\ Top.tree \in Walked(program)
      /\ Here = FrameAt(Top) /\ Told(AfterHere, Here)
      /\ DOMAIN source.dependencies \subseteq DOMAIN AfterHere.dependencies
      /\ DOMAIN AfterHere.dependencies \subseteq NamesToReport(program)
  BY <1>1, TopIsRight
<1>3. /\ source' = AfterHere /\ frames' = Append(frames, inner)
      /\ program' = program /\ outer' = outer /\ phase' = phase
      /\ Here.body \notin NoTree
  BY DEF EnterEval, BodyCalled, NoTree
<1>4. Here.body \in Walked(program)
  <2>1. Here.body \in BodiesMet(Top.tree)
    BY <1>2, <1>3 DEF BodiesMet, FrameAt
  <2> QED
    BY <1>1, <1>2, <2>1, WalkedStep DEF HasBodies, ReachRight
<1>5. inner.tree = Here.body /\ inner.at = 1
  BY DEF Call
<1> HIDE DEF inner
<1>6. CallRight(program, AfterHere, inner)
  <2>1. ~Covered(inner.tree, 1)
    BY DEF Covered
  <2>2. \A i \in Entered(inner.tree) : ~(i < 1)
    BY DEF Entered
  <2> QED
    BY <1>4, <1>5, <2>1, <2>2 DEF CallRight, Passed
<1>7. WaitsRight(AfterHere, Top, inner)
  BY <1>2, <1>3, <1>5 DEF WaitsRight, AtEval, FrameAt, NoTree
<1>8. /\ Len(frames') = n + 1 /\ frames'[n + 1] = inner
      /\ \A k \in 1..n : frames'[k] = frames[k]
  BY <1>2, <1>3
<1> HIDE DEF n
<1>14. /\ \A fr : CallRight(program, source, fr) => CallRight(program, AfterHere, fr)
      /\ \A fr, above : WaitsRight(source, fr, above) => WaitsRight(AfterHere, fr, above)
  BY <1>2, GrownReportKeeps
<1>9. /\ \A k \in 1..(n + 1) : k \in 1..n \/ k = n + 1
      /\ \A k \in 1..(n + 1 - 1) : k \in 1..(n - 1) \/ k = n
      /\ \A k \in 1..(n - 1) : k \in 1..n /\ k + 1 \in 1..n
      /\ n \in 1..n /\ 1 \in 1..n
  BY <1>2
<1>10. \A k \in 1..(n + 1) : CallRight(program, AfterHere, frames'[k])
  <2>1. \A k \in 1..n : CallRight(program, source, frames[k])
    BY <1>1 DEF ReachRight, n
  <2> QED
    BY <1>6, <1>8, <1>9, <1>14, <2>1
<1>11. \A k \in 1..(n + 1 - 1) : WaitsRight(AfterHere, frames'[k], frames'[k + 1])
  <2>1. \A k \in 1..(n - 1) : WaitsRight(source, frames[k], frames[k + 1])
    BY <1>1 DEF ReachRight, n
  <2>2. \A k \in 1..(n - 1) : WaitsRight(AfterHere, frames'[k], frames'[k + 1])
    BY <1>8, <1>9, <1>14, <2>1
  <2>3. WaitsRight(AfterHere, frames'[n], frames'[n + 1])
    BY <1>2, <1>7, <1>8, <1>9
  <2> QED
    BY <1>9, <2>2, <2>3
<1>12. frames'[1].tree = program /\ program \in Tree \ {NotJs}
  BY <1>1, <1>8, <1>9 DEF ReachRight
<1>13. ReachRight(program', source', frames')
  BY <1>2, <1>3, <1>8, <1>10, <1>11, <1>12 DEF ReachRight
<1> QED
  BY <1>1, <1>3, <1>13 DEF ReachInv, DependenciesComplete, FailsForBadBody

(* The body is settled, and the call below goes on behind its eval.        *)
LEMMA LeaveEvalReach ==
    ASSUME SourceInv, ReachInv, LeaveEval
    PROVE  ReachInv'
<1> DEFINE n == Len(frames)
           caller == n - 1
<1>1. phase = "walking" /\ Walking /\ ReachRight(program, source, frames)
  BY DEF LeaveEval, SourceInv, ReachInv
<1>2. /\ frames \in Seq(Frame) /\ n \in Nat /\ n > 1
      /\ frames[n].at > Len(frames[n].tree)
      /\ \A k \in 1..n : frames[k] \in Frame
  BY <1>1 DEF LeaveEval, Walking, Stack, Top
<1>3. /\ frames' = Append(SubSeq(frames, 1, caller - 1), Advanced(frames[caller]))
      /\ source' = source /\ program' = program /\ outer' = outer /\ phase' = phase
  BY DEF LeaveEval
<1>4. caller \in 1..n /\ n \in 1..n /\ caller \in 1..(n - 1) /\ caller + 1 = n
  BY <1>2
<1>5. /\ frames[caller] \in Frame /\ CallRight(program, source, frames[caller])
      /\ CallRight(program, source, frames[n])
      /\ WaitsRight(source, frames[caller], frames[n])
  BY <1>1, <1>2, <1>4 DEF ReachRight
<1> HIDE DEF caller, n
<1>6. Settled(source, frames[n].tree)
  <2>1. frames[n] \in Frame /\ Passed(source, frames[n])
    BY <1>2, <1>4, <1>5 DEF CallRight
  <2> QED
    BY <1>2, <2>1, PassedIsSettled
<1>7. /\ frames[caller].at <= Len(frames[caller].tree)
      /\ Told(source, FrameAt(frames[caller]))
      /\ FrameAt(frames[caller]).body = frames[n].tree
      /\ FrameAt(frames[caller]).body # NotJs
  BY <1>5 DEF WaitsRight, AtEval, FrameAt
<1>8. CallRight(program, source, Advanced(frames[caller]))
  BY <1>5, <1>6, <1>7, AdvanceIsRight
<1>9. /\ Advanced(frames[caller]) \in Frame
      /\ Advanced(frames[caller]).tree = frames[caller].tree
  BY <1>5, <1>7, HereIsANode, AdvanceShape
<1>10. /\ Len(frames') = caller /\ frames'[caller] = Advanced(frames[caller])
       /\ \A k \in 1..(caller - 1) : frames'[k] = frames[k]
  <2> DEFINE init == SubSeq(frames, 1, caller - 1)
  <2>1. /\ caller \in Nat \ {0} /\ caller - 1 \in Int
        /\ \A k \in 1..(caller - 1) : frames[k] \in Frame
    BY <1>2, <1>4
  <2>2. /\ init \in Seq(Frame)
        /\ Len(init) = IF 1 <= caller - 1 THEN caller - 1 - 1 + 1 ELSE 0
        /\ \A k \in 1..(caller - 1 - 1 + 1) : init[k] = frames[1 + k - 1]
    BY <2>1, SubSeqProperties
  <2>3. frames' = Append(init, Advanced(frames[caller]))
    BY <1>3
  <2> HIDE DEF init
  <2>4. Len(init) = caller - 1 /\ \A k \in 1..(caller - 1) : init[k] = frames[k]
    BY <2>1, <2>2
  <2>5. /\ Len(frames') = Len(init) + 1
        /\ \A k \in 1..Len(init) : frames'[k] = init[k]
        /\ frames'[Len(init) + 1] = Advanced(frames[caller])
    BY <1>9, <2>2, <2>3, AppendProperties
  <2> QED
    BY <2>1, <2>4, <2>5
<1>11. /\ \A k \in 1..caller : k \in 1..(caller - 1) \/ k = caller
       /\ \A k \in 1..(caller - 1) : k \in 1..n /\ k \in 1..(n - 1) /\ k + 1 \in 1..caller
       /\ 1 \in 1..caller
  BY <1>2, <1>4
<1>12. \A k \in 1..caller : frames'[k].tree = frames[k].tree
  BY <1>9, <1>10, <1>11
<1>13. \A k \in 1..caller : CallRight(program, source, frames'[k])
  BY <1>1, <1>8, <1>10, <1>11 DEF ReachRight, n
<1>14. \A k \in 1..(caller - 1) : WaitsRight(source, frames'[k], frames'[k + 1])
  <2> SUFFICES ASSUME NEW k \in 1..(caller - 1)
               PROVE  WaitsRight(source, frames'[k], frames'[k + 1])
    OBVIOUS
  <2>1. WaitsRight(source, frames[k], frames[k + 1])
    BY <1>1, <1>11 DEF ReachRight, n
  <2> QED
    BY <1>10, <1>11, <1>12, <2>1 DEF WaitsRight
<1>15. /\ frames'[1].tree = program /\ program \in Tree \ {NotJs}
       /\ DOMAIN source.dependencies \subseteq NamesToReport(program)
  BY <1>1, <1>11, <1>12 DEF ReachRight
<1>16. ReachRight(program', source', frames')
  BY <1>3, <1>10, <1>13, <1>14, <1>15 DEF ReachRight
<1> QED
  BY <1>1, <1>3, <1>16 DEF ReachInv, DependenciesComplete, FailsForBadBody

(* The end of a run, or of the one inside which it ran.                    *)
LEMMA EndRunReach ==
    ASSUME SourceInv, ReachInv, phase = "walking", NEW collected, NEW result,
           NEW end \in {"done", "failed"}, EndRun(collected, result, end),
           end = "failed" => BadBody(program),
           end = "done" => /\ DOMAIN result.dependencies = NamesToReport(program)
                           /\ ~BadBody(program)
    PROVE  ReachInv'
<1>1. CASE outer = << >>
  <2>1. /\ source' = result /\ phase' = end /\ program' = program /\ outer' = outer
        /\ Len(outer') = 0
    BY <1>1 DEF EndRun
  <2> QED
    BY <2>1 DEF ReachInv, DependenciesComplete, FailsForBadBody
<1>2. CASE outer # << >>
  <2>1. outer \in Seq(Run)
    BY DEF SourceInv, Types
  <2>2. Len(outer) \in 1..Len(outer) /\ Len(outer) \in Nat \ {0}
    BY <1>2, <2>1
  <2>3. /\ source' = outer[Len(outer)].source /\ frames' = outer[Len(outer)].frames
        /\ program' = outer[Len(outer)].program /\ phase' = phase
        /\ outer' = SubSeq(outer, 1, Len(outer) - 1)
    BY <1>2 DEF EndRun, Last, Front
  <2>4. /\ Len(outer') = Len(outer) - 1
        /\ \A i \in 1..(Len(outer) - 1) : outer'[i] = outer[i]
    BY <2>1, <2>2, <2>3, WithoutLast
  <2>5. \A i \in 1..Len(outer') : i \in 1..Len(outer)
    BY <2>2, <2>4
  <2>6. \A i \in 1..Len(outer') :
           ReachRight(outer'[i].program, outer'[i].source, outer'[i].frames)
    BY <2>4, <2>5 DEF ReachInv
  <2>7. ReachRight(program', source', frames')
    BY <2>2, <2>3 DEF ReachInv
  <2> QED
    BY <2>3, <2>6, <2>7 DEF ReachInv, DependenciesComplete, FailsForBadBody
<1> QED
  BY <1>1, <1>2

LEMMA EvalFailsReach ==
    ASSUME SourceInv, ReachInv, EvalFails
    PROVE  ReachInv'
<1>1. phase = "walking" /\ Walking /\ AtNode /\ ReachRight(program, source, frames)
  BY DEF EvalFails, AtNode, SourceInv, ReachInv
<1>2. Here \in NodesToEnter(program) /\ Here.body = NotJs
  BY <1>1, TopIsRight DEF EvalFails
<1>3. BadBody(program)
  BY <1>2 DEF BadBody
<1> QED
  BY <1>1, <1>3, EndRunReach DEF EvalFails

LEMMA FinishReach ==
    ASSUME SourceInv, ReachInv, Finish
    PROVE  ReachInv'
<1> DEFINE warnings == IF TooManyEncoded(source) THEN Summarised(source) ELSE source.warnings
           result == [source EXCEPT !.collected = << >>, !.warnings = warnings]
<1>1. /\ phase = "walking" /\ Walking /\ ReachRight(program, source, frames)
      /\ Len(frames) = 1 /\ frames[1].at > Len(frames[1].tree)
      /\ EndRun(source.collected, result, "done")
  BY DEF Finish, SourceInv, ReachInv, Top
<1> HIDE DEF warnings
<1>2. result.dependencies = source.dependencies
  BY <1>1 DEF Walking, Sound, SourceFile
<1>3. frames[1] \in Frame /\ frames[1].tree = program /\ program # NotJs
      /\ Passed(source, frames[1])
      /\ DOMAIN source.dependencies \subseteq NamesToReport(program)
  BY <1>1 DEF Walking, Stack, ReachRight, CallRight
<1>4. Settled(source, program)
  BY <1>1, <1>3, PassedIsSettled
<1>5. DOMAIN source.dependencies = NamesToReport(program) /\ ~BadBody(program)
  BY <1>3, <1>4, SettledIsComplete
<1> HIDE DEF result
<1> QED
  BY <1>1, <1>2, <1>5, EndRunReach

LEMMA FreshReach ==
    ASSUME NEW p \in Tree, p # NotJs, NEW collected
    PROVE  ReachRight(p, NewSource(collected), <<Call(p)>>)
<1> DEFINE frs == <<Call(p)>>
           src == NewSource(collected)
<1>1. Len(frs) = 1 /\ frs[1].tree = p /\ frs[1].at = 1
  BY DEF Call
<1>2. DOMAIN src.dependencies = {}
  BY DEF NewSource
<1> HIDE DEF frs, src
<1>3. CallRight(p, src, frs[1])
  <2>1. ~Covered(p, 1) /\ \A i \in Entered(p) : ~(i < 1)
    BY DEF Covered, Entered
  <2> QED
    BY <1>1, <2>1, WalkedStep DEF CallRight, Passed
<1>4. \A k \in 1..Len(frs) : k = 1
  BY <1>1
<1>5. \A k \in 1..(Len(frs) - 1) : FALSE
  BY <1>1
<1>6. ReachRight(p, src, frs)
  BY <1>1, <1>2, <1>3, <1>4, <1>5 DEF ReachRight
<1> QED
  BY <1>6 DEF frs, src

LEMMA BeginReach ==
    ASSUME SourceInv, ReachInv, NEW p \in Sources, Start(p) \/ CallAgain(p)
    PROVE  ReachInv'
<1>1. Types
  BY DEF SourceInv
<1>2. /\ p # NotJs /\ program' = p /\ source' = NewSource(registry)
      /\ frames' = <<Call(p)>> /\ phase' = "walking"
  BY DEF Start, CallAgain, Begin
<1>3. p \in Tree
  BY <1>1, <1>2, SourcesArePrograms, SourceAssumption
<1>4. ReachRight(program', source', frames')
  BY <1>2, <1>3, FreshReach
<1>5. CASE Start(p)
  <2>1. outer' = outer
    BY <1>5 DEF Start
  <2> QED
    BY <1>2, <1>4, <2>1 DEF ReachInv, DependenciesComplete, FailsForBadBody
<1>6. CASE CallAgain(p)
  <2> DEFINE run == [program |-> program, source |-> source, frames |-> frames,
                     nested |-> nested]
  <2>1. phase = "walking" /\ outer' = Append(outer, run) /\ Walking
    BY <1>6 DEF CallAgain, SourceInv
  <2>2. run \in Run
    BY <1>1, <2>1 DEF Run, Walking, Sound, Types
  <2>3. ReachRight(run.program, run.source, run.frames)
    BY <2>1 DEF ReachInv
  <2> HIDE DEF run
  <2>4. /\ Len(outer) \in Nat /\ Len(outer') = Len(outer) + 1
        /\ \A i \in 1..Len(outer) : outer'[i] = outer[i]
        /\ outer'[Len(outer) + 1] = run
    BY <1>1, <2>1, <2>2, AppendProperties DEF Types
  <2>5. \A i \in 1..Len(outer') : i \in 1..Len(outer) \/ i = Len(outer) + 1
    BY <2>4
  <2>6. \A i \in 1..Len(outer') :
           ReachRight(outer'[i].program, outer'[i].source, outer'[i].frames)
    BY <2>3, <2>4, <2>5 DEF ReachInv
  <2> QED
    BY <1>2, <1>4, <2>6 DEF ReachInv, DependenciesComplete, FailsForBadBody
<1> QED
  BY <1>5, <1>6

LEMMA ReachStep ==
    ASSUME SourceInv, ReachInv, [Next]_vars
    PROVE  ReachInv'
<1>1. ASSUME NEW p \in Sources, Refuse(p) PROVE ReachInv'
  <2>1. program' = NotJs /\ phase' = "failed" /\ outer' = outer
    BY <1>1 DEF Refuse
  <2> QED
    BY <2>1 DEF ReachInv, DependenciesComplete, FailsForBadBody, BadBody
<1>2. ASSUME NEW p \in Sources, Start(p) \/ CallAgain(p) PROVE ReachInv'
  BY <1>2, BeginReach
<1>3. ASSUME Panic PROVE ReachInv'
  <2>1. phase' = "failed" /\ panicked' = TRUE /\ Len(outer') = 0
    BY <1>3 DEF Panic
  <2> QED
    BY <2>1 DEF ReachInv, DependenciesComplete, FailsForBadBody
<1>4. ASSUME UNCHANGED vars PROVE ReachInv'
  BY <1>4 DEF vars, ReachInv, DependenciesComplete, FailsForBadBody
<1> QED
  BY <1>1, <1>2, <1>3, <1>4, EnterReach, EnterEvalReach, EvalFailsReach, LeaveEvalReach,
     FinishReach DEF Next, Walk

LEMMA ReachInvariant == Spec => []ReachInv
<1>1. Init => ReachInv
  BY DEF Init, ReachInv, DependenciesComplete, FailsForBadBody
<1>2. SourceInv /\ ReachInv /\ [Next]_vars => ReachInv'
  BY ReachStep
<1> QED
  BY <1>1, <1>2, SourceInvariant, PTL DEF Spec

(* A finished report has the dependencies written in the source and in the *)
(* bodies of the evals in it, at any depth, but for those below a node a   *)
(* probe skips, and no others.                                             *)
THEOREM ReportsAreComplete == Spec => []DependenciesComplete
<1>1. ReachInv => DependenciesComplete
  BY DEF ReachInv
<1> QED
  BY <1>1, ReachInvariant, PTL

(* An analysis without a panic fails for a source, or an eval body that is *)
(* reached, that does not parse, and never finishes with one.              *)
THEOREM FailuresAreBadBodies == Spec => []FailsForBadBody
<1>1. ReachInv => FailsForBadBody
  BY DEF ReachInv
<1> QED
  BY <1>1, ReachInvariant, PTL

(***************************************************************************)
(* Encoded literals.  A walk has met the nodes on the ways that branch off *)
(* behind it: those that go along with its calls up to one of them and     *)
(* there to a node it has passed.                                          *)
(***************************************************************************)
Before(way, frs) ==
    \E m \in 1..Len(frs) :
        /\ m <= Len(way)
        /\ \A l \in 1..(m - 1) : way[l] = frs[l]
        /\ way[m].tree = frs[m].tree /\ way[m].at < frs[m].at
WaysMet(p, frs) == {way \in WaysToEncoded(p) : Before(way, frs)}

(* What is remembered of them: no value that was not met and one warning   *)
(* for each value remembered; and as long as these are not too many, every *)
(* value met with all its places.                                          *)
Tally(src, ways) ==
    /\ IsFiniteSet(ways)
    /\ IsFiniteSet(DOMAIN src.encoded) /\ DOMAIN src.encoded \subseteq ValuesOf(ways)
    /\ \A i \in 1..Len(src.warnings) : src.warnings[i].kind = "encoded-literal" =>
          /\ src.warnings[i].value \in DOMAIN src.encoded
          /\ src.encoded[src.warnings[i].value] = i
    /\ ~TooManyEncoded(src) =>
          /\ ValuesOf(ways) \subseteq DOMAIN src.encoded
          /\ \A value \in DOMAIN src.encoded :
                src.warnings[src.encoded[value]].places = Cardinality(WaysTo(value, ways))

Shallow(p, frs) == \A k \in 1..Len(frs) : Nesting[frs[k].tree] + k <= Nesting[p] + 1
CountRight(p, src, frs) == Shallow(p, frs) /\ Tally(src, WaysMet(p, frs))
CountInv ==
    /\ phase = "walking" => CountRight(program, source, frames)
    /\ \A i \in 1..Len(outer) :
          CountRight(outer[i].program, outer[i].source, outer[i].frames)
    /\ EncodedSummary

(***************************************************************************)
(* Ways.                                                                   *)
(***************************************************************************)
LEMMA StopsAre ==
    ASSUME NEW p \in Tree, NEW stop \in Stops(p)
    PROVE  /\ stop.tree \in Walked(p) /\ stop.tree \in Tree
           /\ stop.at \in Entered(stop.tree)
           /\ stop.at \in 1..Len(stop.tree) /\ Len(stop.tree) \in Nat
           /\ stop = [tree |-> stop.tree, at |-> stop.at]
<1>1. PICK tree \in Walked(p) : stop \in {[tree |-> tree, at |-> i] : i \in Entered(tree)}
  BY DEF Stops
<1>2. PICK i \in Entered(tree) : stop = [tree |-> tree, at |-> i]
  BY <1>1
<1>3. tree \in Tree
  BY WalkedStep
<1>4. i \in 1..Len(tree) /\ Len(tree) \in Nat
  BY <1>3, EnteredIsNode
<1> QED
  BY <1>2, <1>3, <1>4

LEMMA WaysAre ==
    ASSUME NEW p \in Tree, NEW way \in WaysToEncoded(p)
    PROVE  /\ way \in Seq(Stops(p)) /\ Len(way) \in Nat \ {0}
           /\ IsWay(p, way) /\ Goal(way).kind = "Encoded"
           /\ \A k \in 1..Len(way) : way[k] \in Stops(p)
<1>1. PICK n \in 1..(Nesting[p] + 1) : way \in [1..n -> Stops(p)]
  BY DEF WaysToEncoded
<1>2. Nesting[p] \in Nat
  BY NestingAssumption
<1>3. n \in Nat \ {0}
  BY <1>1, <1>2
<1>4. way \in Seq(Stops(p)) /\ Len(way) = n
  BY <1>1, <1>3
<1>5. IsWay(p, way) /\ Goal(way).kind = "Encoded"
  BY DEF WaysToEncoded
<1> QED
  BY <1>3, <1>4, <1>5

(* A way goes on only through an eval, and ends at no eval.                *)
LEMMA WayGoesOn ==
    ASSUME NEW p \in Tree, NEW way \in WaysToEncoded(p), NEW k \in 1..Len(way)
    PROVE  /\ k = Len(way) => NodeAt(way[k]).body = NoBody
           /\ k < Len(way) => /\ k + 1 \in 1..Len(way)
                              /\ NodeAt(way[k]).body = way[k + 1].tree
                              /\ NodeAt(way[k]).body # NoBody
<1>1. /\ Len(way) \in Nat \ {0} /\ IsWay(p, way) /\ Goal(way).kind = "Encoded"
      /\ \A j \in 1..Len(way) : way[j] \in Stops(p)
  BY WaysAre
<1>2. ASSUME k = Len(way) PROVE NodeAt(way[k]).body = NoBody
  <2>1. way[k].tree \in Tree /\ way[k].at \in 1..Len(way[k].tree)
    BY <1>1, StopsAre
  <2>2. NodeAt(way[k]).kind = "Encoded"
    BY <1>1, <1>2 DEF Goal
  <2>3. NodeAt(way[k]).body # NoBody => NodeAt(way[k]).kind \in {"RequireByEval", "Eval"}
    BY <2>1, TreeShape DEF NodeAt
  <2> QED
    BY <2>2, <2>3
<1>3. ASSUME k < Len(way)
      PROVE  /\ k + 1 \in 1..Len(way)
             /\ NodeAt(way[k]).body = way[k + 1].tree
             /\ NodeAt(way[k]).body # NoBody
  <2>1. k + 1 \in 1..Len(way) /\ k + 1 \in 2..Len(way) /\ (k + 1) - 1 = k
    BY <1>1, <1>3
  <2>2. way[k + 1].tree = NodeAt(way[k]).body
    BY <1>1, <2>1 DEF IsWay
  <2>3. way[k + 1].tree \in Tree
    BY <1>1, <2>1, StopsAre
  <2> QED
    BY <2>1, <2>2, <2>3, NestingAssumption DEF NoTree
<1> QED
  BY <1>2, <1>3

(* The calls of a walk are a way to the node in front of it.               *)
LEMMA CallsAreAWay ==
    ASSUME NEW p \in Tree, NEW src, NEW frs \in Seq(Frame), Len(frs) \in Nat \ {0},
           ReachRight(p, src, frs), Shallow(p, frs),
           frs[Len(frs)].at <= Len(frs[Len(frs)].tree),
           NodeAt(frs[Len(frs)]).kind = "Encoded"
    PROVE  frs \in WaysToEncoded(p)
<1> DEFINE n == Len(frs)
<1>1. \A k \in 1..n : frs[k] \in Frame /\ CallRight(p, src, frs[k])
  BY DEF ReachRight
<1>2. \A k \in 1..n : frs[k].at <= Len(frs[k].tree)
  <2>1. \A k \in 1..(n - 1) : frs[k].at <= Len(frs[k].tree)
    BY DEF ReachRight, WaitsRight, AtEval
  <2>2. \A k \in 1..n : k \in 1..(n - 1) \/ k = n
    OBVIOUS
  <2> QED
    BY <2>1, <2>2
<1>3. ASSUME NEW k \in 1..n PROVE frs[k] \in Stops(p)
  <2>1. frs[k].at \in Entered(frs[k].tree) /\ frs[k].tree \in Walked(p)
    BY <1>1, <1>2, <1>3, AdvanceEnters DEF CallRight
  <2>2. frs[k] = [tree |-> frs[k].tree, at |-> frs[k].at]
    BY <1>1, <1>3 DEF Frame
  <2> QED
    BY <2>1, <2>2 DEF Stops
<1>4. frs \in [1..n -> Stops(p)]
  BY <1>3
<1>5. n \in 1..(Nesting[p] + 1)
  <2>1. n \in 1..n /\ frs[n].tree \in Tree
    BY <1>1 DEF Frame
  <2>2. Nesting[frs[n].tree] \in Nat /\ Nesting[p] \in Nat
    BY <2>1, NestingAssumption
  <2>3. Nesting[frs[n].tree] + n <= Nesting[p] + 1
    BY <2>1 DEF Shallow
  <2> QED
    BY <2>2, <2>3
<1>6. IsWay(p, frs)
  <2>1. ASSUME NEW k \in 2..n PROVE frs[k].tree = NodeAt(frs[k - 1]).body
    <3>1. k - 1 \in 1..(n - 1) /\ (k - 1) + 1 = k
      OBVIOUS
    <3>2. WaitsRight(src, frs[k - 1], frs[(k - 1) + 1])
      BY <3>1 DEF ReachRight
    <3> QED
      BY <3>1, <3>2 DEF WaitsRight, FrameAt, NodeAt
  <2> QED
    BY <2>1 DEF IsWay, ReachRight
<1> QED
  BY <1>4, <1>5, <1>6 DEF WaysToEncoded, Goal

(***************************************************************************)
(* What each step of a walk has met then.                                  *)
(***************************************************************************)
LEMMA EnterMeets ==
    ASSUME NEW p \in Tree, NEW frs \in Seq(Frame), NEW n \in Nat \ {0}, n = Len(frs),
           frs[n].at <= Len(frs[n].tree), ~Covered(frs[n].tree, frs[n].at),
           NodeAt(frs[n]).body = NoBody,
           NEW new, Len(new) = n, new[n] = Advanced(frs[n]),
           \A k \in 1..(n - 1) : new[k] = frs[k]
    PROVE  /\ WaysMet(p, new) = WaysMet(p, frs) \cup ({frs} \cap WaysToEncoded(p))
           /\ frs \notin WaysMet(p, frs)
<1>1. /\ \A k \in 1..n : frs[k] \in Frame
      /\ n \in 1..n /\ \A m \in 1..n : m \in 1..(n - 1) \/ m = n
  OBVIOUS
<1>2. \A k \in 1..n : frs[k].at \in Nat
  BY <1>1 DEF Frame
<1>3. /\ new[n].tree = frs[n].tree /\ frs[n].at < new[n].at
      /\ \A i \in Entered(frs[n].tree) : i < new[n].at => i < frs[n].at \/ i = frs[n].at
  <2>1. Advanced(frs[n]).at \in (frs[n].at + 1)..(frs[n].tree[frs[n].at].last + 1)
    BY <1>1, AdvanceShape
  <2>2. frs[n].at < Advanced(frs[n]).at
    BY <1>1, <1>2, <2>1
  <2> QED
    BY <1>1, <2>2, AdvanceShape, AdvanceEnters
<1>4. ASSUME NEW way \in WaysToEncoded(p), Before(way, frs) PROVE Before(way, new)
  <2>1. PICK m \in 1..n :
          /\ m <= Len(way)
          /\ \A l \in 1..(m - 1) : way[l] = frs[l]
          /\ way[m].tree = frs[m].tree /\ way[m].at < frs[m].at
    BY <1>4 DEF Before
  <2>2. \A l \in 1..(m - 1) : way[l] = new[l]
    <3>1. \A l \in 1..(m - 1) : l \in 1..(n - 1)
      OBVIOUS
    <3> QED
      BY <2>1, <3>1
  <2>3. way[m].tree = new[m].tree /\ way[m].at < new[m].at
    <3>1. CASE m \in 1..(n - 1)
      BY <2>1, <3>1
    <3>2. CASE m = n
      <4>1. m \in 1..Len(way) /\ way[m] \in Stops(p)
        BY <2>1, WaysAre
      <4>2. way[m].at \in Nat /\ new[n].at \in Int
        <5>1. way[m].at \in Nat
          BY <4>1, StopsAre
        <5>2. Advanced(frs[n]) \in Frame
          BY <1>1, HereIsANode
        <5> QED
          BY <5>1, <5>2 DEF Frame
      <4> QED
        BY <1>1, <1>2, <1>3, <2>1, <3>2, <4>2
    <3> QED
      BY <1>1, <3>1, <3>2
  <2> QED
    BY <2>1, <2>2, <2>3 DEF Before
<1>5. ASSUME NEW way \in WaysToEncoded(p), Before(way, new), ~Before(way, frs) PROVE way = frs
  <2>1. PICK m \in 1..n :
          /\ m <= Len(way)
          /\ \A l \in 1..(m - 1) : way[l] = new[l]
          /\ way[m].tree = new[m].tree /\ way[m].at < new[m].at
    BY <1>5 DEF Before
  <2>2. /\ way \in Seq(Stops(p)) /\ m \in 1..Len(way) /\ way[m] \in Stops(p)
        /\ Len(way) \in Nat
    BY <2>1, WaysAre
  <2>3. \A l \in 1..(m - 1) : way[l] = frs[l]
    <3>1. \A l \in 1..(m - 1) : l \in 1..(n - 1)
      OBVIOUS
    <3> QED
      BY <2>1, <3>1
  <2>4. m = n
    BY <1>1, <1>5, <2>1, <2>3 DEF Before
  <2>5. way[n].tree = frs[n].tree /\ way[n].at = frs[n].at
    <3>1. way[n].at \in Entered(frs[n].tree)
      BY <1>3, <2>1, <2>2, <2>4, StopsAre
    <3> QED
      BY <1>3, <1>5, <2>1, <2>3, <2>4, <3>1 DEF Before
  <2>6. way[n] = frs[n]
    <3>1. frs[n] = [tree |-> frs[n].tree, at |-> frs[n].at]
      BY <1>1 DEF Frame
    <3>2. way[n] = [tree |-> way[n].tree, at |-> way[n].at]
      BY <2>2, <2>4, StopsAre
    <3> QED
      BY <2>5, <3>1, <3>2
  <2>7. Len(way) = n
    <3>1. ~(n < Len(way))
      BY <2>2, <2>4, <2>6, WayGoesOn
    <3> QED
      BY <2>2, <2>4, <3>1
  <2>8. way \in Seq(Frame)
    <3>1. Stops(p) \subseteq Frame
      <4>1. ASSUME NEW stop \in Stops(p) PROVE stop \in Frame
        <5>1. stop = [tree |-> stop.tree, at |-> stop.at] /\ stop.tree \in Tree
              /\ stop.at \in 1..Len(stop.tree) /\ Len(stop.tree) \in Nat
          BY StopsAre
        <5>2. stop.at \in 1..(Len(stop.tree) + 1) /\ stop.at \in Nat
          BY <5>1
        <5> QED
          BY <5>1, <5>2 DEF Frame
      <4> QED
        BY <4>1
    <3> QED
      BY <2>2, <3>1
  <2>9. \A k \in 1..n : way[k] = frs[k]
    BY <1>1, <2>3, <2>4, <2>6
  <2> QED
    BY <2>7, <2>8, <2>9, SeqEqual
<1>6. Before(frs, new)
  <2>1. \A l \in 1..(n - 1) : frs[l] = new[l]
    OBVIOUS
  <2> QED
    BY <1>1, <1>3, <2>1 DEF Before
<1>7. ~Before(frs, frs)
  BY <1>2 DEF Before
<1> QED
  BY <1>4, <1>5, <1>6, <1>7 DEF WaysMet

LEMMA EnterEvalMeets ==
    ASSUME NEW p \in Tree, NEW frs, NEW n \in Nat \ {0}, n = Len(frs),
           NEW new, Len(new) = n + 1, new[n + 1].at = 1,
           \A k \in 1..n : new[k] = frs[k]
    PROVE  WaysMet(p, new) = WaysMet(p, frs)
<1>1. ASSUME NEW way \in WaysToEncoded(p), Before(way, frs) PROVE Before(way, new)
  <2>1. PICK m \in 1..n :
          /\ m <= Len(way)
          /\ \A l \in 1..(m - 1) : way[l] = frs[l]
          /\ way[m].tree = frs[m].tree /\ way[m].at < frs[m].at
    BY <1>1 DEF Before
  <2>2. m \in 1..(n + 1) /\ \A l \in 1..(m - 1) : l \in 1..n
    OBVIOUS
  <2> QED
    BY <2>1, <2>2 DEF Before
<1>2. ASSUME NEW way \in WaysToEncoded(p), Before(way, new) PROVE Before(way, frs)
  <2>1. PICK m \in 1..(n + 1) :
          /\ m <= Len(way)
          /\ \A l \in 1..(m - 1) : way[l] = new[l]
          /\ way[m].tree = new[m].tree /\ way[m].at < new[m].at
    BY <1>2 DEF Before
  <2>2. m \in 1..Len(way) /\ way[m] \in Stops(p)
    BY <2>1, WaysAre
  <2>3. way[m].at \in Nat \ {0}
    BY <2>2, StopsAre
  <2>4. m # n + 1
    BY <2>1, <2>3
  <2>5. m \in 1..n /\ \A l \in 1..(m - 1) : l \in 1..n
    BY <2>4
  <2> QED
    BY <2>1, <2>5 DEF Before
<1> QED
  BY <1>1, <1>2 DEF WaysMet

LEMMA LeaveEvalMeets ==
    ASSUME NEW p \in Tree, NEW frs \in Seq(Frame), NEW n \in Nat, n > 0, Len(frs) = n + 1,
           frs[n + 1].at > Len(frs[n + 1].tree),
           frs[n].at <= Len(frs[n].tree), ~Covered(frs[n].tree, frs[n].at),
           NodeAt(frs[n]).body = frs[n + 1].tree,
           NEW new, Len(new) = n, new[n] = Advanced(frs[n]),
           \A k \in 1..(n - 1) : new[k] = frs[k]
    PROVE  WaysMet(p, new) = WaysMet(p, frs)
<1>1. /\ \A k \in 1..(n + 1) : frs[k] \in Frame
      /\ n \in 1..n /\ n \in 1..(n + 1) /\ n + 1 \in 1..(n + 1)
      /\ \A m \in 1..n : m \in 1..(n - 1) \/ m = n
      /\ \A m \in 1..(n + 1) : m \in 1..(n - 1) \/ m = n \/ m = n + 1
  OBVIOUS
<1>2. \A k \in 1..(n + 1) : frs[k].at \in Nat /\ frs[k].tree \in Tree
  BY <1>1 DEF Frame
<1>3. /\ new[n].tree = frs[n].tree /\ frs[n].at < new[n].at /\ new[n].at \in Nat
      /\ \A i \in Entered(frs[n].tree) : i < new[n].at => i < frs[n].at \/ i = frs[n].at
  <2>1. Advanced(frs[n]).at \in (frs[n].at + 1)..(frs[n].tree[frs[n].at].last + 1)
    BY <1>1, AdvanceShape
  <2>2. frs[n].at < Advanced(frs[n]).at
    BY <1>1, <1>2, <2>1
  <2>3. Advanced(frs[n]).at \in Nat
    BY <1>1, HereIsANode DEF Frame
  <2> QED
    BY <1>1, <2>2, <2>3, AdvanceShape, AdvanceEnters
<1>4. ASSUME NEW way \in WaysToEncoded(p), Before(way, frs) PROVE Before(way, new)
  <2>1. PICK m \in 1..(n + 1) :
          /\ m <= Len(way)
          /\ \A l \in 1..(m - 1) : way[l] = frs[l]
          /\ way[m].tree = frs[m].tree /\ way[m].at < frs[m].at
    BY <1>4 DEF Before
  <2>2. Len(way) \in Nat /\ \A k \in 1..Len(way) : way[k].at \in Nat
    <3>1. Len(way) \in Nat /\ \A k \in 1..Len(way) : way[k] \in Stops(p)
      BY WaysAre
    <3>2. \A stop \in Stops(p) : stop.at \in Nat
      BY StopsAre
    <3> QED
      BY <3>1, <3>2
  <2>3. CASE m \in 1..(n - 1)
    <3>1. m \in 1..n /\ \A l \in 1..(m - 1) : l \in 1..(n - 1)
      BY <2>3
    <3> QED
      BY <2>1, <2>3, <3>1 DEF Before
  <2>4. CASE m = n
    <3>1. \A l \in 1..(n - 1) : way[l] = new[l]
      BY <2>1, <2>4
    <3>2. n \in 1..Len(way)
      BY <1>1, <2>1, <2>2, <2>4
    <3>3. way[n].tree = new[n].tree /\ way[n].at < new[n].at
      BY <1>1, <1>2, <1>3, <2>1, <2>2, <2>4, <3>2
    <3> QED
      BY <1>1, <2>1, <2>4, <3>1, <3>3 DEF Before
  <2>5. CASE m = n + 1
    <3>1. \A l \in 1..n : way[l] = frs[l]
      BY <2>1, <2>5
    <3>2. \A l \in 1..(n - 1) : l \in 1..n
      OBVIOUS
    <3>3. \A l \in 1..(n - 1) : way[l] = new[l]
      BY <3>1, <3>2
    <3>4. way[n].tree = new[n].tree /\ way[n].at < new[n].at
      BY <1>1, <1>3, <3>1
    <3>5. n <= Len(way)
      BY <2>1, <2>2, <2>5
    <3> QED
      BY <1>1, <3>3, <3>4, <3>5 DEF Before
  <2> QED
    BY <1>1, <2>3, <2>4, <2>5
<1>5. ASSUME NEW way \in WaysToEncoded(p), Before(way, new) PROVE Before(way, frs)
  <2>1. PICK m \in 1..n :
          /\ m <= Len(way)
          /\ \A l \in 1..(m - 1) : way[l] = new[l]
          /\ way[m].tree = new[m].tree /\ way[m].at < new[m].at
    BY <1>5 DEF Before
  <2>2. /\ Len(way) \in Nat /\ m \in 1..Len(way) /\ way[m] \in Stops(p) /\ m \in 1..(n + 1)
        /\ \A k \in 1..Len(way) : way[k] \in Stops(p)
    BY <2>1, WaysAre
  <2>3. \A l \in 1..(m - 1) : way[l] = frs[l]
    <3>1. \A l \in 1..(m - 1) : l \in 1..(n - 1)
      OBVIOUS
    <3> QED
      BY <2>1, <3>1
  <2>4. CASE m \in 1..(n - 1)
    BY <2>1, <2>2, <2>3, <2>4 DEF Before
  <2>5. CASE m = n
    <3>1. way[n].at \in Entered(frs[n].tree)
      BY <1>3, <2>1, <2>2, <2>5, StopsAre
    <3>2. way[n].at < frs[n].at \/ way[n].at = frs[n].at
      BY <1>3, <2>1, <2>5, <3>1
    <3>3. CASE way[n].at < frs[n].at
      BY <1>3, <2>1, <2>2, <2>3, <2>5, <3>3 DEF Before
    <3>4. CASE way[n].at = frs[n].at
      <4>1. way[n] = frs[n]
        <5>1. frs[n] = [tree |-> frs[n].tree, at |-> frs[n].at]
          BY <1>1 DEF Frame
        <5>2. way[n] = [tree |-> way[n].tree, at |-> way[n].at]
          BY <2>2, <2>5, StopsAre
        <5> QED
          BY <1>3, <2>1, <2>5, <3>4, <5>1, <5>2
      <4>2. NodeAt(way[n]).body \in Tree /\ NoBody \notin Tree
        BY <1>1, <1>2, <4>1, NestingAssumption DEF NoTree
      <4>3. n \in 1..Len(way) /\ n # Len(way)
        BY <2>2, <2>5, <4>2, WayGoesOn
      <4>4. n + 1 \in 1..Len(way) /\ way[n + 1].tree = frs[n + 1].tree
        BY <2>2, <4>1, <4>3, WayGoesOn
      <4>5. way[n + 1].at < frs[n + 1].at
        <5>1. way[n + 1].at \in 1..Len(way[n + 1].tree) /\ Len(way[n + 1].tree) \in Nat
          BY <2>2, <4>4, StopsAre
        <5> QED
          BY <1>1, <1>2, <4>4, <5>1
      <4>6. \A l \in 1..((n + 1) - 1) : way[l] = frs[l]
        BY <1>1, <2>3, <2>5, <4>1
      <4> QED
        BY <1>1, <2>2, <4>4, <4>5, <4>6 DEF Before
    <3> QED
      BY <3>2, <3>3, <3>4
  <2> QED
    BY <1>1, <2>4, <2>5
<1> QED
  BY <1>4, <1>5 DEF WaysMet

(* At the start nothing was met and at the end everything.                 *)
LEMMA NothingMet ==
    ASSUME NEW p \in Tree, NEW frs, Len(frs) = 1, frs[1].at = 1
    PROVE  WaysMet(p, frs) = {}
<1> SUFFICES ASSUME NEW way \in WaysToEncoded(p), Before(way, frs) PROVE FALSE
  BY DEF WaysMet
<1>1. 1 <= Len(way) /\ way[1].at < 1
  BY DEF Before
<1>2. 1 \in 1..Len(way) /\ way[1] \in Stops(p)
  BY <1>1, WaysAre
<1>3. way[1].at \in Nat \ {0}
  BY <1>2, StopsAre
<1> QED
  BY <1>1, <1>3

LEMMA AllMet ==
    ASSUME NEW p \in Tree, NEW frs, Len(frs) = 1, frs[1].tree = p, frs[1] \in Frame,
           frs[1].at > Len(p)
    PROVE  WaysMet(p, frs) = WaysToEncoded(p)
<1> SUFFICES ASSUME NEW way \in WaysToEncoded(p) PROVE Before(way, frs)
  BY DEF WaysMet
<1>1. 1 \in 1..Len(way) /\ 1 <= Len(way) /\ way[1] \in Stops(p) /\ way[1].tree = p
  BY WaysAre DEF IsWay
<1>2. way[1].at \in 1..Len(p) /\ Len(p) \in Nat
  BY <1>1, StopsAre
<1>3. way[1].at < frs[1].at
  BY <1>2 DEF Frame
<1>4. \A l \in 1..(1 - 1) : way[l] = frs[l]
  OBVIOUS
<1> QED
  BY <1>1, <1>3, <1>4 DEF Before

(***************************************************************************)
(* What each step remembers of what it has met.                            *)
(***************************************************************************)
Quiet(src, new) ==
    /\ new.encoded = src.encoded
    /\ Len(src.warnings) \in Nat /\ Len(new.warnings) \in Nat
    /\ Len(src.warnings) <= Len(new.warnings)
    /\ \A i \in 1..Len(src.warnings) : new.warnings[i] = src.warnings[i]
    /\ \A i \in 1..Len(new.warnings) :
          i > Len(src.warnings) => new.warnings[i].kind # "encoded-literal"

LEMMA QuietKeepsTally ==
    ASSUME NEW src, Sound(src), NEW new, Quiet(src, new), NEW ways, Tally(src, ways)
    PROVE  Tally(new, ways)
<1>1. src.warnings \in Seq(Warned) /\ DOMAIN src.warnings = 1..Len(src.warnings)
  BY DEF Sound, SourceFile
<1>2. new.encoded = src.encoded
  BY DEF Quiet
<1>3. \A value \in DOMAIN src.encoded : src.encoded[value] \in 1..Len(src.warnings)
  BY <1>1 DEF Sound, PlacesHold
<1>4. ASSUME NEW i \in 1..Len(new.warnings), new.warnings[i].kind = "encoded-literal"
      PROVE  /\ new.warnings[i].value \in DOMAIN new.encoded
             /\ new.encoded[new.warnings[i].value] = i
  <2>1. i \in 1..Len(src.warnings) /\ new.warnings[i] = src.warnings[i]
    BY <1>4 DEF Quiet
  <2> QED
    BY <1>2, <1>4, <2>1 DEF Tally
<1>5. \A value \in DOMAIN src.encoded :
         new.warnings[new.encoded[value]] = src.warnings[src.encoded[value]]
  BY <1>2, <1>3 DEF Quiet
<1> QED
  BY <1>2, <1>4, <1>5 DEF Tally, TooManyEncoded

LEMMA QuietIsTransitive ==
    ASSUME NEW src, NEW mid, NEW new, Quiet(src, mid), Quiet(mid, new)
    PROVE  Quiet(src, new)
<1>1. \A i \in 1..Len(src.warnings) : i \in 1..Len(mid.warnings)
  BY DEF Quiet
<1>2. \A i \in 1..Len(new.warnings) :
         i > Len(src.warnings) /\ ~(i > Len(mid.warnings)) => i \in 1..Len(mid.warnings)
  BY DEF Quiet
<1> QED
  BY <1>1, <1>2 DEF Quiet

LEMMA AppendIsQuiet ==
    ASSUME NEW src, src.warnings \in Seq(Warned), NEW new, new.encoded = src.encoded,
           NEW kind \in {"unsafe-import", "unsafe-stmt"}, NEW value \in Value,
           new.warnings = Append(src.warnings, Warning(kind, value))
    PROVE  Quiet(src, new)
<1> DEFINE w == Warning(kind, value)
<1>1. w \in Warned /\ w.kind = kind
  BY DEF Warning, Warned, WarningKind
<1> HIDE DEF w
<1>2. /\ Len(new.warnings) = Len(src.warnings) + 1 /\ Len(src.warnings) \in Nat
      /\ \A i \in 1..Len(src.warnings) : new.warnings[i] = src.warnings[i]
      /\ new.warnings[Len(src.warnings) + 1] = w
  BY <1>1, AppendProperties DEF w
<1>3. \A i \in 1..Len(new.warnings) : i > Len(src.warnings) => i = Len(src.warnings) + 1
  BY <1>2
<1> QED
  BY <1>1, <1>2, <1>3 DEF Quiet

LEMMA WarnIsQuiet ==
    ASSUME NEW src \in SourceFile, NEW kind \in {"unsafe-import", "unsafe-stmt"},
           NEW value \in Value
    PROVE  Quiet(src, Warn(src, kind, value))
<1>1. src.warnings \in Seq(Warned)
  BY DEF SourceFile
<1>2. /\ Warn(src, kind, value).warnings = Append(src.warnings, Warning(kind, value))
      /\ Warn(src, kind, value).encoded = src.encoded
  BY DEF Warn, SourceFile
<1> QED
  BY <1>1, <1>2, AppendIsQuiet

LEMMA SameIsQuiet ==
    ASSUME NEW src, src.warnings \in Seq(Warned), NEW new,
           new.warnings = src.warnings, new.encoded = src.encoded
    PROVE  Quiet(src, new)
  BY DEF Quiet

LEMMA AddDependencyIsQuiet ==
    ASSUME NEW src \in SourceFile, NEW written \in DOMAIN Cleaned,
           NEW unsafe \in BOOLEAN, NEW auto \in BOOLEAN
    PROVE  Quiet(src, AddDependency(src, written, unsafe, auto))
<1> DEFINE name == Cleaned[written]
           d == With(src.dependencies, name, [unsafe |-> unsafe, inTry |-> src.inTry])
           c == IF name = OwnName \/ src.collected = NoSets THEN src.collected
                ELSE Append(src.collected, [name |-> name, unsafe |-> unsafe,
                                            inTry |-> src.inTry])
           listed == [src EXCEPT !.dependencies = d, !.collected = c]
           warned == Warn(listed, "unsafe-import", name)
<1>1. AddDependency(src, written, unsafe, auto) =
         IF name = Blank THEN src ELSE IF auto THEN warned ELSE listed
  BY DEF AddDependency
<1>2. src.warnings \in Seq(Warned)
  BY DEF SourceFile
<1> HIDE DEF d, c
<1>3. /\ listed.warnings = src.warnings /\ listed.encoded = src.encoded
      /\ warned.warnings = Append(src.warnings, Warning("unsafe-import", name))
      /\ warned.encoded = src.encoded
  BY DEF Warn, SourceFile
<1> HIDE DEF listed, warned
<1>4. Quiet(src, src) /\ Quiet(src, listed)
  BY <1>2, <1>3, SameIsQuiet
<1>5. name # Blank => Quiet(src, warned)
  <2>1. name # Blank => name \in Value
    BY SourceAssumption DEF Names, Value
  <2> QED
    BY <1>2, <1>3, <2>1, AppendIsQuiet
<1> QED
  BY <1>1, <1>4, <1>5

LEMMA WaysGrow ==
    ASSUME NEW ways, NEW way, way \notin ways, IsFiniteSet(ways)
    PROVE  /\ IsFiniteSet(ways \cup {way})
           /\ ValuesOf(ways \cup {way}) = ValuesOf(ways) \cup {Goal(way).name}
           /\ \A value : value # Goal(way).name
                => WaysTo(value, ways \cup {way}) = WaysTo(value, ways)
           /\ Cardinality(WaysTo(Goal(way).name, ways \cup {way}))
                = Cardinality(WaysTo(Goal(way).name, ways)) + 1
           /\ Cardinality(WaysTo(Goal(way).name, ways)) \in Nat
<1> DEFINE here == WaysTo(Goal(way).name, ways)
<1>1. IsFiniteSet(ways \cup {way})
  BY FS_AddElement
<1>2. WaysTo(Goal(way).name, ways \cup {way}) = here \cup {way} /\ way \notin here
  BY DEF WaysTo
<1>3. IsFiniteSet(here)
  BY FS_Subset DEF WaysTo
<1>4. Cardinality(here \cup {way}) = Cardinality(here) + 1 /\ Cardinality(here) \in Nat
  <2> HIDE DEF here
  <2> QED
    BY <1>2, <1>3, FS_AddElement, FS_CardinalityType
<1> QED
  BY <1>1, <1>2, <1>4 DEF ValuesOf, WaysTo

LEMMA AddEncodedLiteralTallies ==
    ASSUME NEW src, Sound(src), NEW ways, Tally(src, ways), NEW way, way \notin ways,
           Goal(way).name \in Value
    PROVE  Tally(AddEncodedLiteral(src, Goal(way).name), ways \cup {way})
<1> DEFINE value == Goal(way).name
           more == ways \cup {way}
           new == AddEncodedLiteral(src, value)
<1>1. /\ src \in SourceFile /\ src.warnings \in Seq(Warned)
      /\ DOMAIN src.warnings = 1..Len(src.warnings) /\ Len(src.warnings) \in Nat
  BY DEF Sound, SourceFile
<1>2. /\ IsFiniteSet(more) /\ ValuesOf(more) = ValuesOf(ways) \cup {value}
      /\ \A v : v # value => WaysTo(v, more) = WaysTo(v, ways)
      /\ Cardinality(WaysTo(value, more)) = Cardinality(WaysTo(value, ways)) + 1
      /\ IsFiniteSet(ways)
  <2>1. IsFiniteSet(ways)
    BY DEF Tally
  <2> QED
    BY <2>1, WaysGrow
<1>3. /\ IsFiniteSet(DOMAIN src.encoded) /\ DOMAIN src.encoded \subseteq ValuesOf(ways)
      /\ \A i \in 1..Len(src.warnings) : src.warnings[i].kind = "encoded-literal" =>
            /\ src.warnings[i].value \in DOMAIN src.encoded
            /\ src.encoded[src.warnings[i].value] = i
      /\ ~TooManyEncoded(src) =>
          /\ ValuesOf(ways) \subseteq DOMAIN src.encoded
          /\ \A v \in DOMAIN src.encoded :
                src.warnings[src.encoded[v]].places = Cardinality(WaysTo(v, ways))
  BY DEF Tally
<1>4. \A v \in DOMAIN src.encoded :
         /\ src.encoded[v] \in 1..Len(src.warnings)
         /\ src.warnings[src.encoded[v]].kind = "encoded-literal"
         /\ src.warnings[src.encoded[v]].value = v
  BY <1>1 DEF Sound, PlacesHold
<1>5. CASE TooManyEncoded(src)
  <2>1. new = src
    BY <1>5 DEF AddEncodedLiteral, TooManyEncoded
  <2> HIDE DEF new, more, value
  <2> QED
    BY <1>2, <1>3, <1>5, <2>1 DEF Tally, new, more, value
<1>6. CASE ~TooManyEncoded(src) /\ value \in DOMAIN src.encoded
  <2> DEFINE place == src.encoded[value]
             one == [src.warnings[place] EXCEPT !.places = @ + 1]
             warnings == [src.warnings EXCEPT ![place] = one]
  <2>1. new = [src EXCEPT !.warnings = warnings]
    BY <1>6 DEF AddEncodedLiteral, TooManyEncoded
  <2>2. /\ place \in 1..Len(src.warnings) /\ src.warnings[place].value = value
        /\ src.warnings[place].kind = "encoded-literal"
    BY <1>4, <1>6
  <2>3. src.warnings[place] \in Warned
    BY <1>1, <2>2
  <2>4. /\ one.kind = src.warnings[place].kind /\ one.value = src.warnings[place].value
        /\ one.places = src.warnings[place].places + 1 /\ one \in Warned
    BY <2>3 DEF Warned
  <2> HIDE DEF one
  <2>5. /\ Len(warnings) = Len(src.warnings) /\ warnings[place] = one
        /\ \A i \in 1..Len(src.warnings) : i # place => warnings[i] = src.warnings[i]
    BY <1>1, <2>2
  <2> HIDE DEF warnings
  <2>6. new.warnings = warnings /\ new.encoded = src.encoded
    BY <1>1, <2>1 DEF SourceFile
  <2> HIDE DEF new, value, more
  <2>7. \A i \in 1..Len(warnings) :
           warnings[i].kind = src.warnings[i].kind /\ warnings[i].value = src.warnings[i].value
    BY <2>2, <2>4, <2>5
  <2>8. ValuesOf(more) \subseteq DOMAIN src.encoded
    BY <1>2, <1>3, <1>6
  <2>9. ASSUME NEW v \in DOMAIN src.encoded
        PROVE  warnings[src.encoded[v]].places = Cardinality(WaysTo(v, more))
    <3>1. CASE v = value
      <4>1. src.warnings[place].places = Cardinality(WaysTo(value, ways))
        BY <1>3, <1>6
      <4> QED
        BY <1>2, <2>4, <2>5, <3>1, <4>1
    <3>2. CASE v # value
      <4>1. src.encoded[v] # place /\ src.encoded[v] \in 1..Len(src.warnings)
        BY <1>4, <2>2, <3>2
      <4> QED
        BY <1>2, <1>3, <1>6, <2>5, <3>2, <4>1
    <3> QED
      BY <3>1, <3>2
  <2>10. Tally(new, more)
    <3>1. \A i \in 1..Len(new.warnings) : new.warnings[i].kind = "encoded-literal" =>
            /\ new.warnings[i].value \in DOMAIN new.encoded
            /\ new.encoded[new.warnings[i].value] = i
      BY <1>3, <2>5, <2>6, <2>7
    <3> QED
      BY <1>2, <1>3, <2>6, <2>8, <2>9, <3>1 DEF Tally
  <2> QED
    BY <2>10 DEF new, value, more
<1>7. CASE ~TooManyEncoded(src) /\ value \notin DOMAIN src.encoded
  <2> DEFINE warned == Warn(src, "encoded-literal", value)
             last == Len(src.warnings) + 1
             encoded == With(src.encoded, value, last)
             w == Warning("encoded-literal", value)
  <2>1. w \in Warned /\ w.kind = "encoded-literal" /\ w.value = value /\ w.places = 1
    BY DEF Warning, Warned, WarningKind
  <2>2. warned.warnings = Append(src.warnings, w)
    BY <1>1 DEF Warn, SourceFile
  <2>3. new = [warned EXCEPT !.encoded = With(@, value, Len(warned.warnings))]
    BY <1>7 DEF AddEncodedLiteral, TooManyEncoded, IndexOfLast
  <2>4. new.warnings = Append(src.warnings, w) /\ new.encoded = With(src.encoded, value, Len(warned.warnings))
    <3> HIDE DEF w
    <3>1. warned = [src EXCEPT !.warnings = Append(src.warnings, w)]
      BY DEF Warn, w
    <3> QED
      BY <1>1, <2>3, <3>1 DEF SourceFile
  <2> HIDE DEF new, w, warned
  <2>5. /\ Len(new.warnings) = last /\ new.warnings[last] = w
        /\ \A i \in 1..Len(src.warnings) : new.warnings[i] = src.warnings[i]
    BY <1>1, <2>1, <2>4, AppendProperties
  <2>6. new.encoded = encoded
    BY <1>1, <2>1, <2>2, <2>4, AppendProperties
  <2>7. /\ DOMAIN encoded = DOMAIN src.encoded \cup {value} /\ encoded[value] = last
        /\ \A v \in DOMAIN src.encoded : encoded[v] = src.encoded[v]
    BY <1>7 DEF With
  <2>8. IsFiniteSet(DOMAIN encoded)
    BY <1>3, <2>7, FS_AddElement
  <2> HIDE DEF encoded, last, value, more
  <2>9. \A i \in 1..Len(new.warnings) : i \in 1..Len(src.warnings) \/ i = last
    BY <1>1, <2>5 DEF last
  <2>10. \A i \in 1..Len(new.warnings) : new.warnings[i].kind = "encoded-literal" =>
            /\ new.warnings[i].value \in DOMAIN encoded
            /\ encoded[new.warnings[i].value] = i
    BY <1>3, <2>1, <2>5, <2>7, <2>9
  <2>11. ValuesOf(more) \subseteq DOMAIN encoded /\ DOMAIN encoded \subseteq ValuesOf(more)
    BY <1>2, <1>3, <1>7, <2>7
  <2>12. ASSUME NEW v \in DOMAIN encoded
         PROVE  new.warnings[encoded[v]].places = Cardinality(WaysTo(v, more))
    <3>1. CASE v = value
      <4>1. value \notin ValuesOf(ways)
        BY <1>3, <1>7
      <4>2. WaysTo(value, ways) = {}
        BY <4>1 DEF WaysTo, ValuesOf
      <4>3. Cardinality(WaysTo(value, more)) = 1
        BY <1>2, <4>2, FS_EmptySet
      <4> QED
        BY <2>1, <2>5, <2>7, <3>1, <4>3
    <3>2. CASE v # value
      <4>1. v \in DOMAIN src.encoded /\ src.encoded[v] \in 1..Len(src.warnings)
        BY <1>4, <2>7, <3>2
      <4> QED
        BY <1>2, <1>3, <1>7, <2>5, <2>7, <3>2, <4>1
    <3> QED
      BY <3>1, <3>2
  <2>13. Tally(new, more)
    BY <1>2, <2>6, <2>8, <2>10, <2>11, <2>12 DEF Tally
  <2> QED
    BY <2>13 DEF new, value, more
<1> QED
  BY <1>5, <1>6, <1>7

(* A node that is no encoded literal leaves what is remembered of them.    *)
LEMMA OthersAreQuiet ==
    ASSUME Walking, AtNode, Here.kind # "Encoded"
    PROVE  Quiet(source, AfterHere)
<1> DEFINE src == Bookkept(source, Here)
           node == Here
<1>1. Sound(src) /\ source \in SourceFile /\ source.warnings \in Seq(Warned)
  BY BookkeptKeeps DEF Walking, Sound, SourceFile
<1>2. /\ src \in SourceFile /\ src.warnings = source.warnings
      /\ src.encoded = source.encoded
  BY <1>1 DEF Sound, Bookkept, SourceFile
<1>3. AfterHere = Probed(src, node) /\ node.kind # "Encoded"
  BY DEF AfterHere
<1>4. node.kind \in DependencyKind => node.name \in DOMAIN Cleaned
  <2>1. Top \in Frame /\ Top.at <= Len(Top.tree)
    BY TopIsAFrame DEF AtNode
  <2> QED
    BY <2>1, HereIsANode DEF Here
<1>5. NotJs \in Value /\ Quiet(source, src)
  BY <1>1, <1>2, SameIsQuiet DEF Value
<1> HIDE DEF src, node
<1>6. ASSUME node.kind \in DependencyKind, NEW unsafe \in BOOLEAN, NEW auto \in BOOLEAN
      PROVE  /\ Quiet(source, AddDependency(src, node.name, unsafe, auto))
             /\ AddDependency(src, node.name, unsafe, auto) \in SourceFile
  <2>1. Quiet(src, AddDependency(src, node.name, unsafe, auto))
    BY <1>2, <1>4, <1>6, AddDependencyIsQuiet
  <2>2. AddDependency(src, node.name, unsafe, auto) \in SourceFile
    BY <1>1, <1>4, <1>6, AddDependencyKeeps DEF Kept, Sound, src
  <2>3. Quiet(source, AddDependency(src, node.name, unsafe, auto))
    BY <1>5, <2>1, QuietIsTransitive
  <2> QED
    BY <2>2, <2>3
<1>7. ASSUME NEW mid \in SourceFile, Quiet(source, mid),
             NEW kind \in {"unsafe-import", "unsafe-stmt"}
      PROVE  Quiet(source, Warn(mid, kind, NotJs))
  <2>1. Quiet(mid, Warn(mid, kind, NotJs))
    BY <1>5, <1>7, WarnIsQuiet
  <2> QED
    BY <1>7, <2>1, QuietIsTransitive
<1>8. CASE node.kind = "Import"
  <2>1. AfterHere = AddDependency(src, node.name, FALSE, FALSE)
    BY <1>3, <1>8 DEF Probed
  <2> QED
    BY <1>6, <1>8, <2>1 DEF DependencyKind
<1>9. CASE node.kind = "Joined"
  <2>1. AfterHere = AddDependency(src, node.name, TRUE, FALSE)
    BY <1>3, <1>9 DEF Probed
  <2> QED
    BY <1>6, <1>9, <2>1 DEF DependencyKind
<1>10. CASE node.kind = "Built"
  <2>1. AfterHere = Warn(AddDependency(src, node.name, TRUE, FALSE), "unsafe-import", NotJs)
    BY <1>3, <1>10 DEF Probed
  <2>2. /\ Quiet(source, AddDependency(src, node.name, TRUE, FALSE))
        /\ AddDependency(src, node.name, TRUE, FALSE) \in SourceFile
    BY <1>6, <1>10 DEF DependencyKind
  <2> QED
    BY <1>7, <2>1, <2>2
<1>11. CASE node.kind = "RequireByEval"
  <2>1. AfterHere = Warn(AddDependency(src, node.name, TRUE, TRUE), "unsafe-stmt", NotJs)
    BY <1>3, <1>11 DEF Probed
  <2>2. /\ Quiet(source, AddDependency(src, node.name, TRUE, TRUE))
        /\ AddDependency(src, node.name, TRUE, TRUE) \in SourceFile
    BY <1>6, <1>11 DEF DependencyKind
  <2> QED
    BY <1>7, <2>1, <2>2
<1>12. CASE node.kind = "Eval"
  <2>1. AfterHere = Warn(src, "unsafe-stmt", NotJs)
    BY <1>3, <1>12 DEF Probed
  <2> QED
    BY <1>2, <1>5, <1>7, <2>1
<1>13. CASE node.kind \notin {"Import", "Joined", "Built", "RequireByEval", "Eval"}
  <2>1. AfterHere = src
    BY <1>3, <1>13 DEF Probed
  <2> QED
    BY <1>5, <2>1
<1> QED
  BY <1>8, <1>9, <1>10, <1>11, <1>12, <1>13

LEMMA EncodedIsTallied ==
    ASSUME Walking, AtNode, Here.kind = "Encoded", NEW ways, Tally(source, ways),
           NEW way, way \notin ways, Goal(way) = Here
    PROVE  Tally(AfterHere, ways \cup {way})
<1>1. AfterHere = AddEncodedLiteral(source, Here.name)
  BY DEF AfterHere, Probed, Bookkept
<1>2. Here.name \in Value /\ Sound(source)
  BY AfterHereKeeps DEF SyntaxNode, Walking
<1> QED
  BY <1>1, <1>2, AddEncodedLiteralTallies

(***************************************************************************)
(* The summary at the end.                                                 *)
(***************************************************************************)
(* The recursion over the warnings, unfolded.                              *)
IsKept(kept, warnings, n) ==
    kept = [i \in 0..n |->
              IF i = 0 THEN << >>
              ELSE IF warnings[i].kind = "encoded-literal" THEN kept[i - 1]
              ELSE Append(kept[i - 1], warnings[i])]

LEMMA KeptExists ==
    ASSUME NEW warnings, NEW n \in Nat
    PROVE  \E kept : IsKept(kept, warnings, n)
<1> DEFINE S == {m \in Nat : \E kept : IsKept(kept, warnings, m)}
<1>1. 0 \in S
  <2>1. IsKept([i \in 0..0 |-> << >>], warnings, 0)
    BY DEF IsKept
  <2> QED
    BY <2>1
<1>2. ASSUME NEW m \in S PROVE m + 1 \in S
  <2>1. m \in Nat /\ \E f : IsKept(f, warnings, m)
    OBVIOUS
  <2>2. PICK kept : IsKept(kept, warnings, m)
    BY <2>1
  <2> DEFINE w == warnings[m + 1]
             new == [i \in 0..(m + 1) |->
                       IF i = m + 1
                       THEN IF w.kind = "encoded-literal" THEN kept[m] ELSE Append(kept[m], w)
                       ELSE kept[i]]
  <2>3. \A i \in 0..(m + 1) : i \in 0..m \/ i = m + 1
    BY <2>1
  <2>4. \A i \in 0..m : kept[i] =
           IF i = 0 THEN << >>
           ELSE IF warnings[i].kind = "encoded-literal" THEN kept[i - 1]
           ELSE Append(kept[i - 1], warnings[i])
    BY <2>2 DEF IsKept
  <2>5. ASSUME NEW i \in 0..(m + 1)
        PROVE  new[i] = IF i = 0 THEN << >>
                        ELSE IF warnings[i].kind = "encoded-literal" THEN new[i - 1]
                        ELSE Append(new[i - 1], warnings[i])
    <3>1. CASE i = m + 1
      <4>1. i - 1 = m /\ i # 0 /\ m \in 0..(m + 1) /\ m # m + 1
        BY <2>1, <3>1
      <4>2. new[i - 1] = kept[m]
        BY <4>1
      <4> QED
        BY <3>1, <4>1, <4>2
    <3>2. CASE i \in 0..m /\ i # 0
      <4>1. i # m + 1 /\ i - 1 \in 0..m /\ i - 1 # m + 1 /\ i - 1 \in 0..(m + 1)
        BY <2>1, <3>2
      <4>2. new[i - 1] = kept[i - 1] /\ new[i] = kept[i]
        BY <4>1
      <4> QED
        BY <2>4, <3>2, <4>2
    <3>3. CASE i = 0
      <4>1. 0 \in 0..m /\ 0 # m + 1
        BY <2>1
      <4> QED
        BY <2>4, <3>3, <4>1
    <3> QED
      BY <2>3, <3>1, <3>2, <3>3
  <2>6. new = [i \in 0..(m + 1) |->
                 IF i = 0 THEN << >>
                 ELSE IF warnings[i].kind = "encoded-literal" THEN new[i - 1]
                 ELSE Append(new[i - 1], warnings[i])]
    <3>1. new = [i \in 0..(m + 1) |-> new[i]]
      OBVIOUS
    <3> HIDE DEF new
    <3> QED
      BY <2>5, <3>1
  <2>7. IsKept(new, warnings, m + 1)
    <3> HIDE DEF new
    <3> QED
      BY <2>6 DEF IsKept
  <2> HIDE DEF new
  <2> QED
    BY <2>1, <2>7
<1>3. \A m \in Nat : m \in S
  <2> HIDE DEF S
  <2>1. S \in SUBSET Nat
    BY DEF S
  <2> QED
    BY <1>1, <1>2, <2>1, SetInduction
<1> QED
  BY <1>3

LEMMA RetainedUnfolds ==
    ASSUME NEW warnings, Len(warnings) \in Nat
    PROVE  \E kept : /\ IsKept(kept, warnings, Len(warnings))
                     /\ Retained(warnings) = kept[Len(warnings)]
<1> DEFINE n == Len(warnings)
           kept == CHOOSE f : f = [i \in 0..n |->
                      IF i = 0 THEN << >>
                      ELSE IF warnings[i].kind = "encoded-literal" THEN f[i - 1]
                      ELSE Append(f[i - 1], warnings[i])]
<1>1. Retained(warnings) = kept[n]
  BY DEF Retained
<1>2. \E f : f = [i \in 0..n |->
                IF i = 0 THEN << >>
                ELSE IF warnings[i].kind = "encoded-literal" THEN f[i - 1]
                ELSE Append(f[i - 1], warnings[i])]
  BY KeptExists DEF IsKept
<1>3. kept = [i \in 0..n |->
                IF i = 0 THEN << >>
                ELSE IF warnings[i].kind = "encoded-literal" THEN kept[i - 1]
                ELSE Append(kept[i - 1], warnings[i])]
  BY <1>2
<1> HIDE DEF kept, n
<1>4. IsKept(kept, warnings, n)
  BY <1>3 DEF IsKept
<1> QED
  BY <1>1, <1>4 DEF n

LEMMA SummarisedShape ==
    ASSUME NEW src, src.warnings \in Seq(Warned)
    PROVE  /\ About("encoded-literal", Summarised(src)) = {}
           /\ Cardinality(About("suspicious-file", Summarised(src))) = 1
<1> DEFINE last == Warning("suspicious-file", NotJs)
           warnings == Append(src.warnings, last)
           n == Len(src.warnings)
           Rest == {w \in Warned : w.kind # "encoded-literal"}
<1>1. last.kind = "suspicious-file"
  BY DEF Warning
<1>2. /\ Len(warnings) = n + 1 /\ n \in Nat /\ warnings[n + 1] = last
      /\ \A i \in 1..n : warnings[i] = src.warnings[i] /\ warnings[i] \in Warned
  <2> DEFINE any == Warned \cup {last}
  <2>1. src.warnings \in Seq(any) /\ last \in any
    OBVIOUS
  <2> HIDE DEF any, last
  <2>2. \A i \in 1..n : src.warnings[i] \in Warned
    OBVIOUS
  <2> QED
    BY <2>1, <2>2, AppendProperties
<1> HIDE DEF warnings, last
<1>3. PICK kept : IsKept(kept, warnings, n + 1) /\ Retained(warnings) = kept[n + 1]
  BY <1>2, RetainedUnfolds
<1>4. \A i \in 0..(n + 1) : kept[i] =
         IF i = 0 THEN << >>
         ELSE IF warnings[i].kind = "encoded-literal" THEN kept[i - 1]
         ELSE Append(kept[i - 1], warnings[i])
  BY <1>3 DEF IsKept
<1>5. kept[n] \in Seq(Rest)
  <2> DEFINE S == {m \in Nat : m <= n => kept[m] \in Seq(Rest)}
  <2>1. 0 \in S
    <3>1. kept[0] = << >>
      BY <1>2, <1>4
    <3>2. << >> \in Seq(Rest) /\ 0 \in Nat
      OBVIOUS
    <3> HIDE DEF Rest
    <3> QED
      BY <3>1, <3>2
  <2>2. ASSUME NEW m \in S PROVE m + 1 \in S
    <3> SUFFICES ASSUME m + 1 <= n PROVE kept[m + 1] \in Seq(Rest)
      OBVIOUS
    <3>1. m \in Nat /\ m + 1 \in 0..(n + 1) /\ m + 1 \in 1..n /\ (m + 1) - 1 = m
      BY <1>2
    <3>2. kept[m] \in Seq(Rest)
      BY <1>2, <3>1
    <3>3. warnings[m + 1] \in Warned
      BY <1>2, <3>1
    <3>4. kept[m + 1] = IF warnings[m + 1].kind = "encoded-literal" THEN kept[m]
                        ELSE Append(kept[m], warnings[m + 1])
      BY <1>4, <3>1
    <3>5. warnings[m + 1].kind # "encoded-literal" => warnings[m + 1] \in Rest
      BY <3>3
    <3> HIDE DEF Rest
    <3> QED
      BY <3>2, <3>4, <3>5
  <2>3. \A m \in Nat : m \in S
    <3>1. S \in SUBSET Nat
      OBVIOUS
    <3> HIDE DEF S
    <3> QED
      BY <2>1, <2>2, <3>1, SetInduction
  <2> QED
    BY <1>2, <2>3
<1>6. kept[n + 1] = Append(kept[n], last)
  <2>1. n + 1 \in 0..(n + 1) /\ (n + 1) - 1 = n /\ n + 1 # 0
    BY <1>2
  <2>2. warnings[n + 1].kind # "encoded-literal"
    BY <1>1, <1>2
  <2> QED
    BY <1>2, <1>4, <2>1, <2>2
<1> DEFINE all == Append(kept[n], last)
           m == Len(kept[n])
<1>7. /\ Len(all) = m + 1 /\ m \in Nat /\ all[m + 1] = last
      /\ \A i \in 1..m : all[i] \in Rest
  <2> DEFINE any == Rest \cup {last}
  <2>1. kept[n] \in Seq(any) /\ last \in any
    BY <1>5
  <2>2. \A i \in 1..m : kept[n][i] \in Rest
    BY <1>5
  <2> HIDE DEF any, Rest
  <2> QED
    BY <1>5, <2>1, <2>2, AppendProperties
<1>8. \A i \in 1..m : all[i].kind \notin {"encoded-literal", "suspicious-file"}
  BY <1>7 DEF Warned, WarningKind
<1> HIDE DEF all, m
<1>9. \A i \in 1..Len(all) : i \in 1..m \/ i = m + 1
  BY <1>7
<1>10. About("encoded-literal", all) = {}
  BY <1>1, <1>7, <1>8, <1>9 DEF About
<1>11. About("suspicious-file", all) = {m + 1}
  <2>1. m + 1 \in 1..Len(all)
    BY <1>7
  <2> QED
    BY <1>1, <1>7, <1>8, <1>9, <2>1 DEF About
<1>12. Summarised(src) = all
  BY <1>3, <1>6 DEF Summarised, warnings, last, all
<1> QED
  BY <1>10, <1>11, <1>12, FS_Singleton

LEMMA ValuesAreFinite ==
    ASSUME NEW ways, IsFiniteSet(ways)
    PROVE  IsFiniteSet(ValuesOf(ways))
<1> DEFINE f == [way \in ways |-> Goal(way).name]
<1>1. f \in [ways -> ValuesOf(ways)]
  BY DEF ValuesOf
<1>2. \A value \in ValuesOf(ways) : \E way \in ways : f[way] = value
  BY DEF ValuesOf
<1> HIDE DEF f
<1>3. f \in Surjection(ways, ValuesOf(ways))
  BY <1>1, <1>2, Fun_IsSurj
<1> QED
  BY <1>3, FS_Surjection

LEMMA TallyIsSummary ==
    ASSUME NEW src, Sound(src), NEW ways, Tally(src, ways)
    PROVE  Counted(IF TooManyEncoded(src) THEN Summarised(src) ELSE src.warnings, ways)
<1>1. /\ src \in SourceFile /\ src.warnings \in Seq(Warned)
      /\ DOMAIN src.warnings = 1..Len(src.warnings) /\ Len(src.warnings) \in Nat
      /\ \A i \in 1..Len(src.warnings) : src.warnings[i] \in Warned
  BY DEF Sound, SourceFile
<1>2. /\ IsFiniteSet(ways) /\ IsFiniteSet(DOMAIN src.encoded)
      /\ DOMAIN src.encoded \subseteq ValuesOf(ways)
  BY DEF Tally
<1>3. /\ IsFiniteSet(ValuesOf(ways))
      /\ Cardinality(DOMAIN src.encoded) <= Cardinality(ValuesOf(ways))
      /\ Cardinality(DOMAIN src.encoded) \in Nat /\ Cardinality(ValuesOf(ways)) \in Nat
  BY <1>2, ValuesAreFinite, FS_Subset, FS_CardinalityType
<1>4. CASE TooManyEncoded(src)
  <2>1. Cardinality(ValuesOf(ways)) > MaxEncoded
    BY <1>3, <1>4, SourceAssumption DEF TooManyEncoded
  <2> QED
    BY <1>1, <1>4, <2>1, SummarisedShape DEF Counted
<1>5. CASE ~TooManyEncoded(src)
  <2> DEFINE about == About("encoded-literal", src.warnings)
             values == DOMAIN src.encoded
             place == [v \in values |-> src.encoded[v]]
  <2>1. ValuesOf(ways) = values
    BY <1>2, <1>5 DEF Tally
  <2>2. ~(Cardinality(ValuesOf(ways)) > MaxEncoded)
    BY <1>5, <2>1 DEF TooManyEncoded
  <2>3. About("suspicious-file", src.warnings) = {}
    BY <1>1 DEF About, Warned, WarningKind
  <2>4. \A v \in values :
           /\ src.encoded[v] \in 1..Len(src.warnings) /\ src.encoded[v] \in about
           /\ src.warnings[src.encoded[v]].kind = "encoded-literal"
           /\ src.warnings[src.encoded[v]].value = v
    BY <1>1 DEF Sound, PlacesHold, About
  <2>5. \A i \in about : src.warnings[i].value \in values /\ src.encoded[src.warnings[i].value] = i
    BY DEF Tally, About
  <2>6. Cardinality(about) = Cardinality(values)
    <3>1. place \in [values -> about]
      BY <2>4
    <3>2. \A a, b \in values : place[a] = place[b] => a = b
      BY <2>4
    <3>3. \A i \in about : \E v \in values : place[v] = i
      BY <2>5
    <3> HIDE DEF place, about, values
    <3>4. place \in Injection(values, about)
      BY <3>1, <3>2, Fun_IsInj
    <3>6. place \in Surjection(values, about)
      BY <3>1, <3>3, Fun_IsSurj
    <3>5. IsFiniteSet(values)
      BY <1>2 DEF values
    <3> QED
      BY <3>4, <3>5, <3>6, FS_Surjection
  <2>7. ASSUME NEW v \in ValuesOf(ways)
        PROVE  \E i \in 1..Len(src.warnings) :
                  src.warnings[i] = [kind |-> "encoded-literal", value |-> v,
                                     places |-> Cardinality(WaysTo(v, ways))]
    <3> DEFINE w == src.warnings[src.encoded[v]]
    <3>1. /\ w \in Warned /\ w.kind = "encoded-literal" /\ w.value = v
          /\ src.encoded[v] \in 1..Len(src.warnings)
      BY <1>1, <2>1, <2>4
    <3>2. w.places = Cardinality(WaysTo(v, ways))
      BY <1>5, <2>1 DEF Tally
    <3>3. w = [kind |-> w.kind, value |-> w.value, places |-> w.places]
      BY <3>1 DEF Warned
    <3> QED
      BY <3>1, <3>2, <3>3
  <2> HIDE DEF about, values
  <2>8. Counted(src.warnings, ways)
    BY <2>1, <2>2, <2>3, <2>6, <2>7 DEF Counted, about
  <2> QED
    BY <1>5, <2>8
<1> QED
  BY <1>4, <1>5

(***************************************************************************)
(* The steps.                                                              *)
(***************************************************************************)
LEMMA EnterCount ==
    ASSUME SourceInv, ReachInv, CountInv, Enter
    PROVE  CountInv'
<1> DEFINE n == Len(frames)
<1>1. /\ phase = "walking" /\ Walking /\ AtNode /\ ReachRight(program, source, frames)
      /\ CountRight(program, source, frames)
  BY DEF Enter, AtNode, SourceInv, ReachInv, CountInv
<1>2. /\ frames \in Seq(Frame) /\ n \in Nat \ {0} /\ Top \in Frame
      /\ Top = frames[n] /\ Top.at <= Len(Top.tree)
      /\ CallRight(program, source, Top) /\ Here = FrameAt(Top)
  BY <1>1, TopIsRight
<1>3. /\ source' = AfterHere /\ frames' = [frames EXCEPT ![n] = Advanced(Top)]
      /\ program' = program /\ outer' = outer /\ phase' = phase /\ Here.body = NoBody
  BY DEF Enter, ReplaceTop
<1>4. /\ Len(frames') = n /\ frames'[n] = Advanced(Top)
      /\ \A k \in 1..(n - 1) : frames'[k] = frames[k]
      /\ Advanced(Top).tree = Top.tree
  BY <1>2, <1>3, AdvanceShape
<1>5. program \in Tree /\ Here = NodeAt(frames[n]) /\ Goal(frames) = Here
  BY <1>1, <1>2 DEF ReachRight, NodeAt, FrameAt, Goal
<1> HIDE DEF n
<1>6. ~Covered(frames[n].tree, frames[n].at) /\ frames[n].at <= Len(frames[n].tree)
  BY <1>2 DEF CallRight
<1>7. /\ WaysMet(program, frames') =
           WaysMet(program, frames) \cup ({frames} \cap WaysToEncoded(program))
      /\ frames \notin WaysMet(program, frames)
  BY <1>2, <1>3, <1>4, <1>5, <1>6, EnterMeets DEF n
<1>8. Shallow(program, frames) /\ Tally(source, WaysMet(program, frames))
  BY <1>1 DEF CountRight
<1>9. Tally(AfterHere, WaysMet(program, frames'))
  <2>1. CASE Here.kind = "Encoded"
    <3>1. frames \in WaysToEncoded(program)
      BY <1>1, <1>2, <1>5, <1>6, <1>8, <2>1, CallsAreAWay DEF n
    <3>2. WaysMet(program, frames') = WaysMet(program, frames) \cup {frames}
      BY <1>7, <3>1
    <3> QED
      BY <1>1, <1>5, <1>7, <1>8, <2>1, <3>2, EncodedIsTallied
  <2>2. CASE Here.kind # "Encoded"
    <3>1. frames \notin WaysToEncoded(program)
      BY <1>5, <2>2 DEF WaysToEncoded
    <3>2. WaysMet(program, frames') = WaysMet(program, frames)
      BY <1>7, <3>1
    <3>3. Quiet(source, AfterHere) /\ Sound(source)
      BY <1>1, <2>2, OthersAreQuiet DEF Walking
    <3> QED
      BY <1>8, <3>2, <3>3, QuietKeepsTally
  <2> QED
    BY <2>1, <2>2
<1>10. Shallow(program, frames')
  <2>1. \A k \in 1..n : k \in 1..(n - 1) \/ k = n
    BY <1>2
  <2>2. \A k \in 1..n : frames'[k].tree = frames[k].tree
    BY <1>2, <1>4, <2>1
  <2> QED
    BY <1>4, <1>8, <2>2 DEF Shallow, n
<1>11. CountRight(program', source', frames')
  BY <1>3, <1>9, <1>10 DEF CountRight
<1> QED
  BY <1>1, <1>3, <1>11 DEF CountInv, EncodedSummary

LEMMA EnterEvalCount ==
    ASSUME SourceInv, ReachInv, CountInv, EnterEval
    PROVE  CountInv'
<1> DEFINE n == Len(frames)
           inner == Call(Here.body)
<1>1. /\ phase = "walking" /\ Walking /\ AtNode /\ ReachRight(program, source, frames)
      /\ CountRight(program, source, frames)
  BY DEF EnterEval, AtNode, SourceInv, ReachInv, CountInv
<1>2. /\ frames \in Seq(Frame) /\ n \in Nat \ {0} /\ Top \in Frame
      /\ Top = frames[n] /\ Top.at <= Len(Top.tree)
      /\ Here = FrameAt(Top)
  BY <1>1, TopIsRight
<1>3. /\ source' = AfterHere /\ frames' = Append(frames, inner)
      /\ program' = program /\ outer' = outer /\ phase' = phase
      /\ Here.body \notin NoTree
  BY DEF EnterEval, BodyCalled, NoTree
<1>4. inner.tree = Here.body /\ inner.at = 1
  BY DEF Call
<1> HIDE DEF inner
<1>5. /\ Len(frames') = n + 1 /\ frames'[n + 1] = inner
      /\ \A k \in 1..n : frames'[k] = frames[k]
  BY <1>2, <1>3
<1> HIDE DEF n
<1>6. WaysMet(program, frames') = WaysMet(program, frames)
  <2>1. program \in Tree
    BY <1>1 DEF ReachRight
  <2> QED
    BY <1>2, <1>4, <1>5, <2>1, EnterEvalMeets DEF n
<1>7. /\ Top.tree \in Tree /\ Top.at \in 1..Len(Top.tree) /\ Here = Top.tree[Top.at]
  BY <1>2, AdvanceShape DEF FrameAt
<1>8. Shallow(program, frames) /\ Tally(source, WaysMet(program, frames))
  BY <1>1 DEF CountRight
<1>9. Tally(AfterHere, WaysMet(program, frames'))
  <2>1. Here.body # NoBody => Here.kind \in {"RequireByEval", "Eval"}
    BY <1>7, TreeShape
  <2>2. Here.kind # "Encoded"
    BY <1>3, <2>1 DEF NoTree
  <2>3. Quiet(source, AfterHere) /\ Sound(source)
    BY <1>1, <2>2, OthersAreQuiet DEF Walking
  <2> QED
    BY <1>6, <1>8, <2>3, QuietKeepsTally
<1>10. Shallow(program, frames')
  <2>1. Nesting[Here.body] < Nesting[Top.tree] /\ Nesting[Top.tree] \in Nat
    BY <1>3, <1>7, NestingAssumption
  <2>2. Here.body \in Tree /\ Nesting[Here.body] \in Nat /\ Nesting[program] \in Nat
    <3>1. Here.body \in Tree
      BY <1>1, <1>3, AfterHereKeeps DEF SyntaxNode, NoTree
    <3>2. program \in Tree
      BY <1>1 DEF ReachRight
    <3> QED
      BY <3>1, <3>2, NestingAssumption
  <2>3. Nesting[Top.tree] + n <= Nesting[program] + 1
    BY <1>2, <1>8 DEF Shallow, n
  <2>4. Nesting[inner.tree] + (n + 1) <= Nesting[program] + 1
    BY <1>2, <1>4, <2>1, <2>2, <2>3
  <2>5. \A k \in 1..(n + 1) : k \in 1..n \/ k = n + 1
    BY <1>2
  <2>6. \A k \in 1..n : Nesting[frames'[k].tree] + k <= Nesting[program] + 1
    BY <1>5, <1>8 DEF Shallow, n
  <2> QED
    BY <1>5, <2>4, <2>5, <2>6 DEF Shallow
<1>11. CountRight(program', source', frames')
  BY <1>3, <1>9, <1>10 DEF CountRight
<1> QED
  BY <1>1, <1>3, <1>11 DEF CountInv, EncodedSummary

LEMMA LeaveEvalCount ==
    ASSUME SourceInv, ReachInv, CountInv, LeaveEval
    PROVE  CountInv'
<1> DEFINE caller == Len(frames) - 1
<1>1. /\ phase = "walking" /\ Walking /\ ReachRight(program, source, frames)
      /\ CountRight(program, source, frames)
  BY DEF LeaveEval, SourceInv, ReachInv, CountInv
<1>2. /\ frames \in Seq(Frame) /\ caller \in Nat /\ caller > 0 /\ Len(frames) = caller + 1
      /\ frames[caller + 1].at > Len(frames[caller + 1].tree)
      /\ caller \in 1..(caller + 1) /\ caller \in 1..(Len(frames) - 1)
      /\ caller \in 1..Len(frames)
      /\ \A k \in 1..(caller + 1) : frames[k] \in Frame
  BY <1>1 DEF LeaveEval, Walking, Stack, Top
<1>3. /\ frames' = Append(SubSeq(frames, 1, caller - 1), Advanced(frames[caller]))
      /\ source' = source /\ program' = program /\ outer' = outer /\ phase' = phase
  BY DEF LeaveEval
<1>4. /\ frames[caller].at <= Len(frames[caller].tree)
      /\ ~Covered(frames[caller].tree, frames[caller].at)
      /\ NodeAt(frames[caller]).body = frames[caller + 1].tree
      /\ program \in Tree
  BY <1>1, <1>2 DEF ReachRight, CallRight, WaitsRight, AtEval, NodeAt, FrameAt
<1> HIDE DEF caller
<1>5. /\ Advanced(frames[caller]) \in Frame
      /\ Advanced(frames[caller]).tree = frames[caller].tree
  BY <1>2, <1>4, HereIsANode, AdvanceShape
<1>6. /\ Len(frames') = caller /\ frames'[caller] = Advanced(frames[caller])
      /\ \A k \in 1..(caller - 1) : frames'[k] = frames[k]
  <2> DEFINE init == SubSeq(frames, 1, caller - 1)
  <2>1. /\ caller \in Nat \ {0} /\ caller - 1 \in Int
        /\ \A k \in 1..(caller - 1) : frames[k] \in Frame
    BY <1>2
  <2>2. /\ init \in Seq(Frame)
        /\ Len(init) = IF 1 <= caller - 1 THEN caller - 1 - 1 + 1 ELSE 0
        /\ \A k \in 1..(caller - 1 - 1 + 1) : init[k] = frames[1 + k - 1]
    BY <2>1, SubSeqProperties
  <2>3. frames' = Append(init, Advanced(frames[caller]))
    BY <1>3
  <2> HIDE DEF init
  <2>4. Len(init) = caller - 1 /\ \A k \in 1..(caller - 1) : init[k] = frames[k]
    BY <2>1, <2>2
  <2>5. /\ Len(frames') = Len(init) + 1
        /\ \A k \in 1..Len(init) : frames'[k] = init[k]
        /\ frames'[Len(init) + 1] = Advanced(frames[caller])
    BY <1>5, <2>2, <2>3, AppendProperties
  <2> QED
    BY <2>1, <2>4, <2>5
<1>7. WaysMet(program, frames') = WaysMet(program, frames)
  BY <1>2, <1>4, <1>6, LeaveEvalMeets
<1>8. Shallow(program, frames')
  <2>1. \A k \in 1..caller : (k \in 1..(caller - 1) \/ k = caller) /\ k \in 1..Len(frames)
    BY <1>2
  <2>2. \A k \in 1..caller : frames'[k].tree = frames[k].tree
    BY <1>5, <1>6, <2>1
  <2> QED
    BY <1>1, <1>6, <2>1, <2>2 DEF CountRight, Shallow
<1>9. CountRight(program', source', frames')
  BY <1>1, <1>3, <1>7, <1>8 DEF CountRight
<1> QED
  BY <1>1, <1>3, <1>9 DEF CountInv, EncodedSummary

LEMMA EndRunCount ==
    ASSUME SourceInv, CountInv, phase = "walking", NEW collected, NEW result,
           NEW end \in {"done", "failed"}, EndRun(collected, result, end),
           end = "done" => Counted(result.warnings, WaysToEncoded(program))
    PROVE  CountInv'
<1>1. CASE outer = << >>
  <2>1. /\ source' = result /\ phase' = end /\ program' = program /\ outer' = outer
        /\ Len(outer') = 0
    BY <1>1 DEF EndRun
  <2> QED
    BY <2>1 DEF CountInv, EncodedSummary
<1>2. CASE outer # << >>
  <2>1. outer \in Seq(Run)
    BY DEF SourceInv, Types
  <2>2. Len(outer) \in 1..Len(outer) /\ Len(outer) \in Nat \ {0}
    BY <1>2, <2>1
  <2>3. /\ source' = outer[Len(outer)].source /\ frames' = outer[Len(outer)].frames
        /\ program' = outer[Len(outer)].program /\ phase' = phase
        /\ outer' = SubSeq(outer, 1, Len(outer) - 1)
    BY <1>2 DEF EndRun, Last, Front
  <2>4. /\ Len(outer') = Len(outer) - 1
        /\ \A i \in 1..(Len(outer) - 1) : outer'[i] = outer[i]
    BY <2>1, <2>2, <2>3, WithoutLast
  <2>5. \A i \in 1..Len(outer') : i \in 1..Len(outer)
    BY <2>2, <2>4
  <2>6. \A i \in 1..Len(outer') :
           CountRight(outer'[i].program, outer'[i].source, outer'[i].frames)
    BY <2>4, <2>5 DEF CountInv
  <2>7. CountRight(program', source', frames')
    BY <2>2, <2>3 DEF CountInv
  <2> QED
    BY <2>3, <2>6, <2>7 DEF CountInv, EncodedSummary
<1> QED
  BY <1>1, <1>2

LEMMA FinishCount ==
    ASSUME SourceInv, ReachInv, CountInv, Finish
    PROVE  CountInv'
<1> DEFINE warnings == IF TooManyEncoded(source) THEN Summarised(source) ELSE source.warnings
           result == [source EXCEPT !.collected = << >>, !.warnings = warnings]
<1>1. /\ phase = "walking" /\ Walking /\ ReachRight(program, source, frames)
      /\ CountRight(program, source, frames)
      /\ Len(frames) = 1 /\ frames[1].at > Len(frames[1].tree)
      /\ EndRun(source.collected, result, "done")
  BY DEF Finish, SourceInv, ReachInv, CountInv, Top
<1>2. frames[1] \in Frame /\ frames[1].tree = program /\ program \in Tree
  BY <1>1 DEF Walking, Stack, ReachRight
<1>3. Tally(source, WaysToEncoded(program))
  BY <1>1, <1>2, AllMet DEF CountRight
<1>4. Counted(warnings, WaysToEncoded(program))
  BY <1>1, <1>3, TallyIsSummary DEF Walking
<1> HIDE DEF warnings
<1>5. result.warnings = warnings
  BY <1>1 DEF Walking, Sound, SourceFile
<1> HIDE DEF result
<1> QED
  BY <1>1, <1>4, <1>5, EndRunCount

LEMMA FreshCount ==
    ASSUME NEW p \in Tree, NEW collected
    PROVE  CountRight(p, NewSource(collected), <<Call(p)>>)
<1> DEFINE frs == <<Call(p)>>
           src == NewSource(collected)
<1>1. Len(frs) = 1 /\ frs[1].tree = p /\ frs[1].at = 1
  BY DEF Call
<1>2. src.encoded = << >> /\ src.warnings = << >>
  BY DEF NewSource
<1> HIDE DEF frs, src
<1>3. WaysMet(p, frs) = {}
  BY <1>1, NothingMet
<1>4. Tally(src, {})
  <2>1. DOMAIN src.encoded = {} /\ Len(src.warnings) = 0
    BY <1>2
  <2>2. ValuesOf({}) = {}
    BY DEF ValuesOf
  <2>3. IsFiniteSet({})
    BY FS_EmptySet
  <2>4. \A i \in 1..Len(src.warnings) : FALSE
    BY <2>1
  <2> QED
    BY <2>1, <2>2, <2>3, <2>4 DEF Tally
<1>5. Shallow(p, frs)
  <2>1. Nesting[p] \in Nat /\ \A k \in 1..Len(frs) : k = 1
    BY <1>1, NestingAssumption
  <2> QED
    BY <1>1, <2>1 DEF Shallow
<1> QED
  BY <1>3, <1>4, <1>5 DEF CountRight, frs, src

LEMMA BeginCount ==
    ASSUME SourceInv, CountInv, NEW p \in Sources, Start(p) \/ CallAgain(p)
    PROVE  CountInv'
<1>1. Types
  BY DEF SourceInv
<1>2. /\ p # NotJs /\ program' = p /\ source' = NewSource(registry)
      /\ frames' = <<Call(p)>> /\ phase' = "walking"
  BY DEF Start, CallAgain, Begin
<1>3. p \in Tree
  BY <1>1, <1>2, SourcesArePrograms, SourceAssumption
<1>4. CountRight(program', source', frames')
  BY <1>2, <1>3, FreshCount
<1>5. CASE Start(p)
  <2>1. outer' = outer
    BY <1>5 DEF Start
  <2> QED
    BY <1>2, <1>4, <2>1 DEF CountInv, EncodedSummary
<1>6. CASE CallAgain(p)
  <2> DEFINE run == [program |-> program, source |-> source, frames |-> frames,
                     nested |-> nested]
  <2>1. phase = "walking" /\ outer' = Append(outer, run) /\ Walking
    BY <1>6 DEF CallAgain, SourceInv
  <2>2. run \in Run
    BY <1>1, <2>1 DEF Run, Walking, Sound, Types
  <2>3. CountRight(run.program, run.source, run.frames)
    BY <2>1 DEF CountInv
  <2> HIDE DEF run
  <2>4. /\ Len(outer) \in Nat /\ Len(outer') = Len(outer) + 1
        /\ \A i \in 1..Len(outer) : outer'[i] = outer[i]
        /\ outer'[Len(outer) + 1] = run
    BY <1>1, <2>1, <2>2, AppendProperties DEF Types
  <2>5. \A i \in 1..Len(outer') : i \in 1..Len(outer) \/ i = Len(outer) + 1
    BY <2>4
  <2>6. \A i \in 1..Len(outer') :
           CountRight(outer'[i].program, outer'[i].source, outer'[i].frames)
    BY <2>3, <2>4, <2>5 DEF CountInv
  <2> QED
    BY <1>2, <1>4, <2>6 DEF CountInv, EncodedSummary
<1> QED
  BY <1>5, <1>6

LEMMA CountStep ==
    ASSUME SourceInv, ReachInv, CountInv, [Next]_vars
    PROVE  CountInv'
<1>1. ASSUME NEW p \in Sources, Refuse(p) PROVE CountInv'
  <2>1. phase' = "failed" /\ outer' = outer
    BY <1>1 DEF Refuse
  <2> QED
    BY <2>1 DEF CountInv, EncodedSummary
<1>2. ASSUME NEW p \in Sources, Start(p) \/ CallAgain(p) PROVE CountInv'
  BY <1>2, BeginCount
<1>3. ASSUME EvalFails PROVE CountInv'
  <2>1. phase = "walking"
    BY <1>3 DEF EvalFails, AtNode
  <2> QED
    BY <1>3, <2>1, EndRunCount DEF EvalFails
<1>4. ASSUME Panic PROVE CountInv'
  <2>1. phase' = "failed" /\ Len(outer') = 0
    BY <1>4 DEF Panic
  <2> QED
    BY <2>1 DEF CountInv, EncodedSummary
<1>5. ASSUME UNCHANGED vars PROVE CountInv'
  BY <1>5 DEF vars, CountInv, EncodedSummary
<1> QED
  BY <1>1, <1>2, <1>3, <1>4, <1>5, EnterCount, EnterEvalCount, LeaveEvalCount, FinishCount
     DEF Next, Walk

LEMMA CountInvariant == Spec => []CountInv
<1>1. Init => CountInv
  BY DEF Init, CountInv, EncodedSummary
<1>2. SourceInv /\ ReachInv /\ CountInv /\ [Next]_vars => CountInv'
  BY CountStep
<1> QED
  BY <1>1, <1>2, SourceInvariant, ReachInvariant, PTL DEF Spec

(* A finished report has one warning for each encoded literal met, in the  *)
(* source or in the body of an eval, with as many places as there are ways *)
(* to it, or else, beyond the maximum, one suspicious-file and none of     *)
(* them.                                                                   *)
THEOREM EncodedLiteralsAreCounted == Spec => []EncodedSummary
<1>1. CountInv => EncodedSummary
  BY DEF CountInv
<1> QED
  BY <1>1, CountInvariant, PTL
=============================================================================
