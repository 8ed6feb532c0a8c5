------------------------------ MODULE SourceReach ------------------------------
(***************************************************************************)
(* What a walk of SourceWalk should come to: the trees it should walk, the *)
(* source and the bodies of the evals it meets, the nodes it should enter  *)
(* in them, those that are not below a node a probe skips, and the ways on *)
(* which it should come to them.                                           *)
(***************************************************************************)
EXTENDS SourceWalk

CONSTANT Nesting   \* of a tree: above that of the bodies in it, whose text is shorter

NoTree == {NoBody, NotJs}

ASSUME NestingAssumption ==
    /\ NoTree \cap Tree = {}
    /\ Nesting \in [Tree -> Nat]
    /\ \A tree \in Tree : \A i \in 1..Len(tree) :
          tree[i].body \notin NoTree => Nesting[tree[i].body] < Nesting[tree]

Covered(tree, i) == \E j \in 1..(i - 1) : Skips(tree[j]) /\ i <= tree[j].last
Entered(tree) == {i \in 1..Len(tree) : ~Covered(tree, i)}

Bodies == (UNION {{tree[i].body : i \in 1..Len(tree)} : tree \in Tree}) \ NoTree
BodiesMet(tree) == {tree[i].body : i \in Entered(tree)} \ NoTree

(***************************************************************************)
(* The source and with each tree the bodies met in it: what is in every    *)
(* set that has these.                                                     *)
(***************************************************************************)
HasBodies(S) == \A tree \in S : BodiesMet(tree) \subseteq S
Walked(p) ==
    {tree \in Bodies \cup {p} :
        \A S \in SUBSET (Bodies \cup {p}) :
            p \in S /\ HasBodies(S) => tree \in S}

NodesToEnter(p) ==
    IF p = NotJs THEN {}
    ELSE UNION {{tree[i] : i \in Entered(tree)} : tree \in Walked(p)}

(***************************************************************************)
(* The dependencies of a finished report are the names written in the      *)
(* nodes to enter, those in eval bodies included and those below a node a  *)
(* probe skips excluded.                                                   *)
(***************************************************************************)
NamesToReport(p) ==
    {Cleaned[n.name] : n \in {m \in NodesToEnter(p) : m.kind \in DependencyKind}}
        \ {Blank}
DependenciesComplete ==
    phase = "done" => DOMAIN source.dependencies = NamesToReport(program)

(***************************************************************************)
(* Unless it panics, an analysis fails exactly when its source, or a body  *)
(* the walk meets, does not parse.                                         *)
(***************************************************************************)
BadBody(p) == p = NotJs \/ \E n \in NodesToEnter(p) : n.body = NotJs
FailsForBadBody ==
    /\ phase = "failed" /\ ~panicked => BadBody(program)
    /\ phase = "done" => ~BadBody(program)

(***************************************************************************)
(* "The recursive analysis of eval("...") string bodies": only the text of *)
(* the source and of an eval is parsed as JavaScript, so nothing else can  *)
(* make an analysis fail.                                                  *)
(***************************************************************************)
OnlyEvalTextIsParsed ==
    phase = "failed" /\ ~panicked =>
        \/ program = NotJs
        \/ \E n \in NodesToEnter(program) : n.kind = "Eval" /\ n.body = NotJs

(***************************************************************************)
(* The ways to a node: the evals to go through to the tree it is in, and   *)
(* its place there.  A body may be in several evals, so that a node of it  *)
(* is met on several ways.                                                 *)
(***************************************************************************)
NodeAt(stop) == stop.tree[stop.at]
Stops(p) == UNION {{[tree |-> tree, at |-> i] : i \in Entered(tree)} : tree \in Walked(p)}
IsWay(p, way) ==
    /\ way[1].tree = p
    /\ \A k \in 2..Len(way) : way[k].tree = NodeAt(way[k - 1]).body
Goal(way) == NodeAt(way[Len(way)])
WaysToEncoded(p) ==
    {way \in UNION {[1..n -> Stops(p)] : n \in 1..(Nesting[p] + 1)} :
        IsWay(p, way) /\ Goal(way).kind = "Encoded"}

WaysTo(value, ways) == {way \in ways : Goal(way).name = value}
ValuesOf(ways) == {Goal(way).name : way \in ways}
About(kind, warnings) == {i \in 1..Len(warnings) : warnings[i].kind = kind}

(***************************************************************************)
(* Encoded literals in a finished report: one warning for each value with  *)
(* all its places, or, beyond the maximum, none of them and one            *)
(* suspicious-file.                                                        *)
(***************************************************************************)
Counted(warnings, ways) ==
    IF Cardinality(ValuesOf(ways)) > MaxEncoded
    THEN /\ About("encoded-literal", warnings) = {}
         /\ Cardinality(About("suspicious-file", warnings)) = 1
    ELSE /\ About("suspicious-file", warnings) = {}
         /\ Cardinality(About("encoded-literal", warnings)) = Cardinality(ValuesOf(ways))
         /\ \A value \in ValuesOf(ways) :
               \E i \in 1..Len(warnings) :
                  warnings[i] = [kind |-> "encoded-literal", value |-> value,
                                 places |-> Cardinality(WaysTo(value, ways))]
EncodedSummary == phase = "done" => Counted(source.warnings, WaysToEncoded(program))
================================================================================
