----------------------------- MODULE MCSourceWalk -----------------------------
(***************************************************************************)
(* Syntax trees for SourceWalk: all small ones over a choice of nodes, and *)
(* a few larger ones.                                                      *)
(***************************************************************************)
EXTENDS SourceReach

CONSTANTS x, y, own,             \* names of dependencies
          wx, wxs, wy, wown, wblank, \* names as written: wxs is wx with a slash
          v1, v2                 \* values of literals

MCCleaned == (wx :> x) @@ (wxs :> x) @@ (wy :> y) @@ (wown :> own) @@ (wblank :> Blank)

Node(kind, name, body) == [kind |-> kind, name |-> name, body |-> body]
Spanning(node, last, handler) ==
    [kind |-> node.kind, name |-> node.name, body |-> node.body,
     last |-> last, handler |-> handler]
Leaf(node, i) == Spanning(node, i, 0)

Import(w) == Node("Import", w, NoBody)
Encoded(v) == Node("Encoded", v, NoBody)
Try == Node("Try", NotJs, NoBody)
Catch == Node("Catch", NotJs, NoBody)

\* Bodies for evals.
ImportBody == <<Leaf(Import(wy), 1)>>
EncodedBody == <<Leaf(Encoded(v1), 1), Leaf(Encoded(v2), 2)>>
TryBody == <<Spanning(Try, 2, 2), Leaf(Catch, 2)>>
Eval(body) == Node("Eval", NotJs, body)
RequireByEval(w, body) == Node("RequireByEval", w, body)
ValueBody == <<Leaf(Encoded(v1), 1)>>
TwiceBody == <<Leaf(Eval(ValueBody), 1), Leaf(Encoded(v1), 2), Leaf(Eval(ValueBody), 3)>>

SmallNodes ==
    {Import(wx), Import(wxs), Encoded(v1), Encoded(v2), Node("Built", wx, NoBody),
     Node("Joined", wy, NoBody),
     Eval(NoBody), Eval(ImportBody), Eval(NotJs), RequireByEval(wx, << >>)}

\* How the nodes of a tree of three may lie below each other.
Shapes(n) ==
    {s \in [1..n -> 1..n] :
        /\ \A i \in 1..n : s[i] >= i
        /\ \A i, j \in 1..n : i < j /\ j <= s[i] => s[j] <= s[i]}
TreesOver(nodes, n) ==
    {[i \in 1..n |-> Spanning(t[i], s[i], 0)] : t \in [1..n -> nodes], s \in Shapes(n)}

\* try { a } catch { b } c, with and without a handler, with a body around it.
Tried(a, b, c) ==
    <<Spanning(Try, 4, 3), Leaf(a, 2), Spanning(Catch, 4, 0), Leaf(b, 4), Leaf(c, 5)>>
TriedWithoutHandler(a, b) == <<Spanning(Try, 3, 0), Leaf(a, 2), Leaf(b, 3)>>
TriedTrees ==
    LET some == {Import(wx), Import(wy), Eval(ImportBody), Eval(TryBody), Encoded(v1)}
    IN  {Tried(a, b, c) : a \in some, b \in some, c \in some}
            \cup {TriedWithoutHandler(a, b) : a \in some, b \in some}

\* try { try { } catch { } import x } catch { }
NestedTry ==
    <<Spanning(Try, 5, 5), Spanning(Try, 3, 3), Leaf(Catch, 3), Leaf(Import(wx), 4),
      Leaf(Catch, 5)>>

\* The same value met in several evals.
EvalTrees ==
    {Tried(Eval(TwiceBody), Encoded(v1), Eval(TwiceBody)),
     Tried(Eval(EncodedBody), Encoded(v1), Eval(EncodedBody))}

MCTrees ==
    {NotJs} \cup TreesOver(SmallNodes, 3) \cup TriedTrees \cup {NestedTry} \cup EvalTrees

\* For several runs of one analyser.
MCSources ==
    {NotJs,
     Tried(Import(wx), Import(wxs), Import(wown)),
     Tried(Import(wy), RequireByEval(wx, << >>), Node("Joined", wy, NoBody)),
     Tried(Encoded(v1), Import(wblank), Encoded(v2)),
     Tried(Encoded(v2), Encoded(v1), Encoded(v2)),
     Tried(Import(wx), Eval(ImportBody), Eval(NotJs)),
     <<Leaf(Node("Other", NotJs, NoBody), 1),
       Leaf(Eval(<<Leaf(Import(wx), 1), Leaf(Eval(NotJs), 2)>>), 2)>>}

MCPrograms == MCTrees \cup MCSources

MCText == {x, y, own, wx, wxs, wy, wown, wblank, v1, v2}

\* The programs, the bodies in them and the bodies in those.
MCTree ==
    LET nodes(trees) == UNION {ToSet(t) : t \in trees}
        bodies(trees) == {n.body : n \in nodes(trees)} \ {NoBody, NotJs}
        all == MCPrograms \ {NotJs}
        inside == bodies(all)
    IN  all \cup inside \cup bodies(inside)

\* How deep the evals of a tree lie in each other.
RECURSIVE Depth(_)
Depth(tree) ==
    LET inside == {n.body : n \in ToSet(tree)} \ {NoBody, NotJs}
    IN  IF inside = {} THEN 0 ELSE 1 + Max({Depth(body) : body \in inside})
MCNesting == [tree \in Tree |-> Depth(tree)]

\* For the documented properties that do not hold.
MCNested == {NestedTry}
MCByEval == {<<Leaf(RequireByEval(wx, NotJs), 1)>>}
=============================================================================
