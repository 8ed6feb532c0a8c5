------------------------------- MODULE Inlined -------------------------------
(***************************************************************************)
(* inlined.rs and pipelines/inline.rs: a chain of calls is split at its    *)
(* innermost call, which becomes the value of a virtual variable, and the  *)
(* chain is rebuilt over that variable.                                    *)
(***************************************************************************)
EXTENDS Estree

(* VirtualVariableIdentifier::generate: n is the counter of the process *)
VirtualName(kind, n) == "__virtual_" \o kind \o "_" \o ToString(n) \o "__"
Variable(name) == [type |-> "Identifier", name |-> name]
Declaration(name, init) ==
    [type |-> "VariableDeclaration",
     declarations |-> << [type |-> "VariableDeclarator", id |-> Variable(name), init |-> init] >>]

(***************************************************************************)
(* What find_new_call, find_call_expression and find_require_call walk:    *)
(* the node, then object after object and callee after callee.  The target *)
(* of a split is found, and replaced, by its place on this spine.          *)
(***************************************************************************)
RECURSIVE Spine(_)
Spine(node) ==
    <<node>> \o (IF IsCall(node) THEN Spine(node.callee)
                 ELSE IF IsMember(node) THEN Spine(node.object) ELSE << >>)

IsChain(node) == IsCall(node) \/ IsMember(node)
Root(node) == Last(Spine(node))
InnermostCall(node) == Len(Spine(node)) - 1
Calls(node) == Len(SelectSeq(Spine(node), IsCall))
RootNamed(node, names) == IsIdentifier(Root(node)) /\ Root(node).name \in names

(* clone_and_replace *)
RECURSIVE Replaced(_, _, _)
Replaced(node, place, new) ==
    IF place = 1 THEN new
    ELSE IF IsCall(node)
    THEN [node EXCEPT !.callee = Replaced(@, place - 1, new)]
    ELSE [node EXCEPT !.object = Replaced(@, place - 1, new)]

(* build_split_result: what is declared and what is left of the node *)
Split(node, place, name) ==
    [declaration |-> Declaration(name, Spine(node)[place]),
     rebuilt |-> Replaced(node, place, Variable(name))]

(* InlinedNew::split applies *)
SplitsNew(node) == IsChain(node) /\ Root(node).type = "NewExpression"
(* InlinedCallExpression::split applies: a chain of two calls or more *)
SplitsCall(node) ==
    /\ IsChain(node) /\ Calls(node) > 1 /\ IsCall(Spine(node)[InnermostCall(node)])
    /\ ~RootNamed(node, {"require", "eval"})
(* InlinedRequire::split applies: the pattern asks for a name after require *)
SplitsRequire(node) ==
    /\ IsCall(node) /\ Len(CalleePath(node)) > 1 /\ Head(CalleePath(node)) = "require"
    /\ InnermostCall(node) > 1 /\ IsCall(Spine(node)[InnermostCall(node)])
    /\ RootNamed(node, {"require"})

SameNames(state) ==    \* (faulty) a hoisted name does not count
    LET node == state.node
        hoist == Split(node, Len(Spine(node)), VirtualName("new", state.n))
    IN  IF SplitsNew(node)
        THEN [state EXCEPT !.node = hoist.rebuilt, !.skip = TRUE,
                           !.hoisted = Append(@, hoist.declaration)]
        ELSE state

(***************************************************************************)
(* The Inline pipeline, on the node it enters and then on what it holds.   *)
(* What is rebuilt is not entered again; the declarations of new           *)
(* expressions gather in hoisted and come first in the program.  n counts  *)
(* virtual names.                                                          *)
(***************************************************************************)
InlineNode(state) ==
    LET node == state.node
        hoist == Split(node, Len(Spine(node)), VirtualName("new", state.n))
        call == Split(node, InnermostCall(node), VirtualName("call_expression", state.n))
    IN  IF SplitsNew(node)
        THEN [state EXCEPT !.node = hoist.rebuilt, !.n = @ + 1, !.skip = TRUE,
                           !.hoisted = Append(@, hoist.declaration)]
        ELSE IF SplitsCall(node)
        THEN [state EXCEPT !.n = @ + 1, !.skip = TRUE,
                           !.node = [type |-> "BlockStatement",
                                     body |-> << call.declaration,
                                                 [type |-> "ExpressionStatement",
                                                  expression |-> call.rebuilt] >>]]
        ELSE state
===============================================================================
