------------------------------ MODULE TreeMeaning ------------------------------
(***************************************************************************)
(* What the passes of AnalysedTree come to: walks, rewritings and verdicts *)
(* said without frames, contexts and counters.                             *)
(***************************************************************************)
EXTENDS AnalysedTree, WalkMeaning, VerdictMeaning

RECURSIVE AllNodes(_)
AllNodes(node) ==
    LET children == ChildrenOf(node)
    IN  <<node>> \o FlattenSeq([i \in DOMAIN children |-> AllNodes(children[i])])

(***************************************************************************)
(* Inline only names what it takes out: with every virtual variable        *)
(* replaced by what it is declared to be, the program is the one before,   *)
(* no two declarations share a name, and the values that are moved to the  *)
(* front keep the order they had in the program.                           *)
(***************************************************************************)
Virtual == {VirtualName(kind, n) : kind \in {"new", "call_expression"}, n \in 0..(virtuals - 1)}
IsVirtual(node) == node.type = "VariableDeclarator" /\ node.id.name \in Virtual

RECURSIVE Restore(_, _)
Restore(node, declared) ==
    IF IsIdentifier(node) /\ \E d \in declared : d.id = node
    THEN Restore((CHOOSE d \in declared : d.id = node).init, declared)
    ELSE IF /\ node.type = "BlockStatement" /\ Len(node.body) = 2
            /\ node.body[1].type = "VariableDeclaration"
            /\ node.body[1].declarations[1] \in declared
    THEN Restore(node.body[2].expression, declared)
    ELSE Rebuild(node, LAMBDA child : <<Restore(child, declared)>>)

(* The nodes stand in the program in this order. *)
InOrder(nodes, statements) ==
    LET found(rest, node) == IF rest # << >> /\ Head(rest) = node THEN Tail(rest) ELSE rest
    IN  FoldLeft(found, nodes, AllNodes(Array(statements))) = << >>

Restored ==
    PassOver /\ handler.pass = "inline" =>
        LET declarators == SelectSeq(AllNodes(Array(Rewritten)), IsVirtual)
            rest == Current.node.body
        IN  /\ Cardinality({declarators[i].id : i \in DOMAIN declarators}) = Len(declarators)
            /\ body = [i \in DOMAIN rest |-> Restore(rest[i], Range(declarators))]
            /\ InOrder([i \in DOMAIN hoisted |-> hoisted[i].declarations[1].init], body)

(***************************************************************************)
(* The passes end: no removal makes the walker visit an element again, and *)
(* no handler's walk leaves the one around it stuck.                       *)
(***************************************************************************)
Terminates == <>(passes = << >> /\ walkers = << >>)
===============================================================================
