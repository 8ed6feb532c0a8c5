------------------------------ MODULE WalkMeaning ------------------------------
(***************************************************************************)
(* What a walk of Walker comes to, said without frames and contexts: the   *)
(* nodes a handler keeps of a tree and those it is called on, by recursion *)
(* over the tree.                                                          *)
(***************************************************************************)
EXTENDS Walker

CONSTANTS
    Kept(_, _),      \* handler and node -> what becomes of the node, one node or none
    Visits(_, _)     \* handler and node -> the nodes met from entering it to leaving it

AsReplaced(node, request) ==
    IF request.replacement = Missing THEN node ELSE request.replacement

(* node with every child replaced by the nodes new makes of it *)
Rebuild(node, new(_)) ==
    LET kept(child) == IF child = Missing THEN <<Missing>> ELSE new(child)
        first(nodes) == IF nodes = << >> THEN Missing ELSE nodes[1]
    IN  [f \in DOMAIN node |->
            IF ~Contains(FieldsOf(node), f) THEN node[f]
            ELSE IF IsList(node, f) THEN FlattenSeq([i \in DOMAIN node[f] |-> kept(node[f][i])])
            ELSE first(kept(node[f]))]
Inside(h, node) ==
    Rebuild(AsReplaced(node, Asks(h, node).enter), LAMBDA child : Kept(h, child))

KeptBy(h, node) ==
    LET enter == Asks(h, node).enter
        leave == Asks(h, Inside(h, node)).leave
    IN  IF enter.remove \/ (~enter.skip /\ leave.remove) THEN << >>
        ELSE IF enter.skip THEN <<AsReplaced(node, enter)>>
        ELSE <<AsReplaced(Inside(h, node), leave)>>

SeenIn(h, nodes) ==
    FlattenSeq([i \in DOMAIN nodes |-> IF nodes[i] = Missing THEN << >> ELSE Visits(h, nodes[i])])
SeenBelow(h, node) ==
    FlattenSeq([i \in DOMAIN FieldsOf(node) |-> SeenIn(h, HeldAt(node, FieldsOf(node)[i]))])

VisitsBy(h, node) ==
    LET asked == Asks(h, node)
    IN  <<node>> \o SeenIn(h, asked.nested)
        \o (IF asked.enter.skip \/ asked.enter.remove THEN << >>
            ELSE SeenBelow(h, AsReplaced(node, asked.enter)))

(***************************************************************************)
(* A walk calls its handler once on every node that is neither below a     *)
(* skipped or a removed one nor itself a replacement, in order, with the   *)
(* statements a handler walks meanwhile in between; and the tree it leaves *)
(* is the one with just the requested nodes removed and replaced.  No      *)
(* request is lost, or obeyed for another node, when walks nest.           *)
(***************************************************************************)
RequestsAreObeyed ==
    PassOver /\ handler \in Handler =>
        /\ Current.node.body = FlattenSeq([i \in DOMAIN body |-> Kept(handler, body[i])])
        /\ seen = SeenIn(handler, body)

(***************************************************************************)
(* A handler is called on nodes: a node's fields hold nodes, or null, or   *)
(* lists of them, and what a handler walks, or puts in a node's place to   *)
(* be walked, consists of nodes it may be called on.                       *)
(***************************************************************************)
IsNode(node, nodes) ==
    /\ node # Missing /\ node = [f \in DOMAIN node |-> node[f]]
    /\ FieldsOf(node) \in Seq(DOMAIN node \ {"type"}) /\ "type" \in DOMAIN node
    /\ \A i, j \in DOMAIN FieldsOf(node) : FieldsOf(node)[i] = FieldsOf(node)[j] => i = j
    /\ \A i \in DOMAIN FieldsOf(node) :
          HeldAt(node, FieldsOf(node)[i]) \in Seq(nodes \cup {Missing})
IsRequest(request) == request.skip \in BOOLEAN /\ request.remove \in BOOLEAN

ASSUME HandlerAssumption ==
    \A h \in Handler : \A node \in NodesFor(h) :
        /\ IsNode(node, NodesFor(h))
        /\ IsRequest(Asks(h, node).enter) /\ IsRequest(Asks(h, Inside(h, node)).leave)
        /\ Asks(h, node).nested \in Seq(NodesFor(h))
        /\ LET enter == Asks(h, node).enter
           IN  ~enter.skip /\ ~enter.remove => AsReplaced(node, enter) \in NodesFor(h)

(* Replacements are not replaced for ever, so that the recursions end.     *)
ASSUME RecursionAssumption ==
    \A h \in Handler : \A node \in NodesFor(h) :
        /\ Kept(h, node) = KeptBy(h, node)
        /\ Visits(h, node) = VisitsBy(h, node) /\ Visits(h, node) \in Seq(NodesFor(h))
===============================================================================
