-------------------------------- MODULE Estree --------------------------------
(***************************************************************************)
(* The helpers of estree/functions.rs that the tracer and the probes read  *)
(* syntax trees with.  A node is a record with the fields of its ESTree    *)
(* type; strings are atoms.  A dotted name such as "pino.info" is a path,  *)
(* the sequence of its segments, and NoPath stands for None.               *)
(*                                                                         *)
(* Properties and elements computed from constants ("k" + "ey", hex) are   *)
(* the Literal of their value.                                             *)
(***************************************************************************)
EXTENDS Nodes, Integers, SequencesExt

NoPath == << >>
NoLiterals == << >>          \* the lookup that resolves nothing (noop)

With(f, x, y) == [z \in DOMAIN f \cup {x} |-> IF z = x THEN y ELSE f[z]]

IsCall(node) == node.type = "CallExpression"
IsMember(node) == node.type = "MemberExpression"
IsIdentifier(node) == node.type = "Identifier"

(* The nodes a node holds.                                                 *)
ChildrenOf(node) ==
    LET held(key) == SelectSeq(HeldAt(node, key), LAMBDA child : child.type # "Null")
    IN  FlattenSeq([i \in DOMAIN FieldsOf(node) |-> held(FieldsOf(node)[i])])

(***************************************************************************)
(* get_member_expression_identifier: an object that is no name, such as a  *)
(* call, is left out.  An identifier is looked up among the literals even  *)
(* where the property is not computed.                                     *)
(***************************************************************************)
PropertySegment(property, literals) ==
    CASE IsIdentifier(property) ->
            IF property.name \in DOMAIN literals
            THEN <<literals[property.name].value>> ELSE <<property.name>>
      [] property.type = "Literal" -> <<property.value>>
      [] OTHER -> << >>

RECURSIVE MemberIdentifier(_, _)
MemberIdentifier(node, literals) ==
    (CASE IsMember(node.object) -> MemberIdentifier(node.object, literals)
       [] IsIdentifier(node.object) -> <<node.object.name>>
       [] node.object.type = "Literal" -> <<node.object.value>>
       [] OTHER -> << >>)
    \o PropertySegment(node.property, literals)

(***************************************************************************)
(* get_call_expression_identifier: a call of a member of another call is   *)
(* named by both, pino().info() is pino.info.                              *)
(***************************************************************************)
RECURSIVE CallIdentifier(_, _, _)
CallIdentifier(node, literals, resolve) ==
    LET callee == node.callee
        inner == CallIdentifier(callee.object, NoLiterals, TRUE)
    IN  CASE IsIdentifier(callee) -> <<callee.name>>
          [] IsMember(callee) ->
                (IF ~(resolve /\ IsCall(callee.object)) THEN << >>
                 ELSE IF inner = NoPath THEN <<"null">> ELSE inner)
                \o MemberIdentifier(callee, literals)
          [] callee.type \in {"CallExpression", "NewExpression"} /\ resolve ->
                CallIdentifier(callee, literals, TRUE)
          [] OTHER -> NoPath

CalleePath(node) == CallIdentifier(node, NoLiterals, TRUE)

(***************************************************************************)
(* get_call_expression_arguments: the arguments known as text.             *)
(***************************************************************************)
CallArguments(node, literals) ==
    LET text(a) ==
            CASE IsIdentifier(a) ->
                    IF a.name \in DOMAIN literals THEN <<literals[a.name].value>> ELSE << >>
              [] a.type \in {"Literal", "TemplateLiteral"} -> <<a.value>>
              [] OTHER -> << >>
    IN  FlattenSeq([i \in DOMAIN node.arguments |-> text(node.arguments[i])])

(***************************************************************************)
(* extract_logical_expression: the operands, from left to right.           *)
(***************************************************************************)
RECURSIVE LogicalOperands(_)
LogicalOperands(node) ==
    IF node.type = "LogicalExpression"
    THEN LogicalOperands(node.left) \o LogicalOperands(node.right)
    ELSE <<node>>

(***************************************************************************)
(* get_variable_declaration_identifiers: the pairs <<path, name>> a        *)
(* pattern binds, where path leads to the value and name is the variable.  *)
(* A default outside of an object pattern drops the prefix.                *)
(***************************************************************************)
RECURSIVE PatternIdentifiers(_, _)
PatternIdentifiers(node, prefix) ==
    LET below(nodes) ==
            FlattenSeq([i \in DOMAIN nodes |-> PatternIdentifiers(nodes[i], prefix)])
        path == Append(prefix, node.key.name)
        bound == CASE IsIdentifier(node.value) -> node.value.name
                   [] node.value.type = "AssignmentPattern"
                        /\ IsIdentifier(node.value.left) -> node.value.left.name
                   [] OTHER -> node.key.name
    IN  CASE IsIdentifier(node) -> <<<<Append(prefix, node.name), node.name>>>>
          [] node.type = "Property" ->
                IF ~IsIdentifier(node.key) THEN << >>
                ELSE IF node.value.type \in {"ObjectPattern", "ArrayPattern"}
                THEN PatternIdentifiers(node.value, path)
                ELSE <<<<path, bound>>>>
          [] node.type = "RestElement" ->
                IF IsIdentifier(node.argument)
                THEN <<<<Append(prefix, node.argument.name), node.argument.name>>>>
                ELSE << >>
          [] node.type = "AssignmentPattern" ->
                IF IsIdentifier(node.left)
                THEN <<<<<<node.left.name>>, node.left.name>>>>
                ELSE PatternIdentifiers(node.left, prefix)
          [] node.type = "ObjectPattern" -> below(node.properties)
          [] node.type = "ArrayPattern" -> below(node.elements)
          [] OTHER -> << >>

(***************************************************************************)
(* is_neutral_callable and is_evil_identifier_path.                        *)
(***************************************************************************)
IsNeutralCallable(path) == path = <<"Function", "prototype", "call">>
IsEvilPath(path) ==
    /\ Len(path) > 2 /\ path[1] = "Function" /\ path[2] = "prototype"
    /\ \E i \in 3..Len(path) : path[i] \in {"call", "apply", "bind"}
===============================================================================
