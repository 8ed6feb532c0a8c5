--------------------------------- MODULE Nodes ---------------------------------
(***************************************************************************)
(* Syntax trees as the walker reads them (walker/mod.rs).  A node is a     *)
(* record with the fields of its ESTree type.                              *)
(***************************************************************************)
EXTENDS Sequences

(***************************************************************************)
(* The fields that hold nodes, in the order of the keys of their JSON      *)
(* object (preserve_order).                                                *)
(***************************************************************************)
Fields ==
    [ CallExpression |-> <<"callee", "arguments">>, NewExpression |-> <<"callee", "arguments">>,
      MemberExpression |-> <<"object", "property">>, ArrayExpression |-> <<"elements">>,
      ObjectExpression |-> <<"properties">>, ObjectPattern |-> <<"properties">>,
      Property |-> <<"key", "value">>, SpreadElement |-> <<"argument">>,
      AssignmentExpression |-> <<"left", "right">>, UnaryExpression |-> <<"argument">>,
      LogicalExpression |-> <<"left", "right">>, ExpressionStatement |-> <<"expression">>,
      BlockStatement |-> <<"body">>, Array |-> <<"body">>,
      VariableDeclaration |-> <<"declarations">>,
      VariableDeclarator |-> <<"id", "init">>, FunctionDeclaration |-> <<"id", "params", "body">>,
      ArrowFunctionExpression |-> <<"params", "body">>,
      FunctionExpression |-> <<"id", "params", "body">>, MethodDefinition |-> <<"key", "value">>,
      ClassDeclaration |-> <<"id", "superClass", "body">>, ClassBody |-> <<"body">> ]

FieldsOf(node) == IF node.type \in DOMAIN Fields THEN Fields[node.type] ELSE << >>

IsList(node, key) ==
    \/ key \in {"arguments", "elements", "properties", "declarations", "params"}
    \/ node.type \in {"BlockStatement", "ClassBody", "Array"}

(* What a field holds, as a list. *)
HeldAt(node, key) == IF IsList(node, key) THEN node[key] ELSE <<node[key]>>
===============================================================================
