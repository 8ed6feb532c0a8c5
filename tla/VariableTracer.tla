---------------------------- MODULE VariableTracer ----------------------------
(***************************************************************************)
(* variable_tracer.rs: what a name of the program stands for.  A tracer is *)
(* a record and every operator maps a tracer to the tracer after the call. *)
(*                                                                         *)
(* traced maps paths to shared records (Rc).  Two keys share one record    *)
(* exactly when expr and age agree: age is the number of the trace call    *)
(* that made the record, and an alias inherits both.                       *)
(*                                                                         *)
(* No first segment starts with the name of a global object without being  *)
(* it ("rootFoo"), and source texts have no dots.                          *)
(***************************************************************************)
EXTENDS Estree

CONSTANTS
    Bare,        \* source text -> without "node:"           (strip_node_prefix)
    Plain,       \* bare name -> also without "/promises"
    Base64       \* encoded text -> decoded text    (base64_decode_to_string)

NoModule == "None"
NoReport == [name |-> NoPath, expr |-> NoPath, memory |-> << >>]
Follow == [follow |-> TRUE, followReturn |-> FALSE, module |-> NoModule, name |-> NoPath]

GlobalIdentifiers == {"globalThis", "global", "root", "GLOBAL", "window"}
RequirePatterns ==
    << <<"require">>, <<"require", "resolve">>, <<"require", "main">>,
       <<"process", "mainModule", "require">>, <<"process", "getBuiltinModule">> >>
UnsafeGlobalCalls == {"eval", "Function"}

NewTracer ==
    [traced |-> << >>, imported |-> {}, toGlobal |-> {}, neutral |-> {},
     returned |-> << >>, literals |-> << >>, objects |-> << >>,
     events |-> << >>, age |-> 0]

IsTraced(t, path) == path \in DOMAIN t.traced

(***************************************************************************)
(* trace: the prefixes that are not traced yet are followed too, under the *)
(* same name.  A path traced before gets a fresh record.                   *)
(***************************************************************************)
Trace(t, path, options) ==
    LET name == IF options.name = NoPath THEN path ELSE options.name
        record(expr) ==
            [expr |-> expr, name |-> name, module |-> options.module,
             follow |-> expr # path \/ options.follow,
             followReturn |-> expr = path /\ options.followReturn,
             memory |-> << >>, age |-> t.age]
        missing == {SubSeq(path, 1, n) : n \in 1..(Len(path) - 1)} \ DOMAIN t.traced
        new == missing \cup {path}
    IN  [t EXCEPT !.age = @ + 1,
                  !.traced = [p \in DOMAIN @ \cup new |->
                                IF p \in new THEN record(p) ELSE t.traced[p]]]

TraceAll(t, paths, options) ==
    FoldLeft(LAMBDA s, path : Trace(s, path, options), t, paths)

(* enable_default_tracing *)
EnableDefaultTracing(t) ==
    LET required == TraceAll(t, RequirePatterns,
                             [Follow EXCEPT !.name = <<"require">>])
        called == TraceAll(required, << <<"eval">>, <<"Function">> >>,
                           [Follow EXCEPT !.follow = FALSE])
    IN  Trace(called, <<"atob">>, Follow)

(* is_traced_identifier_imported_as_module *)
IsImported(t, record) == record.module = NoModule \/ record.module \in t.imported

(***************************************************************************)
(* get_data_from_identifier: a member of a traced name is looked up under  *)
(* the path that name stands for.                                          *)
(***************************************************************************)
StripGlobal(path) ==
    IF Len(path) > 1 /\ Head(path) \in GlobalIdentifiers THEN Tail(path) ELSE path

GetDataExactly(t, path, strip) ==    \* (faulty) members of an alias are not looked up
    LET id == IF strip THEN StripGlobal(path) ELSE path
    IN  IF IsTraced(t, id) /\ IsImported(t, t.traced[id])
        THEN [name |-> t.traced[id].name, expr |-> t.traced[id].expr, memory |-> << >>]
        ELSE NoReport

GetData(t, path, strip) ==
    LET id == IF strip THEN StripGlobal(path) ELSE path
        final == IF ~IsTraced(t, id) /\ Len(id) > 1 /\ IsTraced(t, <<Head(id)>>)
                 THEN t.traced[<<Head(id)>>].expr \o Tail(id) ELSE id
    IN  IF ~IsTraced(t, final) THEN NoReport
        ELSE LET record == t.traced[final]
             IN  IF ~IsImported(t, record) THEN NoReport
                 ELSE [name |-> record.name, expr |-> record.expr,
                       memory |-> IF IsTraced(t, record.name)
                                  THEN t.traced[record.name].memory ELSE << >>]

(***************************************************************************)
(* The borrow_mut of a shared record: every key that shares it sees it.    *)
(***************************************************************************)
Remember(t, record, kind, id) ==
    LET shared(r) == r.expr = record.expr /\ r.age = record.age
    IN  [t EXCEPT !.traced = [p \in DOMAIN @ |->
            IF shared(@[p])
            THEN [@[p] EXCEPT !.memory = Append(@, [type |-> kind, name |-> id])]
            ELSE @[p]]]

Emit(t, event) == [t EXCEPT !.events = Append(@, event)]

(* declare_new_assignment *)
Declare(t, path, id) ==
    IF ~IsTraced(t, path) \/ ~IsImported(t, t.traced[path]) THEN t
    ELSE LET record == t.traced[path]
             told == Emit(t, [type |-> "Assignment", name |-> record.name,
                              expr |-> record.expr, id |-> id])
             kept == IF IsTraced(t, record.name)
                     THEN Remember(told, t.traced[record.name], "AliasBinding", id)
                     ELSE told
         IN  IF record.follow /\ ~IsTraced(t, <<id>>)
             THEN [kept EXCEPT !.traced = With(@, <<id>>, kept.traced[path])]
             ELSE told

IsGlobalVariable(t, name) == name \in GlobalIdentifiers \cup t.toGlobal

(***************************************************************************)
(* search_for_member_expr_alternative: every segment that is traced is     *)
(* replaced, wherever it stands, and every global object dropped.          *)
(***************************************************************************)
Alternative(t, path) ==
    LET part(segment) ==
            IF IsTraced(t, <<segment>>) THEN t.traced[<<segment>>].expr
            ELSE IF IsGlobalVariable(t, segment) THEN << >> ELSE <<segment>>
    IN  FlattenSeq([i \in DOMAIN path |-> part(path[i])])

(* auto_trace_id *)
AutoTrace(t, pattern, prefix) ==
    FoldLeft(LAMBDA s, pair : Declare(s, prefix \o pair[1], pair[2]),
             t, PatternIdentifiers(pattern, NoPath))

(* reverse_atob *)
ReverseAtob(t, call, id) ==
    LET known == CallArguments(call, t.literals)
    IN  IF known = << >> THEN t
        ELSE [t EXCEPT !.literals = With(@, id, [type |-> "Literal", value |-> Base64[known[1]]])]

Import(t, module, source) ==
    Emit([t EXCEPT !.imported = @ \cup {module}],
         [type |-> "Import", module |-> module, value |-> source])

WalkImportWhole(t, node) ==    \* (faulty) every specifier stands for the module
    LET module == Plain[Bare[node.source]]
    IN  IF ~IsTraced(t, <<module>>) THEN t
        ELSE FoldLeft(LAMBDA s, n : Declare(s, <<module>>, n.local),
                      Import(t, module, node.source), node.specifiers)

(***************************************************************************)
(* walk_import_declaration: after a namespace or a default specifier the   *)
(* others are not read, and a named one declares what it imports, not the  *)
(* local name it is given.                                                 *)
(***************************************************************************)
WalkImport(t, node) ==
    LET module == Plain[Bare[node.source]]
        imported == Import(t, module, node.source)
        named == SelectSeq(node.specifiers, LAMBDA s : s.type = "ImportSpecifier")
    IN  IF ~IsTraced(t, <<module>>) THEN t
        ELSE IF node.specifiers # << >> /\ Head(node.specifiers).type # "ImportSpecifier"
        THEN Declare(imported, <<module>>, Head(node.specifiers).local)
        ELSE FoldLeft(LAMBDA s, n : Declare(s, <<module, n.imported>>, n.imported),
                      imported, named)

(***************************************************************************)
(* walk_require_call_expression: the module is the first string among the  *)
(* arguments that names a traced one.                                      *)
(***************************************************************************)
WalkRequire(t, call, id) ==
    LET source == SelectInSeq(call.arguments,
                     LAMBDA a : a.type = "Literal" /\ IsTraced(t, <<Bare[a.value]>>))
        text == call.arguments[source].value
        module == Bare[text]
        imported == Import(t, module, text)
    IN  CASE source = 0 -> t
          [] source # 0 /\ IsIdentifier(id) -> Declare(imported, <<module>>, id.name)
          [] source # 0 /\ id.type = "ObjectPattern" -> AutoTrace(imported, id, <<module>>)
          [] OTHER -> imported

(***************************************************************************)
(* walk_variable_declarator_initialization, one operator per type of the   *)
(* initial value.                                                          *)
(***************************************************************************)
InitialiseByCall(t, id, call) ==
    LET path == CalleePath(call)
        name == IF IsTraced(t, path) THEN t.traced[path].name ELSE path
        variant == IF IsTraced(t, name) THEN name ELSE Alternative(t, name)
        record == t.traced[variant]
        noted == Emit(Remember(t, record, "ReturnValueAssignment", id.name),
                      [type |-> "ReturnValue", name |-> record.name, expr |-> record.expr,
                       id |-> id.name, node |-> call])
        told == IF ~IsTraced(t, variant) \/ ~record.followReturn THEN t
                ELSE IF record.follow
                THEN [noted EXCEPT !.returned = With(@, id.name, name)] ELSE noted
    IN  IF path = NoPath THEN t
        ELSE IF call.type = "NewExpression" THEN told
        ELSE IF Head(path) \in t.neutral \/ IsEvilPath(path) THEN WalkRequire(told, call, id)
        ELSE IF Head(path) \in UnsafeGlobalCalls
        THEN [told EXCEPT !.toGlobal = @ \cup {id.name}]
        ELSE IF <<Head(path)>> \in Range(RequirePatterns) THEN WalkRequire(told, call, id)
        ELSE IF name = <<"atob">> THEN ReverseAtob(told, call, id.name)
        ELSE told

InitialiseByName(t, id, name) ==
    LET bound == IF IsTraced(t, <<name>>) THEN Declare(t, <<name>>, id.name)
                 ELSE IF IsGlobalVariable(t, name)
                 THEN [t EXCEPT !.toGlobal = @ \cup {id.name}] ELSE t
    IN  IF name \in DOMAIN t.returned /\ IsTraced(bound, t.returned[name])
        THEN [Remember(bound, bound.traced[t.returned[name]],
                       "ReturnValueAssignment", id.name)
                EXCEPT !.returned = With(@, id.name, t.returned[name])]
        ELSE bound

InitialiseByMember(t, id, node) ==
    LET path == MemberIdentifier(node, t.literals)
    IN  IF IsNeutralCallable(path) THEN [t EXCEPT !.neutral = @ \cup {id.name}]
        ELSE IF IsTraced(t, path) THEN Declare(t, path, id.name)
        ELSE Declare(t, Alternative(t, path), id.name)

RECURSIVE Initialise(_, _, _, _)
Initialise(t, id, node, top) ==
    LET each(nodes) == FoldLeft(LAMBDA s, n : Initialise(s, id, n, FALSE), t, nodes)
        known == IF top THEN [t EXCEPT !.objects = With(@, id.name, node)] ELSE t
        member == InitialiseByMember(t, id, node)
    IN  CASE node.type \in {"Literal", "TemplateLiteral"} ->
                [t EXCEPT !.literals = With(@, id.name, node)]
          [] node.type = "ObjectExpression" ->
                FoldLeft(LAMBDA s, p : Initialise(s, id, p.value, FALSE), known, node.properties)
          [] node.type = "ArrayExpression" -> each(node.elements)
          [] node.type = "SpreadElement" -> each(<<node.argument>>)
          [] node.type \in {"CallExpression", "NewExpression"} -> InitialiseByCall(t, id, node)
          [] IsIdentifier(node) -> InitialiseByName(t, id, node.name)
          [] IsMember(node) ->
                IF IsCall(node.object) THEN Initialise(member, id, node.object, FALSE)
                ELSE member
          [] OTHER -> t

(* walk_variable_declaration_with_anything_else *)
WalkPattern(t, pattern, init) ==
    LET path == IF IsCall(init) THEN CalleePath(init) ELSE NoPath
    IN  CASE path # NoPath /\ (IsEvilPath(path) \/ <<Head(path)>> \in Range(RequirePatterns)) ->
                WalkRequire(t, init, pattern)
          [] path # NoPath /\ Head(path) \in UnsafeGlobalCalls /\ ~IsEvilPath(path) ->
                AutoTrace(t, pattern, NoPath)
          [] IsIdentifier(init) /\ IsGlobalVariable(t, init.name) ->
                AutoTrace(t, pattern, NoPath)
          [] OTHER -> t

(* walk_variable_declarator *)
WalkDeclarator(t, declarator) ==
    LET init == declarator.init
    IN  IF init.type = "Null" THEN t
        ELSE IF ~IsIdentifier(declarator.id) THEN WalkPattern(t, declarator.id, init)
        ELSE FoldLeft(LAMBDA s, operand :
                        Initialise(s, declarator.id, operand, init.type # "LogicalExpression"),
                      t, LogicalOperands(init))

(* walk *)
WalkTracer(t, node) ==
    CASE node.type = "ImportDeclaration" -> WalkImport(t, node)
      [] node.type = "VariableDeclaration" -> FoldLeft(WalkDeclarator, t, node.declarations)
      [] OTHER -> t
===============================================================================
