---------------------------- MODULE ProgramMeaning ----------------------------
(***************************************************************************)
(* What a program does, for the calls the probes of TracedWalk look for:   *)
(* an evaluation with environments and scopes, which the tracer does       *)
(* without.  A thing is what an expression evaluates to: its path starts   *)
(* with "#" and a module, with a global name, or with what it is ("a       *)
(* logger", which no name can be); methods are the log methods of a        *)
(* logger, safe tells whether a digest is text, and node is the literal    *)
(* or object it was written as.                                            *)
(***************************************************************************)
EXTENDS TracedWalk

Thing(path) == [path |-> path, methods |-> {}, safe |-> FALSE, encoded |-> FALSE,
                node |-> Missing]
Unknown == Thing(<<"?">>)
Logger(methods) == [Thing(<<"a logger">>) EXCEPT !.methods = methods]

Keys(object) == {object.properties[i].key.name : i \in DOMAIN object.properties}
Under(object, key) ==
    LET i == SelectInSeq(object.properties, LAMBDA p : p.key.name = key)
    IN  IF i = 0 THEN Missing ELSE object.properties[i].value

IsText(thing, texts) == thing.node.type = "Literal" /\ thing.node.value \in texts

RECURSIVE Evaluate(_, _)

(* The methods of a new logger, by the object its factory is called with. *)
PinoLevels(env, things) ==
    LET object == IF things = << >> THEN Missing ELSE things[1].node
        levels == Under(object, "customLevels")
        only == Evaluate(env, Under(object, "useOnlyCustomLevels"))
    IN  IF object.type # "ObjectExpression" THEN Range(PinoMethods)
        ELSE (IF IsText(only, {"true"}) THEN {} ELSE Range(PinoMethods))
             \cup (IF levels = Missing THEN {} ELSE Keys(levels))

WinstonLevels(things) ==
    LET object == IF things = << >> THEN Missing ELSE things[1].node
    IN  IF object.type = "ObjectExpression" /\ Under(object, "levels") # Missing
        THEN Keys(Under(object, "levels")) ELSE Range(WinstonMethods)

(* a digest in the encoding it is asked for *)
Digest(path, things) ==
    [Thing(path) EXCEPT !.encoded = things # << >>,
                        !.safe = things # << >> /\ IsText(things[1], SafeEncodings)]

(* What calling f with things returns. *)
RECURSIVE Result(_, _, _)
Result(env, f, things) ==
    LET path == f.path
    IN  CASE path = <<"Function", "prototype", "call", "call">> /\ Len(things) > 1 ->
                Result(env, things[1], SubSeq(things, 3, Len(things)))
          [] path = <<"require">> /\ things # << >> /\ things[1].node.type = "Literal" ->
                Thing(<<"#", Bare[things[1].node.value]>>)
          [] path = <<"#", "pino">> -> Logger(PinoLevels(env, things))
          [] path = <<"#", "winston", "createLogger">> -> Logger(WinstonLevels(things))
          [] path = <<"#", "winston", "child">> -> Logger(Range(WinstonMethods))
          [] path = <<"a logger", "child">> -> Logger(f.methods)
          [] path \in {<<"#">> \o h : h \in Range(HashFunctions)} -> Thing(<<"a hash", path[3]>>)
          [] path[1] = "a hash" /\ Last(path) = "update" -> Thing(Front(path))
          [] path[1] = "a hash" /\ Last(path) = "digest" ->
                Digest(<<"a digest", path[2]>>, things)
          [] path[1] = "a digest" /\ Last(path) = "toString" ->
                IF f.encoded THEN [f EXCEPT !.path = Front(path)]
                ELSE Digest(Front(path), things)
          [] Last(path) = "digest" /\ Thing(<<"#", "crypto">>) \in Range(env) ->
                Digest(<<"a digest", "?">>, things)
          [] OTHER -> Thing(Append(path, "()"))

(* The names a declaration binds, on top of env. *)
RECURSIVE Bound(_, _)
Bound(env, node) ==
    LET all(nodes) == FoldLeft(Bound, env, nodes)
        part(e, p) == With(e, p.value.name,
                           [Evaluate(env, node.init) EXCEPT !.path = Append(@, p.key.name)])
        named(e, i) == With(e, i.local, Thing(<<"#", Plain[Bare[node.source]]>> \o
                             (IF i.type = "ImportSpecifier" THEN <<i.imported>> ELSE << >>)))
    IN  CASE node.type = "VariableDeclaration" -> all(node.declarations)
          [] node.type = "VariableDeclarator" ->
                IF IsIdentifier(node.id) THEN With(env, node.id.name, Evaluate(env, node.init))
                ELSE FoldLeft(part, env, node.id.properties)
          [] node.type = "ImportDeclaration" -> FoldLeft(named, env, node.specifiers)
          [] OTHER -> env

(* An inlined chain is worth its last expression; every condition holds. *)
Evaluate(env, node) ==
    LET things == [i \in DOMAIN node.arguments |-> Evaluate(env, node.arguments[i])]
    IN  CASE IsIdentifier(node) ->
                IF node.name \in DOMAIN env THEN env[node.name] ELSE Thing(<<node.name>>)
          [] node.type \in {"Literal", "ObjectExpression"} -> [Unknown EXCEPT !.node = node]
          [] IsMember(node) ->
                [Evaluate(env, node.object) EXCEPT !.path =
                    IF @ = <<"globalThis">> THEN <<node.property.name>>
                    ELSE Append(@, node.property.name)]
          [] IsCall(node) -> Result(env, Evaluate(env, node.callee), things)
          [] node.type = "NewExpression" ->
                IF Evaluate(env, node.callee).path = <<"#", "vm", "Script">>
                THEN Thing(<<"a script">>) ELSE Unknown
          [] node.type = "LogicalExpression" -> Evaluate(env, node.right)
          [] node.type = "BlockStatement" ->
                Evaluate(FoldLeft(Bound, env, Front(node.body)), Last(node.body).expression)
          [] OTHER -> Unknown

(***************************************************************************)
(* The kinds of calls a call is.  A hash that a variable holds counts as   *)
(* its digest, and so does what the digest method of anything returns      *)
(* where it is written; a digest method in a variable is no shucking.      *)
(* NamedSync is no kind of its own: a function of bcrypt or of a logger    *)
(* that only has the name of a synchronous one.                            *)
(***************************************************************************)
IsDigest(thing, node) ==
    /\ Len(thing.path) = 2
    /\ \/ thing.path[1] = "a digest" /\ (thing.path[2] = "?" => IsCall(node))
       \/ thing.path[1] = "a hash" /\ IsIdentifier(node)

NamedSync == "only named Sync"

IsSensitive(thing) == thing.path \in {<<"#", m[1]>> : m \in Range(SensitiveMethods)}

Kinds(env, node) ==
    LET f == Evaluate(env, node.callee)
        first == IF node.arguments = << >> THEN Unknown ELSE Evaluate(env, node.arguments[1])
        path == f.path
        digests == /\ path \in {<<"#">> \o b : b \in Range(BcryptFunctions)}
                   /\ node.arguments # << >> /\ IsDigest(first, node.arguments[1])
    IN  { kind \in {"log-usage", "synchronous-io", NamedSync, "unsafe-vm-context", "data-exfiltration",
                    "crypto.weak-algorithm", "crypto.unsafe-prehash",
                    "crypto.password-shucking"} :
            CASE kind = "log-usage" ->
                    \/ path \in Range(Named("console", ConsoleMethods))
                    \/ path \in {<<"#", "winston", m>> : m \in Range(WinstonMethods)}
                    \/ \E m \in f.methods : path = <<"a logger", m>>
              [] kind = "synchronous-io" ->
                    path \in {<<"#">> \o sync : sync \in Range(SyncFunctions)}
              [] kind = NamedSync ->
                  /\ Last(path) \in SyncNames
                  /\ \/ path \in {<<"#">> \o b : b \in Range(BcryptFunctions)}
                     \/ \E m \in f.methods : path = <<"a logger", m>>
              [] kind = "unsafe-vm-context" ->
                    path \in { <<"a script", "runInContext">>, <<"#", "vm", "runInNewContext">> }
              [] kind = "data-exfiltration" ->
                  IF s.sensitivity = "aggressive" THEN IsSensitive(Evaluate(env, node)) ELSE
                    /\ path = Stringify /\ node.arguments # << >> /\ IsCall(node.arguments[1])
                    /\ first.path \in {<<"#">> \o m \o <<"()">> : m \in Range(SensitiveMethods)}
              [] kind = "crypto.weak-algorithm" ->
                    path \in {<<"#">> \o h : h \in Range(HashFunctions)}
                    /\ IsText(first, WeakAlgorithms)
              [] kind = "crypto.unsafe-prehash" -> digests /\ ~first.safe
              [] OTHER -> /\ digests /\ first.path[2] = "createHash"
                          /\ IsCall(node.arguments[1]) =>
                                ~IsIdentifier(node.arguments[1].callee) }

(* The kinds of the calls in a node; functions and blocks have scopes. *)
RECURSIVE Found(_, _)
Found(env, node) ==
    LET params == IF IsFunction(node) THEN ParamNames(node.params) ELSE {}
        inside == [x \in DOMAIN env \cup params |-> IF x \in params THEN Unknown ELSE env[x]]
        step(acc, item) == [env |-> Bound(acc.env, item),
                            kinds |-> acc.kinds \cup Found(acc.env, item)]
        inOrder(items) == FoldLeft(step, [env |-> env, kinds |-> {}], items).kinds
    IN  CASE IsFunction(node) -> Found(inside, node.body)
          [] node.type = "BlockStatement" -> inOrder(node.body)
          [] node.type = "VariableDeclaration" -> inOrder(node.declarations)
          [] node.type = "Literal" ->
                IF node.value \in SensitivePaths THEN {"data-exfiltration"} ELSE {}
          [] node.type = "ImportDeclaration" ->
                IF s.sensitivity = "aggressive"
                   /\ IsSensitive(Thing(<<"#", Plain[Bare[node.source]]>>))
                THEN {"data-exfiltration"} ELSE {}
          [] OTHER -> (IF IsCall(node) THEN Kinds(env, node) ELSE {})
                      \cup UNION {Found(env, c) : c \in Range(ChildrenOf(node))}

(* The calls of a program: kinds and lines. *)
Meaning(statements, start) ==
    LET env[n \in 0..Len(statements)] ==
            IF n = 0 THEN start ELSE Bound(env[n - 1], statements[n])
    IN  UNION { {<<kind, n>> : kind \in Found(env[n - 1], statements[n])} :
                n \in DOMAIN statements }

(* What the probes have said so far. *)
Reported ==
    {<<w.kind, w.line>> : w \in {v \in Range(s.warnings) : v.kind # "serialize-environment"}}
    \cup {<<"log-usage", c.line>> : c \in Range(s.log.context)}
    \cup {<<"data-exfiltration", line>> :
            line \in UNION {Range(s.exfiltration[p]) : p \in DOMAIN s.exfiltration}}

Settled == Idle /\ todo = << >> /\ phase = "walking"

(***************************************************************************)
(* The names a statement binds, in whatever scope.                         *)
(***************************************************************************)
RECURSIVE Names(_)
Names(node) ==
    LET below == FlattenSeq([i \in DOMAIN ChildrenOf(node) |-> Names(ChildrenOf(node)[i])])
    IN  CASE node.type = "VariableDeclarator" ->
                [i \in DOMAIN PatternIdentifiers(node.id, NoPath) |->
                    PatternIdentifiers(node.id, NoPath)[i][2]] \o Names(node.init)
          [] node.type = "ImportDeclaration" ->
                [i \in DOMAIN node.specifiers |-> node.specifiers[i].local]
          [] IsFunction(node) -> SetToSeq(ParamNames(node.params)) \o Names(node.body)
          [] OTHER -> below

AllNames == FlattenSeq([i \in DOMAIN program |-> Names(program[i])])

(* No name is bound twice. *)
Unique == IsInjective(AllNames)

RECURSIVE Within(_)
Within(node) == {node} \cup UNION {Within(c) : c \in Range(ChildrenOf(node))}
Nodes == UNION {Within(program[i]) : i \in DOMAIN program}

(* No property is named like a variable that holds a literal or an alias. *)
Unhidden == \A node \in Nodes : IsMember(node) =>
    LET name == node.property.name
    IN  /\ name \notin DOMAIN s.tracer.literals
        /\ IsTraced(s.tracer, <<name>>) => s.tracer.traced[<<name>>].expr = <<name>>

(***************************************************************************)
(* A declaration declares one variable, whose value the Inline pipeline    *)
(* did not take apart: the probes hear of a declaration when it is over.   *)
(***************************************************************************)
Simple == \A node \in Nodes :
    /\ node.type = "VariableDeclaration" => Len(node.declarations) = 1
    /\ node.type = "VariableDeclarator" => node.init.type # "BlockStatement"

(***************************************************************************)
(* Nothing goes on from a variable that holds a digest: the probes         *)
(* remember a digest by the one name it was given.                         *)
(***************************************************************************)
Kept == \A node \in Nodes :
    LET value == IF node.type = "VariableDeclarator" THEN node.init ELSE node
    IN  IsMember(node) \/ node.type = "VariableDeclarator" =>
            (IsIdentifier(Root(value)) => Root(value).name \notin s.prehash.variables)

Modules == [m \in Range(Bare) |-> Thing(<<"#", m>>)]
Env == FoldLeft(Bound, Modules, program)

(***************************************************************************)
(* In a program that binds no name twice, whatever the probes report is    *)
(* there: the call on that line does what it is said to do.  The name of a *)
(* module counts as the module, bound or not.  The one exception is what   *)
(* is_sync_io.rs takes for synchronous by its name, in a program that      *)
(* loads a core module.                                                    *)
(***************************************************************************)
Loads(module) == \E node \in Nodes :
    \/ node.type = "ImportDeclaration" /\ Plain[Bare[node.source]] = module
    \/ node.type = "Literal" /\ Bare[node.value] = module

MistakenSync ==
    {<<"synchronous-io", claim[2]>> : claim \in
        {c \in Meaning(program, Modules) :
            c[1] = NamedSync /\ \E m \in TracedCoreModules : Loads(m)}}

Sound == (Settled /\ Unique) => Reported \subseteq Meaning(program, Modules) \cup MistakenSync

(***************************************************************************)
(* If the program also hides no property, declares simply and keeps its    *)
(* digests where they are, nothing is missed, however often and by         *)
(* whatever import, alias or destructuring a function was handed on.       *)
(***************************************************************************)
Complete == (Settled /\ Unique /\ Unhidden /\ Simple /\ Kept)
                => {claim \in Meaning(program, << >>) : claim[1] # NamedSync} \subseteq Reported

(***************************************************************************)
(* What the tracer says a name stands for is what the variable of that     *)
(* name holds; a literal it holds is the variable's, or one of those in    *)
(* the object the variable holds.                                          *)
(***************************************************************************)
AliasesAreTrue == (Settled /\ Unique) => \A name \in DOMAIN Env :
    LET t == s.tracer
        expr == IF IsTraced(t, <<name>>) THEN t.traced[<<name>>].expr ELSE <<name>>
        stood == Evaluate(Env, Variable(Head(expr)))
    IN  /\ Env[name].path = stood.path \o Tail(expr)
        /\ name \in DOMAIN t.literals => t.literals[name] \in Within(Env[name].node)

(***************************************************************************)
(* What is given to bcrypt and reported is a digest, whatever else in the  *)
(* program is named like a variable that holds one.                        *)
(***************************************************************************)
NoUnrelatedDigest == Settled =>
    \A report \in Reported : report[1] = "crypto.unsafe-prehash"
                                => report \in Meaning(program, Modules)
===============================================================================
