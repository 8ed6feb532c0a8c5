---------------------------- MODULE MCAnalysedTree ----------------------------
(* Small programs for AnalysedTree. *)
EXTENDS TreeMeaning

Id(name) == Variable(name)
Lit(value) == [type |-> "Literal", value |-> value]
List(elements) == [type |-> "ArrayExpression", elements |-> elements]
Do(expression) == [type |-> "ExpressionStatement", expression |-> expression]
Call(callee, arguments) ==
    [type |-> "CallExpression", callee |-> callee, arguments |-> arguments]
New(name) == [type |-> "NewExpression", callee |-> Id(name), arguments |-> << >>]
Member(object, property, computed) ==
    [type |-> "MemberExpression", object |-> object, property |-> property, computed |-> computed]
Dot(object, name) == Member(object, Id(name), FALSE)
Not(node) == [type |-> "UnaryExpression", argument |-> node]
True == Not(Not(List(<< >>)))
Assign(name, value) ==
    [type |-> "AssignmentExpression", left |-> Id(name), right |-> value]
Object(names, value) ==
    [type |-> "ObjectExpression",
     properties |-> [i \in DOMAIN names |->
        [type |-> "Property", key |-> Id(names[i]), value |-> value]]]
Keyed(key) ==
    [type |-> "ObjectExpression",
     properties |-> << [type |-> "Property", key |-> key, value |-> Id("x")] >>]
Function(name, params) ==
    [type |-> "FunctionDeclaration", id |-> Id(name),
     params |-> [i \in DOMAIN params |-> Id(params[i])],
     body |-> [type |-> "BlockStatement", body |-> << >>]]
Class(name, method) ==
    [type |-> "ClassDeclaration", id |-> Id(name), superClass |-> Missing,
     body |-> [type |-> "ClassBody",
               body |-> << [type |-> "MethodDefinition", key |-> Id(method),
                            value |-> [type |-> "FunctionExpression", id |-> Missing,
                                       params |-> <<Id(method)>>,
                                       body |-> [type |-> "BlockStatement", body |-> << >>]]] >>]]
Var(names) == [i \in DOMAIN names |-> Declaration(names[i], Lit("1"))]
Plain(statements, options) == [body |-> statements, options |-> options, wishes |-> NoLiterals]

(***************************************************************************)
(* Every mixture of wishes of two names, in lists, in a field, twice in    *)
(* the same list, and in a walk that a handler starts.                     *)
(***************************************************************************)
WishTree == << Do(Id("a")), Do(Call(Id("f"), <<Id("b"), Id("a"), Id("a"), Missing, Id("b")>>)) >>
Wish(nested) ==
    [enter : {Skip, Removal, ReplaceAndSkip(Id("d"))}, nested : nested, leave : {Nothing}]
    \cup [enter : {Nothing, Replace(Call(Id("g"), <<Id("d")>>))}, nested : nested,
          leave : {Nothing, Removal, Replace(Id("d"))}]
WishCases ==
    { [options |-> <<"custom">>, body |-> WishTree, wishes |-> [a |-> a, b |-> b]] :
        a \in Wish({<< >>, <<Do(Id("b")), Do(Id("b"))>>}), b \in Wish({<< >>, <<Do(Id("c"))>>}) }

(* Chains of calls and of new, in arguments and in elements, and texts. *)
Chains ==
    { Dot(New("X"), "p"), Call(Dot(Call(Dot(New("Y"), "p"), << >>), "q"), << >>),
      Call(Dot(Call(Id("m"), << >>), "q"), <<Dot(New("X"), "p")>>),
      Call(Call(Call(Id("m"), << >>), << >>), << >>), Call(Call(Id("eval"), <<Lit("1")>>), << >>),
      Call(Dot(Call(Dot(Id("m"), "p"), << >>), "q"), << >>),
      Call(Dot(List(<<Lit("1"), Lit(""), Id("x"), Lit("2")>>), "join"), <<Lit("2")>>),
      Call(Dot(List(<<Call(Dot(List(<<Lit("1"), Lit("2")>>), "join"), <<Lit("")>>)>>), "join"),
           <<Lit("1")>>),
      Call(Id("eval"), <<Lit("text")>>), Call(Id("eval"), <<Id("x")>>) }
ChainCases ==
    { Plain(<<Do(c), Do(List(<<d, Lit("1")>>))>>, options) : c, d \in Chains,
        options \in {<< >>, <<"deobfuscate">>, <<"inline", "deobfuscate", "inline">>} }

(***************************************************************************)
(* Programs put together from what the verifiers look for.                 *)
(***************************************************************************)
Morse == [i \in 1..36 |-> Lit(ToString(i) \o ".-")]
Pool ==
    << <<Do(True), Do(True), Do(Not(True))>>, <<Do(True), Do(Call(Id("eval"), <<Lit("text")>>))>>,
       Var(<<"kab1", "kax", "kaz2">>), Var(<<"_0x1a", "_0x2b", "_0x1c", "_0x3">>),
       <<Do(Assign("$", Object(<<"__", "_$", "$$">>, Id("x")))), Do(Assign("_", Id("x")))>>,
       <<Do(Object(<<"__", "_$", "$$", "b", "kab">>, Lit("1")))>>,
       <<Do(Dot(Member(Id("x"), Id("p"), TRUE), "p"))>>,
       <<Do(Call(Dot(Call(Dot(New("X"), "p"), << >>), "q"), << >>))>>,
       <<Function("kb", <<"kc", "kd">>), Class("Z", "kz")>> >>
PoolCases ==
    { Plain(FlattenSeq([i \in DOMAIN Pool |-> IF i \in chosen THEN Pool[i] ELSE << >>]), << >>) :
        chosen \in {some \in SUBSET DOMAIN Pool : Cardinality(some) <= 4} }
    \cup { Plain(<<Do(List(SubSeq(Morse, 1, n)))>> \o rest, << >>) :
            n \in 35..36, rest \in {<< >>, <<Do(Morse[1])>>, <<Do(Keyed(Lit("1")))>>} }
    \cup { Plain(<<Function("a", <<"b", "c", "d">> \o names), Do(Object(<<"k">>, Lit("1")))>>, << >>) :
            names \in {<<"x">>, <<"x", "p">>, <<"x", "kab1">>, <<"x", "_0x1a">>} }

MCCases == WishCases \cup ChainCases \cup PoolCases
MCEvalBody ==
    [text \in {"1", "2", ""} |-> << >>] @@
    [text \in {"text"} |-> <<Do(True), Do(Call(Id("eval"), <<Lit("2")>>)),
                             Do(Member(Id("x"), Id("p"), TRUE))>>]

(***************************************************************************)
(* The handlers without a state, and the nodes they may be called on: all  *)
(* in those programs, and what the wishes bring in.                        *)
(***************************************************************************)
Wishes == {case.wishes : case \in MCCases}
MCHandler == [pass : {"custom", "deobfuscate", "walk"}, wishes : Wishes]
NodesIn(statements) == Range(AllNodes(Array(statements))) \ {Array(statements)}
ProgramNodes ==
    UNION {NodesIn(statements) : statements \in {case.body : case \in MCCases} \cup Range(MCEvalBody)}
WishNodes == NodesIn(WishTree \o << Do(Id("c")), Do(Id("b")), Call(Id("g"), <<Id("d")>>) >>)
MCNodesFor(h) == IF h.wishes = NoLiterals THEN ProgramNodes ELSE WishNodes

(* The functions that RecursionAssumption asks for. *)
RECURSIVE MCKept(_, _)
MCKept(h, node) ==
    LET enter == Asks(h, node).enter
        inside == Rebuild(AsReplaced(node, enter), LAMBDA child : MCKept(h, child))
        leave == Asks(h, inside).leave
    IN  IF enter.remove THEN << >>
        ELSE IF enter.skip THEN <<AsReplaced(node, enter)>>
        ELSE IF leave.remove THEN << >> ELSE <<AsReplaced(inside, leave)>>

RECURSIVE MCVisits(_, _)
MCVisits(h, node) ==
    LET asked == Asks(h, node)
        into == AsReplaced(node, asked.enter)
        met(nodes) == FlattenSeq([i \in DOMAIN nodes |->
                          IF nodes[i] = Missing THEN << >> ELSE MCVisits(h, nodes[i])])
        below == [i \in DOMAIN FieldsOf(into) |-> met(HeldAt(into, FieldsOf(into)[i]))]
    IN  <<node>> \o met(asked.nested)
        \o (IF asked.enter.skip \/ asked.enter.remove THEN << >> ELSE FlattenSeq(below))

(* Names of the program, spelled with the code points of ASCII. *)
Chars == << "$", "_", "a", "b", "c", "d", "k", "x", "z", "X", "Z", "p", "q", "0", "1", "2", "3" >>
Codes == << 36, 95, 97, 98, 99, 100, 107, 120, 122, 88, 90, 112, 113, 48, 49, 50, 51 >>
MCSpelling(name) ==
    IF SubSeq(name, 1, 1) = "_" /\ Len(name) > 9 THEN <<95, 95, 118>>
    ELSE [i \in 1..Len(name) |-> Codes[SelectInSeq(Chars, LAMBDA c : c = SubSeq(name, i, i))]]
MCTexture(text) ==
    [score |-> IF text = "2" THEN 3 ELSE 0, dictionary |-> FALSE,
     morse |-> Lit(text) \in Range(Morse)]
MCPatternNames(pattern) == IF IsIdentifier(pattern) THEN <<pattern.name>> ELSE << >>
MCNode ==
    LET program == Array(FlattenSeq(Pool)) IN Range(AllNodes(program)) \ {program}
MCText == {"1", "2", "text"} \cup {Morse[i].value : i \in 1..36}
===============================================================================
