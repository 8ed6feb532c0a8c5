---------------------------- MODULE MCTracedWalk ----------------------------
(* Small programs for TracedWalk. *)
EXTENDS ProgramMeaning

Id(name) == Variable(name)
Text(value) == [type |-> "Literal", value |-> value]
Dot(object, name) == [type |-> "MemberExpression", object |-> object, property |-> Id(name)]
Call(callee, arguments) ==
    [type |-> "CallExpression", callee |-> callee, arguments |-> arguments]
New(callee) == [type |-> "NewExpression", callee |-> callee, arguments |-> << >>]
Method(object, name) == Call(Dot(object, name), << >>)
Const(name, init) == Declaration(name, init)
Object(properties) == [type |-> "ObjectExpression", properties |-> properties]
Property(key, value) == [type |-> "Property", key |-> Id(key), value |-> value]
Pattern(keys) ==
    [type |-> "ObjectPattern",
     properties |-> [i \in DOMAIN keys |-> Property(keys[i], Id(keys[i]))]]
Destructure(keys, init) ==
    [type |-> "VariableDeclaration",
     declarations |-> << [type |-> "VariableDeclarator", id |-> Pattern(keys), init |-> init] >>]
(* ready && value *)
Holding(condition, value) ==
    [type |-> "LogicalExpression", left |-> Id(condition), right |-> value]
Do(expression) == [type |-> "ExpressionStatement", expression |-> expression]
(* an expression as the Inline pipeline leaves it *)
Inlined(node) == InlineNode([node |-> node, n |-> 0, skip |-> FALSE, hoisted |-> << >>]).node
Default(name) == [type |-> "ImportDefaultSpecifier", local |-> name, imported |-> name]
Only(name) == [type |-> "ImportSpecifier", local |-> name, imported |-> name]
ImportFrom(source, specifier) ==
    [type |-> "ImportDeclaration", source |-> source, specifiers |-> <<specifier>>]
Require(source) == Call(Id("require"), <<Text(source)>>)

Levels(key) == Object(<<Property(key, Object(<<Property("hiSync", Text("35"))>>))>>)
OnlyLevels(flag) ==
    Object(<<Property("useOnlyCustomLevels", flag)>> \o Levels("customLevels").properties)
Logs(names) == {Do(Method(Id(name), method)) : name \in names, method \in {"info", "hiSync"}}
Function(name, body) ==
    [type |-> "FunctionDeclaration", id |-> Id("f"), params |-> <<Id(name)>>,
     body |-> [type |-> "BlockStatement", body |-> body]]

PinoPool ==
    << { ImportFrom("pino", Default("pino")), Const("pino", Require("pino")),
         Const("make", Holding("ready", Require("pino"))), Const("x", Text("y")) },
       { Const("log", Call(Id("pino"), << >>)), Const("log", Call(Id("make"), << >>)),
         Const("log", Call(Id("pino"), <<OnlyLevels(Text("true"))>>)),
         Const("options", OnlyLevels(Id("only"))), Const("only", Text("true")) },
       { Const("log", Call(Id("pino"), <<Id("options")>>)), Const("info", Text("y")),
         Const("child", Method(Id("log"), "child")), Const("copy", Id("log")),
         Do(Inlined(Method(Call(Id("pino"), << >>), "info"))),
         [type |-> "VariableDeclaration",
          declarations |-> Const("log", Call(Id("pino"), << >>)).declarations
                           \o Const("child", Method(Id("log"), "child")).declarations],
         Const("child", Inlined(Method(Call(Id("pino"), << >>), "child"))) },
       { Const("second", Method(Id("child"), "child")), Const("say", Dot(Id("log"), "info")),
         Function("log", <<Do(Method(Id("log"), "info"))>>), Do(Method(Id("child"), "hiSync")),
         ImportFrom("fs", Only("readFileSync")) },
       Logs({"log", "child", "copy", "second"}) \cup {Do(Call(Id("say"), << >>))} >>

WinstonPool ==
    << { ImportFrom("winston", Default("winston")), ImportFrom("winston", Only("createLogger")),
         Destructure(<<"createLogger">>, Require("winston")), Const("w", Require("winston")) },
       { Const("log", Call(f, a)) : f \in {Id("createLogger"), Dot(Id("winston"), "createLogger"),
                                           Dot(Id("w"), "createLogger")},
                                   a \in {<< >>, <<Levels("levels")>>} }
         \cup { Const("log", Method(Id("winston"), "child")) },
       { Const("child", Method(Id("log"), "child")), Const("say", Dot(Id("log"), "info")) },
       Logs({"log", "child", "winston", "w"}) \cup {Do(Call(Id("say"), << >>))} >>

VmPool ==
    << { ImportFrom("node:vm", Default("vm")), Const("vm", Require("node:vm")),
         Destructure(<<"Script">>, Require("vm")), Const("machine", Require("vm")),
         Const("g", Id("globalThis")), ImportFrom("fs", Only("readFileSync")),
         Const("vm", Call(Dot(Dot(Dot(Id("Function"), "prototype"), "call"), "call"),
                          <<Id("require"), Id("require"), Text("vm")>>)) },
       { Const("script", New(c)) :
            c \in {Dot(Id("vm"), "Script"), Id("Script"), Dot(Id("machine"), "Script")} }
         \cup { Const("c", Dot(Id("g"), "console")), Const("run", Dot(Id("vm"), "runInNewContext")),
                Const("files", Require("fs")),
                Do(Call(Dot(Require("fs"), "readFileSync"), << >>)) },
       { Const("again", Id("script")), Const("exec", Dot(Id("script"), "runInContext")),
         Const("read", Dot(Id("files"), "readFileSync")) },
       { Do(Method(Id("script"), "runInContext")), Do(Method(Id("again"), "runInContext")),
         Do(Method(Id("vm"), "runInNewContext")), Do(Method(Id("c"), "log")),
         Do(Call(Id("exec"), << >>)), Do(Call(Id("run"), << >>)),
         Do(Call(Id("read"), << >>)), Do(Call(Id("readFileSync"), << >>)),
         Do(Method(Id("files"), "readFileSync")) } >>

Hash(name, arguments) ==
    LET hash == Call(Dot(Id("crypto"), name), <<Text("md5")>>)
    IN  Call(Dot(Call(Dot(hash, "update"), <<Id("secret")>>), "digest"), arguments)
BcryptOf(argument) == Do(Call(Dot(Id("bcryptjs"), "hash"), <<argument>>))

CryptoPool ==
    << { ImportFrom("crypto", Default("crypto")), Const("x", Text("y")) },
       { ImportFrom("bcryptjs", Default("bcryptjs")), Const("mode", Text("hex")) },
       { Const("d", Hash("createHash", << >>)), Const("d", Hash("createHmac", <<Text("hex")>>)),
         Const("d", Hash("createHash", <<Id("mode")>>)),
         Const("d", Call(Dot(Hash("createHash", <<Text("binary")>>), "toString"), <<Text("hex")>>)),
         Const("digest", Hash("createHash", << >>).callee),
         Const("h", Hash("createHash", << >>).callee.object) },
       { Function("d", <<BcryptOf(Id("d"))>>),
         Function("d", <<Const("bcryptjs", Require("bcryptjs")), BcryptOf(Id("d"))>>),
         Const("copy", Id("d")), Const("d2", Method(Id("h"), "digest")),
         ImportFrom("bcryptjs", Default("bcryptjs")) },
       { BcryptOf(a) : a \in {Id("d"), Id("copy"), Id("h"), Id("d2"),
                              Call(Id("digest"), <<Text("hex")>>),
                              Hash("createHash", <<Text("hex")>>), Method(Id("h"), "digest")} }
       \cup { Do(Call(Dot(Id("JSON"), "stringify"), <<Id("d")>>)),
               Do(Call(Dot(Id("bcryptjs"), "hashSync"), <<Id("d")>>)) } >>

(* a digest in one function, a variable of the same name in another *)
ScopePool ==
    << {ImportFrom("crypto", Default("crypto"))}, {ImportFrom("bcryptjs", Default("bcryptjs"))},
       {Function("secret", <<Const("prehashed", Hash("createHash", << >>))>>)},
       { Function("prehashed", <<BcryptOf(Id("prehashed"))>>),
         Function("x", <<Const("prehashed", Id("x")), BcryptOf(Id("prehashed"))>>) } >>

LeakPool ==
    << { ImportFrom("os", Only("userInfo")), Const("os", Require("os")),
         Destructure(<<"userInfo">>, Require("os")), Const("text", Dot(Id("JSON"), "stringify")) },
       { Const("who", Dot(Id("os"), "userInfo")), Const("env", Dot(Id("process"), "env")) },
       { Do(Call(f, <<a>>)) : f \in {Dot(Id("JSON"), "stringify"), Id("text")},
            a \in {Method(Id("os"), "userInfo"), Call(Id("who"), << >>),
                   Call(Id("userInfo"), << >>), Id("env"), Dot(Id("process"), "env"),
                   Text("~/.ssh") } } >>

MCBare == [x \in {"pino", "winston", "vm", "node:vm", "fs", "crypto", "bcryptjs", "os", "y",
                   "35", "true", "hex", "binary", "md5", "~/.ssh"} |->
             IF x = "node:vm" THEN "vm" ELSE x]
MCPlain == MCBare
MCBase64 == << >>
MCConsole == <<"log">>
MCPino == <<"info">>
MCWinston == <<"info">>
MCSync == << <<"fs", "readFileSync">> >>
MCSyncNames == {"readFileSync", "hashSync", "hiSync"}
MCSensitive == << <<"os", "userInfo">> >>
MCScopes == {ScopePool}
MCPools == {PinoPool, WinstonPool, VmPool, CryptoPool, LeakPool}
=============================================================================
