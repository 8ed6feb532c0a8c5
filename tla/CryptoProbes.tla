----------------------------- MODULE CryptoProbes -----------------------------
(***************************************************************************)
(* probes/crypto: is_weak_algorithm.rs, and the two probes that remember   *)
(* over the walk which variables hold a digest, is_unsafe_prehash.rs and   *)
(* is_password_shucking.rs.  Each keeps [variables, ambiguous], names with *)
(* no scope: a name that is also a parameter is given up (ambiguous).      *)
(***************************************************************************)
EXTENDS CallProbes

CONSTANTS WeakAlgorithms, SafeEncodings    \* sets of texts

HashFunctions == << <<"crypto", "createHash">>, <<"crypto", "createHmac">> >>
BcryptFunctions == << <<"bcryptjs", "hash">>, <<"bcryptjs", "hashSync">> >>
Chains(function) ==
    << function \o <<"update", "digest">>, function \o <<"update", "digest", "toString">>,
       function \o <<"digest">>, function \o <<"digest", "toString">> >>
HashDigestChains == Chains(HashFunctions[1])
DigestChains == HashDigestChains \o Chains(HashFunctions[2])

NewMemory == [variables |-> {}, ambiguous |-> {}]

(* is_weak_algorithm.rs *)
InitializeWeakAlgorithm(s) ==
    [s EXCEPT !.tracer = TraceAll(@, HashFunctions, Following("crypto"))]

WeakAlgorithmProbes(s, node, data) ==
    IF /\ IsCall(node) /\ "crypto" \in s.tracer.imported /\ StandsFor(data, Range(HashFunctions))
       /\ node.arguments # << >> /\ node.arguments[1].type = "Literal"
       /\ node.arguments[1].value \in WeakAlgorithms
    THEN Warn(s, "crypto.weak-algorithm") ELSE s

(***************************************************************************)
(* resolve_digest_call: the call whose arguments say how x.digest() or     *)
(* x.digest().toString() is encoded, digest's own first.  No member is     *)
(* computed in the programs of TracedWalk.                                 *)
(***************************************************************************)
IsCallOf(node, method) ==
    IsCall(node) /\ IsMember(node.callee) /\ node.callee.property.type = "Identifier"
                 /\ node.callee.property.name = method

IsDigestCall(node) ==
    \/ IsCallOf(node, "digest")
    \/ IsCallOf(node, "toString") /\ IsCallOf(node.callee.object, "digest")

Encoding(node) ==
    LET inner == node.callee.object
    IN  IF IsCallOf(node, "toString") /\ inner.arguments # << >>
        THEN inner.arguments ELSE node.arguments

IsSafeLiteral(s, arguments) ==    \* (faulty) a variable is not looked up
    arguments # << >> /\ arguments[1].type = "Literal" /\ arguments[1].value \in SafeEncodings

(* is_safe_encoding_arg, by resolve_string_value *)
IsSafeEncoding(s, arguments) ==
    /\ arguments # << >>
    /\ LET first == arguments[1]
       IN  \/ first.type = "Literal" /\ first.value \in SafeEncodings
           \/ /\ IsIdentifier(first) /\ first.name \in DOMAIN s.tracer.literals
              /\ s.tracer.literals[first.name].type = "Literal"
              /\ s.tracer.literals[first.name].value \in SafeEncodings

(* is_create_hash_chain *)
RECURSIVE IsCreateHashChain(_)
IsCreateHashChain(node) ==
    /\ IsCall(node) /\ IsMember(node.callee)
    /\ IsCallOf(node, "createHash") \/ IsCreateHashChain(node.callee.object)

InitializeDigests(s, chains) ==
    LET bcrypt == TraceAll(s.tracer, BcryptFunctions, Following("bcryptjs"))
    IN  [s EXCEPT !.tracer = TraceAll(bcrypt, chains, Returning("crypto"))]

(***************************************************************************)
(* validate_node for functions and mark_ambiguous_params: a parameter      *)
(* named like a digest variable known so far takes all the parameters out  *)
(* for the rest of the walk.                                               *)
(***************************************************************************)
IsFunction(node) ==
    node.type \in {"FunctionDeclaration", "FunctionExpression", "ArrowFunctionExpression"}

ParamNames(params) ==
    UNION { {pair[2] : pair \in Range(PatternIdentifiers(params[i], NoPath))} :
            i \in DOMAIN params }

Watches(s) == {"bcryptjs", "crypto"} \subseteq s.tracer.imported

Marked(memory, node) ==
    IF ParamNames(node.params) \cap memory.variables = {} THEN memory
    ELSE [memory EXCEPT !.ambiguous = @ \cup ParamNames(node.params)]

Remembers(memory, name) == name \in memory.variables \ memory.ambiguous

Hashes(node, data) ==
    IsCall(node) /\ StandsFor(data, Range(BcryptFunctions)) /\ node.arguments # << >>

(* is_unsafe_prehash.rs *)
PrehashHears(s, event) ==
    IF /\ event.type = "ReturnValue" /\ event.expr \in Range(DigestChains)
       /\ ~(IsDigestCall(event.node) /\ IsSafeEncoding(s, Encoding(event.node)))
    THEN [s EXCEPT !.prehash.variables = @ \cup {event.id}] ELSE s

IsUnsafeArgument(s, node) ==
    IF IsIdentifier(node) THEN Remembers(s.prehash, node.name)
    ELSE IF IsCall(node) /\ IsIdentifier(node.callee)
            /\ Remembers(s.prehash, node.callee.name)
    THEN ~IsSafeEncoding(s, node.arguments)
    ELSE IsDigestCall(node) /\ ~IsSafeEncoding(s, Encoding(node))

PrehashProbes(s, node, data) ==
    CASE IsFunction(node) /\ Watches(s) -> [s EXCEPT !.prehash = Marked(@, node)]
      [] Hashes(node, data) /\ Watches(s) /\ IsUnsafeArgument(s, node.arguments[1]) ->
            Warn(s, "crypto.unsafe-prehash")
      [] OTHER -> s

(* is_password_shucking.rs *)
ShuckingHears(s, event) ==
    IF event.type = "ReturnValue" /\ event.expr \in Range(HashDigestChains)
    THEN [s EXCEPT !.shucking.variables = @ \cup {event.id}] ELSE s

IsShucked(s, node) ==
    \/ IsIdentifier(node) /\ Remembers(s.shucking, node.name)
    \/ IsDigestCall(node) /\ IsCreateHashChain(node)

ShuckingProbes(s, node, data) ==
    CASE IsFunction(node) /\ Watches(s) -> [s EXCEPT !.shucking = Marked(@, node)]
      [] Hashes(node, data) /\ Watches(s) /\ IsShucked(s, node.arguments[1]) ->
            Warn(s, "crypto.password-shucking")
      [] OTHER -> s
===============================================================================
