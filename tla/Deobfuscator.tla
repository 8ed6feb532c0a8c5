----------------------------- MODULE Deobfuscator -----------------------------
(***************************************************************************)
(* deobfuscator.rs, node_counter.rs and obfuscators/: what a walk counts,  *)
(* and the verdict drawn from it.  A name is an atom that Spelling maps to *)
(* its characters, as code points, and a text an atom that Texture maps to *)
(* what is read off it.                                                    *)
(***************************************************************************)
EXTENDS History, Integers, Sequences, FiniteSets, SequencesExt

CONSTANTS
    Node,               \* the syntax nodes a walk may meet
    Text,               \* the texts that may be analysed
    PatternNames(_),    \* pattern -> its names  (get_variable_declaration_identifiers)
    Spelling(_),        \* name -> sequence of code points
    Texture(_)          \* text -> [score, dictionary, morse]

VARIABLES
    deobfuscator,
    verdict,            \* of assert_obfuscation, once the walk is over
    warnings            \* those of get_result

deobfuscatorVars == <<seen, deobfuscator, verdict, warnings>>

IsName(node) == node.type = "Identifier"

(***************************************************************************)
(* The counters, and the one a node counts in.  The kinds of declarations  *)
(* are not told apart, since no verdict asks for them.                     *)
(***************************************************************************)
Counter == {"VariableDeclaration", "AssignmentExpression", "FunctionDeclaration",
            "StaticMember", "ComputedMember", "Property", "DoubleUnaryExpression",
            "VariableDeclarator"}

IsDoubleUnary(node) ==
    /\ node.type = "UnaryExpression" /\ node.argument.type = "UnaryExpression"
    /\ node.argument.argument.type = "ArrayExpression"

AnyKey(node) ==    \* (faulty) a Property counts whatever its key is
    IF node.type \in {"VariableDeclaration", "AssignmentExpression", "FunctionDeclaration",
                      "VariableDeclarator", "Property"} THEN node.type
    ELSE IF IsDoubleUnary(node) THEN "DoubleUnaryExpression"
    ELSE IF node.type # "MemberExpression" THEN "None"
    ELSE IF node.computed THEN "ComputedMember" ELSE "StaticMember"

CounterOf(node) ==
    IF node.type \in {"VariableDeclaration", "AssignmentExpression",
                      "FunctionDeclaration", "VariableDeclarator"} THEN node.type
    ELSE IF node.type = "Property" /\ IsName(node.key) THEN "Property"
    ELSE IF IsDoubleUnary(node) THEN "DoubleUnaryExpression"
    ELSE IF node.type # "MemberExpression" THEN "None"
    ELSE IF node.computed THEN "ComputedMember" ELSE "StaticMember"

(***************************************************************************)
(* The identifiers a node adds, each with the type it was seen in: first   *)
(* what Deobfuscator::walk extracts, then extract_counter_identifiers.     *)
(***************************************************************************)
Tagged(type, names) == [i \in DOMAIN names |-> [name |-> names[i], type |-> type]]
NameOf(node) == IF IsName(node) THEN <<node.name>> ELSE << >>
NamesOf(nodes) == FlattenSeq([i \in DOMAIN nodes |-> NameOf(nodes[i])])

Extracted(node) ==
    CASE node.type = "ClassDeclaration" ->
            Tagged("ClassDeclaration", NameOf(node.id) \o NameOf(node.superClass))
      [] node.type \in {"FunctionDeclaration", "FunctionExpression"} ->
            Tagged("FunctionParams", NamesOf(node.params))
      [] node.type = "MethodDefinition" -> Tagged("MethodDefinition", NameOf(node.key))
      [] OTHER -> << >>

CountedNames(node) ==
    IF node.type = "VariableDeclarator" THEN PatternNames(node.id)
    ELSE IF node.type = "AssignmentExpression" THEN PatternNames(node.left)
    ELSE IF node.type = "FunctionDeclaration" THEN NameOf(node.id)
    ELSE IF node.type = "Property" THEN NameOf(node.key) ELSE << >>

(***************************************************************************)
(* The texts that the probes of literals hand on: an element of an array   *)
(* is read there and once more as a literal.                               *)
(***************************************************************************)
TextOf(node) == IF node.type = "Literal" THEN <<node.value>> ELSE << >>
TextsOf(node) ==
    IF node.type = "ArrayExpression"
    THEN FlattenSeq([i \in DOMAIN node.elements |-> TextOf(node.elements[i])])
    ELSE TextOf(node)

(* a node names finitely many names, no name is empty, a text is read to the end *)
ASSUME DeobfuscatorAssumption ==
    /\ \A node \in Node :
          /\ node.type \in STRING /\ TextsOf(node) \in Seq(Text)
          /\ Extracted(node) \in Seq([name : STRING, type : STRING])
          /\ CountedNames(node) \in Seq(STRING)
          /\ \A name \in Range(CountedNames(node)) : Spelling(name) \in Seq(Nat) \ {<< >>}
          /\ \A id \in Range(Extracted(node)) : Spelling(id.name) \in Seq(Nat) \ {<< >>}
    /\ \A text \in Text :
          Texture(text) \in [score : Nat, dictionary : BOOLEAN, morse : BOOLEAN]

(* walk *)
Counted(d, node) ==
    [d EXCEPT !.identifiers = @ \o Extracted(node) \o Tagged(node.type, CountedNames(node)),
              !.counts = [c \in Counter |-> IF c = CounterOf(node) THEN @[c] + 1 ELSE @[c]]]

(* analyze_string, on one text after another *)
StringsAnalysed(d, texts) ==
    [d EXCEPT !.scores = @ \o FlattenSeq([i \in DOMAIN texts |->
                   IF Texture(texts[i]).score = 0 THEN << >> ELSE <<Texture(texts[i]).score>>]),
              !.dictionary = @ \/ \E i \in DOMAIN texts : Texture(texts[i]).dictionary,
              !.morse = @ \cup {text \in Range(texts) : Texture(text).morse}]

(***************************************************************************)
(* common_hexadecimal_prefix: every name joins the first prefix it shares  *)
(* a beginning with, which shrinks to what they share; prefixes of one     *)
(* name are dropped.                                                       *)
(***************************************************************************)
Shared(a, b) == LongestCommonPrefix({a, b})

Before(a, b) ==
    LET n == Len(Shared(a, b))
    IN  n < Len(b) /\ (n = Len(a) \/ a[n + 1] < b[n + 1])

CountOnly(groups, name) ==    \* (faulty) a prefix that shrinks starts to count again
    LET i == SelectInSeq(groups, LAMBDA g : Shared(g.prefix, name) # << >>)
        shared == Shared(groups[i].prefix, name)
    IN  IF i = 0 THEN Append(groups, [prefix |-> name, count |-> 1])
        ELSE IF shared = groups[i].prefix
        THEN [groups EXCEPT ![i].count = @ + 1]
        ELSE Append(RemoveAt(groups, i), [prefix |-> shared, count |-> 2])

Joined(groups, name) ==
    LET i == SelectInSeq(groups, LAMBDA g : Shared(g.prefix, name) # << >>)
        shared == Shared(groups[i].prefix, name)
    IN  IF i = 0 THEN Append(groups, [prefix |-> name, count |-> 1])
        ELSE IF shared = groups[i].prefix
        THEN [groups EXCEPT ![i].count = @ + 1]
        ELSE Append(RemoveAt(groups, i), [prefix |-> shared, count |-> groups[i].count + 1])

Inserted(sorted, name) ==
    LET behind == {i \in DOMAIN sorted : Before(name, sorted[i])}
    IN  InsertAt(sorted, Len(sorted) + 1 - Cardinality(behind), name)

Sorted(names) ==
    LET sorted[i \in 0..Len(names)] ==
            IF i = 0 THEN << >> ELSE Inserted(sorted[i - 1], names[i])
    IN  sorted[Len(names)]

Grouped(names) ==
    LET groups[i \in 0..Len(names)] ==
            IF i = 0 THEN << >> ELSE Joined(groups[i - 1], names[i])
    IN  groups[Len(names)]

CommonPrefixGroups(names) == {g \in Range(Grouped(Sorted(names))) : g.count > 1}

(***************************************************************************)
(* The verifiers.  A share of no names is NaN, which is above nothing, and *)
(* a share of names among nothing but Property keys is infinite.           *)
(***************************************************************************)
IsSymbol(char) == char \in {36, 95}          \* $ and _
IsLetter(char) == char \in 65..90 \cup 97..122
IsDigit(char) == char \in 48..57

MinimumIds == 5
MinimumDoubleUnary == 5
MinimumMorse == 36

MostOf(part, whole) == part * 100 > 80 * whole

IsJsfuck(d) ==
    /\ \A c \in {"AssignmentExpression", "FunctionDeclaration", "Property",
                 "VariableDeclarator"} : d.counts[c] = 0
    /\ d.counts["DoubleUnaryExpression"] >= MinimumDoubleUnary

IsJjencode(d) ==
    /\ d.counts["VariableDeclarator"] = 0 /\ d.counts["FunctionDeclaration"] = 0
    /\ d.counts["AssignmentExpression"] <= d.counts["Property"]
    /\ MostOf(Cardinality({i \in DOMAIN d.identifiers :
                  \A char \in Range(Spelling(d.identifiers[i].name)) : IsSymbol(char)}),
              Len(d.identifiers))

(* calc_avg_prefixed_identifiers: the two largest groups, or the only one *)
MostlyPrefixed(d, groups) ==
    /\ Len(d.identifiers) > MinimumIds
    /\ \E g, h \in groups :
          MostOf(IF g = h THEN g.count ELSE g.count + h.count,
                 Len(d.identifiers) - d.counts["Property"])

(* the prefix, one or two letters and at most two digits *)
IsFreejsName(prefix, name) ==
    /\ IsPrefix(prefix, name)
    /\ LET rest == SubSeq(name, Len(prefix) + 1, Len(name))
       IN  \E letters \in 1..2 :
            /\ Len(rest) \in letters..(letters + 2)
            /\ \A i \in DOMAIN rest : IF i <= letters THEN IsLetter(rest[i]) ELSE IsDigit(rest[i])

IsFreejs(d, groups) ==
    \E group \in groups :
        /\ groups = {group}
        /\ \A i \in DOMAIN d.identifiers :
              IsFreejsName(group.prefix, Spelling(d.identifiers[i].name))

AnyStaticMember(d, groups) ==    \* (faulty) members with a dot do not matter
    d.counts["DoubleUnaryExpression"] > 0 /\ MostlyPrefixed(d, groups)

IsObfuscatorIo(d, groups) ==
    /\ d.counts["StaticMember"] = 0 /\ d.counts["DoubleUnaryExpression"] > 0
    /\ MostlyPrefixed(d, groups)

(* assert_obfuscation *)
Verdict(d) ==
    LET spelled == [i \in DOMAIN d.identifiers |-> Spelling(d.identifiers[i].name)]
        groups == CommonPrefixGroups(spelled)
    IN  IF IsJsfuck(d) THEN "jsfuck"
        ELSE IF IsJjencode(d) THEN "jjencode"
        ELSE IF Cardinality(d.morse) >= MinimumMorse THEN "morse"
        ELSE IF IsFreejs(d, groups) THEN "freejsobfuscator"
        ELSE IF IsObfuscatorIo(d, groups) THEN "obfuscator.io" ELSE "None"

Total(numbers) ==
    LET sum[i \in 0..Len(numbers)] == IF i = 0 THEN 0 ELSE sum[i - 1] + numbers[i]
    IN  sum[Len(numbers)]

(* get_result: the warnings of the summary *)
Summary(d, isMinified) ==
    LET counted == {i \in DOMAIN d.identifiers : d.identifiers[i].type # "Property"}
        letters == Total([i \in DOMAIN d.identifiers |->
                      IF i \in counted THEN Len(Spelling(d.identifiers[i].name)) ELSE 0])
    IN  (IF Verdict(d) = "None" THEN {} ELSE {"obfuscated-code"})
        \cup (IF /\ ~isMinified /\ Cardinality(counted) > 5
                 /\ 2 * letters <= 3 * Cardinality(counted)
              THEN {"short-identifiers"} ELSE {})
        \cup (IF d.scores # << >> /\ Total(d.scores) >= 3 * Len(d.scores)
              THEN {"suspicious-literal"} ELSE {})

(***************************************************************************)
(* The deobfuscator of one SourceFile.                                     *)
(***************************************************************************)
NewDeobfuscator ==
    [identifiers |-> << >>, counts |-> [c \in Counter |-> 0], scores |-> << >>,
     dictionary |-> FALSE, morse |-> {}]

Observed(d, node) == StringsAnalysed(Counted(d, node), TextsOf(node))

DeobfuscatorInit ==
    /\ deobfuscator = NewDeobfuscator /\ verdict = "Undecided" /\ warnings = {}

(* SourceFile::walk_bookkeeping, then the probes of literals *)
Observe(node) ==
    /\ verdict = "Undecided"
    /\ deobfuscator' = Observed(deobfuscator, node) /\ seen' = Append(seen, node)
    /\ UNCHANGED <<verdict, warnings>>

(* get_result *)
Judge ==
    /\ verdict = "Undecided"
    /\ verdict' = Verdict(deobfuscator)
    /\ \E isMinified \in BOOLEAN : warnings' = Summary(deobfuscator, isMinified)
    /\ UNCHANGED <<seen, deobfuscator>>

DeobfuscatorNext == (\E node \in Node : Observe(node)) \/ Judge
DeobfuscatorSpec ==
    seen = << >> /\ DeobfuscatorInit /\ [][DeobfuscatorNext]_deobfuscatorVars

(***************************************************************************)
(* Every Property that was counted left its key among the identifiers:     *)
(* what calc_avg_prefixed_identifiers divides by is never negative.        *)
(***************************************************************************)
NamesCoverProperties ==
    deobfuscator.counts["Property"] <= Len(deobfuscator.identifiers)
===============================================================================
