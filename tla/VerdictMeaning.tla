---------------------------- MODULE VerdictMeaning ----------------------------
(***************************************************************************)
(* What the verdicts of Deobfuscator rest on, said of the nodes that were  *)
(* met and without counters.                                               *)
(***************************************************************************)
EXTENDS Deobfuscator

(***************************************************************************)
(* The groups common_hexadecimal_prefix finds are the names that share     *)
(* their first character with another one, each group with the longest     *)
(* beginning all of its names share.                                       *)
(***************************************************************************)
Spelled == [i \in DOMAIN deobfuscator.identifiers |-> Spelling(deobfuscator.identifiers[i].name)]
Alike(words, char) == {j \in DOMAIN words : words[j][1] = char}
Group(words, char) ==
    [prefix |-> LongestCommonPrefix({words[j] : j \in Alike(words, char)}),
     count |-> Cardinality(Alike(words, char))]
Firsts(words) == {words[i][1] : i \in DOMAIN words}

PrefixesAreGroups ==
    verdict # "Undecided" =>
        CommonPrefixGroups(Spelled) =
            { Group(Spelled, char) :
                char \in {c \in Firsts(Spelled) : Cardinality(Alike(Spelled, c)) > 1} }

(***************************************************************************)
(* What was met: nodes, the names they bring in, and texts.                *)
(***************************************************************************)
Met(type) == {i \in DOMAIN seen : seen[i].type = type}
NamedProperties == {i \in Met("Property") : IsName(seen[i].key)}
DoubleUnaries == {i \in DOMAIN seen : IsDoubleUnary(seen[i])}
Dotted == {i \in Met("MemberExpression") : ~seen[i].computed}
Texts == UNION {Range(TextsOf(seen[i])) : i \in DOMAIN seen}

NamesOfNode(node) == Extracted(node) \o Tagged(node.type, CountedNames(node))
NamesMet == FlattenSeq([i \in DOMAIN seen |-> NamesOfNode(seen[i])])
FirstOf(i) == Spelling(NamesMet[i].name)[1]
Initials == {FirstOf(i) : i \in DOMAIN NamesMet}
Beginning(chars) == {i \in DOMAIN NamesMet : FirstOf(i) \in chars}
Others == {i \in DOMAIN NamesMet : NamesMet[i].type # "Property"}
Long == {i \in Others : Len(Spelling(NamesMet[i].name)) > 1}

(***************************************************************************)
(* No verdict and no warning without its grounds in the nodes the last     *)
(* walk met, those in the text of an eval and those Inline made included.  *)
(***************************************************************************)
VerdictsHaveGrounds ==
    /\ "short-identifiers" \in warnings =>
          Cardinality(Others) > 5 /\ 2 * Cardinality(Long) <= Cardinality(Others)
    /\ "suspicious-literal" \in warnings => \E text \in Texts : Texture(text).score >= 3
    /\ verdict = "jsfuck" =>
          /\ Cardinality(DoubleUnaries) >= 5 /\ NamedProperties = {}
          /\ Met("AssignmentExpression") \cup Met("FunctionDeclaration")
                \cup Met("VariableDeclarator") = {}
    /\ verdict = "jjencode" =>
          /\ Met("VariableDeclarator") \cup Met("FunctionDeclaration") = {}
          /\ 5 * Cardinality(Beginning({36, 95})) > 4 * Len(NamesMet)
    /\ verdict = "morse" => Cardinality({text \in Texts : Texture(text).morse}) >= 36
    /\ verdict = "freejsobfuscator" =>
          Len(NamesMet) > 1 /\ \E char \in Initials : Initials = {char}
    /\ verdict = "obfuscator.io" =>
          /\ Dotted = {} /\ DoubleUnaries # {} /\ Len(NamesMet) > 5
          /\ \E a, b \in Initials :
                5 * Cardinality(Beginning({a, b})) > 4 * (Len(NamesMet) - Cardinality(NamedProperties))
===============================================================================
