------------------------------ MODULE SourceWalk ------------------------------
(***************************************************************************)
(* One AstAnalyser and the sources it analyses one after the other: the    *)
(* walk over a syntax tree with the bodies of eval("...") walked in place  *)
(* (ast_analyser.rs), what a walk gathers in its SourceFile                *)
(* (source_file.rs), and the collectable registry that a run takes out of  *)
(* the analyser and hands back.  A hook or a probe of the caller may use   *)
(* the same analyser again meanwhile, and any of them may panic.           *)
(*                                                                         *)
(* A syntax tree is the sequence of its nodes in the order of the walk;    *)
(* last is the position of the last node below a node.  The kinds of node: *)
(*   Try           a TryStatement; handler is the position of its handler, *)
(*                 0 if it has none                                        *)
(*   Catch         a CatchClause                                           *)
(*   Import        import "name", require("name"): a dependency            *)
(*   Built         require(f(...)): a name the probe puts together, or     *)
(*                 nothing, which is a blank name here                     *)
(*   Joined        require(path.join(...)) of literals: as Built, but      *)
(*                 without a warning                                       *)
(*   RequireByEval eval("require")("name"); body is what "name" parses to  *)
(*   Eval          eval(...); body is what its string parses to            *)
(*   Encoded       a string literal that looks encoded, name is its value  *)
(*   Other         any other node                                          *)
(*                                                                         *)
(* Operators marked (faulty) are the operator that follows them with a     *)
(* plausible mistake.                                                      *)
(***************************************************************************)
EXTENDS Integers, Sequences, FiniteSets, SequencesExt

CONSTANTS
    Program,      \* the trees analyse may be given, and NotJs
    Tree,         \* these trees and the bodies in them
    Text,         \* the names and values in trees
    NotJs,        \* the parse of a text that is not JavaScript
    NoBody,       \* the body of a node without one
    Cleaned,      \* [names as written -> Name]: without a trailing slash
    Blank,        \* what names of blanks only are cleaned to
    OwnName,      \* package_name
    MaxEncoded,   \* MAXIMUM_ENCODED_LITERALS
    NoSets,       \* a registry without a "dependency" set, as mem::take leaves it
    Again,        \* bound: the programs analysed before, within or after others
    MaxRuns       \* bound on the number of calls of analyse

Kind == {"Try", "Catch", "Import", "Built", "Joined", "RequireByEval", "Eval",
         "Encoded", "Other"}

DependencyKind == {"Import", "Built", "Joined", "RequireByEval"}

Value == Text \cup {NotJs}
SyntaxNode == [kind : Kind, name : Value, body : Tree \cup {NoBody, NotJs},
               last : Nat, handler : Nat]

Names == {Cleaned[w] : w \in DOMAIN Cleaned} \ {Blank}
Entry == [name : Names, unsafe : BOOLEAN, inTry : BOOLEAN]

ASSUME SourceAssumption ==
    /\ MaxEncoded \in Nat
    /\ MaxRuns \in Nat \ {0} /\ Again \subseteq Program
    /\ Program \subseteq Tree \cup {NotJs} /\ Tree \subseteq Seq(SyntaxNode)
    /\ Names \subseteq Text
    /\ NoSets \notin Seq(Entry)
    /\ NoBody # NotJs
    /\ \A tree \in Tree : \A i \in 1..Len(tree) :
          /\ tree[i].last \in i..Len(tree)
          /\ tree[i].handler \in {0} \cup (i + 1)..tree[i].last
          /\ tree[i].kind \in DependencyKind
                => tree[i].name \in DOMAIN Cleaned

(***************************************************************************)
(* Trees are ESTree's: nodes nest; the handler of a Try is a child of it   *)
(* and a Catch, which is found nowhere else; only calls of eval have       *)
(* bodies.                                                                 *)
(***************************************************************************)
ASSUME TreeAssumption ==
    \A tree \in Tree : \A i \in 1..Len(tree) :
        /\ \A j \in i..tree[i].last : tree[j].last <= tree[i].last
        /\ tree[i].kind = "Try" /\ tree[i].handler # 0 =>
              /\ tree[tree[i].handler].kind = "Catch"
              /\ \A j \in (i + 1)..(tree[i].handler - 1) : tree[j].last < tree[i].handler
        /\ tree[i].kind = "Catch" =>
              \E j \in 1..(i - 1) : tree[j].kind = "Try" /\ tree[j].handler = i
        /\ tree[i].body # NoBody => tree[i].kind \in {"RequireByEval", "Eval"}

VARIABLES
    registry,   \* the "dependency" set of the analyser's collectable_registry
    program,    \* the source being analysed, or analysed last
    source,     \* its SourceFile
    frames,     \* the running calls of walk_ast, the innermost last
    nested,     \* history: a Try was entered inside the block of another
    outer,      \* the runs that wait for a call of analyse inside them
    runs,       \* number of calls of analyse so far
    panicked,   \* history: a run has unwound
    phase       \* of the current call: "idle", "walking", "done", "failed"

vars == <<registry, program, source, frames, nested, outer, runs, panicked, phase>>

(***************************************************************************)
(* The SourceFile of one run.  encoded maps a value to the place of its    *)
(* warning in warnings.                                                    *)
(***************************************************************************)
NewSource(collected) ==
    [inTry |-> FALSE, dependencies |-> << >>, collected |-> collected,
     warnings |-> << >>, encoded |-> << >>]

Warning(kind, value) == [kind |-> kind, value |-> value, places |-> 1]
Warn(src, kind, value) == [src EXCEPT !.warnings = Append(@, Warning(kind, value))]

With(f, x, y) == [z \in DOMAIN f \cup {x} |-> IF z = x THEN y ELSE f[z]]

(***************************************************************************)
(* add_dependency_with.  auto is dependency_auto_warning, which the        *)
(* teardown of isRequire resets before anything else can see it.           *)
(***************************************************************************)
AddToReportOnly(src, written, unsafe, auto) ==           \* (faulty)
    [src EXCEPT !.dependencies =
        With(@, Cleaned[written], [unsafe |-> unsafe, inTry |-> src.inTry])]
AddDependency(src, written, unsafe, auto) ==
    LET name == Cleaned[written]
        listed == [src EXCEPT
            !.dependencies = With(@, name, [unsafe |-> unsafe, inTry |-> src.inTry]),
            !.collected = IF name = OwnName \/ @ = NoSets THEN @
                          ELSE Append(@, [name |-> name, unsafe |-> unsafe,
                                          inTry |-> src.inTry])]
    IN  IF name = Blank THEN src
        ELSE IF auto THEN Warn(listed, "unsafe-import", name) ELSE listed

(***************************************************************************)
(* add_encoded_literal: one warning for each value, one more place in it   *)
(* for each repetition, nothing once too many values were seen.            *)
(***************************************************************************)
IndexAfterEnd(src) == Len(src.warnings) + 1              \* (faulty)
IndexOfLast(src) == Len(src.warnings)

AddEncodedLiteral(src, value) ==
    IF Cardinality(DOMAIN src.encoded) > MaxEncoded THEN src
    ELSE IF value \in DOMAIN src.encoded
    THEN [src EXCEPT !.warnings[src.encoded[value]].places = @ + 1]
    ELSE LET warned == Warn(src, "encoded-literal", value)
         IN  [warned EXCEPT !.encoded = With(@, value, IndexOfLast(warned))]

(***************************************************************************)
(* walk_bookkeeping, then the probes that add to the SourceFile: isRequire *)
(* and isImportDeclaration, isUnsafeCallee, isLiteral.                     *)
(***************************************************************************)
SetByAnyTry(src, node) ==                                \* (faulty)
    [src EXCEPT !.inTry = (@ \/ node.kind = "Try") /\ node.kind # "Catch"]
Bookkept(src, node) ==
    CASE node.kind = "Try" /\ node.handler # 0 -> [src EXCEPT !.inTry = TRUE]
      [] node.kind = "Catch" -> [src EXCEPT !.inTry = FALSE]
      [] OTHER -> src

Probed(src, node) ==
    CASE node.kind = "Import" -> AddDependency(src, node.name, FALSE, FALSE)
      [] node.kind = "Joined" -> AddDependency(src, node.name, TRUE, FALSE)
      [] node.kind = "Built" ->
            Warn(AddDependency(src, node.name, TRUE, FALSE), "unsafe-import", NotJs)
      [] node.kind = "RequireByEval" ->
            Warn(AddDependency(src, node.name, TRUE, TRUE), "unsafe-stmt", NotJs)
      [] node.kind = "Eval" -> Warn(src, "unsafe-stmt", NotJs)
      [] node.kind = "Encoded" -> AddEncodedLiteral(src, node.name)
      [] OTHER -> src

(***************************************************************************)
(* Nodes for which a probe answers Skip: the walk does not go below them.  *)
(***************************************************************************)
Skips(node) == node.kind \in {"Built", "Joined", "RequireByEval", "Eval"}

GoesBelow(node, i) == i + 1                              \* (faulty)
NextAfter(node, i) == IF Skips(node) THEN node.last + 1 ELSE i + 1

Call(tree) == [tree |-> tree, at |-> 1]
Advanced(fr) == [fr EXCEPT !.at = NextAfter(fr.tree[fr.at], fr.at)]
ReplaceTop(fr) == [frames EXCEPT ![Len(frames)] = fr]

Init ==
    /\ registry = << >> /\ program = NotJs /\ source = NewSource(<< >>)
    /\ frames = << >> /\ nested = FALSE /\ outer = << >> /\ runs = 0
    /\ panicked = FALSE
    /\ phase = "idle"

(***************************************************************************)
(* analyse.  A source that does not parse ends the call before the         *)
(* registry is taken out.                                                  *)
(***************************************************************************)
Sources ==
    IF runs = 0 THEN Program
    ELSE IF runs < MaxRuns /\ program \in Again THEN Again ELSE {}

Refuse(p) ==
    /\ phase # "walking"
    /\ p = NotJs
    /\ program' = p /\ source' = NewSource(<< >>) /\ runs' = runs + 1
    /\ phase' = "failed"
    /\ UNCHANGED <<registry, frames, nested, outer, panicked>>

Cleared == << >>                                         \* (faulty)
Taken == NoSets

Begin(p) ==
    /\ p # NotJs
    /\ program' = p /\ source' = NewSource(registry) /\ runs' = runs + 1
    /\ registry' = Taken                 \* std::mem::take
    /\ frames' = <<Call(p)>> /\ nested' = FALSE
    /\ phase' = "walking"
    /\ UNCHANGED panicked

Start(p) == phase # "walking" /\ Begin(p) /\ UNCHANGED outer

(* initialize, a probe of the caller or finalize analyses another source *)
CallAgain(p) ==
    /\ phase = "walking" /\ Begin(p)
    /\ outer' = Append(outer, [program |-> program, source |-> source,
                               frames |-> frames, nested |-> nested])

(***************************************************************************)
(* The end of a run: the registry goes back into the analyser, over what   *)
(* is there, and the run it was called from goes on.                       *)
(***************************************************************************)
EndRun(collected, result, end) ==
    /\ registry' = collected
    /\ IF outer = << >>
       THEN source' = result /\ frames' = << >> /\ phase' = end
            /\ UNCHANGED <<program, nested, outer>>
       ELSE LET caller == Last(outer)
            IN  /\ program' = caller.program /\ source' = caller.source
                /\ frames' = caller.frames /\ nested' = caller.nested
                /\ outer' = Front(outer) /\ UNCHANGED phase
    /\ UNCHANGED <<runs, panicked>>

(* A hook, a probe or a pipeline panics, and analyse unwinds with the rest. *)
Panic ==
    /\ phase = "walking"
    /\ source' = NewSource(<< >>) /\ frames' = << >> /\ outer' = << >>
    /\ panicked' = TRUE /\ phase' = "failed"
    /\ UNCHANGED <<registry, program, nested, runs>>

Top == frames[Len(frames)]
AtNode == phase = "walking" /\ Top.at <= Len(Top.tree)
Here == Top.tree[Top.at]
AfterHere == Probed(Bookkept(source, Here), Here)

(***************************************************************************)
(* The block of a Try lies between it and its handler.                     *)
(***************************************************************************)
InBlock(tree, i) ==
    \E j \in 1..(i - 1) : tree[j].kind = "Try" /\ i < tree[j].handler
InSomeBlock == \E k \in 1..Len(frames) : InBlock(frames[k].tree, frames[k].at)

Enter ==
    /\ AtNode /\ Here.body = NoBody
    /\ source' = AfterHere
    /\ nested' = (nested \/ (Here.kind = "Try" /\ InSomeBlock))
    /\ frames' = ReplaceTop(Advanced(Top))
    /\ UNCHANGED <<registry, program, outer, runs, panicked, phase>>

(***************************************************************************)
(* The body of an eval is walked with the same SourceFile before the walk  *)
(* goes on behind the eval.                                                *)
(***************************************************************************)
BodySkipped(tree) == ReplaceTop(Advanced(Top))           \* (faulty)
BodyCalled(tree) == Append(frames, Call(tree))

EnterEval ==
    /\ AtNode /\ Here.body \notin {NoBody, NotJs}
    /\ source' = AfterHere
    /\ frames' = BodyCalled(Here.body)
    /\ UNCHANGED <<registry, program, nested, outer, runs, panicked, phase>>

(***************************************************************************)
(* A body that does not parse ends the whole analysis with an error.       *)
(***************************************************************************)
LostOnError == << >>                                     \* (faulty)
HandedBackOnError == AfterHere.collected

EvalFails ==
    /\ AtNode /\ Here.body = NotJs
    /\ EndRun(HandedBackOnError, NewSource(<< >>), "failed")

LeaveEval ==
    /\ phase = "walking" /\ Top.at > Len(Top.tree)
    /\ Len(frames) > 1
    /\ LET caller == Len(frames) - 1
       IN  frames' = Append(SubSeq(frames, 1, caller - 1), Advanced(frames[caller]))
    /\ UNCHANGED <<registry, program, source, nested, outer, runs, panicked, phase>>

(***************************************************************************)
(* get_result, and the registry back into the analyser.                    *)
(***************************************************************************)
TooManyEncoded(src) == Cardinality(DOMAIN src.encoded) > MaxEncoded
AllKept(src) == Append(src.warnings, Warning("suspicious-file", NotJs))    \* (faulty)
Retained(warnings) ==
    LET kept[i \in 0..Len(warnings)] ==
            IF i = 0 THEN << >>
            ELSE IF warnings[i].kind = "encoded-literal" THEN kept[i - 1]
            ELSE Append(kept[i - 1], warnings[i])
    IN  kept[Len(warnings)]
Summarised(src) == Retained(Append(src.warnings, Warning("suspicious-file", NotJs)))

Finish ==
    /\ phase = "walking" /\ Top.at > Len(Top.tree)
    /\ Len(frames) = 1
    /\ EndRun(source.collected,
              [source EXCEPT !.collected = << >>,
                             !.warnings = IF TooManyEncoded(source) THEN Summarised(source) ELSE @],
              "done")

Walk == Enter \/ EnterEval \/ EvalFails \/ LeaveEval \/ Finish
Next == (\E p \in Sources : Refuse(p) \/ Start(p) \/ CallAgain(p)) \/ Walk \/ Panic

Spec == Init /\ [][Next]_vars

-----------------------------------------------------------------------------
Held ==
    IF outer # << >> THEN outer[1].source.collected
    ELSE IF phase = "walking" THEN source.collected ELSE registry

TypeOK ==
    /\ {registry, source.collected} \subseteq Seq(Entry) \cup {NoSets}
    /\ \A i \in DOMAIN outer : outer[i].source.collected \in Seq(Entry) \cup {NoSets}
    /\ panicked \in BOOLEAN
    /\ phase # "walking" => source.collected = << >> /\ frames = << >> /\ outer = << >>
    /\ source.inTry \in BOOLEAN
    /\ DOMAIN source.dependencies \subseteq Names
    /\ \A k \in 1..Len(frames) : frames[k].at \in 1..(Len(frames[k].tree) + 1)
    /\ nested \in BOOLEAN
    /\ runs \in 0..MaxRuns
    /\ phase \in {"idle", "walking", "done", "failed"}

(***************************************************************************)
(* The report tells of a dependency what the registry was told of it last, *)
(* although the report overwrites entries and the registry appends them,   *)
(* as long as there is a set to add to.                                    *)
(***************************************************************************)
ToldLast(held, name, report) ==
    \E i \in DOMAIN held :
        /\ held[i] = [name |-> name, unsafe |-> report.unsafe, inTry |-> report.inTry]
        /\ \A j \in DOMAIN held : j > i => held[j].name # name
Agrees(src, held) ==
    held # NoSets =>
        \A name \in DOMAIN src.dependencies \ {OwnName} :
            ToldLast(held, name, src.dependencies[name])

ReportAgreesWithRegistry ==
    phase \in {"walking", "done"} /\ outer = << >> => Agrees(source, Held)

(***************************************************************************)
(* Nothing collected is lost: the set only grows, from run to run, through *)
(* sources that do not parse, runs that an eval body aborts and runs       *)
(* within runs, whatever these hand back.                                  *)
(***************************************************************************)
NothingCollectedIsLost ==
    [][Held = NoSets \/ panicked' \/ (Held' # NoSets /\ IsPrefix(Held, Held'))]_vars

(***************************************************************************)
(* The analyser is without its sets, and collects nothing any more,        *)
(* exactly from a panic on; and a run within a run always is.              *)
(***************************************************************************)
SetsLostOnlyByPanic ==
    /\ Held = NoSets => panicked
    /\ panicked /\ phase # "walking" => registry = NoSets
    /\ outer # << >> => registry = NoSets /\ source.collected = NoSets

(***************************************************************************)
(* Until the end of the run the place remembered for an encoded literal is *)
(* that of its own warning, whatever else warns in between.                *)
(***************************************************************************)
PlacesHold(src) ==
    \A value \in DOMAIN src.encoded :
        /\ src.encoded[value] \in DOMAIN src.warnings
        /\ LET w == src.warnings[src.encoded[value]]
           IN  w.kind = "encoded-literal" /\ w.value = value

PlacesRemembered == phase = "walking" => PlacesHold(source)

(***************************************************************************)
(* "Detect TryStatement / CatchClause to know which dependency is required *)
(* inside a try {} clause": at a dependency the flag says whether it is in *)
(* the block of a Try with a handler, an enclosing eval's included ...     *)
(***************************************************************************)
AtDependency == AtNode /\ Here.kind \in DependencyKind
InTryIsRight == AtDependency => source.inTry = InSomeBlock

(***************************************************************************)
(* ... which one flag can tell as long as no Try is met inside the block   *)
(* of another.                                                             *)
(***************************************************************************)
InTryIsRightUnlessNested == AtDependency /\ ~nested => source.inTry = InSomeBlock
=============================================================================
