----------------------------- MODULE AnalysedTree -----------------------------
(***************************************************************************)
(* One analysis as its trees see it: the pipelines rewrite the body one    *)
(* after another (pipelines/), the last walk counts what is left for the   *)
(* deobfuscator (ast_analyser.rs, source_file.rs), and the verdict on      *)
(* obfuscation is drawn at the end.  Every pass is a walk of Walker.       *)
(*                                                                         *)
(* What the probes find in the last walk is left to SourceWalk and         *)
(* TracedWalk; here they skip the arguments of eval, walk its text, and    *)
(* hand literals to the deobfuscator.                                      *)
(***************************************************************************)
EXTENDS Walker, Inlined, Deobfuscator

CONSTANTS
    Cases,          \* the analyses: [options, body, wishes]
    EvalBody        \* text -> the statements it parses to

VARIABLES
    passes,         \* the passes to come; handler is [pass, wishes] of the one at work
    virtuals,       \* the counter of virtual names
    hoisted         \* the declarations Inline has gathered

vars == <<body, handler, walkers, seen, deobfuscator, passes, virtuals, hoisted, verdict,
          warnings>>

(***************************************************************************)
(* build_pipelines and remove_duplicated_pipelines: the pipelines of the   *)
(* options, then Inline, each name once and where it came first.           *)
(***************************************************************************)
Deduplicated(names) ==
    FoldLeft(LAMBDA kept, name : IF Contains(kept, name) THEN kept ELSE Append(kept, name),
             << >>, names)
PassesOf(options) == Append(Deduplicated(Append(options, "inline")), "walk")

(***************************************************************************)
(* join_array_expression: [...].join(separator), where elements that are   *)
(* neither literals nor such calls are left out, and empty ones too.       *)
(***************************************************************************)
IsJoin(node) ==
    /\ IsCall(node) /\ Len(node.arguments) = 1 /\ node.arguments[1].type = "Literal"
    /\ IsMember(node.callee) /\ node.callee.object.type = "ArrayExpression"
    /\ MemberIdentifier(node.callee, NoLiterals) = <<"join">>

RECURSIVE JoinedText(_)
JoinedText(node) ==
    LET text(e) == IF e.type = "Literal" THEN (IF e.value = "" THEN << >> ELSE <<e.value>>)
                   ELSE IF IsJoin(e) THEN <<JoinedText(e)>> ELSE << >>
        elements == node.callee.object.elements
        parts == FlattenSeq([i \in DOMAIN elements |-> text(elements[i])])
    IN  FoldLeft(LAMBDA all, i : all \o (IF i = 1 THEN "" ELSE node.arguments[1].value) \o parts[i],
                 "", [i \in DOMAIN parts |-> i])

(***************************************************************************)
(* What the handlers of a pass ask for: the request on the way in, what    *)
(* they walk meanwhile, and the request on the way out.  The handlers of a *)
(* custom pipeline do as the wishes say.                                   *)
(***************************************************************************)
Ask(enter) == [enter |-> enter, nested |-> << >>, leave |-> Nothing]

(* Deobfuscate: the children of a call are skipped in any case *)
DeobfuscateAsks(node) ==
    IF ~IsCall(node) THEN Ask(Nothing)
    ELSE IF ~IsJoin(node) THEN Ask(Skip)
    ELSE Ask(ReplaceAndSkip([type |-> "Literal", value |-> JoinedText(node)]))

(* probe_and_recurse *)
IsEval(node) == IsCall(node) /\ CalleePath(node) = <<"eval">>
WalkAsks(node) ==
    IF ~IsEval(node) THEN Ask(Nothing)
    ELSE IF node.arguments # << >> /\ node.arguments[1].type = "Literal"
    THEN [Ask(Skip) EXCEPT !.nested = EvalBody[node.arguments[1].value]]
    ELSE Ask(Skip)

CustomAsks(wishes, node) ==
    IF IsIdentifier(node) /\ node.name \in DOMAIN wishes THEN wishes[node.name]
    ELSE Ask(Nothing)

Asked(h, node) ==
    CASE h.pass = "custom" -> CustomAsks(h.wishes, node)
      [] h.pass = "deobfuscate" -> DeobfuscateAsks(node)
      [] h.pass = "walk" -> WalkAsks(node)

-----------------------------------------------------------------------------
Init ==
    /\ \E case \in Cases :
          /\ passes = PassesOf(case.options) /\ body = case.body
          /\ handler = [pass |-> "none", wishes |-> case.wishes]
    /\ walkers = << >> /\ seen = << >> /\ virtuals = 0 /\ hoisted = << >>
    /\ DeobfuscatorInit

BeginPass ==
    /\ passes # << >> /\ Begin([handler EXCEPT !.pass = Head(passes)])
    /\ passes' = Tail(passes)
    /\ UNCHANGED <<deobfuscator, virtuals, hoisted, verdict, warnings>>

(* A handler of a pass that keeps no state of its own. *)
EnterNode ==
    /\ handler.pass # "inline" /\ EnterAsked
    /\ deobfuscator' = IF handler.pass = "walk" THEN Observed(deobfuscator, Child(Current))
                       ELSE deobfuscator
    /\ UNCHANGED <<passes, virtuals, hoisted, verdict, warnings>>

EnterInline ==
    /\ handler.pass = "inline" /\ Free /\ AtChild(Current)
    /\ LET node == Child(Current)
           done == InlineNode([node |-> node, n |-> virtuals, skip |-> FALSE, hoisted |-> hoisted])
       IN  /\ Enter(IF done.skip THEN ReplaceAndSkip(done.node) ELSE Nothing, << >>)
           /\ virtuals' = done.n /\ hoisted' = done.hoisted
    /\ UNCHANGED <<deobfuscator, passes, verdict, warnings>>

LeaveNode ==
    /\ IF handler.pass = "inline" THEN Leave(Nothing) ELSE LeaveAsked
    /\ UNCHANGED <<deobfuscator, passes, virtuals, hoisted, verdict, warnings>>

WalkOn ==
    /\ Move \/ Return \/ EndNested
    /\ UNCHANGED <<deobfuscator, passes, virtuals, hoisted, verdict, warnings>>

(* PipelineRunner::reduce hands the body on; Inline puts its news in front. *)
Rewritten == hoisted \o Current.node.body

EndPass ==
    /\ End(Rewritten) /\ hoisted' = << >>
    /\ UNCHANGED <<deobfuscator, passes, virtuals, verdict, warnings>>

(* get_result *)
Conclude ==
    /\ walkers = << >> /\ passes = << >> /\ Judge
    /\ UNCHANGED <<body, handler, walkers, passes, virtuals, hoisted>>

Pass == BeginPass \/ EnterNode \/ EnterInline \/ LeaveNode \/ WalkOn \/ EndPass
Next == Pass \/ Conclude

(* analyse is one synchronous call: its passes go on until the last is over *)
Spec == Init /\ [][Next]_vars /\ WF_vars(Pass)
===============================================================================
