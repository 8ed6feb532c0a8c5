------------------------------ MODULE TracedWalk ------------------------------
(***************************************************************************)
(* ast_analyser.rs, walk_ast, with the tracer and the probes that listen   *)
(* to it: every node is first tracked by the tracer, the events it queued  *)
(* are told to the probes, and then the probes are run on it.              *)
(*                                                                         *)
(* A program is read one statement after the other, as the pipelines have  *)
(* left it.  s is the SourceFile with the probes, todo the nodes the       *)
(* walker has still to enter, agenda what is left to do for the one it is  *)
(* in and queue the events that were drained and are not told yet.         *)
(***************************************************************************)
EXTENDS CryptoProbes, Inlined

CONSTANTS
    Pools,            \* each a sequence of sets: the statements a line may hold
    Sensitivities     \* subset of {"conservative", "aggressive"}

VARIABLES program, pool, s, todo, agenda, queue, skip, virtuals, phase

vars == <<program, pool, s, todo, agenda, queue, skip, virtuals, phase>>

(* ProbeRunner::new: the probes trace their paths in the order they run *)
NewSource(sensitivity) ==
    LET empty == [tracer |-> EnableDefaultTracing(NewTracer), sensitivity |-> sensitivity,
                  line |-> 0, log |-> NewLogUsage, vm |-> {}, exfiltration |-> << >>,
                  prehash |-> NewMemory, shucking |-> NewMemory, warnings |-> << >>]
        tried == InitializeExfiltration(InitializeSerializeEnv(
                    InitializeVm(InitializeWeakAlgorithm(empty))))
        optional == InitializeLogUsage(InitializeSyncIo(tried))
    IN  InitializeDigests(InitializeDigests(optional, DigestChains), HashDigestChains)

Init ==
    /\ program = << >> /\ pool \in Pools
    /\ \E sensitivity \in Sensitivities : s = NewSource(sensitivity)
    /\ todo = << >> /\ agenda = << >> /\ queue = << >>
    /\ skip = FALSE /\ virtuals = 0 /\ phase = "walking"

Idle == phase = "walking" /\ agenda = << >> /\ queue = << >>

(* The walker reaches the next statement. *)
Read(statement) ==
    /\ Idle /\ todo = << >>
    /\ program' = Append(program, statement)
    /\ todo' = <<statement>>
    /\ s' = [s EXCEPT !.line = Len(program) + 1]
    /\ UNCHANGED <<pool, agenda, queue, skip, virtuals, phase>>

(***************************************************************************)
(* The walker enters a node.  A chain over require is split first: the     *)
(* virtual declaration is tracked and the rest of the chain is probed.     *)
(* Nodes that neither the tracer nor a probe reads are only passed.        *)
(***************************************************************************)
Task(do, node) == [do |-> do, node |-> node]

ReadTypes ==
    {"ImportDeclaration", "VariableDeclaration", "CallExpression", "MemberExpression",
     "Literal", "FunctionDeclaration", "ArrowFunctionExpression"}

Enter ==
    /\ Idle /\ todo # << >>
    /\ LET node == Head(todo)
           split == Split(node, InnermostCall(node), VirtualName("require", virtuals))
           before == IF SplitsRequire(node)
                     THEN <<Task("track", split.declaration), Task("probe", split.rebuilt)>>
                     ELSE << >>
       IN  IF node.type \in ReadTypes
           THEN /\ agenda' = before \o <<Task("track", node), Task("probe", node)>>
                /\ virtuals' = IF SplitsRequire(node) THEN virtuals + 1 ELSE virtuals
                /\ UNCHANGED todo
           ELSE /\ todo' = ChildrenOf(node) \o Tail(todo)
                /\ UNCHANGED <<agenda, virtuals>>
    /\ UNCHANGED <<program, pool, s, queue, skip, phase>>

(* VariableTracer::walk, then drain_events *)
Track ==
    /\ phase = "walking" /\ queue = << >> /\ agenda # << >> /\ Head(agenda).do = "track"
    /\ LET tracked == WalkTracer(s.tracer, Head(agenda).node)
       IN  /\ queue' = tracked.events
           /\ s' = [s EXCEPT !.tracer = [tracked EXCEPT !.events = << >>]]
    /\ agenda' = Tail(agenda)
    /\ UNCHANGED <<program, pool, todo, skip, virtuals, phase>>

(* dispatch_events: one event to every probe *)
Tell ==
    /\ phase = "walking" /\ queue # << >>
    /\ LET event == Head(queue)
       IN  s' = ShuckingHears(PrehashHears(LogUsageHears(ExfiltrationHears(VmHears(
                    s, event), event), event), event), event)
    /\ queue' = Tail(queue)
    /\ UNCHANGED <<program, pool, todo, agenda, skip, virtuals, phase>>

(***************************************************************************)
(* ProbeRunner::walk: the callee is resolved once, with the literals known *)
(* by now, and every probe judges by that.                                 *)
(***************************************************************************)
TracedData(t, node) ==
    LET path == IF IsCall(node) THEN CallIdentifier(node, t.literals, TRUE) ELSE NoPath
    IN  IF path = NoPath THEN NoReport ELSE GetData(t, path, FALSE)

Probed(source, node, data) ==
    LET env == SerializeEnvProbes(VmProbes(WeakAlgorithmProbes(
                    source, node, data), node, data), node, data)
        others == LogUsageProbes(SyncIoProbes(ExfiltrationProbes(
                    env, node, data), node, data), node, data)
    IN  IF SkipsAsEnv(source, node, data) THEN env
        ELSE ShuckingProbes(PrehashProbes(others, node, data), node, data)

(* The last probing of a node ends with the walker reading its context. *)
Probe ==
    /\ phase = "walking" /\ queue = << >> /\ agenda # << >> /\ Head(agenda).do = "probe"
    /\ LET node == Head(agenda).node
           data == TracedData(s.tracer, node)
           skips == skip \/ SkipsAsEnv(s, node, data)
       IN  /\ s' = Probed(s, node, data)
           /\ IF Len(agenda) > 1
              THEN skip' = skips /\ UNCHANGED todo
              ELSE /\ skip' = FALSE
                   /\ todo' = (IF skips THEN << >> ELSE ChildrenOf(node)) \o Tail(todo)
    /\ agenda' = Tail(agenda)
    /\ UNCHANGED <<program, pool, queue, virtuals, phase>>

(* ProbeRunner::finalize *)
Finish ==
    /\ Idle /\ todo = << >> /\ program # << >>
    /\ LET leak == IF DOMAIN s.exfiltration = {} THEN s ELSE Warn(s, "data-exfiltration")
       IN  s' = IF s.log.context = << >> THEN leak ELSE Warn(leak, "log-usage")
    /\ phase' = "done"
    /\ UNCHANGED <<program, pool, todo, agenda, queue, skip, virtuals>>

Next ==
    \/ /\ Len(program) < Len(pool)
       /\ \E statement \in pool[Len(program) + 1] : Read(statement)
    \/ Enter \/ Track \/ Tell \/ Probe \/ Finish

Spec == Init /\ [][Next]_vars
===============================================================================
