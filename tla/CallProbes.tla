------------------------------ MODULE CallProbes ------------------------------
(***************************************************************************)
(* Probes that judge a call by what the tracer says of its callee:         *)
(* is_sync_io.rs, unsafe_vm_context.rs, is_serialize_env.rs and            *)
(* data_exfiltration.rs.  data is the tracer's report on the callee        *)
(* (traced_data), s.line stands for the location of a node and             *)
(* s.sensitivity is the option of that name.                               *)
(***************************************************************************)
EXTENDS LogUsage

CONSTANTS
    SyncFunctions,       \* sequence of paths <<module, function>>
    SyncNames,           \* names that end in "Sync"
    SensitiveMethods,    \* sequence of paths <<module, method>>
    SensitivePaths       \* texts that match SENSITIVE_PATH_REGEX

ASSUME CallAssumption == \A path \in Range(SyncFunctions) : path[2] \in SyncNames

Warn(s, kind) == [s EXCEPT !.warnings = Append(@, [kind |-> kind, line |-> s.line])]

StandsFor(data, paths) == data # NoReport /\ data.expr \in paths

(***************************************************************************)
(* is_sync_io.rs: once a core module with synchronous functions is         *)
(* imported, whatever is traced, by this probe or another, and has a name  *)
(* that ends in "Sync".                                                    *)
(***************************************************************************)
TracedCoreModules == {"fs", "crypto", "child_process", "zlib"}

InitializeSyncIo(s) ==
    [s EXCEPT !.tracer =
        FoldLeft(LAMBDA t, path : Trace(t, path, Following(path[1])), @, SyncFunctions)]

SyncIoProbes(s, node, data) ==
    IF /\ IsCall(node)
       /\ TracedCoreModules \cap s.tracer.imported # {}
       /\ data # NoReport /\ Last(data.expr) \in SyncNames
    THEN Warn(s, "synchronous-io") ELSE s

(***************************************************************************)
(* unsafe_vm_context.rs: runInContext of the scripts a program makes is    *)
(* traced without their module, but nothing is told before vm is imported. *)
(***************************************************************************)
InitializeVm(s) ==
    LET run == Trace(s.tracer, <<"vm", "runInNewContext">>, Following("vm"))
    IN  [s EXCEPT !.tracer = Trace(run, <<"vm", "Script">>, Returning("vm"))]

VmHears(s, event) ==
    IF event.type = "ReturnValue" /\ event.name = <<"vm", "Script">>
    THEN [s EXCEPT !.vm = @ \cup {<<event.id, "runInContext">>},
                   !.tracer = Trace(@, <<event.id, "runInContext">>, Follow)]
    ELSE s

VmProbes(s, node, data) ==
    IF /\ IsCall(node) /\ "vm" \in s.tracer.imported
       /\ StandsFor(data, s.vm \cup {<<"vm", "runInNewContext">>})
    THEN Warn(s, "unsafe-vm-context") ELSE s

(***************************************************************************)
(* is_serialize_env.rs: any traced name given to JSON.stringify counts.    *)
(* A match skips the children and the probes that come after.              *)
(***************************************************************************)
Stringify == <<"JSON", "stringify">>
ProcessEnv == <<"process", "env">>

InitializeSerializeEnv(s) ==
    [s EXCEPT !.tracer = TraceAll(@, <<ProcessEnv, Stringify>>, Follow)]

SerializesEnv(s, node, data) ==
    /\ IsCall(node) /\ StandsFor(data, {Stringify}) /\ node.arguments # << >>
    /\ LET first == node.arguments[1]
       IN  \/ IsMember(first) /\ MemberIdentifier(first, NoLiterals) = ProcessEnv
           \/ IsIdentifier(first) /\ GetData(s.tracer, <<first.name>>, FALSE) # NoReport

ReadsEnv(s, node) ==
    /\ s.sensitivity = "aggressive" /\ IsMember(node)
    /\ MemberIdentifier(node, NoLiterals) = ProcessEnv

SkipsAsEnv(s, node, data) == SerializesEnv(s, node, data) \/ ReadsEnv(s, node)

SerializeEnvProbes(s, node, data) ==
    IF SkipsAsEnv(s, node, data) THEN Warn(s, "serialize-environment") ELSE s

(***************************************************************************)
(* data_exfiltration.rs: aggressively, importing a sensitive module is     *)
(* enough; otherwise one of its methods must be called right inside of     *)
(* JSON.stringify.  A sensitive path is found in any literal.              *)
(***************************************************************************)
InitializeExfiltration(s) ==
    LET stringify == Trace(s.tracer, Stringify, Follow)
    IN  [s EXCEPT !.tracer = FoldLeft(LAMBDA t, path : Trace(t, path, Following(path[1])),
                                      stringify, SensitiveMethods)]

AddInContext(s, path) ==
    LET earlier == IF path \in DOMAIN s.exfiltration THEN s.exfiltration[path] ELSE << >>
    IN  [s EXCEPT !.exfiltration = With(@, path, Append(earlier, s.line))]

ExfiltrationHears(s, event) ==
    IF /\ s.sensitivity = "aggressive" /\ event.type = "Import"
       /\ \E path \in Range(SensitiveMethods) : path[1] = event.module
       /\ <<event.module>> \notin DOMAIN s.exfiltration
    THEN AddInContext(s, <<event.module>>) ELSE s

ExfiltrationProbes(s, node, data) ==
    LET stringifies == /\ IsCall(node) /\ s.sensitivity # "aggressive"
                       /\ StandsFor(data, {Stringify}) /\ node.arguments # << >>
        path == IF stringifies /\ IsCall(node.arguments[1])
                THEN CalleePath(node.arguments[1]) ELSE NoPath
        inner == IF path = NoPath THEN NoReport ELSE GetData(s.tracer, path, FALSE)
    IN  IF /\ StandsFor(inner, Range(SensitiveMethods))
           /\ inner.expr[1] \in s.tracer.imported
        THEN AddInContext(s, inner.expr)
        ELSE IF node.type = "Literal" /\ node.value \in SensitivePaths
        THEN AddInContext(s, <<node.value>>) ELSE s
===============================================================================
