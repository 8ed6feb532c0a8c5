----------------------------- MODULE ProbeRunner -----------------------------
(***************************************************************************)
(* ProbeRunner::walk (probe.rs): every probe that applies to a node is run *)
(* in turn, unless an earlier one skipped the node or stopped its group.   *)
(* What a probe answers is up to the probe, so any answer is possible;     *)
(* what it leaves behind in the SourceFile for its teardown to undo, such  *)
(* as the dependency_auto_warning of isRequire, is the set marks.          *)
(*                                                                         *)
(* Operators marked (faulty) are the operator that follows them with a     *)
(* plausible mistake.                                                      *)
(***************************************************************************)
EXTENDS Integers, FiniteSets

CONSTANTS
    NodeType,
    N,             \* probes are 1..N, in the order of the list
    Handles,       \* node_types; {} is None or an empty list: every type
    Group,         \* break_group, NoGroup when there is none
    NoGroup,
    BreakOnMatch   \* the probes with break_on_match

Probe == 1..N
Signal == {"Matched", "Continue", "Skip", "Break"}

ASSUME ProbesAssumption ==
    /\ N \in Nat
    /\ Handles \in [Probe -> SUBSET NodeType]
    /\ DOMAIN Group = Probe
    /\ BreakOnMatch \subseteq Probe

VARIABLES
    nodeType,   \* type of the node being probed
    at,         \* the probe the loop is at
    groups,     \* break_groups
    signal,     \* what the probe at hand answered
    marks,      \* probes whose effects still wait for their teardown
    heard,      \* history: the answers for this node, [probes run -> Signal]
    action,     \* the WalkAction returned for the last node
    pc

vars == <<nodeType, at, groups, signal, marks, heard, action, pc>>

Init ==
    /\ nodeType \in NodeType
    /\ at = N + 1 /\ groups = {} /\ signal = "Continue" /\ marks = {}
    /\ heard = << >> /\ action = "None"
    /\ pc = "new"

StaleGroups == groups                                    \* (faulty)
NoGroups == {}

Begin(t) ==
    /\ pc \in {"new", "idle"}
    /\ nodeType' = t
    /\ at' = 1 /\ groups' = NoGroups /\ heard' = << >>
    /\ pc' = "probing"
    /\ UNCHANGED <<signal, marks, action>>

Applies(p) == Handles[p] = {} \/ nodeType \in Handles[p]
Stopped(p) == Group[p] # NoGroup /\ Group[p] \in groups
Runs(p) == Applies(p) /\ ~Stopped(p)

PassOver ==
    /\ pc = "probing" /\ at \in Probe /\ ~Runs(at)
    /\ at' = at + 1
    /\ UNCHANGED <<nodeType, groups, signal, marks, heard, action, pc>>

(***************************************************************************)
(* run_probe: a probe no validator of which matches counts as Continue.    *)
(***************************************************************************)
Run(s) ==
    /\ pc = "probing" /\ at \in Probe /\ Runs(at)
    /\ signal' = s
    /\ heard' = [p \in DOMAIN heard \cup {at} |-> IF p = at THEN s ELSE heard[p]]
    /\ marks' \in {marks, marks \cup {at}}
    /\ pc' = "ran"
    /\ UNCHANGED <<nodeType, at, groups, action>>

TornDownIfMatched == IF signal = "Matched" THEN marks \ {at} ELSE marks  \* (faulty)
TornDown == marks \ {at}

Teardown ==
    /\ pc = "ran"
    /\ marks' = TornDown
    /\ pc' = "heeding"
    /\ UNCHANGED <<nodeType, at, groups, signal, heard, action>>

(***************************************************************************)
(* The answer is heeded only after the teardown.                           *)
(***************************************************************************)
Stops(p, s) == s = "Break" \/ (s = "Matched" /\ p \in BreakOnMatch)
Return(a) ==
    /\ action' = a
    /\ pc' = "idle"
    /\ UNCHANGED <<nodeType, at, groups, signal, marks, heard>>

HeedSkip ==
    /\ pc = "heeding" /\ signal = "Skip"
    /\ Return("Skip")

HeedStop ==
    /\ pc = "heeding" /\ Stops(at, signal) /\ Group[at] = NoGroup
    /\ Return("None")

InsertGroup == groups \cup {Group[at]}

HeedGroupStop ==
    /\ pc = "heeding" /\ Stops(at, signal) /\ Group[at] # NoGroup
    /\ groups' = InsertGroup
    /\ at' = at + 1
    /\ pc' = "probing"
    /\ UNCHANGED <<nodeType, signal, marks, heard, action>>

SameProbe == at                                          \* (faulty)
ProbeAfterNext == at + 2                                 \* (faulty)
NextProbe == at + 1

GoOn ==
    /\ pc = "heeding" /\ signal # "Skip" /\ ~Stops(at, signal)
    /\ at' = NextProbe
    /\ pc' = "probing"
    /\ UNCHANGED <<nodeType, groups, signal, marks, heard, action>>

Complete ==
    /\ pc = "probing" /\ at \notin Probe
    /\ Return("None")

Step ==
    \/ PassOver \/ Teardown \/ HeedSkip \/ HeedStop \/ HeedGroupStop \/ GoOn \/ Complete
    \/ \E s \in Signal : Run(s)

Next == (\E t \in NodeType : Begin(t)) \/ Step

(***************************************************************************)
(* walk is a loop over a fixed list: once entered it keeps being executed. *)
(***************************************************************************)
Spec == Init /\ [][Next]_vars /\ WF_vars(Step)

-----------------------------------------------------------------------------
TypeOK ==
    /\ nodeType \in NodeType
    /\ at \in 1..(N + 1)
    /\ groups \subseteq {Group[p] : p \in Probe} \ {NoGroup}
    /\ signal \in Signal
    /\ marks \subseteq Probe
    /\ DOMAIN heard \subseteq Probe
    /\ \A p \in DOMAIN heard : heard[p] \in Signal
    /\ action \in {"None", "Skip"}
    /\ pc \in {"new", "idle", "probing", "ran", "heeding"}
    /\ pc \in {"ran", "heeding"} => at \in Probe

(***************************************************************************)
(* What should silence probe p, said without the loop: an earlier probe    *)
(* skipped the node, or stopped everything, or stopped p's group, at this  *)
(* very node.                                                              *)
(***************************************************************************)
Silences(q, p) ==
    \/ heard[q] = "Skip"
    \/ Stops(q, heard[q]) /\ Group[q] \in {NoGroup, Group[p]}
Silenced(p) == \E q \in DOMAIN heard : q < p /\ Silences(q, p)

(***************************************************************************)
(* At the end of a node exactly those probes have run that apply to it and *)
(* are not silenced; what silenced a probe at an earlier node does not     *)
(* count any more (break_groups is a field that outlives the call).        *)
(***************************************************************************)
HeardExactly ==
    pc = "idle" =>
        /\ \A p \in Probe : p \in DOMAIN heard <=> Applies(p) /\ ~Silenced(p)
        /\ action = "Skip" <=> \E p \in DOMAIN heard : heard[p] = "Skip"

(***************************************************************************)
(* No probe runs, and no node ends, while something an earlier probe left  *)
(* in the SourceFile still waits for its teardown: a require found by      *)
(* isRequire cannot make an import found by isImportDeclaration unsafe,    *)
(* whichever way the first one returned.                                   *)
(***************************************************************************)
NothingLeftBehind == pc \in {"probing", "idle"} => marks = {}

(***************************************************************************)
(* Every node is done with, whatever its probes answer.                    *)
(***************************************************************************)
NodeEnds == (pc = "probing") ~> (pc = "idle")
=============================================================================
