----------------------------- MODULE ImportGraph -----------------------------
(***************************************************************************)
(* What a call of EntryFilesAnalyser::analyse promises, without its        *)
(* recursion: files are visited and imports followed in any order, and the *)
(* call may complete only with a closed graph.                             *)
(***************************************************************************)
EXTENDS Sequences

CONSTANTS File, Exempt, Name, PackageDependencies, Path, Join, Contents,
          MayBeMissing, None

VARIABLES
    roots,     \* the files the call starts from
    nodes,     \* files known to the graph
    links,     \* imports between them
    answers,   \* what each path was found to stand for
    reports,   \* the reports made so far
    phase

vars == <<roots, nodes, links, answers, reports, phase>>

Reported == {r.file : r \in reports}
Imports(r) == {r.deps[i] : i \in DOMAIN r.deps} \ PackageDependencies

(***************************************************************************)
(* An import is settled when its path has an answer, and the answer, if it *)
(* is another file, is linked.                                             *)
(***************************************************************************)
Settled(f, n) ==
    LET p == Join[<<f, n>>]
    IN  /\ p \in DOMAIN answers
        /\ answers[p] \in {None, f} \/ <<f, answers[p]>> \in links

Closed ==
    /\ \A r \in reports : \A n \in Imports(r) : Settled(r.file, n)
    /\ nodes \subseteq Reported \cup Exempt
    /\ MayBeMissing \/ roots \subseteq nodes \cup Exempt

Init ==
    /\ roots = {} /\ nodes = {} /\ links = {} /\ reports = {}
    /\ answers = << >>
    /\ phase = "idle"

Start ==
    /\ phase # "running"
    /\ roots' \in SUBSET File
    /\ nodes' = {} /\ links' = {} /\ reports' = {}
    /\ answers' = << >>
    /\ phase' = "running"

Visit(f) ==
    /\ phase = "running"
    /\ f \in (nodes \ Reported) \cup roots
    /\ f \notin Exempt
    /\ nodes' = nodes \cup {f}
    /\ \/ reports' = reports \cup {[file |-> f, ok |-> FALSE, deps |-> << >>]}
       \/ \E ds \in Contents :
             reports' = reports \cup {[file |-> f, ok |-> TRUE, deps |-> ds]}
    /\ UNCHANGED <<roots, links, answers, phase>>

Follow(r, n, t) ==
    LET p == Join[<<r.file, n>>]
    IN  /\ phase = "running"
        /\ p \in DOMAIN answers => t = answers[p]
        /\ answers' = [q \in DOMAIN answers \cup {p} |->
                          IF q = p THEN t ELSE answers[q]]
        /\ nodes' = nodes \cup ({t} \ {None})
        /\ \/ links' = links
           \/ /\ t \in nodes \ {r.file}
              /\ links' = links \cup {<<r.file, t>>}
        /\ UNCHANGED <<roots, reports, phase>>

Complete ==
    /\ phase = "running"
    /\ Closed
    /\ phase' = "done"
    /\ UNCHANGED <<roots, nodes, links, answers, reports>>

Abort ==
    /\ phase = "running"
    /\ phase' = "failed"
    /\ reports' = {}
    /\ nodes' = nodes \/ \E f \in roots : nodes' = nodes \cup {f}
    /\ UNCHANGED <<roots, links, answers>>

Next ==
    \/ Start
    \/ \E f \in File : Visit(f)
    \/ \E r \in reports : \E n \in Imports(r) : \E t \in File \cup {None} :
          Follow(r, n, t)
    \/ Complete
    \/ Abort

Spec == Init /\ [][Next]_vars
=============================================================================
