--------------------------- MODULE DependencyReach ---------------------------
(***************************************************************************)
(* The walk of DependencyCrawl against the definition of its result: the   *)
(* files reachable over imports from the entry files.  Stated for a file   *)
(* system that does not change during the call (Volatile = {}).            *)
(***************************************************************************)
EXTENDS DependencyCrawl

(***************************************************************************)
(* The import relation read off the file system.                           *)
(***************************************************************************)
Readable(f) == f \notin DtsNamed /\ disk[f] \in Contents
NamesIn(f) == {disk[f][i] : i \in DOMAIN disk[f]} \ PackageDependencies
StandsFor(p, g) ==
    \E c \in 1..Len(Candidates[p]) :
        /\ g = Candidates[p][c] /\ disk[g] \notin {Absent, StatError}
        /\ \A b \in 1..(c - 1) : disk[Candidates[p][b]] = Absent
LookUpFails(p) ==
    \E c \in 1..Len(Candidates[p]) :
        /\ disk[Candidates[p][c]] = StatError
        /\ \A b \in 1..(c - 1) : disk[Candidates[p][b]] = Absent
ImportedBy(S) ==
    {g \in File : \E f \in S : Readable(f) /\ \E n \in NamesIn(f) :
                     StandsFor(Join[<<f, n>>], g)}

StartFiles ==
    {f \in EntryFiles : ~(IgnoreEnoent /\ disk[f] \in {Absent, StatError})}

\* The least set that has the files the start files import and is closed
\* under imports.
Imported ==
    {g \in File : \A S \in SUBSET File :
        ImportedBy(S \cup StartFiles) \subseteq S => g \in S}
Expected == (StartFiles \ DtsNamed) \cup Imported

(***************************************************************************)
(* What stops a call: an entry file or a reachable file that exists and    *)
(* cannot be read, a missing entry file, or an import whose look-up fails. *)
(***************************************************************************)
Obstacle ==
    \/ IgnoreEnoent /\ \E f \in EntryFiles : disk[f] = StatError
    \/ \E f \in Expected \ DtsNamed : disk[f] \in {Absent, StatError, Unreadable}
    \/ \E f \in Expected : Readable(f) /\ \E n \in NamesIn(f) :
          LookUpFails(Join[<<f, n>>])

(***************************************************************************)
(* The graph of a completed call has exactly the reachable files as its    *)
(* vertices, the import relation without its self-loops as its edges, and  *)
(* a report for every vertex that is not skipped, whatever the order of    *)
(* entries and imports and however they share dependencies.                *)
(***************************************************************************)
WalkIsExact ==
    status = "done" =>
        /\ vertices = Expected
        /\ edges = {x \in Expected \X Expected :
                       x[2] \in ImportedBy({x[1]}) \ {x[1]}}
        /\ ReportedFiles = Expected \ DtsNamed

(***************************************************************************)
(* A call fails exactly when something stops it: neither does an obstacle  *)
(* the walk never meets spoil a result, nor is one it meets passed over.   *)
(***************************************************************************)
FailsForCause ==
    /\ status = "failed" => Obstacle
    /\ status = "done" => ~Obstacle
=============================================================================
