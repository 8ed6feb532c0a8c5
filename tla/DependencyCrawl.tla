--------------------------- MODULE DependencyCrawl ---------------------------
(***************************************************************************)
(* EntryFilesAnalyser: the recursive walk over the local imports of a list *)
(* of entry files (entry_files_analyser.rs).                               *)
(*                                                                         *)
(* The recursion of analyse_file is an explicit stack of call frames, so   *)
(* that the file system, which the walk reads at several points, can       *)
(* change between two of its reads.  File contents are abstracted to the   *)
(* sequence of names AstAnalyser::analyse_file reports as dependencies.    *)
(*                                                                         *)
(* Operators marked (faulty) are not part of the specification: each is    *)
(* the operator that follows it with a plausible mistake, kept to show     *)
(* that the properties notice it.                                          *)
(***************************************************************************)
EXTENDS Integers, Sequences, FiniteSets

CONSTANTS
    File,        \* normalised file paths
    DtsNamed,    \* files whose path contains the text "d.ts"
    Declaration, \* TypeScript declaration files, named *.d.ts
    Name,        \* dependency names as they appear in reports
    PackageDependencies,  \* names the package manifest lists
    Path,        \* joined, normalised paths, with or without an extension
    Join,        \* [File \X Name -> Path]: normalize_path(parent.join(name))
    Candidates,  \* [Path -> Seq(File)]: the files a path may stand for, in order
    Spelling,    \* entry files as the caller spells them
    Normal,      \* [Spelling -> File]: normalize_and_clean_entry_file
    EntryLists,  \* the argument lists analyse is called with
    Contents,    \* dependency lists of files that parse
    Disks,       \* the file systems the walk may find at first
    Volatile,    \* files that may change while the walk runs
    IgnoreEnoent,
    Absent, StatError, Unreadable, Unparsable,   \* the other states of a file
    None         \* a path no file answers to

Trouble == {Absent, StatError, Unreadable, Unparsable}

DiskState == Contents \cup Trouble

ASSUME CrawlAssumption ==
    /\ Declaration \subseteq DtsNamed
    /\ DtsNamed \subseteq File
    /\ PackageDependencies \subseteq Name
    /\ Join \in [File \X Name -> Path]
    /\ Candidates \in [Path -> Seq(File)]
    /\ Normal \in [Spelling -> File]
    /\ EntryLists \subseteq Seq(Spelling)
    /\ Contents \subseteq Seq(Name)
    /\ Trouble \cap Contents = {}
    /\ Disks \subseteq [File -> DiskState]
    /\ Volatile \subseteq File
    /\ IgnoreEnoent \in BOOLEAN
    /\ None \notin File

ASSUME TroubleAssumption ==
    /\ Absent \notin {StatError, Unreadable, Unparsable}
    /\ StatError \notin {Unreadable, Unparsable}
    /\ Unreadable # Unparsable

(***************************************************************************)
(* EntryLists holds the lists after IndexSet removed repeated spellings;   *)
(* two spellings of one file remain two entries.                           *)
(***************************************************************************)
ASSUME EntryAssumption ==
    \A es \in EntryLists : \A i, j \in 1..Len(es) : es[i] = es[j] => i = j

VARIABLES
    disk,          \* the file system: [File -> what a read of the file finds]
    vertices,      \* DiGraph: the vertices ...
    edges,         \* ... and the pairs <<from, to>> of adjacent_to
    processed,     \* stats.number_of_files_processed
    detected,      \* stats.number_of_imports_detected
    uniqueImports, \* unique_imports
    cache,         \* dep_path_cache
    out,           \* reports, in order
    entries,       \* the unique entry files of the current call
    nextEntry,     \* index of the entry the loop takes next
    stack,         \* frames of analyse_file, the running one last
    status         \* of the current call of analyse

graphVars == <<vertices, edges>>
vars == <<disk, vertices, edges, processed, detected, uniqueImports, cache,
          out, entries, nextEntry, stack, status>>

Report == [file : File, ok : BOOLEAN, deps : Seq(Name)]

(***************************************************************************)
(* A frame is a call of analyse_file.  next = 0: called, nothing done yet. *)
(* next = i > 0: in the loop, at the i-th name of the file's report; past  *)
(* Len(names) the call is about to return.  While a callee runs, the       *)
(* caller's next stays at the name it was called for.                      *)
(***************************************************************************)
Frame == [file : File, names : Seq(Name), next : Nat]
Returning(f) == [file |-> f, names |-> <<>>, next |-> 1]
Called(f) == [file |-> f, names |-> <<>>, next |-> 0]

Top == stack[Len(stack)]
ReplaceTop(fr) == [stack EXCEPT ![Len(stack)] = fr]
SameName == stack                                        \* (faulty)
NextName == ReplaceTop([Top EXCEPT !.next = @ + 1])

(***************************************************************************)
(* The DiGraph operations the walk uses.  Module DiGraph has them with the *)
(* order of the adjacency lists.                                           *)
(***************************************************************************)
NeverHas(vs, f) == FALSE                                 \* (faulty)
HasVertex(vs, f) == f \in vs
ForgetVertex(vs, f) == vs                                \* (faulty)
AddVertex(vs, f) == vs \cup {f}

AddBackEdge(vs, es, from, to) == es \cup {<<to, from>>}  \* (faulty)
AddFirstEdgeTo(vs, es, from, to) ==                      \* (faulty)
    IF from = to \/ \E e \in es : e[2] = to THEN es ELSE es \cup {<<from, to>>}
AddEdge(vs, es, from, to) ==
    IF from = to \/ to \notin vs \/ from \notin vs
    THEN es
    ELSE es \cup {<<from, to>>}

Init ==
    /\ disk \in Disks
    /\ vertices = {} /\ edges = {} /\ uniqueImports = {}
    /\ processed = 0 /\ detected = 0
    /\ cache = << >> /\ out = << >> /\ stack = << >>
    /\ entries = << >> /\ nextEntry = 1
    /\ status = "idle"

(***************************************************************************)
(* analyse: everything a previous call left in the analyser is dropped.    *)
(***************************************************************************)
Analyse(es) ==
    /\ status # "running"
    /\ vertices' = {} /\ edges' = {} /\ uniqueImports' = {}
    /\ processed' = 0 /\ detected' = 0
    /\ cache' = << >> /\ out' = << >> /\ stack' = << >>
    /\ entries' = es /\ nextEntry' = 1
    /\ status' = "running"
    /\ UNCHANGED disk

(***************************************************************************)
(* An io::Error leaves every frame and analyse itself through "?": the     *)
(* reports collected so far are dropped, detected keeps its initial 0.     *)
(***************************************************************************)
Fail ==
    /\ status' = "failed"
    /\ stack' = << >> /\ out' = << >>
    /\ UNCHANGED <<disk, edges, processed, detected, uniqueImports, cache,
                   entries, nextEntry>>

(***************************************************************************)
(* The loop over the entry files.                                          *)
(***************************************************************************)
AtEntry == status = "running" /\ stack = << >> /\ nextEntry <= Len(entries)
Entry == Normal[entries[nextEntry]]
OnTheLastEntry == nextEntry >= Len(entries)              \* (faulty)
AllEntriesTaken == nextEntry > Len(entries)
ReportsBeyondEntries == Len(out) - Len(entries)          \* (faulty)
CountImports == Cardinality(uniqueImports)

SkipEntry ==
    /\ AtEntry
    /\ IgnoreEnoent /\ disk[Entry] = Absent
    /\ nextEntry' = nextEntry + 1
    /\ UNCHANGED <<disk, vertices, edges, processed, detected, uniqueImports,
                   cache, out, entries, stack, status>>

EntryFails ==
    /\ AtEntry
    /\ IgnoreEnoent /\ disk[Entry] = StatError
    /\ Fail
    /\ UNCHANGED vertices

CallEntry ==
    /\ AtEntry
    /\ IgnoreEnoent => disk[Entry] \notin {Absent, StatError}
    /\ stack' = <<Called(Entry)>>
    /\ nextEntry' = nextEntry + 1
    /\ UNCHANGED <<disk, vertices, edges, processed, detected, uniqueImports,
                   cache, out, entries, status>>

Finish ==
    /\ status = "running" /\ stack = << >> /\ AllEntriesTaken
    /\ detected' = CountImports
    /\ status' = "done"
    /\ UNCHANGED <<disk, vertices, edges, processed, uniqueImports, cache,
                   out, entries, nextEntry, stack>>

(***************************************************************************)
(* analyse_file up to the loop over the names of the report.               *)
(***************************************************************************)
AtCall == status = "running" /\ stack # << >> /\ Top.next = 0

SkipGone ==                                              \* (faulty)
    /\ AtCall
    /\ Top.file \in DtsNamed \/ disk[Top.file] = Absent
    /\ stack' = ReplaceTop(Returning(Top.file))
    /\ UNCHANGED <<disk, vertices, edges, processed, detected, uniqueImports,
                   cache, out, entries, nextEntry, status>>

SkipDts ==
    /\ AtCall
    /\ Top.file \in DtsNamed
    /\ stack' = ReplaceTop(Returning(Top.file))
    /\ UNCHANGED <<disk, vertices, edges, processed, detected, uniqueImports,
                   cache, out, entries, nextEntry, status>>

ReadFails ==
    /\ AtCall
    /\ Top.file \notin DtsNamed
    /\ disk[Top.file] \in {Absent, StatError, Unreadable}
    /\ vertices' = AddVertex(vertices, Top.file)
    /\ Fail

ParseFails ==
    /\ AtCall
    /\ Top.file \notin DtsNamed
    /\ disk[Top.file] = Unparsable
    /\ vertices' = AddVertex(vertices, Top.file)
    /\ processed' = processed + 1
    /\ out' = Append(out, [file |-> Top.file, ok |-> FALSE, deps |-> << >>])
    /\ stack' = ReplaceTop(Returning(Top.file))
    /\ UNCHANGED <<disk, edges, detected, uniqueImports, cache, entries,
                   nextEntry, status>>

AnalyseFile ==
    /\ AtCall
    /\ Top.file \notin DtsNamed
    /\ disk[Top.file] \in Contents
    /\ vertices' = AddVertex(vertices, Top.file)
    /\ processed' = processed + 1
    /\ out' = Append(out, [file |-> Top.file, ok |-> TRUE,
                           deps |-> disk[Top.file]])
    /\ stack' = ReplaceTop([file |-> Top.file, names |-> disk[Top.file],
                            next |-> 1])
    /\ UNCHANGED <<disk, edges, detected, uniqueImports, cache, entries,
                   nextEntry, status>>

(***************************************************************************)
(* resolve_internal_dep_path: the first candidate that exists, an error if *)
(* the look at a candidate fails first.  get_internal_dep_path remembers   *)
(* the answer, None included, but not an error.                            *)
(***************************************************************************)
AnySeen(p) ==                                            \* (faulty)
    {c \in 1..Len(Candidates[p]) : disk[Candidates[p][c]] # Absent}
FirstWithoutError(p) ==                                  \* (faulty)
    {c \in 1..Len(Candidates[p]) :
        /\ disk[Candidates[p][c]] \notin {Absent, StatError}
        /\ \A b \in 1..(c - 1) : disk[Candidates[p][b]] \in {Absent, StatError}}
FirstSeen(p) ==
    {c \in 1..Len(Candidates[p]) :
        /\ disk[Candidates[p][c]] # Absent
        /\ \A b \in 1..(c - 1) : disk[Candidates[p][b]] = Absent}

ResolvesAfresh(p, target) ==                             \* (faulty)
    \/ FirstSeen(p) = {} /\ target = None
    \/ \E c \in FirstSeen(p) :
          disk[Candidates[p][c]] # StatError /\ target = Candidates[p][c]
Resolves(p, target) ==
    IF p \in DOMAIN cache
    THEN target = cache[p]
    ELSE \/ /\ FirstSeen(p) = {}
            /\ target = None
         \/ \E c \in FirstSeen(p) :
               /\ disk[Candidates[p][c]] # StatError
               /\ target = Candidates[p][c]

ResolveFails(p) ==
    /\ p \notin DOMAIN cache
    /\ \E c \in FirstSeen(p) : disk[Candidates[p][c]] = StatError

RememberQuestion(p, target) ==                           \* (faulty)
    [q \in DOMAIN cache \cup {p} |-> IF q = p THEN p ELSE cache[q]]
Remember(p, target) ==
    [q \in DOMAIN cache \cup {p} |-> IF q = p THEN target ELSE cache[q]]

(***************************************************************************)
(* The loop over the names of the report.                                  *)
(***************************************************************************)
AtName ==
    /\ status = "running" /\ stack # << >>
    /\ Top.next \in 1..Len(Top.names)
NameNow == Top.names[Top.next]
PathNow == Join[<<Top.file, NameNow>>]

SkipPackage ==
    /\ AtName
    /\ NameNow \in PackageDependencies
    /\ stack' = NextName
    /\ UNCHANGED <<disk, vertices, edges, processed, detected, uniqueImports,
                   cache, out, entries, nextEntry, status>>

ImportFails ==
    /\ AtName
    /\ NameNow \notin PackageDependencies
    /\ ResolveFails(PathNow)
    /\ Fail
    /\ UNCHANGED vertices

ImportUnresolved ==
    /\ AtName
    /\ NameNow \notin PackageDependencies
    /\ Resolves(PathNow, None)
    /\ cache' = Remember(PathNow, None)
    /\ stack' = NextName
    /\ UNCHANGED <<disk, vertices, edges, processed, detected, uniqueImports,
                   out, entries, nextEntry, status>>

ImportKnown(dep) ==
    /\ AtName
    /\ NameNow \notin PackageDependencies
    /\ Resolves(PathNow, dep)
    /\ HasVertex(vertices, dep)
    /\ cache' = Remember(PathNow, dep)
    /\ uniqueImports' = uniqueImports \cup {dep}
    /\ edges' = AddEdge(vertices, edges, Top.file, dep)
    /\ stack' = NextName
    /\ UNCHANGED <<disk, vertices, processed, detected, out, entries,
                   nextEntry, status>>

ImportNew(dep) ==
    /\ AtName
    /\ NameNow \notin PackageDependencies
    /\ Resolves(PathNow, dep)
    /\ ~HasVertex(vertices, dep)
    /\ cache' = Remember(PathNow, dep)
    /\ uniqueImports' = uniqueImports \cup {dep}
    /\ vertices' = AddVertex(vertices, dep)
    /\ stack' = Append(stack, Called(dep))
    /\ UNCHANGED <<disk, edges, processed, detected, out, entries, nextEntry,
                   status>>

(***************************************************************************)
(* The end of a call.  A caller adds the edge to the callee only now, with *)
(* the callee's whole subtree already walked.                              *)
(***************************************************************************)
Caller == stack[Len(stack) - 1]
PopToCaller ==
    [SubSeq(stack, 1, Len(stack) - 1)
        EXCEPT ![Len(stack) - 1] = [Caller EXCEPT !.next = @ + 1]]

AtReturn == status = "running" /\ stack # << >> /\ Top.next > Len(Top.names)

ReturnToCaller ==
    /\ AtReturn
    /\ Len(stack) > 1
    /\ edges' = AddEdge(vertices, edges, Caller.file, Top.file)
    /\ stack' = PopToCaller
    /\ UNCHANGED <<disk, vertices, processed, detected, uniqueImports, cache,
                   out, entries, nextEntry, status>>

ReturnToEntryLoop ==
    /\ AtReturn
    /\ Len(stack) = 1
    /\ stack' = << >>
    /\ UNCHANGED <<disk, vertices, edges, processed, detected, uniqueImports,
                   cache, out, entries, nextEntry, status>>

(***************************************************************************)
(* Another process writes, damages, removes or creates a file.             *)
(***************************************************************************)
FileChanges(f) ==
    /\ \E d \in DiskState : disk' = [disk EXCEPT ![f] = d]
    /\ UNCHANGED <<vertices, edges, processed, detected, uniqueImports, cache,
                   out, entries, nextEntry, stack, status>>

EntryStep == SkipEntry \/ EntryFails \/ CallEntry \/ Finish
CallStep == SkipDts \/ ReadFails \/ ParseFails \/ AnalyseFile
NameStep ==
    \/ SkipPackage \/ ImportFails \/ ImportUnresolved
    \/ \E dep \in File : ImportKnown(dep) \/ ImportNew(dep)
ReturnStep == ReturnToCaller \/ ReturnToEntryLoop
Walk == EntryStep \/ CallStep \/ NameStep \/ ReturnStep

Next ==
    \/ \E es \in EntryLists : Analyse(es)
    \/ Walk
    \/ \E f \in Volatile : FileChanges(f)

(***************************************************************************)
(* analyse is one synchronous call: once entered it keeps being executed,  *)
(* whatever happens to the files.                                          *)
(***************************************************************************)
Spec == Init /\ [][Next]_vars /\ WF_vars(Walk)

-----------------------------------------------------------------------------
TypeOK ==
    /\ disk \in [File -> DiskState]
    /\ vertices \subseteq File
    /\ edges \subseteq File \X File
    /\ processed \in Nat
    /\ detected \in Nat
    /\ uniqueImports \subseteq File /\ IsFiniteSet(uniqueImports)
    /\ DOMAIN cache \subseteq Path
    /\ \A p \in DOMAIN cache : cache[p] \in File \cup {None}
    /\ out \in Seq(Report)
    /\ entries \in Seq(Spelling)
    /\ nextEntry \in Nat \ {0}
    /\ stack \in Seq(Frame)
    /\ status \in {"idle", "running", "done", "failed"}

Reports == {out[i] : i \in 1..Len(out)}
ReportedFiles == {r.file : r \in Reports}
EntryFiles == {Normal[entries[i]] : i \in 1..Len(entries)}

(***************************************************************************)
(* A dependency of f needs no further work: it is the package manifest's   *)
(* business, or its path has been looked up and the file found, unless it  *)
(* is f itself, has its edge.                                              *)
(***************************************************************************)
SettledIn(answers, links, f, n) ==
    \/ n \in PackageDependencies
    \/ LET p == Join[<<f, n>>]
       IN  /\ p \in DOMAIN answers
           /\ answers[p] \in {None, f} \/ <<f, answers[p]>> \in links

Settled(f, n) == SettledIn(cache, edges, f, n)

(***************************************************************************)
(* The recursion never re-enters a file that is being walked, so it is at  *)
(* most as deep as there are files, cyclic imports included (the           *)
(* has_vertex guard of analyse_file).                                      *)
(***************************************************************************)
NoReentry ==
    \A i, j \in 1..Len(stack) : stack[i].file = stack[j].file => i = j

(***************************************************************************)
(* No import is forgotten: each dependency of each report either is        *)
(* settled or still lies ahead of a running call for that very report.     *)
(* The edge is added only after the recursion returns, so a dependency is  *)
(* in neither state in the code's eyes for as long as the recursion takes. *)
(***************************************************************************)
NoLostImport ==
    \A r \in Reports : \A j \in 1..Len(r.deps) :
        \/ Settled(r.file, r.deps[j])
        \/ \E k \in 1..Len(stack) :
              /\ stack[k].file = r.file
              /\ stack[k].names = r.deps
              /\ stack[k].next <= j

(***************************************************************************)
(* A vertex without a report is a file that looks like a declaration file, *)
(* or the one the innermost call is about to analyse: add_vertex runs      *)
(* ahead of the analysis by at most one file.                              *)
(***************************************************************************)
NoSilentVertex ==
    status \in {"running", "done"} =>
        \A v \in vertices :
            \/ v \in ReportedFiles \cup DtsNamed
            \/ stack # << >> /\ Top.next = 0 /\ Top.file = v

(***************************************************************************)
(* "Skip declaration files as they are not meant to be analysed": nothing  *)
(* but a declaration file may be in the graph of a completed call without  *)
(* a report.                                                               *)
(***************************************************************************)
OnlyDeclarationsSkipped ==
    status = "done" => vertices \subseteq ReportedFiles \cup Declaration

(***************************************************************************)
(* A completed call has dealt with every entry file: one that is not in    *)
(* the graph was skipped as a declaration or, with ignore_enoent, as       *)
(* missing.                                                                *)
(***************************************************************************)
EntriesCovered ==
    status = "done" /\ ~IgnoreEnoent => EntryFiles \subseteq vertices \cup DtsNamed

(***************************************************************************)
(* Analysing a file is costly, and its report is not wanted twice: a file  *)
(* reached through imports only has one report, and an entry file one for  *)
(* each of its spellings and one more if an import reached it first.       *)
(***************************************************************************)
ReportsOf(f) == {i \in 1..Len(out) : out[i].file = f}
SpellingsOf(f) == {i \in 1..Len(entries) : Normal[entries[i]] = f}
NoRepeatedReport ==
    \A f \in File : Cardinality(ReportsOf(f)) <= Cardinality(SpellingsOf(f)) + 1
        /\ (SpellingsOf(f) = {} => Cardinality(ReportsOf(f)) <= 1)

(***************************************************************************)
(* The statistics of a completed call agree with its result: one processed *)
(* file per report, and as many imports detected as there are files some   *)
(* edge leads to or that import themselves.                                *)
(***************************************************************************)
ImportsItself(f) ==
    \E r \in Reports : r.file = f /\ \E j \in 1..Len(r.deps) :
        /\ r.deps[j] \notin PackageDependencies
        /\ cache[Join[<<f, r.deps[j]>>]] = f
StatsAgree ==
    status = "done" =>
        /\ processed = Len(out)
        /\ detected = Cardinality({f \in File :
              ImportsItself(f) \/ \E g \in File : <<g, f>> \in edges})

(***************************************************************************)
(* Files may come and go while the walk runs; within one call a path still *)
(* stands for one file, so two importers of it cannot disagree             *)
(* (dep_path_cache, negative answers included).                            *)
(***************************************************************************)
StableResolution ==
    [][status = "running" =>
          \A p \in DOMAIN cache : p \in DOMAIN cache' /\ cache'[p] = cache[p]]_vars

(***************************************************************************)
(* The walk ends, whatever the imports and however often files change.     *)
(***************************************************************************)
Termination == (status = "running") ~> (status # "running")

(***************************************************************************)
(* The walk implements the promise.                                        *)
(***************************************************************************)
Promise == INSTANCE ImportGraph WITH
    Exempt <- DtsNamed, MayBeMissing <- IgnoreEnoent,
    roots <- EntryFiles, nodes <- vertices, links <- edges,
    answers <- cache, reports <- Reports, phase <- status
KeepsPromise == Promise!Spec
=============================================================================
