----------------------- MODULE DependencyCrawl_proofs -----------------------
(***************************************************************************)
(* Theorems about the walk of DependencyCrawl, for every project, every    *)
(* list of entry files and every change of the file system; and about what *)
(* a completed walk leaves behind: its statistics, the number of its       *)
(* reports, and, when no file changes under it, exactly the reachable part *)
(* of the import graph.                                                    *)
(***************************************************************************)
EXTENDS DependencyReach, FiniteSetTheorems, SequenceTheorems, TLAPS

(***************************************************************************)
(* The inductive invariant.  A frame below the top stands at the import    *)
(* its callee was called for; every frame has settled what it has passed.  *)
(***************************************************************************)
Waiting(k) ==
    LET fr == stack[k]
    IN  /\ fr.next \in 1..Len(fr.names)
        /\ fr.names[fr.next] \notin PackageDependencies
        /\ Join[<<fr.file, fr.names[fr.next]>>] \in DOMAIN cache
        /\ cache[Join[<<fr.file, fr.names[fr.next]>>]] = stack[k + 1].file

FrameFresh(k) ==
    stack[k].next = 0 =>
        /\ stack[k].names = << >>
        /\ k = 1 => stack[k].file \in EntryFiles
        /\ k > 1 => stack[k].file \notin ReportedFiles

FrameReported(k) ==
    /\ stack[k].next > 0 => stack[k].file \in ReportedFiles \cup DtsNamed
    /\ stack[k].names # << >> =>
          [file |-> stack[k].file, ok |-> TRUE, deps |-> stack[k].names] \in Reports

FrameSettled(k) ==
    \A j \in 1..Len(stack[k].names) :
        j < stack[k].next => Settled(stack[k].file, stack[k].names[j])

FrameOK(k) ==
    /\ k > 1 => stack[k].file \in vertices
    /\ FrameFresh(k)
    /\ FrameReported(k)
    /\ FrameSettled(k)

EntryTaken(f) ==
    \/ IgnoreEnoent
    \/ f \in vertices \cup DtsNamed
    \/ /\ Len(stack) = 1
       /\ stack[1].next = 0
       /\ stack[1].file = f

NoFramesAtRest == status # "running" => stack = << >>
FramesOK == \A k \in 1..Len(stack) : FrameOK(k)
CallersWait == \A k \in 1..(Len(stack) - 1) : Waiting(k)
ReportedAreVertices == ReportedFiles \subseteq vertices
EntriesTaken ==
    status \in {"running", "done"} =>
        \A i \in 1..Len(entries) : i < nextEntry => EntryTaken(Normal[entries[i]])

EndReached == status = "done" => nextEntry > Len(entries)

IInv ==
    /\ TypeOK
    /\ NoFramesAtRest
    /\ FramesOK
    /\ CallersWait
    /\ NoReentry
    /\ NoLostImport
    /\ ReportedAreVertices
    /\ NoSilentVertex
    /\ EntriesTaken

-----------------------------------------------------------------------------
(***************************************************************************)
(* What the operations on the stack of frames return.                      *)
(***************************************************************************)
LEMMA TopFrame ==
    ASSUME stack \in Seq(Frame), stack # << >>
    PROVE  /\ Len(stack) \in Nat \ {0}
           /\ Top \in Frame
BY DEF Top

LEMMA FrameFields ==
    ASSUME NEW fr \in Frame
    PROVE  /\ fr.file \in File
           /\ fr.names \in Seq(Name)
           /\ fr.next \in Nat
BY DEF Frame

LEMMA ReplacedTop ==
    ASSUME stack \in Seq(Frame), stack # << >>, NEW fr \in Frame
    PROVE  /\ ReplaceTop(fr) \in Seq(Frame)
           /\ Len(ReplaceTop(fr)) = Len(stack)
           /\ ReplaceTop(fr)[Len(stack)] = fr
           /\ \A k \in 1..(Len(stack) - 1) : ReplaceTop(fr)[k] = stack[k]
BY DEF ReplaceTop

LEMMA AdvancedFrame ==
    ASSUME NEW fr \in Frame
    PROVE  LET adv == [fr EXCEPT !.next = @ + 1]
           IN  /\ adv \in Frame
               /\ adv.file = fr.file
               /\ adv.names = fr.names
               /\ adv.next = fr.next + 1
BY DEF Frame

LEMMA PoppedStack ==
    ASSUME stack \in Seq(Frame), Len(stack) > 1
    PROVE  /\ PopToCaller \in Seq(Frame)
           /\ Len(PopToCaller) = Len(stack) - 1
           /\ PopToCaller[Len(stack) - 1] = [Caller EXCEPT !.next = @ + 1]
           /\ \A k \in 1..(Len(stack) - 2) : PopToCaller[k] = stack[k]
           /\ Caller \in Frame
<1>1. Caller \in Frame
  BY DEF Caller
<1>2. [Caller EXCEPT !.next = @ + 1] \in Frame
  BY <1>1, AdvancedFrame
<1> DEFINE rest == SubSeq(stack, 1, Len(stack) - 1)
<1>3. /\ rest \in Seq(Frame)
      /\ Len(rest) = Len(stack) - 1
      /\ \A k \in 1..(Len(stack) - 1) : rest[k] = stack[k]
  OBVIOUS
<1> HIDE DEF rest
<1>4. PopToCaller = [rest EXCEPT ![Len(stack) - 1] = [Caller EXCEPT !.next = @ + 1]]
  BY DEF PopToCaller, rest
<1>5. QED
  BY <1>1, <1>2, <1>3, <1>4

-----------------------------------------------------------------------------
(***************************************************************************)
(* Type correctness.                                                       *)
(***************************************************************************)
LEMMA InitTypeOK == Init => TypeOK
<1> SUFFICES ASSUME Init PROVE TypeOK
  OBVIOUS
<1>1. disk \in [File -> DiskState]
  BY CrawlAssumption DEF Init
<1>2. QED
  BY <1>1, FS_EmptySet DEF Init, TypeOK

LEMMA AnalyseTypeOK ==
    ASSUME TypeOK, NEW es \in EntryLists, Analyse(es)
    PROVE  TypeOK'
<1>1. es \in Seq(Spelling)
  BY CrawlAssumption
<1>2. QED
  BY <1>1, FS_EmptySet DEF TypeOK, Analyse

LEMMA EntryStepTypeOK == TypeOK /\ EntryStep => TypeOK'
<1> SUFFICES ASSUME TypeOK, EntryStep PROVE TypeOK'
  OBVIOUS
<1>1. CASE SkipEntry
  BY <1>1 DEF SkipEntry, AtEntry, TypeOK
<1>2. CASE EntryFails
  BY <1>2 DEF EntryFails, Fail, AtEntry, TypeOK
<1>3. CASE CallEntry
  <2>1. Entry \in File
    BY <1>3, CrawlAssumption DEF CallEntry, AtEntry, Entry, TypeOK
  <2>2. Called(Entry) \in Frame
    BY <2>1 DEF Called, Frame
  <2>3. QED
    BY <1>3, <2>2 DEF CallEntry, AtEntry, TypeOK
<1>4. CASE Finish
  <2>1. status' = "done" /\ detected' = Cardinality(uniqueImports)
    BY <1>4 DEF Finish, CountImports
  <2>2. Cardinality(uniqueImports) \in Nat
    BY FS_CardinalityType DEF TypeOK
  <2>3. QED
    BY <1>4, <2>1, <2>2 DEF Finish, TypeOK
<1>5. QED
  BY <1>1, <1>2, <1>3, <1>4 DEF EntryStep

LEMMA CallStepTypeOK == TypeOK /\ CallStep => TypeOK'
<1> SUFFICES ASSUME TypeOK, CallStep PROVE TypeOK'
  OBVIOUS
<1>1. stack \in Seq(Frame) /\ stack # << >>
  BY DEF TypeOK, CallStep, SkipDts, ReadFails, ParseFails, AnalyseFile, AtCall
<1>2. Top.file \in File
  BY <1>1, TopFrame, FrameFields
<1>3. Returning(Top.file) \in Frame
  BY <1>2 DEF Returning, Frame
<1>4. AddVertex(vertices, Top.file) \subseteq File
  BY <1>2 DEF AddVertex, TypeOK
<1>5. CASE SkipDts
  BY <1>1, <1>3, <1>5, ReplacedTop DEF SkipDts, TypeOK
<1>6. CASE ReadFails
  BY <1>4, <1>6 DEF ReadFails, Fail, TypeOK
<1>7. CASE ParseFails
  <2>1. [file |-> Top.file, ok |-> FALSE, deps |-> << >>] \in Report
    BY <1>2 DEF Report
  <2>2. stack' \in Seq(Frame)
    BY <1>1, <1>3, <1>7, ReplacedTop DEF ParseFails
  <2>3. out' \in Seq(Report)
    BY <1>7, <2>1 DEF ParseFails, TypeOK
  <2>4. QED
    BY <1>4, <1>7, <2>2, <2>3 DEF ParseFails, TypeOK
<1>8. CASE AnalyseFile
  <2>1. disk[Top.file] \in Seq(Name)
    BY <1>8, CrawlAssumption DEF AnalyseFile
  <2>2. [file |-> Top.file, ok |-> TRUE, deps |-> disk[Top.file]] \in Report
    BY <1>2, <2>1 DEF Report
  <2>3. [file |-> Top.file, names |-> disk[Top.file], next |-> 1] \in Frame
    BY <1>2, <2>1 DEF Frame
  <2>4. stack' \in Seq(Frame)
    BY <1>1, <1>8, <2>3, ReplacedTop DEF AnalyseFile
  <2>5. out' \in Seq(Report)
    BY <1>8, <2>2 DEF AnalyseFile, TypeOK
  <2>6. QED
    BY <1>4, <1>8, <2>4, <2>5 DEF AnalyseFile, TypeOK
<1>9. QED
  BY <1>5, <1>6, <1>7, <1>8 DEF CallStep

LEMMA NameStepTypeOK == TypeOK /\ NameStep => TypeOK'
<1> SUFFICES ASSUME TypeOK, NameStep PROVE TypeOK'
  OBVIOUS
<1>1. stack \in Seq(Frame) /\ stack # << >> /\ Top.next \in 1..Len(Top.names)
  BY DEF TypeOK, NameStep, SkipPackage, ImportFails, ImportUnresolved,
         ImportKnown, ImportNew, AtName
<1>2. Top \in Frame /\ Top.file \in File /\ Top.names \in Seq(Name)
  BY <1>1, TopFrame, FrameFields
<1>3. PathNow \in Path
  <2>1. NameNow \in Name
    BY <1>1, <1>2 DEF NameNow
  <2>2. QED
    BY <1>2, <2>1, CrawlAssumption DEF PathNow
<1>4. NextName \in Seq(Frame)
  BY <1>1, <1>2, AdvancedFrame, ReplacedTop DEF NextName
<1>5. \A t \in File \cup {None} :
         /\ DOMAIN Remember(PathNow, t) \subseteq Path
         /\ \A p \in DOMAIN Remember(PathNow, t) :
               Remember(PathNow, t)[p] \in File \cup {None}
  BY <1>3 DEF Remember, TypeOK
<1>6. CASE SkipPackage
  BY <1>4, <1>6 DEF SkipPackage, TypeOK
<1>7. CASE ImportFails
  BY <1>7 DEF ImportFails, Fail, TypeOK
<1>8. CASE ImportUnresolved
  BY <1>4, <1>5, <1>8 DEF ImportUnresolved, TypeOK
<1>9. ASSUME NEW dep \in File, ImportKnown(dep) PROVE TypeOK'
  <2>1. IsFiniteSet(uniqueImports \cup {dep})
    BY FS_AddElement DEF TypeOK
  <2>2. AddEdge(vertices, edges, Top.file, dep) \subseteq File \X File
    BY <1>2, <1>9 DEF AddEdge, TypeOK
  <2>3. QED
    BY <1>4, <1>5, <1>9, <2>1, <2>2 DEF ImportKnown, TypeOK
<1>10. ASSUME NEW dep \in File, ImportNew(dep) PROVE TypeOK'
  <2>1. IsFiniteSet(uniqueImports \cup {dep})
    BY FS_AddElement DEF TypeOK
  <2>2. Called(dep) \in Frame
    BY <1>10 DEF Called, Frame
  <2>3. AddVertex(vertices, dep) \subseteq File
    BY <1>10 DEF AddVertex, TypeOK
  <2>4. QED
    BY <1>1, <1>5, <1>10, <2>1, <2>2, <2>3 DEF ImportNew, TypeOK
<1>11. QED
  BY <1>6, <1>7, <1>8, <1>9, <1>10 DEF NameStep

LEMMA ReturnStepTypeOK == TypeOK /\ ReturnStep => TypeOK'
<1> SUFFICES ASSUME TypeOK, ReturnStep PROVE TypeOK'
  OBVIOUS
<1>1. CASE ReturnToCaller
  <2>1. stack \in Seq(Frame) /\ stack # << >> /\ Len(stack) > 1
    BY <1>1 DEF ReturnToCaller, AtReturn, TypeOK
  <2>2. Caller.file \in File /\ Top.file \in File /\ PopToCaller \in Seq(Frame)
    BY <2>1, TopFrame, PoppedStack, FrameFields
  <2>3. AddEdge(vertices, edges, Caller.file, Top.file) \subseteq File \X File
    BY <2>2 DEF AddEdge, TypeOK
  <2>4. QED
    BY <1>1, <2>2, <2>3 DEF ReturnToCaller, TypeOK
<1>2. CASE ReturnToEntryLoop
  BY <1>2 DEF ReturnToEntryLoop, TypeOK
<1>3. QED
  BY <1>1, <1>2 DEF ReturnStep

LEMMA NextTypeOK == TypeOK /\ [Next]_vars => TypeOK'
<1> SUFFICES ASSUME TypeOK, [Next]_vars PROVE TypeOK'
  OBVIOUS
<1>1. ASSUME NEW es \in EntryLists, Analyse(es) PROVE TypeOK'
  BY <1>1, AnalyseTypeOK
<1>2. CASE Walk
  BY <1>2, EntryStepTypeOK, CallStepTypeOK, NameStepTypeOK, ReturnStepTypeOK
     DEF Walk
<1>3. ASSUME NEW f \in Volatile, FileChanges(f) PROVE TypeOK'
  BY <1>3 DEF FileChanges, TypeOK
<1>4. CASE UNCHANGED vars
  BY <1>4 DEF vars, TypeOK
<1>5. QED
  BY <1>1, <1>2, <1>3, <1>4 DEF Next

(***************************************************************************)
(* Every reachable state has the type TypeOK states: in particular the     *)
(* cache answers with files or None only, and frames hold real names.      *)
(***************************************************************************)
THEOREM TypeCorrect == Spec => []TypeOK
BY InitTypeOK, NextTypeOK, PTL DEF Spec

-----------------------------------------------------------------------------
(***************************************************************************)
(* The inductive invariant.                                                *)
(***************************************************************************)
LEMMA SettledStays ==
    ASSUME NEW c, NEW d, NEW es, NEW fs,
           \A p \in DOMAIN c : p \in DOMAIN d /\ d[p] = c[p],
           es \subseteq fs,
           NEW f, NEW n, SettledIn(c, es, f, n)
    PROVE  SettledIn(d, fs, f, n)
BY DEF SettledIn

LEMMA NoReports ==
    ASSUME out = << >>
    PROVE  Reports = {} /\ ReportedFiles = {}
BY DEF Reports, ReportedFiles

LEMMA InitIInv == Init => IInv
<1> SUFFICES ASSUME Init PROVE IInv
  OBVIOUS
<1>1. TypeOK
  BY InitTypeOK
<1>2. stack = << >> /\ out = << >> /\ vertices = {} /\ entries = << >> /\ status = "idle"
  BY DEF Init
<1>3. Reports = {} /\ ReportedFiles = {}
  BY <1>2, NoReports
<1>4. QED
  BY <1>1, <1>2, <1>3
     DEF IInv, NoFramesAtRest, FramesOK, CallersWait, NoReentry, NoLostImport,
         ReportedAreVertices, NoSilentVertex, EntriesTaken

(***************************************************************************)
(* A call of analyse, and a failure, leave neither frames nor reports.     *)
(***************************************************************************)
LEMMA ClearedIInv ==
    ASSUME TypeOK', stack' = << >>, out' = << >>,
           \/ status' = "failed"
           \/ vertices' = {} /\ nextEntry' = 1
    PROVE  IInv'
<1>1. Reports' = {} /\ ReportedFiles' = {}
  BY DEF Reports, ReportedFiles
<1>2. FramesOK' /\ CallersWait' /\ NoReentry' /\ NoFramesAtRest'
  BY DEF FramesOK, CallersWait, NoReentry, NoFramesAtRest
<1>3. NoLostImport' /\ ReportedAreVertices'
  BY <1>1 DEF NoLostImport, ReportedAreVertices
<1>4. NoSilentVertex'
  BY DEF NoSilentVertex
<1>5. EntriesTaken'
  BY DEF EntriesTaken, TypeOK
<1>6. QED
  BY <1>1, <1>2, <1>3, <1>4, <1>5 DEF IInv

(***************************************************************************)
(* The loop over the entry files runs with an empty stack.                 *)
(***************************************************************************)
LEMMA EntryStepIInv == IInv /\ EntryStep => IInv'
<1> SUFFICES ASSUME IInv, EntryStep PROVE IInv'
  OBVIOUS
<1>1. TypeOK'
  BY EntryStepTypeOK DEF IInv
<1>2. stack = << >> /\ status = "running"
  BY DEF EntryStep, SkipEntry, EntryFails, CallEntry, Finish, AtEntry
<1>3. CASE EntryFails
  BY <1>1, <1>3, ClearedIInv DEF EntryFails, Fail
<1>4. CASE SkipEntry \/ Finish
  <2>1. /\ stack' = stack /\ out' = out /\ vertices' = vertices
        /\ entries' = entries
        /\ cache' = cache /\ edges' = edges
        /\ status' \in {"running", "done"}
    BY <1>2, <1>4 DEF SkipEntry, Finish
  <2>2. Reports' = Reports /\ ReportedFiles' = ReportedFiles
    BY <2>1 DEF Reports, ReportedFiles
  <2>3. NoFramesAtRest' /\ FramesOK' /\ CallersWait' /\ NoReentry'
    BY <1>2, <2>1 DEF NoFramesAtRest, FramesOK, CallersWait, NoReentry
  <2>4. NoLostImport'
    BY <1>2, <2>1, <2>2 DEF IInv, NoLostImport, Settled
  <2>5. ReportedAreVertices' /\ NoSilentVertex'
    BY <1>2, <2>1, <2>2 DEF IInv, ReportedAreVertices, NoSilentVertex
  <2>6. EntriesTaken'
    <3>1. CASE SkipEntry
      <4>1. IgnoreEnoent
        BY <3>1 DEF SkipEntry
      <4>2. \A f : EntryTaken(f)'
        BY <4>1 DEF EntryTaken
      <4>3. QED
        BY <4>2 DEF EntriesTaken
    <3>2. CASE Finish
      BY <1>2, <2>1, <3>2 DEF Finish, IInv, EntriesTaken, EntryTaken
    <3>3. QED
      BY <1>4, <3>1, <3>2
  <2>7. QED
    BY <1>1, <2>3, <2>4, <2>5, <2>6 DEF IInv
<1>5. CASE CallEntry
  <2>1. /\ stack' = <<Called(Entry)>> /\ out' = out /\ vertices' = vertices
        /\ entries' = entries /\ nextEntry' = nextEntry + 1
        /\ cache' = cache /\ edges' = edges /\ status' = "running"
        /\ nextEntry \in 1..Len(entries)
    BY <1>2, <1>5 DEF CallEntry, AtEntry, IInv, TypeOK
  <2>2. /\ Len(stack') = 1 /\ stack'[1].file = Entry
        /\ stack'[1].next = 0 /\ stack'[1].names = << >>
    BY <2>1 DEF Called
  <2>3. Reports' = Reports /\ ReportedFiles' = ReportedFiles /\ EntryFiles' = EntryFiles
    BY <2>1 DEF Reports, ReportedFiles, EntryFiles
  <2>4. Entry \in EntryFiles
    BY <2>1 DEF Entry, EntryFiles
  <2>5. FramesOK'
    BY <2>1, <2>2, <2>3, <2>4
       DEF FramesOK, FrameOK, FrameFresh, FrameReported, FrameSettled
  <2>6. NoFramesAtRest' /\ CallersWait' /\ NoReentry'
    BY <2>1, <2>2 DEF NoFramesAtRest, CallersWait, NoReentry
  <2>7. NoLostImport'
    <3>1. \A r \in Reports : \A j \in 1..Len(r.deps) : Settled(r.file, r.deps[j])
      BY <1>2 DEF IInv, NoLostImport
    <3>2. QED
      BY <2>1, <2>3, <3>1 DEF NoLostImport, Settled
  <2>8. ReportedAreVertices' /\ NoSilentVertex'
    BY <1>2, <2>1, <2>3 DEF IInv, ReportedAreVertices, NoSilentVertex
  <2>9. EntriesTaken'
    <3> SUFFICES ASSUME NEW i \in 1..Len(entries), i < nextEntry + 1
                 PROVE  EntryTaken(Normal[entries[i]])'
      BY <2>1 DEF EntriesTaken
    <3>1. CASE i = nextEntry
      BY <2>1, <2>2, <3>1 DEF EntryTaken, Entry
    <3>2. CASE i < nextEntry
      BY <1>2, <2>1, <3>2 DEF IInv, EntriesTaken, EntryTaken
    <3>3. QED
      BY <2>1, <3>1, <3>2
  <2>10. QED
    BY <1>1, <2>5, <2>6, <2>7, <2>8, <2>9 DEF IInv
<1>6. QED
  BY <1>3, <1>4, <1>5 DEF EntryStep

(***************************************************************************)
(* Advancing the innermost call past a settled name.                       *)
(***************************************************************************)
LEMMA AdvanceIInv ==
    ASSUME IInv, AtName, TypeOK',
           stack' = NextName, out' = out, vertices' = vertices,
           entries' = entries, nextEntry' = nextEntry, status' = status,
           \A p \in DOMAIN cache : p \in DOMAIN cache' /\ cache'[p] = cache[p],
           edges \subseteq edges',
           SettledIn(cache', edges', Top.file, NameNow)
    PROVE  IInv'
<1> DEFINE n == Len(stack)
<1>1. /\ stack \in Seq(Frame) /\ stack # << >> /\ n \in Nat \ {0}
      /\ Top = stack[n] /\ Top \in Frame /\ status = "running"
      /\ Top.next \in 1..Len(Top.names)
      /\ NameNow = Top.names[Top.next]
  BY TopFrame DEF IInv, TypeOK, AtName, Top, NameNow
<1>2. /\ Len(stack') = n
      /\ stack'[n].file = Top.file /\ stack'[n].names = Top.names
      /\ stack'[n].next = Top.next + 1
      /\ \A k \in 1..(n - 1) : stack'[k] = stack[k]
  BY <1>1, AdvancedFrame, ReplacedTop DEF NextName
<1>3. /\ Top.next \in Nat /\ Top.names \in Seq(Name) /\ Len(Top.names) \in Nat
  BY <1>1, FrameFields
<1>4. /\ Reports' = Reports /\ ReportedFiles' = ReportedFiles /\ EntryFiles' = EntryFiles
  BY DEF Reports, ReportedFiles, EntryFiles
<1>5. \A f, m : SettledIn(cache, edges, f, m) => SettledIn(cache', edges', f, m)
  BY SettledStays
<1> HIDE DEF n
<1>6. FramesOK'
  <2> SUFFICES ASSUME NEW k \in 1..n PROVE FrameOK(k)'
    BY <1>2 DEF FramesOK
  <2>1. FrameOK(k)
    BY DEF IInv, FramesOK, n
  <2>2. CASE k < n
    <3>1. stack'[k] = stack[k]
      BY <1>1, <1>2, <2>2
    <3>2. FrameFresh(k)' /\ FrameReported(k)' /\ (k > 1 => stack'[k].file \in vertices')
      BY <1>4, <2>1, <3>1 DEF FrameOK, FrameFresh, FrameReported
    <3>3. FrameSettled(k)'
      BY <1>5, <2>1, <3>1 DEF FrameOK, FrameSettled, Settled
    <3>4. QED
      BY <3>2, <3>3 DEF FrameOK
  <2>3. CASE k = n
    <3>1. FrameFresh(k)' /\ FrameReported(k)' /\ (k > 1 => stack'[k].file \in vertices')
      <4>1. stack'[k].next # 0 /\ Top.next > 0
        BY <1>1, <1>2, <1>3, <2>3
      <4>2. FrameFresh(k)'
        BY <4>1 DEF FrameFresh
      <4>3. FrameReported(k)'
        BY <1>1, <1>2, <1>4, <2>1, <2>3, <4>1 DEF FrameOK, FrameReported
      <4>4. k > 1 => stack'[k].file \in vertices'
        BY <1>1, <1>2, <2>1, <2>3 DEF FrameOK
      <4>5. QED
        BY <4>2, <4>3, <4>4
    <3>2. \A j \in 1..Len(Top.names) :
             j < Top.next => SettledIn(cache', edges', Top.file, Top.names[j])
      BY <1>1, <1>5, <2>1, <2>3 DEF FrameOK, FrameSettled, Settled
    <3>3. \A j \in 1..Len(Top.names) : j < Top.next + 1 => j < Top.next \/ j = Top.next
      BY <1>3
    <3>4. FrameSettled(k)'
      BY <1>1, <1>2, <2>3, <3>2, <3>3 DEF FrameSettled, Settled
    <3>5. QED
      BY <3>1, <3>4 DEF FrameOK
  <2>4. QED
    BY <1>1, <2>2, <2>3
<1>7. CallersWait'
  <2> SUFFICES ASSUME NEW k \in 1..(n - 1) PROVE Waiting(k)'
    BY <1>2 DEF CallersWait
  <2>1. Waiting(k)
    BY DEF IInv, CallersWait, n
  <2>2. stack'[k] = stack[k] /\ stack'[k + 1].file = stack[k + 1].file
    BY <1>1, <1>2
  <2>3. QED
    BY <2>1, <2>2 DEF Waiting
<1>8. NoReentry'
  <2>1. \A k \in 1..n : stack'[k].file = stack[k].file
    BY <1>1, <1>2
  <2>2. QED
    BY <1>2, <2>1 DEF IInv, NoReentry, n
<1>9. NoLostImport'
  <2> SUFFICES ASSUME NEW r \in Reports, NEW j \in 1..Len(r.deps),
                      ~SettledIn(cache', edges', r.file, r.deps[j])
               PROVE  \E k \in 1..n : /\ stack'[k].file = r.file
                                      /\ stack'[k].names = r.deps
                                      /\ stack'[k].next <= j
    BY <1>2, <1>4 DEF NoLostImport, Settled
  <2>1. PICK k \in 1..n : /\ stack[k].file = r.file
                          /\ stack[k].names = r.deps
                          /\ stack[k].next <= j
    BY <1>5 DEF IInv, NoLostImport, Settled, n
  <2>2. CASE k < n
    BY <1>1, <1>2, <2>1, <2>2
  <2>3. CASE k = n
    BY <1>1, <1>2, <1>3, <2>1, <2>3
  <2>4. QED
    BY <1>1, <2>2, <2>3
<1>10. ReportedAreVertices' /\ NoFramesAtRest'
  BY <1>1, <1>4 DEF IInv, ReportedAreVertices, NoFramesAtRest
<1>11. NoSilentVertex'
  BY <1>1, <1>4 DEF IInv, NoSilentVertex
<1>12. EntriesTaken'
  BY <1>1 DEF IInv, EntriesTaken, EntryTaken, n
<1>13. QED
  BY <1>6, <1>7, <1>8, <1>9, <1>10, <1>11, <1>12 DEF IInv

LEMMA WalkedFileIsVertex ==
    ASSUME IInv, NEW k \in 1..Len(stack), stack[k].names # << >>
    PROVE  stack[k].file \in vertices
<1>1. [file |-> stack[k].file, ok |-> TRUE, deps |-> stack[k].names] \in Reports
  BY DEF IInv, FramesOK, FrameOK, FrameReported
<1>2. stack[k].file \in ReportedFiles
  BY <1>1 DEF ReportedFiles
<1>3. QED
  BY <1>2 DEF IInv, ReportedAreVertices

(***************************************************************************)
(* Calling analyse_file for a new dependency.                              *)
(***************************************************************************)
LEMMA ImportNewIInv ==
    ASSUME IInv, TypeOK', NEW dep \in File, ImportNew(dep)
    PROVE  IInv'
<1> DEFINE n == Len(stack)
<1>1. /\ stack \in Seq(Frame) /\ stack # << >> /\ n \in Nat \ {0}
      /\ Top = stack[n] /\ status = "running"
      /\ Top.next \in 1..Len(Top.names)
      /\ NameNow = Top.names[Top.next]
      /\ NameNow \notin PackageDependencies
  BY TopFrame DEF IInv, TypeOK, ImportNew, AtName, Top, NameNow
<1>2. Top.next \in Nat /\ Top.names # << >> /\ Top.next > 0
  BY <1>1, TopFrame, FrameFields
<1>3. /\ out' = out /\ vertices' = vertices \cup {dep} /\ edges' = edges
      /\ entries' = entries /\ nextEntry' = nextEntry /\ status' = "running"
      /\ dep \notin vertices
  BY <1>1 DEF ImportNew, AddVertex, HasVertex
<1>4. /\ \A p \in DOMAIN cache : p \in DOMAIN cache' /\ cache'[p] = cache[p]
      /\ PathNow \in DOMAIN cache' /\ cache'[PathNow] = dep
  BY DEF ImportNew, Remember, Resolves
<1>5. /\ Len(stack') = n + 1
      /\ \A k \in 1..n : stack'[k] = stack[k]
      /\ stack'[n + 1] = Called(dep)
  BY <1>1 DEF ImportNew
<1>6. /\ Called(dep).file = dep /\ Called(dep).next = 0 /\ Called(dep).names = << >>
  BY DEF Called
<1>7. /\ Reports' = Reports /\ ReportedFiles' = ReportedFiles /\ EntryFiles' = EntryFiles
  BY <1>3 DEF Reports, ReportedFiles, EntryFiles
<1>8. \A f, m : SettledIn(cache, edges, f, m) => SettledIn(cache', edges', f, m)
  BY <1>3, <1>4, SettledStays
<1>9. \A k \in 1..n : stack[k].file \in vertices
  <2> SUFFICES ASSUME NEW k \in 1..n PROVE stack[k].names # << >>
    BY WalkedFileIsVertex
  <2>1. CASE k = n
    BY <1>1, <1>2, <2>1
  <2>2. CASE k < n
    <3>1. k \in 1..(n - 1)
      BY <1>1, <2>2
    <3>2. Waiting(k)
      BY <3>1 DEF IInv, CallersWait
    <3>3. QED
      BY <3>2 DEF Waiting
  <2>3. QED
    BY <1>1, <2>1, <2>2
<1>10. stack' = Append(stack, Called(dep))
  BY DEF ImportNew
<1> HIDE DEF n
<1>11. FramesOK'
  <2> SUFFICES ASSUME NEW k \in 1..(n + 1) PROVE FrameOK(k)'
    BY <1>5 DEF FramesOK
  <2>1. CASE k \in 1..n
    <3>1. FrameOK(k) /\ stack'[k] = stack[k]
      BY <1>5, <2>1 DEF IInv, FramesOK, n
    <3>2. FrameFresh(k)' /\ FrameReported(k)' /\ (k > 1 => stack'[k].file \in vertices')
      BY <1>3, <1>7, <3>1 DEF FrameOK, FrameFresh, FrameReported
    <3>3. FrameSettled(k)'
      BY <1>8, <3>1 DEF FrameOK, FrameSettled, Settled
    <3>4. QED
      BY <3>2, <3>3 DEF FrameOK
  <2>2. CASE k = n + 1
    <3>1. k > 1 /\ stack'[k].file = dep /\ stack'[k].next = 0 /\ stack'[k].names = << >>
      BY <1>1, <1>5, <1>6, <2>2
    <3>2. dep \notin ReportedFiles'
      BY <1>3, <1>7 DEF IInv, ReportedAreVertices
    <3>3. FrameFresh(k)' /\ FrameReported(k)' /\ FrameSettled(k)'
      BY <3>1, <3>2 DEF FrameFresh, FrameReported, FrameSettled
    <3>4. QED
      BY <1>3, <3>1, <3>3 DEF FrameOK
  <2>3. QED
    BY <1>1, <2>1, <2>2
<1>12. CallersWait'
  <2> SUFFICES ASSUME NEW k \in 1..n PROVE Waiting(k)'
    BY <1>1, <1>5 DEF CallersWait
  <2>1. CASE k = n
    <3>1. stack'[k] = Top /\ stack'[k + 1].file = dep
      BY <1>1, <1>5, <1>6, <2>1
    <3>2. QED
      BY <1>1, <1>4, <3>1 DEF Waiting, PathNow
  <2>2. CASE k < n
    <3>1. k \in 1..(n - 1)
      BY <1>1, <2>2
    <3>2. Waiting(k)
      BY <3>1 DEF IInv, CallersWait, n
    <3>3. stack'[k] = stack[k] /\ stack'[k + 1] = stack[k + 1]
      BY <1>1, <1>5, <3>1
    <3>4. QED
      BY <1>4, <3>2, <3>3 DEF Waiting
  <2>3. QED
    BY <1>1, <2>1, <2>2
<1>13. NoReentry'
  <2>1. \A i, j \in 1..n : stack'[i].file = stack'[j].file => i = j
    BY <1>5 DEF IInv, NoReentry, n
  <2>2. \A i \in 1..n : stack'[i].file # stack'[n + 1].file
    BY <1>3, <1>5, <1>6, <1>9
  <2>3. \A i \in 1..(n + 1) : i \in 1..n \/ i = n + 1
    BY <1>1
  <2>4. QED
    BY <1>5, <2>1, <2>2, <2>3 DEF NoReentry
<1>14. NoLostImport'
  <2> SUFFICES ASSUME NEW r \in Reports, NEW j \in 1..Len(r.deps),
                      ~SettledIn(cache', edges', r.file, r.deps[j])
               PROVE  \E k \in 1..(n + 1) : /\ stack'[k].file = r.file
                                            /\ stack'[k].names = r.deps
                                            /\ stack'[k].next <= j
    BY <1>5, <1>7 DEF NoLostImport, Settled
  <2>1. PICK k \in 1..n : /\ stack[k].file = r.file
                          /\ stack[k].names = r.deps
                          /\ stack[k].next <= j
    BY <1>8 DEF IInv, NoLostImport, Settled, n
  <2>2. QED
    BY <1>1, <1>5, <2>1
<1>15. ReportedAreVertices' /\ NoFramesAtRest'
  BY <1>3, <1>7 DEF IInv, ReportedAreVertices, NoFramesAtRest
<1>16. NoSilentVertex'
  <2>1. stack' # << >> /\ Top'.next = 0 /\ Top'.file = dep
    BY <1>1, <1>5, <1>6 DEF Top
  <2>2. \A v \in vertices : v \in ReportedFiles \cup DtsNamed
    BY <1>1, <1>2 DEF IInv, NoSilentVertex
  <2>3. QED
    BY <1>3, <1>7, <2>1, <2>2 DEF NoSilentVertex
<1>17. EntriesTaken'
  <2>1. \A f : EntryTaken(f) => EntryTaken(f)'
    BY <1>1, <1>2, <1>3 DEF EntryTaken, n
  <2>2. \A i \in 1..Len(entries) : i < nextEntry => EntryTaken(Normal[entries[i]])
    BY <1>1 DEF IInv, EntriesTaken
  <2>3. QED
    BY <1>3, <2>1, <2>2 DEF EntriesTaken
<1>18. QED
  BY <1>11, <1>12, <1>13, <1>14, <1>15, <1>16, <1>17 DEF IInv

LEMMA NameStepIInv == IInv /\ NameStep => IInv'
<1> SUFFICES ASSUME IInv, NameStep PROVE IInv'
  OBVIOUS
<1>1. TypeOK'
  BY NameStepTypeOK DEF IInv
<1>2. AtName
  BY DEF NameStep, SkipPackage, ImportFails, ImportUnresolved, ImportKnown, ImportNew
<1>3. CASE SkipPackage
  <2>1. SettledIn(cache', edges', Top.file, NameNow)
    BY <1>3 DEF SkipPackage, SettledIn
  <2>2. QED
    BY <1>1, <1>2, <1>3, <2>1, AdvanceIInv DEF SkipPackage
<1>4. CASE ImportFails
  BY <1>1, <1>4, ClearedIInv DEF ImportFails, Fail
<1>5. CASE ImportUnresolved
  <2>1. /\ \A p \in DOMAIN cache : p \in DOMAIN cache' /\ cache'[p] = cache[p]
        /\ PathNow \in DOMAIN cache' /\ cache'[PathNow] = None
    BY <1>5 DEF ImportUnresolved, Remember, Resolves
  <2>2. SettledIn(cache', edges', Top.file, NameNow)
    BY <2>1 DEF PathNow, SettledIn
  <2>3. QED
    BY <1>1, <1>2, <1>5, <2>1, <2>2, AdvanceIInv DEF ImportUnresolved
<1>6. ASSUME NEW dep \in File, ImportKnown(dep) PROVE IInv'
  <2>1. /\ \A p \in DOMAIN cache : p \in DOMAIN cache' /\ cache'[p] = cache[p]
        /\ PathNow \in DOMAIN cache' /\ cache'[PathNow] = dep
    BY <1>6 DEF ImportKnown, Remember, Resolves
  <2>2. Top.file \in vertices
    <3>1. Len(stack) \in 1..Len(stack) /\ Top.names # << >>
      BY <1>2, TopFrame, FrameFields DEF IInv, TypeOK, AtName
    <3>2. QED
      BY <3>1, WalkedFileIsVertex DEF Top
  <2>3. edges \subseteq edges' /\ (dep = Top.file \/ <<Top.file, dep>> \in edges')
    BY <1>6, <2>2 DEF ImportKnown, AddEdge, HasVertex
  <2>4. SettledIn(cache', edges', Top.file, NameNow)
    BY <2>1, <2>3 DEF PathNow, SettledIn
  <2>5. QED
    BY <1>1, <1>2, <1>6, <2>1, <2>3, <2>4, AdvanceIInv DEF ImportKnown
<1>7. ASSUME NEW dep \in File, ImportNew(dep) PROVE IInv'
  BY <1>1, <1>7, ImportNewIInv
<1>8. QED
  BY <1>3, <1>4, <1>5, <1>6, <1>7 DEF NameStep

(***************************************************************************)
(* The file of the innermost call has been analysed, or skipped, and its   *)
(* frame enters the loop over the names fr.names.                          *)
(***************************************************************************)
LEMMA EnterLoopIInv ==
    ASSUME IInv, AtCall, TypeOK', NEW fr \in Frame,
           fr.file = Top.file, fr.next = 1, stack' = ReplaceTop(fr),
           vertices \subseteq vertices',
           vertices' \subseteq vertices \cup {Top.file},
           Reports \subseteq Reports',
           \A r \in Reports' : r \in Reports \/ (r.file = Top.file /\ r.deps = fr.names),
           Top.file \in ReportedFiles' \cup DtsNamed,
           ReportedFiles' \subseteq vertices',
           fr.names # << >> =>
               [file |-> fr.file, ok |-> TRUE, deps |-> fr.names] \in Reports',
           UNCHANGED <<cache, edges, entries, nextEntry, status>>
    PROVE  IInv'
<1> DEFINE n == Len(stack)
<1>1. /\ stack \in Seq(Frame) /\ stack # << >> /\ n \in Nat \ {0} /\ n \in 1..n
      /\ Top = stack[n] /\ Top.next = 0 /\ status' = "running"
  BY TopFrame DEF IInv, TypeOK, AtCall, Top
<1>2. Top.names = << >>
  BY <1>1 DEF IInv, FramesOK, FrameOK, FrameFresh
<1>3. /\ Len(stack') = n /\ stack'[n] = fr
      /\ \A k \in 1..(n - 1) : stack'[k] = stack[k]
  BY <1>1, ReplacedTop
<1>4. ReportedFiles \subseteq ReportedFiles' /\ EntryFiles' = EntryFiles
  BY DEF ReportedFiles, EntryFiles
<1>5. CallersWait /\ FramesOK /\ NoReentry /\ NoLostImport
  BY DEF IInv
<1> HIDE DEF n
<1>6. \A k \in 1..n : k = n \/ k \in 1..(n - 1)
  BY <1>1
<1>7. FramesOK'
  <2> SUFFICES ASSUME NEW k \in 1..n PROVE FrameOK(k)'
    BY <1>3 DEF FramesOK
  <2>1. FrameOK(k)
    BY <1>5 DEF FramesOK, n
  <2>2. CASE k \in 1..(n - 1)
    <3>1. Waiting(k) /\ stack'[k] = stack[k]
      BY <1>3, <1>5, <2>2 DEF CallersWait, n
    <3>2. stack[k] \in Frame
      BY <1>1 DEF n
    <3>3. stack[k].next # 0
      BY <3>1, <3>2, FrameFields DEF Waiting
    <3>4. FrameFresh(k)' /\ (k > 1 => stack'[k].file \in vertices')
      BY <2>1, <3>1, <3>3 DEF FrameOK, FrameFresh
    <3>5. FrameReported(k)'
      BY <1>4, <2>1, <3>1 DEF FrameOK, FrameReported
    <3>6. FrameSettled(k)'
      BY <2>1, <3>1 DEF FrameOK, FrameSettled, Settled
    <3>7. QED
      BY <3>4, <3>5, <3>6 DEF FrameOK
  <2>3. CASE k = n
    <3>1. stack'[k] = fr
      BY <1>3, <2>3
    <3>2. FrameFresh(k)' /\ FrameSettled(k)'
      BY <3>1 DEF FrameFresh, FrameSettled
    <3>3. FrameReported(k)'
      BY <3>1 DEF FrameReported
    <3>4. k > 1 => stack'[k].file \in vertices'
      BY <1>1, <2>1, <2>3, <3>1 DEF FrameOK
    <3>5. QED
      BY <3>2, <3>3, <3>4 DEF FrameOK
  <2>4. QED
    BY <1>6, <2>2, <2>3
<1>8. \A k \in 1..n : stack'[k].file = stack[k].file
  BY <1>1, <1>3, <1>6
<1>9. CallersWait'
  <2> SUFFICES ASSUME NEW k \in 1..(n - 1) PROVE Waiting(k)'
    BY <1>3 DEF CallersWait
  <2>1. Waiting(k)
    BY <1>5 DEF CallersWait, n
  <2>2. stack'[k] = stack[k] /\ stack'[k + 1].file = stack[k + 1].file
    BY <1>1, <1>3, <1>8
  <2>3. QED
    BY <2>1, <2>2 DEF Waiting
<1>10. NoReentry'
  BY <1>3, <1>5, <1>8 DEF NoReentry, n
<1>11. NoLostImport'
  <2> SUFFICES ASSUME NEW r \in Reports', NEW j \in 1..Len(r.deps),
                      ~SettledIn(cache, edges, r.file, r.deps[j])
               PROVE  \E k \in 1..n : /\ stack'[k].file = r.file
                                      /\ stack'[k].names = r.deps
                                      /\ stack'[k].next <= j
    BY <1>3 DEF NoLostImport, Settled
  <2>1. CASE r \in Reports
    <3>1. PICK k \in 1..n : /\ stack[k].file = r.file
                            /\ stack[k].names = r.deps
                            /\ stack[k].next <= j
      BY <1>5, <2>1 DEF NoLostImport, Settled, n
    <3>2. k # n
      BY <1>1, <1>2, <3>1
    <3>3. stack'[k] = stack[k]
      BY <1>3, <1>6, <3>2
    <3>4. QED
      BY <3>1, <3>3
  <2>2. CASE r \notin Reports
    <3>1. r.file = Top.file /\ r.deps = fr.names
      BY <2>2
    <3>2. n \in 1..n /\ 1 <= j
      BY <1>1 DEF n
    <3>3. QED
      BY <1>3, <3>1, <3>2
  <2>3. QED
    BY <2>1, <2>2
<1>12. ReportedAreVertices' /\ NoFramesAtRest'
  BY <1>1 DEF ReportedAreVertices, NoFramesAtRest
<1>13. NoSilentVertex'
  <2>1. \A v \in vertices : v \in ReportedFiles \cup DtsNamed \/ v = Top.file
    BY <1>1 DEF IInv, NoSilentVertex
  <2>2. QED
    BY <1>4, <2>1 DEF NoSilentVertex
<1>14. EntriesTaken'
  <2>1. \A f : EntryTaken(f) => EntryTaken(f)'
    BY <1>1 DEF EntryTaken, n
  <2>2. \A i \in 1..Len(entries) : i < nextEntry => EntryTaken(Normal[entries[i]])
    BY <1>1 DEF IInv, EntriesTaken
  <2>3. QED
    BY <2>1, <2>2 DEF EntriesTaken
<1>15. QED
  BY <1>7, <1>9, <1>10, <1>11, <1>12, <1>13, <1>14 DEF IInv

LEMMA AppendedReport ==
    ASSUME out \in Seq(Report), NEW r \in Report, out' = Append(out, r)
    PROVE  Reports' = Reports \cup {r}
<1>1. /\ Len(out') = Len(out) + 1 /\ Len(out) \in Nat
      /\ \A i \in 1..Len(out) : out'[i] = out[i]
      /\ out'[Len(out) + 1] = r
  OBVIOUS
<1>2. \A i \in 1..(Len(out) + 1) : i \in 1..Len(out) \/ i = Len(out) + 1
  BY <1>1
<1>3. \A i \in 1..Len(out) : i \in 1..(Len(out) + 1)
  BY <1>1
<1>4. Len(out) + 1 \in 1..(Len(out) + 1)
  BY <1>1
<1>5. QED
  BY <1>1, <1>2, <1>3, <1>4 DEF Reports

LEMMA CallStepIInv == IInv /\ CallStep => IInv'
<1> SUFFICES ASSUME IInv, CallStep PROVE IInv'
  OBVIOUS
<1>1. TypeOK'
  BY CallStepTypeOK DEF IInv
<1>2. AtCall /\ stack \in Seq(Frame) /\ stack # << >> /\ out \in Seq(Report)
  BY DEF IInv, TypeOK, CallStep, SkipDts, ReadFails, ParseFails, AnalyseFile, AtCall
<1>3. Top.file \in File
  BY <1>2, TopFrame, FrameFields
<1>4. /\ Returning(Top.file) \in Frame /\ Returning(Top.file).file = Top.file
      /\ Returning(Top.file).next = 1 /\ Returning(Top.file).names = << >>
  BY <1>3 DEF Returning, Frame
<1>5. ReportedFiles \subseteq vertices
  BY DEF IInv, ReportedAreVertices
<1>6. CASE SkipDts
  <2>1. Reports' = Reports /\ ReportedFiles' = ReportedFiles /\ Top.file \in DtsNamed
    BY <1>6 DEF SkipDts, Reports, ReportedFiles
  <2>2. QED
    BY <1>1, <1>2, <1>4, <1>5, <1>6, <2>1, EnterLoopIInv DEF SkipDts
<1>7. CASE ReadFails
  BY <1>1, <1>7, ClearedIInv DEF ReadFails, Fail
<1>8. CASE ParseFails
  <2> DEFINE r == [file |-> Top.file, ok |-> FALSE, deps |-> << >>]
  <2>1. r \in Report /\ r.file = Top.file /\ r.deps = << >>
    BY <1>3 DEF Report
  <2>2. out' = Append(out, r) /\ vertices' = vertices \cup {Top.file}
    BY <1>8 DEF ParseFails, AddVertex
  <2> HIDE DEF r
  <2>3. Reports' = Reports \cup {r}
    BY <1>2, <2>1, <2>2, AppendedReport
  <2>4. ReportedFiles' = ReportedFiles \cup {Top.file}
    BY <2>1, <2>3 DEF ReportedFiles
  <2>5. QED
    BY <1>1, <1>2, <1>4, <1>5, <1>8, <2>1, <2>2, <2>3, <2>4, EnterLoopIInv
       DEF ParseFails
<1>9. CASE AnalyseFile
  <2> DEFINE r == [file |-> Top.file, ok |-> TRUE, deps |-> disk[Top.file]]
             fr == [file |-> Top.file, names |-> disk[Top.file], next |-> 1]
  <2>1. disk[Top.file] \in Seq(Name)
    BY <1>9, CrawlAssumption DEF AnalyseFile
  <2>2. r \in Report /\ r.file = Top.file /\ r.deps = fr.names
    BY <1>3, <2>1 DEF Report
  <2>3. fr \in Frame /\ fr.file = Top.file /\ fr.next = 1
    BY <1>3, <2>1 DEF Frame
  <2>4. r = [file |-> fr.file, ok |-> TRUE, deps |-> fr.names]
    OBVIOUS
  <2>5. /\ out' = Append(out, r) /\ vertices' = vertices \cup {Top.file}
        /\ stack' = ReplaceTop(fr)
    BY <1>9 DEF AnalyseFile, AddVertex
  <2> HIDE DEF r, fr
  <2>6. Reports' = Reports \cup {r}
    BY <1>2, <2>2, <2>5, AppendedReport
  <2>7. ReportedFiles' = ReportedFiles \cup {Top.file}
    BY <2>2, <2>6 DEF ReportedFiles
  <2>8. UNCHANGED <<cache, edges, entries, nextEntry, status>>
    BY <1>9 DEF AnalyseFile
  <2>9. QED
    BY <1>1, <1>2, <1>5, <2>2, <2>3, <2>4, <2>5, <2>6, <2>7, <2>8, EnterLoopIInv
<1>10. QED
  BY <1>6, <1>7, <1>8, <1>9 DEF CallStep

(***************************************************************************)
(* A callee returns: its caller gets the edge it has been waiting for.     *)
(***************************************************************************)
LEMMA ReturnToCallerIInv ==
    ASSUME IInv, TypeOK', ReturnToCaller
    PROVE  IInv'
<1> DEFINE n == Len(stack)
           m == Len(stack) - 1
<1>1. /\ stack \in Seq(Frame) /\ stack # << >> /\ n \in Nat /\ n > 1
      /\ Top = stack[n] /\ Top \in Frame /\ status' = "running" /\ status = "running"
      /\ Top.next > Len(Top.names)
  BY TopFrame DEF IInv, TypeOK, ReturnToCaller, AtReturn, Top
<1>2. /\ m \in Nat \ {0} /\ m = n - 1 /\ m \in 1..(n - 1) /\ n \in 1..n /\ m \in 1..n
  BY <1>1
<1>3. /\ Caller = stack[m] /\ Caller \in Frame
      /\ Caller.next \in Nat /\ Caller.names \in Seq(Name)
  BY <1>1, PoppedStack, FrameFields DEF Caller
<1>4. /\ Len(stack') = m
      /\ stack'[m] = [Caller EXCEPT !.next = @ + 1]
      /\ \A k \in 1..(m - 1) : stack'[k] = stack[k]
  BY <1>1, PoppedStack DEF ReturnToCaller
<1>5. /\ stack'[m].file = Caller.file /\ stack'[m].names = Caller.names
      /\ stack'[m].next = Caller.next + 1
  BY <1>3, <1>4, AdvancedFrame
<1>6. /\ out' = out /\ vertices' = vertices /\ entries' = entries
      /\ nextEntry' = nextEntry /\ cache' = cache
      /\ edges' = AddEdge(vertices, edges, Caller.file, Top.file)
  BY DEF ReturnToCaller
<1>7. /\ Reports' = Reports /\ ReportedFiles' = ReportedFiles /\ EntryFiles' = EntryFiles
  BY <1>6 DEF Reports, ReportedFiles, EntryFiles
<1>8. CallersWait /\ FramesOK /\ NoReentry /\ NoLostImport
  BY DEF IInv
<1>9. Waiting(m) /\ FrameOK(m) /\ FrameOK(n)
  BY <1>2, <1>8 DEF CallersWait, FramesOK
<1>10. /\ Caller.next \in 1..Len(Caller.names)
       /\ Join[<<Caller.file, Caller.names[Caller.next]>>] \in DOMAIN cache
       /\ cache[Join[<<Caller.file, Caller.names[Caller.next]>>]] = Top.file
  <2>1. stack[m + 1] = Top
    BY <1>1, <1>2
  <2>2. QED
    BY <1>3, <1>9, <2>1 DEF Waiting
<1>11. Top.file \in vertices /\ Caller.file \in vertices
  <2>1. Top.file \in vertices
    BY <1>1, <1>9 DEF FrameOK
  <2>2. Caller.names # << >>
    BY <1>10
  <2>3. QED
    BY <1>2, <1>3, <2>1, <2>2, WalkedFileIsVertex
<1>12. /\ edges \subseteq edges'
       /\ Top.file = Caller.file \/ <<Caller.file, Top.file>> \in edges'
  BY <1>6, <1>11 DEF AddEdge
<1>13. \A f, x : SettledIn(cache, edges, f, x) => SettledIn(cache', edges', f, x)
  BY <1>6, <1>12, SettledStays
<1>14. SettledIn(cache', edges', Caller.file, Caller.names[Caller.next])
  BY <1>6, <1>10, <1>12 DEF SettledIn
<1> HIDE DEF n, m
<1>15. \A k \in 1..m : k = m \/ (k \in 1..(m - 1) /\ k \in 1..(n - 1))
  BY <1>2
<1>16. FramesOK'
  <2> SUFFICES ASSUME NEW k \in 1..m PROVE FrameOK(k)'
    BY <1>4 DEF FramesOK
  <2>1. FrameOK(k)
    BY <1>1, <1>2, <1>8 DEF FramesOK, n
  <2>2. CASE k \in 1..(m - 1)
    <3>1. stack'[k] = stack[k]
      BY <1>4, <2>2
    <3>2. FrameFresh(k)' /\ FrameReported(k)' /\ (k > 1 => stack'[k].file \in vertices')
      BY <1>6, <1>7, <2>1, <3>1 DEF FrameOK, FrameFresh, FrameReported
    <3>3. FrameSettled(k)'
      BY <1>13, <2>1, <3>1 DEF FrameOK, FrameSettled, Settled
    <3>4. QED
      BY <3>2, <3>3 DEF FrameOK
  <2>3. CASE k = m
    <3>1. stack'[k].next # 0 /\ Caller.next > 0
      BY <1>3, <1>5, <1>10, <2>3
    <3>2. FrameFresh(k)'
      BY <3>1 DEF FrameFresh
    <3>3. FrameReported(k)'
      BY <1>3, <1>5, <1>7, <2>1, <2>3, <3>1 DEF FrameOK, FrameReported
    <3>4. k > 1 => stack'[k].file \in vertices'
      BY <1>5, <1>6, <1>11, <2>3
    <3>5. \A j \in 1..Len(Caller.names) :
             j < Caller.next => SettledIn(cache', edges', Caller.file, Caller.names[j])
      BY <1>3, <1>13, <2>1, <2>3 DEF FrameOK, FrameSettled, Settled
    <3>6. \A j \in 1..Len(Caller.names) :
             j < Caller.next + 1 => j < Caller.next \/ j = Caller.next
      BY <1>3
    <3>7. FrameSettled(k)'
      BY <1>5, <1>14, <2>3, <3>5, <3>6 DEF FrameSettled, Settled
    <3>8. QED
      BY <3>2, <3>3, <3>4, <3>7 DEF FrameOK
  <2>4. QED
    BY <1>15, <2>2, <2>3
<1>17. CallersWait'
  <2> SUFFICES ASSUME NEW k \in 1..(m - 1) PROVE Waiting(k)'
    BY <1>4 DEF CallersWait
  <2>1. k \in 1..(n - 1)
    BY <1>2
  <2>2. Waiting(k)
    BY <1>8, <2>1 DEF CallersWait, n
  <2>3. stack'[k] = stack[k]
    BY <1>4
  <2>4. stack'[k + 1].file = stack[k + 1].file
    <3>1. CASE k + 1 = m
      BY <1>3, <1>5, <3>1
    <3>2. CASE k + 1 # m
      <4>1. k + 1 \in 1..(m - 1)
        BY <1>2, <3>2
      <4>2. QED
        BY <1>4, <4>1
    <3>3. QED
      BY <3>1, <3>2
  <2>5. QED
    BY <1>6, <2>2, <2>3, <2>4 DEF Waiting
<1>18. NoReentry'
  <2>1. \A k \in 1..m : stack'[k].file = stack[k].file
    BY <1>3, <1>4, <1>5, <1>15
  <2>2. \A k \in 1..m : k \in 1..n
    BY <1>1, <1>2
  <2>3. QED
    BY <1>4, <1>8, <2>1, <2>2 DEF NoReentry, n
<1>19. NoLostImport'
  <2> SUFFICES ASSUME NEW r \in Reports, NEW j \in 1..Len(r.deps),
                      ~SettledIn(cache', edges', r.file, r.deps[j])
               PROVE  \E k \in 1..m : /\ stack'[k].file = r.file
                                      /\ stack'[k].names = r.deps
                                      /\ stack'[k].next <= j
    BY <1>4, <1>7 DEF NoLostImport, Settled
  <2>1. PICK k \in 1..n : /\ stack[k].file = r.file
                          /\ stack[k].names = r.deps
                          /\ stack[k].next <= j
    BY <1>8, <1>13 DEF NoLostImport, Settled, n
  <2>2. k # n
    <3>1. Top.next \in Nat /\ Len(Top.names) \in Nat
      BY <1>1, FrameFields
    <3>2. ASSUME k = n PROVE FALSE
      <4>1. Top.next <= j /\ j \in 1..Len(Top.names)
        BY <1>1, <2>1, <3>2
      <4>2. QED
        BY <1>1, <3>1, <4>1
    <3>3. QED
      BY <3>2
  <2>3. k \in 1..m /\ m \in 1..m
    BY <1>2, <2>2
  <2>4. CASE k = m
    <3>1. j # Caller.next
      BY <1>3, <1>14, <2>1, <2>4
    <3>2. stack'[m].next <= j
      BY <1>3, <1>5, <2>1, <2>4, <3>1
    <3>3. QED
      BY <1>3, <1>5, <2>1, <2>3, <2>4, <3>2
  <2>5. CASE k \in 1..(m - 1)
    BY <1>4, <2>1, <2>3, <2>5
  <2>6. QED
    BY <1>15, <2>3, <2>4, <2>5
<1>20. ReportedAreVertices' /\ NoFramesAtRest'
  BY <1>1, <1>6, <1>7 DEF IInv, ReportedAreVertices, NoFramesAtRest
<1>21. NoSilentVertex'
  <2>1. Top.next # 0
    BY <1>1, FrameFields
  <2>2. QED
    BY <1>1, <1>6, <1>7, <2>1 DEF IInv, NoSilentVertex
<1>22. EntriesTaken'
  <2>1. Len(stack) # 1
    BY <1>1 DEF n
  <2>2. QED
    BY <1>1, <1>6, <2>1 DEF IInv, EntriesTaken, EntryTaken
<1>23. QED
  BY <1>16, <1>17, <1>18, <1>19, <1>20, <1>21, <1>22 DEF IInv

LEMMA ReturnStepIInv == IInv /\ ReturnStep => IInv'
<1> SUFFICES ASSUME IInv, ReturnStep PROVE IInv'
  OBVIOUS
<1>1. TypeOK'
  BY ReturnStepTypeOK DEF IInv
<1>2. CASE ReturnToCaller
  BY <1>1, <1>2, ReturnToCallerIInv
<1>3. CASE ReturnToEntryLoop
  <2>1. /\ stack \in Seq(Frame) /\ Len(stack) = 1 /\ stack # << >>
        /\ Top = stack[1] /\ Top \in Frame /\ Top.next > Len(Top.names)
        /\ status = "running"
    BY <1>3, TopFrame DEF IInv, TypeOK, ReturnToEntryLoop, AtReturn, Top
  <2>2. Top.next \in Nat /\ Len(Top.names) \in Nat /\ Top.next > 0
    BY <2>1, FrameFields
  <2>3. /\ stack' = << >> /\ out' = out /\ vertices' = vertices
        /\ entries' = entries /\ nextEntry' = nextEntry /\ status' = status
        /\ cache' = cache /\ edges' = edges
    BY <1>3 DEF ReturnToEntryLoop
  <2>4. Reports' = Reports /\ ReportedFiles' = ReportedFiles
    BY <2>3 DEF Reports, ReportedFiles
  <2>5. FrameOK(1)
    BY <2>1 DEF IInv, FramesOK
  <2>6. NoFramesAtRest' /\ FramesOK' /\ CallersWait' /\ NoReentry'
    BY <2>3 DEF NoFramesAtRest, FramesOK, CallersWait, NoReentry
  <2>7. NoLostImport'
    <3>1. ASSUME NEW r \in Reports, NEW j \in 1..Len(r.deps),
                 stack[1].names = r.deps, stack[1].next <= j
          PROVE  FALSE
      BY <2>1, <2>2, <3>1
    <3>2. \A k \in 1..Len(stack) : k = 1
      BY <2>1
    <3>3. \A r \in Reports : \A j \in 1..Len(r.deps) : Settled(r.file, r.deps[j])
      BY <3>1, <3>2 DEF IInv, NoLostImport
    <3>4. QED
      BY <2>3, <2>4, <3>3 DEF NoLostImport, Settled
  <2>8. ReportedAreVertices' /\ NoSilentVertex'
    BY <2>1, <2>2, <2>3, <2>4 DEF IInv, ReportedAreVertices, NoSilentVertex
  <2>9. EntriesTaken'
    BY <2>1, <2>2, <2>3 DEF IInv, EntriesTaken, EntryTaken
  <2>10. QED
    BY <1>1, <2>6, <2>7, <2>8, <2>9 DEF IInv
<1>4. QED
  BY <1>2, <1>3 DEF ReturnStep

(***************************************************************************)
(* The values of the variables IInv speaks of, Reports included, do not    *)
(* change when only a file does, or nothing.                               *)
(***************************************************************************)
LEMMA QuietIInv ==
    ASSUME IInv, TypeOK',
           UNCHANGED <<vertices, edges, cache, out, entries, nextEntry, stack, status>>
    PROVE  IInv'
<1>1. Reports' = Reports /\ ReportedFiles' = ReportedFiles /\ EntryFiles' = EntryFiles
  BY DEF Reports, ReportedFiles, EntryFiles
<1>2. \A f, n : Settled(f, n)' <=> Settled(f, n)
  BY DEF Settled, SettledIn
<1>3. \A k : FrameOK(k)' <=> FrameOK(k)
  BY <1>1, <1>2 DEF FrameOK, FrameFresh, FrameReported, FrameSettled
<1>4. \A k : Waiting(k)' <=> Waiting(k)
  BY DEF Waiting
<1>5. FramesOK' /\ CallersWait' /\ NoReentry' /\ NoFramesAtRest'
  BY <1>3, <1>4 DEF IInv, FramesOK, CallersWait, NoReentry, NoFramesAtRest
<1>6. NoLostImport'
  BY <1>1, <1>2 DEF IInv, NoLostImport
<1>7. ReportedAreVertices' /\ NoSilentVertex'
  BY <1>1 DEF IInv, ReportedAreVertices, NoSilentVertex, Top
<1>8. EntriesTaken'
  BY DEF IInv, EntriesTaken, EntryTaken
<1>9. QED
  BY <1>5, <1>6, <1>7, <1>8 DEF IInv

LEMMA NextIInv == IInv /\ [Next]_vars => IInv'
<1> SUFFICES ASSUME IInv, [Next]_vars PROVE IInv'
  OBVIOUS
<1>1. TypeOK'
  BY NextTypeOK DEF IInv
<1>2. ASSUME NEW es \in EntryLists, Analyse(es) PROVE IInv'
  BY <1>1, <1>2, ClearedIInv DEF Analyse
<1>3. CASE Walk
  BY <1>3, EntryStepIInv, CallStepIInv, NameStepIInv, ReturnStepIInv DEF Walk
<1>4. ASSUME NEW f \in Volatile, FileChanges(f) PROVE IInv'
  BY <1>1, <1>4, QuietIInv DEF FileChanges
<1>5. CASE UNCHANGED vars
  BY <1>1, <1>5, QuietIInv DEF vars
<1>6. QED
  BY <1>2, <1>3, <1>4, <1>5 DEF Next

-----------------------------------------------------------------------------
(***************************************************************************)
(* The safety properties of the walk.                                      *)
(***************************************************************************)
LEMMA Invariance == Spec => []IInv
<1>1. Init => IInv
  BY InitIInv
<1>2. IInv /\ [Next]_vars => IInv'
  BY NextIInv
<1>3. QED
  BY <1>1, <1>2, PTL DEF Spec

(***************************************************************************)
(* Whatever the imports, the recursion of analyse_file never enters a file *)
(* that it has not left yet.                                               *)
(***************************************************************************)
THEOREM RecursionIsBounded == Spec => []NoReentry
<1>1. IInv => NoReentry
  BY DEF IInv
<1>2. QED
  BY <1>1, Invariance, PTL

(***************************************************************************)
(* Every dependency of every report is settled or lies ahead of a call     *)
(* that is still running for it, also while files change under the walk.   *)
(***************************************************************************)
THEOREM NoImportIsForgotten == Spec => []NoLostImport
<1>1. IInv => NoLostImport
  BY DEF IInv
<1>2. QED
  BY <1>1, Invariance, PTL

(***************************************************************************)
(* A file is in the graph only if it has a report, if its path contains    *)
(* "d.ts", or if it is about to be analysed.                               *)
(***************************************************************************)
THEOREM VerticesAreReported == Spec => []NoSilentVertex
<1>1. IInv => NoSilentVertex
  BY DEF IInv
<1>2. QED
  BY <1>1, Invariance, PTL

LEMMA EntriesTakenAtEnd ==
    IInv /\ EndReached /\ status = "done" /\ ~IgnoreEnoent
      => EntryFiles \subseteq vertices \cup DtsNamed
<1> SUFFICES ASSUME IInv, status = "done", ~IgnoreEnoent, nextEntry > Len(entries),
                    NEW i \in 1..Len(entries)
             PROVE  Normal[entries[i]] \in vertices \cup DtsNamed
  BY DEF EntryFiles, EndReached
<1>1. i < nextEntry
  BY DEF IInv, TypeOK
<1>2. EntryTaken(Normal[entries[i]])
  BY <1>1 DEF IInv, EntriesTaken
<1>3. stack = << >>
  BY DEF IInv, NoFramesAtRest
<1>4. Len(stack) # 1
  BY <1>3
<1>5. QED
  BY <1>2, <1>4 DEF EntryTaken

LEMMA EndStaysReached == EndReached /\ [Next]_vars => EndReached'
<1> SUFFICES ASSUME EndReached, [Next]_vars PROVE EndReached'
  OBVIOUS
<1>1. ASSUME NEW es \in EntryLists, Analyse(es) PROVE EndReached'
  BY <1>1 DEF Analyse, EndReached
<1>2. CASE EntryStep
  BY <1>2 DEF EntryStep, SkipEntry, EntryFails, CallEntry, Finish, Fail, AtEntry,
              AllEntriesTaken, EndReached
<1>3. CASE CallStep \/ ReturnStep
  BY <1>3 DEF CallStep, ReturnStep, SkipDts, ReadFails, ParseFails, AnalyseFile, Fail,
              AtCall, AtReturn, ReturnToCaller, ReturnToEntryLoop, EndReached
<1>4. CASE NameStep
  BY <1>4 DEF NameStep, SkipPackage, ImportFails, ImportUnresolved, ImportKnown,
              ImportNew, Fail, AtName, EndReached
<1>5. CASE (\E f \in Volatile : FileChanges(f)) \/ UNCHANGED vars
  BY <1>5 DEF FileChanges, vars, EndReached
<1>6. QED
  BY <1>1, <1>2, <1>3, <1>4, <1>5 DEF Next, Walk

(***************************************************************************)
(* Without ignore_enoent, a completed call has every entry file in the     *)
(* graph or has skipped it for the "d.ts" in its path.                     *)
(***************************************************************************)
THEOREM EntriesAreCovered == Spec => []EntriesCovered
<1>1. Init => EndReached
  BY DEF Init, EndReached
<1>2. IInv /\ EndReached => EntriesCovered
  BY EntriesTakenAtEnd DEF EntriesCovered
<1>3. QED
  BY <1>1, <1>2, EndStaysReached, Invariance, PTL DEF Spec

LEMMA AnswersStay ==
    ASSUME TypeOK, status = "running", Next
    PROVE  \A p \in DOMAIN cache : p \in DOMAIN cache' /\ cache'[p] = cache[p]
<1>1. ASSUME NEW es \in EntryLists, Analyse(es) PROVE FALSE
  BY <1>1 DEF Analyse
<1>2. CASE EntryStep \/ CallStep \/ ReturnStep
  <2>1. cache' = cache
    BY <1>2 DEF EntryStep, CallStep, ReturnStep, SkipEntry, EntryFails, CallEntry, Finish,
                SkipDts, ReadFails, ParseFails, AnalyseFile, ReturnToCaller,
                ReturnToEntryLoop, Fail
  <2>2. QED
    BY <2>1
<1>3. CASE NameStep
  BY <1>3 DEF NameStep, SkipPackage, ImportFails, Fail, ImportUnresolved, ImportKnown,
              ImportNew, Remember, Resolves
<1>4. ASSUME NEW f \in Volatile, FileChanges(f) PROVE cache' = cache
  BY <1>4 DEF FileChanges
<1>5. QED
  BY <1>1, <1>2, <1>3, <1>4 DEF Next, Walk

(***************************************************************************)
(* Within a call, the answer to what a path stands for never changes once  *)
(* it was given, although the files may.                                   *)
(***************************************************************************)
THEOREM ResolutionIsStable == Spec => StableResolution
<1>1. TypeOK /\ [Next]_vars =>
        [status = "running" =>
           \A p \in DOMAIN cache : p \in DOMAIN cache' /\ cache'[p] = cache[p]]_vars
  BY AnswersStay
<1>2. QED
  BY <1>1, TypeCorrect, PTL DEF Spec, StableResolution

-----------------------------------------------------------------------------
(***************************************************************************)
(* The recursive walk implements the promise of ImportGraph: each of its   *)
(* steps visits a file, follows an import, starts or ends a call, or does  *)
(* nothing the promise speaks of.                                          *)
(***************************************************************************)
CacheIsFunction == cache = [p \in DOMAIN cache |-> cache[p]]

LEMMA InitCache == Init => CacheIsFunction
BY DEF Init, CacheIsFunction

LEMMA NextCache == CacheIsFunction /\ [Next]_vars => CacheIsFunction'
<1> SUFFICES ASSUME CacheIsFunction, [Next]_vars PROVE CacheIsFunction'
  OBVIOUS
<1>1. ASSUME NEW es \in EntryLists, Analyse(es) PROVE CacheIsFunction'
  BY <1>1 DEF Analyse, CacheIsFunction
<1>2. CASE EntryStep
  BY <1>2 DEF EntryStep, SkipEntry, EntryFails, CallEntry, Finish, Fail, CacheIsFunction
<1>3. CASE CallStep \/ ReturnStep
  BY <1>3 DEF CallStep, ReturnStep, SkipDts, ReadFails, ParseFails, AnalyseFile, Fail,
              ReturnToCaller, ReturnToEntryLoop, CacheIsFunction
<1>4. CASE NameStep
  BY <1>4 DEF NameStep, SkipPackage, ImportFails, Fail, ImportUnresolved, ImportKnown,
              ImportNew, Remember, CacheIsFunction
<1>5. CASE (\E f \in Volatile : FileChanges(f)) \/ UNCHANGED vars
  BY <1>5 DEF FileChanges, vars, CacheIsFunction
<1>6. QED
  BY <1>1, <1>2, <1>3, <1>4, <1>5 DEF Next, Walk

-----------------------------------------------------------------------------
LEMMA StartsAsPromised == Init => Promise!Init
<1> SUFFICES ASSUME Init PROVE Promise!Init
  OBVIOUS
<1>1. Reports = {} /\ EntryFiles = {}
  BY NoReports DEF Init, EntryFiles
<1>2. QED
  BY <1>1 DEF Init, Promise!Init

(***************************************************************************)
(* A step that changes none of the promise's variables.                    *)
(***************************************************************************)
LEMMA Stutters ==
    ASSUME UNCHANGED <<entries, vertices, edges, cache, out, status>>
    PROVE  UNCHANGED Promise!vars
<1>1. Reports' = Reports /\ EntryFiles' = EntryFiles
  BY DEF Reports, EntryFiles
<1>2. QED
  BY <1>1 DEF Promise!vars

LEMMA AnalyseStarts ==
    ASSUME NEW es \in EntryLists, Analyse(es), TypeOK'
    PROVE  Promise!Start
<1>1. Reports' = {}
  BY DEF Analyse, Reports
<1>2. EntryFiles' \in SUBSET File
  <2>1. \A i \in 1..Len(entries') : Normal[entries'[i]] \in File
    BY CrawlAssumption DEF TypeOK
  <2>2. QED
    BY <2>1 DEF EntryFiles
<1>3. QED
  BY <1>1, <1>2 DEF Analyse, Promise!Start

(***************************************************************************)
(* A failure drops the reports.  The file it failed on may have just been  *)
(* added to the graph.                                                     *)
(***************************************************************************)
LEMMA FailAborts ==
    ASSUME status = "running", Fail,
           vertices' = vertices \/ \E f \in EntryFiles : vertices' = vertices \cup {f}
    PROVE  Promise!Abort
<1>1. Reports' = {} /\ EntryFiles' = EntryFiles
  BY DEF Fail, Reports, EntryFiles
<1>2. QED
  BY <1>1 DEF Fail, Promise!Abort

LEMMA CompletesClosed ==
    ASSUME IInv, Finish
    PROVE  Promise!Complete
<1>1. stack = << >> /\ status = "running" /\ nextEntry > Len(entries)
  BY DEF Finish, AllEntriesTaken
<1>2. \A r \in Reports : \A n \in Promise!Imports(r) : Promise!Settled(r.file, n)
  <2> SUFFICES ASSUME NEW r \in Reports, NEW n \in Promise!Imports(r)
               PROVE  Promise!Settled(r.file, n)
    OBVIOUS
  <2>1. r.deps \in Seq(Name)
    <3>1. r \in Report
      BY DEF IInv, TypeOK, Reports
    <3>2. QED
      BY <3>1 DEF Report
  <2>2. PICK j \in 1..Len(r.deps) : n = r.deps[j]
    BY <2>1 DEF Promise!Imports
  <2>3. Settled(r.file, n)
    <3>1. ~\E k \in 1..Len(stack) : TRUE
      BY <1>1
    <3>2. Settled(r.file, r.deps[j])
      BY <2>2, <3>1 DEF IInv, NoLostImport
    <3>3. QED
      BY <2>2, <3>2
  <2>4. QED
    BY <2>3 DEF Settled, SettledIn, Promise!Settled, Promise!Imports
<1>3. vertices \subseteq Promise!Reported \cup DtsNamed
  BY <1>1 DEF IInv, NoSilentVertex, ReportedFiles, Promise!Reported
<1>4. IgnoreEnoent \/ EntryFiles \subseteq vertices \cup DtsNamed
  <2> SUFFICES ASSUME ~IgnoreEnoent, NEW i \in 1..Len(entries)
               PROVE  Normal[entries[i]] \in vertices \cup DtsNamed
    BY DEF EntryFiles
  <2>1. i < nextEntry /\ Len(stack) # 1
    BY <1>1 DEF IInv, TypeOK
  <2>2. EntryTaken(Normal[entries[i]])
    BY <1>1, <2>1 DEF IInv, EntriesTaken
  <2>3. QED
    BY <2>1, <2>2 DEF EntryTaken
<1>5. Reports' = Reports /\ EntryFiles' = EntryFiles
  BY DEF Finish, Reports, EntryFiles
<1>6. QED
  BY <1>1, <1>2, <1>3, <1>4, <1>5 DEF Finish, Promise!Complete, Promise!Closed

-----------------------------------------------------------------------------
(***************************************************************************)
(* The innermost call may analyse its file: it is an entry file, or it was *)
(* added to the graph for this call and has no report yet.                 *)
(***************************************************************************)
LEMMA CalledIsWanted ==
    ASSUME IInv, AtCall
    PROVE  /\ Top.file \in File
           /\ Top.file \in (vertices \ ReportedFiles) \cup EntryFiles
<1>1. Len(stack) \in 1..Len(stack) /\ Top = stack[Len(stack)] /\ Top.next = 0
  BY TopFrame DEF IInv, TypeOK, AtCall, Top
<1>2. FrameOK(Len(stack)) /\ Top \in Frame
  BY <1>1, TopFrame DEF IInv, FramesOK, TypeOK, AtCall
<1>3. Len(stack) = 1 \/ Len(stack) > 1
  BY <1>1
<1>4. QED
  BY <1>1, <1>2, <1>3, FrameFields DEF FrameOK, FrameFresh

LEMMA CallVisits ==
    ASSUME IInv, ParseFails \/ AnalyseFile
    PROVE  Promise!Visit(Top.file)
<1>1. AtCall /\ Top.file \notin DtsNamed /\ status = "running" /\ out \in Seq(Report)
  BY DEF IInv, TypeOK, ParseFails, AnalyseFile, AtCall
<1>2. Top.file \in (vertices \ Promise!Reported) \cup EntryFiles /\ Top.file \in File
  BY <1>1, CalledIsWanted DEF ReportedFiles, Promise!Reported
<1>3. /\ vertices' = vertices \cup {Top.file}
      /\ UNCHANGED <<entries, edges, cache, status>>
  BY DEF ParseFails, AnalyseFile, AddVertex
<1>4. EntryFiles' = EntryFiles
  BY <1>3 DEF EntryFiles
<1>5. CASE ParseFails
  <2> DEFINE r == [file |-> Top.file, ok |-> FALSE, deps |-> << >>]
  <2>1. r \in Report /\ out' = Append(out, r)
    BY <1>2, <1>5 DEF ParseFails, Report
  <2>2. Reports' = Reports \cup {r}
    BY <1>1, <2>1, AppendedReport
  <2>3. QED
    BY <1>1, <1>2, <1>3, <1>4, <2>2 DEF Promise!Visit
<1>6. CASE AnalyseFile
  <2> DEFINE r == [file |-> Top.file, ok |-> TRUE, deps |-> disk[Top.file]]
  <2>1. disk[Top.file] \in Contents /\ disk[Top.file] \in Seq(Name)
    BY <1>6, CrawlAssumption DEF AnalyseFile
  <2>2. r \in Report /\ out' = Append(out, r)
    BY <1>2, <1>6, <2>1 DEF AnalyseFile, Report
  <2>3. Reports' = Reports \cup {r}
    BY <1>1, <2>2, AppendedReport
  <2>4. QED
    BY <1>1, <1>2, <1>3, <1>4, <2>1, <2>3 DEF Promise!Visit
<1>7. QED
  BY <1>5, <1>6

(***************************************************************************)
(* The name a frame stands at is an import of a report.                    *)
(***************************************************************************)
LEMMA FrameFollows ==
    ASSUME IInv, NEW k \in 1..Len(stack),
           stack[k].next \in 1..Len(stack[k].names),
           stack[k].names[stack[k].next] \notin PackageDependencies
    PROVE  \E r \in Reports : /\ r.file = stack[k].file
                              /\ stack[k].names[stack[k].next] \in Promise!Imports(r)
<1> DEFINE fr == stack[k]
           r == [file |-> fr.file, ok |-> TRUE, deps |-> fr.names]
<1>1. fr \in Frame
  BY DEF IInv, TypeOK
<1>2. fr.names \in Seq(Name) /\ fr.names # << >> /\ fr.next \in DOMAIN fr.names
  BY <1>1, FrameFields
<1>3. r \in Reports
  BY <1>2 DEF IInv, FramesOK, FrameOK, FrameReported
<1>4. r.file = fr.file /\ fr.names[fr.next] \in Promise!Imports(r)
  BY <1>2 DEF Promise!Imports
<1>5. QED
  BY <1>3, <1>4

LEMMA NameFollows ==
    ASSUME IInv, AtName, NameNow \notin PackageDependencies
    PROVE  \E r \in Reports : r.file = Top.file /\ NameNow \in Promise!Imports(r)
<1>1. Len(stack) \in 1..Len(stack) /\ Top = stack[Len(stack)]
  BY TopFrame DEF IInv, TypeOK, AtName, Top
<1>2. QED
  BY <1>1, FrameFollows DEF AtName, NameNow

LEMMA UnresolvedFollows ==
    ASSUME IInv, ImportUnresolved
    PROVE  \E r \in Reports : \E n \in Promise!Imports(r) : Promise!Follow(r, n, None)
<1>1. PICK r \in Reports : r.file = Top.file /\ NameNow \in Promise!Imports(r)
  BY NameFollows DEF ImportUnresolved
<1>2. Reports' = Reports /\ EntryFiles' = EntryFiles
  BY DEF ImportUnresolved, Reports, EntryFiles
<1>3. PathNow \in DOMAIN cache => None = cache[PathNow]
  BY DEF ImportUnresolved, Resolves
<1>4. Promise!Follow(r, NameNow, None)
  BY <1>1, <1>2, <1>3 DEF ImportUnresolved, AtName, Remember, PathNow, Promise!Follow
<1>5. QED
  BY <1>1, <1>4

LEMMA KnownFollows ==
    ASSUME IInv, NEW dep \in File, ImportKnown(dep)
    PROVE  \E r \in Reports : \E n \in Promise!Imports(r) : Promise!Follow(r, n, dep)
<1>1. PICK r \in Reports : r.file = Top.file /\ NameNow \in Promise!Imports(r)
  BY NameFollows DEF ImportKnown
<1>2. Reports' = Reports /\ EntryFiles' = EntryFiles
  BY DEF ImportKnown, Reports, EntryFiles
<1>3. PathNow \in DOMAIN cache => dep = cache[PathNow]
  BY DEF ImportKnown, Resolves
<1>4. dep \in vertices /\ dep # None
  BY CrawlAssumption DEF ImportKnown, HasVertex
<1>5. \/ edges' = edges
      \/ dep \in vertices \ {Top.file} /\ edges' = edges \cup {<<Top.file, dep>>}
  BY <1>4 DEF ImportKnown, AddEdge
<1>6. vertices' = vertices \cup ({dep} \ {None})
  BY <1>4 DEF ImportKnown
<1>7. Promise!Follow(r, NameNow, dep)
  BY <1>1, <1>2, <1>3, <1>5, <1>6
     DEF ImportKnown, AtName, Remember, PathNow, Promise!Follow
<1>8. QED
  BY <1>1, <1>7

LEMMA NewFollows ==
    ASSUME IInv, NEW dep \in File, ImportNew(dep)
    PROVE  \E r \in Reports : \E n \in Promise!Imports(r) : Promise!Follow(r, n, dep)
<1>1. PICK r \in Reports : r.file = Top.file /\ NameNow \in Promise!Imports(r)
  BY NameFollows DEF ImportNew
<1>2. Reports' = Reports /\ EntryFiles' = EntryFiles
  BY DEF ImportNew, Reports, EntryFiles
<1>3. PathNow \in DOMAIN cache => dep = cache[PathNow]
  BY DEF ImportNew, Resolves
<1>4. vertices' = vertices \cup ({dep} \ {None}) /\ edges' = edges
  BY CrawlAssumption DEF ImportNew, AddVertex
<1>5. Promise!Follow(r, NameNow, dep)
  BY <1>1, <1>2, <1>3, <1>4
     DEF ImportNew, AtName, Remember, PathNow, Promise!Follow
<1>6. QED
  BY <1>1, <1>5

(***************************************************************************)
(* The edge added when a callee returns: the answer is the one the caller  *)
(* got when it made the call.                                              *)
(***************************************************************************)
LEMMA ReturnFollows ==
    ASSUME IInv, CacheIsFunction, ReturnToCaller
    PROVE  \E r \in Reports : \E n \in Promise!Imports(r) : \E t \in File :
              Promise!Follow(r, n, t)
<1> DEFINE m == Len(stack) - 1
           n == Caller.names[Caller.next]
           p == Join[<<Caller.file, n>>]
<1>1. /\ stack \in Seq(Frame) /\ stack # << >> /\ m \in 1..(Len(stack) - 1)
      /\ m \in 1..Len(stack) /\ Caller = stack[m] /\ Top = stack[m + 1]
      /\ Len(stack) \in 1..Len(stack) /\ status = "running"
  BY TopFrame DEF IInv, TypeOK, ReturnToCaller, AtReturn, Top, Caller
<1>2. /\ Caller.next \in 1..Len(Caller.names) /\ n \notin PackageDependencies
      /\ p \in DOMAIN cache /\ cache[p] = Top.file
  <2>1. Waiting(m)
    BY <1>1 DEF IInv, CallersWait
  <2>2. QED
    BY <1>1, <2>1 DEF Waiting
<1>3. PICK r \in Reports : r.file = Caller.file /\ n \in Promise!Imports(r)
  BY <1>1, <1>2, FrameFollows
<1>4. Top.file \in File /\ Top.file # None
  BY <1>1, TopFrame, FrameFields, CrawlAssumption
<1>5. Top.file \in vertices
  BY <1>1 DEF IInv, FramesOK, FrameOK
<1>6. Reports' = Reports /\ EntryFiles' = EntryFiles
  BY DEF ReturnToCaller, Reports, EntryFiles
<1> HIDE DEF n, m
<1>7. cache' = [q \in DOMAIN cache \cup {p} |-> IF q = p THEN Top.file ELSE cache[q]]
  BY <1>2 DEF CacheIsFunction, ReturnToCaller
<1>8. \/ edges' = edges
      \/ /\ Top.file \in vertices \ {Caller.file}
         /\ edges' = edges \cup {<<Caller.file, Top.file>>}
  BY <1>5 DEF ReturnToCaller, AddEdge
<1>9. vertices' = vertices \cup ({Top.file} \ {None})
  BY <1>4, <1>5 DEF ReturnToCaller
<1>10. Promise!Follow(r, n, Top.file)
  <2>1. Join[<<r.file, n>>] = p /\ (p \in DOMAIN cache => Top.file = cache[p])
    BY <1>2, <1>3
  <2>2. UNCHANGED <<EntryFiles, Reports, status>>
    BY <1>6 DEF ReturnToCaller
  <2> HIDE DEF p
  <2>3. QED
    BY <1>1, <1>3, <1>7, <1>8, <1>9, <2>1, <2>2 DEF Promise!Follow
<1>11. QED
  BY <1>3, <1>4, <1>10

-----------------------------------------------------------------------------
LEMMA StepKeepsPromise ==
    ASSUME IInv, IInv', CacheIsFunction, [Next]_vars
    PROVE  [Promise!Next]_(Promise!vars)
<1>1. ASSUME NEW es \in EntryLists, Analyse(es) PROVE Promise!Next
  BY <1>1, AnalyseStarts DEF IInv, Promise!Next
<1>2. CASE EntryStep
  <2>1. CASE SkipEntry \/ CallEntry
    BY <2>1, Stutters DEF SkipEntry, CallEntry
  <2>2. CASE EntryFails
    BY <2>2, FailAborts DEF EntryFails, AtEntry, Promise!Next
  <2>3. CASE Finish
    BY <2>3, CompletesClosed DEF Promise!Next
  <2>4. QED
    BY <1>2, <2>1, <2>2, <2>3 DEF EntryStep
<1>3. CASE CallStep
  <2>1. CASE SkipDts
    BY <2>1, Stutters DEF SkipDts
  <2>2. CASE ReadFails
    <3>1. AtCall /\ status = "running" /\ Fail /\ vertices' = vertices \cup {Top.file}
      BY <2>2 DEF ReadFails, AtCall, AddVertex
    <3>2. vertices' = vertices \/ \E f \in EntryFiles : vertices' = vertices \cup {f}
      BY <3>1, CalledIsWanted
    <3>3. QED
      BY <3>1, <3>2, FailAborts DEF Promise!Next
  <2>3. CASE ParseFails \/ AnalyseFile
    <3>1. AtCall
      BY <2>3 DEF ParseFails, AnalyseFile
    <3>2. QED
      BY <2>3, <3>1, CalledIsWanted, CallVisits DEF Promise!Next
  <2>4. QED
    BY <1>3, <2>1, <2>2, <2>3 DEF CallStep
<1>4. CASE NameStep
  <2>1. CASE SkipPackage
    BY <2>1, Stutters DEF SkipPackage
  <2>2. CASE ImportFails
    BY <2>2, FailAborts DEF ImportFails, AtName, Promise!Next
  <2>3. CASE ImportUnresolved
    BY <2>3, UnresolvedFollows DEF Promise!Next
  <2>4. ASSUME NEW dep \in File, ImportKnown(dep) \/ ImportNew(dep) PROVE Promise!Next
    BY <2>4, KnownFollows, NewFollows DEF Promise!Next
  <2>5. QED
    BY <1>4, <2>1, <2>2, <2>3, <2>4 DEF NameStep
<1>5. CASE ReturnStep
  <2>1. CASE ReturnToCaller
    BY <2>1, ReturnFollows DEF Promise!Next
  <2>2. CASE ReturnToEntryLoop
    BY <2>2, Stutters DEF ReturnToEntryLoop
  <2>3. QED
    BY <1>5, <2>1, <2>2 DEF ReturnStep
<1>6. CASE (\E f \in Volatile : FileChanges(f)) \/ UNCHANGED vars
  BY <1>6, Stutters DEF FileChanges, vars
<1>7. QED
  BY <1>1, <1>2, <1>3, <1>4, <1>5, <1>6 DEF Next, Walk

(***************************************************************************)
(* The walk with its recursion, its cache and its late edges does what     *)
(* ImportGraph promises: a completed call has a closed graph, every file   *)
(* of which was visited and every import of which was followed.            *)
(***************************************************************************)
THEOREM WalkKeepsPromise == Spec => KeepsPromise
<1>1. IInv /\ IInv' /\ CacheIsFunction /\ [Next]_vars => [Promise!Next]_(Promise!vars)
  BY StepKeepsPromise
<1>2. QED
  BY <1>1, Invariance, InitCache, NextCache, StartsAsPromised, PTL
     DEF Spec, KeepsPromise, Promise!Spec

(***************************************************************************)
(* The statistics.  Every file counted as an import has an edge to it, or  *)
(* imports itself, or its importer still waits for the call to return.     *)
(***************************************************************************)
HasImporter(f) == \E g \in File : <<g, f>> \in edges
LooksAtItself(f) ==
    \E r \in Reports : r.file = f /\ \E j \in 1..Len(r.deps) :
        /\ r.deps[j] \notin PackageDependencies
        /\ Join[<<f, r.deps[j]>>] \in DOMAIN cache
        /\ cache[Join[<<f, r.deps[j]>>]] = f
CalledFor(f) == \E k \in 2..Len(stack) : stack[k].file = f

ProcessedAreReported == status \in {"running", "done"} => processed = Len(out)
AnswersAreCounted == \A p \in DOMAIN cache : cache[p] \in File => cache[p] \in uniqueImports
TargetsAreCounted == \A g, f \in File : <<g, f>> \in edges => f \in uniqueImports
CalleesAreCounted == \A k \in 2..Len(stack) : stack[k].file \in uniqueImports
CountedAreImported ==
    status # "failed" =>
        \A f \in uniqueImports : HasImporter(f) \/ LooksAtItself(f) \/ CalledFor(f)
DetectedAreCounted == status = "done" => detected = Cardinality(uniqueImports)

CountInv ==
    /\ ProcessedAreReported
    /\ AnswersAreCounted
    /\ TargetsAreCounted
    /\ CalleesAreCounted
    /\ CountedAreImported
    /\ DetectedAreCounted

(***************************************************************************)
(* The number of reports.  A report is owed to an entry taken or to the    *)
(* one time its file was added to the graph; a call that has not begun     *)
(* (only the innermost one can be such) has used its claim already.        *)
(***************************************************************************)
TakenOf(f) == {i \in 1..Len(entries) : i < nextEntry /\ Normal[entries[i]] = f}
Pending(f) == IF stack # << >> /\ Top.next = 0 /\ Top.file = f THEN 1 ELSE 0
Known(f) == IF f \in vertices THEN 1 ELSE 0
ReportsOwed(f) ==
    Cardinality(ReportsOf(f)) + Pending(f) <= Cardinality(TakenOf(f)) + Known(f)
ReportInv == \A f \in File : ReportsOwed(f)

(***************************************************************************)
(* Without changes of the file system: what the cache answers, what the    *)
(* reports say and what the graph holds is true of the disk, and every     *)
(* entry taken is accounted for.                                           *)
(***************************************************************************)
FirstAbsent(p) == FirstSeen(p) = {}
TrueAnswer(p, g) == IF g = None THEN FirstAbsent(p) ELSE StandsFor(p, g)
TrueReport(r) ==
    /\ r.file \notin DtsNamed
    /\ IF r.ok THEN disk[r.file] \in Contents /\ r.deps = disk[r.file]
               ELSE disk[r.file] = Unparsable
TrueEdge(g, f) ==
    g \in vertices /\ f \in vertices /\ g # f /\ f \in ImportedBy({g})

AnswersAreTrue == \A p \in DOMAIN cache : TrueAnswer(p, cache[p])
ReportsAreTrue == \A r \in Reports : TrueReport(r)
FramesAreExpected == \A k \in 1..Len(stack) : stack[k].file \in StartFiles \cup Imported
VerticesAreExpected == status \in {"running", "done"} => vertices \subseteq Expected
EdgesAreImports ==
    status \in {"running", "done"} =>
        \A g, f \in File : <<g, f>> \in edges => TrueEdge(g, f)
EntryAnswered(f) ==
    /\ ~(IgnoreEnoent /\ disk[f] = StatError)
    /\ \/ f \notin StartFiles
       \/ f \in vertices \cup DtsNamed
       \/ Len(stack) = 1 /\ stack[1].next = 0 /\ stack[1].file = f
EntriesAnswered ==
    status \in {"running", "done"} =>
        \A i \in 1..Len(entries) : i < nextEntry => EntryAnswered(Normal[entries[i]])
FailureHasCause == status = "failed" => Obstacle

TrueToDisk ==
    /\ AnswersAreTrue
    /\ ReportsAreTrue
    /\ FramesAreExpected
    /\ VerticesAreExpected
    /\ EdgesAreImports
    /\ EntriesAnswered
    /\ FailureHasCause

StaticInv == Volatile = {} => TrueToDisk

-----------------------------------------------------------------------------
(***************************************************************************)
(* The statistics are preserved.                                           *)
(***************************************************************************)
LEMMA StaysAnImporter ==
    ASSUME Reports \subseteq Reports',
           \A p \in DOMAIN cache : p \in DOMAIN cache' /\ cache'[p] = cache[p],
           edges \subseteq edges', NEW f
    PROVE  /\ HasImporter(f) => HasImporter(f)'
           /\ LooksAtItself(f) => LooksAtItself(f)'
<1>1. HasImporter(f) => HasImporter(f)'
  BY DEF HasImporter
<1>2. ASSUME LooksAtItself(f) PROVE LooksAtItself(f)'
  <2>1. PICK r \in Reports : r.file = f /\ \E j \in 1..Len(r.deps) :
            /\ r.deps[j] \notin PackageDependencies
            /\ Join[<<f, r.deps[j]>>] \in DOMAIN cache
            /\ cache[Join[<<f, r.deps[j]>>]] = f
    BY <1>2 DEF LooksAtItself
  <2>2. r \in Reports'
    OBVIOUS
  <2>3. QED
    BY <2>1, <2>2 DEF LooksAtItself
<1>3. QED
  BY <1>1, <1>2

LEMMA CountsKept ==
    ASSUME CountInv, status # "failed",
           Reports \subseteq Reports',
           \A p \in DOMAIN cache : p \in DOMAIN cache' /\ cache'[p] = cache[p],
           edges \subseteq edges',
           ProcessedAreReported', AnswersAreCounted', TargetsAreCounted',
           CalleesAreCounted', DetectedAreCounted',
           \A f \in uniqueImports' :
               f \notin uniqueImports \/ CalledFor(f)
                 => HasImporter(f)' \/ LooksAtItself(f)' \/ CalledFor(f)'
    PROVE  CountInv'
<1>1. CountedAreImported'
  <2> SUFFICES ASSUME NEW f \in uniqueImports', f \in uniqueImports, ~CalledFor(f)
               PROVE  HasImporter(f)' \/ LooksAtItself(f)'
    BY DEF CountedAreImported
  <2>1. HasImporter(f) \/ LooksAtItself(f)
    BY DEF CountInv, CountedAreImported
  <2>2. QED
    BY <2>1, StaysAnImporter
<1>2. QED
  BY <1>1 DEF CountInv

LEMMA ClearedCounts ==
    ASSUME stack' = << >>,
           \/ /\ cache' = << >> /\ edges' = {} /\ uniqueImports' = {}
              /\ processed' = 0 /\ out' = << >> /\ status' = "running"
           \/ /\ CountInv /\ status' = "failed"
              /\ UNCHANGED <<cache, edges, uniqueImports>>
    PROVE  CountInv'
<1>1. ProcessedAreReported' /\ DetectedAreCounted'
  BY DEF ProcessedAreReported, DetectedAreCounted
<1>2. AnswersAreCounted' /\ TargetsAreCounted' /\ CountedAreImported'
  BY DEF CountInv, AnswersAreCounted, TargetsAreCounted, CountedAreImported
<1>3. CalleesAreCounted'
  BY DEF CalleesAreCounted
<1>4. QED
  BY <1>1, <1>2, <1>3 DEF CountInv

(***************************************************************************)
(* A step that neither resolves an import nor returns to a caller.         *)
(***************************************************************************)
LEMMA QuietCounts ==
    ASSUME CountInv, status # "failed", Reports \subseteq Reports',
           UNCHANGED <<cache, edges, uniqueImports>>,
           ProcessedAreReported', DetectedAreCounted',
           \/ Len(stack) < 2 /\ Len(stack') < 2
           \/ /\ Len(stack') = Len(stack)
              /\ \A k \in 1..Len(stack) : stack'[k].file = stack[k].file,
           Len(stack) \in Nat, Len(stack') \in Nat
    PROVE  CountInv'
<1>1. AnswersAreCounted' /\ TargetsAreCounted'
  BY DEF CountInv, AnswersAreCounted, TargetsAreCounted
<1>2. /\ \A k \in 2..Len(stack') : k \in 2..Len(stack) /\ stack'[k].file = stack[k].file
      /\ \A k \in 2..Len(stack) : k \in 2..Len(stack') /\ stack'[k].file = stack[k].file
  OBVIOUS
<1>3. CalleesAreCounted'
  BY <1>2 DEF CountInv, CalleesAreCounted
<1>4. \A f : CalledFor(f) => CalledFor(f)'
  BY <1>2 DEF CalledFor
<1>5. QED
  BY <1>1, <1>3, <1>4, CountsKept

LEMMA EntryStepCounts == IInv /\ IInv' /\ CountInv /\ EntryStep => CountInv'
<1> SUFFICES ASSUME IInv, IInv', CountInv, EntryStep PROVE CountInv'
  OBVIOUS
<1>1. stack = << >> /\ status = "running"
  BY DEF EntryStep, SkipEntry, EntryFails, CallEntry, Finish, AtEntry
<1>2. CASE EntryFails
  BY <1>2, ClearedCounts DEF EntryFails, Fail
<1>3. CASE SkipEntry \/ CallEntry \/ Finish
  <2>1. /\ UNCHANGED <<cache, edges, uniqueImports, processed, out>>
        /\ status' \in {"running", "done"}
    BY <1>1, <1>3 DEF SkipEntry, CallEntry, Finish
  <2>2. Reports' = Reports
    BY <2>1 DEF Reports
  <2>3. ProcessedAreReported'
    BY <1>1, <2>1 DEF CountInv, ProcessedAreReported
  <2>4. DetectedAreCounted'
    BY <1>1, <1>3, <2>1
       DEF SkipEntry, CallEntry, Finish, CountImports, DetectedAreCounted
  <2>5. Len(stack) = 0 /\ Len(stack') \in {0, 1}
    BY <1>1, <1>3 DEF SkipEntry, CallEntry, Finish
  <2>6. /\ Len(stack) \in Nat /\ Len(stack') \in Nat
        /\ Len(stack) < 2 /\ Len(stack') < 2
    BY <2>5
  <2>7. Reports \subseteq Reports' /\ status # "failed"
    BY <1>1, <2>2
  <2>8. QED
    BY <2>1, <2>3, <2>4, <2>6, <2>7, QuietCounts
<1>4. QED
  BY <1>2, <1>3 DEF EntryStep

LEMMA SameFilesAfterReplace ==
    ASSUME stack \in Seq(Frame), stack # << >>, NEW fr \in Frame, fr.file = Top.file,
           stack' = ReplaceTop(fr)
    PROVE  /\ Len(stack) \in Nat /\ Len(stack') \in Nat
           /\ Len(stack') = Len(stack)
           /\ \A k \in 1..Len(stack) : stack'[k].file = stack[k].file
<1>1. /\ Len(stack) \in Nat \ {0} /\ Len(stack') = Len(stack)
      /\ stack'[Len(stack)] = fr
      /\ \A k \in 1..(Len(stack) - 1) : stack'[k] = stack[k]
  BY TopFrame, ReplacedTop
<1>2. \A k \in 1..Len(stack) : k = Len(stack) \/ k \in 1..(Len(stack) - 1)
  BY <1>1
<1>3. QED
  BY <1>1, <1>2 DEF Top

LEMMA CallStepCounts == IInv /\ CountInv /\ CallStep => CountInv'
<1> SUFFICES ASSUME IInv, CountInv, CallStep PROVE CountInv'
  OBVIOUS
<1>1. /\ stack \in Seq(Frame) /\ stack # << >> /\ out \in Seq(Report)
      /\ status = "running" /\ disk \in [File -> DiskState]
  BY DEF IInv, TypeOK, CallStep, SkipDts, ReadFails, ParseFails, AnalyseFile, AtCall
<1>2. Top.file \in File
  BY <1>1, TopFrame, FrameFields
<1>3. processed = Len(out)
  BY <1>1 DEF CountInv, ProcessedAreReported
<1>4. CASE ReadFails
  BY <1>4, ClearedCounts DEF ReadFails, Fail
<1>5. CASE SkipDts \/ ParseFails \/ AnalyseFile
  <2>1. /\ UNCHANGED <<cache, edges, uniqueImports, status>>
    BY <1>5 DEF SkipDts, ParseFails, AnalyseFile
  <2>2. DetectedAreCounted'
    BY <1>1, <2>1 DEF DetectedAreCounted
  <2>3. PICK fr \in Frame : fr.file = Top.file /\ stack' = ReplaceTop(fr)
    <3>1. CASE SkipDts \/ ParseFails
      <4>1. Returning(Top.file) \in Frame /\ Returning(Top.file).file = Top.file
        BY <1>2 DEF Returning, Frame
      <4>2. QED
        BY <3>1, <4>1 DEF SkipDts, ParseFails
    <3>2. CASE AnalyseFile
      <4> DEFINE fr == [file |-> Top.file, names |-> disk[Top.file], next |-> 1]
      <4>1. disk[Top.file] \in Seq(Name)
        BY <3>2, CrawlAssumption DEF AnalyseFile
      <4>2. fr \in Frame /\ fr.file = Top.file
        BY <1>2, <4>1 DEF Frame
      <4>3. stack' = ReplaceTop(fr)
        BY <3>2 DEF AnalyseFile
      <4>4. QED
        BY <4>2, <4>3
    <3>3. QED
      BY <1>5, <3>1, <3>2
  <2>4. Reports \subseteq Reports' /\ ProcessedAreReported'
    <3>1. CASE SkipDts
      BY <1>3, <3>1 DEF SkipDts, Reports, ProcessedAreReported
    <3>2. ASSUME NEW r \in Report, out' = Append(out, r), processed' = processed + 1
          PROVE  Reports \subseteq Reports' /\ ProcessedAreReported'
      <4>1. Reports' = Reports \cup {r}
        BY <1>1, <3>2, AppendedReport
      <4>2. Len(out') = Len(out) + 1
        BY <1>1, <3>2
      <4>3. QED
        BY <1>3, <3>2, <4>1, <4>2 DEF ProcessedAreReported
    <3>3. CASE ParseFails
      <4>1. [file |-> Top.file, ok |-> FALSE, deps |-> << >>] \in Report
        BY <1>2 DEF Report
      <4>2. QED
        BY <3>2, <3>3, <4>1 DEF ParseFails
    <3>4. CASE AnalyseFile
      <4>1. disk[Top.file] \in Seq(Name)
        BY <3>4, CrawlAssumption DEF AnalyseFile
      <4>2. [file |-> Top.file, ok |-> TRUE, deps |-> disk[Top.file]] \in Report
        BY <1>2, <4>1 DEF Report
      <4>3. QED
        BY <3>2, <3>4, <4>2 DEF AnalyseFile
    <3>5. QED
      BY <1>5, <3>1, <3>3, <3>4
  <2>5. /\ Len(stack) \in Nat /\ Len(stack') \in Nat
        /\ Len(stack') = Len(stack)
        /\ \A k \in 1..Len(stack) : stack'[k].file = stack[k].file
    BY <1>1, <2>3, SameFilesAfterReplace
  <2>6. status # "failed"
    BY <1>1
  <2>7. QED
    BY <2>1, <2>2, <2>4, <2>5, <2>6, QuietCounts
<1>6. QED
  BY <1>4, <1>5 DEF CallStep

LEMMA SameFilesAfterNext ==
    ASSUME stack \in Seq(Frame), stack # << >>, stack' = NextName
    PROVE  /\ Len(stack) \in Nat /\ Len(stack') \in Nat
           /\ Len(stack') = Len(stack)
           /\ \A k \in 1..Len(stack) : stack'[k].file = stack[k].file
<1>1. [Top EXCEPT !.next = @ + 1] \in Frame /\ [Top EXCEPT !.next = @ + 1].file = Top.file
  BY TopFrame, AdvancedFrame
<1>2. QED
  BY <1>1, SameFilesAfterReplace DEF NextName

(***************************************************************************)
(* The import at hand is an import of the file of the innermost call.      *)
(***************************************************************************)
LEMMA AtNameFacts ==
    ASSUME IInv, AtName
    PROVE  /\ stack \in Seq(Frame) /\ stack # << >> /\ Len(stack) \in Nat \ {0}
           /\ Top = stack[Len(stack)]
           /\ Top.file \in File /\ Top.file \in vertices
           /\ Top.next \in 1..Len(Top.names) /\ Top.names \in Seq(Name)
           /\ NameNow = Top.names[Top.next]
           /\ [file |-> Top.file, ok |-> TRUE, deps |-> Top.names] \in Reports
           /\ status = "running"
<1>1. /\ stack \in Seq(Frame) /\ stack # << >> /\ Len(stack) \in Nat \ {0}
      /\ Top = stack[Len(stack)] /\ Top \in Frame
      /\ Top.next \in 1..Len(Top.names) /\ NameNow = Top.names[Top.next]
      /\ status = "running"
  BY TopFrame DEF IInv, TypeOK, AtName, Top, NameNow
<1>2. /\ Top.file \in File /\ Top.names \in Seq(Name)
  BY <1>1, FrameFields
<1>3. Len(stack) \in 1..Len(stack) /\ Top.names # << >>
  BY <1>1, <1>2
<1>4. Top.file \in vertices
  BY <1>1, <1>3, WalkedFileIsVertex
<1>5. FrameReported(Len(stack))
  BY <1>3 DEF IInv, FramesOK, FrameOK
<1>6. QED
  BY <1>1, <1>2, <1>3, <1>4, <1>5 DEF FrameReported

LEMMA NameStepCounts == IInv /\ CountInv /\ NameStep => CountInv'
<1> SUFFICES ASSUME IInv, CountInv, NameStep PROVE CountInv'
  OBVIOUS
<1>1. AtName
  BY DEF NameStep, SkipPackage, ImportFails, ImportUnresolved, ImportKnown, ImportNew
<1>2. /\ stack \in Seq(Frame) /\ stack # << >> /\ Len(stack) \in Nat \ {0}
      /\ status = "running" /\ status # "failed"
  BY <1>1, AtNameFacts
<1>3. CASE ImportFails
  BY <1>3, ClearedCounts DEF ImportFails, Fail
<1>4. CASE ~ImportFails
  <2>1. /\ UNCHANGED <<processed, out, status>> /\ Reports' = Reports
    BY <1>4 DEF NameStep, SkipPackage, ImportUnresolved, ImportKnown, ImportNew, Reports
  <2>2. ProcessedAreReported' /\ DetectedAreCounted' /\ Reports \subseteq Reports'
    BY <1>2, <2>1 DEF CountInv, ProcessedAreReported, DetectedAreCounted
  <2>3. CASE SkipPackage
    <3>1. UNCHANGED <<cache, edges, uniqueImports>> /\ stack' = NextName
      BY <2>3 DEF SkipPackage
    <3>2. /\ Len(stack) \in Nat /\ Len(stack') \in Nat
          /\ Len(stack') = Len(stack)
          /\ \A k \in 1..Len(stack) : stack'[k].file = stack[k].file
      BY <1>2, <3>1, SameFilesAfterNext
    <3>3. QED
      BY <1>2, <2>2, <3>1, <3>2, QuietCounts
  <2>4. CASE ImportUnresolved
    <3>1. UNCHANGED <<edges, uniqueImports>> /\ stack' = NextName
      BY <2>4 DEF ImportUnresolved
    <3>2. /\ \A p \in DOMAIN cache : p \in DOMAIN cache' /\ cache'[p] = cache[p]
          /\ \A p \in DOMAIN cache' : cache'[p] = None \/ (p \in DOMAIN cache /\ cache'[p] = cache[p])
      BY <2>4 DEF ImportUnresolved, Remember, Resolves
    <3>3. AnswersAreCounted' /\ TargetsAreCounted'
      BY <3>1, <3>2, CrawlAssumption DEF CountInv, AnswersAreCounted, TargetsAreCounted
    <3>4. /\ Len(stack) \in Nat /\ Len(stack') = Len(stack)
          /\ \A k \in 1..Len(stack) : stack'[k].file = stack[k].file
      BY <1>2, <3>1, SameFilesAfterNext
    <3>5. \A k \in 2..Len(stack) : stack'[k].file = stack[k].file
      BY <3>4
    <3>6. CalleesAreCounted' /\ \A f : CalledFor(f) => CalledFor(f)'
      BY <3>1, <3>4, <3>5 DEF CountInv, CalleesAreCounted, CalledFor
    <3>7. QED
      BY <1>2, <2>2, <3>1, <3>2, <3>3, <3>6, CountsKept
  <2>5. ASSUME NEW dep \in File, ImportKnown(dep) PROVE CountInv'
    <3>1. /\ uniqueImports' = uniqueImports \cup {dep} /\ stack' = NextName
          /\ NameNow \notin PackageDependencies /\ dep \in vertices
          /\ edges' = AddEdge(vertices, edges, Top.file, dep)
      BY <2>5 DEF ImportKnown, HasVertex
    <3>2. /\ \A p \in DOMAIN cache : p \in DOMAIN cache' /\ cache'[p] = cache[p]
          /\ \A p \in DOMAIN cache' : cache'[p] = dep \/ (p \in DOMAIN cache /\ cache'[p] = cache[p])
          /\ PathNow \in DOMAIN cache' /\ cache'[PathNow] = dep
      BY <2>5 DEF ImportKnown, Remember, Resolves
    <3>3. Top.file \in vertices /\ Top.file \in File
      BY <1>1, AtNameFacts
    <3>4. /\ edges \subseteq edges' /\ edges' \subseteq edges \cup {<<Top.file, dep>>}
          /\ dep = Top.file \/ <<Top.file, dep>> \in edges'
      BY <3>1, <3>3 DEF AddEdge
    <3>5. AnswersAreCounted' /\ TargetsAreCounted'
      BY <3>1, <3>2, <3>4 DEF CountInv, AnswersAreCounted, TargetsAreCounted
    <3>6. /\ Len(stack) \in Nat /\ Len(stack') = Len(stack)
          /\ \A k \in 1..Len(stack) : stack'[k].file = stack[k].file
      BY <1>2, <3>1, SameFilesAfterNext
    <3>7. \A k \in 2..Len(stack) : stack'[k].file = stack[k].file
      BY <3>6
    <3>8. CalleesAreCounted' /\ \A f : CalledFor(f) => CalledFor(f)'
      BY <3>1, <3>6, <3>7 DEF CountInv, CalleesAreCounted, CalledFor
    <3>9. HasImporter(dep)' \/ LooksAtItself(dep)'
      <4>1. CASE dep = Top.file
        <5> DEFINE r == [file |-> Top.file, ok |-> TRUE, deps |-> Top.names]
        <5>1. r \in Reports' /\ r.file = dep /\ r.deps = Top.names
          BY <1>1, <2>2, <4>1, AtNameFacts
        <5>2. /\ Top.next \in 1..Len(Top.names)
              /\ Top.names[Top.next] \notin PackageDependencies
              /\ Join[<<dep, Top.names[Top.next]>>] = PathNow
          BY <1>1, <3>1, <4>1, AtNameFacts DEF NameNow, PathNow
        <5> HIDE DEF r
        <5>3. QED
          BY <3>2, <5>1, <5>2 DEF LooksAtItself
      <4>2. CASE <<Top.file, dep>> \in edges'
        BY <3>3, <4>2 DEF HasImporter
      <4>3. QED
        BY <3>4, <4>1, <4>2
    <3>10. QED
      BY <1>2, <2>2, <3>1, <3>2, <3>4, <3>5, <3>8, <3>9, CountsKept
  <2>6. ASSUME NEW dep \in File, ImportNew(dep) PROVE CountInv'
    <3>1. /\ uniqueImports' = uniqueImports \cup {dep} /\ edges' = edges
          /\ stack' = Append(stack, Called(dep))
      BY <2>6 DEF ImportNew
    <3>2. /\ \A p \in DOMAIN cache : p \in DOMAIN cache' /\ cache'[p] = cache[p]
          /\ \A p \in DOMAIN cache' : cache'[p] = dep \/ (p \in DOMAIN cache /\ cache'[p] = cache[p])
      BY <2>6 DEF ImportNew, Remember, Resolves
    <3>3. AnswersAreCounted' /\ TargetsAreCounted'
      BY <3>1, <3>2 DEF CountInv, AnswersAreCounted, TargetsAreCounted
    <3>4. /\ Len(stack') = Len(stack) + 1
          /\ \A k \in 1..Len(stack) : stack'[k] = stack[k]
          /\ stack'[Len(stack) + 1].file = dep
      BY <1>2, <3>1 DEF Called
    <3>5. /\ \A k \in 2..Len(stack) : k \in 2..(Len(stack) + 1) /\ stack'[k].file = stack[k].file
          /\ \A k \in 2..(Len(stack) + 1) : k \in 2..Len(stack) \/ k = Len(stack) + 1
          /\ Len(stack) + 1 \in 2..(Len(stack) + 1)
      BY <1>2, <3>4
    <3>6. CalleesAreCounted'
      BY <3>1, <3>4, <3>5 DEF CountInv, CalleesAreCounted
    <3>7. (\A f : CalledFor(f) => CalledFor(f)') /\ CalledFor(dep)'
      BY <3>4, <3>5 DEF CalledFor
    <3>8. QED
      BY <1>2, <2>2, <3>1, <3>2, <3>3, <3>6, <3>7, CountsKept
  <2>7. QED
    BY <1>4, <2>3, <2>4, <2>5, <2>6 DEF NameStep
<1>5. QED
  BY <1>3, <1>4

(***************************************************************************)
(* What a caller that gets control back knows of its callee.               *)
(***************************************************************************)
LEMMA ReturnFacts ==
    ASSUME IInv, ReturnToCaller
    PROVE  /\ stack \in Seq(Frame) /\ Len(stack) \in Nat /\ Len(stack) > 1
           /\ Len(stack') = Len(stack) - 1
           /\ \A k \in 1..(Len(stack) - 1) : stack'[k].file = stack[k].file
           /\ Top = stack[Len(stack)] /\ Caller = stack[Len(stack) - 1]
           /\ Top.file \in File /\ Caller.file \in File
           /\ Top.file \in vertices /\ Caller.file \in vertices
           /\ Top.file # Caller.file
           /\ Waiting(Len(stack) - 1)
           /\ stack'[Len(stack) - 1].next # 0
           /\ status = "running" /\ status' = "running"
<1> DEFINE n == Len(stack)
<1>1. /\ stack \in Seq(Frame) /\ stack # << >> /\ n \in Nat /\ n > 1
      /\ Top = stack[n] /\ Top \in Frame /\ status' = "running" /\ status = "running"
      /\ stack' = PopToCaller
  BY TopFrame DEF IInv, TypeOK, ReturnToCaller, AtReturn, Top
<1>2. /\ Caller = stack[n - 1] /\ Caller \in Frame /\ Len(stack') = n - 1
      /\ stack'[n - 1] = [Caller EXCEPT !.next = @ + 1]
      /\ \A k \in 1..(n - 2) : stack'[k] = stack[k]
  BY <1>1, PoppedStack DEF Caller
<1>3. /\ stack'[n - 1].file = Caller.file /\ stack'[n - 1].next = Caller.next + 1
      /\ Caller.next \in Nat /\ Caller.file \in File /\ Top.file \in File
      /\ Caller.names \in Seq(Name)
  BY <1>1, <1>2, AdvancedFrame, FrameFields
<1>4. /\ n \in 1..n /\ (n - 1) \in 1..n /\ (n - 1) \in 1..(n - 1) /\ n # n - 1
      /\ \A k \in 1..(n - 1) : k = n - 1 \/ k \in 1..(n - 2)
  BY <1>1
<1>5. Waiting(n - 1) /\ FrameOK(n)
  BY <1>4 DEF IInv, CallersWait, FramesOK
<1>6. Top.file \in vertices
  BY <1>1, <1>5 DEF FrameOK
<1>7. Caller.names # << >>
  BY <1>2, <1>5 DEF Waiting
<1>8. Caller.file \in vertices
  BY <1>2, <1>4, <1>7, WalkedFileIsVertex
<1>9. Top.file # Caller.file
  BY <1>1, <1>2, <1>4 DEF IInv, NoReentry
<1> HIDE DEF n
<1>10. \A k \in 1..(n - 1) : stack'[k].file = stack[k].file
  BY <1>2, <1>3, <1>4
<1>11. stack'[n - 1].next # 0
  BY <1>3
<1>12. QED
  BY <1>1, <1>2, <1>3, <1>5, <1>6, <1>8, <1>9, <1>10, <1>11 DEF n

LEMMA ReturnStepCounts == IInv /\ CountInv /\ ReturnStep => CountInv'
<1> SUFFICES ASSUME IInv, CountInv, ReturnStep PROVE CountInv'
  OBVIOUS
<1>1. /\ UNCHANGED <<cache, uniqueImports, processed, out, status>>
      /\ Reports' = Reports /\ status = "running" /\ status # "failed"
  BY DEF ReturnStep, ReturnToCaller, ReturnToEntryLoop, AtReturn, Reports
<1>2. ProcessedAreReported' /\ DetectedAreCounted' /\ Reports \subseteq Reports'
  BY <1>1 DEF CountInv, ProcessedAreReported, DetectedAreCounted
<1>3. CASE ReturnToEntryLoop
  <2>1. /\ UNCHANGED <<cache, edges, uniqueImports>>
        /\ Len(stack) = 1 /\ Len(stack') = 0
    BY <1>3 DEF ReturnToEntryLoop
  <2>2. Len(stack) \in Nat /\ Len(stack') \in Nat /\ Len(stack) < 2 /\ Len(stack') < 2
    BY <2>1
  <2>3. QED
    BY <1>1, <1>2, <2>1, <2>2, QuietCounts
<1>4. CASE ReturnToCaller
  <2> DEFINE n == Len(stack)
  <2>1. /\ n \in Nat /\ n > 1 /\ Len(stack') = n - 1
        /\ \A k \in 1..(n - 1) : stack'[k].file = stack[k].file
        /\ Top = stack[n] /\ Top.file \in File /\ Caller.file \in File
    BY <1>4, ReturnFacts
  <2>2. edges' = edges \cup {<<Caller.file, Top.file>>}
    BY <1>4, ReturnFacts DEF ReturnToCaller, AddEdge
  <2> HIDE DEF n
  <2>3. /\ \A k \in 2..(n - 1) : k \in 2..n /\ stack'[k].file = stack[k].file
        /\ \A k \in 2..n : k = n \/ k \in 2..(n - 1)
        /\ n \in 2..n
    BY <2>1
  <2>4. Top.file \in uniqueImports
    BY <2>1, <2>3 DEF CountInv, CalleesAreCounted, n
  <2>5. AnswersAreCounted' /\ TargetsAreCounted'
    BY <1>1, <2>2, <2>4 DEF CountInv, AnswersAreCounted, TargetsAreCounted
  <2>6. CalleesAreCounted'
    BY <1>1, <2>1, <2>3 DEF CountInv, CalleesAreCounted, n
  <2>7. \A f : CalledFor(f) => CalledFor(f)' \/ HasImporter(f)'
    BY <2>1, <2>2, <2>3 DEF CalledFor, HasImporter, n
  <2>8. /\ \A p \in DOMAIN cache : p \in DOMAIN cache' /\ cache'[p] = cache[p]
        /\ edges \subseteq edges'
    BY <1>1, <2>2
  <2>9. QED
    BY <1>1, <1>2, <2>5, <2>6, <2>7, <2>8, CountsKept
<1>5. QED
  BY <1>3, <1>4 DEF ReturnStep

LEMMA NextCounts == IInv /\ IInv' /\ CountInv /\ [Next]_vars => CountInv'
<1> SUFFICES ASSUME IInv, IInv', CountInv, [Next]_vars PROVE CountInv'
  OBVIOUS
<1>1. ASSUME NEW es \in EntryLists, Analyse(es) PROVE CountInv'
  BY <1>1, ClearedCounts DEF Analyse
<1>2. CASE Walk
  BY <1>2, EntryStepCounts, CallStepCounts, NameStepCounts, ReturnStepCounts DEF Walk
<1>3. ASSUME UNCHANGED <<edges, processed, detected, uniqueImports, cache, out,
                         stack, status>>
      PROVE  CountInv'
  <2>1. Reports' = Reports
    BY <1>3 DEF Reports
  <2>2. /\ \A f : HasImporter(f)' <=> HasImporter(f)
        /\ \A f : LooksAtItself(f)' <=> LooksAtItself(f)
        /\ \A f : CalledFor(f)' <=> CalledFor(f)
    BY <1>3, <2>1 DEF HasImporter, LooksAtItself, CalledFor
  <2>3. QED
    BY <1>3, <2>2
       DEF CountInv, ProcessedAreReported, AnswersAreCounted, TargetsAreCounted,
           CalleesAreCounted, CountedAreImported, DetectedAreCounted
<1>4. ASSUME NEW f \in Volatile, FileChanges(f) PROVE CountInv'
  BY <1>3, <1>4 DEF FileChanges
<1>5. CASE UNCHANGED vars
  BY <1>3, <1>5 DEF vars
<1>6. QED
  BY <1>1, <1>2, <1>4, <1>5 DEF Next

LEMMA InitCounts == Init => CountInv
<1> SUFFICES ASSUME Init PROVE CountInv
  OBVIOUS
<1>1. /\ stack = << >> /\ cache = << >> /\ edges = {} /\ uniqueImports = {}
      /\ status = "idle"
  BY DEF Init
<1>2. QED
  BY <1>1
     DEF CountInv, ProcessedAreReported, AnswersAreCounted, TargetsAreCounted,
         CalleesAreCounted, CountedAreImported, DetectedAreCounted

LEMMA CountsAgree == IInv /\ CountInv => StatsAgree
<1> SUFFICES ASSUME IInv, CountInv, status = "done" 
             PROVE  /\ processed = Len(out)
                    /\ detected = Cardinality({f \in File :
                          ImportsItself(f) \/ \E g \in File : <<g, f>> \in edges})
  BY DEF StatsAgree
<1>1. processed = Len(out) /\ detected = Cardinality(uniqueImports)
  BY DEF CountInv, ProcessedAreReported, DetectedAreCounted
<1>2. stack = << >> /\ Len(stack) = 0
  BY DEF IInv, NoFramesAtRest
<1>3. uniqueImports \subseteq File
  BY DEF IInv, TypeOK
<1>4. ASSUME NEW f \in uniqueImports PROVE ImportsItself(f) \/ HasImporter(f)
  <2>1. ~CalledFor(f)
    BY <1>2 DEF CalledFor
  <2>2. HasImporter(f) \/ LooksAtItself(f)
    BY <2>1 DEF CountInv, CountedAreImported
  <2>3. QED
    BY <2>2 DEF LooksAtItself, ImportsItself
<1>5. ASSUME NEW f \in File, HasImporter(f) PROVE f \in uniqueImports
  BY <1>5 DEF HasImporter, CountInv, TargetsAreCounted
<1>6. ASSUME NEW f \in File, ImportsItself(f) PROVE f \in uniqueImports
  <2>1. PICK r \in Reports : r.file = f /\ \E j \in 1..Len(r.deps) :
            /\ r.deps[j] \notin PackageDependencies
            /\ cache[Join[<<f, r.deps[j]>>]] = f
    BY <1>6 DEF ImportsItself
  <2>2. PICK j \in 1..Len(r.deps) :
            /\ r.deps[j] \notin PackageDependencies
            /\ cache[Join[<<f, r.deps[j]>>]] = f
    BY <2>1
  <2>3. Settled(r.file, r.deps[j])
    BY <1>2 DEF IInv, NoLostImport
  <2>4. Join[<<f, r.deps[j]>>] \in DOMAIN cache
    BY <2>1, <2>2, <2>3 DEF Settled, SettledIn
  <2>5. QED
    BY <2>2, <2>4 DEF CountInv, AnswersAreCounted
<1>7. uniqueImports = {f \in File : ImportsItself(f) \/ \E g \in File : <<g, f>> \in edges}
  BY <1>3, <1>4, <1>5, <1>6 DEF HasImporter
<1>8. QED
  BY <1>1, <1>7

(***************************************************************************)
(* A completed call counts one processed file per report, and as imports   *)
(* exactly the files that some edge leads to or that import themselves.    *)
(***************************************************************************)
THEOREM StatisticsAgree == Spec => []StatsAgree
BY InitCounts, NextCounts, CountsAgree, Invariance, PTL DEF Spec

-----------------------------------------------------------------------------
(***************************************************************************)
(* The number of reports.                                                  *)
(***************************************************************************)
LEMMA PositionsAreFinite ==
    ASSUME NEW n \in Nat, NEW T, T \subseteq 1..n
    PROVE  IsFiniteSet(T) /\ Cardinality(T) \in Nat
<1>1. IsFiniteSet(1..n)
  BY FS_Interval
<1>2. IsFiniteSet(T)
  BY <1>1, FS_Subset
<1>3. QED
  BY <1>2, FS_CardinalityType

LEMMA CountsOfPositions ==
    ASSUME TypeOK, NEW f
    PROVE  /\ IsFiniteSet(ReportsOf(f)) /\ Cardinality(ReportsOf(f)) \in Nat
           /\ IsFiniteSet(TakenOf(f)) /\ Cardinality(TakenOf(f)) \in Nat
           /\ IsFiniteSet(SpellingsOf(f)) /\ Cardinality(SpellingsOf(f)) \in Nat
           /\ Cardinality(TakenOf(f)) <= Cardinality(SpellingsOf(f))
           /\ Pending(f) \in {0, 1} /\ Known(f) \in {0, 1}
<1>1. Len(out) \in Nat /\ Len(entries) \in Nat
  BY DEF TypeOK
<1>2. /\ ReportsOf(f) \subseteq 1..Len(out) /\ SpellingsOf(f) \subseteq 1..Len(entries)
      /\ TakenOf(f) \subseteq 1..Len(entries) /\ TakenOf(f) \subseteq SpellingsOf(f)
  BY DEF ReportsOf, SpellingsOf, TakenOf
<1>3. /\ IsFiniteSet(ReportsOf(f)) /\ Cardinality(ReportsOf(f)) \in Nat
      /\ IsFiniteSet(TakenOf(f)) /\ Cardinality(TakenOf(f)) \in Nat
      /\ IsFiniteSet(SpellingsOf(f)) /\ Cardinality(SpellingsOf(f)) \in Nat
  BY <1>1, <1>2, PositionsAreFinite
<1>4. Cardinality(TakenOf(f)) <= Cardinality(SpellingsOf(f))
  BY <1>2, <1>3, FS_Subset
<1>5. QED
  BY <1>3, <1>4 DEF Pending, Known

LEMMA CountsAfterwards ==
    ASSUME TypeOK', NEW f
    PROVE  /\ IsFiniteSet(TakenOf(f)') /\ Cardinality(TakenOf(f)') \in Nat
           /\ Pending(f)' \in {0, 1} /\ Known(f)' \in {0, 1}
<1>1. Len(entries') \in Nat
  BY DEF TypeOK
<1>2. TakenOf(f)' \subseteq 1..Len(entries')
  BY DEF TakenOf
<1>3. IsFiniteSet(TakenOf(f)') /\ Cardinality(TakenOf(f)') \in Nat
  BY <1>1, <1>2, PositionsAreFinite
<1>4. QED
  BY <1>3 DEF Pending, Known

LEMMA NothingOwedAtFirst ==
    ASSUME TypeOK, out = << >>, stack = << >>
    PROVE  ReportInv
<1> SUFFICES ASSUME NEW f \in File PROVE ReportsOwed(f)
  BY DEF ReportInv
<1>1. ReportsOf(f) = {} /\ Pending(f) = 0
  BY DEF ReportsOf, Pending
<1>2. Cardinality(ReportsOf(f)) = 0
  BY <1>1, FS_EmptySet
<1>3. QED
  BY <1>1, <1>2, CountsOfPositions DEF ReportsOwed

LEMMA NothingOwed ==
    ASSUME TypeOK', out' = << >>, stack' = << >>
    PROVE  ReportInv'
<1> SUFFICES ASSUME NEW f \in File PROVE ReportsOwed(f)'
  BY DEF ReportInv
<1>1. ReportsOf(f)' = {} /\ Pending(f)' = 0
  BY DEF ReportsOf, Pending
<1>2. Cardinality(ReportsOf(f)') = 0
  BY <1>1, FS_EmptySet
<1>3. QED
  BY <1>1, <1>2, CountsAfterwards DEF ReportsOwed

(***************************************************************************)
(* A step that makes no report and leaves no new call pending.             *)
(***************************************************************************)
LEMMA QuietOwed ==
    ASSUME ReportInv, TypeOK, TypeOK', UNCHANGED <<out, entries>>,
           nextEntry <= nextEntry', vertices \subseteq vertices',
           \/ stack' = stack
           \/ stack' = << >>
           \/ Top'.next # 0
    PROVE  ReportInv'
<1> SUFFICES ASSUME NEW f \in File PROVE ReportsOwed(f)'
  BY DEF ReportInv
<1>1. ReportsOwed(f)
  BY DEF ReportInv
<1>2. ReportsOf(f)' = ReportsOf(f)
  BY DEF ReportsOf
<1>3. TakenOf(f) \subseteq TakenOf(f)'
  BY DEF TakenOf, TypeOK
<1>4. IsFiniteSet(TakenOf(f)')
  BY CountsAfterwards
<1>5. Cardinality(TakenOf(f)) <= Cardinality(TakenOf(f)')
  BY <1>3, <1>4, FS_Subset
<1>6. Pending(f)' <= Pending(f) /\ Known(f) <= Known(f)'
  BY DEF Pending, Known, Top
<1>7. /\ Cardinality(ReportsOf(f)) \in Nat /\ Cardinality(TakenOf(f)) \in Nat
      /\ Pending(f) \in {0, 1} /\ Known(f) \in {0, 1}
  BY CountsOfPositions
<1>8. /\ Cardinality(TakenOf(f)') \in Nat
      /\ Pending(f)' \in {0, 1} /\ Known(f)' \in {0, 1}
  BY CountsAfterwards
<1>9. Cardinality(ReportsOf(f)') = Cardinality(ReportsOf(f))
  BY <1>2
<1>10. QED
  BY <1>1, <1>5, <1>6, <1>7, <1>8, <1>9 DEF ReportsOwed

LEMMA CallEntryOwed ==
    ASSUME IInv, TypeOK', ReportInv, CallEntry
    PROVE  ReportInv'
<1> SUFFICES ASSUME NEW f \in File PROVE ReportsOwed(f)'
  BY DEF ReportInv
<1>1. ReportsOwed(f) /\ TypeOK
  BY DEF ReportInv, IInv
<1>2. /\ UNCHANGED <<out, entries, vertices>> /\ nextEntry' = nextEntry + 1
      /\ stack = << >> /\ stack' = <<Called(Entry)>>
      /\ nextEntry \in 1..Len(entries) /\ nextEntry \in Nat
  BY <1>1 DEF CallEntry, AtEntry, TypeOK
<1>3. ReportsOf(f)' = ReportsOf(f) /\ Known(f)' = Known(f)
  BY <1>2 DEF ReportsOf, Known
<1>4. Pending(f) = 0 /\ Pending(f)' = IF Entry = f THEN 1 ELSE 0
  BY <1>2 DEF Pending, Top, Called
<1>5. TakenOf(f)' = IF Entry = f THEN TakenOf(f) \cup {nextEntry} ELSE TakenOf(f)
  <2>1. \A i \in 1..Len(entries) : i < nextEntry + 1 <=> i < nextEntry \/ i = nextEntry
    BY <1>2
  <2>2. QED
    BY <1>2, <2>1 DEF TakenOf, Entry
<1>6. nextEntry \notin TakenOf(f)
  BY <1>2 DEF TakenOf
<1>7. /\ Cardinality(ReportsOf(f)) \in Nat /\ Cardinality(TakenOf(f)) \in Nat
      /\ IsFiniteSet(TakenOf(f)) /\ Known(f) \in {0, 1}
  BY <1>1, CountsOfPositions
<1>8. Cardinality(TakenOf(f)') =
        IF Entry = f THEN Cardinality(TakenOf(f)) + 1 ELSE Cardinality(TakenOf(f))
  BY <1>5, <1>6, <1>7, FS_AddElement
<1>9. Cardinality(ReportsOf(f)') = Cardinality(ReportsOf(f))
  BY <1>3
<1>10. QED
  BY <1>1, <1>3, <1>4, <1>7, <1>8, <1>9 DEF ReportsOwed

(***************************************************************************)
(* The pending call makes the report it had a claim to.                    *)
(***************************************************************************)
LEMMA ReportedOwed ==
    ASSUME TypeOK, TypeOK', ReportInv, AtCall, NEW r \in Report, r.file = Top.file,
           out' = Append(out, r), UNCHANGED <<entries, nextEntry>>,
           vertices \subseteq vertices', Top'.next # 0
    PROVE  ReportInv'
<1> SUFFICES ASSUME NEW f \in File PROVE ReportsOwed(f)'
  BY DEF ReportInv
<1>1. ReportsOwed(f) /\ stack # << >> /\ Top.next = 0
  BY DEF ReportInv, AtCall
<1>2. /\ Len(out) \in Nat /\ Len(out') = Len(out) + 1
      /\ \A i \in 1..Len(out) : out'[i] = out[i]
      /\ out'[Len(out) + 1] = r
  BY DEF TypeOK
<1>3. \A i : i \in 1..(Len(out) + 1) <=> i \in 1..Len(out) \/ i = Len(out) + 1
  BY <1>2
<1>4. ReportsOf(f)' = IF Top.file = f THEN ReportsOf(f) \cup {Len(out) + 1} ELSE ReportsOf(f)
  BY <1>2, <1>3 DEF ReportsOf
<1>5. Len(out) + 1 \notin ReportsOf(f)
  BY <1>2 DEF ReportsOf
<1>6. Pending(f)' = 0 /\ Pending(f) = IF Top.file = f THEN 1 ELSE 0
  BY <1>1 DEF Pending
<1>7. TakenOf(f)' = TakenOf(f) /\ Known(f) <= Known(f)'
  BY DEF TakenOf, Known
<1>8. /\ Cardinality(ReportsOf(f)) \in Nat /\ Cardinality(TakenOf(f)) \in Nat
      /\ IsFiniteSet(ReportsOf(f)) /\ Known(f) \in {0, 1}
  BY CountsOfPositions
<1>9. Known(f)' \in {0, 1}
  BY CountsAfterwards
<1>10. Cardinality(ReportsOf(f)') =
         IF Top.file = f THEN Cardinality(ReportsOf(f)) + 1 ELSE Cardinality(ReportsOf(f))
  BY <1>4, <1>5, <1>8, FS_AddElement
<1>11. Cardinality(TakenOf(f)') = Cardinality(TakenOf(f))
  BY <1>7
<1>12. QED
  BY <1>1, <1>6, <1>7, <1>8, <1>9, <1>10, <1>11 DEF ReportsOwed

LEMMA ImportNewOwed ==
    ASSUME IInv, TypeOK', ReportInv, NEW dep \in File, ImportNew(dep)
    PROVE  ReportInv'
<1> SUFFICES ASSUME NEW f \in File PROVE ReportsOwed(f)'
  BY DEF ReportInv
<1>1. ReportsOwed(f) /\ TypeOK
  BY DEF ReportInv, IInv
<1>2. /\ UNCHANGED <<out, entries, nextEntry>> /\ dep \notin vertices
      /\ vertices' = vertices \cup {dep} /\ stack' = Append(stack, Called(dep))
      /\ stack \in Seq(Frame) /\ Top.next \in 1..Len(Top.names)
  BY <1>1 DEF ImportNew, AddVertex, HasVertex, AtName, TypeOK
<1>3. stack' # << >> /\ Top' = Called(dep) /\ Top.next # 0
  BY <1>2 DEF Top
<1>4. Pending(f) = 0 /\ Pending(f)' = IF dep = f THEN 1 ELSE 0
  BY <1>3 DEF Pending, Called
<1>5. Known(f)' = IF dep = f THEN Known(f) + 1 ELSE Known(f)
  BY <1>2 DEF Known
<1>6. ReportsOf(f)' = ReportsOf(f) /\ TakenOf(f)' = TakenOf(f)
  BY <1>2 DEF ReportsOf, TakenOf
<1>7. /\ Cardinality(ReportsOf(f)) \in Nat /\ Cardinality(TakenOf(f)) \in Nat
      /\ Known(f) \in {0, 1}
  BY <1>1, CountsOfPositions
<1>8. /\ Cardinality(ReportsOf(f)') = Cardinality(ReportsOf(f))
      /\ Cardinality(TakenOf(f)') = Cardinality(TakenOf(f))
  BY <1>6
<1>9. QED
  BY <1>1, <1>4, <1>5, <1>7, <1>8 DEF ReportsOwed

LEMMA WalkOwed == IInv /\ IInv' /\ ReportInv /\ Walk => ReportInv'
<1> SUFFICES ASSUME IInv, IInv', ReportInv, Walk PROVE ReportInv'
  OBVIOUS
<1>1. TypeOK /\ TypeOK' /\ nextEntry \in Nat
  BY DEF IInv, TypeOK
<1>2. CASE EntryFails \/ ReadFails \/ ImportFails
  BY <1>1, <1>2, NothingOwed DEF EntryFails, ReadFails, ImportFails, Fail
<1>3. CASE SkipEntry \/ Finish \/ ReturnToEntryLoop
  BY <1>1, <1>3, QuietOwed DEF SkipEntry, Finish, ReturnToEntryLoop
<1>4. CASE CallEntry
  BY <1>1, <1>4, CallEntryOwed
<1>5. CASE SkipDts \/ ParseFails \/ AnalyseFile
  <2>1. stack \in Seq(Frame) /\ stack # << >> /\ AtCall /\ disk \in [File -> DiskState]
    BY <1>1, <1>5 DEF TypeOK, SkipDts, ParseFails, AnalyseFile, AtCall
  <2>2. Top.file \in File
    BY <2>1, TopFrame, FrameFields
  <2>3. \A fr \in Frame : stack' = ReplaceTop(fr) => Top' = fr
    BY <2>1, TopFrame, ReplacedTop DEF Top
  <2>4. Returning(Top.file) \in Frame /\ Returning(Top.file).next # 0
    BY <2>2 DEF Returning, Frame
  <2>5. CASE SkipDts
    <3>1. stack' = ReplaceTop(Returning(Top.file))
      BY <2>5 DEF SkipDts
    <3>2. Top'.next # 0
      BY <2>3, <2>4, <3>1
    <3>3. QED
      BY <1>1, <2>5, <3>2, QuietOwed DEF SkipDts
  <2>6. CASE ParseFails
    <3>1. stack' = ReplaceTop(Returning(Top.file))
      BY <2>6 DEF ParseFails
    <3>2. Top'.next # 0
      BY <2>3, <2>4, <3>1
    <3> DEFINE r == [file |-> Top.file, ok |-> FALSE, deps |-> << >>]
    <3>3. r \in Report /\ r.file = Top.file
      BY <2>2 DEF Report
    <3>4. /\ out' = Append(out, r) /\ UNCHANGED <<entries, nextEntry>>
          /\ vertices \subseteq vertices'
      BY <2>6 DEF ParseFails, AddVertex
    <3> HIDE DEF r
    <3>5. QED
      BY <1>1, <2>1, <3>2, <3>3, <3>4, ReportedOwed
  <2>7. CASE AnalyseFile
    <3> DEFINE r == [file |-> Top.file, ok |-> TRUE, deps |-> disk[Top.file]]
               fr == [file |-> Top.file, names |-> disk[Top.file], next |-> 1]
    <3>1. disk[Top.file] \in Seq(Name)
      BY <2>7, CrawlAssumption DEF AnalyseFile
    <3>2. fr \in Frame /\ fr.next # 0 /\ r \in Report /\ r.file = Top.file
      BY <2>2, <3>1 DEF Frame, Report
    <3>3. /\ out' = Append(out, r) /\ UNCHANGED <<entries, nextEntry>>
          /\ vertices \subseteq vertices' /\ stack' = ReplaceTop(fr)
      BY <2>7 DEF AnalyseFile, AddVertex
    <3> HIDE DEF r, fr
    <3>4. Top'.next # 0
      BY <2>3, <3>2, <3>3
    <3>5. QED
      BY <1>1, <2>1, <3>2, <3>3, <3>4, ReportedOwed
  <2>8. QED
    BY <1>5, <2>5, <2>6, <2>7
<1>6. ASSUME AtName, stack' = NextName PROVE Top'.next # 0
  <2>1. /\ stack \in Seq(Frame) /\ stack # << >> /\ Top \in Frame /\ Top.next \in Nat
    BY <1>1, <1>6, TopFrame, FrameFields DEF TypeOK, AtName
  <2>2. [Top EXCEPT !.next = @ + 1] \in Frame /\ [Top EXCEPT !.next = @ + 1].next = Top.next + 1
    BY <2>1, AdvancedFrame
  <2>3. Top' = [Top EXCEPT !.next = @ + 1]
    <3>1. Len(stack') = Len(stack) /\ stack'[Len(stack)] = [Top EXCEPT !.next = @ + 1]
      BY <1>6, <2>1, <2>2, ReplacedTop DEF NextName
    <3>2. Top' = stack'[Len(stack')]
      BY DEF Top
    <3>3. QED
      BY <3>1, <3>2
  <2>4. QED
    BY <2>1, <2>2, <2>3
<1>7. CASE SkipPackage \/ ImportUnresolved
  <2>1. AtName /\ stack' = NextName /\ UNCHANGED <<out, entries, nextEntry, vertices>>
    BY <1>7 DEF SkipPackage, ImportUnresolved
  <2>2. QED
    BY <1>1, <1>6, <2>1, QuietOwed
<1>8. ASSUME NEW dep \in File, ImportKnown(dep) PROVE ReportInv'
  <2>1. AtName /\ stack' = NextName /\ UNCHANGED <<out, entries, nextEntry, vertices>>
    BY <1>8 DEF ImportKnown
  <2>2. QED
    BY <1>1, <1>6, <2>1, QuietOwed
<1>9. ASSUME NEW dep \in File, ImportNew(dep) PROVE ReportInv'
  BY <1>1, <1>9, ImportNewOwed
<1>10. CASE ReturnToCaller
  <2>1. Len(stack') = Len(stack) - 1 /\ stack'[Len(stack) - 1].next # 0
    BY <1>10, ReturnFacts
  <2>2. Top'.next # 0
    BY <2>1 DEF Top
  <2>3. UNCHANGED <<out, entries, nextEntry, vertices>>
    BY <1>10 DEF ReturnToCaller
  <2>4. QED
    BY <1>1, <2>2, <2>3, QuietOwed
<1>11. QED
  BY <1>2, <1>3, <1>4, <1>5, <1>7, <1>8, <1>9, <1>10
     DEF Walk, EntryStep, CallStep, NameStep, ReturnStep

LEMMA NextOwed == IInv /\ IInv' /\ ReportInv /\ [Next]_vars => ReportInv'
<1> SUFFICES ASSUME IInv, IInv', ReportInv, [Next]_vars PROVE ReportInv'
  OBVIOUS
<1>1. TypeOK /\ TypeOK' /\ nextEntry \in Nat
  BY DEF IInv, TypeOK
<1>2. ASSUME NEW es \in EntryLists, Analyse(es) PROVE ReportInv'
  BY <1>1, <1>2, NothingOwed DEF Analyse
<1>3. CASE Walk
  BY <1>3, WalkOwed
<1>4. ASSUME NEW f \in Volatile, FileChanges(f) PROVE ReportInv'
  BY <1>1, <1>4, QuietOwed DEF FileChanges
<1>5. CASE UNCHANGED vars
  BY <1>1, <1>5, QuietOwed DEF vars
<1>6. QED
  BY <1>2, <1>3, <1>4, <1>5 DEF Next

LEMMA OwedIsEnough == IInv /\ ReportInv => NoRepeatedReport
<1> SUFFICES ASSUME TypeOK, NEW f \in File, ReportsOwed(f)
             PROVE  /\ Cardinality(ReportsOf(f)) <= Cardinality(SpellingsOf(f)) + 1
                    /\ SpellingsOf(f) = {} => Cardinality(ReportsOf(f)) <= 1
  BY DEF IInv, ReportInv, NoRepeatedReport
<1>1. /\ Cardinality(ReportsOf(f)) \in Nat /\ Cardinality(TakenOf(f)) \in Nat
      /\ Cardinality(SpellingsOf(f)) \in Nat
      /\ Cardinality(TakenOf(f)) <= Cardinality(SpellingsOf(f))
      /\ Pending(f) \in {0, 1} /\ Known(f) \in {0, 1}
  BY CountsOfPositions
<1>2. Cardinality(ReportsOf(f)) <= Cardinality(SpellingsOf(f)) + 1
  BY <1>1 DEF ReportsOwed
<1>3. SpellingsOf(f) = {} => Cardinality(SpellingsOf(f)) = 0
  BY FS_EmptySet
<1>4. QED
  BY <1>1, <1>2, <1>3

(***************************************************************************)
(* A file that only imports lead to is reported at most once, and an entry *)
(* file at most once for each of its spellings and once more, whatever the *)
(* imports and however often files change.                                 *)
(***************************************************************************)
THEOREM ReportsAreNotRepeated == Spec => []NoRepeatedReport
<1>1. Init => ReportInv
  BY InitTypeOK, NothingOwedAtFirst DEF Init
<1>2. QED
  BY <1>1, NextOwed, OwedIsEnough, Invariance, PTL DEF Spec

-----------------------------------------------------------------------------
(***************************************************************************)
(* The import relation of a disk that stays as it is.                      *)
(***************************************************************************)
LEMMA SameDisk ==
    ASSUME UNCHANGED <<disk, entries>>
    PROVE  /\ StartFiles' = StartFiles
           /\ Imported' = Imported
           /\ Expected' = Expected
           /\ Obstacle' <=> Obstacle
           /\ \A S : ImportedBy(S)' = ImportedBy(S)
           /\ \A p, g : TrueAnswer(p, g)' <=> TrueAnswer(p, g)
           /\ \A r : TrueReport(r)' <=> TrueReport(r)
<1>1. StartFiles' = StartFiles /\ EntryFiles' = EntryFiles
  BY DEF StartFiles, EntryFiles
<1>2. \A p, g : StandsFor(p, g)' <=> StandsFor(p, g)
  BY DEF StandsFor
<1>3. \A p : FirstAbsent(p)' <=> FirstAbsent(p)
  BY DEF FirstAbsent, FirstSeen
<1>4. \A p : LookUpFails(p)' <=> LookUpFails(p)
  BY DEF LookUpFails
<1>5. \A f : (Readable(f)' <=> Readable(f)) /\ NamesIn(f)' = NamesIn(f)
  BY DEF Readable, NamesIn
<1>6. ASSUME NEW S PROVE ImportedBy(S)' = ImportedBy(S)
  BY <1>2, <1>5 DEF ImportedBy
<1>7. Imported' = Imported
  BY <1>1, <1>6 DEF Imported
<1>8. Expected' = Expected
  BY <1>1, <1>7 DEF Expected
<1>9. Obstacle' <=> Obstacle
  BY <1>1, <1>4, <1>5, <1>8 DEF Obstacle
<1>10. \A p, g : TrueAnswer(p, g)' <=> TrueAnswer(p, g)
  BY <1>2, <1>3 DEF TrueAnswer
<1>11. \A r : TrueReport(r)' <=> TrueReport(r)
  BY DEF TrueReport
<1>12. QED
  BY <1>1, <1>6, <1>7, <1>8, <1>9, <1>10, <1>11

LEMMA ImportedIsClosed ==
    ASSUME NEW f \in StartFiles \cup Imported, NEW g \in ImportedBy({f})
    PROVE  g \in Imported
<1>1. g \in File
  BY DEF ImportedBy
<1>2. ASSUME NEW S \in SUBSET File, ImportedBy(S \cup StartFiles) \subseteq S
      PROVE  g \in S
  <2>1. f \in S \cup StartFiles
    BY <1>2 DEF Imported
  <2>2. g \in ImportedBy(S \cup StartFiles)
    BY <2>1 DEF ImportedBy
  <2>3. QED
    BY <1>2, <2>2
<1>3. QED
  BY <1>1, <1>2 DEF Imported

(***************************************************************************)
(* The first candidate that is seen is unique, so what a path stands for,  *)
(* that nothing answers to it, and that its look-up fails exclude each     *)
(* other.                                                                  *)
(***************************************************************************)
LEMMA OneAnswer ==
    ASSUME NEW p \in Path, NEW a, TrueAnswer(p, a)
    PROVE  /\ \A g : StandsFor(p, g) => a = g
           /\ ~LookUpFails(p)
<1> DEFINE cs == Candidates[p]
           First(c) == /\ disk[cs[c]] # Absent
                       /\ \A b \in 1..(c - 1) : disk[cs[b]] = Absent
<1>1. cs \in Seq(File) /\ Len(cs) \in Nat
  BY CrawlAssumption
<1> HIDE DEF cs
<1>2. ASSUME NEW c \in 1..Len(cs), NEW d \in 1..Len(cs), First(c), First(d)
      PROVE  c = d
  <2>1. ~(c < d) /\ ~(d < c)
    BY <1>1, <1>2
  <2>2. QED
    BY <1>1, <2>1
<1>3. \A g : StandsFor(p, g) =>
         \E c \in 1..Len(cs) : g = cs[c] /\ First(c) /\ disk[cs[c]] # StatError
  BY DEF StandsFor, cs
<1>4. LookUpFails(p) => \E c \in 1..Len(cs) : First(c) /\ disk[cs[c]] = StatError
  BY TroubleAssumption DEF LookUpFails, cs
<1>5. FirstAbsent(p) => \A c \in 1..Len(cs) : ~First(c)
  BY DEF FirstAbsent, FirstSeen, cs
<1> HIDE DEF First
<1>6. CASE a = None
  BY <1>3, <1>4, <1>5, <1>6 DEF TrueAnswer
<1>7. CASE a # None
  BY <1>2, <1>3, <1>4, <1>7 DEF TrueAnswer
<1>8. QED
  BY <1>6, <1>7

LEMMA ResolvedIsTrue ==
    ASSUME TrueToDisk, NEW p \in Path, NEW target \in File \cup {None}, Resolves(p, target)
    PROVE  /\ TrueAnswer(p, target)
           /\ \A q \in DOMAIN Remember(p, target) : TrueAnswer(q, Remember(p, target)[q])
<1>1. TrueAnswer(p, target)
  <2>1. CASE p \in DOMAIN cache
    BY <2>1 DEF Resolves, TrueToDisk, AnswersAreTrue
  <2>2. CASE p \notin DOMAIN cache /\ target = None /\ FirstSeen(p) = {}
    BY <2>2 DEF TrueAnswer, FirstAbsent
  <2>3. ASSUME p \notin DOMAIN cache, NEW c \in FirstSeen(p),
               disk[Candidates[p][c]] # StatError, target = Candidates[p][c]
        PROVE  TrueAnswer(p, target)
    <3>1. StandsFor(p, target)
      BY <2>3 DEF FirstSeen, StandsFor
    <3>2. Candidates[p] \in Seq(File) /\ c \in 1..Len(Candidates[p])
      BY CrawlAssumption DEF FirstSeen
    <3>3. target # None
      BY <2>3, <3>2, CrawlAssumption
    <3>4. QED
      BY <3>1, <3>3 DEF TrueAnswer
  <2>4. QED
    BY <2>1, <2>2, <2>3 DEF Resolves
<1>2. QED
  BY <1>1 DEF Remember, TrueToDisk, AnswersAreTrue

(***************************************************************************)
(* The name at hand is one of the names in a readable, reachable file.     *)
(***************************************************************************)
LEMMA NameAtHand ==
    ASSUME IInv, TrueToDisk, AtName, NameNow \notin PackageDependencies
    PROVE  /\ Readable(Top.file) /\ NameNow \in NamesIn(Top.file)
           /\ Top.file \in StartFiles \cup Imported
           /\ Top.file \in File /\ Top.file \in Expected
           /\ PathNow \in Path
<1>1. /\ Len(stack) \in Nat \ {0} /\ Top = stack[Len(stack)]
      /\ Top.file \in File
      /\ Top.next \in 1..Len(Top.names) /\ Top.names \in Seq(Name)
      /\ NameNow = Top.names[Top.next]
      /\ [file |-> Top.file, ok |-> TRUE, deps |-> Top.names] \in Reports
  BY AtNameFacts
<1>2. Top.file \notin DtsNamed /\ disk[Top.file] \in Contents /\ Top.names = disk[Top.file]
  <2> DEFINE r == [file |-> Top.file, ok |-> TRUE, deps |-> Top.names]
  <2>1. r.file = Top.file /\ r.ok /\ r.deps = Top.names
    OBVIOUS
  <2>2. TrueReport(r)
    BY <1>1 DEF TrueToDisk, ReportsAreTrue
  <2> HIDE DEF r
  <2>3. QED
    BY <2>1, <2>2 DEF TrueReport
<1>3. Readable(Top.file)
  BY <1>2 DEF Readable
<1>4. Top.next \in DOMAIN Top.names
  BY <1>1
<1>5. NameNow \in NamesIn(Top.file)
  BY <1>1, <1>2, <1>4 DEF NamesIn
<1>6. Top.file \in StartFiles \cup Imported
  BY <1>1 DEF TrueToDisk, FramesAreExpected
<1>7. NameNow \in Name /\ PathNow \in Path
  BY <1>1, CrawlAssumption DEF PathNow
<1>8. Top.file \in Expected
  BY <1>2, <1>6 DEF Expected
<1>9. QED
  BY <1>1, <1>3, <1>5, <1>6, <1>7, <1>8

LEMMA DependencyAtHand ==
    ASSUME IInv, TrueToDisk, AtName, NameNow \notin PackageDependencies,
           NEW dep \in File, Resolves(PathNow, dep)
    PROVE  dep \in ImportedBy({Top.file}) /\ dep \in Imported /\ dep \in Expected
<1>1. dep # None
  BY CrawlAssumption
<1>2. StandsFor(PathNow, dep)
  BY <1>1, NameAtHand, ResolvedIsTrue DEF TrueAnswer
<1>3. dep \in ImportedBy({Top.file})
  BY <1>2, NameAtHand DEF ImportedBy, PathNow
<1>4. dep \in Imported
  BY <1>3, NameAtHand, ImportedIsClosed
<1>5. QED
  BY <1>3, <1>4 DEF Expected

-----------------------------------------------------------------------------
(***************************************************************************)
(* What the walk holds stays true of the disk.                             *)
(***************************************************************************)
LEMMA TruthKept ==
    ASSUME TrueToDisk, status = "running", status' \in {"running", "done"},
           UNCHANGED <<disk, entries>>,
           vertices \subseteq vertices', vertices' \subseteq Expected,
           \A p \in DOMAIN cache' : TrueAnswer(p, cache'[p]),
           \A r \in Reports' : r \in Reports \/ TrueReport(r),
           \A k \in 1..Len(stack') : stack'[k].file \in StartFiles \cup Imported,
           \A g, f \in File : <<g, f>> \in edges' => <<g, f>> \in edges \/ TrueEdge(g, f),
           EntriesAnswered'
    PROVE  TrueToDisk'
<1>1. AnswersAreTrue' /\ ReportsAreTrue'
  BY SameDisk DEF TrueToDisk, AnswersAreTrue, ReportsAreTrue
<1>2. FramesAreExpected' /\ VerticesAreExpected'
  BY SameDisk DEF FramesAreExpected, VerticesAreExpected
<1>3. EdgesAreImports'
  <2>1. \A g, f : TrueEdge(g, f) => TrueEdge(g, f)'
    BY SameDisk DEF TrueEdge
  <2>2. QED
    BY <2>1 DEF TrueToDisk, EdgesAreImports
<1>4. FailureHasCause'
  BY DEF FailureHasCause
<1>5. QED
  BY <1>1, <1>2, <1>3, <1>4 DEF TrueToDisk

LEMMA FailureKept ==
    ASSUME TrueToDisk, Fail, Obstacle
    PROVE  TrueToDisk'
<1>1. /\ UNCHANGED <<disk, entries, cache>> /\ status' = "failed"
      /\ stack' = << >> /\ out' = << >>
  BY DEF Fail
<1>2. Reports' = {}
  BY <1>1 DEF Reports
<1>3. AnswersAreTrue' /\ ReportsAreTrue'
  BY <1>1, <1>2, SameDisk DEF TrueToDisk, AnswersAreTrue, ReportsAreTrue
<1>4. /\ FramesAreExpected' /\ VerticesAreExpected' /\ EdgesAreImports' /\ EntriesAnswered'
  BY <1>1 DEF FramesAreExpected, VerticesAreExpected, EdgesAreImports, EntriesAnswered
<1>5. FailureHasCause'
  BY <1>1, SameDisk DEF FailureHasCause
<1>6. QED
  BY <1>3, <1>4, <1>5 DEF TrueToDisk

LEMMA FreshCallIsTrue ==
    ASSUME status' \in {"idle", "running"}, nextEntry' = 1, entries' \in Seq(Spelling),
           vertices' = {}, edges' = {}, cache' = << >>, out' = << >>, stack' = << >>
    PROVE  TrueToDisk'
<1>1. Reports' = {}
  BY DEF Reports
<1>2. QED
  BY <1>1
     DEF TrueToDisk, AnswersAreTrue, ReportsAreTrue, FramesAreExpected,
         VerticesAreExpected, EdgesAreImports, EntriesAnswered, FailureHasCause

(***************************************************************************)
(* An entry that has its answer keeps it while its call is not the only    *)
(* one, and not about to begin.                                            *)
(***************************************************************************)
LEMMA AnsweredKept ==
    ASSUME TrueToDisk, status = "running",
           UNCHANGED <<disk, entries, nextEntry>>, vertices \subseteq vertices',
           Len(stack) = 1 /\ stack[1].next = 0 =>
               stack[1].file \in vertices' \cup DtsNamed
    PROVE  EntriesAnswered'
<1>1. \A f : EntryAnswered(f) => EntryAnswered(f)'
  BY SameDisk DEF EntryAnswered
<1>2. QED
  BY <1>1 DEF TrueToDisk, EntriesAnswered

LEMMA EntryStepTrue == IInv /\ TrueToDisk /\ EntryStep => TrueToDisk'
<1> SUFFICES ASSUME IInv, TrueToDisk, EntryStep PROVE TrueToDisk'
  OBVIOUS
<1>1. stack = << >> /\ status = "running" /\ TypeOK /\ vertices \subseteq Expected
  BY DEF EntryStep, SkipEntry, EntryFails, CallEntry, Finish, AtEntry, IInv,
         TrueToDisk, VerticesAreExpected
<1>2. CASE EntryFails
  <2>1. Entry \in EntryFiles
    BY <1>1, <1>2 DEF EntryFails, AtEntry, Entry, EntryFiles, TypeOK
  <2>2. Obstacle
    BY <1>2, <2>1 DEF EntryFails, Obstacle
  <2>3. QED
    BY <1>2, <2>2, FailureKept DEF EntryFails
<1>3. CASE SkipEntry \/ CallEntry
  <2>1. /\ UNCHANGED <<disk, entries, vertices, cache, out, edges, status>>
        /\ nextEntry' = nextEntry + 1 /\ nextEntry \in 1..Len(entries)
        /\ nextEntry \in Nat
        /\ Entry = Normal[entries[nextEntry]]
    BY <1>1, <1>3 DEF SkipEntry, CallEntry, AtEntry, Entry, TypeOK
  <2>2. Entry \in EntryFiles
    BY <2>1 DEF EntryFiles
  <2> PICK e : e = Entry
    OBVIOUS
  <2>3. EntryAnswered(e)'
    <3>1. CASE SkipEntry
      <4>1. IgnoreEnoent /\ disk[e] = Absent /\ Absent # StatError
        BY <3>1, TroubleAssumption DEF SkipEntry
      <4>2. e \notin StartFiles
        BY <4>1 DEF StartFiles
      <4>3. e \notin StartFiles' /\ ~(IgnoreEnoent /\ disk'[e] = StatError)
        BY <2>1, <4>1, <4>2, SameDisk
      <4>4. QED
        BY <4>3 DEF EntryAnswered
    <3>2. CASE CallEntry
      <4>1. stack' = <<Called(e)>> /\ ~(IgnoreEnoent /\ disk'[e] = StatError)
        BY <2>1, <3>2 DEF CallEntry
      <4>2. Len(stack') = 1 /\ stack'[1].next = 0 /\ stack'[1].file = e
        BY <4>1 DEF Called
      <4>3. QED
        BY <4>1, <4>2 DEF EntryAnswered
    <3>3. QED
      BY <1>3, <3>1, <3>2
  <2>4. \A f : EntryAnswered(f) => EntryAnswered(f)'
    <3>1. Len(stack) # 1
      BY <1>1
    <3>2. QED
      BY <2>1, <3>1, SameDisk DEF EntryAnswered
  <2>5. \A i \in 1..Len(entries) : i < nextEntry + 1 => i < nextEntry \/ i = nextEntry
    BY <2>1
  <2>6. EntriesAnswered'
    <3>1. \A i \in 1..Len(entries) : i < nextEntry => EntryAnswered(Normal[entries[i]])
      BY <1>1 DEF TrueToDisk, EntriesAnswered
    <3>2. \A i \in 1..Len(entries) : i < nextEntry + 1 => EntryAnswered(Normal[entries[i]])'
      BY <2>1, <2>3, <2>4, <2>5, <3>1
    <3>3. QED
      BY <2>1, <3>2 DEF EntriesAnswered
  <2>7. \A k \in 1..Len(stack') : stack'[k].file \in StartFiles \cup Imported
    <3>1. CASE SkipEntry
      BY <1>1, <3>1 DEF SkipEntry
    <3>2. CASE CallEntry
      <4>1. Entry \in StartFiles
        BY <2>2, <3>2 DEF CallEntry, StartFiles
      <4>2. QED
        BY <3>2, <4>1 DEF CallEntry, Called
    <3>3. QED
      BY <1>3, <3>1, <3>2
  <2>8. Reports' = Reports /\ \A p \in DOMAIN cache' : TrueAnswer(p, cache'[p])
    BY <2>1 DEF Reports, TrueToDisk, AnswersAreTrue
  <2>9. QED
    BY <1>1, <2>1, <2>6, <2>7, <2>8, TruthKept
<1>4. CASE Finish
  <2>1. /\ UNCHANGED <<disk, entries, vertices, cache, out, edges, nextEntry, stack>>
        /\ status' = "done"
    BY <1>4 DEF Finish
  <2>2. Len(stack) # 1
    BY <1>1
  <2>3. EntriesAnswered'
    BY <1>1, <2>1, <2>2, AnsweredKept
  <2>4. Reports' = Reports /\ \A p \in DOMAIN cache' : TrueAnswer(p, cache'[p])
    BY <2>1 DEF Reports, TrueToDisk, AnswersAreTrue
  <2>5. \A k \in 1..Len(stack') : stack'[k].file \in StartFiles \cup Imported
    BY <1>1, <2>1
  <2>6. QED
    BY <1>1, <2>1, <2>3, <2>4, <2>5, TruthKept
<1>5. QED
  BY <1>2, <1>3, <1>4 DEF EntryStep

LEMMA CallStepTrue == IInv /\ TrueToDisk /\ CallStep => TrueToDisk'
<1> SUFFICES ASSUME IInv, TrueToDisk, CallStep PROVE TrueToDisk'
  OBVIOUS
<1>1. /\ stack \in Seq(Frame) /\ stack # << >> /\ Len(stack) \in Nat \ {0}
      /\ status = "running" /\ disk \in [File -> DiskState] /\ out \in Seq(Report)
      /\ vertices \subseteq Expected /\ Top = stack[Len(stack)]
  BY TopFrame
     DEF CallStep, SkipDts, ReadFails, ParseFails, AnalyseFile, AtCall, IInv, TypeOK, Top,
         TrueToDisk, VerticesAreExpected
<1>2. Top.file \in File
  BY <1>1, TopFrame, FrameFields
<1>3. /\ Top.file \in StartFiles \cup Imported
      /\ Top.file \notin DtsNamed => Top.file \in Expected
  BY <1>1 DEF TrueToDisk, FramesAreExpected, Expected
<1>4. CASE ReadFails
  <2>1. Obstacle
    BY <1>3, <1>4 DEF ReadFails, Obstacle
  <2>2. QED
    BY <1>4, <2>1, FailureKept DEF ReadFails
<1>5. ASSUME NEW fr \in Frame, fr.file = Top.file, stack' = ReplaceTop(fr)
      PROVE  \A k \in 1..Len(stack') : stack'[k].file \in StartFiles \cup Imported
  BY <1>1, <1>5, SameFilesAfterReplace DEF TrueToDisk, FramesAreExpected
<1>6. Returning(Top.file) \in Frame /\ Returning(Top.file).file = Top.file
  BY <1>2 DEF Returning, Frame
<1>7. CASE SkipDts
  <2>1. /\ UNCHANGED <<disk, entries, vertices, cache, out, edges, nextEntry, status>>
        /\ stack' = ReplaceTop(Returning(Top.file)) /\ Top.file \in DtsNamed
    BY <1>7 DEF SkipDts
  <2>2. EntriesAnswered'
    BY <1>1, <2>1, AnsweredKept
  <2>3. Reports' = Reports /\ \A p \in DOMAIN cache' : TrueAnswer(p, cache'[p])
    BY <2>1 DEF Reports, TrueToDisk, AnswersAreTrue
  <2>4. \A k \in 1..Len(stack') : stack'[k].file \in StartFiles \cup Imported
    BY <1>5, <1>6, <2>1
  <2>5. QED
    BY <1>1, <2>1, <2>2, <2>3, <2>4, TruthKept
<1>8. ASSUME NEW fr \in Frame, fr.file = Top.file, stack' = ReplaceTop(fr),
             NEW r \in Report, TrueReport(r), r.file = Top.file, out' = Append(out, r),
             vertices' = vertices \cup {Top.file},
             UNCHANGED <<disk, edges, cache, entries, nextEntry, status>>
      PROVE  TrueToDisk'
  <2>1. Reports' = Reports \cup {r}
    BY <1>1, <1>8, AppendedReport
  <2>2. Top.file \in Expected
    BY <1>3, <1>8 DEF TrueReport
  <2>3. EntriesAnswered'
    BY <1>1, <1>8, AnsweredKept
  <2>4. \A p \in DOMAIN cache' : TrueAnswer(p, cache'[p])
    BY <1>8 DEF TrueToDisk, AnswersAreTrue
  <2>5. \A k \in 1..Len(stack') : stack'[k].file \in StartFiles \cup Imported
    BY <1>5, <1>8
  <2>6. vertices \subseteq vertices' /\ vertices' \subseteq Expected
    BY <1>1, <1>8, <2>2
  <2>7. QED
    BY <1>1, <1>8, <2>1, <2>3, <2>4, <2>5, <2>6, TruthKept
<1>9. CASE ParseFails
  <2> DEFINE r == [file |-> Top.file, ok |-> FALSE, deps |-> << >>]
  <2>1. r \in Report /\ r.file = Top.file /\ ~r.ok
    BY <1>2 DEF Report
  <2>2. /\ out' = Append(out, r) /\ vertices' = vertices \cup {Top.file}
        /\ stack' = ReplaceTop(Returning(Top.file))
        /\ UNCHANGED <<disk, edges, cache, entries, nextEntry, status>>
        /\ Top.file \notin DtsNamed /\ disk[Top.file] = Unparsable
    BY <1>9 DEF ParseFails, AddVertex
  <2> HIDE DEF r
  <2>3. TrueReport(r)
    BY <2>1, <2>2 DEF TrueReport
  <2>4. QED
    BY <1>6, <1>8, <2>1, <2>2, <2>3
<1>10. CASE AnalyseFile
  <2> DEFINE r == [file |-> Top.file, ok |-> TRUE, deps |-> disk[Top.file]]
             fr == [file |-> Top.file, names |-> disk[Top.file], next |-> 1]
  <2>1. disk[Top.file] \in Seq(Name)
    BY <1>10, CrawlAssumption DEF AnalyseFile
  <2>2. /\ r \in Report /\ r.file = Top.file /\ r.ok /\ r.deps = disk[Top.file]
        /\ fr \in Frame /\ fr.file = Top.file
    BY <1>2, <2>1 DEF Report, Frame
  <2>3. /\ out' = Append(out, r) /\ vertices' = vertices \cup {Top.file}
        /\ stack' = ReplaceTop(fr)
        /\ UNCHANGED <<disk, edges, cache, entries, nextEntry, status>>
        /\ Top.file \notin DtsNamed /\ disk[Top.file] \in Contents
    BY <1>10 DEF AnalyseFile, AddVertex
  <2> HIDE DEF r, fr
  <2>4. TrueReport(r)
    BY <2>2, <2>3 DEF TrueReport
  <2>5. QED
    BY <1>8, <2>2, <2>3, <2>4
<1>11. QED
  BY <1>4, <1>7, <1>9, <1>10 DEF CallStep

LEMMA NameStepTrue == IInv /\ TrueToDisk /\ NameStep => TrueToDisk'
<1> SUFFICES ASSUME IInv, TrueToDisk, NameStep PROVE TrueToDisk'
  OBVIOUS
<1>1. AtName /\ vertices \subseteq Expected
  BY DEF NameStep, SkipPackage, ImportFails, ImportUnresolved, ImportKnown, ImportNew,
         AtName, TrueToDisk, VerticesAreExpected
<1>2. /\ stack \in Seq(Frame) /\ stack # << >> /\ Len(stack) \in Nat \ {0}
      /\ Top = stack[Len(stack)] /\ status = "running" /\ Top.file \in vertices
      /\ Top.file \in File
  BY <1>1, AtNameFacts
<1>3. Len(stack) = 1 /\ stack[1].next = 0 => stack[1].file \in vertices' \cup DtsNamed
  BY <1>1, <1>2 DEF AtName
<1>4. CASE ImportFails
  <2>1. /\ Readable(Top.file) /\ NameNow \in NamesIn(Top.file)
        /\ Top.file \in Expected
    BY <1>1, <1>4, NameAtHand DEF ImportFails
  <2>2. LookUpFails(PathNow)
    BY <1>4 DEF ImportFails, ResolveFails, FirstSeen, LookUpFails
  <2>3. Obstacle
    BY <2>1, <2>2 DEF Obstacle, PathNow
  <2>4. QED
    BY <1>4, <2>3, FailureKept DEF ImportFails
<1>5. ASSUME stack' = NextName
      PROVE  \A k \in 1..Len(stack') : stack'[k].file \in StartFiles \cup Imported
  BY <1>2, <1>5, SameFilesAfterNext DEF TrueToDisk, FramesAreExpected
<1>6. CASE SkipPackage
  <2>1. /\ UNCHANGED <<disk, entries, vertices, cache, out, edges, nextEntry, status>>
        /\ stack' = NextName
    BY <1>6 DEF SkipPackage
  <2>2. EntriesAnswered'
    BY <1>2, <1>3, <2>1, AnsweredKept
  <2>3. Reports' = Reports /\ \A p \in DOMAIN cache' : TrueAnswer(p, cache'[p])
    BY <2>1 DEF Reports, TrueToDisk, AnswersAreTrue
  <2>4. QED
    BY <1>1, <1>2, <1>5, <2>1, <2>2, <2>3, TruthKept
<1>7. CASE ImportUnresolved
  <2>1. /\ UNCHANGED <<disk, entries, vertices, out, edges, nextEntry, status>>
        /\ stack' = NextName /\ cache' = Remember(PathNow, None)
        /\ Resolves(PathNow, None) /\ NameNow \notin PackageDependencies
    BY <1>7 DEF ImportUnresolved
  <2>2. PathNow \in Path
    BY <1>1, <2>1, NameAtHand
  <2>3. \A p \in DOMAIN cache' : TrueAnswer(p, cache'[p])
    BY <2>1, <2>2, ResolvedIsTrue
  <2>4. EntriesAnswered'
    BY <1>2, <1>3, <2>1, AnsweredKept
  <2>5. Reports' = Reports
    BY <2>1 DEF Reports
  <2>6. QED
    BY <1>1, <1>2, <1>5, <2>1, <2>3, <2>4, <2>5, TruthKept
<1>8. ASSUME NEW dep \in File, ImportKnown(dep) PROVE TrueToDisk'
  <2>1. /\ UNCHANGED <<disk, entries, vertices, out, nextEntry, status>>
        /\ stack' = NextName /\ cache' = Remember(PathNow, dep)
        /\ Resolves(PathNow, dep) /\ NameNow \notin PackageDependencies
        /\ edges' = AddEdge(vertices, edges, Top.file, dep)
        /\ dep \in vertices
    BY <1>8 DEF ImportKnown, HasVertex
  <2>2. PathNow \in Path
    BY <1>1, <2>1, NameAtHand
  <2>3. \A p \in DOMAIN cache' : TrueAnswer(p, cache'[p])
    BY <2>1, <2>2, ResolvedIsTrue
  <2>4. EntriesAnswered'
    BY <1>2, <1>3, <2>1, AnsweredKept
  <2>5. Reports' = Reports
    BY <2>1 DEF Reports
  <2>6. dep \in ImportedBy({Top.file})
    BY <1>1, <2>1, DependencyAtHand
  <2>7. \A g, f \in File : <<g, f>> \in edges' => <<g, f>> \in edges \/ TrueEdge(g, f)
    BY <1>2, <2>1, <2>6 DEF AddEdge, TrueEdge
  <2>8. QED
    BY <1>1, <1>2, <1>5, <2>1, <2>3, <2>4, <2>5, <2>7, TruthKept
<1>9. ASSUME NEW dep \in File, ImportNew(dep) PROVE TrueToDisk'
  <2>1. /\ UNCHANGED <<disk, entries, edges, out, nextEntry, status>>
        /\ stack' = Append(stack, Called(dep)) /\ cache' = Remember(PathNow, dep)
        /\ Resolves(PathNow, dep) /\ NameNow \notin PackageDependencies
        /\ vertices' = vertices \cup {dep}
    BY <1>9 DEF ImportNew, AddVertex
  <2>2. PathNow \in Path
    BY <1>1, <2>1, NameAtHand
  <2>3. \A p \in DOMAIN cache' : TrueAnswer(p, cache'[p])
    BY <2>1, <2>2, ResolvedIsTrue
  <2>4. EntriesAnswered'
    BY <1>2, <1>3, <2>1, AnsweredKept
  <2>5. Reports' = Reports
    BY <2>1 DEF Reports
  <2>6. dep \in Imported /\ dep \in Expected
    BY <1>1, <2>1, DependencyAtHand
  <2>7. \A k \in 1..Len(stack') : stack'[k].file \in StartFiles \cup Imported
    <3>1. /\ Len(stack') = Len(stack) + 1
          /\ \A k \in 1..Len(stack) : stack'[k] = stack[k]
          /\ stack'[Len(stack) + 1].file = dep
      BY <1>2, <2>1 DEF Called
    <3>2. \A k \in 1..(Len(stack) + 1) : k \in 1..Len(stack) \/ k = Len(stack) + 1
      BY <1>2
    <3>3. QED
      BY <2>6, <3>1, <3>2 DEF TrueToDisk, FramesAreExpected
  <2>8. vertices \subseteq vertices' /\ vertices' \subseteq Expected
    BY <1>1, <2>1, <2>6
  <2>9. QED
    BY <1>2, <2>1, <2>3, <2>4, <2>5, <2>7, <2>8, TruthKept
<1>10. QED
  BY <1>4, <1>6, <1>7, <1>8, <1>9 DEF NameStep

(***************************************************************************)
(* The edge a caller adds is the import it has been waiting at.            *)
(***************************************************************************)
LEMMA ReturnStepTrue == IInv /\ TrueToDisk /\ ReturnStep => TrueToDisk'
<1> SUFFICES ASSUME IInv, TrueToDisk, ReturnStep PROVE TrueToDisk'
  OBVIOUS
<1>1. /\ UNCHANGED <<disk, entries, vertices, cache, out, nextEntry, status>>
      /\ Reports' = Reports /\ status = "running" /\ vertices \subseteq Expected
      /\ stack \in Seq(Frame) /\ stack # << >>
      /\ Top = stack[Len(stack)] /\ Top.next > Len(Top.names)
  BY DEF ReturnStep, ReturnToCaller, ReturnToEntryLoop, AtReturn, Reports, IInv, TypeOK,
         TrueToDisk, VerticesAreExpected, Top
<1>2. \A p \in DOMAIN cache' : TrueAnswer(p, cache'[p])
  BY <1>1 DEF TrueToDisk, AnswersAreTrue
<1>3. EntriesAnswered'
  <2>1. Top.next # 0
    BY <1>1, TopFrame, FrameFields
  <2>2. QED
    BY <1>1, <2>1, AnsweredKept
<1>4. CASE ReturnToEntryLoop
  <2>1. stack' = << >> /\ edges' = edges
    BY <1>4 DEF ReturnToEntryLoop
  <2>2. QED
    BY <1>1, <1>2, <1>3, <2>1, TruthKept
<1>5. CASE ReturnToCaller
  <2> DEFINE m == Len(stack) - 1
  <2>1. /\ Len(stack) \in Nat /\ Len(stack) > 1
        /\ Len(stack') = m
        /\ \A k \in 1..m : stack'[k].file = stack[k].file
        /\ Caller = stack[m]
        /\ Top.file \in File /\ Caller.file \in File
        /\ Top.file \in vertices /\ Caller.file \in vertices
        /\ Top.file # Caller.file
        /\ Waiting(m)
    BY <1>5, ReturnFacts
  <2>2. /\ m \in 1..Len(stack) /\ m + 1 = Len(stack) /\ m \in Nat
        /\ \A k \in 1..m : k \in 1..Len(stack)
    BY <2>1
  <2> HIDE DEF m
  <2>3. \A k \in 1..Len(stack') : stack'[k].file \in StartFiles \cup Imported
    BY <2>1, <2>2 DEF TrueToDisk, FramesAreExpected
  <2>4. edges' = edges \cup {<<Caller.file, Top.file>>}
    BY <1>5, <2>1 DEF ReturnToCaller, AddEdge
  <2>5. Caller \in Frame /\ Caller.names \in Seq(Name)
    BY <1>1, <2>1, <2>2, FrameFields
  <2> DEFINE n == Caller.names[Caller.next]
  <2>6. /\ Caller.next \in 1..Len(Caller.names)
        /\ n \notin PackageDependencies
        /\ Join[<<Caller.file, n>>] \in DOMAIN cache
        /\ cache[Join[<<Caller.file, n>>]] = Top.file
    BY <1>1, <2>1, <2>2 DEF Waiting
  <2>7. Readable(Caller.file) /\ n \in NamesIn(Caller.file)
    <3> DEFINE r == [file |-> Caller.file, ok |-> TRUE, deps |-> Caller.names]
    <3>1. FrameReported(m)
      BY <2>2 DEF IInv, FramesOK, FrameOK
    <3>2. Caller.names # << >>
      BY <2>5, <2>6
    <3>3. r \in Reports
      BY <2>1, <3>1, <3>2 DEF FrameReported
    <3>4. r.file = Caller.file /\ r.ok /\ r.deps = Caller.names
      OBVIOUS
    <3> HIDE DEF r
    <3>5. TrueReport(r)
      BY <3>3 DEF TrueToDisk, ReportsAreTrue
    <3>6. Caller.file \notin DtsNamed /\ disk[Caller.file] \in Contents
          /\ Caller.names = disk[Caller.file]
      BY <3>4, <3>5 DEF TrueReport
    <3>7. Caller.next \in DOMAIN Caller.names
      BY <2>5, <2>6
    <3>8. QED
      BY <2>6, <3>6, <3>7 DEF Readable, NamesIn
  <2>8. StandsFor(Join[<<Caller.file, n>>], Top.file)
    <3>1. TrueAnswer(Join[<<Caller.file, n>>], Top.file)
      BY <2>6 DEF TrueToDisk, AnswersAreTrue
    <3>2. Top.file # None
      BY <2>1, CrawlAssumption
    <3>3. QED
      BY <3>1, <3>2 DEF TrueAnswer
  <2> HIDE DEF n
  <2>9. Top.file \in ImportedBy({Caller.file})
    BY <2>1, <2>7, <2>8 DEF ImportedBy
  <2>10. \A g, f \in File : <<g, f>> \in edges' => <<g, f>> \in edges \/ TrueEdge(g, f)
    BY <2>1, <2>4, <2>9 DEF TrueEdge
  <2>11. QED
    BY <1>1, <1>2, <1>3, <2>3, <2>10, TruthKept
<1>6. QED
  BY <1>4, <1>5 DEF ReturnStep

LEMMA NextStatic == IInv /\ IInv' /\ StaticInv /\ [Next]_vars => StaticInv'
<1> SUFFICES ASSUME IInv, IInv', TrueToDisk, [Next]_vars, Volatile = {} PROVE TrueToDisk'
  BY DEF StaticInv
<1>1. ASSUME NEW es \in EntryLists, Analyse(es) PROVE TrueToDisk'
  <2>1. entries' \in Seq(Spelling)
    BY DEF IInv, TypeOK
  <2>2. QED
    BY <1>1, <2>1, FreshCallIsTrue DEF Analyse
<1>2. CASE Walk
  BY <1>2, EntryStepTrue, CallStepTrue, NameStepTrue, ReturnStepTrue DEF Walk
<1>3. CASE UNCHANGED vars
  <2>1. UNCHANGED <<disk, entries, vertices, edges, cache, out, nextEntry, stack, status>>
    BY <1>3 DEF vars
  <2>2. Reports' = Reports
    BY <2>1 DEF Reports
  <2>3. /\ \A f : EntryAnswered(f)' <=> EntryAnswered(f)
        /\ \A g, f : TrueEdge(g, f)' <=> TrueEdge(g, f)
    BY <2>1, SameDisk DEF EntryAnswered, TrueEdge
  <2>4. QED
    BY <2>1, <2>2, <2>3, SameDisk
       DEF TrueToDisk, AnswersAreTrue, ReportsAreTrue, FramesAreExpected,
           VerticesAreExpected, EdgesAreImports, EntriesAnswered, FailureHasCause
<1>4. QED
  BY <1>1, <1>2, <1>3 DEF Next

LEMMA InitStatic == Init => StaticInv
<1> SUFFICES ASSUME Init PROVE TrueToDisk
  BY DEF StaticInv
<1>1. /\ status = "idle" /\ cache = << >> /\ out = << >> /\ stack = << >>
  BY DEF Init
<1>2. Reports = {}
  BY <1>1 DEF Reports
<1>3. QED
  BY <1>1, <1>2
     DEF TrueToDisk, AnswersAreTrue, ReportsAreTrue, FramesAreExpected,
         VerticesAreExpected, EdgesAreImports, EntriesAnswered, FailureHasCause

-----------------------------------------------------------------------------
(***************************************************************************)
(* The result of a completed call.                                         *)
(***************************************************************************)
LEMMA EverythingIsFollowed ==
    ASSUME IInv, EndReached, TrueToDisk, status = "done",
           NEW f \in vertices \cup StartFiles, Readable(f), NEW n \in NamesIn(f)
    PROVE  /\ f \in vertices
           /\ Join[<<f, n>>] \in DOMAIN cache
           /\ \A g \in File : StandsFor(Join[<<f, n>>], g) =>
                 g \in vertices /\ (g # f => <<f, g>> \in edges)
<1>1. stack = << >> /\ Len(stack) = 0 /\ nextEntry > Len(entries) /\ TypeOK
  BY DEF IInv, NoFramesAtRest, EndReached
<1>2. f \notin DtsNamed /\ disk[f] \in Contents
  BY DEF Readable
<1>3. f \in vertices
  <2>1. ASSUME f \in StartFiles PROVE f \in vertices
    <3>1. PICK i \in 1..Len(entries) : f = Normal[entries[i]]
      BY <2>1 DEF StartFiles, EntryFiles
    <3>2. i < nextEntry
      BY <1>1, <3>1 DEF TypeOK
    <3>3. EntryAnswered(f)
      BY <3>1, <3>2 DEF TrueToDisk, EntriesAnswered
    <3>4. QED
      BY <1>1, <1>2, <2>1, <3>3 DEF EntryAnswered
  <2>2. QED
    BY <2>1
<1>4. f \in ReportedFiles
  BY <1>1, <1>2, <1>3 DEF IInv, NoSilentVertex
<1>5. PICK r \in Reports : r.file = f
  BY <1>4 DEF ReportedFiles
<1>6. TrueReport(r)
  BY DEF TrueToDisk, ReportsAreTrue
<1>7. r.deps = disk[f]
  <2>1. Unparsable \notin Contents
    BY CrawlAssumption DEF Trouble
  <2>2. QED
    BY <1>2, <1>5, <1>6, <2>1 DEF TrueReport
<1>8. PICK j \in DOMAIN disk[f] : n = disk[f][j]
  BY DEF NamesIn
<1>9. j \in 1..Len(r.deps) /\ n \notin PackageDependencies
  <2>1. disk[f] \in Seq(Name)
    BY <1>2, CrawlAssumption
  <2>2. QED
    BY <1>7, <1>8, <2>1 DEF NamesIn
<1>10. Settled(f, n)
  BY <1>1, <1>5, <1>7, <1>8, <1>9 DEF IInv, NoLostImport
<1> DEFINE p == Join[<<f, n>>]
<1>11. /\ p \in DOMAIN cache
       /\ cache[p] \in {None, f} \/ <<f, cache[p]>> \in edges
  BY <1>9, <1>10 DEF Settled, SettledIn
<1>12. TrueAnswer(p, cache[p]) /\ p \in Path
  BY <1>1, <1>11 DEF TrueToDisk, AnswersAreTrue, TypeOK
<1> HIDE DEF p
<1>13. ASSUME NEW g \in File, StandsFor(p, g)
       PROVE  g \in vertices /\ (g # f => <<f, g>> \in edges)
  <2>1. cache[p] = g /\ g # None
    BY <1>12, <1>13, OneAnswer, CrawlAssumption
  <2>2. g # f => <<f, g>> \in edges
    BY <1>11, <2>1
  <2>3. f \in File
    BY <1>1, <1>3 DEF TypeOK
  <2>4. <<f, g>> \in edges => g \in vertices
    BY <2>3 DEF TrueToDisk, EdgesAreImports, TrueEdge
  <2>5. QED
    BY <1>3, <2>2, <2>4
<1>14. QED
  BY <1>3, <1>11, <1>13 DEF p

LEMMA ReachableIsWalked ==
    ASSUME IInv, EndReached, TrueToDisk, status = "done"
    PROVE  vertices = Expected /\ ReportedFiles = Expected \ DtsNamed
<1>1. stack = << >> /\ Len(stack) = 0 /\ nextEntry > Len(entries) /\ TypeOK
  BY DEF IInv, NoFramesAtRest, EndReached
<1>2. vertices \subseteq Expected /\ vertices \subseteq File
  BY <1>1 DEF TrueToDisk, VerticesAreExpected, TypeOK
<1>3. ImportedBy(vertices \cup StartFiles) \subseteq vertices
  BY EverythingIsFollowed DEF ImportedBy
<1>4. Imported \subseteq vertices
  BY <1>2, <1>3 DEF Imported
<1>5. StartFiles \ DtsNamed \subseteq vertices
  <2> SUFFICES ASSUME NEW f \in StartFiles, f \notin DtsNamed PROVE f \in vertices
    OBVIOUS
  <2>1. PICK i \in 1..Len(entries) : f = Normal[entries[i]]
    BY DEF StartFiles, EntryFiles
  <2>2. i < nextEntry
    BY <1>1, <2>1 DEF TypeOK
  <2>3. EntryAnswered(f)
    BY <2>1, <2>2 DEF TrueToDisk, EntriesAnswered
  <2>4. QED
    BY <1>1, <2>3 DEF EntryAnswered
<1>6. vertices = Expected
  BY <1>2, <1>4, <1>5 DEF Expected
<1>7. ReportedFiles \subseteq Expected \ DtsNamed
  BY <1>6 DEF IInv, ReportedAreVertices, ReportedFiles, TrueToDisk, ReportsAreTrue, TrueReport
<1>8. Expected \ DtsNamed \subseteq ReportedFiles
  BY <1>1, <1>6 DEF IInv, NoSilentVertex
<1>9. QED
  BY <1>6, <1>7, <1>8

LEMMA ResultIsExact == IInv /\ EndReached /\ TrueToDisk => WalkIsExact
<1> SUFFICES ASSUME IInv, EndReached, TrueToDisk, status = "done"
             PROVE  edges = {x \in Expected \X Expected :
                               x[2] \in ImportedBy({x[1]}) \ {x[1]}}
  BY ReachableIsWalked DEF WalkIsExact
<1>1. vertices = Expected /\ vertices \subseteq File /\ edges \subseteq File \X File
  BY ReachableIsWalked DEF IInv, TypeOK
<1>2. \A g, f \in File : <<g, f>> \in edges =>
         g \in Expected /\ f \in Expected /\ f # g /\ f \in ImportedBy({g})
  BY <1>1 DEF TrueToDisk, EdgesAreImports, TrueEdge
<1>3. ASSUME NEW g \in Expected, NEW f \in Expected, f \in ImportedBy({g}), f # g
      PROVE  <<g, f>> \in edges
  <2>1. PICK n \in NamesIn(g) : Readable(g) /\ StandsFor(Join[<<g, n>>], f)
    BY <1>3 DEF ImportedBy
  <2>2. g \in vertices \cup StartFiles /\ f \in File
    BY <1>1
  <2>3. QED
    BY <1>3, <2>1, <2>2, EverythingIsFollowed
<1>4. QED
  BY <1>1, <1>2, <1>3

LEMMA FailureIsCaused == IInv /\ EndReached /\ TrueToDisk => FailsForCause
<1> SUFFICES ASSUME IInv, EndReached, TrueToDisk PROVE FailsForCause
  OBVIOUS
<1>1. status = "failed" => Obstacle
  BY DEF TrueToDisk, FailureHasCause
<1>2. ASSUME status = "done", Obstacle PROVE FALSE
  <2>1. /\ vertices = Expected /\ ReportedFiles = Expected \ DtsNamed
        /\ nextEntry > Len(entries) /\ TypeOK
    BY <1>2, ReachableIsWalked DEF EndReached, IInv
  <2>2. CASE IgnoreEnoent /\ \E f \in EntryFiles : disk[f] = StatError
    <3>1. PICK i \in 1..Len(entries) : disk[Normal[entries[i]]] = StatError
      BY <2>2 DEF EntryFiles
    <3>2. i < nextEntry
      BY <2>1 DEF TypeOK
    <3>3. EntryAnswered(Normal[entries[i]])
      BY <1>2, <3>2 DEF TrueToDisk, EntriesAnswered
    <3>4. QED
      BY <2>2, <3>1, <3>3 DEF EntryAnswered
  <2>3. CASE \E f \in Expected \ DtsNamed : disk[f] \in {Absent, StatError, Unreadable}
    <3>1. PICK r \in Reports : disk[r.file] \in {Absent, StatError, Unreadable}
      BY <2>1, <2>3 DEF ReportedFiles
    <3>2. TrueReport(r)
      BY DEF TrueToDisk, ReportsAreTrue
    <3>3. \A d \in {Absent, StatError, Unreadable} : d \notin Contents /\ d # Unparsable
      BY CrawlAssumption, TroubleAssumption DEF Trouble
    <3>4. QED
      BY <3>1, <3>2, <3>3 DEF TrueReport
  <2>4. CASE \E f \in Expected : Readable(f) /\ \E n \in NamesIn(f) :
                LookUpFails(Join[<<f, n>>])
    <3>1. PICK f \in Expected : Readable(f) /\ \E n \in NamesIn(f) :
                LookUpFails(Join[<<f, n>>])
      BY <2>4
    <3>2. PICK n \in NamesIn(f) : LookUpFails(Join[<<f, n>>])
      BY <3>1
    <3>3. f \in vertices \cup StartFiles
      BY <2>1
    <3>4. Join[<<f, n>>] \in DOMAIN cache
      BY <1>2, <3>1, <3>3, EverythingIsFollowed
    <3>5. Join[<<f, n>>] \in Path /\ TrueAnswer(Join[<<f, n>>], cache[Join[<<f, n>>]])
      BY <2>1, <3>4 DEF TypeOK, TrueToDisk, AnswersAreTrue
    <3>6. QED
      BY <3>2, <3>5, OneAnswer
  <2>5. QED
    BY <1>2, <2>2, <2>3, <2>4 DEF Obstacle
<1>3. QED
  BY <1>1, <1>2 DEF FailsForCause

LEMMA EndInvariance == Spec => []EndReached
<1>1. Init => EndReached
  BY DEF Init, EndReached
<1>2. QED
  BY <1>1, EndStaysReached, PTL DEF Spec

LEMMA StaticInvariance == Spec => []StaticInv
BY InitStatic, NextStatic, Invariance, PTL DEF Spec

(***************************************************************************)
(* When no file changes during a call, the graph of a completed call is    *)
(* exactly the part of the import relation that the entry files reach, and *)
(* every file of it that is not skipped has a report, whatever the number  *)
(* of files, the cycles among them and the order of their imports.         *)
(***************************************************************************)
THEOREM GraphIsExact ==
    ASSUME Volatile = {}
    PROVE  Spec => []WalkIsExact
<1>1. IInv /\ EndReached /\ StaticInv => WalkIsExact
  BY ResultIsExact DEF StaticInv
<1>2. QED
  BY <1>1, Invariance, EndInvariance, StaticInvariance, PTL

(***************************************************************************)
(* When no file changes during a call, it fails only for an obstacle on    *)
(* its way, and it completes only if there is none.                        *)
(***************************************************************************)
THEOREM FailuresHaveCauses ==
    ASSUME Volatile = {}
    PROVE  Spec => []FailsForCause
<1>1. IInv /\ EndReached /\ StaticInv => FailsForCause
  BY FailureIsCaused DEF StaticInv
<1>2. QED
  BY <1>1, Invariance, EndInvariance, StaticInvariance, PTL
=============================================================================
