-------------------------- MODULE SourceWalk_proofs --------------------------
(***************************************************************************)
(* For any trees, any calls of analyse one after or inside another and a   *)
(* panic at any moment: the types of SourceWalk, the places remembered for *)
(* encoded literals, the agreement of report and registry, that nothing    *)
(* collected is lost but by a panic, and the flag for try statements.      *)
(***************************************************************************)
EXTENDS SourceWalk, SequenceTheorems, TLAPS

(***************************************************************************)
(* Types.                                                                  *)
(***************************************************************************)
Partial(S, T) == UNION {[D -> T] : D \in SUBSET S}
Report == [unsafe : BOOLEAN, inTry : BOOLEAN]
WarningKind == {"unsafe-import", "unsafe-stmt", "encoded-literal"}
Warned == [kind : WarningKind, value : Value, places : Nat]
Place == Nat
Collected == Seq(Entry) \cup {NoSets}
SourceFile == [inTry : BOOLEAN, dependencies : Partial(Names, Report),
               collected : Collected, warnings : Seq(Warned),
               encoded : Partial(Value, Place)]
Frame == {fr \in [tree : Tree, at : Nat] : fr.at \in 1..(Len(fr.tree) + 1)}

LEMMA WithIsPartial ==
    ASSUME NEW S, NEW T, NEW f \in Partial(S, T), NEW x \in S, NEW y \in T
    PROVE  With(f, x, y) \in Partial(S, T)
<1>1. PICK D \in SUBSET S : f \in [D -> T]
  BY DEF Partial
<1>2. With(f, x, y) \in [D \cup {x} -> T]
  BY <1>1 DEF With
<1>3. D \cup {x} \in SUBSET S
  BY <1>1
<1> QED
  BY <1>2, <1>3 DEF Partial

LEMMA EmptyIsPartial ==
    ASSUME NEW S, NEW T
    PROVE  << >> \in Partial(S, T)
<1>1. << >> \in [{} -> T]
  OBVIOUS
<1> QED
  BY <1>1 DEF Partial

(***************************************************************************)
(* What every step of a run keeps of its SourceFile, and what it may do to *)
(* the set it collects into.                                               *)
(***************************************************************************)
Sound(src) == src \in SourceFile /\ PlacesHold(src) /\ Agrees(src, src.collected)
Grown(held, new) ==
    new = held \/ (held \in Seq(Entry) /\ \E e \in Entry : new = Append(held, e))
Kept(src, new) == Sound(new) /\ Grown(src.collected, new.collected)

LEMMA NewSourceIsSound ==
    ASSUME NEW held \in Collected
    PROVE  Sound(NewSource(held)) /\ NewSource(held).collected = held
<1>1. << >> \in Partial(Names, Report) /\ << >> \in Partial(Value, Place)
  BY EmptyIsPartial
<1>2. << >> \in Seq(Warned)
  OBVIOUS
<1>3. NewSource(held) \in SourceFile
  BY <1>1, <1>2 DEF NewSource, SourceFile
<1>4. DOMAIN NewSource(held).dependencies = {} /\ DOMAIN NewSource(held).encoded = {}
  BY DEF NewSource
<1> QED
  BY <1>3, <1>4 DEF Sound, PlacesHold, Agrees, NewSource

(* Another warning leaves the places of those before it. *)
LEMMA WarnKeeps ==
    ASSUME NEW src, Sound(src), NEW kind \in WarningKind, NEW value \in Value
    PROVE  /\ Sound(Warn(src, kind, value))
           /\ Warn(src, kind, value).collected = src.collected
           /\ Warn(src, kind, value).encoded = src.encoded
           /\ Warn(src, kind, value).warnings = Append(src.warnings, Warning(kind, value))
           /\ Len(Warn(src, kind, value).warnings) = Len(src.warnings) + 1
<1> DEFINE new == Warn(src, kind, value)
<1>1. src \in SourceFile
  BY DEF Sound
<1>2. Warning(kind, value) \in Warned
  BY DEF Warning, Warned
<1>3. src.warnings \in Seq(Warned)
  BY <1>1 DEF SourceFile
<1>4. /\ Append(src.warnings, Warning(kind, value)) \in Seq(Warned)
      /\ Len(Append(src.warnings, Warning(kind, value))) = Len(src.warnings) + 1
      /\ \A i \in 1..Len(src.warnings) :
            Append(src.warnings, Warning(kind, value))[i] = src.warnings[i]
      /\ DOMAIN src.warnings = 1..Len(src.warnings)
      /\ DOMAIN Append(src.warnings, Warning(kind, value)) = 1..(Len(src.warnings) + 1)
      /\ Len(src.warnings) \in Nat
  BY <1>2, <1>3
<1>5. /\ new \in SourceFile
      /\ new.warnings = Append(src.warnings, Warning(kind, value))
      /\ new.collected = src.collected /\ new.encoded = src.encoded
      /\ new.dependencies = src.dependencies
  BY <1>1, <1>4 DEF Warn, SourceFile
<1>6. PlacesHold(new)
  <2> SUFFICES ASSUME NEW v \in DOMAIN new.encoded
               PROVE  /\ new.encoded[v] \in DOMAIN new.warnings
                      /\ new.warnings[new.encoded[v]].kind = "encoded-literal"
                      /\ new.warnings[new.encoded[v]].value = v
    BY DEF PlacesHold
  <2>1. /\ src.encoded[v] \in 1..Len(src.warnings)
        /\ src.warnings[src.encoded[v]].kind = "encoded-literal"
        /\ src.warnings[src.encoded[v]].value = v
    BY <1>4, <1>5 DEF Sound, PlacesHold
  <2> QED
    BY <2>1, <1>4, <1>5
<1>7. Agrees(new, new.collected)
  BY <1>5 DEF Sound, Agrees
<1> QED
  BY <1>4, <1>5, <1>6, <1>7 DEF Sound

(* The latest entry of the set is the one the report keeps. *)
LEMMA AppendTellsLast ==
    ASSUME NEW held \in Seq(Entry), NEW e \in Entry
    PROVE  /\ ToldLast(Append(held, e), e.name, [unsafe |-> e.unsafe, inTry |-> e.inTry])
           /\ \A name, report : name # e.name /\ ToldLast(held, name, report)
                 => ToldLast(Append(held, e), name, report)
<1> DEFINE new == Append(held, e)
<1>1. /\ Len(held) \in Nat /\ DOMAIN held = 1..Len(held)
      /\ DOMAIN new = 1..(Len(held) + 1)
      /\ \A i \in 1..Len(held) : new[i] = held[i]
      /\ new[Len(held) + 1] = e
  OBVIOUS
<1>2. e = [name |-> e.name, unsafe |-> e.unsafe, inTry |-> e.inTry]
  BY DEF Entry
<1> HIDE DEF new
<1>3. ToldLast(new, e.name, [unsafe |-> e.unsafe, inTry |-> e.inTry])
  <2>1. new[Len(held) + 1] = [name |-> e.name, unsafe |-> e.unsafe, inTry |-> e.inTry]
    BY <1>1, <1>2
  <2>2. \A j \in DOMAIN new : ~(j > Len(held) + 1)
    BY <1>1
  <2>3. Len(held) + 1 \in DOMAIN new
    BY <1>1
  <2> QED
    BY <2>1, <2>2, <2>3 DEF ToldLast
<1>4. ASSUME NEW name, NEW report, name # e.name, ToldLast(held, name, report)
      PROVE  ToldLast(new, name, report)
  <2>1. PICK i \in DOMAIN held :
          /\ held[i] = [name |-> name, unsafe |-> report.unsafe, inTry |-> report.inTry]
          /\ \A j \in DOMAIN held : j > i => held[j].name # name
    BY <1>4 DEF ToldLast
  <2>2. i \in DOMAIN new /\ new[i] = held[i]
    BY <1>1
  <2>3. \A j \in DOMAIN new : j > i => new[j].name # name
    BY <1>1, <1>4, <2>1
  <2> QED
    BY <2>1, <2>2, <2>3 DEF ToldLast
<1> QED
  BY <1>3, <1>4 DEF new

(***************************************************************************)
(* add_dependency_with: report and set change together, or neither does,   *)
(* or there is no set, or the name is the package's own.                   *)
(***************************************************************************)
LEMMA AddDependencyKeeps ==
    ASSUME NEW src, Sound(src), NEW written \in DOMAIN Cleaned,
           NEW unsafe \in BOOLEAN, NEW auto \in BOOLEAN
    PROVE  Kept(src, AddDependency(src, written, unsafe, auto))
<1> DEFINE name == Cleaned[written]
           report == [unsafe |-> unsafe, inTry |-> src.inTry]
           e == [name |-> name, unsafe |-> unsafe, inTry |-> src.inTry]
           collected == IF name = OwnName \/ src.collected = NoSets THEN src.collected
                        ELSE Append(src.collected, e)
           dependencies == With(src.dependencies, name, report)
           listed == [src EXCEPT !.dependencies = dependencies, !.collected = collected]
<1>1. src \in SourceFile
  BY DEF Sound
<1>2. CASE name = Blank
  BY <1>2 DEF AddDependency, Kept, Grown
<1>3. CASE name # Blank
  <2>1. name \in Names
    BY <1>3 DEF Names
  <2>2. report \in Report /\ e \in Entry
    BY <1>1, <2>1 DEF Report, Entry, SourceFile
  <2>3. /\ src.dependencies \in Partial(Names, Report)
        /\ src.collected \in Collected /\ src.warnings \in Seq(Warned)
        /\ src.encoded \in Partial(Value, Place) /\ src.inTry \in BOOLEAN
    BY <1>1 DEF SourceFile
  <2>4. /\ dependencies \in Partial(Names, Report)
        /\ DOMAIN dependencies = DOMAIN src.dependencies \cup {name}
        /\ dependencies[name] = report
        /\ \A z \in DOMAIN src.dependencies \ {name} : dependencies[z] = src.dependencies[z]
    <3> HIDE DEF name, report
    <3>1. dependencies \in Partial(Names, Report)
      BY <2>1, <2>2, <2>3, WithIsPartial
    <3> QED
      BY <3>1 DEF With
  <2>5. collected \in Collected /\ Grown(src.collected, collected)
    BY <2>2, <2>3 DEF Collected, Grown
  <2> HIDE DEF dependencies, collected
  <2>6. /\ listed \in SourceFile
        /\ listed.dependencies = dependencies /\ listed.collected = collected
        /\ listed.warnings = src.warnings /\ listed.encoded = src.encoded
    BY <1>1, <2>4, <2>5 DEF SourceFile
  <2>7. PlacesHold(listed)
    BY <2>6 DEF Sound, PlacesHold
  <2>8. Agrees(listed, collected)
    <3> SUFFICES ASSUME collected # NoSets, NEW z \in DOMAIN dependencies \ {OwnName}
                 PROVE  ToldLast(collected, z, dependencies[z])
      BY <2>6 DEF Agrees
    <3>1. src.collected # NoSets
      BY DEF collected
    <3>2. src.collected \in Seq(Entry)
      BY <3>1, <2>3 DEF Collected
    <3>3. z # name => ToldLast(src.collected, z, src.dependencies[z])
      BY <3>1, <2>4 DEF Sound, Agrees
    <3>4. CASE name = OwnName
      BY <3>3, <3>4, <2>4 DEF collected
    <3>5. CASE name # OwnName
      <4>1. collected = Append(src.collected, e)
        BY <3>1, <3>5 DEF collected
      <4>2. e.name = name /\ [unsafe |-> e.unsafe, inTry |-> e.inTry] = report
        OBVIOUS
      <4>3. CASE z = name
        BY <4>1, <4>2, <4>3, <3>2, <2>2, <2>4, AppendTellsLast
      <4>4. CASE z # name
        <5> HIDE DEF e
        <5>1. ToldLast(Append(src.collected, e), z, src.dependencies[z])
          BY <4>2, <4>4, <3>2, <3>3, <2>2, AppendTellsLast
        <5>2. dependencies[z] = src.dependencies[z]
          BY <4>4, <2>4
        <5> QED
          BY <4>1, <5>1, <5>2
      <4> QED
        BY <4>3, <4>4
    <3> QED
      BY <3>4, <3>5
  <2>9. Sound(listed)
    BY <2>6, <2>7, <2>8 DEF Sound
  <2>10. AddDependency(src, written, unsafe, auto) =
            IF auto THEN Warn(listed, "unsafe-import", name) ELSE listed
    BY <1>3 DEF AddDependency, dependencies, collected
  <2>11. name \in Value /\ "unsafe-import" \in WarningKind
    BY <2>1, SourceAssumption DEF Value, WarningKind
  <2>12. Kept(src, Warn(listed, "unsafe-import", name))
    BY <2>5, <2>6, <2>9, <2>11, WarnKeeps DEF Kept, WarningKind
  <2>13. Kept(src, listed)
    BY <2>5, <2>6, <2>9 DEF Kept
  <2> QED
    BY <2>10, <2>12, <2>13
<1> QED
  BY <1>2, <1>3

(* add_encoded_literal: its own warning, or one more place in it. *)
LEMMA AddEncodedLiteralKeeps ==
    ASSUME NEW src, Sound(src), NEW value \in Value
    PROVE  Kept(src, AddEncodedLiteral(src, value))
<1>1. /\ src \in SourceFile
      /\ src.warnings \in Seq(Warned) /\ src.encoded \in Partial(Value, Place)
  BY DEF Sound, SourceFile
<1>2. CASE Cardinality(DOMAIN src.encoded) > MaxEncoded
  BY <1>2 DEF AddEncodedLiteral, Kept, Grown
<1>3. CASE ~(Cardinality(DOMAIN src.encoded) > MaxEncoded) /\ value \in DOMAIN src.encoded
  <2> DEFINE place == src.encoded[value]
             w == src.warnings[place]
             more == [w EXCEPT !.places = @ + 1]
             warnings == [src.warnings EXCEPT ![place] = more]
             new == [src EXCEPT !.warnings = warnings]
  <2>1. AddEncodedLiteral(src, value) = new
    BY <1>3 DEF AddEncodedLiteral
  <2>2. place \in 1..Len(src.warnings) /\ DOMAIN src.warnings = 1..Len(src.warnings)
    BY <1>1, <1>3 DEF Sound, PlacesHold
  <2>3. w \in Warned
    BY <1>1, <2>2
  <2>4. more \in Warned /\ more.kind = w.kind /\ more.value = w.value
    BY <2>3 DEF Warned
  <2> HIDE DEF more
  <2>5. /\ warnings \in Seq(Warned)
        /\ DOMAIN warnings = DOMAIN src.warnings
        /\ \A i \in DOMAIN warnings : warnings[i] = IF i = place THEN more ELSE src.warnings[i]
    BY <1>1, <2>2, <2>4
  <2> HIDE DEF warnings
  <2>6. /\ new \in SourceFile /\ new.warnings = warnings /\ new.encoded = src.encoded
        /\ new.collected = src.collected /\ new.dependencies = src.dependencies
    BY <1>1, <2>5 DEF SourceFile
  <2>7. PlacesHold(new)
    BY <2>4, <2>5, <2>6 DEF Sound, PlacesHold
  <2>8. Agrees(new, new.collected)
    BY <2>6 DEF Sound, Agrees
  <2> QED
    BY <2>1, <2>6, <2>7, <2>8 DEF Kept, Sound, Grown
<1>4. CASE ~(Cardinality(DOMAIN src.encoded) > MaxEncoded) /\ value \notin DOMAIN src.encoded
  <2> DEFINE warned == Warn(src, "encoded-literal", value)
             encoded == With(src.encoded, value, Len(warned.warnings))
             new == [warned EXCEPT !.encoded = encoded]
  <2>1. AddEncodedLiteral(src, value) = [warned EXCEPT !.encoded = With(@, value, Len(warned.warnings))]
    BY <1>4 DEF AddEncodedLiteral, IndexOfLast
  <2>a. "encoded-literal" \in WarningKind
    BY DEF WarningKind
  <2>2. /\ Sound(warned) /\ warned.collected = src.collected /\ warned.encoded = src.encoded
        /\ warned.warnings = Append(src.warnings, Warning("encoded-literal", value))
        /\ Len(warned.warnings) = Len(src.warnings) + 1
    BY <2>a, WarnKeeps
  <2> HIDE DEF warned
  <2>3. warned \in SourceFile /\ warned.warnings \in Seq(Warned)
    BY <2>2 DEF Sound, SourceFile
  <2>4. /\ DOMAIN warned.warnings = 1..Len(warned.warnings) /\ Len(warned.warnings) \in Nat
        /\ Len(warned.warnings) \in DOMAIN warned.warnings
        /\ warned.warnings[Len(warned.warnings)] = Warning("encoded-literal", value)
    BY <1>1, <2>2, <2>3
  <2>5. /\ encoded \in Partial(Value, Place)
        /\ DOMAIN encoded = DOMAIN src.encoded \cup {value}
        /\ encoded[value] = Len(warned.warnings)
        /\ \A z \in DOMAIN src.encoded \ {value} : encoded[z] = src.encoded[z]
    <3>1. Len(warned.warnings) \in Place /\ src.encoded \in Partial(Value, Place)
      BY <1>1, <2>4 DEF Place
    <3>2. encoded \in Partial(Value, Place)
      BY <3>1, WithIsPartial
    <3> QED
      BY <3>2 DEF With
  <2>6. AddEncodedLiteral(src, value) = new
    BY <2>1, <2>2
  <2> HIDE DEF encoded
  <2>7. /\ new \in SourceFile /\ new.warnings = warned.warnings /\ new.encoded = encoded
        /\ new.collected = src.collected /\ new.dependencies = warned.dependencies
    BY <2>2, <2>3, <2>5 DEF SourceFile
  <2>8. PlacesHold(new)
    <3> SUFFICES ASSUME NEW v \in DOMAIN encoded
                 PROVE  /\ encoded[v] \in DOMAIN warned.warnings
                        /\ warned.warnings[encoded[v]].kind = "encoded-literal"
                        /\ warned.warnings[encoded[v]].value = v
      BY <2>7 DEF PlacesHold
    <3>1. CASE v = value
      BY <3>1, <2>4, <2>5 DEF Warning
    <3>2. CASE v # value
      <4>1. v \in DOMAIN warned.encoded /\ encoded[v] = warned.encoded[v]
        BY <3>2, <2>2, <2>5
      <4> QED
        BY <4>1, <2>2 DEF Sound, PlacesHold
    <3> QED
      BY <3>1, <3>2
  <2>9. Agrees(new, new.collected)
    BY <2>2, <2>7 DEF Sound, Agrees
  <2> QED
    BY <2>6, <2>7, <2>8, <2>9 DEF Kept, Sound, Grown
<1> QED
  BY <1>2, <1>3, <1>4

(* walk_bookkeeping changes the flag only. *)
LEMMA BookkeptKeeps ==
    ASSUME NEW src, Sound(src), NEW node
    PROVE  Sound(Bookkept(src, node)) /\ Bookkept(src, node).collected = src.collected
<1>1. src \in SourceFile
  BY DEF Sound
<1>2. ASSUME NEW b \in BOOLEAN
      PROVE  Sound([src EXCEPT !.inTry = b]) /\ [src EXCEPT !.inTry = b].collected = src.collected
  <2> DEFINE new == [src EXCEPT !.inTry = b]
  <2>1. /\ new \in SourceFile /\ new.warnings = src.warnings /\ new.encoded = src.encoded
        /\ new.collected = src.collected /\ new.dependencies = src.dependencies
    BY <1>1 DEF SourceFile
  <2> HIDE DEF new
  <2>2. PlacesHold(new)
    BY <2>1 DEF Sound, PlacesHold
  <2>3. Agrees(new, new.collected)
    BY <2>1 DEF Sound, Agrees
  <2>4. Sound(new) /\ new.collected = src.collected
    BY <2>1, <2>2, <2>3 DEF Sound
  <2> QED
    BY <2>4 DEF new
<1> QED
  BY <1>2 DEF Bookkept

(* Whatever a node is, its probes keep the SourceFile sound. *)
LEMMA ProbedKeeps ==
    ASSUME NEW src, Sound(src), NEW node \in SyntaxNode,
           node.kind \in DependencyKind => node.name \in DOMAIN Cleaned
    PROVE  Kept(src, Probed(src, node))
<1>1. node.kind \in Kind /\ node.name \in Value /\ NotJs \in Value
  BY DEF SyntaxNode, Value
<1>2. ASSUME NEW mid, Kept(src, mid)
      PROVE  /\ Kept(src, Warn(mid, "unsafe-import", NotJs))
             /\ Kept(src, Warn(mid, "unsafe-stmt", NotJs))
  BY <1>1, <1>2, WarnKeeps DEF Kept, WarningKind
<1>3. ASSUME node.kind \in DependencyKind, NEW unsafe \in BOOLEAN, NEW auto \in BOOLEAN
      PROVE  Kept(src, AddDependency(src, node.name, unsafe, auto))
  BY <1>3, AddDependencyKeeps
<1>4. Kept(src, src)
  BY DEF Kept, Grown
<1>5. CASE node.kind = "Import"
  BY <1>3, <1>5 DEF Probed, DependencyKind
<1>6. CASE node.kind = "Joined"
  BY <1>3, <1>6 DEF Probed, DependencyKind
<1>7. CASE node.kind = "Built"
  <2>1. Probed(src, node) = Warn(AddDependency(src, node.name, TRUE, FALSE), "unsafe-import", NotJs)
    BY <1>7 DEF Probed
  <2>2. Kept(src, AddDependency(src, node.name, TRUE, FALSE))
    BY <1>3, <1>7 DEF DependencyKind
  <2> QED
    BY <1>2, <2>1, <2>2
<1>8. CASE node.kind = "RequireByEval"
  <2>1. Probed(src, node) = Warn(AddDependency(src, node.name, TRUE, TRUE), "unsafe-stmt", NotJs)
    BY <1>8 DEF Probed
  <2>2. Kept(src, AddDependency(src, node.name, TRUE, TRUE))
    BY <1>3, <1>8 DEF DependencyKind
  <2> QED
    BY <1>2, <2>1, <2>2
<1>9. CASE node.kind = "Eval"
  BY <1>2, <1>4, <1>9 DEF Probed
<1>10. CASE node.kind = "Encoded"
  BY <1>1, <1>10, AddEncodedLiteralKeeps DEF Probed
<1>11. CASE node.kind \notin {"Import", "Joined", "Built", "RequireByEval", "Eval", "Encoded"}
  BY <1>4, <1>11 DEF Probed
<1> QED
  BY <1>5, <1>6, <1>7, <1>8, <1>9, <1>10, <1>11

(***************************************************************************)
(* The inductive invariant.  A run that waits for another has all that the *)
(* running one has; only the outermost of them may have the sets, since    *)
(* each run finds what the one around it has left in the analyser.  Below  *)
(* the running call of walk_ast every call is at the eval it walks into.   *)
(***************************************************************************)
Stack == {fs \in Seq(Frame) :
            fs # << >> /\ \A k \in 1..(Len(fs) - 1) : fs[k].at <= Len(fs[k].tree)}
Run == [program : Program, source : SourceFile, frames : Stack, nested : BOOLEAN]

Types ==
    /\ registry \in Collected
    /\ outer \in Seq(Run)
    /\ panicked \in BOOLEAN
    /\ nested \in BOOLEAN
    /\ runs \in 0..MaxRuns
    /\ phase \in {"idle", "walking", "done", "failed"}

Resting ==
    /\ source.collected = << >> /\ frames = << >> /\ outer = << >>
    /\ source.inTry \in BOOLEAN
    /\ DOMAIN source.dependencies \subseteq Names

Walking ==
    /\ program \in Program
    /\ Sound(source)
    /\ frames \in Stack
    /\ registry = NoSets
    /\ \A i \in 1..Len(outer) : Sound(outer[i].source)

OutermostHolds ==
    /\ outer # << >> => source.collected = NoSets
    /\ \A i \in 1..Len(outer) : i > 1 => outer[i].source.collected = NoSets

SourceInv ==
    /\ Types
    /\ phase = "walking" => Walking
    /\ phase # "walking" => Resting
    /\ OutermostHolds
    /\ phase = "done" => Agrees(source, registry)
    /\ Held = NoSets => panicked
    /\ panicked => Held = NoSets

(* What a step does to the set that outlives it. *)
HeldGrows == panicked' \/ Grown(Held, Held')
Preserved == SourceInv' /\ HeldGrows

LEMMA InitSourceInv == Init => SourceInv
<1> SUFFICES ASSUME Init PROVE SourceInv
  OBVIOUS
<1>1. << >> \in Collected /\ << >> \in Seq(Run) /\ << >> # NoSets
  <2>1. << >> \in Seq(Entry) /\ << >> \in Seq(Run)
    OBVIOUS
  <2>2. NoSets \notin Seq(Entry)
    BY SourceAssumption
  <2> QED
    BY <2>1, <2>2 DEF Collected
<1>2. Sound(source) /\ source.collected = << >>
  BY <1>1, NewSourceIsSound DEF Init
<1>3. source.inTry \in BOOLEAN /\ DOMAIN source.dependencies \subseteq Names
  BY DEF Init, NewSource
<1>4. Types
  <2>1. 0 \in 0..MaxRuns
    BY SourceAssumption
  <2> QED
    BY <1>1, <2>1 DEF Init, Types
<1>5. Resting
  BY <1>2, <1>3 DEF Init, Resting
<1>6. OutermostHolds
  BY DEF Init, OutermostHolds
<1>7. Held = << >> /\ panicked = FALSE
  BY DEF Init, Held
<1> QED
  BY <1>1, <1>4, <1>5, <1>6, <1>7 DEF SourceInv, Init

(* A program that may be given is a tree, and the bound allows the call. *)
LEMMA SourcesArePrograms ==
    ASSUME Types, NEW p \in Sources
    PROVE  p \in Program /\ runs + 1 \in 0..MaxRuns
  BY SourceAssumption DEF Types, Sources

LEMMA CallIsAFrame ==
    ASSUME NEW tree \in Tree
    PROVE  Call(tree) \in Frame
<1>1. Len(tree) \in Nat
  BY SourceAssumption
<1> QED
  BY <1>1 DEF Call, Frame

(* The node in front of a walk, and where the walk goes from it. *)
LEMMA TopIsAFrame ==
    ASSUME phase = "walking", Walking
    PROVE  /\ Len(frames) \in Nat \ {0}
           /\ Top \in Frame
  BY DEF Walking, Stack, Top

LEMMA HereIsANode ==
    ASSUME NEW fr \in Frame, fr.at <= Len(fr.tree)
    PROVE  /\ fr.tree[fr.at] \in SyntaxNode
           /\ fr.tree[fr.at].kind \in DependencyKind
                => fr.tree[fr.at].name \in DOMAIN Cleaned
           /\ Advanced(fr) \in Frame
<1>1. /\ fr.tree \in Tree /\ fr.at \in 1..Len(fr.tree)
      /\ fr = [tree |-> fr.tree, at |-> fr.at]
  BY SourceAssumption DEF Frame
<1>2. /\ fr.tree \in Seq(SyntaxNode) /\ Len(fr.tree) \in Nat
      /\ fr.tree[fr.at].last \in fr.at..Len(fr.tree)
      /\ fr.tree[fr.at].kind \in DependencyKind => fr.tree[fr.at].name \in DOMAIN Cleaned
  BY <1>1, SourceAssumption
<1>3. NextAfter(fr.tree[fr.at], fr.at) \in 1..(Len(fr.tree) + 1)
  BY <1>1, <1>2 DEF NextAfter
<1>4. Advanced(fr) = [tree |-> fr.tree, at |-> NextAfter(fr.tree[fr.at], fr.at)]
  BY <1>1 DEF Advanced
<1>5. Advanced(fr) \in Frame
  BY <1>1, <1>2, <1>3, <1>4 DEF Frame
<1> QED
  BY <1>1, <1>2, <1>5

LEMMA AfterHereKeeps ==
    ASSUME Walking, AtNode
    PROVE  /\ Top \in Frame /\ Here \in SyntaxNode /\ Advanced(Top) \in Frame
           /\ Kept(source, AfterHere)
<1>1. Top \in Frame /\ Top.at <= Len(Top.tree)
  BY TopIsAFrame DEF AtNode
<1>2. /\ Here \in SyntaxNode /\ Advanced(Top) \in Frame
      /\ Here.kind \in DependencyKind => Here.name \in DOMAIN Cleaned
  BY <1>1, HereIsANode DEF Here
<1>3. /\ Sound(Bookkept(source, Here))
      /\ Bookkept(source, Here).collected = source.collected
  BY BookkeptKeeps DEF Walking
<1>4. Kept(Bookkept(source, Here), AfterHere)
  BY <1>2, <1>3, ProbedKeeps DEF AfterHere
<1> QED
  BY <1>1, <1>2, <1>3, <1>4 DEF Kept

(***************************************************************************)
(* The calls.                                                              *)
(***************************************************************************)
LEMMA RefusePreserves ==
    ASSUME SourceInv, NEW p \in Sources, Refuse(p)
    PROVE  Preserved
<1>1. << >> \in Collected
  <2>1. << >> \in Seq(Entry)
    OBVIOUS
  <2> QED
    BY <2>1 DEF Collected
<1>2. source' = NewSource(<< >>) /\ source'.collected = << >>
  BY <1>1, NewSourceIsSound DEF Refuse
<1>3. source'.inTry \in BOOLEAN /\ DOMAIN source'.dependencies \subseteq Names
  BY <1>2 DEF NewSource
<1>4. /\ phase # "walking" /\ phase' = "failed"
      /\ registry' = registry /\ frames' = frames /\ nested' = nested
      /\ outer' = outer /\ panicked' = panicked /\ runs' = runs + 1
  BY DEF Refuse
<1>5. Resting /\ Types /\ OutermostHolds
  BY <1>4 DEF SourceInv
<1>6. Types'
  BY <1>4, <1>5, SourcesArePrograms DEF Types
<1>7. Resting'
  BY <1>2, <1>3, <1>4, <1>5 DEF Resting
<1>8. OutermostHolds'
  BY <1>4, <1>5 DEF Resting, OutermostHolds
<1>9. Held' = Held
  BY <1>4, <1>5 DEF Held, Resting
<1> QED
  BY <1>4, <1>6, <1>7, <1>8, <1>9 DEF Preserved, SourceInv, HeldGrows, Grown

LEMMA StartPreserves ==
    ASSUME SourceInv, NEW p \in Sources, Start(p)
    PROVE  Preserved
<1>1. /\ phase # "walking" /\ p # NotJs
      /\ program' = p /\ source' = NewSource(registry) /\ runs' = runs + 1
      /\ registry' = NoSets /\ frames' = <<Call(p)>> /\ nested' = FALSE
      /\ phase' = "walking" /\ panicked' = panicked /\ outer' = outer
  BY DEF Start, Begin, Taken
<1>2. Types /\ Resting
  BY <1>1 DEF SourceInv
<1>3. p \in Program /\ runs + 1 \in 0..MaxRuns
  BY <1>2, SourcesArePrograms
<1>4. Call(p) \in Frame
  <2>1. p \in Tree
    BY <1>1, <1>3, SourceAssumption
  <2> QED
    BY <2>1, CallIsAFrame
<1>5. frames' \in Stack
  BY <1>1, <1>4 DEF Stack
<1>6. Sound(source') /\ source'.collected = registry
  BY <1>1, <1>2, NewSourceIsSound DEF Types
<1>7. Types'
  <2>1. NoSets \in Collected
    BY DEF Collected
  <2> QED
    BY <1>1, <1>2, <1>3, <2>1 DEF Types
<1>8. outer = << >> /\ Len(outer') = 0
  BY <1>1, <1>2 DEF Resting
<1>9. Walking'
  BY <1>1, <1>3, <1>5, <1>6, <1>8 DEF Walking
<1>10. OutermostHolds'
  BY <1>1, <1>8 DEF OutermostHolds
<1>11. Held = registry /\ Held' = registry
  BY <1>1, <1>6, <1>8 DEF Held
<1> QED
  BY <1>1, <1>7, <1>9, <1>10, <1>11 DEF Preserved, SourceInv, HeldGrows, Grown

(* The run that calls again is put aside with what it has. *)
LEMMA CallAgainPreserves ==
    ASSUME SourceInv, NEW p \in Sources, CallAgain(p)
    PROVE  Preserved
<1> DEFINE run == [program |-> program, source |-> source, frames |-> frames, nested |-> nested]
<1>1. /\ phase = "walking" /\ p # NotJs
      /\ program' = p /\ source' = NewSource(registry) /\ runs' = runs + 1
      /\ registry' = NoSets /\ frames' = <<Call(p)>> /\ nested' = FALSE
      /\ phase' = "walking" /\ panicked' = panicked /\ outer' = Append(outer, run)
  BY DEF CallAgain, Begin, Taken
<1>2. Types /\ Walking /\ OutermostHolds
  BY <1>1 DEF SourceInv
<1>3. p \in Program /\ runs + 1 \in 0..MaxRuns
  BY <1>2, SourcesArePrograms
<1>4. Call(p) \in Frame
  <2>1. p \in Tree
    BY <1>1, <1>3, SourceAssumption
  <2> QED
    BY <2>1, CallIsAFrame
<1>5. frames' \in Stack
  BY <1>1, <1>4 DEF Stack
<1>6. Sound(source') /\ source'.collected = NoSets
  <2>1. registry = NoSets /\ registry \in Collected
    BY <1>2 DEF Types, Walking
  <2> QED
    BY <1>1, <2>1, NewSourceIsSound
<1>7. run \in Run
  BY <1>2 DEF Run, Walking, Sound, Types
<1>8. run.source = source
  OBVIOUS
<1> HIDE DEF run
<1>9. /\ outer \in Seq(Run) /\ Len(outer) \in Nat
      /\ outer' \in Seq(Run) /\ Len(outer') = Len(outer) + 1
      /\ \A i \in 1..Len(outer) : outer'[i] = outer[i]
      /\ outer'[Len(outer) + 1] = run
      /\ outer' # << >>
  BY <1>1, <1>2, <1>7, AppendProperties DEF Types
<1>10. Types'
  <2>1. NoSets \in Collected
    BY DEF Collected
  <2> QED
    BY <1>1, <1>2, <1>3, <1>9, <2>1 DEF Types
<1>11. Walking'
  <2>1. \A i \in 1..Len(outer') : Sound(outer'[i].source)
    <3> SUFFICES ASSUME NEW i \in 1..Len(outer')
                 PROVE  Sound(outer'[i].source)
      OBVIOUS
    <3>1. CASE i \in 1..Len(outer)
      BY <3>1, <1>2, <1>9 DEF Walking
    <3>2. CASE i = Len(outer) + 1
      BY <3>2, <1>2, <1>8, <1>9 DEF Walking
    <3> QED
      BY <3>1, <3>2, <1>9
  <2> QED
    BY <1>1, <1>3, <1>5, <1>6, <2>1 DEF Walking
<1>12. OutermostHolds'
  <2>1. ASSUME NEW i \in 1..Len(outer'), i > 1
        PROVE  outer'[i].source.collected = NoSets
    <3>1. CASE i \in 1..Len(outer)
      BY <2>1, <3>1, <1>2, <1>9 DEF OutermostHolds
    <3>2. CASE i = Len(outer) + 1
      <4>1. outer # << >>
        BY <2>1, <3>2, <1>9
      <4> QED
        BY <3>2, <4>1, <1>2, <1>8, <1>9 DEF OutermostHolds
    <3> QED
      BY <3>1, <3>2, <1>9
  <2> QED
    BY <1>6, <2>1 DEF OutermostHolds
<1>13. Held' = Held
  <2>1. Held' = outer'[1].source.collected
    BY <1>9 DEF Held
  <2>2. CASE outer = << >>
    BY <1>1, <2>1, <2>2, <1>8, <1>9 DEF Held
  <2>3. CASE outer # << >>
    <3>1. 1 \in 1..Len(outer)
      BY <2>3, <1>9
    <3> QED
      BY <2>1, <2>3, <3>1, <1>9 DEF Held
  <2> QED
    BY <2>2, <2>3
<1> QED
  BY <1>1, <1>10, <1>11, <1>12, <1>13 DEF Preserved, SourceInv, HeldGrows, Grown

(***************************************************************************)
(* The ends of a run.                                                      *)
(***************************************************************************)
LEMMA EndRunPreserves ==
    ASSUME SourceInv, phase = "walking",
           NEW collected \in Collected, Grown(source.collected, collected),
           NEW result, result.collected = << >>, result.inTry \in BOOLEAN,
           DOMAIN result.dependencies \subseteq Names,
           NEW end \in {"done", "failed"},
           end = "done" /\ outer = << >> => Agrees(result, collected),
           EndRun(collected, result, end)
    PROVE  Preserved
<1>1. Types /\ Walking /\ OutermostHolds
  BY DEF SourceInv
<1>2. registry' = collected /\ runs' = runs /\ panicked' = panicked
  BY DEF EndRun
<1>3. ASSUME Held' = NoSets, Grown(Held, Held')
      PROVE  Held = NoSets
  <2>1. \A held \in Seq(Entry), e \in Entry : Append(held, e) \in Seq(Entry)
    OBVIOUS
  <2> QED
    BY <1>3, <2>1, SourceAssumption DEF Grown
<1>4. ASSUME panicked, Grown(Held, Held')
      PROVE  Held' = NoSets
  <2>1. Held = NoSets
    BY <1>4 DEF SourceInv
  <2> QED
    BY <1>4, <2>1, SourceAssumption DEF Grown
<1>5. CASE outer = << >>
  <2>1. /\ source' = result /\ frames' = << >> /\ phase' = end
        /\ nested' = nested /\ outer' = outer
    BY <1>5 DEF EndRun
  <2>2. Held = source.collected /\ Held' = collected
    BY <1>2, <1>5, <2>1 DEF Held
  <2>3. Types'
    BY <1>1, <1>2, <2>1 DEF Types
  <2>4. Resting' /\ OutermostHolds'
    BY <1>5, <2>1 DEF Resting, OutermostHolds
  <2>5. phase' # "walking"
    BY <2>1
  <2>6. phase' = "done" => Agrees(source', registry')
    BY <1>2, <1>5, <2>1
  <2>7. Grown(Held, Held')
    BY <2>2
  <2>8. (Held' = NoSets => panicked') /\ (panicked' => Held' = NoSets)
    BY <1>2, <1>3, <1>4, <2>7 DEF SourceInv
  <2> QED
    BY <2>3, <2>4, <2>5, <2>6, <2>7, <2>8 DEF Preserved, SourceInv, HeldGrows
<1>6. CASE outer # << >>
  <2> DEFINE last == Len(outer)
  <2>1. outer \in Seq(Run) /\ last \in Nat \ {0} /\ last \in 1..last /\ outer[last] \in Run
    BY <1>1, <1>6 DEF Types
  <2>2. /\ program' = outer[last].program /\ source' = outer[last].source
        /\ frames' = outer[last].frames /\ nested' = outer[last].nested
        /\ outer' = SubSeq(outer, 1, last - 1) /\ phase' = phase
    BY <1>6 DEF EndRun, Last, Front
  <2> HIDE DEF last
  <2>3. /\ outer' \in Seq(Run) /\ Len(outer') = last - 1
        /\ \A i \in 1..(last - 1) : outer'[i] = outer[i]
    <3>1. last - 1 \in Int /\ \A i \in 1..(last - 1) : outer[i] \in Run
      BY <2>1 DEF last
    <3>2. /\ SubSeq(outer, 1, last - 1) \in Seq(Run)
          /\ Len(SubSeq(outer, 1, last - 1)) = IF 1 <= last - 1 THEN last - 1 - 1 + 1 ELSE 0
          /\ \A i \in 1..(last - 1 - 1 + 1) : SubSeq(outer, 1, last - 1)[i] = outer[1 + i - 1]
      BY <3>1, SubSeqProperties
    <3>3. \A i \in 1..(last - 1) : i \in 1..(last - 1 - 1 + 1) /\ 1 + i - 1 = i
      BY <2>1
    <3> QED
      BY <2>1, <2>2, <3>2, <3>3
  <2>4. /\ program' \in Program /\ source' \in SourceFile /\ frames' \in Stack
        /\ nested' \in BOOLEAN
    BY <2>1, <2>2 DEF Run
  <2>5. Sound(source')
    BY <1>1, <2>1, <2>2 DEF Walking, last
  <2>6. registry' = NoSets
    <3>1. source.collected = NoSets
      BY <1>1, <1>6 DEF OutermostHolds
    <3> QED
      BY <1>2, <3>1, SourceAssumption DEF Grown
  <2>7. Types'
    <3>1. NoSets \in Collected
      BY DEF Collected
    <3> QED
      BY <1>1, <1>2, <2>2, <2>3, <2>4, <2>6, <3>1 DEF Types
  <2>8. Walking'
    <3>1. \A i \in 1..Len(outer') : Sound(outer'[i].source)
      BY <1>1, <2>1, <2>3 DEF Walking, last
    <3> QED
      BY <2>4, <2>5, <2>6, <3>1 DEF Walking
  <2>9. OutermostHolds'
    <3>1. ASSUME outer' # << >>
          PROVE  source'.collected = NoSets
      <4>1. last - 1 # 0
        BY <2>3, <3>1
      <4>2. last > 1
        BY <2>1, <4>1
      <4>3. last \in 1..Len(outer)
        BY <2>1 DEF last
      <4>4. outer[last].source.collected = NoSets
        BY <1>1, <4>2, <4>3 DEF OutermostHolds
      <4> QED
        BY <2>2, <4>4
    <3>2. \A i \in 1..Len(outer') : i > 1 => outer'[i].source.collected = NoSets
      BY <1>1, <2>1, <2>3 DEF OutermostHolds, last
    <3> QED
      BY <3>1, <3>2 DEF OutermostHolds
  <2>10. Held' = Held
    <3>1. Held = outer[1].source.collected
      BY <1>6 DEF Held
    <3>2. CASE last = 1
      <4>1. outer' = << >>
        BY <2>3, <3>2
      <4>2. Held' = source'.collected
        BY <1>6, <2>2, <4>1 DEF Held
      <4> QED
        BY <2>2, <3>1, <3>2, <4>2
    <3>3. CASE last # 1
      <4>1. outer' # << >> /\ 1 \in 1..(last - 1)
        BY <2>1, <2>3, <3>3
      <4>2. Held' = outer'[1].source.collected
        BY <4>1 DEF Held
      <4> QED
        BY <2>3, <3>1, <4>1, <4>2
    <3> QED
      BY <3>2, <3>3
  <2> QED
    BY <1>2, <2>2, <2>7, <2>8, <2>9, <2>10 DEF Preserved, SourceInv, HeldGrows, Grown
<1> QED
  BY <1>5, <1>6

LEMMA EmptyResult ==
    /\ NewSource(<< >>).collected = << >> /\ NewSource(<< >>).inTry \in BOOLEAN
    /\ DOMAIN NewSource(<< >>).dependencies \subseteq Names
  BY DEF NewSource

LEMMA PanicPreserves ==
    ASSUME SourceInv, Panic
    PROVE  Preserved
<1>1. /\ phase = "walking" /\ source' = NewSource(<< >>) /\ frames' = << >> /\ outer' = << >>
      /\ panicked' = TRUE /\ phase' = "failed" /\ registry' = registry
      /\ nested' = nested /\ runs' = runs
  BY DEF Panic
<1>2. Types /\ Walking
  BY <1>1 DEF SourceInv
<1>3. Types'
  <2>1. << >> \in Seq(Run)
    OBVIOUS
  <2> QED
    BY <1>1, <1>2, <2>1 DEF Types
<1>4. Resting' /\ OutermostHolds'
  BY <1>1, EmptyResult DEF Resting, OutermostHolds
<1>5. Held' = NoSets
  BY <1>1, <1>2 DEF Held, Walking
<1> QED
  BY <1>1, <1>3, <1>4, <1>5 DEF Preserved, SourceInv, HeldGrows

LEMMA EvalFailsPreserves ==
    ASSUME SourceInv, EvalFails
    PROVE  Preserved
<1>1. phase = "walking" /\ AtNode /\ Walking
  BY DEF EvalFails, AtNode, SourceInv
<1>2. Kept(source, AfterHere)
  BY <1>1, AfterHereKeeps
<1>3. AfterHere.collected \in Collected /\ Grown(source.collected, AfterHere.collected)
  BY <1>2 DEF Kept, Sound, SourceFile
<1>4. EndRun(AfterHere.collected, NewSource(<< >>), "failed")
  BY DEF EvalFails, HandedBackOnError
<1> QED
  BY <1>1, <1>3, <1>4, EmptyResult, EndRunPreserves

LEMMA FinishPreserves ==
    ASSUME SourceInv, Finish
    PROVE  Preserved
<1> DEFINE warnings == IF TooManyEncoded(source) THEN Summarised(source) ELSE source.warnings
           result == [source EXCEPT !.collected = << >>, !.warnings = warnings]
<1>1. phase = "walking" /\ Walking
  BY DEF Finish, SourceInv
<1>2. EndRun(source.collected, result, "done")
  BY DEF Finish
<1> HIDE DEF warnings
<1>3. /\ source \in SourceFile /\ source.collected \in Collected
      /\ source.inTry \in BOOLEAN /\ source.dependencies \in Partial(Names, Report)
  BY <1>1 DEF Walking, Sound, SourceFile
<1>4. /\ result.collected = << >> /\ result.inTry = source.inTry
      /\ result.dependencies = source.dependencies
  BY <1>3 DEF SourceFile
<1>5. DOMAIN source.dependencies \subseteq Names
  BY <1>3 DEF Partial
<1>6. Agrees(result, source.collected)
  BY <1>1, <1>4 DEF Walking, Sound, Agrees
<1>7. Grown(source.collected, source.collected)
  BY DEF Grown
<1> HIDE DEF result
<1> QED
  BY <1>1, <1>2, <1>3, <1>4, <1>5, <1>6, <1>7, EndRunPreserves

(***************************************************************************)
(* The steps within a walk change frames and what the probes add to.       *)
(***************************************************************************)
LEMMA WalkStepPreserves ==
    ASSUME SourceInv, phase = "walking",
           Kept(source, source'), frames' \in Stack,
           nested' \in BOOLEAN,
           UNCHANGED <<registry, program, outer, runs, panicked, phase>>
    PROVE  Preserved
<1>1. Types /\ Walking /\ OutermostHolds
  BY DEF SourceInv
<1>2. Types' /\ Walking'
  BY <1>1 DEF Types, Walking, Kept
<1>3. source.collected = NoSets => source'.collected = NoSets
  BY SourceAssumption DEF Kept, Grown
<1>4. OutermostHolds'
  BY <1>1, <1>3 DEF OutermostHolds
<1>5. Grown(Held, Held')
  BY DEF Held, Kept, Grown
<1>6. Held' = NoSets => Held = NoSets
  <2>1. \A held \in Seq(Entry), e \in Entry : Append(held, e) \in Seq(Entry)
    OBVIOUS
  <2> QED
    BY <1>5, <2>1, SourceAssumption DEF Grown
<1>7. Held = NoSets => Held' = NoSets
  BY <1>5, SourceAssumption DEF Grown
<1> QED
  BY <1>2, <1>4, <1>5, <1>6, <1>7 DEF Preserved, SourceInv, HeldGrows

LEMMA EnterPreserves ==
    ASSUME SourceInv, Enter
    PROVE  Preserved
<1>1. phase = "walking" /\ AtNode /\ Walking
  BY DEF Enter, AtNode, SourceInv
<1>2. Kept(source, source') /\ Advanced(Top) \in Frame
  BY <1>1, AfterHereKeeps DEF Enter
<1>3. frames' = [frames EXCEPT ![Len(frames)] = Advanced(Top)]
  BY DEF Enter, ReplaceTop
<1>4. frames' \in Stack
  <2>1. /\ frames \in Seq(Frame) /\ Len(frames) \in 1..Len(frames)
        /\ Len(frames) \in Nat \ {0}
    BY <1>1, TopIsAFrame DEF Walking, Stack
  <2>2. /\ frames' \in Seq(Frame) /\ Len(frames') = Len(frames)
        /\ \A k \in 1..(Len(frames) - 1) : frames'[k] = frames[k]
    BY <1>2, <1>3, <2>1, ExceptSeq
  <2> QED
    BY <1>1, <2>1, <2>2 DEF Walking, Stack
<1>5. nested' \in BOOLEAN
  BY DEF Enter, SourceInv, Types
<1> QED
  BY <1>1, <1>2, <1>4, <1>5, WalkStepPreserves DEF Enter

LEMMA EnterEvalPreserves ==
    ASSUME SourceInv, EnterEval
    PROVE  Preserved
<1>1. phase = "walking" /\ AtNode /\ Walking
  BY DEF EnterEval, AtNode, SourceInv
<1>2. Kept(source, source') /\ Here \in SyntaxNode
  BY <1>1, AfterHereKeeps DEF EnterEval
<1>3. Here.body \in Tree
  BY <1>2 DEF EnterEval, SyntaxNode
<1>4. frames' \in Stack
  <2>1. frames \in Seq(Frame) /\ Call(Here.body) \in Frame
    BY <1>1, <1>3, CallIsAFrame DEF Walking, Stack
  <2>2. frames' = Append(frames, Call(Here.body))
    BY DEF EnterEval, BodyCalled
  <2>3. /\ frames' \in Seq(Frame) /\ frames' # << >>
        /\ Len(frames') = Len(frames) + 1 /\ Len(frames) \in Nat
        /\ \A k \in 1..Len(frames) : frames'[k] = frames[k]
    BY <2>1, <2>2, AppendProperties
  <2>4. \A k \in 1..Len(frames) : frames[k].at <= Len(frames[k].tree)
    <3>1. frames[Len(frames)].at <= Len(frames[Len(frames)].tree)
      BY <1>1 DEF AtNode, Top
    <3> QED
      BY <1>1, <2>3, <3>1 DEF Walking, Stack
  <2> QED
    BY <2>3, <2>4 DEF Stack
<1>5. nested' \in BOOLEAN
  BY DEF EnterEval, SourceInv, Types
<1> QED
  BY <1>1, <1>2, <1>4, <1>5, WalkStepPreserves DEF EnterEval

(* The walk goes on behind the eval, at which the frame below still is. *)
LEMMA LeaveEvalPreserves ==
    ASSUME SourceInv, LeaveEval
    PROVE  Preserved
<1> DEFINE caller == Len(frames) - 1
           below == SubSeq(frames, 1, caller - 1)
<1>1. phase = "walking" /\ Walking /\ Len(frames) > 1
  BY DEF LeaveEval, SourceInv
<1>2. frames' = Append(below, Advanced(frames[caller])) /\ source' = source
  BY DEF LeaveEval
<1>3. /\ frames \in Seq(Frame) /\ Len(frames) \in Nat
      /\ \A k \in 1..(Len(frames) - 1) : frames[k].at <= Len(frames[k].tree)
  BY <1>1 DEF Walking, Stack
<1>4. /\ caller \in 1..(Len(frames) - 1) /\ caller - 1 \in Nat
      /\ \A k \in 1..(caller - 1) : k \in 1..(Len(frames) - 1)
  BY <1>1, <1>3
<1>5. \A k \in 1..caller : frames[k] \in Frame
  BY <1>3, <1>4
<1> HIDE DEF caller
<1>6. frames[caller] \in Frame /\ frames[caller].at <= Len(frames[caller].tree)
  BY <1>3, <1>4, <1>5
<1>7. Advanced(frames[caller]) \in Frame
  BY <1>6, HereIsANode
<1>8. /\ below \in Seq(Frame) /\ Len(below) = caller - 1
      /\ \A k \in 1..(caller - 1) : below[k] = frames[k]
  <2>1. \A k \in 1..(caller - 1) : frames[k] \in Frame
    BY <1>4, <1>5
  <2>2. /\ below \in Seq(Frame)
        /\ Len(below) = IF 1 <= caller - 1 THEN caller - 1 - 1 + 1 ELSE 0
        /\ \A k \in 1..(caller - 1 - 1 + 1) : below[k] = frames[1 + k - 1]
    BY <1>4, <2>1, SubSeqProperties
  <2> HIDE DEF below
  <2> QED
    BY <1>4, <2>2
<1> HIDE DEF below
<1>9. /\ frames' \in Seq(Frame) /\ frames' # << >> /\ Len(frames') = caller
      /\ \A k \in 1..(caller - 1) : frames'[k] = below[k]
  BY <1>2, <1>4, <1>7, <1>8, AppendProperties
<1>10. frames' \in Stack
  BY <1>3, <1>4, <1>8, <1>9 DEF Stack
<1>11. Kept(source, source') /\ nested' \in BOOLEAN
  BY <1>1, <1>2 DEF LeaveEval, Walking, Kept, Grown, SourceInv, Types
<1> QED
  BY <1>1, <1>10, <1>11, WalkStepPreserves DEF LeaveEval

(***************************************************************************)
(* Every step.                                                             *)
(***************************************************************************)
LEMMA StutterPreserves ==
    ASSUME SourceInv, UNCHANGED vars
    PROVE  Preserved
<1>1. /\ SourceInv' /\ Held' = Held
  BY DEF vars, SourceInv, Types, Walking, Resting, OutermostHolds, Held
<1> QED
  BY <1>1 DEF Preserved, HeldGrows, Grown

LEMMA StepPreserves ==
    ASSUME SourceInv, [Next]_vars
    PROVE  Preserved
<1>1. ASSUME NEW p \in Sources, Refuse(p) PROVE Preserved
  BY <1>1, RefusePreserves
<1>2. ASSUME NEW p \in Sources, Start(p) PROVE Preserved
  BY <1>2, StartPreserves
<1>3. ASSUME NEW p \in Sources, CallAgain(p) PROVE Preserved
  BY <1>3, CallAgainPreserves
<1>4. ASSUME Walk PROVE Preserved
  BY <1>4, EnterPreserves, EnterEvalPreserves, EvalFailsPreserves, LeaveEvalPreserves,
     FinishPreserves DEF Walk
<1>5. ASSUME Panic PROVE Preserved
  BY <1>5, PanicPreserves
<1>6. ASSUME UNCHANGED vars PROVE Preserved
  BY <1>6, StutterPreserves
<1> QED
  BY <1>1, <1>2, <1>3, <1>4, <1>5, <1>6 DEF Next

THEOREM SourceInvariant == Spec => []SourceInv
<1>1. SourceInv /\ [Next]_vars => SourceInv'
  BY StepPreserves DEF Preserved
<1> QED
  BY <1>1, InitSourceInv, PTL DEF Spec

(***************************************************************************)
(* The properties of the runs.                                             *)
(***************************************************************************)

(* Whatever is analysed, every SourceFile, stack of walks and set has its  *)
(* type, and nothing of a run is left behind when it ends.                 *)
THEOREM TypeCorrect == Spec => []TypeOK
<1>1. SourceInv => TypeOK
  <2> SUFFICES ASSUME SourceInv PROVE TypeOK
    OBVIOUS
  <2>1. Types
    BY DEF SourceInv
  <2>2. \A i \in DOMAIN outer : outer[i].source.collected \in Seq(Entry) \cup {NoSets}
    <3> SUFFICES ASSUME NEW i \in DOMAIN outer
                 PROVE  outer[i].source.collected \in Collected
      BY DEF Collected
    <3>1. outer[i] \in Run
      BY <2>1 DEF Types
    <3> QED
      BY <3>1 DEF Run, SourceFile
  <2>3. /\ source.collected \in Collected
        /\ source.inTry \in BOOLEAN
        /\ DOMAIN source.dependencies \subseteq Names
        /\ \A k \in 1..Len(frames) : frames[k].at \in 1..(Len(frames[k].tree) + 1)
    <3>1. CASE phase = "walking"
      <4>1. Walking
        BY <3>1 DEF SourceInv
      <4>2. /\ source.collected \in Collected /\ source.inTry \in BOOLEAN
            /\ source.dependencies \in Partial(Names, Report)
        BY <4>1 DEF Walking, Sound, SourceFile
      <4>3. DOMAIN source.dependencies \subseteq Names
        BY <4>2 DEF Partial
      <4>4. \A k \in 1..Len(frames) : frames[k] \in Frame
        BY <4>1 DEF Walking, Stack
      <4> QED
        BY <4>2, <4>3, <4>4 DEF Frame
    <3>2. CASE phase # "walking"
      <4>1. Resting
        BY <3>2 DEF SourceInv
      <4>2. << >> \in Seq(Entry) /\ Len(<< >>) = 0
        OBVIOUS
      <4> QED
        BY <4>1, <4>2 DEF Resting, Collected
    <3> QED
      BY <3>1, <3>2
  <2>4. phase # "walking" => source.collected = << >> /\ frames = << >> /\ outer = << >>
    BY DEF SourceInv, Resting
  <2> QED
    BY <2>1, <2>2, <2>3, <2>4 DEF TypeOK, Types, Collected
<1> QED
  BY <1>1, SourceInvariant, PTL

(* Whatever warns between two literals of one value, add_encoded_literal   *)
(* finds the warning of that value where it remembers it.                  *)
THEOREM PlacesAreRemembered == Spec => []PlacesRemembered
<1>1. SourceInv => PlacesRemembered
  BY DEF SourceInv, Walking, Sound, PlacesRemembered
<1> QED
  BY <1>1, SourceInvariant, PTL

(* The report of an analysis tells of every dependency what the analyser's *)
(* set was told of it last, for any history of the analyser.               *)
THEOREM ReportsAgree == Spec => []ReportAgreesWithRegistry
<1>1. SourceInv => ReportAgreesWithRegistry
  BY DEF SourceInv, Walking, Sound, Held, ReportAgreesWithRegistry
<1> QED
  BY <1>1, SourceInvariant, PTL

(* Only a panic takes the sets from an analyser, and one that has had a    *)
(* panic, or is called from within its own run, has none.                  *)
THEOREM SetsAreLostOnlyByPanic == Spec => []SetsLostOnlyByPanic
<1>1. SourceInv => SetsLostOnlyByPanic
  BY DEF SourceInv, Resting, Walking, OutermostHolds, Held, SetsLostOnlyByPanic
<1> QED
  BY <1>1, SourceInvariant, PTL

LEMMA GrownIsPrefix ==
    ASSUME NEW held \in Collected, held # NoSets, NEW new, Grown(held, new)
    PROVE  new # NoSets /\ IsPrefix(held, new)
<1>1. held \in Seq(Entry) /\ Len(held) \in Nat
  BY DEF Collected
<1>2. CASE new = held
  BY <1>1, <1>2 DEF IsPrefix
<1>3. CASE new # held
  <2>1. PICK e \in Entry : new = Append(held, e)
    BY <1>3 DEF Grown
  <2>2. /\ new \in Seq(Entry) /\ Len(new) = Len(held) + 1
        /\ \A i \in 1..Len(held) : new[i] = held[i]
    BY <1>1, <2>1, AppendProperties
  <2>3. SubSeq(new, 1, Len(held)) = SubSeq(held, 1, Len(held))
    BY <1>1, <2>2
  <2>4. new # NoSets
    BY <2>2, SourceAssumption
  <2> QED
    BY <1>1, <2>2, <2>3, <2>4 DEF IsPrefix
<1> QED
  BY <1>2, <1>3

(* No step but a panic loses or changes an entry of the sets: not a source *)
(* that does not parse, not a failing eval body, not a run within a run.   *)
THEOREM NothingIsLost == Spec => NothingCollectedIsLost
<1> DEFINE Safe == Held = NoSets \/ panicked' \/ (Held' # NoSets /\ IsPrefix(Held, Held'))
<1>1. SourceInv => Held \in Collected
  <2> SUFFICES ASSUME SourceInv PROVE Held \in Collected
    OBVIOUS
  <2>1. Types
    BY DEF SourceInv
  <2>2. outer # << >> => outer[1].source.collected \in Collected
    <3>1. outer # << >> => outer[1] \in Run
      BY <2>1 DEF Types
    <3> QED
      BY <3>1 DEF Run, SourceFile
  <2>3. phase = "walking" => source.collected \in Collected
    BY DEF SourceInv, Walking, Sound, SourceFile
  <2> QED
    BY <2>1, <2>2, <2>3 DEF Held, Types
<1>2. SourceInv /\ [Next]_vars => [Safe]_vars
  <2> SUFFICES ASSUME SourceInv, [Next]_vars, Held # NoSets, ~panicked'
               PROVE  Held' # NoSets /\ IsPrefix(Held, Held')
    OBVIOUS
  <2>1. Grown(Held, Held')
    BY StepPreserves DEF Preserved, HeldGrows
  <2> QED
    BY <1>1, <2>1, GrownIsPrefix
<1>3. [][Next]_vars /\ []SourceInv => [][Safe]_vars
  BY <1>2, PTL
<1> QED
  BY <1>3, SourceInvariant, PTL DEF Spec, NothingCollectedIsLost

(***************************************************************************)
(* The flag for try statements.  Pending are the Trys of a call of         *)
(* walk_ast whose handler the walk has not passed; as long as no Try is    *)
(* met inside the block of another, the flag is set exactly while there is *)
(* one.  A Catch clears it, wrongly if another Try is still pending; so    *)
(* the invariant also says that no Try the walk is inside of lies within a *)
(* pending one: not in the same tree (Apart), and not in the body of an    *)
(* eval (EvalsApart).                                                      *)
(***************************************************************************)
Pending(fr, j) ==
    j \in 1..(fr.at - 1) /\ fr.tree[j].kind = "Try" /\ fr.at <= fr.tree[j].handler
Inside(fr, i) ==
    i \in 1..(fr.at - 1) /\ fr.tree[i].kind = "Try" /\ fr.at <= fr.tree[i].last
SomePending(fr) == \E j \in 1..(fr.at - 1) : Pending(fr, j)
SomeInside(fr) == \E i \in 1..(fr.at - 1) : Inside(fr, i)

AtEval(fr) == fr.at <= Len(fr.tree) /\ fr.tree[fr.at].body \notin {NoBody, NotJs}
EvalsWait(frs) == \A k \in 1..(Len(frs) - 1) : AtEval(frs[k])
Open(frs) == \E k \in 1..Len(frs) : SomePending(frs[k])
Apart(fr) == \A j, i : j < i /\ Pending(fr, j) => ~Inside(fr, i)
EvalsApart(frs) ==
    \A k, l \in 1..Len(frs) : k < l /\ SomePending(frs[k]) => ~SomeInside(frs[l])

FlagRight(src, frs, nest) ==
    /\ EvalsWait(frs)
    /\ ~nest => /\ src.inTry <=> Open(frs)
                /\ \A k \in 1..Len(frs) : Apart(frs[k])
                /\ EvalsApart(frs)

FlagInv ==
    /\ phase = "walking" => FlagRight(source, frames, nested)
    /\ \A i \in 1..Len(outer) :
          FlagRight(outer[i].source, outer[i].frames, outer[i].nested)

(***************************************************************************)
(* What the shape of trees gives for one node of a tree.                   *)
(***************************************************************************)
LEMMA TreeShape ==
    ASSUME NEW tree \in Tree, NEW i \in 1..Len(tree)
    PROVE  /\ Len(tree) \in Nat /\ tree[i].last \in i..Len(tree)
           /\ tree[i].handler \in {0} \cup (i + 1)..tree[i].last
           /\ \A j \in i..tree[i].last : tree[j].last <= tree[i].last
           /\ tree[i].kind = "Try" /\ tree[i].handler # 0 =>
                 /\ tree[tree[i].handler].kind = "Catch"
                 /\ \A j \in (i + 1)..(tree[i].handler - 1) :
                       tree[j].last < tree[i].handler
           /\ tree[i].kind = "Catch" =>
                 \E j \in 1..(i - 1) : tree[j].kind = "Try" /\ tree[j].handler = i
           /\ tree[i].body # NoBody => tree[i].kind \in {"RequireByEval", "Eval"}
<1>1. Len(tree) \in Nat
  BY SourceAssumption
<1> QED
  BY <1>1, SourceAssumption, TreeAssumption

LEMMA AdvanceShape ==
    ASSUME NEW fr \in Frame, fr.at <= Len(fr.tree)
    PROVE  /\ fr.tree \in Tree /\ fr.at \in 1..Len(fr.tree) /\ Len(fr.tree) \in Nat
           /\ Advanced(fr).tree = fr.tree
           /\ ~Skips(fr.tree[fr.at]) => Advanced(fr).at = fr.at + 1
           /\ Skips(fr.tree[fr.at]) => Advanced(fr).at = fr.tree[fr.at].last + 1
           /\ fr.tree[fr.at].last \in fr.at..Len(fr.tree)
           /\ Advanced(fr).at \in (fr.at + 1)..(fr.tree[fr.at].last + 1)
<1>1. /\ fr.tree \in Tree /\ fr.at \in Nat /\ Len(fr.tree) \in Nat
      /\ fr = [tree |-> fr.tree, at |-> fr.at] /\ fr.at \in 1..(Len(fr.tree) + 1)
  BY SourceAssumption DEF Frame
<1>2. fr.at \in 1..Len(fr.tree)
  BY <1>1
<1>3. fr.tree[fr.at].last \in fr.at..Len(fr.tree)
  BY <1>1, <1>2, TreeShape
<1>4. Advanced(fr) = [tree |-> fr.tree, at |-> NextAfter(fr.tree[fr.at], fr.at)]
  BY <1>1 DEF Advanced
<1> QED
  BY <1>1, <1>2, <1>3, <1>4 DEF NextAfter

(***************************************************************************)
(* How one turn of a walk changes which Trys are pending and which the     *)
(* walk is inside of.                                                      *)
(***************************************************************************)
LEMMA PendingBefore ==
    ASSUME NEW fr \in Frame, fr.at <= Len(fr.tree), NEW j, Pending(Advanced(fr), j)
    PROVE  \/ Pending(fr, j)
           \/ /\ j = fr.at
              /\ fr.tree[j].kind = "Try" /\ fr.tree[j].handler # 0
<1> DEFINE p == fr.at
           tree == fr.tree
           next == Advanced(fr).at
<1>1. /\ tree \in Tree /\ p \in 1..Len(tree) /\ Len(tree) \in Nat
      /\ tree[p].last \in p..Len(tree)
      /\ next \in (p + 1)..(tree[p].last + 1)
      /\ ~Skips(tree[p]) => next = p + 1
      /\ Skips(tree[p]) => next = tree[p].last + 1
  BY AdvanceShape
<1>2. /\ j \in 1..(next - 1) /\ tree[j].kind = "Try" /\ next <= tree[j].handler
  BY AdvanceShape DEF Pending
<1> HIDE DEF next, p, tree
<1>3. j \in 1..Len(tree)
  BY <1>1, <1>2
<1>4. tree[j].handler \in Nat /\ tree[j].handler # 0 /\ tree[j].handler <= tree[j].last
  BY <1>1, <1>2, <1>3, TreeShape
<1>5. CASE j < p
  <2>1. j \in 1..(p - 1) /\ p <= tree[j].handler
    BY <1>1, <1>2, <1>4, <1>5
  <2> QED
    BY <1>2, <2>1 DEF Pending, p, tree
<1>6. CASE j = p
  BY <1>2, <1>4, <1>6 DEF p, tree
<1>7. CASE j > p
  <2>1. Skips(tree[p]) /\ next = tree[p].last + 1
    BY <1>1, <1>2, <1>7
  <2>2. j \in p..tree[p].last
    BY <1>1, <1>2, <1>3, <1>7, <2>1
  <2>3. tree[j].last <= tree[p].last
    BY <1>1, <2>2, TreeShape
  <2>4. tree[j].last \in Nat
    BY <1>1, <1>3, TreeShape
  <2> QED
    BY <1>1, <1>2, <1>4, <2>1, <2>3, <2>4
<1> QED
  BY <1>1, <1>3, <1>5, <1>6, <1>7

LEMMA InsideBefore ==
    ASSUME NEW fr \in Frame, fr.at <= Len(fr.tree), NEW i, Inside(Advanced(fr), i)
    PROVE  Inside(fr, i) \/ (i = fr.at /\ fr.tree[i].kind = "Try")
<1> DEFINE p == fr.at
           tree == fr.tree
           next == Advanced(fr).at
<1>1. /\ tree \in Tree /\ p \in 1..Len(tree) /\ Len(tree) \in Nat
      /\ tree[p].last \in p..Len(tree)
      /\ next \in (p + 1)..(tree[p].last + 1)
      /\ ~Skips(tree[p]) => next = p + 1
      /\ Skips(tree[p]) => next = tree[p].last + 1
  BY AdvanceShape
<1>2. /\ i \in 1..(next - 1) /\ tree[i].kind = "Try" /\ next <= tree[i].last
  BY AdvanceShape DEF Inside
<1> HIDE DEF next, p, tree
<1>3. i \in 1..Len(tree) /\ tree[i].last \in Nat
  BY <1>1, <1>2, TreeShape
<1>4. CASE i < p
  <2>1. i \in 1..(p - 1) /\ p <= tree[i].last
    BY <1>1, <1>2, <1>3, <1>4
  <2> QED
    BY <1>2, <2>1 DEF Inside, p, tree
<1>5. CASE i = p
  BY <1>2, <1>5 DEF p, tree
<1>6. CASE i > p
  <2>1. next = tree[p].last + 1
    BY <1>1, <1>2, <1>6
  <2>2. i \in p..tree[p].last
    BY <1>1, <1>2, <1>3, <1>6, <2>1
  <2>3. tree[i].last <= tree[p].last
    BY <1>1, <2>2, TreeShape
  <2> QED
    BY <1>1, <1>2, <1>3, <2>1, <2>3
<1> QED
  BY <1>1, <1>3, <1>4, <1>5, <1>6

(* Only at a Catch is the handler of a pending Try reached. *)
LEMMA PendingIsInBlock ==
    ASSUME NEW fr \in Frame, fr.at <= Len(fr.tree), fr.tree[fr.at].kind # "Catch",
           NEW j, Pending(fr, j)
    PROVE  fr.at < fr.tree[j].handler
<1> DEFINE p == fr.at
           tree == fr.tree
<1>1. tree \in Tree /\ p \in 1..Len(tree) /\ Len(tree) \in Nat
  BY AdvanceShape
<1>2. j \in 1..(p - 1) /\ tree[j].kind = "Try" /\ p <= tree[j].handler
  BY DEF Pending
<1>3. tree[p].kind # "Catch"
  OBVIOUS
<1> HIDE DEF p, tree
<1>4. j \in 1..Len(tree)
  BY <1>1, <1>2
<1>5. tree[j].handler \in Nat /\ (tree[j].handler # 0 => tree[tree[j].handler].kind = "Catch")
  BY <1>1, <1>2, <1>4, TreeShape
<1>6. p < tree[j].handler
  BY <1>1, <1>2, <1>3, <1>5
<1> QED
  BY <1>6 DEF p, tree

LEMMA BlockIsPending ==
    ASSUME NEW fr \in Frame, fr.at <= Len(fr.tree), fr.tree[fr.at].kind # "Catch"
    PROVE  InBlock(fr.tree, fr.at) <=> SomePending(fr)
<1>1. ASSUME InBlock(fr.tree, fr.at) PROVE SomePending(fr)
  <2>1. PICK j \in 1..(fr.at - 1) :
          fr.tree[j].kind = "Try" /\ fr.at < fr.tree[j].handler
    BY <1>1 DEF InBlock
  <2>2. /\ fr.tree \in Tree /\ fr.at \in 1..Len(fr.tree) /\ Len(fr.tree) \in Nat
    BY AdvanceShape
  <2>3. j \in 1..Len(fr.tree)
    BY <2>2
  <2>4. fr.tree[j].handler \in Nat
    BY <2>2, <2>3, TreeShape
  <2> QED
    BY <2>1, <2>2, <2>4 DEF SomePending, Pending
<1>2. ASSUME SomePending(fr) PROVE InBlock(fr.tree, fr.at)
  BY <1>2, PendingIsInBlock DEF SomePending, InBlock, Pending
<1> QED
  BY <1>1, <1>2

LEMMA StaysPending ==
    ASSUME NEW fr \in Frame, fr.at <= Len(fr.tree),
           fr.tree[fr.at].kind \notin {"Try", "Catch"}, NEW j, Pending(fr, j)
    PROVE  Pending(Advanced(fr), j)
<1> DEFINE p == fr.at
           tree == fr.tree
           next == Advanced(fr).at
<1>1. /\ tree \in Tree /\ p \in 1..Len(tree) /\ Len(tree) \in Nat
      /\ tree[p].last \in p..Len(tree)
      /\ next \in (p + 1)..(tree[p].last + 1)
  BY AdvanceShape
<1>2. j \in 1..(p - 1) /\ tree[j].kind = "Try" /\ p < tree[j].handler
  BY PendingIsInBlock DEF Pending
<1> HIDE DEF next, p, tree
<1>3. j \in 1..Len(tree)
  BY <1>1, <1>2
<1>4. tree[j].handler \in Nat /\ tree[j].handler # 0
  <2>1. tree[j].handler \in Nat
    BY <1>1, <1>3, TreeShape
  <2> QED
    BY <1>1, <1>2, <2>1
<1>5. p \in (j + 1)..(tree[j].handler - 1)
  BY <1>1, <1>2, <1>4
<1>6. tree[p].last < tree[j].handler
  BY <1>1, <1>2, <1>3, <1>4, <1>5, TreeShape
<1>7. j \in 1..(next - 1) /\ next <= tree[j].handler
  BY <1>1, <1>2, <1>4, <1>6
<1> QED
  BY <1>2, <1>7, AdvanceShape DEF Pending, next, tree

(* At a Catch the walk is inside its Try, and then no Try is pending. *)
LEMMA CatchEndsBlock ==
    ASSUME NEW fr \in Frame, fr.at <= Len(fr.tree), fr.tree[fr.at].kind = "Catch",
           Apart(fr)
    PROVE  SomeInside(fr) /\ ~SomePending(Advanced(fr))
<1> DEFINE p == fr.at
           tree == fr.tree
           next == Advanced(fr).at
<1>1. /\ tree \in Tree /\ p \in 1..Len(tree) /\ Len(tree) \in Nat
      /\ tree[p].last \in p..Len(tree)
      /\ next \in (p + 1)..(tree[p].last + 1)
      /\ tree[p].kind = "Catch"
  BY AdvanceShape
<1> HIDE DEF next, p, tree
<1>2. PICK i \in 1..(p - 1) : tree[i].kind = "Try" /\ tree[i].handler = p
  BY <1>1, TreeShape
<1>3. i \in 1..Len(tree) /\ tree[i].handler # 0
  BY <1>1, <1>2
<1>4. /\ tree[i].last \in Nat /\ tree[i].handler <= tree[i].last
      /\ \A j \in (i + 1)..(p - 1) : tree[j].last < p
  <2>1. tree[i].last \in Nat /\ tree[i].handler \in {0} \cup (i + 1)..tree[i].last
    BY <1>1, <1>3, TreeShape
  <2>2. \A j \in (i + 1)..(tree[i].handler - 1) : tree[j].last < tree[i].handler
    BY <1>1, <1>2, <1>3, TreeShape
  <2> QED
    BY <1>2, <1>3, <2>1, <2>2
<1>5. Inside(fr, i)
  <2>1. p <= tree[i].last
    BY <1>2, <1>4
  <2> QED
    BY <1>2, <2>1 DEF Inside, p, tree
<1>6. ASSUME NEW j, Pending(Advanced(fr), j)
      PROVE  FALSE
  <2>1. Pending(fr, j)
    BY <1>1, <1>6, PendingBefore DEF p, tree
  <2>2. j \in 1..(p - 1) /\ tree[j].kind = "Try"
    BY <2>1 DEF Pending, p, tree
  <2>3. next <= tree[j].handler
    BY <1>6, AdvanceShape DEF Pending, next, tree
  <2>4. j \in 1..Len(tree)
    BY <1>1, <2>2
  <2>5. tree[j].handler \in Nat /\ tree[j].last \in Nat
    BY <1>1, <2>4, TreeShape
  <2>6. tree[j].handler > p
    BY <1>1, <2>3, <2>5
  <2>7. tree[j].handler <= tree[j].last
    BY <1>1, <2>4, <2>5, <2>6, TreeShape
  <2>8. ~(j < i)
    BY <1>5, <2>1 DEF Apart
  <2>9. j # i
    BY <1>1, <1>2, <2>6
  <2>10. j \in (i + 1)..(p - 1)
    BY <1>1, <1>2, <2>2, <2>8, <2>9
  <2> QED
    BY <1>1, <1>4, <2>5, <2>6, <2>7, <2>10
<1> QED
  BY <1>2, <1>5, <1>6 DEF SomeInside, SomePending, p

(***************************************************************************)
(* The flag itself: only walk_bookkeeping writes it.                       *)
(***************************************************************************)
LEMMA ProbedLeavesFlag ==
    ASSUME NEW src \in SourceFile, NEW node
    PROVE  Probed(src, node).inTry = src.inTry
<1>1. \A s, kind, value : s \in SourceFile => Warn(s, kind, value).inTry = s.inTry
  BY DEF Warn, SourceFile
<1>2. \A written, unsafe, auto :
         AddDependency(src, written, unsafe, auto).inTry = src.inTry
  BY DEF AddDependency, Warn, SourceFile
<1>3. \A written, kind, value :
         /\ Warn(AddDependency(src, written, TRUE, FALSE), kind, value).inTry = src.inTry
         /\ Warn(AddDependency(src, written, TRUE, TRUE), kind, value).inTry = src.inTry
  BY DEF AddDependency, Warn, SourceFile
<1>4. \A value : AddEncodedLiteral(src, value).inTry = src.inTry
  BY DEF AddEncodedLiteral, Warn, SourceFile
<1>5. CASE node.kind \in {"Import", "Joined"}
  <2>1. \E unsafe : Probed(src, node) = AddDependency(src, node.name, unsafe, FALSE)
    BY <1>5 DEF Probed
  <2> QED
    BY <1>2, <2>1
<1>6. CASE node.kind = "Built"
  <2>1. Probed(src, node) = Warn(AddDependency(src, node.name, TRUE, FALSE), "unsafe-import", NotJs)
    BY <1>6 DEF Probed
  <2> QED
    BY <1>3, <2>1
<1>7. CASE node.kind = "RequireByEval"
  <2>1. Probed(src, node) = Warn(AddDependency(src, node.name, TRUE, TRUE), "unsafe-stmt", NotJs)
    BY <1>7 DEF Probed
  <2> QED
    BY <1>3, <2>1
<1>8. CASE node.kind = "Eval"
  BY <1>1, <1>8 DEF Probed
<1>9. CASE node.kind = "Encoded"
  BY <1>4, <1>9 DEF Probed
<1>10. CASE node.kind \notin {"Import", "Joined", "Built", "RequireByEval", "Eval", "Encoded"}
  BY <1>10 DEF Probed
<1> QED
  BY <1>5, <1>6, <1>7, <1>8, <1>9, <1>10

LEMMA FlagAfterHere ==
    ASSUME Walking, AtNode
    PROVE  /\ AfterHere.inTry \in BOOLEAN /\ source.inTry \in BOOLEAN
           /\ Here.kind = "Try" /\ Here.handler # 0 => AfterHere.inTry
           /\ Here.kind = "Catch" => ~AfterHere.inTry
           /\ ~(Here.kind = "Try" /\ Here.handler # 0) /\ Here.kind # "Catch"
                => AfterHere.inTry = source.inTry
<1>1. Sound(Bookkept(source, Here)) /\ source \in SourceFile
  BY BookkeptKeeps DEF Walking, Sound
<1>2. AfterHere.inTry = Bookkept(source, Here).inTry
  BY <1>1, ProbedLeavesFlag DEF AfterHere, Sound
<1>3. Bookkept(source, Here).inTry \in BOOLEAN /\ source.inTry \in BOOLEAN
  BY <1>1 DEF Sound, SourceFile
<1>4. /\ Here.kind = "Try" /\ Here.handler # 0 => Bookkept(source, Here).inTry = TRUE
      /\ Here.kind = "Catch" => Bookkept(source, Here).inTry = FALSE
      /\ ~(Here.kind = "Try" /\ Here.handler # 0) /\ Here.kind # "Catch"
            => Bookkept(source, Here) = source
  BY <1>1 DEF Bookkept, SourceFile
<1> QED
  BY <1>2, <1>3, <1>4

LEMMA EvalIsNoTry ==
    ASSUME NEW fr \in Frame, AtEval(fr)
    PROVE  fr.at <= Len(fr.tree) /\ fr.tree[fr.at].kind \in {"RequireByEval", "Eval"}
<1>1. fr.at <= Len(fr.tree) /\ fr.tree[fr.at].body # NoBody
  BY DEF AtEval
<1> QED
  BY <1>1, AdvanceShape, TreeShape

(* Away from a Catch, to be in some block is to have a pending Try.        *)
LEMMA BlocksAreOpen ==
    ASSUME Walking, AtNode, EvalsWait(frames), Here.kind # "Catch"
    PROVE  InSomeBlock <=> Open(frames)
<1>1. /\ frames \in Seq(Frame) /\ Len(frames) \in Nat \ {0}
      /\ Top = frames[Len(frames)] /\ Top.at <= Len(Top.tree)
  BY TopIsAFrame DEF Walking, Stack, AtNode, Top
<1>2. ASSUME NEW k \in 1..Len(frames)
      PROVE  InBlock(frames[k].tree, frames[k].at) <=> SomePending(frames[k])
  <2>1. CASE k = Len(frames)
    BY <1>1, <2>1, BlockIsPending DEF Here
  <2>2. CASE k # Len(frames)
    <3>1. frames[k] \in Frame /\ AtEval(frames[k])
      BY <1>1, <2>2 DEF EvalsWait
    <3> QED
      BY <3>1, EvalIsNoTry, BlockIsPending
  <2> QED
    BY <2>1, <2>2
<1> QED
  BY <1>2 DEF InSomeBlock, Open

(***************************************************************************)
(* One turn of the innermost call, at a Try, at a Catch or elsewhere.      *)
(***************************************************************************)
LEMMA NothingPending ==
    ASSUME NEW frs \in Seq(Frame), ~Open(frs)
    PROVE  (\A k \in 1..Len(frs) : Apart(frs[k])) /\ EvalsApart(frs)
<1>1. \A k \in 1..Len(frs) : ~SomePending(frs[k])
  BY DEF Open
<1>2. \A k \in 1..Len(frs) : \A j : ~Pending(frs[k], j)
  BY <1>1 DEF SomePending, Pending
<1> QED
  BY <1>1, <1>2 DEF Apart, EvalsApart

(* new is frs after its innermost call went on to the next node.           *)
Turned(frs, new) ==
    /\ frs \in Seq(Frame) /\ new \in Seq(Frame) /\ frs # << >> /\ Len(new) = Len(frs)
    /\ frs[Len(frs)].at <= Len(frs[Len(frs)].tree)
    /\ \A k \in 1..(Len(frs) - 1) : new[k] = frs[k]
    /\ new[Len(frs)] = Advanced(frs[Len(frs)])
FrameAt(fr) == fr.tree[fr.at]

LEMMA TurnElsewhere ==
    ASSUME NEW frs, NEW new, Turned(frs, new),
           FrameAt(frs[Len(frs)]).kind \notin {"Try", "Catch"}
    PROVE  /\ Open(new) <=> Open(frs)
           /\ (\A k \in 1..Len(frs) : Apart(frs[k])) => \A k \in 1..Len(new) : Apart(new[k])
           /\ EvalsApart(frs) => EvalsApart(new)
<1> DEFINE n == Len(frs)
<1>1. /\ n \in Nat \ {0} /\ n \in 1..n /\ Len(new) = n /\ frs[n] \in Frame
      /\ frs[n].at <= Len(frs[n].tree) /\ frs[n].at \in Nat
      /\ \A k \in 1..n : k = n \/ new[k] = frs[k]
      /\ new[n] = Advanced(frs[n])
  BY DEF Turned, Frame
<1> HIDE DEF n
<1>2. frs[n].tree[frs[n].at].kind \notin {"Try", "Catch"}
  BY DEF FrameAt, n
<1>3. \A j : Pending(new[n], j) <=> Pending(frs[n], j)
  BY <1>1, <1>2, PendingBefore, StaysPending
<1>4. \A i : Inside(new[n], i) => Inside(frs[n], i)
  BY <1>1, <1>2, InsideBefore
<1>5. \A k \in 1..n : /\ \A j : Pending(new[k], j) <=> Pending(frs[k], j)
                      /\ \A i : Inside(new[k], i) => Inside(frs[k], i)
  BY <1>1, <1>3, <1>4
<1>6. \A k \in 1..n : /\ SomePending(new[k]) <=> SomePending(frs[k])
                      /\ SomeInside(new[k]) => SomeInside(frs[k])
                      /\ Apart(frs[k]) => Apart(new[k])
  <2>1. ASSUME NEW fr PROVE /\ SomePending(fr) <=> \E j : Pending(fr, j)
                            /\ SomeInside(fr) <=> \E i : Inside(fr, i)
    BY DEF SomePending, SomeInside, Pending, Inside
  <2> QED
    BY <1>5, <2>1 DEF Apart
<1> QED
  BY <1>1, <1>6 DEF Open, EvalsApart, n

(* A Try that is met where nothing is pending. *)
LEMMA TurnAtTry ==
    ASSUME NEW frs, NEW new, Turned(frs, new), ~Open(frs),
           FrameAt(frs[Len(frs)]).kind = "Try"
    PROVE  /\ Open(new) <=> FrameAt(frs[Len(frs)]).handler # 0
           /\ \A k \in 1..Len(new) : Apart(new[k])
           /\ EvalsApart(new)
<1> DEFINE n == Len(frs)
           p == frs[n].at
           tree == frs[n].tree
<1>1. /\ n \in Nat \ {0} /\ n \in 1..n /\ Len(new) = n /\ frs[n] \in Frame
      /\ p <= Len(tree) /\ p \in Nat
      /\ \A k \in 1..n : k = n \/ new[k] = frs[k]
      /\ new[n] = Advanced(frs[n])
  BY DEF Turned, Frame
<1>2. tree[p].kind = "Try"
  BY DEF FrameAt
<1>3. /\ tree \in Tree /\ p \in 1..Len(tree) /\ Len(tree) \in Nat
      /\ new[n].tree = tree /\ new[n].at = p + 1
  BY <1>1, <1>2, AdvanceShape DEF Skips
<1> HIDE DEF n, p, tree
<1>4. \A k \in 1..n : \A j : ~Pending(frs[k], j)
  <2>1. \A k \in 1..n : ~SomePending(frs[k])
    BY DEF Open, n
  <2> QED
    BY <2>1 DEF SomePending, Pending
<1>5. \A j : Pending(new[n], j) => j = p /\ tree[p].handler # 0
  <2> SUFFICES ASSUME NEW j, Pending(Advanced(frs[n]), j)
               PROVE  j = p /\ tree[p].handler # 0
    BY <1>1
  <2>1. frs[n] \in Frame /\ frs[n].at <= Len(frs[n].tree)
    BY <1>1 DEF p, tree
  <2>2. Pending(frs[n], j) \/ (j = frs[n].at /\ frs[n].tree[j].handler # 0)
    BY <2>1, PendingBefore
  <2> QED
    BY <1>1, <1>4, <2>2 DEF p, tree
<1>6. tree[p].handler # 0 => Pending(new[n], p)
  <2>1. tree[p].handler \in {0} \cup (p + 1)..tree[p].last /\ tree[p].last \in Nat
    BY <1>3, TreeShape
  <2>2. tree[p].handler # 0 => p + 1 <= tree[p].handler
    BY <1>3, <2>1
  <2>3. p \in 1..(p + 1 - 1)
    BY <1>3
  <2> QED
    BY <1>2, <1>3, <2>2, <2>3 DEF Pending
<1>7. Open(new) <=> tree[p].handler # 0
  <2>1. ASSUME Open(new) PROVE tree[p].handler # 0
    BY <1>1, <1>4, <1>5, <2>1 DEF Open, SomePending
  <2>2. ASSUME tree[p].handler # 0 PROVE Open(new)
    <3>1. SomePending(new[n])
      BY <1>6, <2>2 DEF SomePending, Pending
    <3> QED
      BY <1>1, <3>1 DEF Open
  <2> QED
    BY <2>1, <2>2
<1>8. Apart(new[n])
  <2> SUFFICES ASSUME NEW j, NEW i, j < i, Pending(new[n], j), Inside(new[n], i)
               PROVE  FALSE
    BY DEF Apart
  <2>1. j = p
    BY <1>5
  <2>2. i \in 1..p
    BY <1>3 DEF Inside
  <2> QED
    BY <1>3, <2>1, <2>2
<1>9. \A k \in 1..n : k # n => ~SomePending(new[k]) /\ Apart(new[k])
  BY <1>1, <1>4 DEF SomePending, Apart
<1>10. EvalsApart(new)
  <2> SUFFICES ASSUME NEW k \in 1..n, NEW l \in 1..n, k < l, SomePending(new[k])
               PROVE  FALSE
    BY <1>1 DEF EvalsApart
  <2> QED
    BY <1>1, <1>9
<1> QED
  BY <1>1, <1>7, <1>8, <1>9, <1>10 DEF FrameAt, n, p, tree

(* A Catch ends the only block that is open. *)
LEMMA TurnAtCatch ==
    ASSUME NEW frs, NEW new, Turned(frs, new), EvalsApart(frs),
           \A k \in 1..Len(frs) : Apart(frs[k]),
           FrameAt(frs[Len(frs)]).kind = "Catch"
    PROVE  ~Open(new)
<1> DEFINE n == Len(frs)
<1>1. /\ n \in Nat \ {0} /\ n \in 1..n /\ Len(new) = n /\ frs[n] \in Frame
      /\ frs[n].at <= Len(frs[n].tree) /\ frs[n].at \in Nat
      /\ \A k \in 1..n : k = n \/ new[k] = frs[k]
      /\ new[n] = Advanced(frs[n])
  BY DEF Turned, Frame
<1>2. SomeInside(frs[n]) /\ ~SomePending(new[n])
  BY <1>1, CatchEndsBlock DEF FrameAt
<1> HIDE DEF n
<1>3. \A k \in 1..n : k # n => k < n
  BY <1>1
<1>4. \A k \in 1..n : k # n => ~SomePending(frs[k])
  BY <1>1, <1>2, <1>3 DEF EvalsApart, n
<1> QED
  BY <1>1, <1>2, <1>4 DEF Open

(***************************************************************************)
(* Every step keeps the flag right.                                        *)
(***************************************************************************)
LEMMA FreshFlag ==
    ASSUME NEW p \in Tree, NEW collected
    PROVE  FlagRight(NewSource(collected), <<Call(p)>>, FALSE)
<1> DEFINE frs == <<Call(p)>>
<1>1. Len(frs) = 1 /\ frs[1].at = 1
  BY DEF Call
<1>2. \A k \in 1..Len(frs) : k = 1
  BY <1>1
<1> HIDE DEF frs
<1>3. \A k \in 1..Len(frs) : \A j : ~Pending(frs[k], j)
  BY <1>1, <1>2 DEF Pending
<1>4. EvalsWait(frs) /\ ~Open(frs) /\ EvalsApart(frs) /\ \A k \in 1..Len(frs) : Apart(frs[k])
  BY <1>1, <1>3 DEF EvalsWait, Open, SomePending, EvalsApart, Apart
<1>5. NewSource(collected).inTry = FALSE
  BY DEF NewSource
<1> QED
  BY <1>4, <1>5 DEF FlagRight, frs

LEMMA BeginFlag ==
    ASSUME SourceInv, FlagInv, NEW p \in Sources, Start(p) \/ CallAgain(p)
    PROVE  FlagInv'
<1>1. Types
  BY DEF SourceInv
<1>2. /\ p # NotJs /\ source' = NewSource(registry) /\ frames' = <<Call(p)>>
      /\ nested' = FALSE /\ phase' = "walking"
  BY DEF Start, CallAgain, Begin
<1>3. p \in Tree
  BY <1>1, <1>2, SourcesArePrograms, SourceAssumption
<1>4. FlagRight(source', frames', nested')
  BY <1>2, <1>3, FreshFlag
<1>5. CASE Start(p)
  BY <1>4, <1>5 DEF Start, FlagInv
<1>6. CASE CallAgain(p)
  <2> DEFINE run == [program |-> program, source |-> source, frames |-> frames,
                     nested |-> nested]
  <2>1. phase = "walking" /\ outer' = Append(outer, run) /\ Walking
    BY <1>6 DEF CallAgain, SourceInv
  <2>2. run \in Run
    BY <1>1, <2>1 DEF Run, Walking, Sound, Types
  <2>3. FlagRight(run.source, run.frames, run.nested)
    BY <2>1 DEF FlagInv
  <2> HIDE DEF run
  <2>4. /\ Len(outer) \in Nat /\ Len(outer') = Len(outer) + 1
        /\ \A i \in 1..Len(outer) : outer'[i] = outer[i]
        /\ outer'[Len(outer) + 1] = run
    BY <1>1, <2>1, <2>2, AppendProperties DEF Types
  <2>5. \A i \in 1..Len(outer') : i \in 1..Len(outer) \/ i = Len(outer) + 1
    BY <2>4
  <2>6. \A i \in 1..Len(outer') :
           FlagRight(outer'[i].source, outer'[i].frames, outer'[i].nested)
    BY <2>3, <2>4, <2>5 DEF FlagInv
  <2> QED
    BY <1>4, <2>6 DEF FlagInv
<1> QED
  BY <1>5, <1>6

LEMMA EndRunFlag ==
    ASSUME SourceInv, FlagInv, phase = "walking", NEW collected, NEW result,
           NEW end \in {"done", "failed"}, EndRun(collected, result, end)
    PROVE  FlagInv'
<1>1. CASE outer = << >>
  <2>1. phase' # "walking" /\ outer' = outer
    BY <1>1 DEF EndRun
  <2> QED
    BY <2>1 DEF FlagInv
<1>2. CASE outer # << >>
  <2>1. outer \in Seq(Run)
    BY DEF SourceInv, Types
  <2>2. Len(outer) \in 1..Len(outer) /\ Len(outer) \in Nat
    BY <1>2, <2>1
  <2>3. /\ source' = outer[Len(outer)].source /\ frames' = outer[Len(outer)].frames
        /\ nested' = outer[Len(outer)].nested /\ outer' = SubSeq(outer, 1, Len(outer) - 1)
    BY <1>2 DEF EndRun, Last, Front
  <2>4. /\ Len(outer') = Len(outer) - 1
        /\ \A i \in 1..(Len(outer) - 1) : outer'[i] = outer[i]
    <3> DEFINE last == Len(outer)
    <3>1. last - 1 \in Int /\ 0 <= last - 1 /\ \A i \in 1..(last - 1) : outer[i] \in Run
      BY <2>1, <2>2
    <3>2. outer' = SubSeq(outer, 1, last - 1)
      BY <2>3
    <3> HIDE DEF last
    <3>3. /\ Len(outer') = IF 1 <= last - 1 THEN last - 1 - 1 + 1 ELSE 0
          /\ \A i \in 1..(last - 1 - 1 + 1) : outer'[i] = outer[1 + i - 1]
      BY <3>1, <3>2, SubSeqProperties
    <3>4. Len(outer') = last - 1 /\ \A i \in 1..(last - 1) : outer'[i] = outer[i]
      BY <3>1, <3>3
    <3> QED
      BY <3>4 DEF last
  <2>5. \A i \in 1..Len(outer') : i \in 1..Len(outer)
    BY <2>2, <2>4
  <2>6. \A i \in 1..Len(outer') :
           FlagRight(outer'[i].source, outer'[i].frames, outer'[i].nested)
    BY <2>4, <2>5 DEF FlagInv
  <2>7. FlagRight(source', frames', nested')
    BY <2>2, <2>3 DEF FlagInv
  <2> QED
    BY <2>6, <2>7 DEF FlagInv
<1> QED
  BY <1>1, <1>2

LEMMA EnterFlag ==
    ASSUME SourceInv, FlagInv, Enter
    PROVE  FlagInv'
<1>1. phase = "walking" /\ AtNode /\ Walking /\ FlagRight(source, frames, nested)
  BY DEF Enter, AtNode, SourceInv, FlagInv
<1>2. /\ Top \in Frame /\ Advanced(Top) \in Frame
  BY <1>1, AfterHereKeeps
<1>3. /\ frames \in Seq(Frame) /\ frames # << >> /\ Len(frames) \in Nat \ {0}
      /\ Top = frames[Len(frames)] /\ Top.at <= Len(Top.tree)
  BY <1>1, TopIsAFrame DEF Walking, Stack, AtNode, Top
<1>4. frames' = [frames EXCEPT ![Len(frames)] = Advanced(Top)]
  BY DEF Enter, ReplaceTop
<1>5. /\ frames' \in Seq(Frame) /\ Len(frames') = Len(frames)
      /\ \A k \in 1..(Len(frames) - 1) : frames'[k] = frames[k]
      /\ frames'[Len(frames)] = Advanced(Top)
  BY <1>2, <1>3, <1>4
<1>6. Turned(frames, frames') /\ FrameAt(frames[Len(frames)]) = Here
  BY <1>3, <1>5 DEF Turned, FrameAt, Here
<1>7. EvalsWait(frames')
  BY <1>1, <1>5 DEF FlagRight, EvalsWait
<1>8. source' = AfterHere /\ outer' = outer /\ phase' = phase
      /\ (nested' <=> nested \/ (Here.kind = "Try" /\ InSomeBlock))
  BY DEF Enter
<1>9. ASSUME ~nested'
      PROVE  /\ source'.inTry <=> Open(frames')
             /\ \A k \in 1..Len(frames') : Apart(frames'[k])
             /\ EvalsApart(frames')
  <2>1. ~nested /\ ~(Here.kind = "Try" /\ InSomeBlock)
    BY <1>8, <1>9
  <2>2. /\ source.inTry <=> Open(frames)
        /\ \A k \in 1..Len(frames) : Apart(frames[k])
        /\ EvalsWait(frames) /\ EvalsApart(frames)
    BY <1>1, <2>1 DEF FlagRight
  <2>3. CASE Here.kind = "Try"
    <3>1. ~Open(frames)
      BY <1>1, <2>1, <2>2, <2>3, BlocksAreOpen
    <3>2. /\ Open(frames') <=> Here.handler # 0
          /\ \A k \in 1..Len(frames') : Apart(frames'[k])
          /\ EvalsApart(frames')
      BY <1>6, <2>3, <3>1, TurnAtTry
    <3>3. source'.inTry <=> Here.handler # 0
      BY <1>1, <1>8, <2>2, <2>3, <3>1, FlagAfterHere
    <3> QED
      BY <3>2, <3>3
  <2>4. CASE Here.kind = "Catch"
    <3>1. ~Open(frames')
      BY <1>6, <2>2, <2>4, TurnAtCatch
    <3>2. ~source'.inTry
      BY <1>1, <1>8, <2>4, FlagAfterHere
    <3> QED
      BY <1>5, <3>1, <3>2, NothingPending
  <2>5. CASE Here.kind \notin {"Try", "Catch"}
    <3>1. /\ Open(frames') <=> Open(frames)
          /\ \A k \in 1..Len(frames') : Apart(frames'[k])
          /\ EvalsApart(frames')
      BY <1>6, <2>2, <2>5, TurnElsewhere
    <3>2. source'.inTry = source.inTry
      BY <1>1, <1>8, <2>5, FlagAfterHere
    <3> QED
      BY <2>2, <3>1, <3>2
  <2> QED
    BY <2>3, <2>4, <2>5
<1>10. FlagRight(source', frames', nested')
  BY <1>7, <1>9 DEF FlagRight
<1> QED
  BY <1>8, <1>10 DEF FlagInv

(* The body of an eval begins where nothing of it is pending.              *)
LEMMA EnterEvalFlag ==
    ASSUME SourceInv, FlagInv, EnterEval
    PROVE  FlagInv'
<1>1. phase = "walking" /\ AtNode /\ Walking /\ FlagRight(source, frames, nested)
  BY DEF EnterEval, AtNode, SourceInv, FlagInv
<1>2. /\ frames \in Seq(Frame) /\ Len(frames) \in Nat \ {0} /\ Top \in Frame
      /\ Top = frames[Len(frames)] /\ Top.at <= Len(Top.tree)
  BY <1>1, TopIsAFrame DEF Walking, Stack, AtNode, Top
<1>3. AtEval(Top)
  BY <1>2 DEF EnterEval, AtEval, Here
<1>4. Here.kind \in {"RequireByEval", "Eval"}
  BY <1>2, <1>3, EvalIsNoTry DEF Here
<1>5. source'.inTry = source.inTry /\ outer' = outer /\ phase' = phase /\ nested' = nested
  BY <1>1, <1>4, FlagAfterHere DEF EnterEval
<1>6. frames' = Append(frames, Call(Here.body)) /\ Call(Here.body).at = 1
  BY DEF EnterEval, BodyCalled, Call
<1>7. /\ Len(frames') = Len(frames) + 1
      /\ \A k \in 1..Len(frames) : frames'[k] = frames[k]
      /\ frames'[Len(frames) + 1] = Call(Here.body)
  BY <1>2, <1>6
<1>8. /\ \A k \in 1..Len(frames') : k \in 1..Len(frames) \/ k = Len(frames) + 1
      /\ \A k \in 1..(Len(frames') - 1) :
            k \in 1..(Len(frames) - 1) \/ (k = Len(frames) /\ frames'[k] = Top)
  BY <1>2, <1>7
<1>9. EvalsWait(frames')
  <2>1. \A k \in 1..(Len(frames) - 1) : AtEval(frames'[k])
    BY <1>1, <1>2, <1>7 DEF FlagRight, EvalsWait
  <2> QED
    BY <1>3, <1>8, <2>1 DEF EvalsWait
<1>10. /\ \A j : ~Pending(Call(Here.body), j) /\ ~Inside(Call(Here.body), j)
       /\ Apart(Call(Here.body))
       /\ ~SomePending(Call(Here.body)) /\ ~SomeInside(Call(Here.body))
  BY <1>6 DEF Pending, Inside, Apart, SomePending, SomeInside
<1>11. Open(frames') <=> Open(frames)
  BY <1>2, <1>7, <1>8, <1>10 DEF Open
<1>12. (\A k \in 1..Len(frames) : Apart(frames[k])) => \A k \in 1..Len(frames') : Apart(frames'[k])
  BY <1>7, <1>8, <1>10
<1>13. EvalsApart(frames) => EvalsApart(frames')
  BY <1>7, <1>8, <1>10 DEF EvalsApart
<1>14. FlagRight(source', frames', nested')
  BY <1>1, <1>5, <1>9, <1>11, <1>12, <1>13 DEF FlagRight
<1> QED
  BY <1>5, <1>14 DEF FlagInv

(* At its end nothing of a body is pending any more.                       *)
LEMMA NothingPendingAtEnd ==
    ASSUME NEW fr \in Frame, fr.at > Len(fr.tree)
    PROVE  ~SomePending(fr)
<1> SUFFICES ASSUME NEW j, Pending(fr, j) PROVE FALSE
  BY DEF SomePending
<1>1. /\ fr.tree \in Tree /\ Len(fr.tree) \in Nat /\ fr.at \in Nat
      /\ fr.at \in 1..(Len(fr.tree) + 1)
  BY SourceAssumption DEF Frame
<1>2. j \in 1..Len(fr.tree) /\ fr.at <= fr.tree[j].handler
  BY <1>1 DEF Pending
<1>3. /\ fr.tree[j].last \in j..Len(fr.tree)
      /\ fr.tree[j].handler \in {0} \cup (j + 1)..fr.tree[j].last
  BY <1>1, <1>2, TreeShape
<1> QED
  BY <1>1, <1>2, <1>3

LEMMA LeaveEvalFlag ==
    ASSUME SourceInv, FlagInv, LeaveEval
    PROVE  FlagInv'
<1> DEFINE n == Len(frames)
           caller == n - 1
           below == SubSeq(frames, 1, caller)
<1>1. phase = "walking" /\ Walking /\ FlagRight(source, frames, nested)
  BY DEF LeaveEval, SourceInv, FlagInv
<1>2. /\ frames \in Seq(Frame) /\ n \in Nat /\ n > 1
      /\ frames[n].at > Len(frames[n].tree)
      /\ \A k \in 1..n : frames[k] \in Frame
  BY <1>1 DEF LeaveEval, Walking, Stack, Top
<1>3. /\ frames' = Append(SubSeq(frames, 1, caller - 1), Advanced(frames[caller]))
      /\ source' = source /\ nested' = nested /\ outer' = outer /\ phase' = phase
  BY DEF LeaveEval
<1>4. /\ below \in Seq(Frame) /\ Len(below) = caller
      /\ \A k \in 1..caller : below[k] = frames[k]
  <2>1. caller \in Int /\ 1 <= caller /\ \A k \in 1..caller : frames[k] \in Frame
    BY <1>2
  <2>2. /\ below \in Seq(Frame)
        /\ Len(below) = IF 1 <= caller THEN caller - 1 + 1 ELSE 0
        /\ \A k \in 1..(caller - 1 + 1) : below[k] = frames[1 + k - 1]
    <3> HIDE DEF caller
    <3> QED
      BY <2>1, SubSeqProperties
  <2> HIDE DEF below, caller
  <2> QED
    BY <2>1, <2>2
<1>5. AtEval(frames[caller]) /\ frames[caller] \in Frame /\ caller \in 1..n
  BY <1>1, <1>2 DEF FlagRight, EvalsWait
<1>6. /\ frames[caller].at <= Len(frames[caller].tree)
      /\ frames[caller].tree[frames[caller].at].kind \in {"RequireByEval", "Eval"}
      /\ Advanced(frames[caller]) \in Frame
  BY <1>5, EvalIsNoTry, HereIsANode
<1>7. /\ frames' \in Seq(Frame) /\ Len(frames') = caller
      /\ \A k \in 1..(caller - 1) : frames'[k] = frames[k]
      /\ frames'[caller] = Advanced(frames[caller])
  <2> DEFINE init == SubSeq(frames, 1, caller - 1)
  <2>1. /\ init \in Seq(Frame) /\ Len(init) = caller - 1
        /\ \A k \in 1..(caller - 1) : init[k] = frames[k]
    <3>1. /\ caller - 1 \in Int /\ 0 <= caller - 1
          /\ \A k \in 1..(caller - 1) : frames[k] \in Frame
      BY <1>2
    <3>2. /\ init \in Seq(Frame)
          /\ Len(init) = IF 1 <= caller - 1 THEN caller - 1 - 1 + 1 ELSE 0
          /\ \A k \in 1..(caller - 1 - 1 + 1) : init[k] = frames[1 + k - 1]
      <4> HIDE DEF caller
      <4> QED
        BY <3>1, SubSeqProperties
    <3> HIDE DEF init, caller
    <3> QED
      BY <3>1, <3>2
  <2>2. frames' = Append(init, Advanced(frames[caller]))
    BY <1>3
  <2>3. caller \in Nat
    BY <1>2
  <2> HIDE DEF init, caller
  <2>4. /\ frames' \in Seq(Frame) /\ Len(frames') = Len(init) + 1
        /\ \A k \in 1..Len(init) : frames'[k] = init[k]
        /\ frames'[Len(init) + 1] = Advanced(frames[caller])
    BY <1>6, <2>1, <2>2, AppendProperties
  <2> QED
    BY <2>1, <2>3, <2>4
<1>8. ~SomePending(frames[n])
  BY <1>2, NothingPendingAtEnd
<1> HIDE DEF below
<1>9. caller \in Nat \ {0} /\ \A k \in 1..n : k \in 1..caller \/ k = n
  BY <1>2
<1>10. /\ Open(below) <=> Open(frames)
       /\ EvalsApart(frames) => EvalsApart(below)
       /\ (\A k \in 1..n : Apart(frames[k])) => \A k \in 1..Len(below) : Apart(below[k])
  <2>1. \A k \in 1..caller : k \in 1..n
    BY <1>2
  <2> HIDE DEF caller
  <2>2. Open(below) <=> Open(frames)
    BY <1>4, <1>8, <1>9, <2>1 DEF Open, n
  <2>3. EvalsApart(frames) => EvalsApart(below)
    BY <1>4, <2>1 DEF EvalsApart, n
  <2> QED
    BY <1>4, <2>1, <2>2, <2>3
<1>11. Turned(below, frames') /\ FrameAt(below[Len(below)]).kind \notin {"Try", "Catch"}
  <2>1. below[caller] = frames[caller] /\ below # << >>
    BY <1>4, <1>9
  <2>2. \A k \in 1..(caller - 1) : k \in 1..caller
    BY <1>9
  <2> HIDE DEF caller
  <2> QED
    BY <1>4, <1>6, <1>7, <2>1, <2>2 DEF Turned, FrameAt
<1>12. /\ Open(frames') <=> Open(frames)
       /\ EvalsApart(frames) => EvalsApart(frames')
       /\ (\A k \in 1..n : Apart(frames[k])) => \A k \in 1..Len(frames') : Apart(frames'[k])
  BY <1>10, <1>11, TurnElsewhere
<1>13. EvalsWait(frames')
  <2>1. \A k \in 1..(caller - 1) : k \in 1..(n - 1)
    BY <1>2
  <2> QED
    BY <1>1, <1>7, <2>1 DEF FlagRight, EvalsWait
<1>14. FlagRight(source', frames', nested')
  BY <1>1, <1>3, <1>12, <1>13 DEF FlagRight
<1> QED
  BY <1>3, <1>14 DEF FlagInv

LEMMA FlagStep ==
    ASSUME SourceInv, FlagInv, [Next]_vars
    PROVE  FlagInv'
<1>1. ASSUME NEW p \in Sources, Refuse(p) PROVE FlagInv'
  BY <1>1 DEF Refuse, FlagInv
<1>2. ASSUME NEW p \in Sources, Start(p) \/ CallAgain(p) PROVE FlagInv'
  BY <1>2, BeginFlag
<1>3. ASSUME EvalFails PROVE FlagInv'
  BY <1>3, EndRunFlag DEF EvalFails, AtNode
<1>4. ASSUME Finish PROVE FlagInv'
  <2>1. PICK collected, result : EndRun(collected, result, "done")
    BY <1>4 DEF Finish
  <2> QED
    BY <1>4, <2>1, EndRunFlag DEF Finish
<1>5. ASSUME Panic PROVE FlagInv'
  <2>1. phase' = "failed" /\ Len(outer') = 0
    BY <1>5 DEF Panic
  <2> QED
    BY <2>1 DEF FlagInv
<1>6. ASSUME UNCHANGED vars PROVE FlagInv'
  BY <1>6 DEF vars, FlagInv
<1> QED
  BY <1>1, <1>2, <1>3, <1>4, <1>5, <1>6, EnterFlag, EnterEvalFlag, LeaveEvalFlag
     DEF Next, Walk

(* As long as no Try is met in the block of another, in the source or in   *)
(* what evals make part of it, a dependency is recorded as in a try        *)
(* exactly if it is in the block of one with a handler.                    *)
THEOREM FlagIsRightUnlessNested == Spec => []InTryIsRightUnlessNested
<1>1. Init => FlagInv
  BY DEF Init, FlagInv
<1>2. SourceInv /\ FlagInv /\ [Next]_vars => FlagInv'
  BY FlagStep
<1>3. SourceInv /\ FlagInv => InTryIsRightUnlessNested
  <2> SUFFICES ASSUME SourceInv, FlagInv, AtDependency, ~nested
               PROVE  source.inTry = InSomeBlock
    BY DEF InTryIsRightUnlessNested
  <2>1. Walking /\ AtNode /\ FlagRight(source, frames, nested) /\ Here.kind # "Catch"
    BY DEF AtDependency, AtNode, SourceInv, FlagInv, DependencyKind
  <2>2. EvalsWait(frames) /\ (source.inTry <=> Open(frames))
    BY <2>1 DEF FlagRight
  <2>3. InSomeBlock <=> Open(frames)
    BY <2>1, <2>2, BlocksAreOpen
  <2>4. source.inTry \in BOOLEAN
    BY <2>1, FlagAfterHere
  <2>5. InSomeBlock \in BOOLEAN
    BY DEF InSomeBlock
  <2> QED
    BY <2>2, <2>3, <2>4, <2>5
<1> QED
  BY <1>1, <1>2, <1>3, SourceInvariant, PTL DEF Spec
=============================================================================
