-------------------------- MODULE ProbeRunner_proofs --------------------------
(***************************************************************************)
(* For every list of probes, every grouping of them and every answer: the  *)
(* loop of ProbeRunner::walk runs exactly the probes it should.            *)
(***************************************************************************)
EXTENDS ProbeRunner, TLAPS

(***************************************************************************)
(* The inductive invariant: what HeardExactly says of all probes holds of  *)
(* those before the loop's position, nothing heard there ended the loop,   *)
(* and groups is what the answers heard there make it.                     *)
(***************************************************************************)
Rightly(p) == p \in DOMAIN heard <=> Applies(p) /\ ~Silenced(p)
EndsLoop(q) == heard[q] = "Skip" \/ (Stops(q, heard[q]) /\ Group[q] = NoGroup)
StoppersBefore(p) == {q \in DOMAIN heard : q < p /\ Stops(q, heard[q])}

SoFar ==
    /\ \A q \in DOMAIN heard : q <= at /\ (q < at => ~EndsLoop(q))
    /\ \A p \in Probe : p < at => Rightly(p)
    /\ groups = {Group[q] : q \in StoppersBefore(at)}

AtProbe ==
    /\ at \in DOMAIN heard
    /\ heard[at] = signal
    /\ Rightly(at)

Inv ==
    /\ TypeOK
    /\ pc \in {"probing", "ran", "heeding"} => SoFar
    /\ pc = "probing" => at \notin DOMAIN heard
    /\ pc \in {"ran", "heeding"} => AtProbe
    /\ HeardExactly
    /\ marks \subseteq {at}
    /\ pc # "ran" => marks = {}

LEMMA InitInv == Init => Inv
BY ProbesAssumption DEF Init, Inv, TypeOK, HeardExactly, Probe, Signal

-----------------------------------------------------------------------------
LEMMA BeginTypeOK == \A t \in NodeType : TypeOK /\ Begin(t) => TypeOK'
BY ProbesAssumption DEF TypeOK, Begin, NoGroups, Probe

LEMMA ReturnTypeOK == \A a \in {"None", "Skip"} : TypeOK /\ Return(a) => TypeOK'
BY DEF TypeOK, Return

LEMMA StepTypeOK == TypeOK /\ Step => TypeOK'
<1> SUFFICES ASSUME TypeOK, Step PROVE TypeOK'
  OBVIOUS
<1>1. CASE PassOver
  BY <1>1, ProbesAssumption DEF TypeOK, PassOver, Probe
<1>2. ASSUME NEW s \in Signal, Run(s) PROVE TypeOK'
  <2>1. DOMAIN heard' = DOMAIN heard \cup {at} /\ \A p \in DOMAIN heard' : heard'[p] \in Signal
    BY <1>2 DEF Run, TypeOK
  <2>2. QED
    BY <1>2, <2>1 DEF Run, TypeOK
<1>3. CASE Teardown
  BY <1>3 DEF TypeOK, Teardown, TornDown
<1>4. CASE HeedSkip \/ HeedStop \/ Complete
  BY <1>4, ReturnTypeOK DEF HeedSkip, HeedStop, Complete
<1>5. CASE HeedGroupStop \/ GoOn
  <2>1. at \in Probe /\ at' = at + 1 /\ pc' = "probing"
    BY <1>5 DEF TypeOK, HeedGroupStop, GoOn, NextProbe
  <2>2. at' \in 1..(N + 1)
    BY <2>1, ProbesAssumption DEF Probe
  <2>3. groups' \subseteq {Group[p] : p \in Probe} \ {NoGroup}
    BY <1>5, <2>1 DEF TypeOK, HeedGroupStop, GoOn, InsertGroup
  <2>4. UNCHANGED <<nodeType, signal, marks, heard, action>>
    BY <1>5 DEF HeedGroupStop, GoOn
  <2>5. QED
    BY <2>1, <2>2, <2>3, <2>4 DEF TypeOK
<1>6. QED
  BY <1>1, <1>2, <1>3, <1>4, <1>5 DEF Step
-----------------------------------------------------------------------------
(***************************************************************************)
(* Under SoFar, break_groups knows exactly what should silence the probe   *)
(* the loop is at.                                                         *)
(***************************************************************************)
LEMMA StoppedIsSilenced ==
    ASSUME TypeOK, SoFar, at \in Probe, at \notin DOMAIN heard
    PROVE  Stopped(at) <=> Silenced(at)
<1>1. \A q \in DOMAIN heard : q < at /\ ~EndsLoop(q)
  BY DEF SoFar, TypeOK, Probe
<1>2. ASSUME Stopped(at) PROVE Silenced(at)
  <2>1. PICK q \in StoppersBefore(at) : Group[q] = Group[at]
    BY <1>2 DEF Stopped, SoFar
  <2>2. QED
    BY <2>1 DEF StoppersBefore, Silenced, Silences
<1>3. ASSUME Silenced(at) PROVE Stopped(at)
  <2>1. PICK q \in DOMAIN heard : q < at /\ Silences(q, at)
    BY <1>3 DEF Silenced
  <2>2. Stops(q, heard[q]) /\ Group[q] # NoGroup /\ Group[q] = Group[at]
    BY <1>1, <2>1 DEF Silences, EndsLoop
  <2>3. Group[q] \in groups
    BY <2>1, <2>2 DEF SoFar, StoppersBefore
  <2>4. QED
    BY <2>2, <2>3 DEF Stopped
<1>4. QED
  BY <1>2, <1>3

(***************************************************************************)
(* The loop moves on to the next probe.                                    *)
(***************************************************************************)
LEMMA Advances ==
    ASSUME TypeOK, SoFar, at \in Probe, Rightly(at),
           at \in DOMAIN heard => ~EndsLoop(at),
           at' = at + 1, heard' = heard, nodeType' = nodeType,
           groups' = {Group[q] : q \in StoppersBefore(at + 1)}
    PROVE  SoFar' /\ at' \notin DOMAIN heard'
<1>1. DOMAIN heard \subseteq Probe /\ Probe \subseteq Int /\ at \in Int
  BY ProbesAssumption DEF TypeOK, Probe
<1>2. \A q \in DOMAIN heard : q < at + 1 /\ ~EndsLoop(q)
  <2> SUFFICES ASSUME NEW q \in DOMAIN heard PROVE q < at + 1 /\ ~EndsLoop(q)
    OBVIOUS
  <2>1. q \in Int /\ q <= at /\ (q < at => ~EndsLoop(q))
    BY <1>1 DEF SoFar
  <2>2. q = at \/ q < at
    BY <1>1, <2>1
  <2>3. ~EndsLoop(q)
    BY <2>1, <2>2
  <2>4. QED
    BY <1>1, <2>1, <2>3
<1>3. \A p \in Probe : p < at + 1 => Rightly(p)
  BY <1>1 DEF SoFar
<1>4. \A p : Rightly(p)' <=> Rightly(p)
  BY DEF Rightly, Applies, Silenced, Silences
<1>5. \A q : EndsLoop(q)' <=> EndsLoop(q)
  BY DEF EndsLoop
<1>6. StoppersBefore(at)' = StoppersBefore(at + 1)
  BY DEF StoppersBefore
<1>7. \A q \in DOMAIN heard : q <= at + 1 /\ q # at + 1
  BY <1>1, <1>2
<1>8. at' \notin DOMAIN heard'
  BY <1>7
<1>9. \A q \in DOMAIN heard' : q <= at' /\ (q < at' => ~EndsLoop(q)')
  BY <1>2, <1>5, <1>7
<1>10. \A p \in Probe : p < at' => Rightly(p)'
  BY <1>3, <1>4
<1>11. groups' = {Group[q] : q \in StoppersBefore(at)'}
  BY <1>6
<1>12. QED
  BY <1>8, <1>9, <1>10, <1>11 DEF SoFar

LEMMA PassOverInv == Inv /\ PassOver => Inv'
<1> SUFFICES ASSUME Inv, PassOver PROVE Inv'
  OBVIOUS
<1>1. TypeOK /\ TypeOK' /\ SoFar /\ at \notin DOMAIN heard /\ at \in Probe /\ ~Runs(at)
  BY StepTypeOK DEF Inv, PassOver, Step
<1>2. Rightly(at)
  BY <1>1, StoppedIsSilenced DEF Rightly, Runs
<1>3. StoppersBefore(at + 1) = StoppersBefore(at)
  <2>1. \A q \in DOMAIN heard : q < at + 1 <=> q < at
    BY <1>1 DEF TypeOK, Probe
  <2>2. QED
    BY <2>1 DEF StoppersBefore
<1>4. groups' = {Group[q] : q \in StoppersBefore(at + 1)}
  BY <1>1, <1>3 DEF PassOver, SoFar
<1>5. SoFar' /\ at' \notin DOMAIN heard'
  BY <1>1, <1>2, <1>4, Advances DEF PassOver
<1>6. pc' = "probing" /\ marks' = {}
  BY DEF PassOver, Inv
<1>7. QED
  BY <1>1, <1>5, <1>6 DEF Inv, HeardExactly

LEMMA RunInv == \A s \in Signal : Inv /\ Run(s) => Inv'
<1> SUFFICES ASSUME NEW s \in Signal, Inv, Run(s) PROVE Inv'
  OBVIOUS
<1>1. /\ TypeOK /\ TypeOK' /\ SoFar /\ at \notin DOMAIN heard
      /\ at \in Probe /\ Applies(at) /\ ~Stopped(at)
  BY StepTypeOK DEF Inv, Run, Step, Runs
<1>2. /\ DOMAIN heard' = DOMAIN heard \cup {at} /\ heard'[at] = s
      /\ \A q \in DOMAIN heard : heard'[q] = heard[q]
      /\ at' = at /\ groups' = groups /\ nodeType' = nodeType
      /\ signal' = s /\ pc' = "ran"
  BY <1>1 DEF Run
<1>3. DOMAIN heard \subseteq Probe /\ \A q \in DOMAIN heard : q < at
  BY <1>1 DEF SoFar, TypeOK, Probe
<1>4. \A p \in Probe : p <= at => (Silenced(p)' <=> Silenced(p))
  <2> SUFFICES ASSUME NEW p \in Probe, p <= at PROVE Silenced(p)' <=> Silenced(p)
    OBVIOUS
  <2>1. \A q \in DOMAIN heard' : q < p => q \in DOMAIN heard
    BY <1>1, <1>2 DEF Probe
  <2>2. \A q \in DOMAIN heard : Silences(q, p)' <=> Silences(q, p)
    BY <1>2 DEF Silences
  <2>3. QED
    BY <1>2, <2>1, <2>2 DEF Silenced
<1>5. \A p \in Probe : p < at => Rightly(p)'
  <2> SUFFICES ASSUME NEW p \in Probe, p < at PROVE Rightly(p)'
    OBVIOUS
  <2>1. Rightly(p) /\ p # at /\ (Silenced(p)' <=> Silenced(p))
    BY <1>1, <1>4 DEF SoFar, Probe
  <2>2. QED
    BY <1>2, <2>1 DEF Rightly, Applies
<1>6. Rightly(at)'
  <2>1. ~Silenced(at)'
    BY <1>1, <1>2, <1>4, StoppedIsSilenced DEF Probe
  <2>2. QED
    BY <1>1, <1>2, <2>1 DEF Rightly, Applies
<1>7. \A q \in DOMAIN heard' : q <= at' /\ (q < at' => ~EndsLoop(q)')
  <2>1. ASSUME NEW q \in DOMAIN heard PROVE q <= at /\ ~EndsLoop(q)'
    BY <1>1, <1>2, <1>3 DEF SoFar, EndsLoop
  <2>2. at <= at /\ ~(at < at)
    BY <1>1 DEF Probe
  <2>3. QED
    BY <1>2, <2>1, <2>2
<1>8. StoppersBefore(at)' = StoppersBefore(at)
  <2>1. \A q : q \in DOMAIN heard' /\ q < at <=> q \in DOMAIN heard /\ q < at
    BY <1>1, <1>2 DEF Probe
  <2>2. QED
    BY <1>2, <2>1 DEF StoppersBefore
<1>9. SoFar' /\ AtProbe'
  BY <1>1, <1>2, <1>5, <1>6, <1>7, <1>8 DEF SoFar, AtProbe
<1>10. marks' \subseteq {at'}
  BY <1>2 DEF Run, Inv
<1>11. QED
  BY <1>1, <1>2, <1>9, <1>10 DEF Inv, HeardExactly

LEMMA TeardownInv == Inv /\ Teardown => Inv'
<1> SUFFICES ASSUME Inv, Teardown PROVE Inv'
  OBVIOUS
<1>1. TypeOK' /\ SoFar /\ AtProbe /\ pc' = "heeding"
  BY StepTypeOK DEF Inv, Teardown, Step
<1>2. UNCHANGED <<nodeType, at, groups, signal, heard>>
  BY DEF Teardown
<1>3. \A p : Rightly(p)' <=> Rightly(p)
  BY <1>2 DEF Rightly, Applies, Silenced, Silences
<1>4. SoFar' /\ AtProbe'
  BY <1>1, <1>2, <1>3 DEF SoFar, AtProbe, EndsLoop, StoppersBefore
<1>5. marks' = {}
  BY DEF Teardown, TornDown, Inv
<1>6. QED
  BY <1>1, <1>4, <1>5 DEF Inv, HeardExactly

LEMMA GoOnInv == Inv /\ (GoOn \/ HeedGroupStop) => Inv'
<1> SUFFICES ASSUME Inv, GoOn \/ HeedGroupStop PROVE Inv'
  OBVIOUS
<1>1. /\ TypeOK /\ TypeOK' /\ SoFar /\ at \in Probe /\ at \in DOMAIN heard
      /\ heard[at] = signal /\ Rightly(at) /\ marks = {}
  BY StepTypeOK DEF Inv, TypeOK, GoOn, HeedGroupStop, Step, AtProbe
<1>2. /\ at' = at + 1 /\ heard' = heard /\ nodeType' = nodeType
      /\ pc' = "probing" /\ marks' = {}
  BY <1>1 DEF GoOn, HeedGroupStop, NextProbe
<1>3. \A q \in DOMAIN heard : q < at + 1 <=> q < at \/ q = at
  BY <1>1 DEF TypeOK, Probe
<1>4. ~EndsLoop(at)
  BY <1>1 DEF EndsLoop, GoOn, HeedGroupStop, Stops
<1>5. groups' = {Group[q] : q \in StoppersBefore(at + 1)}
  <2>1. CASE GoOn
    <3>1. StoppersBefore(at + 1) = StoppersBefore(at)
      BY <1>1, <1>3, <2>1 DEF StoppersBefore, GoOn
    <3>2. QED
      BY <1>1, <2>1, <3>1 DEF GoOn, SoFar
  <2>2. CASE HeedGroupStop
    <3>1. StoppersBefore(at + 1) = StoppersBefore(at) \cup {at}
      BY <1>1, <1>3, <2>2 DEF StoppersBefore, HeedGroupStop
    <3>2. QED
      BY <1>1, <2>2, <3>1 DEF HeedGroupStop, InsertGroup, SoFar
  <2>3. QED
    BY <2>1, <2>2
<1>6. SoFar' /\ at' \notin DOMAIN heard'
  BY <1>1, <1>2, <1>4, <1>5, Advances
<1>7. QED
  BY <1>1, <1>2, <1>6 DEF Inv, HeardExactly

(***************************************************************************)
(* The answer of the probe at hand ends the loop: it silences the rest.    *)
(***************************************************************************)
LEMMA EndsInv == Inv /\ (HeedSkip \/ HeedStop) => Inv'
<1> SUFFICES ASSUME Inv, HeedSkip \/ HeedStop PROVE Inv'
  OBVIOUS
<1>1. /\ TypeOK /\ TypeOK' /\ SoFar /\ at \in Probe /\ at \in DOMAIN heard
      /\ heard[at] = signal /\ Rightly(at) /\ marks = {}
  BY StepTypeOK DEF Inv, TypeOK, HeedSkip, HeedStop, Step, AtProbe
<1>2. /\ UNCHANGED <<nodeType, at, groups, heard>> /\ pc' = "idle" /\ marks' = {}
      /\ action' = "Skip" <=> signal = "Skip"
  BY <1>1 DEF HeedSkip, HeedStop, Return, Stops
<1>3. \A p \in Probe : p > at => p \notin DOMAIN heard /\ Silenced(p)
  <2> SUFFICES ASSUME NEW p \in Probe, p > at PROVE p \notin DOMAIN heard /\ Silenced(p)
    OBVIOUS
  <2>1. p \notin DOMAIN heard
    BY <1>1 DEF SoFar, Probe
  <2>2. Silences(at, p)
    BY <1>1 DEF HeedSkip, HeedStop, Silences
  <2>3. QED
    BY <1>1, <2>1, <2>2 DEF Silenced, Probe
<1>4. \A p \in Probe : Rightly(p)
  <2>1. \A p \in Probe : p < at \/ p = at \/ p > at
    BY <1>1 DEF Probe
  <2>2. QED
    BY <1>1, <1>3, <2>1 DEF SoFar, Rightly
<1>5. signal = "Skip" <=> \E p \in DOMAIN heard : heard[p] = "Skip"
  <2>1. \A q \in DOMAIN heard : q # at => heard[q] # "Skip"
    BY <1>1 DEF SoFar, EndsLoop, TypeOK, Probe
  <2>2. QED
    BY <1>1, <2>1
<1>6. HeardExactly'
  BY <1>2, <1>4, <1>5 DEF HeardExactly, Rightly, Applies, Silenced, Silences
<1>7. QED
  BY <1>1, <1>2, <1>6 DEF Inv

LEMMA CompleteInv == Inv /\ Complete => Inv'
<1> SUFFICES ASSUME Inv, Complete PROVE Inv'
  OBVIOUS
<1>1. TypeOK /\ TypeOK' /\ SoFar /\ at \notin Probe /\ marks = {}
  BY StepTypeOK DEF Inv, Complete, Step
<1>2. /\ UNCHANGED <<nodeType, at, groups, heard>> /\ pc' = "idle" /\ marks' = {}
      /\ action' = "None"
  BY <1>1 DEF Complete, Return
<1>3. at = N + 1 /\ \A p \in Probe : p < at
  BY <1>1, ProbesAssumption DEF TypeOK, Probe
<1>4. \A p \in Probe : Rightly(p)
  BY <1>1, <1>3 DEF SoFar
<1>5. \A p \in DOMAIN heard : heard[p] # "Skip"
  BY <1>1, <1>3 DEF SoFar, EndsLoop, TypeOK
<1>6. HeardExactly'
  BY <1>2, <1>4, <1>5 DEF HeardExactly, Rightly, Applies, Silenced, Silences
<1>7. QED
  BY <1>1, <1>2, <1>6 DEF Inv

LEMMA BeginInv == \A t \in NodeType : Inv /\ Begin(t) => Inv'
<1> SUFFICES ASSUME NEW t \in NodeType, Inv, Begin(t) PROVE Inv'
  OBVIOUS
<1>1. TypeOK' /\ marks' = {} /\ pc' = "probing"
  BY BeginTypeOK DEF Inv, Begin
<1>2. at' = 1 /\ groups' = {} /\ DOMAIN heard' = {}
  BY DEF Begin, NoGroups
<1>3. SoFar'
  BY <1>2, ProbesAssumption DEF SoFar, StoppersBefore, Probe
<1>4. QED
  BY <1>1, <1>2, <1>3 DEF Inv, HeardExactly

LEMMA NextInv == Inv /\ [Next]_vars => Inv'
<1> SUFFICES ASSUME Inv, [Next]_vars PROVE Inv'
  OBVIOUS
<1>1. CASE Step
  BY <1>1, PassOverInv, RunInv, TeardownInv, GoOnInv, EndsInv, CompleteInv DEF Step
<1>2. CASE UNCHANGED vars
  <2>1. TypeOK'
    BY <1>2 DEF Inv, TypeOK, vars
  <2>2. \A p : Rightly(p)' <=> Rightly(p)
    BY <1>2 DEF Rightly, Applies, Silenced, Silences, vars
  <2>3. HeardExactly'
    BY <1>2 DEF Inv, HeardExactly, Applies, Silenced, Silences, vars
  <2>4. SoFar' <=> SoFar
    BY <1>2, <2>2 DEF SoFar, EndsLoop, StoppersBefore, vars
  <2>5. AtProbe' <=> AtProbe
    BY <1>2, <2>2 DEF AtProbe, vars
  <2>6. QED
    BY <1>2, <2>1, <2>3, <2>4, <2>5 DEF Inv, vars
<1>3. QED
  BY <1>1, <1>2, BeginInv DEF Next

-----------------------------------------------------------------------------
LEMMA Invariance == Spec => []Inv
BY InitInv, NextInv, PTL DEF Spec

(***************************************************************************)
(* The loop position stays within the list, and break_groups only ever     *)
(* holds groups that some probe declares.                                  *)
(***************************************************************************)
THEOREM TypeCorrect == Spec => []TypeOK
<1>1. Inv => TypeOK
  BY DEF Inv
<1>2. QED
  BY <1>1, Invariance, PTL

(***************************************************************************)
(* For every list of probes: the probes run at a node are those that apply *)
(* and that no earlier answer at this node silences.                       *)
(***************************************************************************)
THEOREM RightProbesRun == Spec => []HeardExactly
<1>1. Inv => HeardExactly
  BY DEF Inv
<1>2. QED
  BY <1>1, Invariance, PTL

(***************************************************************************)
(* Whatever a probe answers, its teardown has undone what it left in the   *)
(* SourceFile before the next probe runs and before the node ends.         *)
(***************************************************************************)
THEOREM EffectsAreTornDown == Spec => []NothingLeftBehind
<1>1. Inv => NothingLeftBehind
  BY DEF Inv, NothingLeftBehind
<1>2. QED
  BY <1>1, Invariance, PTL
=============================================================================
