---------------------------- MODULE MCProbeRunner ----------------------------
(***************************************************************************)
(* A list in the manner of default_probes: one probe for calls and one for *)
(* imports that share the "import" group, one of each kind that stops      *)
(* without a group, a catch-all custom probe with a group of its own.      *)
(***************************************************************************)
EXTENDS ProbeRunner, TLC

CONSTANTS Call, Import, Export,    \* node types
          importing, auditing      \* break groups

MCHandles ==
    (1 :> {Call, Import}) @@ (2 :> {Export}) @@ (3 :> {Call}) @@ (4 :> {Import, Call})
    @@ (5 :> {}) @@ (6 :> {Export, Import})
MCGroup ==
    (1 :> importing) @@ (2 :> NoGroup) @@ (3 :> NoGroup) @@ (4 :> importing)
    @@ (5 :> auditing) @@ (6 :> auditing)
=============================================================================
