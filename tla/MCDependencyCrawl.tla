-------------------------- MODULE MCDependencyCrawl --------------------------
(***************************************************************************)
(* A project of four files: a.js, b.js, b.ts (so that the path b is        *)
(* ambiguous) and b.d.ts-like d; "./b" resolves to b.js, then b.ts.        *)
(***************************************************************************)
EXTENDS DependencyReach, TLC

CONSTANTS a, bjs, bts, d,              \* files
          na, nb, nts, nd, npkg,       \* names
          pa, pb, pts, pd, ppkg,       \* paths
          sa, sa2, sb, sd              \* spellings of entries

MCFile == {a, bjs, bts, d}
MCName == {na, nb, nts, nd, npkg}
MCPath == {pa, pb, pts, pd, ppkg}
PathOf == (na :> pa) @@ (nb :> pb) @@ (nts :> pts) @@ (nd :> pd) @@ (npkg :> ppkg)
MCJoin == [x \in MCFile \X MCName |-> PathOf[x[2]]]
MCCandidates ==
    (pa :> <<a>>) @@ (pb :> <<bjs, bts>>) @@ (pts :> <<bts>>)
    @@ (pd :> <<d>>) @@ (ppkg :> << >>)
MCNormal == (sa :> a) @@ (sa2 :> a) @@ (sb :> bjs) @@ (sd :> d)
MCEntryLists == {<<sa>>, <<sb, sa>>, <<sa, sa2>>, <<sd, sb>>}

\* Three kinds of file lists for the run in which files change.
FewContents == {<<na>>, <<nb, nts>>, <<npkg, nd, na>>}
FewDisks ==
    {k \in [MCFile -> FewContents \cup Trouble] :
        /\ k[a] \in FewContents
        /\ k[bts] \in {<<na>>, Unparsable, StatError}
        /\ k[d] = Absent}

\* Many small projects for the run in which nothing changes.
ManyContents ==
    {<< >>, <<na>>, <<nb>>, <<nts>>, <<nd>>, <<nb, nts>>, <<nts, nb>>,
     <<nts, na>>, <<npkg, nd, na>>}
ManyDisks ==
    {k \in [MCFile -> ManyContents \cup Trouble] :
        /\ k[bts] \in {<< >>, <<na>>, Absent, StatError, Unparsable}
        /\ k[d] \in {Absent, << >>}}
=============================================================================
