SPECIFICATION Spec
CONSTANTS
    a = a  bjs = bjs  bts = bts  d = d
    na = na  nb = nb  nts = nts  nd = nd  npkg = npkg
    pa = pa  pb = pb  pts = pts  pd = pd  ppkg = ppkg
    sa = sa  sa2 = sa2  sb = sb  sd = sd
    Absent = Absent  StatError = StatError  Unreadable = Unreadable
    Unparsable = Unparsable  None = None
    File <- MCFile
    DtsNamed = {d}
    Declaration = {d}
    Name <- MCName
    PackageDependencies = {npkg}
    Path <- MCPath
    Join <- MCJoin
    Candidates <- MCCandidates
    Spelling = {sa, sa2, sb, sd}
    Normal <- MCNormal
    EntryLists <- MCEntryLists
    Contents <- FewContents
    Disks <- FewDisks
    Volatile = {bjs}
    IgnoreEnoent = TRUE
INVARIANTS TypeOK NoReentry NoLostImport NoSilentVertex NoRepeatedReport StatsAgree
PROPERTIES StableResolution Termination KeepsPromise
