SPECIFICATION Spec
CONSTANTS
    x = x  y = y  own = own
    wx = wx  wxs = wxs  wy = wy  wown = wown  wblank = wblank
    v1 = v1  v2 = v2
    NotJs = NotJs  NoBody = NoBody  NoSets = NoSets  Blank = Blank
    OwnName = own
    Cleaned <- MCCleaned
    Program <- MCPrograms
    Tree <- MCTree
    Text <- MCText
    Again <- MCSources
    Nesting <- MCNesting
    MaxEncoded = 1
    MaxRuns = 3
INVARIANTS
    TypeOK DependenciesComplete FailsForBadBody EncodedSummary InTryIsRightUnlessNested
    ReportAgreesWithRegistry PlacesRemembered SetsLostOnlyByPanic
PROPERTY NothingCollectedIsLost
CHECK_DEADLOCK FALSE
