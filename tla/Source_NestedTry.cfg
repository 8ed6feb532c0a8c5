SPECIFICATION Spec
CONSTANTS
    x = x  y = y  own = own
    wx = wx  wxs = wxs  wy = wy  wown = wown  wblank = wblank
    v1 = v1  v2 = v2
    NotJs = NotJs  NoBody = NoBody  NoSets = NoSets  Blank = Blank
    OwnName = own
    Cleaned <- MCCleaned
    Program <- MCNested
    Tree <- MCNested
    Text <- MCText
    Again <- MCNested
    Nesting <- MCNesting
    MaxEncoded = 1
    MaxRuns = 3
INVARIANTS InTryIsRight
CHECK_DEADLOCK FALSE
