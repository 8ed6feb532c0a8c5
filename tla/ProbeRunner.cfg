SPECIFICATION Spec
CONSTANTS
    Call = Call  Import = Import  Export = Export
    importing = importing  auditing = auditing
    NoGroup = NoGroup
    NodeType = {Call, Import, Export}
    N = 6
    Handles <- MCHandles
    Group <- MCGroup
    BreakOnMatch = {1, 2, 4, 5}
INVARIANTS TypeOK HeardExactly NothingLeftBehind
PROPERTIES NodeEnds
