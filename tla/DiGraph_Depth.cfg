SPECIFICATION Spec
CONSTANTS
    Id = {1, 2, 3, 4}
    Limits = {2}
    Degree = 2
    None = None
CONSTRAINTS FixedOrder FewEdges
INVARIANTS TruncatesByTrueDepth
