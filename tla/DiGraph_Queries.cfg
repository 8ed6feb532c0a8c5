SPECIFICATION Spec
CONSTANTS
    Id = {1, 2, 3, 4}
    Limits = {0, 1, 2, 4}
    Degree = 2
    None = None
CONSTRAINTS FixedOrder FewEdges
INVARIANTS TypeOK CyclesAreCycles CyclicEdgesAreFound CyclesDiffer DeepChildrenInRange
