CONSTANTS
    MaxServers = 2
    File = {f1, f2}
    Version = {v1, v2}
    MaxChanges = 2
SPECIFICATION Spec
SYMMETRY Symmetry
INVARIANTS
    VerdictIsEarned
    InferLeavesItsPolicy
PROPERTY FailuresKeepTheirPolicy
CHECK_DEADLOCK FALSE
