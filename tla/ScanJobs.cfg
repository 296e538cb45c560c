SPECIFICATION Spec
CONSTANTS
    j1 = j1
    j2 = j2
    Jobs = {j1, j2}
    MaxConcurrent = 1
    MaxHandlers = 2
    MaxFaults = 1
    MaxBoots = 0
SYMMETRY JobSymmetry
INVARIANTS  RowFollowsStatus
CHECK_DEADLOCK FALSE
