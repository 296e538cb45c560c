SPECIFICATION FairSpec
CONSTANTS
    NumLines = 4
    Separators = {3}
    BatchSize = 2
    MaxBoots = 2
INVARIANTS RowsAreReal LockstepNumbering RecoveredAfterBoot CountExact
PROPERTIES JobFinishes
CHECK_DEADLOCK FALSE
