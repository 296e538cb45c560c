SPECIFICATION Spec
CONSTANTS
    MaxAppends = 4
    MaxBoots = 2
    MaxFaults = 2
    MaxEdits = 2
INVARIANTS ChainHolds AckedReadable LossDetected
CHECK_DEADLOCK FALSE
