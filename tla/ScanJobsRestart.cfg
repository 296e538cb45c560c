SPECIFICATION FairSpec
CONSTANTS
    j1 = j1
    Jobs = {j1}
    MaxConcurrent = 1
    MaxHandlers = 1
    MaxFaults = 2
    MaxBoots = 2
 
PROPERTIES SlotsComeBack
CHECK_DEADLOCK FALSE
