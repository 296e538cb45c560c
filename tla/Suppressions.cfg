SPECIFICATION Spec
CONSTANTS
    Absent = Absent
    Char <- MCChar
    Asked <- MCAsked
    Detections <- MCDetections
    Analysts = {a1, a2}
    BootThread = boot
    NoFile = NoFile
    NoThread = NoThread
    MaxRevs = 2
    MaxCrashes = 2
    MaxWipes = 1
SYMMETRY AnalystSymmetry
INVARIANTS SnapshotCurrent
PROPERTIES  HidesWhatWasAsked
CHECK_DEADLOCK FALSE
