SPECIFICATION Spec
CONSTANTS
    Uploads = {u1, u2}
    Scans = {s1, s2}
    Names = {log, zip}
    Zips = {zip}
    CaseNames = {acme}
    Root = Root
    NoCase = NoCase
    NoJob = NoJob
    Missing = Missing
    MaxFaults = 1
SYMMETRY RequestSymmetry
INVARIANTS LinkAgrees 
CHECK_DEADLOCK FALSE
