CONSTANTS
    Options <- MCOptions
    MAX_DETECT_RECORDS = 2
    CountDefaultTime = 1
    ReleaseDate = 2
    DayLength = 4
    TextOrder <- MCTextOrder
    Decimal <- MCDecimal
    CriticalSystem = {"DC"}
    GeoDb <- MCGeoDb
    LocalAddress = {"127.0.0.1"}
    PrivateAddress = {"10.0.0.1"}
SPECIFICATION ScanSpec
INVARIANTS DupRecoverable HitsWithinRecords SummaryAgrees
 
CHECK_DEADLOCK FALSE
