SPECIFICATION CommandSpec
CONSTANTS
    a = a
    b = b
    c = c
    j = j
    x = x
    pc1 = pc1
    pc2 = pc2
    Absent = Absent
    Dash = Dash
    NoEventId = 0
    NoTime = 999
    BadTime = 998
    Now = 10
    ReleaseDate = 1
    MAX_DETECT_RECORDS = 2
    MaxCommands = 2
    LowerCase <- MCLowerCase
    Abbreviation <- MCAbbreviation
    WildMatch <- MCWildMatch
    RegexMatch <- MCRegexMatch
    Shortened <- MCShortened
    UnitLength <- MCUnitLength
    EventTitles <- MCEventTitles
    TargetEventIds <- MCTargetEventIds
    PivotKeys <- MCPivotKeys
    Levels <- MCLevels
    CommandLines <- MCCommandLines
    Disks <- MCDisks
    Logs <- MCLogs
    Directories <- MCDirectories
INVARIANTS NoClobber 
CHECK_DEADLOCK FALSE
