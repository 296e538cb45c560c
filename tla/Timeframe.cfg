SPECIFICATION Spec
CONSTANTS
    Groups = {g1}
    Values = {v1}
    Times <- MCTimes
    Rules <- MCRules
    TicksPerSecond = 10
    MaxRecords = 4
    Missing = Missing
INVARIANTS CounterIsWindow ResultsDisjoint CountWithinTimeframe NothingMissed
PROPERTIES JudgingEnds
CHECK_DEADLOCK FALSE
