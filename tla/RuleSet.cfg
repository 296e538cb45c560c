SPECIFICATION Spec
CONSTANTS
    Documents <- MCDocuments
    Paths <- MCPaths
    Root = "root"
    Scenarios <- MCScenarios
    Tables = {"T"}
    Records <- MCRecords
    MaxRecords = 3
INVARIANTS TotalIsLoaded EveryDocumentAccounted BaseStillHeard CountMeansBurst TemporalIsBacked WizardPromise
CHECK_DEADLOCK FALSE
