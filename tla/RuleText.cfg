SPECIFICATION Spec
CONSTANTS
    Names = {"s1", "s2"}
    NoCondition = NoCondition
    Selections <- MCSelections
    Leaves = {"l1", "l2", "l3"}
    Modifiers <- MCModifiers
    Characters <- MCCharacters
    MaxPattern = 4
    Values <- MCValues
    Bytes <- MCBytes
    MaxBytes = 4
    MaxTokens = 6
    Tables <- MCTables
    TextFiles <- MCTextFiles
    RegexMatch <- MCRegexMatch
    RegexOk <- MCRegexOk
    InNetwork <- MCInNetwork
    IsNetwork <- MCIsNetwork
    IsAddress <- MCIsNetwork
    Encoded <- MCEncoded
INVARIANTS ConditionMeans FastMatchIsWildcard FieldsCached Base64FindsText
CHECK_DEADLOCK FALSE
