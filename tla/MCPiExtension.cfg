CONSTANTS
    HookTimeout = 2
    ShutdownDrain = 3
    MaxSessions = 2
    MaxEmits = 4
    None = None
SPECIFICATION FairSpec
INVARIANTS TypeOK ShutdownIsBounded RecordsInOrder CompletionSurvivesShutdown
PROPERTIES ChainDrains
CHECK_DEADLOCK FALSE
