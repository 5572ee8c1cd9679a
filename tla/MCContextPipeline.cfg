CONSTANTS
    t1 = t1
    t2 = t2
    t3 = t3
    Turns <- MCTurns
    WindowTurns <- MCTurns
    Limit = 2
    WindowLimit = 2
    WireLimit = 2
    MaxArrivals = 6
    MaxRestarts = 1
    NoJob = NoJob
SPECIFICATION FairSpec
INVARIANTS TypeOK QueueSound RejectedStaysOut
PROPERTIES QueueKeepsItsWork CompletionStays CompletionIsDecided
CHECK_DEADLOCK FALSE
