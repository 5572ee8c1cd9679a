CONSTANTS
    HarnessOf <- TwoFiles
    MaxExamples = 2
    Since = 2
    Until = 5
    TTL = 2
    Horizon = 6
    MaxObserved = 3
    MaxSpoken = 1
SPECIFICATION Spec
INVARIANTS TimelineIsExact ExamplesAreTrue
CHECK_DEADLOCK FALSE
