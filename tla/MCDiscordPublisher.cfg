CONSTANTS
    p1 = p1
    p2 = p2
    Presences <- MCPresences
    None = None
    MaxClock = 2
SPECIFICATION FairSpec
INVARIANTS ReturnedMeansShown DarkUnlessShown
PROPERTIES CallsReturn BoardSpec
