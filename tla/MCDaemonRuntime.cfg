CONSTANTS
    pi = pi
    codex = codex
    phrase = phrase
    Harnesses <- TwoHarnesses
    Contexts <- OnePhrase
    Crowds <- FourCrowds
    None = None
    RetainLast = 1
    CadenceMin = 2
    CadenceMax = 2
    DelayMin = 1
    DelayMax = 2
    OthersDelay = 1
SPECIFICATION FairSpec
INVARIANTS TypeOK DisplayIsSound
PROPERTIES HoldIsBounded EventuallyExact
