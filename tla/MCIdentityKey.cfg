SPECIFICATION FairIdentitySpec
CONSTANTS
    h1 = h1
    h2 = h2
    h3 = h3
    Hooks <- MCHooks
    NoKey = NoKey
    KeyBytes = 2
    Retries = 2
INVARIANTS OneIdentity
PROPERTIES HooksEnd KeySpec
CHECK_DEADLOCK FALSE
