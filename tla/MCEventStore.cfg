CONSTANTS
    s1 = s1
    s2 = s2
    h1 = h1
    h2 = h2
    hint1 = hint1
    Sessions <- TwoSessions
    Hooks <- TwoHooks
    Hints <- OneHint
    None = None
    TTL = 3
    MaxClock = 4
    MaxRecords = 4
    MaxShortWrites = 1
SPECIFICATION Spec
SYMMETRY FullSymmetry
INVARIANTS TypeOK ReductionIsExact SettlementIsSound OrderlyTurnsSettleThemselves
PROPERTIES NoResurrection
CHECK_DEADLOCK FALSE
