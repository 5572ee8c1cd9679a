CONSTANTS
    Daemons = {d1, d2}
    Commands = {preview}
    Texts = {t1, t2, t3}
    Limit = 2
    MaxForeign = 3
    None = None
SPECIFICATION Spec
INVARIANTS HistoryIsSound
PROPERTIES OnlyOverlapLoses
SYMMETRY Symmetry
