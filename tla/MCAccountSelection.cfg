CONSTANTS
    N = 3
    Accounts = {wanted, other}
    Wanted = wanted
    None = None
SPECIFICATION AccountSpec
INVARIANTS OnlyTheChosen SteadyIsFound
