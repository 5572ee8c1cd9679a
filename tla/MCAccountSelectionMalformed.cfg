CONSTANTS
    N = 2
    Accounts = {wanted, other}
    Wanted = wanted
    None = None
SPECIFICATION AccountSpec
INVARIANT MalformedHidesNothing
