SPECIFICATION SocketFairSpec
CONSTANTS
    d1 = d1
    d2 = d2
    d3 = d3
    Daemons <- MCDaemons
    Foreign = Foreign
    Nobody = Nobody
INVARIANTS HolderActs ServerIsReachable
PROPERTIES LockIsNotStuck
