SPECIFICATION FairSpec
CONSTANTS
    n1 = n1
    n2 = n2
    Host = Host
    Nodes = {n1, n2}
    Own = n1
    IsoNodes = {n1, n2}
INVARIANTS
    TypeOK
    Complete
PROPERTY KeepsContract
CHECK_DEADLOCK FALSE
