SPECIFICATION Spec
CONSTANTS
    v1 = v1
    v2 = v2
    w1 = w1
    w2 = w2
    w3 = w3
    w4 = w4
    None = None
    Vms = {v1, v2}
    Workers = {w1, w2, w3, w4}
    Storages = 2
SYMMETRY Symmetry
INVARIANTS
    TypeOK
    ActsOnSelected
    OwnData
    LoadingIsAwaited
CHECK_DEADLOCK FALSE
