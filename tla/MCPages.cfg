SPECIFICATION Spec
CONSTANTS
    Objects = {a, b}
    Elsewhere = Elsewhere
    MaxParts = 2
    MaxLoads = 3
INVARIANTS OwnPage WholePage LoadingIsAwaited
PROPERTY LoadingEnds
CHECK_DEADLOCK FALSE
