SPECIFICATION ClaimSpec
CONSTANTS
    v1 = v1
    a1 = a1
    a2 = a2
    None = None
    Asking = Asking
    Statuses = {"running", "stopped"}
    Vms = {v1}
    Workers = {a1, a2}
    PoolMayBeFull = FALSE
PROPERTY EndedByItsOwnAnswer
CHECK_DEADLOCK FALSE
