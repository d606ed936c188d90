SPECIFICATION ClaimSpec
CONSTANTS
    h1 = h1
    h2 = h2
    o1 = o1
    Hosts = {h1, h2}
    Ops = {o1}
    Silent = {}
    MaxWorkers = 2
    GenBound = 4
    Outcomes = {"full"}
PROPERTY RestNextTick
CHECK_DEADLOCK FALSE
