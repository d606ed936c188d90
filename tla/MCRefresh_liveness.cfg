SPECIFICATION FairSpec
CONSTANTS
    h1 = h1
    h2 = h2
    o1 = o1
    Hosts = {h1, h2}
    Ops = {o1}
    Silent = {o1}
    MaxWorkers = 2
    GenBound = 2
    Outcomes = {"full", "error"}
PROPERTIES
    LoadingEnds
    SoftCycleEnds
CHECK_DEADLOCK FALSE
