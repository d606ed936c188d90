SPECIFICATION Spec
CONSTANTS
    Names = {a, b}
    Hosts = {h1, h2}
    Tokens = {t1, t2}
    MaxHosts = 2
    MaxGrouped = 1
    MaxOld = 1
    MaxRaised = 1
SYMMETRY Interchangeable
INVARIANTS RestartRestores ActsOnListed
PROPERTIES TokenStays KeepsContract
CHECK_DEADLOCK FALSE
