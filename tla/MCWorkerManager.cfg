SPECIFICATION FairSpec
CONSTANTS
    w1 = w1
    w2 = w2
    w3 = w3
    w4 = w4
    w5 = w5
    Workers = {w1, w2, w3, w4, w5}
    MaxWorkers = 2
    MaxPending = 2
    Views <- MCViews
INVARIANTS
    NoIdleSlot
    SlotsComeBack
PROPERTIES
    NoOvertaking
    TakesTurns
    QueueDrains
