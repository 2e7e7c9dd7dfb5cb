\* The waiting list shrinks, and a newcomer overtakes.
CONSTANTS
    a = a
    b = b
    c = c
    d = d
    e = e
    NoTx = NoTx
    Members = {a, b, c, d, e}
    Calls <- MCCalls
    Input <- MCInput
    Scenarios <- OrderScenarios
    Capacity = 2
    WaitingList = TRUE
    MaxImages = 2
    LastTick = 2
SPECIFICATION Spec
PROPERTY LongestWaitingFirst
CHECK_DEADLOCK FALSE
