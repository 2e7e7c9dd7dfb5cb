\* Ten scenarios of two to four concurrent calls; two seats.
CONSTANTS
    a = a
    b = b
    c = c
    d = d
    e = e
    NoTx = NoTx
    Members = {a, b, c, d, e}
    Calls <- MCCalls
    Input <- MCInput
    Scenarios <- MCScenarios
    Capacity = 2
    WaitingList = TRUE
    MaxImages = 2
    LastTick = 2
SPECIFICATION FairSpec
INVARIANTS
    TypeOK
    RsvpsFit
    NobodyWaitsForAFreeSeat
    GuestsAreTold
PROPERTIES
    PublishedEventEnds
CHECK_DEADLOCK FALSE
