\* Eight workloads of three to six concurrent requests; one hall, two rooms, three days.
CONSTANTS
    b1 = b1
    b2 = b2
    b3 = b3
    NoKey = NoKey
    NoCall = NoCall
    Items = {"hall", "room"}
    Rooms = {"r1", "r2"}
    Days = {1, 2, 3}
    Bookings = {b1, b2, b3}
    ItemOf <- MCItemOf
    FirstDay <- MCFirstDay
    LastDay <- MCLastDay
    QtyOf <- MCQtyOf
    RoomsOf <- MCRoomsOf
    Paid = {"hall"}
    MaxBookings <- MCMaxBookings
    NoLimit = 999
    MaxDeaths = 1
    Calls <- MCCalls
    Input <- MCInput
    Workloads <- MCWorkloads
SPECIFICATION FairSpec
INVARIANTS
    TypeOK
    ConfirmedIsProved
    OverbookedOnlyByRace
PROPERTIES
    PaymentWindowEnds
    ConfirmedGetsReceipt
CHECK_DEADLOCK FALSE
