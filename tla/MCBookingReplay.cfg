\* A proof is sent twice with one key while it is being verified.
CONSTANTS
    b1 = b1
    b2 = b2
    b3 = b3
    NoKey = NoKey
    NoCall = NoCall
    Items = {"hall", "room"}
    Rooms = {"r1", "r2"}
    Days = {1, 2, 3}
    Bookings = {b1, b2, b3}
    ItemOf <- MCItemOf
    FirstDay <- MCFirstDay
    LastDay <- MCLastDay
    QtyOf <- MCQtyOf
    RoomsOf <- MCRoomsOf
    Paid = {"hall"}
    MaxBookings <- MCMaxBookings
    NoLimit = 999
    MaxDeaths = 1
    Calls <- MCCalls
    Input <- MCInput
    Workloads <- ReplayWorkloads
SPECIFICATION Spec
PROPERTY RepeatedProofHarmless
CHECK_DEADLOCK FALSE
