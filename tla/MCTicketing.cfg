\* Six workloads of three to five concurrent requests.
CONSTANTS
    s1 = s1
    s2 = s2
    A = A
    B = B
    l1 = l1
    l2 = l2
    l3 = l3
    r1 = r1
    al = al
    ar = ar
    p1 = p1
    p2 = p2
    p3 = p3
    p4 = p4
    p5 = p5
    p6 = p6
    c1 = c1
    c2 = c2
    f1 = f1
    Available = Available
    Booked = Booked
    Admin = Admin
    NoToken = NoToken
    NoTx = NoTx
    NoSeat = NoSeat
    Seats = {s1, s2}
    Sessions = {"S1", "S2", "S3", "S4"}
    LockCalls = {l1, l2, l3}
    ReleaseCalls = {r1}
    AdminLocks = {al}
    AdminReleases = {ar}
    Purchases = {p1, p2, p3, p4, p5, p6}
    Scans = {c1, c2}
    Refunds = {f1}
    Requests <- MCRequests
    SeatOf <- MCSeatOf
    TokenOf <- MCTokenOf
    SessionOf <- MCSessionOf
    SeatsOf <- MCSeatsOf
    CategoryOf <- MCCategoryOf
    RefOf <- MCRefOf
    Capacity <- MCCapacity
    TicketOf <- MCTicketOf
    Workloads <- MCWorkloads
SPECIFICATION FairSpec
INVARIANTS
    TypeOK
    BookedSeatHasTicket
PROPERTIES
    BoxOfficeSpec
    LateScanRefused
    LockIsReleased
CHECK_DEADLOCK FALSE
