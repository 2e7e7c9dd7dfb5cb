\* Twenty scenarios of three to five concurrent calls; two members, two days,
\* two rooms of one bed; jobs are tried twice; one request may die.
CONSTANTS
    p1 = p1
    p2 = p2
    NoSub = NoSub
    Guests = {p1, p2}
    Vehicles = {"car"}
    NoOne = NoOne
    NoVehicle = NoVehicle
    Pilgrims = {p1, p2}
    Devotees = {p1, p2}
    CounterTypes = {"mala"}
    Days = {1, 2}
    MILESTONE_STEP = 3
    Attempts = 2
    TourRooms <- MCRooms
    JobIds <- MCJobIds
    Calls <- MCCalls
    Input <- MCInput
    Scenarios <- MCScenarios
SPECIFICATION FairSpec
INVARIANTS
    DeskTypeOK
    MilestoneEarned
    CertificateCountedOnce
    CrossedIsTold
    OneActiveEntry
    SyncedOnce
    ReceiptIsForVerified
    OneMealPerApproval
PROPERTIES
    TargetReachedGetsCertificate
    VerifiedGetsReceipt
CHECK_DEADLOCK FALSE
