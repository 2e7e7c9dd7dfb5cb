\* Twenty-four scenarios of one to four concurrent calls; two members, an
\* administrator, days 0 to 2; jobs are tried twice; one request may die.
CONSTANTS
    p1 = p1
    p2 = p2
    boss = boss
    Never = Never
    JainMembers = {p1, p2}
    Recipients = {p1, p2}
    OfferMembers = {p1, p2}
    Readers = {p1, p2}
    Channels = {"PUSH", "WHATSAPP", "SMS", "EMAIL", "IN_APP"}
    LastDay = 2
    SOON = 1
    CYCLE = 2
    MID_CYCLE = 1
    Attempts = 2
    Wanted <- MCWanted
    Audience <- MCAudience
    JobIds <- MCJobIds
    Calls <- MCCalls
    Input <- MCInput
    Scenarios <- MCScenarios
SPECIFICATION FairSpec
INVARIANTS
    CommunityTypeOK
    DeliveryIsLogged
    LikesAreCounted
PROPERTIES
    NewsIsArchived
    PastPageIsLocked
    PostsFollowTheirDates
CHECK_DEADLOCK FALSE
