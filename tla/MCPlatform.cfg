\* Scenarios of one to four concurrent requests; one of them may die. A code
\* allows two wrong tries, a password two; an account has two devices.
CONSTANTS
    root = root
    head = head
    m1 = m1
    m2 = m2
    n1 = n1
    n2 = n2
    None = None
    MAX_TRIES = 2
    LOCK_AT = 2
    DEVICES = 1
    FAILURES = 2
    SiteModule = "TEMPLES"
    Modules <- MCModules
    RoleGrants <- MCRoleGrants
    NewAdminModules <- MCNewAdminModules
    Limit <- MCLimit
    Calendars = {"lunar", "solar"}
    Today = 1
    Calls <- MCCalls
    Input <- MCInput
    Scenarios <- MCScenarios
SPECIFICATION Spec
INVARIANTS
    PlatformTypeOK
    ProfileMatchesAccount
    PassedStopsAreCompleted
PROPERTIES
    LoggedOutStaysOut
CHECK_DEADLOCK FALSE
