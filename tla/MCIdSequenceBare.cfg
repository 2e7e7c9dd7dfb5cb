\* The mixed prefix: one enclosed caller, two without a transaction.
CONSTANTS
    t1 = t1
    t2 = t2
    r1 = r1
    r2 = r2
    m1 = m1
    b1 = b1
    b2 = b2
    NoCaller = NoCaller
    Prefixes <- MCPrefixes
    Enclosed = {t1, t2, m1}
    Detached = {r1, r2}
    Bare = {b1, b2}
    PrefixOf <- MCPrefixOf
    Workloads <- BareWorkloads
    Start = 108
    MaxNumber = 111
SPECIFICATION Spec
INVARIANT NoDuplicateNumberAnywhere
CHECK_DEADLOCK FALSE
