CONSTANTS
    s1 = s1
    s2 = s2
    s3 = s3
    alice = alice
    bob = bob
    Sessions = {s1, s2}
    Tickets = {alice}
    TicketOf <- BothForAlice
    Workers = {w1, w2}
    NoSession = NoSession
    Edited = {}
    MaxFaults = 2
    ClaimFaults = FALSE
    Crashes = FALSE
    EarlyRetry = FALSE
SPECIFICATION FairSpec
INVARIANT AckMeansGranted
PROPERTY KeepsPromise
CHECK_DEADLOCK FALSE
