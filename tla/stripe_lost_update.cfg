CONSTANTS
    s1 = s1
    s2 = s2
    s3 = s3
    alice = alice
    bob = bob
    Sessions = {s1, s2}
    Tickets = {alice}
    TicketOf <- BothForAlice
    Workers = {w1, w2}
    NoSession = NoSession
    Edited = {alice}
    MaxFaults = 0
    ClaimFaults = FALSE
    Crashes = FALSE
    EarlyRetry = FALSE
SPECIFICATION Spec
INVARIANT AckMeansGranted
CHECK_DEADLOCK FALSE
