CONSTANTS
    s1 = s1
    s2 = s2
    s3 = s3
    alice = alice
    bob = bob
    Sessions = {s1, s2, s3}
    Tickets = {alice, bob}
    TicketOf <- TwoForAlice
    Workers = {w1, w2}
    NoSession = NoSession
    Edited = {alice}
    MaxFaults = 1
    ClaimFaults = TRUE
    Crashes = TRUE
    EarlyRetry = TRUE
SPECIFICATION Spec
INVARIANTS TypeOK PaidOnlyIfCharged OneFulfilmentPerEvent ChargedIsOnRecord
CHECK_DEADLOCK FALSE
