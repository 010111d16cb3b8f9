CONSTANTS
    u1 = u1
    u2 = u2
    u3 = u3
    t1 = t1
    t2 = t2
    t3 = t3
    Users = {u1, u2, u3}
    Clients = {t1, t2, t3}
    UserOf <- OneTabEach
    Moderators = {}
    Settings <- OpenEvents
    MaxInFlight = 2
    MaxRows = 4
    Failures = TRUE
SPECIFICATION Spec
INVARIANTS TypeOK OverbookBound
SYMMETRY Everyone
