CONSTANTS
    u1 = u1
    u2 = u2
    u3 = u3
    t1 = t1
    t2 = t2
    t3 = t3
    m1 = m1
    Users = {u1, u2, u3}
    Clients = {t1, t2, t3}
    UserOf <- OneTabEach
    Moderators = {m1}
    Settings <- GatedEvents
    MaxInFlight = 1
    MaxRows = 3
    Failures = FALSE
SPECIFICATION Spec
INVARIANT WithinCapacity
