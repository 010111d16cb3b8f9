CONSTANTS
    u1 = u1
    u2 = u2
    u3 = u3
    t1 = t1
    t2 = t2
    t3 = t3
    m1 = m1
    m2 = m2
    Users = {u1, u2}
    Clients = {t1, t2, t3}
    UserOf <- TwoTabsForU1
    Moderators = {m1, m2}
    Settings <- GatedEvents
    MaxInFlight = 2
    MaxRows = 3
    Failures = FALSE
SPECIFICATION Spec
INVARIANT GatedSeatsAreApproved
PROPERTY SeatLossIsDecided
