CONSTANTS
    u1 = u1
    u2 = u2
    u3 = u3
    t1 = t1
    t2 = t2
    t3 = t3
    Users = {u1, u2, u3}
    Clients = {t1, t2, t3}
    UserOf <- OneTabEach
    Moderators = {}
    Settings <- OpenSerial
    MaxInFlight = 1
    MaxRows = 5
    Failures = FALSE
SPECIFICATION Spec
INVARIANTS WithinCapacity NoSeatIdleAtRest CountExactAtRest
SYMMETRY Everyone
