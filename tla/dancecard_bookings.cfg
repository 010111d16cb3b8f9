CONSTANTS
    ann = ann
    bea = bea
    b1 = b1
    b2 = b2
    b3 = b3
    r1 = r1
    r2 = r2
    Users = {ann, bea}
    Bookings = {b1, b2, b3}
    HostOf <- AnnHosts
    GuestOf <- BeaAsks
    Slots <- BackToBack
    Window <- Evening
    Buffer <- AnnRecovers
    Commitments <- AnnIsBusy
    Requests = {r1, r2}
    Regimes <- OneOrThree
    NoBooking = NoBooking
    NoSlot = NoSlot
    Nobody = Nobody
SPECIFICATION Spec
INVARIANTS CrowdingBound CopiesBound TypeOK EntriesMatchBooking
SYMMETRY SameBookings
CHECK_DEADLOCK FALSE
