CONSTANTS
    r1 = r1
    r2 = r2
    i1 = i1
    i2 = i2
    i3 = i3
    founder = founder
    admin = admin
    someone = someone
    ann = ann
    bob = bob
    Requests <- TwoRequests
    Tokens <- Ids
    Passwords = {old, new}
    MaxVersion = 2
    Offers <- Ids
    NoOffer = NoOffer
    Users <- OrgUsers
    SiteStaff <- OnlyAdmin
    Claims = {c1, c2}
    People <- TwoPeople
    Rows <- Ids
    OwnRow = OwnRow
    Attendees = {a1, a2, a3, a4}
    Nobody = Nobody
    Capacity = 2
    Guests = {g1, g2, g3, g4}
    Capacities <- OneOrTwo
    Helpers = {h1, h2, h3}
    Invites = {v1, v2}
SPECIFICATION Spec
INVARIANTS
    TypeOK
    LiveLinksBound  OneResetPerLink SignedInKnowsPassword
    ActiveOffersBound OpenOffersAreMailed ApplicationFollowsOffer
    SoleOwner
    RowsBound LeaderBelongs
    SignupsBound ClaimIsSignedUp
    PartyBound ApprovedIsIn
    InviteBound
PROPERTY OwnerGivesAway
SYMMETRY Symmetry
CHECK_DEADLOCK FALSE
