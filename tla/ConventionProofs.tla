-------------------------- MODULE ConventionProofs --------------------------
(* Proofs about the lists of people that a convention keeps behind a count, *)
(* a token or an offer: VolunteerShift, AttendeeGroup, StaffInvites and     *)
(* ParticipationOffers, for any number of requests, people, places, tokens  *)
(* and offers.                                                              *)
EXTENDS VolunteerShift, AttendeeGroup, StaffInvites, ParticipationOffers,
        FiniteSetTheorems, TLAPS

USE RequestsAssumption, ShiftAssumption, PartyAssumption

(* A place that a request is about to fill, and fills, is counted once.     *)
LEMMA FillOne ==
    ASSUME NEW S, NEW P, IsFiniteSet(S), IsFiniteSet(P), NEW x, NEW r \in P
    PROVE  /\ IsFiniteSet(S \cup {x})
           /\ Cardinality(S \cup {x}) \in Nat /\ Cardinality(P \ {r}) \in Nat
           /\ Cardinality(S \cup {x}) + Cardinality(P \ {r}) <= Cardinality(S) + Cardinality(P)
<1>1. /\ IsFiniteSet(S \cup {x})
      /\ Cardinality(S \cup {x}) \in {Cardinality(S), Cardinality(S) + 1}
    BY FS_AddElement
<1>2. IsFiniteSet(P \ {r}) /\ Cardinality(P \ {r}) = Cardinality(P) - 1
    BY FS_RemoveElement
<1>3. /\ Cardinality(S) \in Nat /\ Cardinality(P) \in Nat
      /\ Cardinality(S \cup {x}) \in Nat /\ Cardinality(P \ {r}) \in Nat
    BY <1>1, <1>2, FS_CardinalityType
<1> QED  BY <1>1, <1>2, <1>3

(* Some of the requests are finitely many, and no more than all.            *)
LEMMA SomeRequests ==
    ASSUME NEW P \in SUBSET Requests
    PROVE  /\ IsFiniteSet(P) /\ Cardinality(P) \in Nat /\ Cardinality(Requests) \in Nat
           /\ Cardinality(P) <= Cardinality(Requests)
           /\ \A Q \in SUBSET P :
                 IsFiniteSet(Q) /\ Cardinality(Q) \in Nat /\ Cardinality(Q) <= Cardinality(P)
BY FS_Subset, FS_CardinalityType

LEMMA SomeoneAsks == Cardinality(Requests) \in Nat \ {0}
BY FS_EmptySet, FS_CardinalityType

-----------------------------------------------------------------------------
(* Volunteer shifts.                                                       *)

shiftSpecVars == <<shift, signups, req, orderly>>

(* What a request about a shift holds.                                      *)
LEMMA ShiftHeld ==
    ASSUME ShiftTypeOK, NEW r \in Requests, req[r].pc # "idle"
    PROVE  req[r].user \in Attendees /\ req[r] = [pc |-> req[r].pc, user |-> req[r].user]
<1>1. req[r] \in ShiftDoing
    BY DEF ShiftTypeOK, Idle
<1> QED  BY <1>1 DEF ShiftDoing

LEMMA TakeShape ==
    ASSUME ShiftTypeOK, NEW r \in Requests, req[r].pc = "claim", Goto(r, "signup")
    PROVE  req' = [req EXCEPT ![r] = [pc |-> "signup", user |-> req[r].user]]
<1>1. req[r] = [pc |-> req[r].pc, user |-> req[r].user]
    BY ShiftHeld
<1>2. req' = [req EXCEPT ![r] = [req[r] EXCEPT !.pc = "signup"]]
    BY DEF Goto
<1>3. [req[r] EXCEPT !.pc = "signup"] = [pc |-> "signup", user |-> req[r].user]
    BY <1>1
<1> QED  BY <1>2, <1>3

(* The shift, its sign-ups and the requests keep their types.               *)
LEMMA ShiftTyped == ShiftTypeOK /\ [ShiftNext]_shiftSpecVars => ShiftTypeOK'
<1> SUFFICES ASSUME ShiftTypeOK, [ShiftNext]_shiftSpecVars PROVE ShiftTypeOK'
    OBVIOUS
<1> USE DEF ShiftTypeOK, Shift, Somebody, ShiftDoing, At, Become, Finish, Idle, shiftVars
<1>1. ASSUME NEW r \in Requests, NEW u \in Attendees, ClaimShift(r, u) \/ SignUp(r, u)
      PROVE  ShiftTypeOK'
    BY <1>1 DEF ClaimShift, SignUp, BeginForAttendee
<1>2. ASSUME NEW r \in Requests, ClaimUnclaimed(r) PROVE ShiftTypeOK'
  <2>1. req[r].user \in Attendees
    BY <1>2, ShiftHeld DEF ClaimUnclaimed
  <2> QED  BY <1>2, <2>1, TakeShape DEF ClaimUnclaimed
<1>3. ASSUME NEW r \in Requests, ClaimTaken(r) \/ CutOffShift(r) PROVE ShiftTypeOK'
    BY <1>3 DEF ClaimTaken, CutOffShift
<1>4. ASSUME NEW r \in Requests, InsertSignup(r) PROVE ShiftTypeOK'
  <2>1. req[r].user \in Attendees
    BY <1>4, ShiftHeld DEF InsertSignup
  <2> QED  BY <1>4, <2>1 DEF InsertSignup
<1>5. CASE Assign
    BY <1>5 DEF Assign
<1>6. CASE UNCHANGED shiftSpecVars
    BY <1>6 DEF shiftSpecVars
<1> QED
    BY <1>1, <1>2, <1>3, <1>4, <1>5, <1>6 DEF ShiftNext, ShiftStep

LEMMA ShiftInitTyped == ShiftInit => ShiftTypeOK
BY DEF ShiftInit, HandlersInit, ShiftTypeOK, Shift, Somebody, Idle

(* The shift, its sign-ups and the requests always have their types.        *)
THEOREM ShiftTypeCorrect == ShiftSpec => []ShiftTypeOK
BY ShiftTyped, ShiftInitTyped, PTL DEF ShiftSpec, shiftSpecVars

\* Requests that are past the count.
Signing == AtSome({"claim", "signup"})

\* Each of them was counted for, or fills one of the last places.
SignupsInv ==
    /\ IsFiniteSet(signups)
    /\ Cardinality(signups) + Cardinality(Signing) < Capacity + Cardinality(Requests)

LEMMA SignupsInvStep ==
    ASSUME ShiftTypeOK, SignupsInv, [ShiftNext]_shiftSpecVars
    PROVE  SignupsInv'
<1> USE DEF ShiftTypeOK, At, shiftVars
<1>0. /\ Signing \in SUBSET Requests /\ Signing' \in SUBSET Requests
      /\ Cardinality(signups) \in Nat
    BY FS_CardinalityType DEF Signing, AtSome, SignupsInv
<1>1. ASSUME NEW r \in Requests, NEW u \in Attendees, ClaimShift(r, u) \/ SignUp(r, u)
      PROVE  SignupsInv'
  <2>1. UNCHANGED signups /\ Cardinality(signups) < Capacity
    BY <1>1 DEF ClaimShift, SignUp, BeginForAttendee, NotFull
  <2>2. Cardinality(Signing') \in Nat /\ Cardinality(Signing') <= Cardinality(Requests)
        /\ Cardinality(Requests) \in Nat
    BY <1>0, SomeRequests
  <2> QED  BY <1>0, <2>1, <2>2 DEF SignupsInv
<1>2. ASSUME UNCHANGED signups, Signing' \subseteq Signing PROVE SignupsInv'
  <2>1. /\ Cardinality(Signing') \in Nat /\ Cardinality(Signing') <= Cardinality(Signing)
        /\ Cardinality(Signing) \in Nat /\ Cardinality(Requests) \in Nat
    BY <1>0, <1>2, SomeRequests
  <2> QED  BY <1>0, <1>2, <2>1 DEF SignupsInv
<1>3. ASSUME NEW r \in Requests, ClaimUnclaimed(r) PROVE SignupsInv'
  <2>1. UNCHANGED signups /\ Signing' \subseteq Signing
    BY <1>3, TakeShape DEF ClaimUnclaimed, Signing, AtSome
  <2> QED  BY <1>2, <2>1
<1>4. ASSUME NEW r \in Requests, ClaimTaken(r) \/ CutOffShift(r) PROVE SignupsInv'
  <2>1. UNCHANGED signups /\ Signing' \subseteq Signing
    BY <1>4 DEF ClaimTaken, CutOffShift, Finish, Become, Idle, Signing, AtSome
  <2> QED  BY <1>2, <2>1
<1>5. ASSUME NEW r \in Requests, InsertSignup(r) PROVE SignupsInv'
  <2>1. r \in Signing /\ Signing' = Signing \ {r} /\ signups' = signups \cup {req[r].user}
    BY <1>5 DEF InsertSignup, Finish, Become, Idle, Signing, AtSome
  <2>2. /\ IsFiniteSet(Signing) /\ Cardinality(Signing) \in Nat
        /\ Cardinality(Requests) \in Nat
    BY <1>0, SomeRequests
  <2>3. /\ IsFiniteSet(signups') /\ Cardinality(signups') \in Nat
        /\ Cardinality(Signing') \in Nat
        /\ Cardinality(signups') + Cardinality(Signing') <= Cardinality(signups) + Cardinality(Signing)
    BY <2>1, <2>2, FillOne DEF SignupsInv
  <2> QED  BY <1>0, <2>2, <2>3 DEF SignupsInv
<1>6. CASE Assign
  <2>1. UNCHANGED signups /\ Signing' \subseteq Signing
    BY <1>6 DEF Assign, Signing, AtSome
  <2> QED  BY <1>2, <2>1
<1>7. CASE UNCHANGED shiftSpecVars
  <2>1. UNCHANGED signups /\ Signing' \subseteq Signing
    BY <1>7 DEF shiftSpecVars, Signing, AtSome
  <2> QED  BY <1>2, <2>1
<1> QED
    BY <1>1, <1>3, <1>4, <1>5, <1>6, <1>7 DEF ShiftNext, ShiftStep

(* The sign-ups of a shift are fewer than its capacity and the requests     *)
(* together.                                                                *)
THEOREM SignupsBounded == ShiftSpec => []SignupsBound
<1>1. ShiftInit => SignupsInv
  <2> SUFFICES ASSUME ShiftInit PROVE SignupsInv
      OBVIOUS
  <2>1. signups = {} /\ Signing = {}
      BY DEF ShiftInit, HandlersInit, Signing, AtSome, Idle
  <2> QED  BY <2>1, FS_EmptySet, SomeoneAsks DEF SignupsInv
<1>2. ShiftTypeOK /\ SignupsInv /\ [ShiftNext]_shiftSpecVars => (ShiftTypeOK /\ SignupsInv)'
    BY ShiftTyped, SignupsInvStep
<1>3. SignupsInv => SignupsBound
  <2> SUFFICES ASSUME SignupsInv PROVE SignupsBound
      OBVIOUS
  <2>1. /\ Cardinality(signups) \in Nat /\ Cardinality(Signing) \in Nat
        /\ Cardinality(Requests) \in Nat
      BY SomeRequests, FS_CardinalityType DEF SignupsInv, Signing, AtSome
  <2> QED  BY <2>1 DEF SignupsInv, SignupsBound
<1> QED
    BY <1>1, <1>2, <1>3, ShiftInitTyped, PTL DEF ShiftSpec, shiftSpecVars

\* Whoever claimed the shift is signed up, or is about to be.
ClaimInv ==
    orderly =>
        \/ shift.claimed = Nobody
        \/ shift.claimed \in signups
        \/ \E r \in Requests : req[r].pc = "signup" /\ req[r].user = shift.claimed

(* If no request dies, whoever claimed the shift is signed up at rest.      *)
THEOREM ClaimsAreSignedUp == ShiftSpec => []ClaimIsSignedUp
<1>1. ShiftInit => ClaimInv
    BY DEF ShiftInit, ClaimInv
<1>2. ShiftTypeOK /\ ClaimInv /\ [ShiftNext]_shiftSpecVars => (ShiftTypeOK /\ ClaimInv)'
  <2> SUFFICES ASSUME ShiftTypeOK, ClaimInv, ShiftNext, orderly PROVE ClaimInv'
      BY ShiftTyped DEF ShiftNext, ClaimInv, shiftSpecVars
  <2> USE DEF ShiftTypeOK, ClaimInv, At, Finish, Become, Idle, shiftVars
  <2>1. ASSUME NEW r \in Requests, NEW u \in Attendees, ClaimShift(r, u) \/ SignUp(r, u)
        PROVE  ClaimInv'
      BY <2>1 DEF ClaimShift, SignUp, BeginForAttendee
  <2>2. ASSUME NEW r \in Requests, ClaimUnclaimed(r) PROVE ClaimInv'
    <3>1. req'[r].pc = "signup" /\ req'[r].user = shift'.claimed
        BY <2>2, TakeShape DEF ClaimUnclaimed
    <3> QED  BY <3>1
  <2>3. ASSUME NEW r \in Requests, ClaimTaken(r) PROVE ClaimInv'
      BY <2>3 DEF ClaimTaken
  <2>4. ASSUME NEW r \in Requests, InsertSignup(r) PROVE ClaimInv'
      BY <2>4 DEF InsertSignup
  <2>5. CASE Assign
    <3>1. shift'.claimed = shift.claimed /\ UNCHANGED <<signups, req>>
        BY <2>5 DEF Assign, Shift
    <3> QED  BY <3>1
  <2> QED
      BY <2>1, <2>2, <2>3, <2>4, <2>5 DEF ShiftNext, ShiftStep, CutOffShift
<1>3. ClaimInv => ClaimIsSignedUp
    BY DEF ClaimInv, ClaimIsSignedUp, AtSome
<1> QED
    BY <1>1, <1>2, <1>3, ShiftInitTyped, PTL DEF ShiftSpec, shiftSpecVars

-----------------------------------------------------------------------------
(* Attendee groups.                                                        *)

partySpecVars == <<party, inGroup, asked, req, orderly>>

(* What a request about a group holds.                                      *)
LEMMA PartyHeld ==
    ASSUME PartyTypeOK, NEW r \in Requests, req[r].pc # "idle"
    PROVE  /\ req[r].user \in Guests
           /\ req[r].pc = "mark" => req[r].to \in {"approved", "denied"}
BY DEF PartyTypeOK, PartyDoing, Idle

LEMMA PartyTyped == PartyTypeOK /\ [PartyNext]_partySpecVars => PartyTypeOK'
<1> SUFFICES ASSUME PartyTypeOK, [PartyNext]_partySpecVars PROVE PartyTypeOK'
    OBVIOUS
<1> USE DEF PartyTypeOK, At, partyVars
<1>1. ASSUME NEW r \in Requests, NEW u \in Guests, JoinParty(r, u) \/ Approve(r, u) \/ Deny(r, u)
      PROVE  PartyTypeOK'
    BY <1>1 DEF JoinParty, Approve, Deny, Become, PartyDoing
<1>2. ASSUME NEW r \in Requests, InsertRequest(r) \/ MarkRequest(r) PROVE PartyTypeOK'
  <2>1. asked' \in [Guests -> {"none", "pending", "approved", "denied"}]
    BY <1>2, PartyHeld DEF InsertRequest, MarkRequest
  <2> QED  BY <1>2, <2>1 DEF InsertRequest, MarkRequest, Finish, Become, Idle
<1>3. ASSUME NEW r \in Requests, InsertGuest(r) PROVE PartyTypeOK'
    BY <1>3, PartyHeld DEF InsertGuest, Finish, Become, Idle
<1>4. ASSUME NEW r \in Requests, AddApproved(r) PROVE PartyTypeOK'
  <2>1. req[r].user \in Guests
    BY <1>4, PartyHeld DEF AddApproved
  <2> QED  BY <1>4, <2>1 DEF AddApproved, Become, PartyDoing
<1>5. ASSUME NEW r \in Requests, CutOffParty(r) PROVE PartyTypeOK'
    BY <1>5 DEF CutOffParty, Finish, Become, Idle
<1>6. CASE PatchParty
    BY <1>6 DEF PatchParty
<1>7. CASE UNCHANGED partySpecVars
    BY <1>7 DEF partySpecVars
<1> QED
    BY <1>1, <1>2, <1>3, <1>4, <1>5, <1>6, <1>7 DEF PartyNext, PartyStep

LEMMA PartyInitTyped == PartyInit => PartyTypeOK
BY DEF PartyInit, HandlersInit, PartyTypeOK, Party, Idle

(* The group, its members and the requests always have their types.         *)
THEOREM PartyTypeCorrect == PartySpec => []PartyTypeOK
BY PartyTyped, PartyInitTyped, PTL DEF PartySpec, partySpecVars

\* Requests that are past the count and have not added their guest.
Adding == AtSome({"join", "add"})

\* Each of them was counted for, or takes one of the last places.
PlacesInv ==
    orderly =>
        /\ IsFiniteSet(inGroup)
        /\ Cardinality(inGroup) + Cardinality(Adding) < party.capacity + Cardinality(Requests)

LEMMA PlacesInvStep ==
    ASSUME PartyTypeOK, PlacesInv, [PartyNext]_partySpecVars
    PROVE  PlacesInv'
<1> SUFFICES ASSUME orderly PROVE PlacesInv'
    BY DEF PlacesInv, PartyNext, partySpecVars
<1> USE DEF PartyTypeOK, At, partyVars
<1>0. /\ Adding \in SUBSET Requests /\ Adding' \in SUBSET Requests
      /\ IsFiniteSet(inGroup) /\ Cardinality(inGroup) \in Nat
      /\ Cardinality(Adding) \in Nat /\ Cardinality(Adding') \in Nat
      /\ Cardinality(Requests) \in Nat
      /\ party.capacity \in Nat
  <2>1. Adding \in SUBSET Requests /\ Adding' \in SUBSET Requests /\ IsFiniteSet(inGroup)
    BY DEF Adding, AtSome, PlacesInv
  <2>2. party.capacity \in Nat
    BY DEF Party
  <2> QED  BY <2>1, <2>2, SomeRequests, FS_CardinalityType
<1>1. ASSUME NEW r \in Requests, NEW u \in Guests, JoinParty(r, u) \/ Approve(r, u)
      PROVE  PlacesInv'
  <2>1. UNCHANGED <<inGroup, party>> /\ Cardinality(inGroup) < party.capacity
    BY <1>1 DEF JoinParty, Approve, HasRoom
  <2>2. Cardinality(Adding') <= Cardinality(Requests)
    BY <1>0, SomeRequests
  <2> QED  BY <1>0, <2>1, <2>2 DEF PlacesInv
<1>2. ASSUME UNCHANGED inGroup, party'.capacity \in Nat, party'.capacity >= party.capacity,
             Adding' \subseteq Adding
      PROVE  PlacesInv'
  <2>1. Cardinality(Adding') <= Cardinality(Adding)
    BY <1>0, <1>2, SomeRequests
  <2> QED  BY <1>0, <1>2, <2>1 DEF PlacesInv
<1>3. ASSUME NEW r \in Requests, NEW u \in Guests, Deny(r, u) PROVE PlacesInv'
  <2>1. UNCHANGED <<inGroup, party>> /\ Adding' \subseteq Adding
    BY <1>3 DEF Deny, Become, Adding, AtSome
  <2> QED  BY <1>0, <1>2, <2>1
<1>4. ASSUME NEW r \in Requests, InsertRequest(r) \/ MarkRequest(r) \/ CutOffParty(r)
      PROVE  PlacesInv'
  <2>1. UNCHANGED <<inGroup, party>> /\ Adding' \subseteq Adding
    BY <1>4 DEF InsertRequest, MarkRequest, CutOffParty, Finish, Become, Idle, Adding, AtSome
  <2> QED  BY <1>0, <1>2, <2>1
<1>5. ASSUME NEW r \in Requests, InsertGuest(r) \/ AddApproved(r) PROVE PlacesInv'
  <2>1. /\ r \in Adding /\ Adding' = Adding \ {r}
        /\ inGroup' = inGroup \cup {req[r].user} /\ party' = party
    BY <1>5 DEF InsertGuest, AddApproved, Finish, Become, Idle, Adding, AtSome
  <2>2. IsFiniteSet(Adding)
    BY <1>0, SomeRequests
  <2>3. /\ IsFiniteSet(inGroup') /\ Cardinality(inGroup') \in Nat
        /\ Cardinality(inGroup') + Cardinality(Adding') <= Cardinality(inGroup) + Cardinality(Adding)
    BY <1>0, <2>1, <2>2, FillOne
  <2> QED  BY <1>0, <2>1, <2>3 DEF PlacesInv
<1>6. CASE PatchParty
  <2>1. UNCHANGED inGroup /\ Adding' = Adding /\ party'.capacity >= party.capacity
    BY <1>6 DEF PatchParty, Adding, AtSome
  <2>2. party'.capacity \in Nat
    BY <1>6 DEF PatchParty, Party
  <2> QED  BY <1>2, <2>1, <2>2
<1>7. CASE UNCHANGED partySpecVars
  <2>1. UNCHANGED <<inGroup, party>> /\ Adding' = Adding
    BY <1>7 DEF partySpecVars, Adding, AtSome
  <2> QED  BY <1>0, <1>2, <2>1
<1> QED
    BY <1>1, <1>3, <1>4, <1>5, <1>6, <1>7 DEF PartyNext, PartyStep

(* The members of a group are fewer than its capacity and the requests      *)
(* together, as long as the capacity is not lowered.                        *)
THEOREM PartyBounded == PartySpec => []PartyBound
<1>1. PartyInit => PlacesInv
  <2> SUFFICES ASSUME PartyInit PROVE PlacesInv
      OBVIOUS
  <2>1. PICK owner \in Guests : inGroup = {owner}
      BY DEF PartyInit
  <2>2. Adding = {} /\ party.capacity \in Nat \ {0}
      BY DEF PartyInit, HandlersInit, Adding, AtSome, Idle
  <2>3. IsFiniteSet(inGroup) /\ Cardinality(inGroup) = 1 /\ Cardinality(Adding) = 0
      BY <2>1, <2>2, FS_Singleton, FS_EmptySet
  <2> QED  BY <2>2, <2>3, SomeoneAsks DEF PlacesInv
<1>2. PartyTypeOK /\ PlacesInv /\ [PartyNext]_partySpecVars => (PartyTypeOK /\ PlacesInv)'
    BY PartyTyped, PlacesInvStep
<1>3. PartyTypeOK /\ PlacesInv => PartyBound
  <2> SUFFICES ASSUME PartyTypeOK, PlacesInv, orderly PROVE PartyBound
      BY DEF PartyBound
  <2>1. /\ Cardinality(inGroup) \in Nat /\ Cardinality(Adding) \in Nat
        /\ Cardinality(Requests) \in Nat
      BY SomeRequests, FS_CardinalityType DEF PlacesInv, Adding, AtSome
  <2>2. party.capacity \in Nat
      BY DEF PartyTypeOK, Party
  <2> QED  BY <2>1, <2>2 DEF PlacesInv, PartyBound
<1> QED
    BY <1>1, <1>2, <1>3, PartyInitTyped, PTL DEF PartySpec, partySpecVars

\* Whoever is about to be marked as approved has been added.
ApprovedInv ==
    /\ ApprovedIsIn
    /\ \A r \in Requests : req[r].pc = "mark" /\ req[r].to = "approved" => req[r].user \in inGroup

(* Whoever is marked as approved is in the group.                           *)
THEOREM ApprovedAreIn == PartySpec => []ApprovedIsIn
<1>1. PartyInit => ApprovedInv
    BY DEF PartyInit, HandlersInit, ApprovedInv, ApprovedIsIn, Idle
<1>2. PartyTypeOK /\ ApprovedInv /\ [PartyNext]_partySpecVars => (PartyTypeOK /\ ApprovedInv)'
  <2> SUFFICES ASSUME PartyTypeOK, ApprovedInv, [PartyNext]_partySpecVars PROVE ApprovedInv'
      BY PartyTyped
  <2> USE DEF PartyTypeOK, ApprovedInv, ApprovedIsIn, At, Finish, Become, Idle, partyVars
  <2>1. ASSUME NEW r \in Requests, NEW u \in Guests,
               JoinParty(r, u) \/ Approve(r, u) \/ Deny(r, u)
        PROVE  ApprovedInv'
      BY <2>1 DEF JoinParty, Approve, Deny
  <2>2. ASSUME NEW r \in Requests, InsertRequest(r) \/ InsertGuest(r) \/ CutOffParty(r)
        PROVE  ApprovedInv'
      BY <2>2 DEF InsertRequest, InsertGuest, CutOffParty
  <2>3. ASSUME NEW r \in Requests, AddApproved(r) PROVE ApprovedInv'
      BY <2>3 DEF AddApproved
  <2>4. ASSUME NEW r \in Requests, MarkRequest(r) PROVE ApprovedInv'
      BY <2>4, PartyHeld DEF MarkRequest
  <2>5. CASE PatchParty \/ UNCHANGED partySpecVars
      BY <2>5 DEF PatchParty, partySpecVars
  <2> QED
      BY <2>1, <2>2, <2>3, <2>4, <2>5 DEF PartyNext, PartyStep
<1>3. ApprovedInv => ApprovedIsIn
    BY DEF ApprovedInv
<1> QED
    BY <1>1, <1>2, <1>3, PartyInitTyped, PTL DEF PartySpec, partySpecVars

-----------------------------------------------------------------------------
(* Staff invitations.                                                      *)

inviteSpecVars == <<invite, staff, let, req, orderly>>

(* What a request that redeems an invitation holds.                         *)
LEMMA InviteHeld ==
    ASSUME InvitesTypeOK, NEW r \in Requests, req[r].pc # "idle"
    PROVE  /\ req[r].user \in Helpers /\ req[r].invite \in Invites
           /\ req[r] = [pc |-> req[r].pc, user |-> req[r].user, invite |-> req[r].invite]
<1>1. req[r] \in InviteDoing
    BY DEF InvitesTypeOK, Idle
<1> QED  BY <1>1 DEF InviteDoing

LEMMA MarkShape ==
    ASSUME InvitesTypeOK, NEW r \in Requests, MarkRedeemed(r)
    PROVE  req' = [req EXCEPT ![r] = [pc |-> "grant", user |-> req[r].user,
                                      invite |-> req[r].invite]]
<1>1. req[r] = [pc |-> req[r].pc, user |-> req[r].user, invite |-> req[r].invite]
    BY InviteHeld DEF MarkRedeemed, At
<1>2. req' = [req EXCEPT ![r] = [req[r] EXCEPT !.pc = "grant"]]
    BY DEF MarkRedeemed, Goto
<1>3. [req[r] EXCEPT !.pc = "grant"]
        = [pc |-> "grant", user |-> req[r].user, invite |-> req[r].invite]
    BY <1>1
<1> QED  BY <1>2, <1>3

LEMMA InvitesTyped == InvitesTypeOK /\ [InvitesNext]_inviteSpecVars => InvitesTypeOK'
<1> SUFFICES ASSUME InvitesTypeOK, [InvitesNext]_inviteSpecVars PROVE InvitesTypeOK'
    OBVIOUS
<1> USE DEF InvitesTypeOK, At, inviteVars
<1>1. ASSUME NEW r \in Requests, NEW u \in Helpers, NEW i \in Invites, RedeemOpen(r, u, i)
      PROVE  InvitesTypeOK'
    BY <1>1 DEF RedeemOpen, RedeemAny, Become, InviteDoing
<1>2. ASSUME NEW r \in Requests, MarkRedeemed(r) PROVE InvitesTypeOK'
  <2>1. req[r].user \in Helpers /\ req[r].invite \in Invites
    BY <1>2, InviteHeld DEF MarkRedeemed
  <2>2. req' \in [Requests -> InviteDoing \cup {Idle}]
    BY <1>2, <2>1, MarkShape DEF InviteDoing
  <2> QED  BY <1>2, <2>1, <2>2 DEF MarkRedeemed, Invite
<1>3. ASSUME NEW r \in Requests, GrantStaff(r) PROVE InvitesTypeOK'
  <2>1. req[r].user \in Helpers /\ req[r].invite \in Invites
    BY <1>3, InviteHeld DEF GrantStaff
  <2> QED  BY <1>3, <2>1 DEF GrantStaff, Finish, Become, Idle
<1>4. ASSUME NEW r \in Requests, CutOffInvite(r) PROVE InvitesTypeOK'
    BY <1>4 DEF CutOffInvite, Finish, Become, Idle
<1>5. ASSUME NEW i \in Invites, MintInvite(i) PROVE InvitesTypeOK'
    BY <1>5 DEF MintInvite, Invite
<1>6. CASE UNCHANGED inviteSpecVars
    BY <1>6 DEF inviteSpecVars
<1> QED
    BY <1>1, <1>2, <1>3, <1>4, <1>5, <1>6 DEF InvitesNext, InviteStep

LEMMA InvitesInitTyped == InvitesInit => InvitesTypeOK
BY DEF InvitesInit, HandlersInit, InvitesTypeOK, Invite, Idle

(* The invitations, the staff and the requests always have their types.     *)
THEOREM InvitesTypeCorrect == InvitesSpec => []InvitesTypeOK
BY InvitesTyped, InvitesInitTyped, PTL DEF InvitesSpec, inviteSpecVars

\* The requests that redeem an invitation.
RedeemersOf(i) == {r \in AtSome({"mark", "grant"}) : req[r].invite = i}

\* How many an invitation may let in.
LetMost == IF orderly THEN 1 ELSE Cardinality(Requests)

\* Nobody has come in by an invitation that is open; by one that is not, only
\* those who began while it was.
LetInv ==
    \A i \in Invites :
        /\ IsFiniteSet(let[i])
        /\ Cardinality(let[i]) + Cardinality(RedeemersOf(i)) <= LetMost
        /\ invite[i].state # "redeemed" =>
              let[i] = {} /\ \A r \in RedeemersOf(i) : req[r].pc = "mark"

LEMMA LetInvStep ==
    ASSUME InvitesTypeOK, LetInv, [InvitesNext]_inviteSpecVars
    PROVE  LetInv'
<1> USE DEF InvitesTypeOK, At, inviteVars
<1>0. /\ \A i \in Invites : /\ RedeemersOf(i) \in SUBSET Requests
                            /\ RedeemersOf(i)' \in SUBSET Requests
      /\ LetMost \in Nat /\ LetMost <= Cardinality(Requests) /\ LetMost' = LetMost
      /\ \A i \in Invites : /\ Cardinality(let[i]) \in Nat
                            /\ Cardinality(RedeemersOf(i)) \in Nat
                            /\ Cardinality(RedeemersOf(i)') \in Nat
  <2>1. \A i \in Invites : /\ RedeemersOf(i) \in SUBSET Requests
                           /\ RedeemersOf(i)' \in SUBSET Requests
    BY DEF RedeemersOf, AtSome
  <2>2. orderly' = orderly
    BY DEF InvitesNext, inviteSpecVars
  <2> QED  BY <2>1, <2>2, SomeRequests, SomeoneAsks, FS_CardinalityType DEF LetInv, LetMost
<1>r. /\ \A i, r : r \in RedeemersOf(i) <=>
             r \in Requests /\ req[r].pc \in {"mark", "grant"} /\ req[r].invite = i
      /\ \A i, r : r \in RedeemersOf(i)' <=>
             r \in Requests /\ req'[r].pc \in {"mark", "grant"} /\ req'[r].invite = i
    BY DEF RedeemersOf, AtSome
<1>1. ASSUME UNCHANGED let,
             \A i \in Invites : RedeemersOf(i)' \subseteq RedeemersOf(i),
             \A i \in Invites : invite'[i].state # "redeemed" =>
                                    /\ invite[i].state # "redeemed"
                                    /\ \A r \in RedeemersOf(i)' : req'[r] = req[r]
      PROVE  LetInv'
  <2>1. \A i \in Invites : Cardinality(RedeemersOf(i)') <= Cardinality(RedeemersOf(i))
    BY <1>0, <1>1, SomeRequests
  <2> QED  BY <1>0, <1>1, <2>1 DEF LetInv
<1>2. ASSUME NEW r \in Requests, NEW u \in Helpers, NEW i \in Invites, RedeemOpen(r, u, i)
      PROVE  LetInv'
  <2>1. /\ UNCHANGED <<invite, let>> /\ invite[i].state = "open"
        /\ req' = [req EXCEPT ![r] = [pc |-> "mark", user |-> u, invite |-> i]]
        /\ req[r].pc = "idle"
    BY <1>2 DEF RedeemOpen, RedeemAny, Become
  <2>2. /\ RedeemersOf(i)' = RedeemersOf(i) \cup {r}
        /\ \A j \in Invites \ {i} : RedeemersOf(j)' = RedeemersOf(j)
    BY <2>1 DEF RedeemersOf, AtSome
  <2>3. let[i] = {} /\ Cardinality(let[i]) = 0
    BY <2>1, FS_EmptySet DEF LetInv
  <2>4. Cardinality(RedeemersOf(i)') <= LetMost
    <3>1. CASE orderly
      <4>1. RedeemersOf(i) = {}
        BY <1>2, <1>r, <3>1 DEF RedeemOpen, RedeemAny
      <4>2. RedeemersOf(i)' = {r}
        BY <2>2, <4>1
      <4> QED  BY <3>1, <4>2, FS_Singleton DEF LetMost
    <3>2. CASE ~orderly
      BY <1>0, <3>2, SomeRequests DEF LetMost
    <3> QED  BY <3>1, <3>2
  <2>5. \A j \in Invites : \A q \in RedeemersOf(j)' : req'[q] = req[q] \/ req'[q].pc = "mark"
    BY <2>1
  <2>6. \A j \in Invites \ {i} : \A q \in RedeemersOf(j)' : req'[q] = req[q]
    BY <2>1, <2>2 DEF RedeemersOf, AtSome
  <2>7. \A q \in RedeemersOf(i) : req[q].pc = "mark" /\ (q # r => req'[q] = req[q])
    BY <2>1 DEF LetInv, RedeemersOf, AtSome
  <2>8. \A q \in RedeemersOf(i)' : req'[q].pc = "mark"
    BY <2>1, <2>2, <2>7
  <2>9. Cardinality(let[i]) + Cardinality(RedeemersOf(i)') <= LetMost
    BY <1>0, <2>3, <2>4
  <2>10. ASSUME NEW j \in Invites
         PROVE  /\ IsFiniteSet(let'[j])
                /\ Cardinality(let'[j]) + Cardinality(RedeemersOf(j)') <= LetMost'
                /\ invite'[j].state # "redeemed" =>
                      let'[j] = {} /\ \A q \in RedeemersOf(j)' : req'[q].pc = "mark"
    <3>1. let'[j] = let[j] /\ invite'[j] = invite[j] /\ LetMost' = LetMost
      BY <1>0, <2>1
    <3>2. CASE j = i
      BY <2>3, <2>8, <2>9, <3>1, <3>2 DEF LetInv
    <3>3. CASE j # i
      BY <2>2, <2>6, <3>1, <3>3 DEF LetInv
    <3> QED  BY <3>2, <3>3
  <2> QED  BY <2>10 DEF LetInv
<1>3. ASSUME NEW r \in Requests, MarkRedeemed(r) PROVE LetInv'
  <2>0. PICK i \in Invites, u \in Helpers : i = req[r].invite /\ u = req[r].user
    BY <1>3, InviteHeld DEF MarkRedeemed
  <2>1. /\ req[r].pc = "mark" /\ UNCHANGED let
        /\ req' = [req EXCEPT ![r] = [pc |-> "grant", user |-> u, invite |-> i]]
    BY <1>3, <2>0, MarkShape DEF MarkRedeemed
  <2>2. /\ invite'[i].state = "redeemed"
        /\ \A j \in Invites \ {i} : invite'[j] = invite[j]
    BY <1>3, <2>0 DEF MarkRedeemed
  <2>3. /\ req'[r].pc = "grant" /\ req'[r].invite = i
        /\ \A q \in Requests \ {r} : req'[q] = req[q]
    BY <2>1
  <2>4. \A j \in Invites : RedeemersOf(j)' \subseteq RedeemersOf(j)
    BY <1>r, <2>0, <2>1, <2>3
  <2>5. \A j \in Invites \ {i} : \A q \in RedeemersOf(j)' : req'[q] = req[q]
    BY <1>r, <2>3
  <2> QED  BY <1>1, <2>1, <2>2, <2>4, <2>5
<1>4. ASSUME NEW r \in Requests, GrantStaff(r) PROVE LetInv'
  <2>0. PICK i \in Invites : i = req[r].invite
    BY <1>4, InviteHeld DEF GrantStaff
  <2>1. UNCHANGED invite /\ req[r].pc = "grant" /\ req'[r].pc = "idle"
        /\ \A q \in Requests \ {r} : req'[q] = req[q]
    BY <1>4 DEF GrantStaff, Finish, Become, Idle
  <2>2. /\ let'[i] = let[i] \cup {req[r].user}
        /\ \A j \in Invites \ {i} : let'[j] = let[j]
    BY <1>4, <2>0 DEF GrantStaff
  <2>3. /\ r \in RedeemersOf(i) /\ \A j \in Invites : RedeemersOf(j)' \subseteq RedeemersOf(j) \ {r}
    BY <1>r, <2>0, <2>1
  <2>4. invite[i].state = "redeemed"
    BY <2>1, <2>3 DEF LetInv
  <2>5. IsFiniteSet(RedeemersOf(i)) /\ IsFiniteSet(let[i])
    BY <1>0, <2>0, SomeRequests DEF LetInv
  <2>6. /\ IsFiniteSet(let'[i]) /\ Cardinality(let'[i]) \in Nat
        /\ Cardinality(let'[i]) + Cardinality(RedeemersOf(i) \ {r})
             <= Cardinality(let[i]) + Cardinality(RedeemersOf(i))
        /\ Cardinality(RedeemersOf(i) \ {r}) \in Nat
    <3> DEFINE S == let[i]
               P == RedeemersOf(i)
               x == req[r].user
    <3>1. IsFiniteSet(S) /\ IsFiniteSet(P) /\ r \in P
      BY <2>3, <2>5
    <3> HIDE DEF S, P, x
    <3>2. /\ IsFiniteSet(S \cup {x})
          /\ Cardinality(S \cup {x}) \in Nat /\ Cardinality(P \ {r}) \in Nat
          /\ Cardinality(S \cup {x}) + Cardinality(P \ {r}) <= Cardinality(S) + Cardinality(P)
      BY <3>1, FillOne
    <3> QED  BY <2>2, <3>2 DEF S, P, x
  <2>7. Cardinality(RedeemersOf(i)') <= Cardinality(RedeemersOf(i) \ {r})
    <3>1. RedeemersOf(i) \ {r} \in SUBSET Requests
      BY <1>0
    <3> QED  BY <2>3, <3>1, SomeRequests
  <2>8. Cardinality(let'[i]) + Cardinality(RedeemersOf(i)') <= LetMost
    BY <1>0, <2>6, <2>7 DEF LetInv
  <2>9. ASSUME NEW j \in Invites \ {i}
        PROVE  /\ IsFiniteSet(let'[j])
               /\ Cardinality(let'[j]) + Cardinality(RedeemersOf(j)') <= LetMost
               /\ invite'[j].state # "redeemed" =>
                     let'[j] = {} /\ \A q \in RedeemersOf(j)' : req'[q].pc = "mark"
    <3>1. Cardinality(RedeemersOf(j)') <= Cardinality(RedeemersOf(j))
      BY <1>0, <2>3, SomeRequests
    <3>2. Cardinality(let'[j]) + Cardinality(RedeemersOf(j)') <= LetMost
      BY <1>0, <2>2, <3>1 DEF LetInv
    <3>3. \A q \in RedeemersOf(j)' : q \in RedeemersOf(j) /\ req'[q] = req[q]
      BY <1>r, <2>1, <2>3
    <3> QED  BY <2>1, <2>2, <3>2, <3>3 DEF LetInv
  <2>10. LetMost' = LetMost /\ invite'[i].state = "redeemed"
    BY <1>0, <2>1, <2>4
  <2> QED  BY <2>6, <2>8, <2>9, <2>10 DEF LetInv
<1>5. ASSUME NEW r \in Requests, CutOffInvite(r) PROVE LetInv'
  <2>1. UNCHANGED <<invite, let>> /\ \A i \in Invites : /\ RedeemersOf(i)' \subseteq RedeemersOf(i)
                                                         /\ \A q \in RedeemersOf(i)' : req'[q] = req[q]
    BY <1>5 DEF CutOffInvite, Finish, Become, Idle, RedeemersOf, AtSome
  <2> QED  BY <1>1, <2>1
<1>6. ASSUME NEW i \in Invites, MintInvite(i) PROVE LetInv'
  <2>1. /\ UNCHANGED <<let, req>>
        /\ \A j \in Invites : invite'[j].state # "redeemed" => invite[j].state # "redeemed"
    BY <1>6 DEF MintInvite
  <2>2. \A j \in Invites : RedeemersOf(j)' = RedeemersOf(j)
    BY <2>1 DEF RedeemersOf, AtSome
  <2> QED  BY <1>1, <2>1, <2>2
<1>7. CASE UNCHANGED inviteSpecVars
  <2>1. UNCHANGED <<invite, let, req>> /\ \A j \in Invites : RedeemersOf(j)' = RedeemersOf(j)
    BY <1>7 DEF inviteSpecVars, RedeemersOf, AtSome
  <2> QED  BY <1>1, <2>1
<1> QED
    BY <1>2, <1>3, <1>4, <1>5, <1>6, <1>7 DEF InvitesNext, InviteStep

(* An invitation lets in one, or as many as redeem it side by side.         *)
THEOREM InvitesBounded == InvitesSpec => []InviteBound
<1>1. InvitesInit => LetInv
  <2> SUFFICES ASSUME InvitesInit, NEW i \in Invites
               PROVE  /\ IsFiniteSet(let[i])
                      /\ Cardinality(let[i]) + Cardinality(RedeemersOf(i)) <= LetMost
                      /\ let[i] = {} /\ RedeemersOf(i) = {}
      BY DEF LetInv
  <2>1. let[i] = {} /\ RedeemersOf(i) = {}
      BY DEF InvitesInit, HandlersInit, RedeemersOf, AtSome, Idle
  <2> QED  BY <2>1, FS_EmptySet, SomeoneAsks DEF LetMost
<1>2. InvitesTypeOK /\ LetInv /\ [InvitesNext]_inviteSpecVars => (InvitesTypeOK /\ LetInv)'
    BY InvitesTyped, LetInvStep
<1>3. LetInv => InviteBound
  <2> SUFFICES ASSUME LetInv, NEW i \in Invites PROVE Cardinality(let[i]) <= LetMost
      BY DEF InviteBound, LetMost
  <2>1. RedeemersOf(i) \in SUBSET Requests /\ LetMost \in Nat
      BY SomeoneAsks DEF RedeemersOf, AtSome, LetMost
  <2>2. Cardinality(let[i]) \in Nat /\ Cardinality(RedeemersOf(i)) \in Nat
      BY <2>1, SomeRequests, FS_CardinalityType DEF LetInv
  <2> QED  BY <2>1, <2>2 DEF LetInv
<1> QED
    BY <1>1, <1>2, <1>3, InvitesInitTyped, PTL DEF InvitesSpec, inviteSpecVars

\* One request redeems a token that is still open; whoever it marks is on the
\* staff, or is about to be.
StaffInv ==
    orderly =>
        /\ \A q, r \in Requests : req[q].pc # "idle" /\ req[r].pc # "idle" => q = r
        /\ \A r \in Requests : req[r].pc = "mark" => invite[req[r].invite].state = "open"
        /\ \A u \in Helpers :
              (\E i \in Invites : invite[i] = [state |-> "redeemed", by |-> u])
                <=> u \in staff \/ \E r \in Requests : req[r].pc = "grant" /\ req[r].user = u

LEMMA StaffInvStep ==
    ASSUME InvitesTypeOK, StaffInv, [InvitesNext]_inviteSpecVars
    PROVE  StaffInv'
<1> SUFFICES ASSUME orderly PROVE StaffInv'
    BY DEF StaffInv, InvitesNext, inviteSpecVars
<1> USE DEF InvitesTypeOK, At, inviteVars
<1>1. ASSUME NEW r \in Requests, NEW u \in Helpers, NEW i \in Invites, RedeemOpen(r, u, i)
      PROVE  StaffInv'
  <2>1. /\ UNCHANGED <<invite, staff>> /\ invite[i].state = "open"
        /\ req'[r] = [pc |-> "mark", user |-> u, invite |-> i]
        /\ \A q \in Requests : req[q].pc = "idle"
        /\ \A q \in Requests \ {r} : req'[q] = req[q]
    BY <1>1 DEF RedeemOpen, RedeemAny, Become
  <2> QED  BY <2>1 DEF StaffInv
<1>2. ASSUME NEW r \in Requests, MarkRedeemed(r) PROVE StaffInv'
  <2>0. PICK i \in Invites, u \in Helpers : i = req[r].invite /\ u = req[r].user
    BY <1>2, InviteHeld DEF MarkRedeemed
  <2>1. invite[i].state = "open" /\ UNCHANGED staff
    BY <1>2, <2>0 DEF MarkRedeemed, StaffInv
  <2>2. /\ invite'[i] = [state |-> "redeemed", by |-> u]
        /\ \A j \in Invites \ {i} : invite'[j] = invite[j]
    BY <1>2, <2>0 DEF MarkRedeemed
  <2>3. /\ req'[r].pc = "grant" /\ req'[r].user = u
        /\ \A q \in Requests \ {r} : req'[q] = req[q] /\ req[q].pc = "idle"
        /\ req[r].pc = "mark"
    <3>1. req[r].pc = "mark" /\ \A q \in Requests \ {r} : req[q].pc = "idle"
      BY <1>2 DEF MarkRedeemed, StaffInv
    <3>2. req' = [req EXCEPT ![r] = [pc |-> "grant", user |-> u, invite |-> i]]
      BY <1>2, <2>0, MarkShape
    <3> QED  BY <3>1, <3>2
  <2>4. ASSUME NEW v \in Helpers
        PROVE  (\E j \in Invites : invite'[j] = [state |-> "redeemed", by |-> v])
                 <=> v = u \/ \E j \in Invites : invite[j] = [state |-> "redeemed", by |-> v]
    <3>1. \A w \in Helpers : invite[i] # [state |-> "redeemed", by |-> w]
      BY <2>1
    <3>2. invite'[i] = [state |-> "redeemed", by |-> v] <=> v = u
      BY <2>2
    <3> QED  BY <2>1, <2>2, <3>1, <3>2
  <2> QED  BY <2>1, <2>3, <2>4 DEF StaffInv
<1>3. ASSUME NEW r \in Requests, GrantStaff(r) PROVE StaffInv'
  <2>1. /\ UNCHANGED invite /\ staff' = staff \cup {req[r].user}
        /\ req'[r].pc = "idle" /\ req[r].pc = "grant"
        /\ \A q \in Requests \ {r} : req'[q] = req[q] /\ req[q].pc = "idle"
    BY <1>3 DEF GrantStaff, Finish, Become, Idle, StaffInv
  <2> QED  BY <2>1 DEF StaffInv
<1>4. ASSUME NEW i \in Invites, MintInvite(i) PROVE StaffInv'
  <2>1. /\ UNCHANGED <<staff, req>> /\ invite[i].state = "none"
        /\ invite'[i].state = "open" /\ \A j \in Invites \ {i} : invite'[j] = invite[j]
    BY <1>4 DEF MintInvite
  <2>2. \A r \in Requests : req[r].pc = "mark" => req[r].invite \in Invites
    BY InviteHeld
  <2>3. \A u \in Helpers : /\ invite[i] # [state |-> "redeemed", by |-> u]
                           /\ invite'[i] # [state |-> "redeemed", by |-> u]
    BY <2>1
  <2> QED  BY <2>1, <2>2, <2>3 DEF StaffInv
<1>5. CASE UNCHANGED inviteSpecVars
    BY <1>5 DEF StaffInv, inviteSpecVars
<1> QED
    BY <1>1, <1>2, <1>3, <1>4, <1>5 DEF InvitesNext, InviteStep, CutOffInvite

(* In orderly behaviours those who redeemed an invitation are, at rest, the *)
(* staff.                                                                   *)
THEOREM RedeemersAreStaff == InvitesSpec => []RedeemerIsStaff
<1>1. InvitesInit => StaffInv
    BY DEF InvitesInit, HandlersInit, StaffInv, Idle
<1>2. InvitesTypeOK /\ StaffInv /\ [InvitesNext]_inviteSpecVars => (InvitesTypeOK /\ StaffInv)'
    BY InvitesTyped, StaffInvStep
<1>3. InvitesTypeOK /\ StaffInv => RedeemerIsStaff
  <2> SUFFICES ASSUME InvitesTypeOK, StaffInv, orderly, AtSome({"mark", "grant"}) = {}
               PROVE  staff = {u \in Helpers :
                                  [state |-> "redeemed", by |-> u] \in {invite[i] : i \in Invites}}
      BY DEF RedeemerIsStaff
  <2>1. \A r \in Requests : req[r].pc # "grant"
      BY DEF AtSome
  <2>2. \A u \in Helpers :
            (\E i \in Invites : invite[i] = [state |-> "redeemed", by |-> u]) <=> u \in staff
      BY <2>1 DEF StaffInv
  <2> QED  BY <2>2 DEF InvitesTypeOK
<1> QED
    BY <1>1, <1>2, <1>3, InvitesInitTyped, PTL DEF InvitesSpec, inviteSpecVars

-----------------------------------------------------------------------------
(* Participation offers.                                                   *)

USE OffersAssumption

offersAll == <<offer, application, mailed, lastSent, req, orderly>>

Holding == {"send", "offered", "mail", "expired", "accepted", "declined"}

(* A request that is at work on an offer holds that offer and nothing else. *)
LEMMA OfferHeld ==
    ASSUME OffersTypeOK, NEW r \in Requests, req[r].pc \in Holding
    PROVE  /\ req[r].offer \in Offers
           /\ req[r] = [pc |-> req[r].pc, offer |-> req[r].offer]
<1>1. req[r] \in OfferDoing \cup {Idle}
    BY DEF OffersTypeOK
<1>2. req[r] \in [pc : {"send", "offered", "mail", "expired", "accepted", "declined"},
                  offer : Offers]
    BY <1>1 DEF OfferDoing, Idle, Holding
<1> QED  BY <1>2

(* Moving on to another query keeps the offer that is held.                 *)
LEMMA OfferKept ==
    ASSUME OffersTypeOK, NEW r \in Requests, req[r].pc \in Holding, NEW pc, Goto(r, pc)
    PROVE  req' = [req EXCEPT ![r] = [pc |-> pc, offer |-> req[r].offer]]
<1>1. req' = [req EXCEPT ![r] = [req[r] EXCEPT !.pc = pc]]
    BY DEF Goto
<1>2. req[r] = [pc |-> req[r].pc, offer |-> req[r].offer]
    BY OfferHeld
<1>3. [req[r] EXCEPT !.pc = pc] = [pc |-> pc, offer |-> req[r].offer]
    BY <1>2
<1> QED  BY <1>1, <1>3

(* The offers, the application and the requests keep their types.           *)
LEMMA OffersTypeStep == OffersTypeOK /\ OffersNext => OffersTypeOK'
<1> SUFFICES ASSUME OffersTypeOK, NEW r \in Requests, OfferStep(r) PROVE OffersTypeOK'
    BY DEF OffersNext
<1> USE DEF OffersTypeOK, OfferDoing, OfferStatuses, Active, ApplicationStatuses,
        At, Become, Finish, Idle
<1>1. CASE Supersede(r)
    BY <1>1 DEF Supersede
<1>2. CASE InsertDraft(r)
    BY <1>2 DEF InsertDraft
<1>3. CASE Send(r) \/ Accept(r) \/ AcceptTooLate(r) \/ Decline(r)
    BY <1>3 DEF Send, Accept, AcceptTooLate, Decline, Handle, offerVars
<1>4. CASE MarkSent(r)
  <2>1. req[r].offer \in Offers /\ req' = [req EXCEPT ![r] = [pc |-> "offered", offer |-> req[r].offer]]
    BY <1>4, OfferHeld, OfferKept DEF MarkSent, SetOffer, Holding
  <2> QED  BY <1>4, <2>1 DEF MarkSent, SetOffer
<1>5. CASE MarkOffered(r)
  <2>1. req[r].offer \in Offers /\ req' = [req EXCEPT ![r] = [pc |-> "mail", offer |-> req[r].offer]]
    BY <1>5, OfferHeld, OfferKept DEF MarkOffered, Holding
  <2> QED  BY <1>5, <2>1 DEF MarkOffered
<1>6. CASE Mail(r)
  <2>1. req[r].offer \in Offers
    BY <1>6, OfferHeld DEF Mail, Holding
  <2> QED  BY <1>6, <2>1 DEF Mail
<1>7. CASE MarkExpired(r)
  <2>1. req[r].offer \in Offers
    BY <1>7, OfferHeld DEF MarkExpired, SetOffer, Holding
  <2> QED  BY <1>7, <2>1 DEF MarkExpired, SetOffer
<1>8. ASSUME NEW status \in {"accepted", "declined"}, MarkAnswer(r, status)
      PROVE  OffersTypeOK'
  <2>1. req[r].offer \in Offers
    BY <1>8, OfferHeld DEF MarkAnswer, SetOffer, Holding
  <2> QED  BY <1>8, <2>1 DEF MarkAnswer, SetOffer
<1>9. CASE MarkApplication(r)
  <2>1. req[r] \in OfferDoing /\ req[r].pc = "respond"
    BY <1>9 DEF MarkApplication
  <2>2. req[r].to \in {"accepted", "declined"}
    BY <2>1
  <2> QED  BY <1>9, <2>2 DEF MarkApplication
<1> QED
    BY <1>1, <1>2, <1>3, <1>4, <1>5, <1>6, <1>7, <1>8, <1>9 DEF OfferStep

(* The offers, the application and the requests always have their types.    *)
THEOREM OffersTypeCorrect == OffersSpec => []OffersTypeOK
<1>1. OffersInit => OffersTypeOK
    BY DEF OffersInit, HandlersInit, OffersTypeOK, OfferStatuses, ApplicationStatuses
<1>2. OffersTypeOK /\ UNCHANGED offersAll => OffersTypeOK'
    BY DEF offersAll, OffersTypeOK
<1> QED
    BY <1>1, <1>2, OffersTypeStep, PTL DEF OffersSpec, offersAll
-----------------------------------------------------------------------------
(* How many offers may be active.                                          *)

\* Active, or about to be marked as sent.
SentSoon == {req[r].offer : r \in AtSome({"send"})}
Opened == ActiveOffers \cup SentSoon
Drafting == AtSome({"draft"})

\* Every active offer is owed to a request of its own.
OpenedBound == Cardinality(Opened) + Cardinality(Drafting) <= Cardinality(Requests)

\* In orderly behaviours one handler runs at a time, on the one open offer.
OneAtATime ==
    orderly =>
        /\ \A q, r \in Requests : ~At(q, "idle") /\ ~At(r, "idle") => q = r
        /\ \A o, p \in Opened : o = p
        /\ Drafting # {} => Opened = {}

OffersInv == OffersTypeOK /\ OpenedBound /\ OneAtATime

(* The sets that are counted are finite.                                    *)
LEMMA OpenedFinite ==
    ASSUME OffersTypeOK
    PROVE  /\ IsFiniteSet(Opened) /\ Cardinality(Opened) \in Nat
           /\ IsFiniteSet(Drafting) /\ Cardinality(Drafting) \in Nat
           /\ Cardinality(Requests) \in Nat
<1>1. SentSoon \subseteq Offers
    BY OfferHeld DEF SentSoon, AtSome, Holding
<1>2. Opened \subseteq Offers /\ Drafting \subseteq Requests
    BY <1>1 DEF Opened, ActiveOffers, Drafting, AtSome
<1> QED  BY <1>2, FS_Subset, FS_CardinalityType

(* There are no more offers about to be sent than requests about to send.   *)
LEMMA SentSoonBound ==
    ASSUME OffersTypeOK, NEW r \in Requests, At(r, "idle")
    PROVE  Cardinality(SentSoon) + Cardinality(Drafting \cup {r}) <= Cardinality(Requests)
<1> DEFINE S == AtSome({"send"})
           D == Drafting \cup {r}
           f == [q \in S |-> req[q].offer]
<1>1. /\ S \subseteq Requests /\ D \subseteq Requests
      /\ S \cap D = {}
    BY DEF AtSome, Drafting, At
<1>2. IsFiniteSet(S) /\ IsFiniteSet(D) /\ IsFiniteSet(S \cup D) /\ IsFiniteSet(S \cap D)
    BY <1>1, FS_Subset
<1>3. f \in Surjection(S, SentSoon)
    BY DEF SentSoon, Surjection
<1>4. IsFiniteSet(SentSoon) /\ Cardinality(SentSoon) <= Cardinality(S)
    BY <1>2, <1>3, FS_Surjection
<1>5. Cardinality(S \cup D) = Cardinality(S) + Cardinality(D)
  <2>1. Cardinality(S \cap D) = 0
    BY <1>1, FS_EmptySet
  <2>2. Cardinality(S \cup D) = Cardinality(S) + Cardinality(D) - Cardinality(S \cap D)
    BY <1>2, FS_Union
  <2> QED  BY <2>1, <2>2, <1>2, FS_CardinalityType
<1>6. Cardinality(S \cup D) <= Cardinality(Requests)
    BY <1>1, FS_Subset
<1> HIDE DEF D
<1> QED  BY <1>2, <1>4, <1>5, <1>6, FS_CardinalityType DEF D

(* Only drafting an offer opens one: every other step leaves the open       *)
(* offers, and the requests about to draft one, alone or makes them fewer.  *)
LEMMA OpenedShrinks ==
    ASSUME OffersTypeOK, NEW r \in Requests, OfferStep(r), ~Supersede(r), ~InsertDraft(r)
    PROVE  Opened' \subseteq Opened /\ Drafting' \subseteq Drafting
<1> USE DEF At, Opened, ActiveOffers, SentSoon, Drafting, AtSome, Become, Finish, Idle, Active
<1>1. CASE Send(r)
  <2>1. PICK o \in Offers :
           offer[o] = "draft" /\ req' = [req EXCEPT ![r] = [pc |-> "send", offer |-> o]]
    BY <1>1 DEF Send, Handle
  <2>2. o \in ActiveOffers /\ offer' = offer
    BY <1>1, <2>1 DEF Send, Handle, offerVars
  <2> QED  BY <2>1, <2>2 DEF OffersTypeOK
<1>2. CASE Accept(r) \/ AcceptTooLate(r) \/ Decline(r)
  <2>1. PICK o \in Offers, pc \in {"accepted", "expired", "declined"} :
            req' = [req EXCEPT ![r] = [pc |-> pc, offer |-> o]]
    BY <1>2 DEF Accept, AcceptTooLate, Decline, Handle
  <2>2. offer' = offer
    BY <1>2 DEF Accept, AcceptTooLate, Decline, Handle, offerVars
  <2> QED  BY <2>1, <2>2 DEF OffersTypeOK
<1>3. CASE MarkSent(r)
  <2>1. req' = [req EXCEPT ![r] = [pc |-> "offered", offer |-> req[r].offer]]
    BY <1>3, OfferKept DEF MarkSent, SetOffer, Holding
  <2>2. /\ req[r].offer \in SentSoon /\ req[r].offer \in Offers
        /\ offer' = [offer EXCEPT ![req[r].offer] = "sent"]
    BY <1>3, OfferHeld DEF MarkSent, SetOffer, Holding
  <2> QED  BY <2>1, <2>2 DEF OffersTypeOK
<1>4. CASE MarkOffered(r)
  <2>1. req' = [req EXCEPT ![r] = [pc |-> "mail", offer |-> req[r].offer]]
    BY <1>4, OfferKept DEF MarkOffered, Holding
  <2> QED  BY <1>4, <2>1 DEF MarkOffered, OffersTypeOK
<1>5. CASE Mail(r) \/ MarkApplication(r)
    BY <1>5 DEF Mail, MarkApplication, OffersTypeOK
<1>6. CASE MarkExpired(r)
    BY <1>6, OfferHeld DEF MarkExpired, SetOffer, OffersTypeOK, Holding
<1>7. ASSUME NEW status \in {"accepted", "declined"}, MarkAnswer(r, status)
      PROVE  Opened' \subseteq Opened /\ Drafting' \subseteq Drafting
    BY <1>7, OfferHeld DEF MarkAnswer, SetOffer, OffersTypeOK, Holding
<1> QED
    BY <1>1, <1>2, <1>3, <1>4, <1>5, <1>6, <1>7 DEF OfferStep

(* A new draft supersedes every active offer.                               *)
LEMMA OpenedAfterSupersede ==
    ASSUME OffersTypeOK, NEW r \in Requests, Supersede(r)
    PROVE  Opened' = SentSoon /\ Drafting' = Drafting \cup {r} /\ At(r, "idle")
BY DEF Supersede, OffersMayStart, OffersTypeOK, At, Opened, ActiveOffers, SentSoon, Drafting,
       AtSome, Become, Active

(* The draft takes the place of the request that was about to make it.      *)
LEMMA OpenedAfterDraft ==
    ASSUME OffersTypeOK, NEW r \in Requests, InsertDraft(r)
    PROVE  /\ \E o \in Offers : Opened' = Opened \cup {o}
           /\ r \in Drafting /\ Drafting' = Drafting \ {r}
BY DEF InsertDraft, OffersTypeOK, At, Opened, ActiveOffers, SentSoon, Drafting, AtSome, Become,
       Finish, Idle, Active

(* The open offers stay within the bound.                                   *)
LEMMA OpenedBoundStep ==
    ASSUME OffersTypeOK, OpenedBound, OffersNext
    PROVE  OpenedBound'
<1> PICK r \in Requests : OfferStep(r)
    BY DEF OffersNext
<1>1. CASE Supersede(r)
    BY <1>1, OpenedAfterSupersede, SentSoonBound DEF OpenedBound
<1>2. CASE InsertDraft(r)
  <2>1. PICK o \in Offers : Opened' = Opened \cup {o}
    BY <1>2, OpenedAfterDraft
  <2>2. /\ IsFiniteSet(Opened) /\ Cardinality(Opened) \in Nat
        /\ IsFiniteSet(Drafting) /\ Cardinality(Drafting) \in Nat
        /\ Cardinality(Requests) \in Nat
    BY OpenedFinite
  <2>3. Cardinality(Opened \cup {o}) \in {Cardinality(Opened), Cardinality(Opened) + 1}
    BY <2>2, FS_AddElement
  <2>4. r \in Drafting /\ Drafting' = Drafting \ {r}
    BY <1>2, OpenedAfterDraft
  <2>5. Cardinality(Drafting') = Cardinality(Drafting) - 1
    BY <2>2, <2>4, FS_RemoveElement
  <2> QED
    BY <2>1, <2>2, <2>3, <2>5 DEF OpenedBound
<1>3. CASE ~Supersede(r) /\ ~InsertDraft(r)
  <2>1. Opened' \subseteq Opened /\ Drafting' \subseteq Drafting
    BY <1>3, OpenedShrinks
  <2>2. /\ Cardinality(Opened') <= Cardinality(Opened) /\ IsFiniteSet(Opened')
        /\ Cardinality(Drafting') <= Cardinality(Drafting) /\ IsFiniteSet(Drafting')
    BY <2>1, OpenedFinite, FS_Subset
  <2>3. Cardinality(Opened') \in Nat /\ Cardinality(Drafting') \in Nat
    BY <2>2, FS_CardinalityType
  <2> QED  BY <2>2, <2>3, OpenedFinite DEF OpenedBound
<1> QED  BY <1>1, <1>2, <1>3

(* A step is one request's, and begins only when the handlers may begin.    *)
LEMMA OneRequestSteps ==
    ASSUME OffersTypeOK, NEW r \in Requests, OfferStep(r)
    PROVE  /\ \A q \in Requests \ {r} : req'[q] = req[q]
           /\ At(r, "idle") => OffersMayStart(r)
<1> USE DEF OffersTypeOK, At, Become, Finish, Goto
<1>1. CASE Supersede(r) \/ Send(r) \/ Accept(r) \/ AcceptTooLate(r) \/ Decline(r)
    BY <1>1 DEF Supersede, Send, Accept, AcceptTooLate, Decline, Handle
<1>2. CASE InsertDraft(r) \/ MarkSent(r) \/ MarkOffered(r) \/ Mail(r) \/ MarkExpired(r)
           \/ MarkApplication(r)
    BY <1>2 DEF InsertDraft, MarkSent, SetOffer, MarkOffered, Mail, MarkExpired, MarkApplication
<1>3. ASSUME NEW status \in {"accepted", "declined"}, MarkAnswer(r, status)
      PROVE  (\A q \in Requests \ {r} : req'[q] = req[q]) /\ ~At(r, "idle")
    BY <1>3 DEF MarkAnswer, SetOffer
<1> QED  BY <1>1, <1>2, <1>3 DEF OfferStep

(* Handlers that take turns stay on the one open offer.                     *)
LEMMA OneAtATimeStep ==
    ASSUME OffersTypeOK, OneAtATime, OffersNext
    PROVE  OneAtATime'
<1> PICK r \in Requests : OfferStep(r)
    BY DEF OffersNext
<1> SUFFICES ASSUME orderly
             PROVE  /\ \A q, s \in Requests : ~At(q, "idle")' /\ ~At(s, "idle")' => q = s
                    /\ \A o, p \in Opened' : o = p
                    /\ Drafting' # {} => Opened' = {}
    BY DEF OneAtATime, OffersNext
<1>1. \A q \in Requests \ {r} : At(q, "idle") /\ req'[q] = req[q]
    BY OneRequestSteps DEF OneAtATime, OffersMayStart
<1>2. \A q, s \in Requests : ~At(q, "idle")' /\ ~At(s, "idle")' => q = s
    BY <1>1 DEF At
<1>3. CASE Supersede(r)
  <2>1. SentSoon = {}
    BY <1>1, <1>3, OpenedAfterSupersede DEF SentSoon, AtSome, At
  <2> QED  BY <1>2, <1>3, <2>1, OpenedAfterSupersede
<1>4. CASE InsertDraft(r)
  <2>1. Drafting \ {r} = {}
    BY <1>1 DEF Drafting, AtSome, At
  <2> QED  BY <1>2, <1>4, <2>1, OpenedAfterDraft DEF OneAtATime
<1>5. CASE ~Supersede(r) /\ ~InsertDraft(r)
    BY <1>2, <1>5, OpenedShrinks DEF OneAtATime
<1> QED  BY <1>3, <1>4, <1>5

(* The offers that are active at once are bounded in every behaviour.       *)
THEOREM ActiveOffersBounded == OffersSpec => []ActiveOffersBound
<1>1. OffersInit => OffersInv
  <2> SUFFICES ASSUME OffersInit PROVE OffersInv
      OBVIOUS
  <2>1. OffersTypeOK
    BY DEF OffersInit, HandlersInit, OffersTypeOK, OfferStatuses, ApplicationStatuses
  <2>2. Opened = {} /\ Drafting = {}
    BY DEF OffersInit, HandlersInit, Opened, ActiveOffers, SentSoon, Drafting, AtSome, Idle, Active
  <2>3. \A r \in Requests : At(r, "idle")
    BY DEF OffersInit, HandlersInit, At, Idle
  <2>4. Cardinality({}) = 0 /\ Cardinality(Requests) \in Nat
    BY FS_EmptySet, FS_CardinalityType
  <2> QED  BY <2>1, <2>2, <2>3, <2>4 DEF OffersInv, OpenedBound, OneAtATime
<1>2. OffersInv /\ [OffersNext]_offersAll => OffersInv'
  <2>1. OffersInv /\ OffersNext => OffersInv'
    BY OffersTypeStep, OpenedBoundStep, OneAtATimeStep DEF OffersInv
  <2>2. OffersInv /\ UNCHANGED offersAll => OffersInv'
    BY DEF OffersInv, offersAll, OffersTypeOK, OpenedBound, OneAtATime, Opened, ActiveOffers,
           SentSoon, Drafting, AtSome, At
  <2> QED  BY <2>1, <2>2
<1>3. OffersInv => ActiveOffersBound
  <2> SUFFICES ASSUME OffersInv PROVE ActiveOffersBound
      OBVIOUS
  <2>1. /\ IsFiniteSet(Opened) /\ Cardinality(Opened) \in Nat
        /\ Cardinality(Drafting) \in Nat /\ Cardinality(Requests) \in Nat
    BY OpenedFinite DEF OffersInv
  <2>2. IsFiniteSet(ActiveOffers) /\ Cardinality(ActiveOffers) <= Cardinality(Opened)
    BY <2>1, FS_Subset DEF Opened
  <2>3. Cardinality(ActiveOffers) \in Nat
    BY <2>2, FS_CardinalityType
  <2>4. CASE orderly
    <3>1. CASE ActiveOffers = {}
      BY <3>1, <2>4, FS_EmptySet DEF ActiveOffersBound
    <3>2. CASE ActiveOffers # {}
      <4>1. PICK o \in ActiveOffers : TRUE
        BY <3>2
      <4>2. \A p \in ActiveOffers : p = o
        BY <4>1, <2>4 DEF OffersInv, OneAtATime, Opened
      <4>3. ActiveOffers = {o}
        BY <4>1, <4>2
      <4>4. Cardinality(ActiveOffers) = 1
        BY <4>3, FS_Singleton
      <4> QED  BY <4>4, <2>4 DEF ActiveOffersBound
    <3> QED  BY <3>1, <3>2
  <2>5. CASE ~orderly
    BY <2>1, <2>2, <2>3, <2>5 DEF ActiveOffersBound, OffersInv, OpenedBound
  <2> QED  BY <2>4, <2>5
<1> QED
    BY <1>1, <1>2, <1>3, PTL DEF OffersSpec, offersAll

-----------------------------------------------------------------------------
(* The e-mail about an offer.                                              *)

\* An offer that is open to an answer was mailed, or somebody is about to.
SentIsMailed ==
    \A o \in Offers :
        offer[o] = "sent" =>
            o \in mailed \/ \E r \in Requests : req[r].pc \in {"offered", "mail"} /\ req[r].offer = o

(* A request that owes an e-mail sends it before it is done.                *)
LEMMA SentIsMailedStep ==
    ASSUME OffersTypeOK, SentIsMailed, OffersNext
    PROVE  SentIsMailed'
<1> PICK r \in Requests : OfferStep(r)
    BY DEF OffersNext
<1>1. \A q \in Requests \ {r} : req'[q] = req[q]
    BY OneRequestSteps
<1>2. CASE MarkSent(r)
  <2>1. req'[r] = [pc |-> "offered", offer |-> req[r].offer]
    BY <1>2, OfferKept DEF MarkSent, SetOffer, At, Holding, OffersTypeOK
  <2>2. /\ offer' = [offer EXCEPT ![req[r].offer] = "sent"] /\ mailed' = mailed
        /\ At(r, "send") /\ req[r].offer \in Offers
    BY <1>2, OfferHeld DEF MarkSent, SetOffer, At, Holding
  <2> QED  BY <1>1, <2>1, <2>2 DEF SentIsMailed, OffersTypeOK, At
<1>3. CASE MarkOffered(r)
  <2>1. req'[r] = [pc |-> "mail", offer |-> req[r].offer]
    BY <1>3, OfferKept DEF MarkOffered, At, Holding, OffersTypeOK
  <2> QED  BY <1>1, <1>3, <2>1 DEF SentIsMailed, MarkOffered
<1>4. CASE Mail(r)
  <2>1. req[r].offer \in Offers
    BY <1>4, OfferHeld DEF Mail, At, Holding
  <2> QED  BY <1>1, <1>4, <2>1 DEF SentIsMailed, Mail
<1>5. CASE Send(r) \/ Accept(r) \/ AcceptTooLate(r) \/ Decline(r)
  <2>1. At(r, "idle") /\ offer' = offer /\ mailed' = mailed
    BY <1>5 DEF Send, Accept, AcceptTooLate, Decline, Handle, OffersMayStart, offerVars
  <2> QED  BY <1>1, <2>1 DEF SentIsMailed, At
<1>6. CASE Supersede(r) \/ InsertDraft(r) \/ MarkExpired(r) \/ MarkApplication(r)
  <2>1. req[r].pc \notin {"offered", "mail"} /\ mailed' = mailed
    BY <1>6 DEF Supersede, OffersMayStart, InsertDraft, MarkExpired, SetOffer, MarkApplication, At
  <2>2. \A o \in Offers : offer'[o] = "sent" => offer[o] = "sent"
    BY <1>6 DEF Supersede, InsertDraft, MarkExpired, SetOffer, MarkApplication, OffersTypeOK
  <2> QED  BY <1>1, <2>1, <2>2 DEF SentIsMailed
<1>7. ASSUME NEW status \in {"accepted", "declined"}, MarkAnswer(r, status)
      PROVE  SentIsMailed'
  <2>1. req[r].pc \notin {"offered", "mail"} /\ mailed' = mailed
    BY <1>7 DEF MarkAnswer, SetOffer, At
  <2>2. \A o \in Offers : offer'[o] = "sent" => offer[o] = "sent"
    BY <1>7 DEF MarkAnswer, SetOffer, OffersTypeOK
  <2> QED  BY <1>1, <2>1, <2>2 DEF SentIsMailed
<1> QED
    BY <1>2, <1>3, <1>4, <1>5, <1>6, <1>7 DEF OfferStep

(* No open offer is left without its e-mail, however requests overlap.      *)
THEOREM OpenOffersMailed == OffersSpec => []OpenOffersAreMailed
<1> DEFINE Inv == OffersTypeOK /\ SentIsMailed
<1>1. OffersInit => Inv
    BY DEF OffersInit, HandlersInit, OffersTypeOK, OfferStatuses, ApplicationStatuses, SentIsMailed
<1>2. Inv /\ [OffersNext]_offersAll => Inv'
  <2>1. Inv /\ OffersNext => Inv'
    BY OffersTypeStep, SentIsMailedStep
  <2>2. Inv /\ UNCHANGED offersAll => Inv'
    BY DEF offersAll, OffersTypeOK, SentIsMailed
  <2> QED  BY <2>1, <2>2
<1>3. Inv => OpenOffersAreMailed
    BY DEF SentIsMailed, OpenOffersAreMailed, OffersAtRest, At
<1> QED
    BY <1>1, <1>2, <1>3, PTL DEF OffersSpec, offersAll

-----------------------------------------------------------------------------
(* What the application says.                                              *)

Expected ==
    IF lastSent = NoOffer THEN "pending"
    ELSE IF offer[lastSent] \in {"accepted", "declined"} THEN offer[lastSent] ELSE "offered"

\* In orderly behaviours a handler answers the offer that was sent last, and
\* the application is behind only between the two updates of a handler.
Following ==
    orderly =>
        /\ \A o \in Offers : offer[o] = "sent" => o = lastSent
        /\ (\A r \in Requests : req[r].pc \notin {"offered", "respond"}) => application = Expected
        /\ \A r \in Requests :
              /\ req[r].pc = "offered" => lastSent \in Offers /\ offer[lastSent] = "sent"
              /\ req[r].pc = "respond" => lastSent \in Offers /\ offer[lastSent] = req[r].to
                                           /\ req[r].to \in {"accepted", "declined"}
              /\ req[r].pc \in {"expired", "accepted", "declined"} =>
                    req[r].offer = lastSent /\ offer[lastSent] = "sent"

(* Each handler leaves the application saying what became of the offer.     *)
LEMMA FollowingStep ==
    ASSUME OffersTypeOK, OneAtATime, Following, OffersNext
    PROVE  Following'
<1> PICK r \in Requests : OfferStep(r)
    BY DEF OffersNext
<1> SUFFICES ASSUME orderly PROVE Following'
    BY DEF Following, OffersNext
<1>1. \A q \in Requests \ {r} : req[q].pc = "idle" /\ req'[q] = req[q]
    BY OneRequestSteps DEF OneAtATime, OffersMayStart, At
<1> USE DEF OffersTypeOK
<1>2. CASE Supersede(r)
  <2>1. /\ req[r].pc = "idle" /\ req'[r] = [pc |-> "draft"]
        /\ application' = application /\ lastSent' = lastSent
        /\ offer' = [o \in Offers |-> IF offer[o] \in Active THEN "superseded" ELSE offer[o]]
    BY <1>2 DEF Supersede, OffersMayStart, At, Become, ActiveOffers
  <2>2. application = Expected
    BY <1>1, <2>1 DEF Following
  <2> QED  BY <1>1, <2>1, <2>2 DEF Following, Expected, Active
<1>3. CASE InsertDraft(r)
  <2>1. PICK o \in Offers : offer[o] = "none" /\ offer' = [offer EXCEPT ![o] = "draft"]
    BY <1>3 DEF InsertDraft
  <2>2. /\ req[r].pc = "draft" /\ req'[r] = Idle
        /\ application' = application /\ lastSent' = lastSent
    BY <1>3 DEF InsertDraft, At, Finish, Become
  <2>3. application = Expected
    BY <1>1, <2>2 DEF Following
  <2> QED  BY <1>1, <2>1, <2>2, <2>3 DEF Following, Expected, Idle
<1>4. CASE Send(r)
  <2>1. PICK o \in Offers : req' = [req EXCEPT ![r] = [pc |-> "send", offer |-> o]]
    BY <1>4 DEF Send, Handle, Become
  <2>2. req[r].pc = "idle" /\ UNCHANGED offerVars
    BY <1>4 DEF Send, Handle, OffersMayStart, At
  <2> QED  BY <1>1, <2>1, <2>2 DEF Following, Expected, offerVars
<1>5. CASE Accept(r) \/ AcceptTooLate(r) \/ Decline(r)
  <2>1. PICK o \in Offers, pc \in {"accepted", "expired", "declined"} :
            offer[o] = "sent" /\ req' = [req EXCEPT ![r] = [pc |-> pc, offer |-> o]]
    BY <1>5 DEF Accept, AcceptTooLate, Decline, Handle, Become
  <2>2. req[r].pc = "idle" /\ UNCHANGED offerVars
    BY <1>5 DEF Accept, AcceptTooLate, Decline, Handle, OffersMayStart, At
  <2> QED  BY <1>1, <2>1, <2>2 DEF Following, Expected, offerVars
<1>6. CASE MarkSent(r)
  <2> DEFINE o == req[r].offer
  <2>1. req'[r] = [pc |-> "offered", offer |-> o] /\ o \in Offers /\ req[r].pc = "send"
    BY <1>6, OfferKept, OfferHeld DEF MarkSent, SetOffer, At, Holding
  <2>2. offer' = [offer EXCEPT ![o] = "sent"] /\ lastSent' = o
    BY <1>6 DEF MarkSent, SetOffer
  <2>3. \A p \in Offers : offer[p] = "sent" => p = o
    BY <2>1 DEF OneAtATime, Opened, ActiveOffers, SentSoon, AtSome, Active
  <2> QED  BY <1>1, <2>1, <2>2, <2>3 DEF Following
<1>7. CASE MarkOffered(r)
  <2>1. req'[r] = [pc |-> "mail", offer |-> req[r].offer] /\ req[r].pc = "offered"
    BY <1>7, OfferKept DEF MarkOffered, At, Holding
  <2>2. application' = "offered" /\ offer' = offer /\ lastSent' = lastSent
    BY <1>7 DEF MarkOffered
  <2>3. lastSent \in Offers /\ offer[lastSent] = "sent"
    BY <2>1 DEF Following
  <2> QED  BY <1>1, <2>1, <2>2, <2>3 DEF Following, Expected
<1>8. CASE Mail(r)
  <2>1. /\ req[r].pc = "mail" /\ req'[r] = Idle
        /\ offer' = offer /\ application' = application /\ lastSent' = lastSent
    BY <1>8 DEF Mail, At, Finish, Become
  <2> QED  BY <1>1, <2>1 DEF Following, Expected, Idle
<1>9. CASE MarkExpired(r)
  <2> DEFINE o == req[r].offer
  <2>1. /\ req[r].pc = "expired" /\ req'[r] = Idle /\ o \in Offers
        /\ application' = application /\ lastSent' = lastSent
        /\ offer' = [offer EXCEPT ![o] = "expired"]
    BY <1>9, OfferHeld DEF MarkExpired, SetOffer, At, Finish, Become, Holding
  <2>2. o = lastSent /\ offer[lastSent] = "sent"
    BY <2>1 DEF Following
  <2>3. application = Expected
    BY <1>1, <2>1 DEF Following
  <2> QED  BY <1>1, <2>1, <2>2, <2>3 DEF Following, Expected, Idle
<1>10. ASSUME NEW status \in {"accepted", "declined"}, MarkAnswer(r, status)
       PROVE  Following'
  <2> DEFINE o == req[r].offer
  <2>1. /\ req[r].pc = status /\ req'[r] = [pc |-> "respond", to |-> status] /\ o \in Offers
        /\ lastSent' = lastSent /\ offer' = [offer EXCEPT ![o] = status]
    BY <1>10, OfferHeld DEF MarkAnswer, SetOffer, At, Become, Holding
  <2>2. o = lastSent
    BY <2>1 DEF Following
  <2> QED  BY <1>1, <2>1, <2>2 DEF Following
<1>11. CASE MarkApplication(r)
  <2>1. /\ req[r].pc = "respond" /\ req'[r] = Idle /\ application' = req[r].to
        /\ offer' = offer /\ lastSent' = lastSent
    BY <1>11 DEF MarkApplication, At, Finish, Become
  <2>2. /\ lastSent \in Offers /\ offer[lastSent] = req[r].to
        /\ req[r].to \in {"accepted", "declined"}
    BY <2>1 DEF Following
  <2> QED  BY <1>1, <2>1, <2>2 DEF Following, Expected, Idle
<1> QED
    BY <1>2, <1>3, <1>4, <1>5, <1>6, <1>7, <1>8, <1>9, <1>10, <1>11 DEF OfferStep

(* One request at a time, the application says what became of the offer.    *)
THEOREM ApplicationFollows == OffersSpec => []ApplicationFollowsOffer
<1> DEFINE Inv == OffersTypeOK /\ OneAtATime /\ Following
<1>1. OffersInit => Inv
  <2> SUFFICES ASSUME OffersInit PROVE Inv
      OBVIOUS
  <2>1. OffersTypeOK
    BY DEF OffersInit, HandlersInit, OffersTypeOK, OfferStatuses, ApplicationStatuses
  <2>2. OneAtATime
    BY DEF OffersInit, HandlersInit, OneAtATime, Opened, ActiveOffers, SentSoon, Drafting, AtSome,
           At, Idle, Active
  <2>3. Following
    BY DEF OffersInit, HandlersInit, Following, Expected, Idle
  <2> QED  BY <2>1, <2>2, <2>3
<1>2. Inv /\ [OffersNext]_offersAll => Inv'
  <2>1. Inv /\ OffersNext => Inv'
    BY OffersTypeStep, OneAtATimeStep, FollowingStep
  <2>2. Inv /\ UNCHANGED offersAll => Inv'
    BY DEF offersAll, OffersTypeOK, OneAtATime, Opened, ActiveOffers, SentSoon, Drafting, AtSome,
           At, Following, Expected
  <2> QED  BY <2>1, <2>2
<1>3. Inv => ApplicationFollowsOffer
    BY DEF Following, Expected, ApplicationFollowsOffer, OffersAtRest, At
<1> QED
    BY <1>1, <1>2, <1>3, PTL DEF OffersSpec, offersAll
=============================================================================
