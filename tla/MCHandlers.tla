----------------------------- MODULE MCHandlers -----------------------------
(***************************************************************************)
(* The components whose state is a few rows that request handlers share,   *)
(* for TLC.  They have no state in common, so nothing is lost by exploring *)
(* them one at a time: a behaviour is about one of them, its topic, and    *)
(* the others stay in an initial state.                                    *)
(***************************************************************************)
EXTENDS PasswordReset, ParticipationOffers, OrgOwnership, GroupLeadership,
        VolunteerShift, AttendeeGroup, StaffInvites, TLC

CONSTANTS r1, r2, i1, i2, i3, founder, admin, someone, ann, bob
TwoRequests == {r1, r2}
Ids == {i1, i2, i3}
OrgUsers == {founder, admin, someone}
OnlyAdmin == {admin}
TwoPeople == {ann, bob}
OneOrTwo == {1, 2}

Symmetry == {p @@ q : p \in Permutations(TwoRequests), q \in Permutations(Ids)}

VARIABLE topic

Topics == {"reset", "offers", "org", "leadership", "shift", "party", "invites"}

\* An initial state of a component that is not the topic.
Quiet ==
    /\ \/ topic = "reset"
       \/ account = [password |-> CHOOSE p \in Passwords : TRUE, version |-> 0, weak |-> FALSE]
    /\ topic = "org" \/ owner = CHOOSE u \in Users : TRUE
    /\ topic = "leadership" \/ leader = CHOOSE u \in People : TRUE
    /\ topic = "shift" \/ shift = [status |-> "open", person |-> Nobody, claimed |-> Nobody]
    /\ \/ topic = "party"
       \/ /\ party = [open |-> TRUE, inviteOnly |-> FALSE,
                      capacity |-> CHOOSE c \in Capacities : TRUE]
          /\ inGroup = {CHOOSE u \in Guests : TRUE}

Init ==
    /\ topic \in Topics
    /\ Quiet
    /\ ResetInit /\ OffersInit /\ OrgInit /\ GroupInit
    /\ ShiftInit /\ PartyInit /\ InvitesInit

Next ==
    /\ \/ /\ topic = "reset" /\ ResetNext
          /\ UNCHANGED <<offerVars, orgVars, groupVars, shiftVars, partyVars, inviteVars>>
       \/ /\ topic = "offers" /\ OffersNext
          /\ UNCHANGED <<accountVars, orgVars, groupVars, shiftVars, partyVars, inviteVars>>
       \/ /\ topic = "org" /\ OrgNext
          /\ UNCHANGED <<accountVars, offerVars, groupVars, shiftVars, partyVars, inviteVars>>
       \/ /\ topic = "leadership" /\ GroupNext
          /\ UNCHANGED <<accountVars, offerVars, orgVars, shiftVars, partyVars, inviteVars>>
       \/ /\ topic = "shift" /\ ShiftNext
          /\ UNCHANGED <<accountVars, offerVars, orgVars, groupVars, partyVars, inviteVars>>
       \/ /\ topic = "party" /\ PartyNext
          /\ UNCHANGED <<accountVars, offerVars, orgVars, groupVars, shiftVars, inviteVars>>
       \/ /\ topic = "invites" /\ InvitesNext
          /\ UNCHANGED <<accountVars, offerVars, orgVars, groupVars, shiftVars, partyVars>>
    /\ UNCHANGED topic

Spec ==
    Init /\ [][Next]_<<accountVars, offerVars, orgVars, groupVars, shiftVars, partyVars,
                       inviteVars, req, orderly, topic>>

(* The state of every component has its type, and every request holds what *)
(* the handlers of the topic hold.                                         *)
TypeOK ==
    /\ topic = "reset" => ResetTypeOK
    /\ topic = "offers" => OffersTypeOK
    /\ topic = "org" => OrgTypeOK
    /\ topic = "leadership" => GroupTypeOK
    /\ topic = "shift" => ShiftTypeOK
    /\ topic = "party" => PartyTypeOK
    /\ topic = "invites" => InvitesTypeOK
=============================================================================
