--------------------------- MODULE HandlersProofs ---------------------------
(* Proofs about MCHandlers, which explores one component at a time: a       *)
(* behaviour about a component is a behaviour of that component, so that    *)
(* what OwnershipProofs and ConventionProofs show of each holds there too.  *)
EXTENDS MCHandlers, OwnershipProofs, ConventionProofs

\* All that a step of MCHandlers may change.
handlersVars ==
    <<accountVars, offerVars, orgVars, groupVars, shiftVars, partyVars, inviteVars,
      req, orderly, topic>>

(* A step leaves the topic alone, and is a step of the component that is    *)
(* the topic or leaves that component as it is.                             *)
LEMMA TopicStep ==
    ASSUME [Next]_handlersVars
    PROVE  /\ topic' = topic
           /\ topic = "reset" => [ResetNext]_resetVars
           /\ topic = "offers" => [OffersNext]_offersAll
           /\ topic = "org" => [OrgNext]_orgSpecVars
           /\ topic = "leadership" => [GroupNext]_groupSpecVars
           /\ topic = "shift" => [ShiftNext]_shiftSpecVars
           /\ topic = "party" => [PartyNext]_partySpecVars
           /\ topic = "invites" => [InvitesNext]_inviteSpecVars
<1>1. CASE UNCHANGED handlersVars
  <2>1. UNCHANGED <<accountVars, offerVars, orgVars, groupVars, shiftVars, partyVars,
                    inviteVars, req, orderly, topic>>
      BY <1>1 DEF handlersVars
  <2> QED
      BY <2>1
      DEF accountVars, offerVars, orgVars, groupVars, shiftVars, partyVars, inviteVars,
          resetVars, offersAll, orgSpecVars, groupSpecVars, shiftSpecVars,
          partySpecVars, inviteSpecVars
<1>2. CASE Next
    BY <1>2 DEF Next
<1> QED  BY <1>1, <1>2

(* A behaviour about "reset" is one of ResetSpec. *)
LEMMA ResetBehaviour == Spec /\ topic = "reset" => ResetSpec /\ [](topic = "reset")
<1>1. Init => ResetInit
    BY DEF Init
<1>2. topic = "reset" /\ [Next]_handlersVars => [ResetNext]_resetVars /\ (topic = "reset")'
    BY TopicStep
<1> QED
    BY <1>1, <1>2, PTL DEF Spec, handlersVars, ResetSpec, resetVars

(* A behaviour about "offers" is one of OffersSpec. *)
LEMMA OffersBehaviour == Spec /\ topic = "offers" => OffersSpec /\ [](topic = "offers")
<1>1. Init => OffersInit
    BY DEF Init
<1>2. topic = "offers" /\ [Next]_handlersVars => [OffersNext]_offersAll /\ (topic = "offers")'
    BY TopicStep
<1> QED
    BY <1>1, <1>2, PTL DEF Spec, handlersVars, OffersSpec, offersAll

(* A behaviour about "org" is one of OrgSpec. *)
LEMMA OrgBehaviour == Spec /\ topic = "org" => OrgSpec /\ [](topic = "org")
<1>1. Init => OrgInit
    BY DEF Init
<1>2. topic = "org" /\ [Next]_handlersVars => [OrgNext]_orgSpecVars /\ (topic = "org")'
    BY TopicStep
<1> QED
    BY <1>1, <1>2, PTL DEF Spec, handlersVars, OrgSpec, orgSpecVars

(* A behaviour about "leadership" is one of GroupSpec. *)
LEMMA GroupBehaviour == Spec /\ topic = "leadership" => GroupSpec /\ [](topic = "leadership")
<1>1. Init => GroupInit
    BY DEF Init
<1>2. topic = "leadership" /\ [Next]_handlersVars => [GroupNext]_groupSpecVars /\ (topic = "leadership")'
    BY TopicStep
<1> QED
    BY <1>1, <1>2, PTL DEF Spec, handlersVars, GroupSpec, groupSpecVars

(* A behaviour about "shift" is one of ShiftSpec. *)
LEMMA ShiftBehaviour == Spec /\ topic = "shift" => ShiftSpec /\ [](topic = "shift")
<1>1. Init => ShiftInit
    BY DEF Init
<1>2. topic = "shift" /\ [Next]_handlersVars => [ShiftNext]_shiftSpecVars /\ (topic = "shift")'
    BY TopicStep
<1> QED
    BY <1>1, <1>2, PTL DEF Spec, handlersVars, ShiftSpec, shiftSpecVars

(* A behaviour about "party" is one of PartySpec. *)
LEMMA PartyBehaviour == Spec /\ topic = "party" => PartySpec /\ [](topic = "party")
<1>1. Init => PartyInit
    BY DEF Init
<1>2. topic = "party" /\ [Next]_handlersVars => [PartyNext]_partySpecVars /\ (topic = "party")'
    BY TopicStep
<1> QED
    BY <1>1, <1>2, PTL DEF Spec, handlersVars, PartySpec, partySpecVars

(* A behaviour about "invites" is one of InvitesSpec. *)
LEMMA InvitesBehaviour == Spec /\ topic = "invites" => InvitesSpec /\ [](topic = "invites")
<1>1. Init => InvitesInit
    BY DEF Init
<1>2. topic = "invites" /\ [Next]_handlersVars => [InvitesNext]_inviteSpecVars /\ (topic = "invites")'
    BY TopicStep
<1> QED
    BY <1>1, <1>2, PTL DEF Spec, handlersVars, InvitesSpec, inviteSpecVars

(* Whichever component a behaviour is about, it is a behaviour of that      *)
(* component's own specification.                                           *)
THEOREM EachTopicIsItsComponent ==
    Spec =>
        /\ topic = "reset" => ResetSpec
        /\ topic = "offers" => OffersSpec
        /\ topic = "org" => OrgSpec
        /\ topic = "leadership" => GroupSpec
        /\ topic = "shift" => ShiftSpec
        /\ topic = "party" => PartySpec
        /\ topic = "invites" => InvitesSpec
BY ResetBehaviour, OffersBehaviour, OrgBehaviour, GroupBehaviour,
   ShiftBehaviour, PartyBehaviour, InvitesBehaviour

(* The component that a behaviour is about always has its types, and its    *)
(* requests hold what its handlers hold.                                    *)
THEOREM HandlersTypeCorrect == Spec => []TypeOK
<1>1. Spec /\ topic = "reset" => []TypeOK
  <2>1. topic = "reset" /\ ResetTypeOK => TypeOK
      BY DEF TypeOK
  <2> QED  BY <2>1, ResetBehaviour, ResetTypeCorrect, PTL
<1>2. Spec /\ topic = "offers" => []TypeOK
  <2>1. topic = "offers" /\ OffersTypeOK => TypeOK
      BY DEF TypeOK
  <2> QED  BY <2>1, OffersBehaviour, OffersTypeCorrect, PTL
<1>3. Spec /\ topic = "org" => []TypeOK
  <2>1. topic = "org" /\ OrgTypeOK => TypeOK
      BY DEF TypeOK
  <2> QED  BY <2>1, OrgBehaviour, OrgTypeCorrect, PTL
<1>4. Spec /\ topic = "leadership" => []TypeOK
  <2>1. topic = "leadership" /\ GroupTypeOK => TypeOK
      BY DEF TypeOK
  <2> QED  BY <2>1, GroupBehaviour, GroupTypeCorrect, PTL
<1>5. Spec /\ topic = "shift" => []TypeOK
  <2>1. topic = "shift" /\ ShiftTypeOK => TypeOK
      BY DEF TypeOK
  <2> QED  BY <2>1, ShiftBehaviour, ShiftTypeCorrect, PTL
<1>6. Spec /\ topic = "party" => []TypeOK
  <2>1. topic = "party" /\ PartyTypeOK => TypeOK
      BY DEF TypeOK
  <2> QED  BY <2>1, PartyBehaviour, PartyTypeCorrect, PTL
<1>7. Spec /\ topic = "invites" => []TypeOK
  <2>1. topic = "invites" /\ InvitesTypeOK => TypeOK
      BY DEF TypeOK
  <2> QED  BY <2>1, InvitesBehaviour, InvitesTypeCorrect, PTL
<1>8. Init => topic \in Topics
    BY DEF Init
<1>9. Spec => \/ topic = "reset"
              \/ topic = "offers"
              \/ topic = "org"
              \/ topic = "leadership"
              \/ topic = "shift"
              \/ topic = "party"
              \/ topic = "invites"
    BY <1>8 DEF Spec, Topics
<1> QED
    BY <1>1, <1>2, <1>3, <1>4, <1>5, <1>6, <1>7, <1>9
=============================================================================
