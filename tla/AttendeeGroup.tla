---------------------------- MODULE AttendeeGroup ---------------------------
(***************************************************************************)
(* A group of attendees of a convention with a capacity                    *)
(* (routes/convention-attendee-routes.ts): attendees join it, or, where it *)
(* is by invitation only, ask to, and its owner approves or denies them.   *)
(*                                                                         *)
(* The reads of a handler come before its writes, the group before the     *)
(* count, and are one step.  Nobody is ever removed from a group.  Groups  *)
(* without a capacity are left out.                                        *)
(***************************************************************************)
EXTENDS Handlers

CONSTANTS
    Guests,
    Capacities

ASSUME PartyAssumption == IsFiniteSet(Guests) /\ Capacities \subseteq Nat \ {0}

VARIABLES
    party,   \* the row of convention_attendee_groups
    inGroup, \* who has a row of convention_attendee_group_members
    asked    \* the status of each guest's join request: one row at most

partyVars == <<party, inGroup, asked>>

Party == [open : BOOLEAN, inviteOnly : BOOLEAN, capacity : Capacities]

PartyDoing ==
    [pc : {"join", "ask", "add"}, user : Guests]
    \cup [pc : {"mark"}, user : Guests, to : {"approved", "denied"}]

PartyTypeOK ==
    /\ party \in Party
    /\ inGroup \subseteq Guests
    /\ asked \in [Guests -> {"none", "pending", "approved", "denied"}]
    /\ req \in [Requests -> PartyDoing \cup {Idle}]

\* POST .../attendee-groups makes the owner a member.
PartyInit ==
    /\ HandlersInit
    /\ party \in [open : {TRUE}, inviteOnly : BOOLEAN, capacity : Capacities]
    /\ \E owner \in Guests : inGroup = {owner}
    /\ asked = [u \in Guests |-> "none"]

-----------------------------------------------------------------------------
HasRoom == Cardinality(inGroup) < party.capacity

\* POST .../join
JoinParty(r, u) ==
    /\ At(r, "idle")
    /\ party.open /\ u \notin inGroup /\ HasRoom
    /\ Become(r, [pc |-> IF party.inviteOnly THEN "ask" ELSE "join", user |-> u])
    /\ UNCHANGED partyVars

\* A guest who has asked before, and may have been denied, is told the
\* request is pending, and it is not.
InsertRequest(r) ==
    /\ At(r, "ask")
    /\ asked' = [asked EXCEPT ![req[r].user] = IF @ = "none" THEN "pending" ELSE @]
    /\ Finish(r)
    /\ UNCHANGED <<party, inGroup>>

InsertGuest(r) ==
    /\ At(r, "join")
    /\ inGroup' = inGroup \cup {req[r].user}
    /\ Finish(r)
    /\ UNCHANGED <<party, asked>>

\* PATCH .../join-requests/:requestId

\* Mutant: the capacity is not looked at.
ApproveAnyway(r, u) ==
    /\ At(r, "idle")
    /\ asked[u] = "pending"
    /\ Become(r, [pc |-> "add", user |-> u])
    /\ UNCHANGED partyVars

Approve(r, u) ==
    /\ At(r, "idle")
    /\ asked[u] = "pending" /\ HasRoom
    /\ Become(r, [pc |-> "add", user |-> u])
    /\ UNCHANGED partyVars

\* Mutant: the request is marked first.
MarkBeforeAdd(r) ==
    /\ At(r, "add")
    /\ asked' = [asked EXCEPT ![req[r].user] = "approved"]
    /\ Become(r, [pc |-> "join", user |-> req[r].user])
    /\ UNCHANGED <<party, inGroup>>

AddApproved(r) ==
    /\ At(r, "add")
    /\ inGroup' = inGroup \cup {req[r].user}
    /\ Become(r, [pc |-> "mark", user |-> req[r].user, to |-> "approved"])
    /\ UNCHANGED <<party, asked>>

Deny(r, u) ==
    /\ At(r, "idle")
    /\ asked[u] = "pending"
    /\ Become(r, [pc |-> "mark", user |-> u, to |-> "denied"])
    /\ UNCHANGED partyVars

\* By id, whatever the request says by now.
MarkRequest(r) ==
    /\ At(r, "mark")
    /\ asked' = [asked EXCEPT ![req[r].user] = req[r].to]
    /\ Finish(r)
    /\ UNCHANGED <<party, inGroup>>

\* PATCH .../attendee-groups/:groupId.  In orderly behaviours the capacity
\* never falls.
PatchParty ==
    /\ \E p \in Party :
          /\ orderly => p.capacity >= party.capacity
          /\ party' = p
    /\ UNCHANGED <<inGroup, asked, req>>

CutOffParty(r) ==
    /\ ~At(r, "idle")
    /\ Finish(r)
    /\ UNCHANGED partyVars

PartyStep(r) ==
    \/ \E u \in Guests : JoinParty(r, u) \/ Approve(r, u) \/ Deny(r, u)
    \/ InsertRequest(r) \/ InsertGuest(r) \/ AddApproved(r) \/ MarkRequest(r) \/ CutOffParty(r)

PartyNext == ((\E r \in Requests : PartyStep(r)) \/ PatchParty) /\ UNCHANGED orderly

PartySpec == PartyInit /\ [][PartyNext]_<<party, inGroup, asked, req, orderly>>

-----------------------------------------------------------------------------
(* Properties.                                                             *)

(* As long as the owner never lowers the capacity, the members exceed it   *)
(* by less than the requests that run side by side, be they joins of a     *)
(* public group, approvals, or both while the visibility changes.  (The    *)
(* count before the insert in both handlers.)                              *)
PartyBound ==
    orderly => Cardinality(inGroup) < party.capacity + Cardinality(Requests)

(* Whoever's request is marked as approved is in the group, although two   *)
(* owners may answer one request differently and a handler may die between *)
(* its two writes.  (Their order.)                                         *)
ApprovedIsIn == \A u \in Guests : asked[u] = "approved" => u \in inGroup
=============================================================================
