---------------------------- MODULE StaffInvites ----------------------------
(***************************************************************************)
(* Invitations to the staff of a convention                                *)
(* (routes/conventions-routes.ts): an organizer makes a token, and whoever *)
(* redeems it is given the role STAFF.  Redeeming reads the token, marks   *)
(* it by id, and writes the grant.  Roles given in other ways, and tokens  *)
(* whose time is over, which are spent, are left out.                      *)
(***************************************************************************)
EXTENDS Handlers

CONSTANTS
    Helpers,
    Invites  \* rows of convention_staff_invite_tokens

VARIABLES
    invite,  \* redeemed_at and redeemed_by_user_id of each
    staff,   \* who has a grant with the role STAFF
    let      \* history: who became staff by each invite

inviteVars == <<invite, staff, let>>

Invite == [state : {"none", "open"}] \cup [state : {"redeemed"}, by : Helpers]
InviteDoing == [pc : {"mark", "grant"}, user : Helpers, invite : Invites]

InvitesTypeOK ==
    /\ invite \in [Invites -> Invite]
    /\ staff \subseteq Helpers
    /\ let \in [Invites -> SUBSET Helpers]
    /\ req \in [Requests -> InviteDoing \cup {Idle}]

InvitesInit ==
    /\ HandlersInit
    /\ invite = [i \in Invites |-> [state |-> "none"]]
    /\ staff = {}
    /\ let = [i \in Invites |-> {}]

-----------------------------------------------------------------------------
MintInvite(i) ==
    /\ invite[i].state = "none"
    /\ invite' = [invite EXCEPT ![i] = [state |-> "open"]]
    /\ UNCHANGED <<staff, let, req>>

\* In orderly behaviours one token is redeemed at a time, and no request dies.
RedeemAny(r, u, i) ==
    /\ At(r, "idle")
    /\ orderly => \A q \in Requests : At(q, "idle")
    /\ invite[i].state # "none"
    /\ Become(r, [pc |-> "mark", user |-> u, invite |-> i])
    /\ UNCHANGED inviteVars

RedeemOpen(r, u, i) == invite[i].state = "open" /\ RedeemAny(r, u, i)

MarkRedeemed(r) ==
    /\ At(r, "mark")
    /\ invite' = [invite EXCEPT ![req[r].invite] = [state |-> "redeemed", by |-> req[r].user]]
    /\ Goto(r, "grant")
    /\ UNCHANGED <<staff, let>>

GrantStaff(r) ==
    /\ At(r, "grant")
    /\ staff' = staff \cup {req[r].user}
    /\ let' = [let EXCEPT ![req[r].invite] = @ \cup {req[r].user}]
    /\ Finish(r)
    /\ UNCHANGED invite

CutOffInvite(r) ==
    /\ ~At(r, "idle") /\ ~orderly
    /\ Finish(r)
    /\ UNCHANGED inviteVars

InviteStep(r) ==
    \/ \E u \in Helpers, i \in Invites : RedeemOpen(r, u, i)
    \/ MarkRedeemed(r) \/ GrantStaff(r) \/ CutOffInvite(r)

InvitesNext ==
    /\ (\E r \in Requests : InviteStep(r)) \/ (\E i \in Invites : MintInvite(i))
    /\ UNCHANGED orderly

InvitesSpec == InvitesInit /\ [][InvitesNext]_<<invite, staff, let, req, orderly>>

-----------------------------------------------------------------------------
(* Properties.                                                             *)

(* An invitation lets in one person, or as many as redeem it side by side. *)
(* (The check of redeemed_at, and the mark before the grant.)              *)
InviteBound ==
    \A i \in Invites :
        Cardinality(let[i]) <= IF orderly THEN 1 ELSE Cardinality(Requests)

(* When tokens are redeemed one at a time and no request dies, the tokens  *)
(* say at rest who is on the staff because of them, no more and no fewer.  *)
(* (The two writes of redeeming.)                                          *)
RedeemerIsStaff ==
    orderly /\ AtSome({"mark", "grant"}) = {} =>
        staff = {u \in Helpers : [state |-> "redeemed", by |-> u] \in {invite[i] : i \in Invites}}
=============================================================================
