---------------------------- MODULE OrgOwnership ----------------------------
(***************************************************************************)
(* Who owns an organization (lib/org-claim.ts, routes/organizations.ts):   *)
(* the owner, or the site's staff, mint a claim; whoever redeems it        *)
(* becomes the owner, provided the owner of today minted it, and the old   *)
(* owner's membership ends.  Members join, leave and are given roles.      *)
(*                                                                         *)
(* Redeeming reads the claim and the organization before its transaction   *)
(* begins; the transaction checks neither again.  It is one step here: its *)
(* first statement locks the organization, and a member who leaves or is   *)
(* given a role between two of its statements leaves the same rows behind  *)
(* as one who does so before or after it.  MODERATOR and STAFF may do what *)
(* MEMBER may.                                                             *)
(***************************************************************************)
EXTENDS Handlers

CONSTANTS
    Users,
    SiteStaff,  \* users who administer the site
    Claims      \* rows of organization_claim_tokens

ASSUME OwnershipAssumption == SiteStaff \subseteq Users

VARIABLES
    owner,  \* organizations.owner_id
    role,   \* organization_members: a user has at most one row
    claim   \* the claims, and who minted each

orgVars == <<owner, role, claim>>

Roles == {"none", "MEMBER", "ADMIN", "OWNER"}
Claim == [state : {"none"}] \cup [state : {"open", "spent"}, by : Users]

OrgDoing ==
    [pc : {"mint", "join", "leave"}, user : Users]
    \cup [pc : {"readOrg", "spend"}, user : Users, claim : Claims]
    \cup [pc : {"transfer"}, user : Users, claim : Claims, from : Users]
    \cup [pc : {"role"}, user : Users, to : Roles]

OrgTypeOK ==
    /\ owner \in Users
    /\ role \in [Users -> Roles]
    /\ claim \in [Claims -> Claim]
    /\ req \in [Requests -> OrgDoing \cup {Idle}]

\* POST /organizations makes the founder a member.
OrgInit ==
    /\ HandlersInit
    /\ owner \in Users
    /\ role = [u \in Users |-> IF u = owner THEN "OWNER" ELSE "none"]
    /\ claim = [c \in Claims |-> [state |-> "none"]]

-----------------------------------------------------------------------------
Open(c) == claim[c].state = "open"

\* In orderly behaviours nobody redeems a claim while somebody else redeems
\* one, leaves, or changes a role.
Redeeming == AtSome({"readOrg", "transfer", "spend"})
Leaving == AtSome({"leave", "role"})
MayRedeem == orderly => Redeeming \cup Leaving = {}
MayLeave == orderly => Redeeming = {}

-----------------------------------------------------------------------------
(* POST /organizations/:orgKey/claim-tokens                                *)

Mint(r, u) ==
    /\ At(r, "idle")
    /\ u \in {owner} \cup SiteStaff
    /\ Become(r, [pc |-> "mint", user |-> u])
    /\ UNCHANGED orgVars

InsertClaim(r) ==
    /\ At(r, "mint")
    /\ \E c \in Claims :
          /\ claim[c].state = "none"
          /\ claim' = [claim EXCEPT ![c] = [state |-> "open", by |-> req[r].user]]
    /\ Finish(r)
    /\ UNCHANGED <<owner, role>>

ClaimExpires(c) ==
    /\ Open(c)
    /\ claim' = [claim EXCEPT ![c].state = "spent"]
    /\ UNCHANGED <<owner, role, req>>

-----------------------------------------------------------------------------
(* redeemOrganizationClaimToken                                            *)

Redeem(r, u) ==
    /\ At(r, "idle") /\ MayRedeem
    /\ \E c \in Claims : Open(c) /\ Become(r, [pc |-> "readOrg", user |-> u, claim |-> c])
    /\ UNCHANGED orgVars

Proceed(r) ==
    LET q == req[r] IN
    Become(r, IF q.user = owner
              THEN [pc |-> "spend", user |-> q.user, claim |-> q.claim]
              ELSE [pc |-> "transfer", user |-> q.user, claim |-> q.claim, from |-> owner])

\* Mutant: who minted the claim does not matter.
ReadAnyOrg(r) ==
    /\ At(r, "readOrg")
    /\ Proceed(r)
    /\ UNCHANGED orgVars

\* The claim of somebody who does not own the organization is refused.
ReadOrg(r) ==
    /\ At(r, "readOrg")
    /\ IF claim[req[r].claim].by = owner THEN Proceed(r) ELSE Finish(r)
    /\ UNCHANGED orgVars

SpendClaim(c) == claim' = [claim EXCEPT ![c].state = "spent"]

\* The owner has redeemed a claim of their own.
SpendOnly(r) ==
    /\ At(r, "spend")
    /\ SpendClaim(req[r].claim)
    /\ Finish(r)
    /\ UNCHANGED <<owner, role>>

\* Mutant: the old owner stays a member.
TransferAndKeep(r) ==
    /\ At(r, "transfer")
    /\ owner' = req[r].user
    /\ role' = [role EXCEPT ![req[r].user] = "OWNER"]
    /\ SpendClaim(req[r].claim)
    /\ Finish(r)

Transfer(r) ==
    /\ At(r, "transfer")
    /\ owner' = req[r].user
    /\ role' = [role EXCEPT ![req[r].user] = "OWNER", ![req[r].from] = "none"]
    /\ SpendClaim(req[r].claim)
    /\ Finish(r)

-----------------------------------------------------------------------------
(* Members.                                                                *)

JoinOrg(r, u) ==
    /\ At(r, "idle")
    /\ role[u] = "none"
    /\ Become(r, [pc |-> "join", user |-> u])
    /\ UNCHANGED orgVars

\* Mutant: a role of groups, in lower case.
InsertLowerCase(r) ==
    /\ At(r, "join")
    /\ role' = [role EXCEPT ![req[r].user] = IF @ = "none" THEN "member" ELSE @]
    /\ Finish(r)
    /\ UNCHANGED <<owner, claim>>

\* The unique index refuses a second row.
InsertMember(r) ==
    /\ At(r, "join")
    /\ role' = [role EXCEPT ![req[r].user] = IF @ = "none" THEN "MEMBER" ELSE @]
    /\ Finish(r)
    /\ UNCHANGED <<owner, claim>>

LeaveOrg(r, u) ==
    /\ At(r, "idle") /\ MayLeave
    /\ role[u] \notin {"none", "OWNER"}
    /\ Become(r, [pc |-> "leave", user |-> u])
    /\ UNCHANGED orgVars

DeleteMember(r) ==
    /\ At(r, "leave")
    /\ role' = [role EXCEPT ![req[r].user] = "none"]
    /\ Finish(r)
    /\ UNCHANGED <<owner, claim>>

\* The owner and the admins may, which is always somebody.
PatchRole(r, u) ==
    /\ At(r, "idle") /\ MayLeave
    /\ role[u] \notin {"none", "OWNER"}
    /\ \E to \in {"MEMBER", "ADMIN"} : Become(r, [pc |-> "role", user |-> u, to |-> to])
    /\ UNCHANGED orgVars

UpdateRole(r) ==
    /\ At(r, "role")
    /\ role' = [role EXCEPT ![req[r].user] = IF @ = "none" THEN @ ELSE req[r].to]
    /\ Finish(r)
    /\ UNCHANGED <<owner, claim>>

CutOffOrg(r) ==
    /\ ~At(r, "idle")
    /\ Finish(r)
    /\ UNCHANGED orgVars

OrgBegin(r, u) == Mint(r, u) \/ Redeem(r, u) \/ JoinOrg(r, u) \/ LeaveOrg(r, u) \/ PatchRole(r, u)

OrgContinue(r) ==
    \/ InsertClaim(r) \/ ReadOrg(r) \/ SpendOnly(r) \/ Transfer(r)
    \/ InsertMember(r) \/ DeleteMember(r) \/ UpdateRole(r) \/ CutOffOrg(r)

OrgNext ==
    /\ \/ \E r \in Requests : (\E u \in Users : OrgBegin(r, u)) \/ OrgContinue(r)
       \/ \E c \in Claims : ClaimExpires(c)
    /\ UNCHANGED orderly

OrgSpec == OrgInit /\ [][OrgNext]_<<owner, role, claim, req, orderly>>

-----------------------------------------------------------------------------
(* Properties.                                                             *)

(* While claims are redeemed apart from each other, from departures and    *)
(* from changes of roles, exactly one member is the OWNER, and it is the   *)
(* user the organization belongs to.  (Redeem, leave and the role patch,   *)
(* each of which trusts what it read.)                                     *)
SoleOwner == orderly => {u \in Users : role[u] = "OWNER"} = {owner}

(* Under the same proviso the organization changes hands only by a claim   *)
(* that its owner of that moment had minted: one of an earlier owner is    *)
(* worth nothing, however long it stays open and whoever was in the middle *)
(* of redeeming it.  (The comparison with created_by_user_id, made before  *)
(* the transaction.)                                                       *)
OwnerGivesAway ==
    [][orderly /\ owner' # owner =>
          \E r \in AtSome({"transfer"}) :
              req[r].user = owner' /\ claim[req[r].claim].by = owner]_owner
=============================================================================
