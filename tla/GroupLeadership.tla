-------------------------- MODULE GroupLeadership ---------------------------
(***************************************************************************)
(* The members of a group and its owner (routes/ecosystem-stubs.ts), and   *)
(* the election held when the owner has long been absent: a sweep opens it *)
(* (lib/lifecycle-sweep.ts), members vote, and a moderator of the platform *)
(* makes a member the owner (routes/group-leadership-routes.ts).           *)
(*                                                                         *)
(* The list of members has no unique index, so that joining twice at once  *)
(* makes two rows.  The reads of a handler, which come before its one      *)
(* write, are one step; so is the transaction that finalizes an election.  *)
(* Whom a vote is for decides nothing, and is left out.  The roles below   *)
(* admin are one, "member".  Groups that are disbanded are left out.       *)
(***************************************************************************)
EXTENDS Handlers

CONSTANTS
    People,
    Rows,    \* ids of rows of group_members
    OwnRow   \* the id of the row of the first owner

VARIABLES
    leader,   \* groups.owner_id
    member,   \* the rows of group_members
    election, \* groups.leadership_vote_open and owner_absent_marked_at
    votes     \* who voted: one row for each voter

groupVars == <<leader, member, election, votes>>

GroupRoles == {"owner", "admin", "member"}
Member == [id : Rows \cup {OwnRow}, user : People, role : GroupRoles]

GroupDoing ==
    [pc : {"join", "leave", "vote"}, user : People]
    \cup [pc : {"finalize"}, user : People, from : People]
    \cup [pc : {"patch"}, id : Rows \cup {OwnRow}, to : GroupRoles]

GroupTypeOK ==
    /\ leader \in People
    /\ member \subseteq Member
    /\ election \in {"never", "open", "closed"}
    /\ votes \subseteq People
    /\ req \in [Requests -> GroupDoing \cup {Idle}]

\* POST /groups inserts the owner's row.
GroupInit ==
    /\ HandlersInit
    /\ leader \in People
    /\ member = {[id |-> OwnRow, user |-> leader, role |-> "owner"]}
    /\ election = "never"
    /\ votes = {}

-----------------------------------------------------------------------------
RowsOf(u) == {m \in member : m.user = u}
IsMember(u) == RowsOf(u) # {}

\* In orderly behaviours nobody leaves or votes while an election is finalized.
GroupMayFinalize == orderly => AtSome({"leave", "vote"}) = {}
NotFinalizing == orderly => AtSome({"finalize"}) = {}

SetRole(u, role) ==
    {IF m.user = u THEN [m EXCEPT !.role = role] ELSE m : m \in member}

BeginForUser(r, pc, u) ==
    /\ At(r, "idle")
    /\ Become(r, [pc |-> pc, user |-> u])
    /\ UNCHANGED groupVars

-----------------------------------------------------------------------------
(* Joining, leaving and giving roles.                                      *)

\* Mutant: whether they are a member already is not looked up.
JoinAgain(r, u) == BeginForUser(r, "join", u)

JoinGroup(r, u) == ~IsMember(u) /\ BeginForUser(r, "join", u)

InsertRow(r) ==
    /\ At(r, "join")
    /\ \E i \in Rows \ {m.id : m \in member} :
          member' = member \cup {[id |-> i, user |-> req[r].user, role |-> "member"]}
    /\ Finish(r)
    /\ UNCHANGED <<leader, election, votes>>

\* Mutant: only the role is looked at.
LeaveByRole(r, u) ==
    /\ NotFinalizing
    /\ \E m \in RowsOf(u) : m.role # "owner"
    /\ BeginForUser(r, "leave", u)

\* One of the user's rows is read.
LeaveGroup(r, u) ==
    /\ NotFinalizing
    /\ \E m \in RowsOf(u) : m.role # "owner" /\ u # leader
    /\ BeginForUser(r, "leave", u)

DeleteRows(r) ==
    /\ At(r, "leave")
    /\ member' = member \ RowsOf(req[r].user)
    /\ Finish(r)
    /\ UNCHANGED <<leader, election, votes>>

\* The owner and the admins may, which is always somebody.
PatchMember(r, m, to) ==
    /\ At(r, "idle")
    /\ Become(r, [pc |-> "patch", id |-> m.id, to |-> to])
    /\ UNCHANGED groupVars

UpdateRow(r) ==
    /\ At(r, "patch")
    /\ member' = {IF m.id = req[r].id THEN [m EXCEPT !.role = req[r].to] ELSE m : m \in member}
    /\ Finish(r)
    /\ UNCHANGED <<leader, election, votes>>

-----------------------------------------------------------------------------
(* The election.                                                           *)

\* One worker sweeps, and marks a group once.
Sweep ==
    /\ election = "never"
    /\ election' = "open"
    /\ UNCHANGED <<leader, member, votes, req>>

Vote(r, u) ==
    /\ NotFinalizing
    /\ election = "open" /\ IsMember(u)
    /\ BeginForUser(r, "vote", u)

UpsertVote(r) ==
    /\ At(r, "vote")
    /\ votes' = votes \cup {req[r].user}
    /\ Finish(r)
    /\ UNCHANGED <<leader, member, election>>

ChooseWinner(r, u) ==
    /\ At(r, "idle") /\ GroupMayFinalize
    /\ election = "open" /\ IsMember(u)
    /\ Become(r, [pc |-> "finalize", user |-> u, from |-> leader])
    /\ UNCHANGED groupVars

FinalizeElection(r) ==
    /\ At(r, "finalize")
    /\ leader' = req[r].user
    /\ election' = "closed"
    /\ member' = IF req[r].from = req[r].user THEN member
                 ELSE {IF m.user = req[r].user THEN [m EXCEPT !.role = "owner"] ELSE m :
                          m \in SetRole(req[r].from, "admin")}
    /\ votes' = {}
    /\ Finish(r)

CutOffGroup(r) ==
    /\ ~At(r, "idle")
    /\ Finish(r)
    /\ UNCHANGED groupVars

GroupBegin(r, u) ==
    JoinGroup(r, u) \/ LeaveGroup(r, u) \/ Vote(r, u) \/ ChooseWinner(r, u)

GroupContinue(r) ==
    \/ InsertRow(r) \/ DeleteRows(r) \/ UpdateRow(r)
    \/ UpsertVote(r) \/ FinalizeElection(r) \/ CutOffGroup(r)

GroupNext ==
    /\ \/ \E r \in Requests :
             \/ \E u \in People : GroupBegin(r, u)
             \/ \E m \in member, to \in GroupRoles : PatchMember(r, m, to)
             \/ GroupContinue(r)
       \/ Sweep
    /\ UNCHANGED orderly

GroupSpec == GroupInit /\ [][GroupNext]_<<leader, member, election, votes, req, orderly>>

-----------------------------------------------------------------------------
(* Properties.                                                             *)

(* A member never has more rows than there were requests side by side: the *)
(* next request finds one of them, and leaving deletes them all.  (The     *)
(* query before the insert of POST join, the delete of POST leave.)        *)
RowsBound == \A u \in People : Cardinality(RowsOf(u)) <= Cardinality(Requests)

(* While nobody leaves in the middle of an election being finalized, the   *)
(* owner has a row, whatever roles the admins gave to whom, and however    *)
(* many finalize at once.  (POST leave, which looks at owner_id as well as *)
(* the role; the winner's row, checked before the transaction.)            *)
LeaderBelongs == orderly => IsMember(leader)

(* While nobody votes in the middle of it either, no vote is left behind   *)
(* by the election it was cast in.  (The last delete of the finalizing     *)
(* transaction.)                                                           *)
VotesBelong == orderly /\ votes # {} => election = "open"
=============================================================================
