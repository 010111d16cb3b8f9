------------------------------ MODULE EventRsvp ------------------------------
(***************************************************************************)
(* Event RSVPs, the capacity of an event, its waitlist, and the cached     *)
(* count of people going.                                                  *)
(*                                                                         *)
(*   PUT   /api/v1/events/:eventId/rsvp           (routes/ecosystem-stubs) *)
(*   PATCH /api/v1/events/:eventId/rsvp-approval  (routes/ecosystem-stubs) *)
(*   PATCH /api/v1/events/:eventId                (routes/ecosystem-stubs) *)
(*   lib/event-rsvp-helpers.ts, which the first two share                  *)
(*                                                                         *)
(* No handler opens a transaction: each awaited query is a Postgres        *)
(* statement of its own, and any other request may run in between.  So a   *)
(* request is a small state machine (req) whose steps are the queries of   *)
(* the handler, carrying the values the earlier queries returned.          *)
(*                                                                         *)
(* One event is modelled.  Left out, because no later query depends on     *)
(* them: authentication, the screening question (a missing answer ends the *)
(* request before it writes anything), notifications, e-mails, the         *)
(* activity feed and the final read of rsvp_count for the reply.  Rows     *)
(* that Stripe webhooks insert are not part of this module.                *)
(***************************************************************************)
EXTENDS Naturals, FiniteSets

CONSTANTS
    Users,        \* people who may RSVP
    Clients,      \* browser tabs, each of which has one request at a time
    UserOf,       \* whose tab it is
    Moderators,   \* sessions of the host and the org moderators
    Settings,     \* the [cap, gated, open] an event of this instance may have
    MaxInFlight,  \* how many requests the API interleaves
    MaxRows,      \* how many RSVP rows are ever inserted (bounds row ids)
    Failures      \* whether a handler may die between two queries

Actors == Clients \cup Moderators

ASSUME RsvpAssumption ==
    /\ IsFiniteSet(Users) /\ IsFiniteSet(Actors)
    /\ UserOf \in [Clients -> Users]
    /\ Clients \cap Moderators = {}
    /\ Settings \subseteq [cap : Nat, gated : BOOLEAN, open : BOOLEAN]
    /\ MaxInFlight \in Nat \ {0}
    /\ MaxRows \in Nat
    /\ Failures \in BOOLEAN

VARIABLES
    event,      \* capacityMax (0: none), locationVisibility = 'approved', rsvpOpen
    rows,       \* event_rsvps, at most one row per user (unique index)
    lastId,     \* ids grow in insertion order, so they stand for createdAt too
    rsvpCount,  \* events.rsvp_count, the cached number of committed rows
    req         \* the request each actor has in flight, or Idle

vars == <<event, rows, lastId, rsvpCount, req>>

Statuses  == {"going", "maybe", "waitlist"}
Approvals == {"not_required", "pending", "approved"}

NoRow == [status |-> "none", approval |-> "not_required", id |-> 0]
Row == [status : Statuses, approval : Approvals, id : Nat \ {0}] \cup {NoRow}

\* committedGoingCondition, and isCommittedGoing in the RSVP handler.
Holds(row) == row.status = "going" /\ row.approval \in {"not_required", "approved"}

Committed == {u \in Users : Holds(rows[u])}
Waitlist  == {u \in Users : rows[u].status = "waitlist"}

Wishes    == {"going", "maybe", "not_going"}
Decisions == {"approve", "reject"}
Steps == {"idle", "readRow", "count", "write", "delete", "approve", "promoteEvent",
          "promotePick", "promoteWrite", "refreshCount", "refreshWrite"}

NoEvent == [cap |-> 0, gated |-> FALSE, open |-> FALSE]

Request == [pc        : Steps,
            want      : Wishes \cup Decisions \cup {"none"},
            user      : Users \cup {"none"},
            ev        : Settings \cup {NoEvent}, \* the event as last read
            seen      : Row,                     \* the user's row as read
            status    : Statuses \cup {"none"},  \* what will be written
            approval  : Approvals,
            n         : Nat,                     \* a row id or a count as read
            refreshes : 0..2]                    \* refreshEventRsvpCount calls to make

Idle == [pc |-> "idle", want |-> "none", user |-> "none", ev |-> NoEvent, seen |-> NoRow,
         status |-> "none", approval |-> "not_required", n |-> 0, refreshes |-> 0]

InFlight == {a \in Actors : req[a].pc # "idle"}

NeedsEvent == {"readRow", "count", "promotePick", "promoteWrite"}

TypeOK ==
    /\ event \in Settings
    /\ rows \in [Users -> Row]
    /\ lastId \in Nat
    /\ rsvpCount \in Nat
    /\ req \in [Actors -> Request]
    /\ \A a \in InFlight : req[a].user \in Users
    /\ \A a \in Actors : req[a].pc \in NeedsEvent => req[a].ev \in Settings
    /\ \A a \in Actors : req[a].pc = "write" => req[a].status \in Statuses
    /\ \A a \in Actors : req[a].pc = "promoteWrite" => req[a].n # 0

Init ==
    /\ event \in Settings
    /\ rows = [u \in Users |-> NoRow]
    /\ lastId = 0
    /\ rsvpCount = 0
    /\ req = [a \in Actors |-> Idle]

-----------------------------------------------------------------------------
(* Steps of a request.                                                     *)

At(a, pc) == req[a].pc = pc
Goto(a, r) == req' = [req EXCEPT ![a] = r]
Finish(a) == Goto(a, Idle)

Begin(a, want, user) ==
    /\ At(a, "idle")
    /\ Cardinality(InFlight) < MaxInFlight
    /\ want \in {"going", "maybe"} => lastId + Cardinality(InFlight) < MaxRows
    /\ Goto(a, [Idle EXCEPT !.pc = "readRow", !.want = want, !.user = user, !.ev = event])
    /\ UNCHANGED <<event, rows, lastId, rsvpCount>>

\* PUT rsvp: the event is read first.
BeginRsvp(c) == \E want \in Wishes : Begin(c, want, UserOf[c])

\* PATCH rsvp-approval: the same read, for the user the host picked.
BeginApproval(m) == \E want \in Decisions, user \in Users : Begin(m, want, user)

\* Mutant: 'going' skips the capacity decision.
AfterReadUndecided(want) == IF want \in {"going", "maybe"} THEN "write" ELSE "delete"

\* The handler's next query once it knows the user's row.
AfterRead(want) ==
    IF want \in {"going", "approve"} THEN "count"
    ELSE IF want = "maybe" THEN "write" ELSE "delete"

Refused(r, row) ==
    \/ r.want \in {"going", "maybe"} /\ ~r.ev.open
    \/ r.want \in Decisions /\ ~(row.status = "going" /\ row.approval = "pending")

ReadRow(a) ==
    /\ At(a, "readRow")
    /\ LET r == req[a]  row == rows[r.user] IN
       \/ Refused(r, row) /\ Finish(a)
       \/ /\ ~Refused(r, row)
          /\ Goto(a, [r EXCEPT !.pc = AfterRead(r.want), !.seen = row,
                               !.status = IF r.want = "maybe" THEN "maybe" ELSE @])
    /\ UNCHANGED <<event, rows, lastId, rsvpCount>>

\* Mutant: one seat too many.
FullOffByOne(ev, seen, n) ==
    ev.cap > 0 /\ (IF Holds(seen) THEN n - 1 ELSE n) > ev.cap

\* committed >= cap, the requester's own seat not counted against them.
Full(ev, seen, n) ==
    ev.cap > 0 /\ (IF Holds(seen) THEN n - 1 ELSE n) >= ev.cap

\* 'going': count the seats taken and decide between a seat and the waitlist.
CountForRsvp(c) ==
    /\ At(c, "count") /\ req[c].want = "going"
    /\ LET r == req[c]
           full == Full(r.ev, r.seen, Cardinality(Committed))
       IN  Goto(c, [r EXCEPT !.pc = "write",
                             !.status = IF full THEN "waitlist" ELSE "going",
                             !.approval = IF ~full /\ r.ev.gated THEN "pending"
                                                                 ELSE "not_required"])
    /\ UNCHANGED <<event, rows, lastId, rsvpCount>>

\* Past its own write, a handler forgets what it read and has calls left to make:
\* promoteNextWaitlist (which refreshes too when it finds someone), then the refresh.
ThenPromote(r) == [Idle EXCEPT !.pc = "promoteEvent", !.user = r.user]
ThenRefresh(r, calls) ==
    [Idle EXCEPT !.pc = "refreshCount", !.user = r.user, !.refreshes = calls]

\* Mutant: a seat given up by 'maybe' promotes nobody.
AfterWriteNoPromotion(r) == ThenRefresh(r, 1)

\* A 'maybe' that gives up a seat promotes someone.
AfterWrite(r) ==
    IF r.want = "maybe" /\ Holds(r.seen) THEN ThenPromote(r) ELSE ThenRefresh(r, 1)

\* Update by the id that was read: no row if that one is gone.
WriteExisting(c) ==
    /\ At(c, "write") /\ req[c].seen # NoRow
    /\ LET r == req[c] IN
       /\ rows' = IF rows[r.user].id = r.seen.id
                  THEN [rows EXCEPT ![r.user].status = r.status,
                                    ![r.user].approval = r.approval]
                  ELSE rows
       /\ Goto(c, AfterWrite(r))
    /\ UNCHANGED <<event, lastId, rsvpCount>>

\* Insert; the unique index fails the request if the user got a row meanwhile.
WriteNew(c) ==
    /\ At(c, "write") /\ req[c].seen = NoRow
    /\ LET r == req[c] IN
       \/ /\ rows[r.user] # NoRow
          /\ Finish(c)
          /\ UNCHANGED <<rows, lastId>>
       \/ /\ rows[r.user] = NoRow
          /\ lastId' = lastId + 1
          /\ rows' = [rows EXCEPT ![r.user] =
                        [status |-> r.status, approval |-> r.approval, id |-> lastId + 1]]
          /\ Goto(c, AfterWrite(r))
    /\ UNCHANGED <<event, rsvpCount>>

\* Mutant: the delete forgets the user.
DeleteByEvent(a) ==
    /\ At(a, "delete")
    /\ rows' = [u \in Users |-> NoRow]
    /\ Goto(a, ThenRefresh(req[a], 1))
    /\ UNCHANGED <<event, lastId, rsvpCount>>

\* Delete by (event, user).  'not_going' promotes when the row read held a seat,
\* a rejection always does.
Delete(a) ==
    /\ At(a, "delete")
    /\ LET r == req[a] IN
       /\ rows' = [rows EXCEPT ![r.user] = NoRow]
       /\ Goto(a, IF r.want = "reject" \/ Holds(r.seen) THEN ThenPromote(r)
                                                        ELSE ThenRefresh(r, 1))
    /\ UNCHANGED <<event, lastId, rsvpCount>>

\* Approval counts the seats, and is refused when none is left...
CountForApproval(m) ==
    /\ At(m, "count") /\ req[m].want = "approve"
    /\ LET r == req[m] IN
       IF r.ev.cap > 0 /\ Cardinality(Committed) >= r.ev.cap
       THEN Finish(m)
       ELSE Goto(m, [r EXCEPT !.pc = "approve"])
    /\ UNCHANGED <<event, rows, lastId, rsvpCount>>

\* ...then updates by (event, user), whatever the row has become.
Approve(m) ==
    /\ At(m, "approve")
    /\ LET r == req[m] IN
       /\ rows' = IF rows[r.user] = NoRow THEN rows
                  ELSE [rows EXCEPT ![r.user].approval = "approved"]
       /\ Goto(m, ThenRefresh(r, 1))
    /\ UNCHANGED <<event, lastId, rsvpCount>>

-----------------------------------------------------------------------------
(* promoteNextWaitlist and refreshEventRsvpCount.                          *)

PromoteReadEvent(a) ==
    /\ At(a, "promoteEvent")
    /\ Goto(a, [req[a] EXCEPT !.pc = "promotePick", !.ev = event])
    /\ UNCHANGED <<event, rows, lastId, rsvpCount>>

OldestWaiting(u) ==
    u \in Waitlist /\ \A v \in Waitlist : rows[u].id <= rows[v].id

PromotePick(a) ==
    /\ At(a, "promotePick")
    /\ \/ /\ Waitlist = {}
          /\ Goto(a, ThenRefresh(req[a], 1))
       \/ \E u \in Users :
             /\ OldestWaiting(u)
             /\ Goto(a, [req[a] EXCEPT !.pc = "promoteWrite", !.n = rows[u].id])
    /\ UNCHANGED <<event, rows, lastId, rsvpCount>>

\* Mutant: a promotion on a gated event is not marked approved.
PromotedOpen(row, ev) ==
    [row EXCEPT !.status = "going", !.approval = "not_required"]

\* What the promotion writes into a row.
Promoted(row, ev) ==
    [row EXCEPT !.status = "going",
                !.approval = IF ev.gated THEN "approved" ELSE "not_required"]

\* Update by the id that was picked, whatever status that row has by now.
PromoteWrite(a) ==
    /\ At(a, "promoteWrite")
    /\ LET r == req[a] IN
       /\ rows' = [u \in Users |-> IF rows[u].id = r.n THEN Promoted(rows[u], r.ev)
                                                       ELSE rows[u]]
       /\ Goto(a, ThenRefresh(r, 2))
    /\ UNCHANGED <<event, lastId, rsvpCount>>

\* Mutant: the cached count takes in everyone with a row.
RefreshCountAll(a) ==
    /\ At(a, "refreshCount")
    /\ Goto(a, [req[a] EXCEPT !.pc = "refreshWrite",
                              !.n = Cardinality({u \in Users : rows[u] # NoRow})])
    /\ UNCHANGED <<event, rows, lastId, rsvpCount>>

RefreshCount(a) ==
    /\ At(a, "refreshCount")
    /\ Goto(a, [req[a] EXCEPT !.pc = "refreshWrite", !.n = Cardinality(Committed)])
    /\ UNCHANGED <<event, rows, lastId, rsvpCount>>

RefreshWrite(a) ==
    /\ At(a, "refreshWrite")
    /\ LET r == req[a] IN
       /\ rsvpCount' = r.n
       /\ IF r.refreshes = 2
          THEN Goto(a, ThenRefresh(r, 1))
          ELSE Finish(a)
    /\ UNCHANGED <<event, rows, lastId>>

-----------------------------------------------------------------------------
(* The host edits the event; a handler dies (a lost connection, a restart). *)

PatchEvent ==
    /\ event' \in Settings \ {event}
    /\ UNCHANGED <<rows, lastId, rsvpCount, req>>

Die(a) ==
    /\ Failures
    /\ a \in InFlight
    /\ Finish(a)
    /\ UNCHANGED <<event, rows, lastId, rsvpCount>>

ClientStep(c) ==
    BeginRsvp(c) \/ CountForRsvp(c) \/ WriteExisting(c) \/ WriteNew(c)

ModeratorStep(m) ==
    BeginApproval(m) \/ CountForApproval(m) \/ Approve(m)

SharedStep(a) ==
    \/ ReadRow(a) \/ Delete(a)
    \/ PromoteReadEvent(a) \/ PromotePick(a) \/ PromoteWrite(a)
    \/ RefreshCount(a) \/ RefreshWrite(a)
    \/ Die(a)

Next ==
    \/ \E c \in Clients : ClientStep(c)
    \/ \E m \in Moderators : ModeratorStep(m)
    \/ \E a \in Actors : SharedStep(a)
    \/ PatchEvent

Spec == Init /\ [][Next]_vars

-----------------------------------------------------------------------------
(* Properties.                                                             *)

Ungated == \A s \in Settings : ~s.gated
AlwaysGated == \A s \in Settings : s.gated
OneTabPerUser == \A c, d \in Clients : UserOf[c] = UserOf[d] => c = d
CapAtMost(n) == \A s \in Settings : s.cap \in 1..n

(* On an event without host approval, concurrent requests may overbook it, *)
(* but only by the requests that count the seats before the others write:  *)
(* the seats taken never exceed the capacity by as much as the number of   *)
(* interleaved requests.  In particular requests handled one at a time     *)
(* never overbook.  (The count and the write in the RSVP handler, and the  *)
(* promotion that follows a freed seat.)                                   *)
OverbookBound ==
    \A n \in {s.cap : s \in Settings} :
        Ungated /\ OneTabPerUser /\ CapAtMost(n) =>
            Cardinality(Committed) <= n + MaxInFlight - 1

(* Nobody loses a seat but by a request about them: their own RSVP, or a   *)
(* moderator's rejection.  Promotions, refreshes and requests of other     *)
(* users, blind updates included, take no seat away.                       *)
SeatLossIsDecided ==
    [][\A u \in Users : Holds(rows[u]) /\ ~Holds(rows'[u]) =>
          \E a \in Actors : req[a].user = u /\ req'[a] # req[a]]_vars

(* On an event whose location is for approved guests only, a seat is only  *)
(* ever held with the host's approval or by promotion, which approves; the *)
(* full address follows rsvpApprovalStatus (physical-location-visibility). *)
GatedSeatsAreApproved ==
    AlwaysGated =>
        \A u \in Users : rows[u].status = "going" => rows[u].approval # "not_required"

(* The capacity is kept: committed going is capped, overflow goes to the   *)
(* waitlist (capacityMax in db/schema.ts).  True when requests are handled *)
(* one at a time and no host approval is involved.                         *)
WithinCapacity == event.cap > 0 => Cardinality(Committed) <= event.cap

AtRest == InFlight = {}

(* Handled one at a time, a long sequence of RSVPs leaves the cached       *)
(* rsvp_count equal to the committed rows (refreshEventRsvpCount).         *)
CountExactAtRest == AtRest => rsvpCount = Cardinality(Committed)

(* ... and nobody waiting while a seat is free: every way of giving up a   *)
(* seat promotes, and only a full event puts people on the waitlist.       *)
NoSeatIdleAtRest ==
    AtRest /\ Waitlist # {} => Cardinality(Committed) >= event.cap
=============================================================================
