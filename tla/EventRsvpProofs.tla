--------------------------- MODULE EventRsvpProofs ---------------------------
(* Proofs about EventRsvp, for any number of users, tabs, moderators,       *)
(* settings and interleaved requests.                                       *)
EXTENDS EventRsvp, FiniteSetTheorems, TLAPS

USE RsvpAssumption

(* The cached number is a number: the committed rows are finitely many.     *)
LEMMA CommittedFinite == IsFiniteSet(Committed) /\ Cardinality(Committed) \in Nat
<1>1. IsFiniteSet(Committed)
    BY FS_Subset, Committed \subseteq Users DEF Committed
<1> QED  BY <1>1, FS_CardinalityType

-----------------------------------------------------------------------------
(* Type correctness.                                                       *)

\* A well-typed request, with what its handler relies on at each step.
GoodReq(r) ==
    /\ r \in Request
    /\ r.pc # "idle" => r.user \in Users
    /\ r.pc \in NeedsEvent => r.ev \in Settings
    /\ r.pc = "write" => r.status \in Statuses
    /\ r.pc = "promoteWrite" => r.n # 0

\* Typed tables hold well-formed requests only.
LEMMA GoodRequests == TypeOK => \A a \in Actors : GoodReq(req[a])
    BY DEF TypeOK, GoodReq, InFlight

\* A step that keeps the tables typed and moves one request to a good one.
LEMMA OneMoves ==
    ASSUME TypeOK, NEW a \in Actors, NEW r, GoodReq(r), Goto(a, r),
           event' \in Settings, rows' \in [Users -> Row], lastId' \in Nat, rsvpCount' \in Nat
    PROVE  TypeOK'
<1>1. req' \in [Actors -> Request]
    BY DEF TypeOK, Goto, GoodReq
<1>2. \A b \in Actors : GoodReq(req'[b])
    BY GoodRequests DEF Goto, TypeOK
<1> QED  BY <1>1, <1>2 DEF TypeOK, GoodReq, InFlight

\* A step that moves one request leaves every other request as it was.
LEMMA Moved ==
    ASSUME TypeOK, NEW a \in Actors, NEW r, Goto(a, r)
    PROVE  req'[a] = r /\ \A b \in Actors \ {a} : req'[b] = req[b]
    BY DEF TypeOK, Goto

(* The fields of the records the steps build.                               *)
LEMMA Fields ==
    /\ Idle.pc = "idle" /\ Idle.approval = "not_required"
    /\ \A r : /\ ThenPromote(r).pc = "promoteEvent" /\ ThenPromote(r).user = r.user
              /\ ThenPromote(r).approval = "not_required"
    /\ \A r, calls : /\ ThenRefresh(r, calls).pc = "refreshCount"
                     /\ ThenRefresh(r, calls).user = r.user
                     /\ ThenRefresh(r, calls).approval = "not_required"
    BY DEF Idle, ThenPromote, ThenRefresh

\* What a request looks like when it has just read the event.
LEMMA StartedFields ==
    ASSUME NEW want, NEW user, NEW ev
    PROVE  LET q == [Idle EXCEPT !.pc = "readRow", !.want = want, !.user = user, !.ev = ev]
           IN  q.pc = "readRow" /\ q.want = want /\ q.user = user /\ q.approval = "not_required"
    BY DEF Idle

\* ... when it has read the user's row,
LEMMA ReadFields ==
    ASSUME NEW r \in Request, NEW pc, NEW seen, NEW s
    PROVE  LET q == [r EXCEPT !.pc = pc, !.seen = seen, !.status = s]
           IN  /\ q.pc = pc /\ q.seen = seen /\ q.status = s
               /\ q.want = r.want /\ q.user = r.user /\ q.approval = r.approval
    BY DEF Request

\* ... when it has decided between a seat and the waitlist,
LEMMA DecidedFields ==
    ASSUME NEW r \in Request, NEW pc, NEW s, NEW x
    PROVE  LET q == [r EXCEPT !.pc = pc, !.status = s, !.approval = x]
           IN  /\ q.pc = pc /\ q.status = s /\ q.approval = x
               /\ q.want = r.want /\ q.user = r.user /\ q.seen = r.seen
    BY DEF Request

\* ... and while it promotes.
LEMMA PromotionFields ==
    ASSUME NEW r \in Request, NEW pc, NEW ev, NEW n
    PROVE  /\ LET q == [r EXCEPT !.pc = pc, !.ev = ev]
              IN  q.pc = pc /\ q.user = r.user /\ q.approval = r.approval
           /\ LET q == [r EXCEPT !.pc = pc, !.n = n]
              IN  q.pc = pc /\ q.user = r.user /\ q.approval = r.approval
    BY DEF Request

\* Updating a row keeps its id.
LEMMA RowFields ==
    ASSUME NEW row \in Row, NEW s, NEW x
    PROVE  LET q == [row EXCEPT !.status = s, !.approval = x]
           IN  q.status = s /\ q.approval = x /\ q.id = row.id
    BY DEF Row, NoRow

\* An idle actor is well formed.
LEMMA GoodIdle == GoodReq(Idle)
    BY DEF GoodReq, Idle, Request, Row, NoRow, NoEvent, Steps, NeedsEvent, Approvals

\* What a handler becomes after its own write is well formed.
LEMMA GoodAfter ==
    ASSUME NEW r, GoodReq(r), r.pc # "idle"
    PROVE  /\ GoodReq(ThenPromote(r))
           /\ \A calls \in 1..2 : GoodReq(ThenRefresh(r, calls))
           /\ GoodReq(AfterWrite(r))
<1>0. Idle \in Request /\ r.user \in Users
    BY GoodIdle DEF GoodReq
<1>1. GoodReq(ThenPromote(r))
  <2>1. ThenPromote(r) \in Request
      BY <1>0 DEF ThenPromote, Request, Steps
  <2>2. ThenPromote(r).pc = "promoteEvent" /\ ThenPromote(r).user = r.user
      BY DEF ThenPromote, Idle
  <2> QED  BY <1>0, <2>1, <2>2 DEF GoodReq, NeedsEvent
<1>2. ASSUME NEW calls \in 1..2 PROVE GoodReq(ThenRefresh(r, calls))
  <2>1. ThenRefresh(r, calls) \in Request
      BY <1>0, calls \in 0..2 DEF ThenRefresh, Request, Steps
  <2>2. ThenRefresh(r, calls).pc = "refreshCount" /\ ThenRefresh(r, calls).user = r.user
      BY DEF ThenRefresh, Idle
  <2> QED  BY <1>0, <2>1, <2>2 DEF GoodReq, NeedsEvent
<1> QED  BY <1>1, <1>2 DEF AfterWrite

(* Every variable keeps its type through the steps of every handler.        *)
LEMMA TypeStep == TypeOK /\ [Next]_vars => TypeOK'
<1> SUFFICES ASSUME TypeOK, [Next]_vars PROVE TypeOK'
    OBVIOUS
<1> USE DEF At, Finish
<1>0. /\ event \in Settings /\ rows \in [Users -> Row] /\ lastId \in Nat /\ rsvpCount \in Nat
      /\ \A a \in Actors : GoodReq(req[a])
      /\ \A c \in Clients : c \in Actors /\ UserOf[c] \in Users
      /\ \A m \in Moderators : m \in Actors
    BY GoodRequests DEF TypeOK, Actors
<1>1. ASSUME NEW a \in Actors, NEW want \in Wishes \cup Decisions, NEW user \in Users,
             Begin(a, want, user)
      PROVE  TypeOK'
  <2>1. GoodReq([Idle EXCEPT !.pc = "readRow", !.want = want, !.user = user, !.ev = event])
      BY <1>0, GoodIdle DEF GoodReq, Request, Steps, NeedsEvent, Idle
  <2> QED  BY <1>0, <1>1, <2>1, OneMoves DEF Begin
<1>2. ASSUME NEW a \in Actors, ReadRow(a) PROVE TypeOK'
  <2>1. CASE Finish(a)
      BY <1>0, <1>2, <2>1, GoodIdle, OneMoves DEF ReadRow
  <2>2. ASSUME ~Refused(req[a], rows[req[a].user]),
               Goto(a, [req[a] EXCEPT !.pc = AfterRead(req[a].want),
                                      !.seen = rows[req[a].user],
                                      !.status = IF req[a].want = "maybe" THEN "maybe" ELSE @])
        PROVE  TypeOK'
    <3> DEFINE r == req[a]
    <3>1. r.pc = "readRow" /\ r.user \in Users /\ rows[r.user] \in Row
        BY <1>0, <1>2 DEF ReadRow, GoodReq
    <3>2. PICK s \in Statuses \cup {"none"} :
             /\ Goto(a, [r EXCEPT !.pc = AfterRead(r.want), !.seen = rows[r.user], !.status = s])
             /\ r.want = "maybe" => s = "maybe"
        BY <1>0, <2>2 DEF GoodReq, Request, Statuses
    <3>3. AfterRead(r.want) \in {"count", "delete"} \/ (AfterRead(r.want) = "write" /\ s = "maybe")
        BY <3>2 DEF AfterRead
    <3>4. GoodReq([r EXCEPT !.pc = AfterRead(r.want), !.seen = rows[r.user], !.status = s])
        BY <1>0, <3>1, <3>3 DEF GoodReq, Request, Steps, NeedsEvent, Statuses
    <3> QED  BY <1>0, <1>2, <3>2, <3>4, OneMoves DEF ReadRow
  <2> QED  BY <1>2, <2>1, <2>2 DEF ReadRow
<1>3. ASSUME NEW c \in Clients, CountForRsvp(c) PROVE TypeOK'
  <2>1. PICK s \in Statuses, x \in Approvals :
            Goto(c, [req[c] EXCEPT !.pc = "write", !.status = s, !.approval = x])
      BY <1>3 DEF CountForRsvp, Statuses, Approvals
  <2>2. GoodReq(req[c]) /\ req[c].pc = "count"
      BY <1>0, <1>3 DEF CountForRsvp
  <2>3. GoodReq([req[c] EXCEPT !.pc = "write", !.status = s, !.approval = x])
      BY <2>2 DEF GoodReq, Request, Steps, NeedsEvent
  <2> QED  BY <1>0, <1>3, <2>1, <2>3, OneMoves DEF CountForRsvp
<1>4. ASSUME NEW c \in Clients, WriteExisting(c) PROVE TypeOK'
  <2> DEFINE r == req[c]
  <2>1. r.pc = "write" /\ r.user \in Users /\ r.status \in Statuses /\ r.approval \in Approvals
        /\ GoodReq(r)  /\ r.seen \in Row /\ r.seen # NoRow
      BY <1>0, <1>4 DEF WriteExisting, GoodReq, Request
  <2>2. rows' \in [Users -> Row]
    <3>1. CASE rows' = rows
        BY <1>0, <3>1
    <3>2. CASE rows' = [rows EXCEPT ![r.user].status = r.status, ![r.user].approval = r.approval]
               /\ rows[r.user].id = r.seen.id
        BY <1>0, <2>1, <3>2 DEF Row, NoRow
    <3> QED  BY <1>4, <3>1, <3>2 DEF WriteExisting
  <2>3. GoodReq(AfterWrite(r))
      BY <2>1, GoodAfter
  <2> QED  BY <1>0, <1>4, <2>2, <2>3, OneMoves DEF WriteExisting
<1>5. ASSUME NEW c \in Clients, WriteNew(c) PROVE TypeOK'
  <2> DEFINE r == req[c]
  <2>1. r.pc = "write" /\ r.user \in Users /\ r.status \in Statuses /\ r.approval \in Approvals
        /\ GoodReq(r)
      BY <1>0, <1>5 DEF WriteNew, GoodReq, Request
  <2>2. rows' \in [Users -> Row] /\ lastId' \in Nat
      BY <1>0, <1>5, <2>1 DEF WriteNew, Row
  <2>3. GoodReq(AfterWrite(r))
      BY <2>1, GoodAfter
  <2> QED  BY <1>0, <1>5, <2>2, <2>3, GoodIdle, OneMoves DEF WriteNew
<1>6. ASSUME NEW a \in Actors, Delete(a) PROVE TypeOK'
  <2>1. rows' \in [Users -> Row]
      BY <1>0, <1>6 DEF Delete, Row
  <2>2. GoodReq(ThenPromote(req[a])) /\ GoodReq(ThenRefresh(req[a], 1))
      BY <1>0, <1>6, GoodAfter DEF Delete
  <2> QED  BY <1>0, <1>6, <2>1, <2>2, OneMoves DEF Delete
<1>7. ASSUME NEW m \in Moderators, CountForApproval(m) PROVE TypeOK'
  <2>1. GoodReq([req[m] EXCEPT !.pc = "approve"])
      BY <1>0, <1>7 DEF CountForApproval, GoodReq, Request, Steps, NeedsEvent
  <2> QED  BY <1>0, <1>7, <2>1, GoodIdle, OneMoves DEF CountForApproval
<1>8. ASSUME NEW m \in Moderators, Approve(m) PROVE TypeOK'
  <2>1. rows' \in [Users -> Row]
      BY <1>0, <1>8 DEF Approve, Row, NoRow, Approvals
  <2>2. GoodReq(ThenRefresh(req[m], 1))
      BY <1>0, <1>8, GoodAfter DEF Approve
  <2> QED  BY <1>0, <1>8, <2>1, <2>2, OneMoves DEF Approve
<1>9. ASSUME NEW a \in Actors, PromoteReadEvent(a) PROVE TypeOK'
  <2>1. GoodReq([req[a] EXCEPT !.pc = "promotePick", !.ev = event])
      BY <1>0, <1>9 DEF PromoteReadEvent, GoodReq, Request, Steps, NeedsEvent
  <2> QED  BY <1>0, <1>9, <2>1, OneMoves DEF PromoteReadEvent
<1>10. ASSUME NEW a \in Actors, PromotePick(a) PROVE TypeOK'
  <2>0. GoodReq(req[a]) /\ req[a].pc # "idle"
      BY <1>0, <1>10 DEF PromotePick
  <2>1. GoodReq(ThenRefresh(req[a], 1))
      BY <2>0, GoodAfter
  <2>2. ASSUME NEW u \in Users, OldestWaiting(u)
        PROVE  GoodReq([req[a] EXCEPT !.pc = "promoteWrite", !.n = rows[u].id])
    <3>1. rows[u].id \in Nat \ {0}
        BY <1>0, <2>2 DEF OldestWaiting, Waitlist, Row, NoRow
    <3>2. req[a].pc = "promotePick" /\ req[a] \in Request /\ req[a].ev \in Settings
          /\ req[a].user \in Users
        BY <2>0, <1>10 DEF PromotePick, GoodReq, NeedsEvent
    <3> QED  BY <3>1, <3>2 DEF GoodReq, Request, Steps
  <2> QED  BY <1>0, <1>10, <2>1, <2>2, OneMoves DEF PromotePick
<1>11. ASSUME NEW a \in Actors, PromoteWrite(a) PROVE TypeOK'
  <2>1. req[a].n # 0 /\ GoodReq(req[a]) /\ req[a].pc # "idle"
      BY <1>0, <1>11 DEF PromoteWrite, GoodReq
  <2>2. ASSUME NEW u \in Users, rows[u].id # 0 PROVE Promoted(rows[u], req[a].ev) \in Row
    <3>1. rows[u] \in [status : Statuses, approval : Approvals, id : Nat \ {0}]
        BY <1>0, <2>2 DEF Row, NoRow
    <3>2. PICK x \in Approvals :
             Promoted(rows[u], req[a].ev) = [rows[u] EXCEPT !.status = "going", !.approval = x]
        BY DEF Promoted, Approvals
    <3> QED  BY <3>1, <3>2 DEF Row, Statuses
  <2>3. rows' \in [Users -> Row]
      BY <1>0, <1>11, <2>1, <2>2 DEF PromoteWrite
  <2> QED  BY <1>0, <1>11, <2>1, <2>3, GoodAfter, OneMoves DEF PromoteWrite
<1>12. ASSUME NEW a \in Actors, RefreshCount(a) PROVE TypeOK'
  <2>1. GoodReq([req[a] EXCEPT !.pc = "refreshWrite", !.n = Cardinality(Committed)])
      BY <1>0, <1>12, CommittedFinite DEF RefreshCount, GoodReq, Request, Steps, NeedsEvent
  <2> QED  BY <1>0, <1>12, <2>1, OneMoves DEF RefreshCount
<1>13. ASSUME NEW a \in Actors, RefreshWrite(a) PROVE TypeOK'
  <2>1. GoodReq(ThenRefresh(req[a], 1)) /\ req[a].n \in Nat
      BY <1>0, <1>13, GoodAfter DEF RefreshWrite, GoodReq, Request
  <2> QED  BY <1>0, <1>13, <2>1, GoodIdle, OneMoves DEF RefreshWrite
<1>14. ASSUME PatchEvent PROVE TypeOK'
    BY <1>14 DEF TypeOK, PatchEvent, InFlight
<1>15. ASSUME NEW a \in Actors, Die(a) PROVE TypeOK'
    BY <1>0, <1>15, GoodIdle, OneMoves DEF Die
<1>16. CASE UNCHANGED vars
    BY <1>16 DEF TypeOK, vars, InFlight
<1> QED
    BY <1>0, <1>1, <1>2, <1>3, <1>4, <1>5, <1>6, <1>7, <1>8, <1>9, <1>10, <1>11, <1>12,
       <1>13, <1>14, <1>15, <1>16
    DEF Next, ClientStep, ModeratorStep, SharedStep, BeginRsvp, BeginApproval

\* The empty tables are typed.
LEMMA TypeCorrectInit == Init => TypeOK
<1> SUFFICES ASSUME Init PROVE TypeOK
    OBVIOUS
<1>1. Idle \in Request
    BY GoodIdle DEF GoodReq
<1>2. InFlight = {}
    BY DEF Init, InFlight, Idle
<1> QED  BY <1>1, <1>2 DEF Init, TypeOK, Row, Idle, NeedsEvent

(* The tables and the requests always have their types.                     *)
THEOREM TypeCorrect == Spec => []TypeOK
    BY TypeCorrectInit, TypeStep, PTL DEF Spec

-----------------------------------------------------------------------------
(* Seats that are lost, and seats on gated events.                          *)

(* A seat is lost only by a step of a request about its holder.             *)
THEOREM NoSeatIsTaken == Spec => SeatLossIsDecided
<1> DEFINE P == \A u \in Users : Holds(rows[u]) /\ ~Holds(rows'[u]) =>
                   \E a \in Actors : req[a].user = u /\ req'[a] # req[a]
<1>1. TypeOK /\ [Next]_vars => [P]_vars
  <2> SUFFICES ASSUME TypeOK, Next, NEW u \in Users, Holds(rows[u]), ~Holds(rows'[u])
               PROVE  \E a \in Actors : req[a].user = u /\ req'[a] # req[a]
      OBVIOUS
  <2> USE DEF At
  <2>0. rows \in [Users -> Row] /\ rows[u] # NoRow /\ rows'[u] # rows[u]
        /\ \A c \in Clients : c \in Actors /\ req[c].user \in Users \cup {"none"}
        /\ req = [a \in Actors |-> req[a]]
      BY DEF TypeOK, Request, Actors, Holds, NoRow
  <2>1. ASSUME NEW c \in Clients, WriteExisting(c) PROVE req[c].user = u /\ req'[c] # req[c]
    <3>1. req'[c].pc # "write"
        BY <2>0, <2>1, Moved, Fields DEF WriteExisting, AfterWrite
    <3> QED  BY <2>0, <2>1, <3>1 DEF WriteExisting
  <2>2. ASSUME NEW c \in Clients, WriteNew(c) PROVE FALSE
      BY <2>0, <2>2 DEF WriteNew
  <2>3. ASSUME NEW a \in Actors, Delete(a) PROVE req[a].user = u /\ req'[a] # req[a]
    <3>1. req'[a].pc # "delete"
      <4>1. Goto(a, ThenPromote(req[a])) \/ Goto(a, ThenRefresh(req[a], 1))
          BY <2>3 DEF Delete
      <4> QED  BY <4>1, Moved, Fields
    <3> QED  BY <2>0, <2>3, <3>1 DEF Delete
  <2>4. ASSUME NEW m \in Moderators, Approve(m) PROVE FALSE
      BY <2>0, <2>4 DEF Approve, Holds
  <2>5. ASSUME NEW a \in Actors, PromoteWrite(a) PROVE FALSE
      BY <2>0, <2>5 DEF PromoteWrite, Promoted, Holds, Row, NoRow
  <2>6. \/ \E c \in Clients : WriteExisting(c) \/ WriteNew(c)
        \/ \E a \in Actors : Delete(a) \/ PromoteWrite(a)
        \/ \E m \in Moderators : Approve(m)
      BY <2>0 DEF Next, ClientStep, ModeratorStep, SharedStep, BeginRsvp, BeginApproval, Begin,
         ReadRow, CountForRsvp, CountForApproval, PromoteReadEvent, PromotePick, RefreshCount,
         RefreshWrite, PatchEvent, Die
  <2> QED  BY <2>0, <2>1, <2>2, <2>3, <2>4, <2>5, <2>6
<1> QED  BY <1>1, TypeCorrect, PTL DEF SeatLossIsDecided, Spec

\* On a gated event, a handler about to write 'going' writes it as pending.
WritesPending ==
    AlwaysGated =>
        \A c \in Clients : req[c].pc = "write" /\ req[c].status = "going"
                              => req[c].approval = "pending"

GatedInv == TypeOK /\ GatedSeatsAreApproved /\ WritesPending

\* Every step of every handler keeps seats on a gated event approved.
LEMMA GatedStep == GatedInv /\ [Next]_vars => GatedInv'
<1> SUFFICES ASSUME GatedInv, [Next]_vars, AlwaysGated
             PROVE  GatedSeatsAreApproved' /\ WritesPending'
    BY TypeStep DEF GatedInv, GatedSeatsAreApproved, WritesPending
<1> USE DEF At, Finish, WritesPending, GatedSeatsAreApproved
<1>0. /\ \A a \in Actors : GoodReq(req[a])
      /\ \A u \in Users : rows[u] \in Row
      /\ rows = [u \in Users |-> rows[u]] /\ TypeOK
      /\ \A c \in Clients : c \in Actors
      /\ \A m \in Moderators : m \in Actors
      /\ \A s \in Settings : s.gated
    BY GoodRequests DEF GatedInv, TypeOK, Actors, AlwaysGated
<1>1. ASSUME NEW a \in Actors, NEW want \in Wishes \cup Decisions, NEW user \in Users,
             Begin(a, want, user)
      PROVE  GatedSeatsAreApproved' /\ WritesPending'
  <2>1. UNCHANGED rows /\ (\A b \in Actors \ {a} : req'[b] = req[b]) /\ req'[a].pc = "readRow"
    <3>1. req'[a] = [Idle EXCEPT !.pc = "readRow", !.want = want, !.user = user, !.ev = event]
        BY <1>0, <1>1, Moved DEF Begin
    <3> QED  BY <1>0, <1>1, <3>1, Moved, StartedFields DEF Begin
  <2> QED  BY <1>0, <2>1 DEF GatedInv
<1>2. ASSUME NEW a \in Actors, ReadRow(a) PROVE GatedSeatsAreApproved' /\ WritesPending'
  <2>1. UNCHANGED rows
      BY <1>2 DEF ReadRow
  <2>2. CASE Goto(a, Idle)
      BY <1>0, <2>1, <2>2, Moved, Fields DEF GatedInv
  <2>3. CASE Goto(a, [req[a] EXCEPT !.pc = AfterRead(req[a].want),
                                    !.seen = rows[req[a].user],
                                    !.status = IF req[a].want = "maybe" THEN "maybe" ELSE @])
    <3>1. \A b \in Actors \ {a} : req'[b] = req[b]
        BY <1>0, <2>3, Moved
    <3>2. /\ req'[a].pc = AfterRead(req[a].want)
          /\ req[a].want = "maybe" => req'[a].status = "maybe"
      <4>1. PICK s : /\ req'[a] = [req[a] EXCEPT !.pc = AfterRead(req[a].want),
                                                  !.seen = rows[req[a].user], !.status = s]
                     /\ req[a].want = "maybe" => s = "maybe"
          BY <1>0, <2>3, Moved
      <4> QED  BY <1>0, <4>1, ReadFields DEF GoodReq
    <3> QED  BY <1>0, <2>1, <3>1, <3>2 DEF AfterRead, GatedInv
  <2> QED  BY <1>2, <2>2, <2>3 DEF ReadRow
<1>3. ASSUME NEW c \in Clients, CountForRsvp(c) PROVE GatedSeatsAreApproved' /\ WritesPending'
  <2> DEFINE full == Full(req[c].ev, req[c].seen, Cardinality(Committed))
  <2>1. Goto(c, [req[c] EXCEPT !.pc = "write", !.status = IF full THEN "waitlist" ELSE "going",
                               !.approval = IF ~full /\ req[c].ev.gated THEN "pending"
                                                                        ELSE "not_required"])
      BY <1>3 DEF CountForRsvp
  <2>2. req[c].ev.gated /\ req[c] \in Request
      BY <1>0, <1>3 DEF CountForRsvp, GoodReq, NeedsEvent
  <2>3. req'[c].status = "going" => req'[c].approval = "pending"
    <3> DEFINE s == IF full THEN "waitlist" ELSE "going"
               x == IF ~full /\ req[c].ev.gated THEN "pending" ELSE "not_required"
    <3>1. req'[c] = [req[c] EXCEPT !.pc = "write", !.status = s, !.approval = x]
        BY <1>0, <2>1, Moved
    <3>2. s = "going" => x = "pending"
        BY <2>2
    <3> HIDE DEF s, x
    <3> QED  BY <2>2, <3>1, <3>2, DecidedFields
  <2> QED  BY <1>0, <1>3, <2>1, <2>3, Moved DEF CountForRsvp, GatedInv
<1>4. ASSUME NEW c \in Clients, WriteExisting(c) PROVE GatedSeatsAreApproved' /\ WritesPending'
  <2> DEFINE r == req[c]
  <2>1. (\A b \in Actors \ {c} : req'[b] = req[b]) /\ req'[c].pc # "write"
      BY <1>0, <1>4, Fields, Moved DEF WriteExisting, AfterWrite
  <2>2. r.user \in Users /\ (r.status = "going" => r.approval = "pending")
      BY <1>0, <1>4 DEF WriteExisting, GoodReq, GatedInv
  <2>3. CASE rows' = rows
      BY <1>0, <2>1, <2>3 DEF GatedInv
  <2>4. CASE /\ rows' = [rows EXCEPT ![r.user].status = r.status, ![r.user].approval = r.approval]
             /\ rows[r.user].id = r.seen.id
    <3>1. rows'[r.user] = [rows[r.user] EXCEPT !.status = r.status, !.approval = r.approval]
          /\ \A u \in Users \ {r.user} : rows'[u] = rows[u]
        BY <1>0, <2>2, <2>4
    <3>2. rows'[r.user].status = r.status /\ rows'[r.user].approval = r.approval
        BY <1>0, <2>2, <3>1, RowFields
    <3>3. GatedSeatsAreApproved'
        BY <2>2, <3>1, <3>2 DEF GatedInv
    <3> QED  BY <1>0, <2>1, <3>3 DEF GatedInv
  <2> QED  BY <1>4, <2>3, <2>4 DEF WriteExisting
<1>5. ASSUME NEW c \in Clients, WriteNew(c) PROVE GatedSeatsAreApproved' /\ WritesPending'
  <2>1. (\A b \in Actors \ {c} : req'[b] = req[b]) /\ req'[c].pc # "write"
      BY <1>0, <1>5, Fields, Moved DEF WriteNew, AfterWrite
  <2>2. GatedSeatsAreApproved'
      BY <1>0, <1>5 DEF WriteNew, GatedInv
  <2> QED  BY <1>0, <2>1, <2>2 DEF GatedInv
<1>6. ASSUME NEW a \in Actors, Delete(a) PROVE GatedSeatsAreApproved' /\ WritesPending'
  <2>1. (\A b \in Actors \ {a} : req'[b] = req[b]) /\ req'[a].pc # "write"
      BY <1>0, <1>6, Fields, Moved DEF Delete
  <2>2. GatedSeatsAreApproved'
      BY <1>0, <1>6 DEF Delete, GatedInv, NoRow
  <2> QED  BY <1>0, <2>1, <2>2 DEF GatedInv
<1>7. ASSUME NEW m \in Moderators, CountForApproval(m) PROVE GatedSeatsAreApproved' /\ WritesPending'
  <2>1. UNCHANGED rows /\ (\A b \in Actors \ {m} : req'[b] = req[b])
      BY <1>0, <1>7, Moved DEF CountForApproval
  <2>2. req'[m].pc # "write"
    <3>1. req'[m] = Idle \/ req'[m] = [req[m] EXCEPT !.pc = "approve"]
        BY <1>0, <1>7, Moved DEF CountForApproval
    <3>2. req[m] \in Request
        BY <1>0 DEF GoodReq
    <3> QED  BY <3>1, <3>2, Fields DEF Request
  <2> QED  BY <1>0, <2>1, <2>2 DEF GatedInv
<1>8. ASSUME NEW m \in Moderators, Approve(m) PROVE GatedSeatsAreApproved' /\ WritesPending'
  <2>1. (\A b \in Actors \ {m} : req'[b] = req[b]) /\ req'[m].pc # "write"
      BY <1>0, <1>8, Fields, Moved DEF Approve
  <2>2. ASSUME NEW u \in Users PROVE rows'[u] = rows[u] \/ rows'[u].approval = "approved"
    <3>1. CASE rows[req[m].user] = NoRow
        BY <1>8, <3>1 DEF Approve
    <3>2. CASE rows' = [rows EXCEPT ![req[m].user].approval = "approved"]
        BY <1>0, <3>2 DEF Row, NoRow
    <3> QED  BY <1>8, <3>1, <3>2 DEF Approve
  <2> QED  BY <1>0, <2>1, <2>2 DEF GatedInv
<1>9. ASSUME NEW a \in Actors, PromoteWrite(a) PROVE GatedSeatsAreApproved' /\ WritesPending'
  <2>1. (\A b \in Actors \ {a} : req'[b] = req[b]) /\ req'[a].pc # "write"
      BY <1>0, <1>9, Fields, Moved DEF PromoteWrite
  <2>2. req[a].ev.gated
      BY <1>0, <1>9 DEF PromoteWrite, GoodReq, NeedsEvent
  <2>3. ASSUME NEW u \in Users PROVE rows'[u] = rows[u] \/ rows'[u].approval = "approved"
    <3>1. CASE rows'[u] = Promoted(rows[u], req[a].ev)
      <4>1. rows'[u] = [rows[u] EXCEPT !.status = "going", !.approval = "approved"]
          BY <2>2, <3>1 DEF Promoted
      <4> QED  BY <1>0, <4>1 DEF Row, NoRow
    <3> QED  BY <1>9, <3>1 DEF PromoteWrite
  <2> QED  BY <1>0, <2>1, <2>3 DEF GatedInv
<1>10. ASSUME NEW a \in Actors, NEW r, Goto(a, r), r.pc # "write", UNCHANGED rows
       PROVE  GatedSeatsAreApproved' /\ WritesPending'
    BY <1>0, <1>10, Moved DEF GatedInv
<1>11. ASSUME NEW a \in Actors, RefreshCount(a) \/ RefreshWrite(a) \/ Die(a)
       PROVE  GatedSeatsAreApproved' /\ WritesPending'
    BY <1>0, <1>10, <1>11, Fields DEF RefreshCount, RefreshWrite, Die, GoodReq, Request
<1>12. ASSUME NEW a \in Actors, PromoteReadEvent(a) \/ PromotePick(a)
       PROVE  GatedSeatsAreApproved' /\ WritesPending'
    BY <1>0, <1>10, <1>12, Fields DEF PromoteReadEvent, PromotePick, GoodReq, Request
<1>13. CASE PatchEvent \/ UNCHANGED vars
    BY <1>0, <1>13 DEF PatchEvent, vars, GatedInv
<1> QED
    BY <1>0, <1>1, <1>2, <1>3, <1>4, <1>5, <1>6, <1>7, <1>8, <1>9, <1>11, <1>12, <1>13
    DEF Next, ClientStep, ModeratorStep, SharedStep, BeginRsvp, BeginApproval

(* On a gated event a seat is held only with an approval.                   *)
THEOREM GatedSeats == Spec => []GatedSeatsAreApproved
<1>1. Init => GatedInv
    BY TypeCorrectInit DEF Init, GatedInv, GatedSeatsAreApproved, WritesPending, Idle, NoRow, Actors
<1>2. GatedInv => GatedSeatsAreApproved
    BY DEF GatedInv
<1> QED  BY <1>1, <1>2, GatedStep, PTL DEF Spec

-----------------------------------------------------------------------------
(* How far concurrent requests can overbook an event: OverbookBound, for    *)
(* any number of users and any number of interleaved requests; and, at the  *)
(* end, what requests handled one at a time leave behind: an exact count    *)
(* and no seat idle while somebody waits.                                   *)
(*                                                                          *)
(* The argument for the bound is an amortised count.  A request that has    *)
(* decided to write 'going' for someone without a seat, or is on its way to *)
(* promote someone, holds a token: it may take one more seat.  Seats taken  *)
(* plus tokens never exceed n + MaxInFlight - 1: a token is created only    *)
(* when a count found a seat free of n (and at most MaxInFlight - 1 other   *)
(* requests hold one), or by giving up a seat; a seat is taken only by      *)
(* spending a token.                                                        *)

\* The events the bound is about: no host approval, capacities up to n, and
\* the one request per person that the RSVP button of the web client allows.
Regime(n) == n \in Nat \ {0} /\ Ungated /\ OneTabPerUser /\ CapAtMost(n)

\* What a client's request may be at each of its steps.
ClientOK(c) ==
    /\ req[c].approval # "pending"
    /\ req[c].pc # "idle" => req[c].user = UserOf[c]
    /\ req[c].pc # "approve"
    /\ req[c].pc = "readRow" => req[c].want \in Wishes
    /\ req[c].pc = "count" => req[c].want = "going"
    /\ req[c].pc = "delete" => req[c].want = "not_going"
    /\ req[c].pc = "write" => \/ req[c].want = "going" /\ req[c].status # "maybe"
                              \/ req[c].want = "maybe" /\ req[c].status = "maybe"

\* A seat that a handler has read is still there when it acts on it.
SeenIsCurrent(c) ==
    req[c].pc \in {"count", "write", "delete"} /\ Holds(req[c].seen) =>
        /\ rows[UserOf[c]].id = req[c].seen.id
        /\ Holds(rows[UserOf[c]])

\* Nothing is ever pending, so every decision of a moderator is refused.
ModeratorOK(m) ==
    /\ req[m].pc \in {"idle", "readRow"}
    /\ req[m].pc = "readRow" => req[m].want \in Decisions

NoPending == \A u \in Users : rows[u].approval # "pending"

\* Row ids are fresh and never reused.
IdsUnique ==
    /\ \A u \in Users : rows[u].id <= lastId
    /\ \A u, v \in Users : rows[u].id = rows[v].id /\ rows[u].id # 0 => u = v

ReqInv ==
    /\ TypeOK
    /\ \A c \in Clients : ClientOK(c) /\ SeenIsCurrent(c)
    /\ \A m \in Moderators : ModeratorOK(m)
    /\ NoPending
    /\ IdsUnique

-----------------------------------------------------------------------------
\* No request runs at the start, so nothing it read can be stale.
LEMMA ReqInit == Init => ReqInv
<1> SUFFICES ASSUME Init PROVE ReqInv
    OBVIOUS
<1>1. \A a \in Actors : req[a].pc = "idle" /\ req[a].approval = "not_required"
    BY Fields DEF Init
<1>2. \A u \in Users : rows[u].id = 0 /\ rows[u].approval = "not_required"
    BY DEF Init, NoRow
<1> QED
    BY <1>1, <1>2, TypeCorrectInit
    DEF ReqInv, ClientOK, SeenIsCurrent, ModeratorOK, NoPending, IdsUnique, Init, Actors

\* What has to be shown of a step in which one request moves.
LEMMA OneStep ==
    ASSUME ReqInv, TypeOK', NEW a \in Actors, \A b \in Actors \ {a} : req'[b] = req[b],
           a \in Clients => ClientOK(a)' /\ SeenIsCurrent(a)',
           a \in Moderators => ModeratorOK(a)',
           NoPending', IdsUnique',
           \A c \in Clients \ {a} : Holds(rows[UserOf[c]]) =>
               rows'[UserOf[c]].id = rows[UserOf[c]].id /\ Holds(rows'[UserOf[c]])
    PROVE  ReqInv'
<1> USE DEF ReqInv
<1>1. ASSUME NEW c \in Clients PROVE ClientOK(c)' /\ SeenIsCurrent(c)'
    BY DEF ClientOK, SeenIsCurrent, Actors
<1>2. ASSUME NEW m \in Moderators PROVE ModeratorOK(m)'
    BY DEF ModeratorOK, Actors
<1> QED  BY <1>1, <1>2

\* Without host approval and with one request per person, what a handler has
\* read of its own user stays true until it acts on it.
LEMMA ReqStep ==
    ASSUME NEW n, Regime(n)
    PROVE  ReqInv /\ [Next]_vars => ReqInv'
<1> SUFFICES ASSUME ReqInv, [Next]_vars PROVE ReqInv'
    OBVIOUS
<1> USE DEF At, Finish
<1>t. TypeOK /\ TypeOK'
    BY TypeStep DEF ReqInv
<1>a. /\ \A a \in Actors : req[a] \in Request /\ GoodReq(req[a])
      /\ \A c \in Clients : c \in Actors /\ c \notin Moderators /\ UserOf[c] \in Users
      /\ \A m \in Moderators : m \in Actors /\ m \notin Clients
      /\ \A c, d \in Clients : UserOf[c] = UserOf[d] => c = d
  <2>1. \A a \in Actors : req[a] \in Request /\ GoodReq(req[a])
      BY <1>t, GoodRequests DEF GoodReq
  <2>2. \A c, d \in Clients : UserOf[c] = UserOf[d] => c = d
      BY DEF Regime, OneTabPerUser
  <2> QED  BY <2>1, <2>2 DEF Actors
<1>b. /\ \A c \in Clients : ClientOK(c) /\ SeenIsCurrent(c)
      /\ \A m \in Moderators : ModeratorOK(m)
      /\ NoPending /\ IdsUnique
    BY DEF ReqInv
<1>u. ASSUME UNCHANGED <<rows, lastId>>
      PROVE  /\ NoPending' /\ IdsUnique'
             /\ \A c \in Clients : Holds(rows[UserOf[c]]) =>
                   rows'[UserOf[c]].id = rows[UserOf[c]].id /\ Holds(rows'[UserOf[c]])
    BY <1>b, <1>u DEF NoPending, IdsUnique
\* A request that reads on, or ends.
<1>r. ASSUME NEW a \in Actors, NEW r, Goto(a, r), UNCHANGED <<rows, lastId>>,
             a \in Clients =>
                 /\ r.approval # "pending" /\ (r.pc # "idle" => r.user = UserOf[a])
                 /\ r.pc \notin {"approve", "readRow", "count", "delete", "write"},
             a \in Moderators => r.pc = "idle"
      PROVE  ReqInv'
  <2>1. req'[a] = r /\ \A b \in Actors \ {a} : req'[b] = req[b]
      BY <1>t, <1>r, Moved
  <2>2. a \in Clients => ClientOK(a)' /\ SeenIsCurrent(a)'
      BY <1>r, <2>1 DEF ClientOK, SeenIsCurrent
  <2>3. a \in Moderators => ModeratorOK(a)'
      BY <1>r, <2>1 DEF ModeratorOK
  <2> QED  BY <1>t, <1>r, <1>u, <2>1, <2>2, <2>3, OneStep
<1>1. ASSUME NEW c \in Clients, BeginRsvp(c) PROVE ReqInv'
  <2>1. PICK want \in Wishes : Begin(c, want, UserOf[c])
      BY <1>1 DEF BeginRsvp
  <2>2. req'[c] = [Idle EXCEPT !.pc = "readRow", !.want = want, !.user = UserOf[c], !.ev = event]
        /\ \A b \in Actors \ {c} : req'[b] = req[b]
      BY <1>t, <1>a, <2>1, Moved DEF Begin
  <2>3. req'[c].pc = "readRow" /\ req'[c].want = want /\ req'[c].user = UserOf[c]
        /\ req'[c].approval = "not_required"
      BY <2>2, StartedFields
  <2>4. ClientOK(c)' /\ SeenIsCurrent(c)'
      BY <2>3 DEF ClientOK, SeenIsCurrent
  <2> QED  BY <1>t, <1>a, <1>u, <2>1, <2>2, <2>4, OneStep DEF Begin
<1>2. ASSUME NEW m \in Moderators, BeginApproval(m) PROVE ReqInv'
  <2>1. PICK want \in Decisions, user \in Users : Begin(m, want, user)
      BY <1>2 DEF BeginApproval
  <2>2. req'[m] = [Idle EXCEPT !.pc = "readRow", !.want = want, !.user = user, !.ev = event]
        /\ \A b \in Actors \ {m} : req'[b] = req[b]
      BY <1>t, <1>a, <2>1, Moved DEF Begin
  <2>3. req'[m].pc = "readRow" /\ req'[m].want = want
      BY <2>2, StartedFields
  <2>4. ModeratorOK(m)'
      BY <2>3 DEF ModeratorOK
  <2> QED  BY <1>t, <1>a, <1>u, <2>1, <2>2, <2>4, OneStep DEF Begin
<1>3. ASSUME NEW a \in Actors, ReadRow(a) PROVE ReqInv'
  <2>1. CASE Goto(a, Idle)
      BY <1>r, <1>3, <2>1, Fields DEF ReadRow
  <2>2. ASSUME ~Refused(req[a], rows[req[a].user]),
               Goto(a, [req[a] EXCEPT !.pc = AfterRead(req[a].want),
                                      !.seen = rows[req[a].user],
                                      !.status = IF req[a].want = "maybe" THEN "maybe" ELSE @])
        PROVE  ReqInv'
    <3>1. a \notin Moderators
      <4>1. rows[req[a].user].approval # "pending"
          BY <1>a, <1>b, <1>3 DEF ReadRow, GoodReq, NoPending
      <4> QED  BY <1>b, <1>3, <2>2, <4>1 DEF ReadRow, Refused, ModeratorOK
    <3>2. a \in Clients /\ req[a].pc = "readRow" /\ req[a].user = UserOf[a]
          /\ req[a].want \in Wishes /\ req[a].approval # "pending"
        BY <1>b, <1>3, <3>1 DEF ReadRow, ClientOK, Actors
    <3>3. PICK s : /\ req'[a] = [req[a] EXCEPT !.pc = AfterRead(req[a].want),
                                               !.seen = rows[req[a].user], !.status = s]
                   /\ req[a].want = "maybe" => s = "maybe"
        BY <1>t, <2>2, Moved
    <3>4. /\ req'[a].pc = AfterRead(req[a].want) /\ req'[a].seen = rows[UserOf[a]]
          /\ req[a].want = "maybe" => req'[a].status = "maybe"
          /\ req'[a].want = req[a].want /\ req'[a].user = UserOf[a]
          /\ req'[a].approval # "pending"
        BY <1>a, <3>2, <3>3, ReadFields
    <3>5. ClientOK(a)' /\ SeenIsCurrent(a)'
        BY <1>3, <3>2, <3>4 DEF ReadRow, ClientOK, SeenIsCurrent, AfterRead, Wishes
    <3> QED  BY <1>t, <1>a, <1>u, <1>3, <2>2, <3>1, <3>5, OneStep, Moved DEF ReadRow
  <2> QED  BY <1>3, <2>1, <2>2 DEF ReadRow
<1>4. ASSUME NEW c \in Clients, CountForRsvp(c) PROVE ReqInv'
  <2> DEFINE full == Full(req[c].ev, req[c].seen, Cardinality(Committed))
             s == IF full THEN "waitlist" ELSE "going"
             x == IF ~full /\ req[c].ev.gated THEN "pending" ELSE "not_required"
  <2>1. req'[c] = [req[c] EXCEPT !.pc = "write", !.status = s, !.approval = x]
        /\ \A b \in Actors \ {c} : req'[b] = req[b]
      BY <1>t, <1>a, <1>4, Moved DEF CountForRsvp
  <2>2. ~req[c].ev.gated
      BY <1>t, <1>a, <1>4 DEF CountForRsvp, TypeOK, NeedsEvent, Regime, Ungated
  <2>3. s # "maybe" /\ x = "not_required"
      BY <2>2
  <2> HIDE DEF s, x
  <2>4. req'[c].pc = "write" /\ req'[c].status = s /\ req'[c].approval = x
        /\ req'[c].want = "going" /\ req'[c].user = req[c].user /\ req'[c].seen = req[c].seen
      BY <1>a, <1>4, <2>1, DecidedFields DEF CountForRsvp
  <2>5. ClientOK(c)' /\ SeenIsCurrent(c)'
      BY <1>b, <1>4, <2>3, <2>4 DEF CountForRsvp, ClientOK, SeenIsCurrent
  <2> QED  BY <1>t, <1>a, <1>u, <1>4, <2>1, <2>5, OneStep DEF CountForRsvp
\* A client's request has written the row of its user, and goes on.
<1>w. ASSUME NEW c \in Clients, NEW r, Goto(c, r), NoPending', IdsUnique',
             r.approval # "pending", r.pc # "idle" => r.user = UserOf[c],
             r.pc \notin {"approve", "readRow", "count", "delete", "write"},
             \A u \in Users \ {UserOf[c]} : rows'[u] = rows[u]
      PROVE  ReqInv'
  <2>1. req'[c] = r /\ \A b \in Actors \ {c} : req'[b] = req[b]
      BY <1>t, <1>a, <1>w, Moved
  <2>2. ClientOK(c)' /\ SeenIsCurrent(c)'
      BY <1>w, <2>1 DEF ClientOK, SeenIsCurrent
  <2>3. \A d \in Clients \ {c} : rows'[UserOf[d]] = rows[UserOf[d]]
      BY <1>a, <1>w
  <2> QED  BY <1>t, <1>a, <1>w, <2>1, <2>2, <2>3, OneStep
<1>5. ASSUME NEW c \in Clients, WriteExisting(c) PROVE ReqInv'
  <2> DEFINE r == req[c]
  <2>1. r.user = UserOf[c] /\ r.approval # "pending" /\ r.seen \in Row /\ r.seen # NoRow
      BY <1>a, <1>b, <1>5 DEF WriteExisting, ClientOK, Request
  <2>2. ASSUME NEW u \in Users
        PROVE  /\ rows'[u].id = rows[u].id /\ rows'[u].approval # "pending"
               /\ u # UserOf[c] => rows'[u] = rows[u]
    <3>1. CASE rows' = rows
        BY <1>b, <3>1 DEF NoPending
    <3>2. CASE rows' = [rows EXCEPT ![r.user].status = r.status, ![r.user].approval = r.approval]
      <4>1. rows'[u] = rows[u] \/
            (u = r.user /\ rows'[u] = [rows[u] EXCEPT !.status = r.status, !.approval = r.approval])
          BY <1>t, <3>2 DEF TypeOK
      <4>2. rows[u] \in Row /\ rows[u].approval # "pending"
          BY <1>t, <1>b DEF NoPending, TypeOK
      <4>3. CASE u = r.user /\ rows'[u] = [rows[u] EXCEPT !.status = r.status,
                                                         !.approval = r.approval]
          BY <2>1, <4>2, <4>3, RowFields
      <4> QED  BY <2>1, <4>1, <4>2, <4>3
    <3> QED  BY <1>5, <3>1, <3>2 DEF WriteExisting
  <2>3. NoPending' /\ IdsUnique'
    <3>1. lastId' = lastId
        BY <1>5 DEF WriteExisting
    <3> QED  BY <1>b, <2>2, <3>1 DEF NoPending, IdsUnique
  <2> QED  BY <1>w, <1>5, <2>1, <2>2, <2>3, Fields DEF WriteExisting, AfterWrite
<1>6. ASSUME NEW c \in Clients, WriteNew(c) PROVE ReqInv'
  <2> DEFINE r == req[c]
  <2>1. r.user = UserOf[c] /\ r.approval # "pending"
      BY <1>b, <1>6 DEF WriteNew, ClientOK
  <2>2. CASE Goto(c, Idle) /\ UNCHANGED <<rows, lastId>>
      BY <1>r, <1>a, <2>2, Fields
  <2>3. CASE /\ lastId' = lastId + 1
             /\ rows' = [rows EXCEPT ![r.user] =
                           [status |-> r.status, approval |-> r.approval, id |-> lastId + 1]]
             /\ Goto(c, AfterWrite(r))
    <3>1. lastId \in Nat /\ rows = [u \in Users |-> rows[u]] /\ \A u \in Users : rows[u].id \in Nat
        BY <1>t DEF TypeOK, Row, NoRow
    <3>2. /\ rows'[UserOf[c]].id = lastId + 1 /\ rows'[UserOf[c]].approval # "pending"
          /\ \A u \in Users \ {UserOf[c]} : rows'[u] = rows[u]
        BY <1>a, <2>1, <2>3, <3>1
    <3>3. NoPending'
        BY <1>b, <3>2 DEF NoPending
    <3>4. IdsUnique'
        BY <1>b, <2>3, <3>1, <3>2 DEF IdsUnique
    <3> QED  BY <1>w, <2>1, <2>3, <3>2, <3>3, <3>4, Fields DEF AfterWrite
  <2> QED  BY <1>6, <2>2, <2>3 DEF WriteNew
<1>7. ASSUME NEW a \in Actors, Delete(a) PROVE ReqInv'
  <2>1. a \in Clients /\ req[a].user = UserOf[a]
      BY <1>b, <1>7 DEF Delete, ModeratorOK, ClientOK, Actors
  <2>2. rows' = [rows EXCEPT ![UserOf[a]] = NoRow] /\ rows = [u \in Users |-> rows[u]]
        /\ lastId' = lastId /\ lastId \in Nat
      BY <1>t, <1>7, <2>1 DEF Delete, TypeOK
  <2>3. NoPending' /\ IdsUnique'
      BY <1>b, <2>2 DEF NoPending, IdsUnique, NoRow
  <2>4. Goto(a, ThenPromote(req[a])) \/ Goto(a, ThenRefresh(req[a], 1))
      BY <1>7 DEF Delete
  <2> QED  BY <1>w, <2>1, <2>2, <2>3, <2>4, Fields
<1>8. ASSUME NEW m \in Moderators, CountForApproval(m) \/ Approve(m) PROVE FALSE
    BY <1>b, <1>8 DEF CountForApproval, Approve, ModeratorOK
<1>9. ASSUME NEW a \in Actors, PromoteWrite(a) PROVE ReqInv'
  <2>1. a \in Clients /\ req[a].user = UserOf[a]
      BY <1>b, <1>9 DEF PromoteWrite, ModeratorOK, ClientOK, Actors
  <2>2. ASSUME NEW u \in Users
        PROVE  /\ rows'[u].id = rows[u].id /\ rows'[u].approval # "pending"
               /\ Holds(rows[u]) => Holds(rows'[u])
    <3>1. CASE rows'[u] = rows[u]
        BY <1>b, <3>1 DEF NoPending
    <3>2. CASE rows'[u] = Promoted(rows[u], req[a].ev)
      <4>1. PICK x \in {"approved", "not_required"} :
               rows'[u] = [rows[u] EXCEPT !.status = "going", !.approval = x]
          BY <3>2 DEF Promoted
      <4> QED  BY <1>t, <4>1, RowFields DEF TypeOK, Holds
    <3> QED  BY <1>9, <3>1, <3>2 DEF PromoteWrite
  <2>3. NoPending' /\ IdsUnique'
      BY <1>b, <1>9, <2>2 DEF PromoteWrite, NoPending, IdsUnique
  <2>4. req'[a] = ThenRefresh(req[a], 2) /\ \A b \in Actors \ {a} : req'[b] = req[b]
      BY <1>t, <1>9, Moved DEF PromoteWrite
  <2>5. ClientOK(a)' /\ SeenIsCurrent(a)'
      BY <2>1, <2>4, Fields DEF ClientOK, SeenIsCurrent
  <2> QED  BY <1>t, <1>a, <2>1, <2>2, <2>3, <2>4, <2>5, OneStep
<1>10. ASSUME NEW a \in Actors,
              PromoteReadEvent(a) \/ PromotePick(a) \/ RefreshCount(a) \/ RefreshWrite(a)
       PROVE  ReqInv'
  <2>1. a \in Clients /\ req[a].user = UserOf[a] /\ req[a].approval # "pending"
      BY <1>b, <1>10 DEF PromoteReadEvent, PromotePick, RefreshCount, RefreshWrite,
                         ModeratorOK, ClientOK, Actors
  <2>2. ASSUME NEW q, Goto(a, q), UNCHANGED <<rows, lastId>>,
               q.approval = req[a].approval, q.user = req[a].user,
               q.pc \in {"promotePick", "promoteWrite", "refreshWrite"}
        PROVE  ReqInv'
      BY <1>a, <1>r, <2>1, <2>2
  <2>3. CASE PromoteReadEvent(a)
    <3> DEFINE q == [req[a] EXCEPT !.pc = "promotePick", !.ev = event]
    <3>1. q.pc = "promotePick" /\ q.user = req[a].user /\ q.approval = req[a].approval
        BY <1>a, PromotionFields
    <3>2. Goto(a, q) /\ UNCHANGED <<rows, lastId>>
        BY <2>3 DEF PromoteReadEvent
    <3> HIDE DEF q
    <3> QED  BY <2>2, <3>1, <3>2
  <2>4. CASE PromotePick(a)
    <3>1. UNCHANGED <<rows, lastId>>
        BY <2>4 DEF PromotePick
    <3>2. CASE Goto(a, ThenRefresh(req[a], 1))
        BY <1>a, <1>r, <2>1, <3>1, <3>2, Fields
    <3>3. ASSUME NEW u \in Users,
                 Goto(a, [req[a] EXCEPT !.pc = "promoteWrite", !.n = rows[u].id])
          PROVE  ReqInv'
      <4> DEFINE q == [req[a] EXCEPT !.pc = "promoteWrite", !.n = rows[u].id]
      <4>1. q.pc = "promoteWrite" /\ q.user = req[a].user /\ q.approval = req[a].approval
          BY <1>a, PromotionFields
      <4>2. Goto(a, q)
          BY <3>3
      <4> HIDE DEF q
      <4> QED  BY <2>2, <3>1, <4>1, <4>2
    <3> QED  BY <2>4, <3>2, <3>3 DEF PromotePick
  <2>5. CASE RefreshCount(a)
    <3> DEFINE q == [req[a] EXCEPT !.pc = "refreshWrite", !.n = Cardinality(Committed)]
    <3>1. q.pc = "refreshWrite" /\ q.user = req[a].user /\ q.approval = req[a].approval
        BY <1>a, PromotionFields
    <3>2. Goto(a, q) /\ UNCHANGED <<rows, lastId>>
        BY <2>5 DEF RefreshCount
    <3> HIDE DEF q
    <3> QED  BY <2>2, <3>1, <3>2
  <2>6. CASE RefreshWrite(a)
      BY <1>a, <1>r, <2>1, <2>6, Fields DEF RefreshWrite
  <2> QED  BY <1>10, <2>3, <2>4, <2>5, <2>6
<1>11. ASSUME NEW a \in Actors, Die(a) PROVE ReqInv'
    BY <1>r, <1>11, Fields DEF Die
<1>12. CASE PatchEvent \/ UNCHANGED vars
    BY <1>t, <1>b, <1>u, <1>12 DEF PatchEvent, vars, ReqInv, ClientOK, SeenIsCurrent, ModeratorOK
<1> QED
    BY <1>1, <1>2, <1>3, <1>4, <1>5, <1>6, <1>7, <1>8, <1>9, <1>10, <1>11, <1>12
    DEF Next, ClientStep, ModeratorStep, SharedStep

-----------------------------------------------------------------------------
(* Counting.                                                               *)

\* Finite sets: a subset has no more members,
LEMMA CardWithin ==
    ASSUME NEW S, IsFiniteSet(S), NEW T, T \subseteq S
    PROVE  /\ IsFiniteSet(T) /\ Cardinality(T) \in Nat /\ Cardinality(S) \in Nat
           /\ Cardinality(T) <= Cardinality(S)
    BY FS_Subset, FS_CardinalityType

\* ... one more member adds at most one,
LEMMA CardPlus ==
    ASSUME NEW S, IsFiniteSet(S), NEW x, NEW T, T \subseteq S \cup {x}
    PROVE  /\ IsFiniteSet(T) /\ Cardinality(T) \in Nat /\ Cardinality(S) \in Nat
           /\ Cardinality(T) <= Cardinality(S) + 1
<1>1. IsFiniteSet(S \cup {x}) /\ Cardinality(S) \in Nat
      /\ Cardinality(S \cup {x}) <= Cardinality(S) + 1
  <2>1. Cardinality(S) \in Nat
      BY FS_CardinalityType
  <2>2. CASE x \in S
    <3>1. S \cup {x} = S
        BY <2>2
    <3> QED  BY <2>1, <3>1
  <2>3. CASE x \notin S
    <3>1. IsFiniteSet(S \cup {x}) /\ Cardinality(S \cup {x}) = Cardinality(S) + 1
        BY <2>3, FS_AddElement, Zenon
    <3> QED  BY <2>1, <3>1
  <2> QED  BY <2>2, <2>3
<1> QED  BY <1>1, FS_Subset, FS_CardinalityType

\* ... and one member fewer takes away at least one.
LEMMA CardMinus ==
    ASSUME NEW S, IsFiniteSet(S), NEW x \in S, NEW T, T \subseteq S \ {x}
    PROVE  /\ IsFiniteSet(T) /\ Cardinality(T) \in Nat /\ Cardinality(S) \in Nat
           /\ Cardinality(T) <= Cardinality(S) - 1
<1>1. IsFiniteSet(S \ {x}) /\ Cardinality(S \ {x}) = Cardinality(S) - 1
    BY FS_RemoveElement
<1> QED  BY <1>1, FS_Subset, FS_CardinalityType

\* A request that may yet take one more seat.
MayTakeSeat(a) ==
    \/ req[a].pc \in {"promoteEvent", "promotePick", "promoteWrite"}
    \/ req[a].pc = "write" /\ req[a].status = "going" /\ ~Holds(req[a].seen)

Tokens == {a \in Actors : MayTakeSeat(a)}

InFlightBound == Cardinality(InFlight) <= MaxInFlight
SeatBound(n)  == Cardinality(Committed) + Cardinality(Tokens) <= n + MaxInFlight - 1

BoundInv(n) == ReqInv /\ InFlightBound /\ SeatBound(n)

\* The committed users, the tokens and the requests in flight can be counted.
LEMMA Finite ==
    /\ IsFiniteSet(Committed) /\ IsFiniteSet(Committed')
    /\ IsFiniteSet(Tokens) /\ IsFiniteSet(Tokens')
    /\ IsFiniteSet(InFlight) /\ IsFiniteSet(InFlight')
<1>1. /\ Committed \subseteq Users /\ Committed' \subseteq Users
      /\ Tokens \subseteq Actors /\ Tokens' \subseteq Actors
      /\ InFlight \subseteq Actors /\ InFlight' \subseteq Actors
    BY DEF Committed, Tokens, InFlight
<1> QED  BY <1>1, FS_Subset

\* The ways in which a step respects the bound: (0) nothing is taken;
LEMMA NothingTaken ==
    ASSUME NEW n \in Nat, SeatBound(n), Committed' \subseteq Committed, Tokens' \subseteq Tokens
    PROVE  SeatBound(n)'
    BY Finite, CardWithin DEF SeatBound

\* (1) a request that may take a seat takes one and may take no other;
LEMMA TokenSpent ==
    ASSUME NEW n \in Nat, SeatBound(n), NEW a \in Tokens, Tokens' \subseteq Tokens \ {a},
           NEW u, Committed' \subseteq Committed \cup {u}
    PROVE  SeatBound(n)'
<1>1. /\ Cardinality(Committed) \in Nat /\ Cardinality(Committed') \in Nat
      /\ Cardinality(Committed') <= Cardinality(Committed) + 1
    BY Finite, CardPlus
<1>2. /\ Cardinality(Tokens) \in Nat /\ Cardinality(Tokens') \in Nat
      /\ Cardinality(Tokens') <= Cardinality(Tokens) - 1
    BY Finite, CardMinus
<1> QED  BY <1>1, <1>2 DEF SeatBound

\* (2) a request gives up a seat and may then hand it on;
LEMMA SeatGivenUp ==
    ASSUME NEW n \in Nat, SeatBound(n), NEW u \in Committed, Committed' \subseteq Committed \ {u},
           NEW a, Tokens' \subseteq Tokens \cup {a}
    PROVE  SeatBound(n)'
<1>1. /\ Cardinality(Committed) \in Nat /\ Cardinality(Committed') \in Nat
      /\ Cardinality(Committed') <= Cardinality(Committed) - 1
    BY Finite, CardMinus
<1>2. /\ Cardinality(Tokens) \in Nat /\ Cardinality(Tokens') \in Nat
      /\ Cardinality(Tokens') <= Cardinality(Tokens) + 1
    BY Finite, CardPlus
<1> QED  BY <1>1, <1>2 DEF SeatBound

\* (3) the seats were counted and one is free: whatever the tokens, each is a
\* request in flight.
LEMMA FreeSeatSeen ==
    ASSUME NEW n \in Nat, Cardinality(Committed) < n, Committed' = Committed, InFlightBound'
    PROVE  SeatBound(n)'
<1>1. Tokens' \subseteq InFlight'
    BY DEF Tokens, MayTakeSeat, InFlight
<1> QED
    BY <1>1, Finite, CardWithin, FS_CardinalityType DEF SeatBound, InFlightBound

(* The API never has more requests in flight than it interleaves.           *)
LEMMA InFlightStep == ReqInv /\ InFlightBound /\ [Next]_vars => InFlightBound'
<1> SUFFICES ASSUME ReqInv, InFlightBound, [Next]_vars PROVE InFlightBound'
    OBVIOUS
<1>t. TypeOK
    BY DEF ReqInv
<1>1. ASSUME NEW a \in Actors, NEW want, NEW user, Begin(a, want, user) PROVE InFlightBound'
  <2>1. InFlight' \subseteq InFlight \cup {a}
      BY <1>t, <1>1, Moved DEF Begin, InFlight
  <2>2. /\ Cardinality(InFlight) \in Nat /\ Cardinality(InFlight') \in Nat
        /\ Cardinality(InFlight') <= Cardinality(InFlight) + 1
      BY <2>1, Finite, CardPlus
  <2> QED  BY <1>1, <2>2 DEF Begin, InFlightBound
<1>2. ASSUME InFlight' \subseteq InFlight PROVE InFlightBound'
    BY <1>2, Finite, CardWithin DEF InFlightBound
<1>3. ASSUME NEW a \in InFlight, NEW r, Goto(a, r) PROVE InFlightBound'
    BY <1>t, <1>2, <1>3, Moved DEF InFlight
<1>4. ASSUME NEW c \in Clients, CountForRsvp(c) \/ WriteExisting(c) \/ WriteNew(c)
      PROVE  InFlightBound'
    BY <1>3, <1>4 DEF CountForRsvp, WriteExisting, WriteNew, At, Finish, InFlight, Actors
<1>5. ASSUME NEW m \in Moderators, CountForApproval(m) \/ Approve(m) PROVE InFlightBound'
    BY <1>3, <1>5 DEF CountForApproval, Approve, At, Finish, InFlight, Actors
<1>6. ASSUME NEW a \in Actors, ReadRow(a) \/ Delete(a) \/ Die(a) PROVE InFlightBound'
    BY <1>3, <1>6 DEF ReadRow, Delete, Die, At, Finish, InFlight
<1>7. ASSUME NEW a \in Actors,
             \/ PromoteReadEvent(a) \/ PromotePick(a) \/ PromoteWrite(a)
             \/ RefreshCount(a) \/ RefreshWrite(a)
      PROVE  InFlightBound'
    BY <1>3, <1>7 DEF PromoteReadEvent, PromotePick, PromoteWrite, RefreshCount, RefreshWrite,
                      At, Finish, InFlight
<1>8. CASE PatchEvent \/ UNCHANGED vars
    BY <1>2, <1>8 DEF PatchEvent, vars, InFlight
<1> QED
    BY <1>1, <1>4, <1>5, <1>6, <1>7, <1>8
    DEF Next, ClientStep, ModeratorStep, SharedStep, BeginRsvp, BeginApproval, Actors

-----------------------------------------------------------------------------
(* Seats and tokens through every step.                                    *)

\* Every step of every handler respects the bound on seats and tokens.
LEMMA SeatStep ==
    ASSUME NEW n, Regime(n)
    PROVE  ReqInv /\ InFlightBound' /\ SeatBound(n) /\ [Next]_vars => SeatBound(n)'
<1> SUFFICES ASSUME ReqInv, InFlightBound', SeatBound(n), [Next]_vars PROVE SeatBound(n)'
    OBVIOUS
<1> USE DEF At, Finish
<1>t. TypeOK /\ n \in Nat /\ rows = [u \in Users |-> rows[u]]
      /\ \A u \in Users : rows[u] \in Row
    BY DEF ReqInv, Regime, TypeOK
<1>a. /\ \A a \in Actors : req[a] \in Request /\ GoodReq(req[a])
      /\ \A c \in Clients : c \in Actors /\ UserOf[c] \in Users
      /\ \A m \in Moderators : m \in Actors
  <2>1. \A a \in Actors : req[a] \in Request /\ GoodReq(req[a])
      BY <1>t, GoodRequests DEF GoodReq
  <2> QED  BY <2>1 DEF Actors
<1>b. /\ \A c \in Clients : ClientOK(c) /\ SeenIsCurrent(c)
      /\ \A m \in Moderators : ModeratorOK(m)
      /\ IdsUnique
    BY DEF ReqInv
\* Tokens when one request moves.
<1>m. ASSUME NEW a \in Actors, NEW r, Goto(a, r)
      PROVE  /\ req'[a] = r
             /\ Tokens' \subseteq Tokens \cup {a}
             /\ ~MayTakeSeat(a)' => Tokens' \subseteq Tokens \ {a}
             /\ MayTakeSeat(a) => a \in Tokens /\ Tokens' \subseteq Tokens
    BY <1>t, <1>m, Moved DEF Tokens, MayTakeSeat
<1>i. ASSUME NEW a \in Actors, NEW r, Goto(a, r), Committed' \subseteq Committed,
             r.pc \notin {"write", "promoteEvent", "promotePick", "promoteWrite"}
      PROVE  SeatBound(n)'
  <2>1. ~MayTakeSeat(a)' /\ req'[a] = r
      BY <1>m, <1>i DEF MayTakeSeat
  <2> QED  BY <1>t, <1>m, <1>i, <2>1, NothingTaken
<1>c. UNCHANGED rows => Committed' = Committed
    BY DEF Committed
<1>1. ASSUME NEW a \in Actors, NEW want, NEW user, Begin(a, want, user) PROVE SeatBound(n)'
  <2> DEFINE q == [Idle EXCEPT !.pc = "readRow", !.want = want, !.user = user, !.ev = event]
  <2>1. q.pc = "readRow"
      BY StartedFields
  <2>2. Goto(a, q) /\ UNCHANGED rows
      BY <1>1 DEF Begin
  <2> HIDE DEF q
  <2> QED  BY <1>c, <1>i, <2>1, <2>2
<1>2. ASSUME NEW a \in Actors, ReadRow(a) PROVE SeatBound(n)'
  <2>1. UNCHANGED rows
      BY <1>2 DEF ReadRow
  <2>2. CASE Goto(a, Idle)
      BY <1>c, <1>i, <2>1, <2>2, Fields
  <2>3. CASE Goto(a, [req[a] EXCEPT !.pc = AfterRead(req[a].want),
                                    !.seen = rows[req[a].user],
                                    !.status = IF req[a].want = "maybe" THEN "maybe" ELSE @])
    <3>1. PICK s : /\ req'[a] = [req[a] EXCEPT !.pc = AfterRead(req[a].want),
                                               !.seen = rows[req[a].user], !.status = s]
                   /\ req[a].want = "maybe" => s = "maybe"
        BY <1>t, <2>3, Moved
    <3>2. req'[a].pc = AfterRead(req[a].want) /\ req'[a].status = s
        BY <1>a, <3>1, ReadFields
    <3>3. ~MayTakeSeat(a)'
        BY <3>1, <3>2 DEF MayTakeSeat, AfterRead
    <3> QED  BY <1>t, <1>c, <1>m, <2>1, <2>3, <3>3, NothingTaken
  <2> QED  BY <1>2, <2>2, <2>3 DEF ReadRow
<1>3. ASSUME NEW c \in Clients, CountForRsvp(c) PROVE SeatBound(n)'
  <2> DEFINE full == Full(req[c].ev, req[c].seen, Cardinality(Committed))
             s == IF full THEN "waitlist" ELSE "going"
             x == IF ~full /\ req[c].ev.gated THEN "pending" ELSE "not_required"
             q == [req[c] EXCEPT !.pc = "write", !.status = s, !.approval = x]
  <2>1. Goto(c, q) /\ UNCHANGED rows
      BY <1>3 DEF CountForRsvp
  <2>2. q.status = s /\ q.seen = req[c].seen /\ q.pc = "write"
      BY <1>a, DecidedFields
  <2>3. CASE full \/ Holds(req[c].seen)
    <3>1. s # "going" \/ Holds(req[c].seen)
        BY <2>3
    <3>2. ~MayTakeSeat(c)'
      <4> HIDE DEF q, s
      <4> QED  BY <1>a, <1>m, <2>1, <2>2, <3>1 DEF MayTakeSeat
    <3> HIDE DEF q
    <3> QED  BY <1>t, <1>a, <1>c, <1>m, <2>1, <3>2, NothingTaken
  <2>4. CASE ~full /\ ~Holds(req[c].seen)
    <3>1. req[c].ev.cap \in 1..n
        BY <1>a, <1>3 DEF CountForRsvp, GoodReq, NeedsEvent, Regime, CapAtMost
    <3>2. Cardinality(Committed) < n
        BY <1>t, <2>4, <3>1, CommittedFinite DEF Full
    <3> QED  BY <1>t, <1>c, <2>1, <3>2, FreeSeatSeen
  <2> QED  BY <2>3, <2>4
\* After its write, a client's request promotes or refreshes.
<1>4. ASSUME NEW c \in Clients, req[c].pc = "write", Goto(c, AfterWrite(req[c])),
             \A u \in Users \ {UserOf[c]} : rows'[u] = rows[u],
             Holds(rows'[UserOf[c]]) /\ ~Holds(rows[UserOf[c]]) => req[c].status = "going",
             Holds(req[c].seen) /\ req[c].want = "maybe" => ~Holds(rows'[UserOf[c]])
      PROVE  SeatBound(n)'
  <2>0. /\ ClientOK(c) /\ SeenIsCurrent(c) /\ c \in Actors /\ UserOf[c] \in Users
        /\ Committed' \subseteq Committed \cup {UserOf[c]}
      BY <1>a, <1>b, <1>4 DEF Committed
  <2>1. CASE req[c].want = "maybe" /\ Holds(req[c].seen)
    <3>1. Committed' \subseteq Committed \ {UserOf[c]} /\ UserOf[c] \in Committed
        BY <1>4, <2>0, <2>1 DEF Committed, SeenIsCurrent
    <3> QED  BY <1>t, <1>m, <1>4, <2>0, <3>1, SeatGivenUp
  <2>2. CASE ~(req[c].want = "maybe" /\ Holds(req[c].seen))
    <3>1. Goto(c, ThenRefresh(req[c], 1))
        BY <1>4, <2>2 DEF AfterWrite
    <3>2. CASE Committed' \subseteq Committed
        BY <1>i, <2>0, <3>1, <3>2, Fields
    <3>3. CASE ~(Committed' \subseteq Committed)
      <4>1. Holds(rows'[UserOf[c]]) /\ ~Holds(rows[UserOf[c]])
          BY <1>4, <2>0, <3>3 DEF Committed
      <4>2. c \in Tokens
          BY <1>4, <2>0, <4>1 DEF Tokens, MayTakeSeat, SeenIsCurrent
      <4>3. Tokens' \subseteq Tokens \ {c}
          BY <1>m, <2>0, <3>1, Fields DEF MayTakeSeat
      <4> QED  BY <1>t, <2>0, <4>2, <4>3, TokenSpent
    <3> QED  BY <3>2, <3>3
  <2> QED  BY <2>1, <2>2
<1>5. ASSUME NEW c \in Clients, WriteExisting(c) PROVE SeatBound(n)'
  <2> DEFINE r == req[c]
  <2>1. r.user = UserOf[c] /\ r.pc = "write" /\ UserOf[c] \in Users /\ rows[UserOf[c]] \in Row
        /\ Goto(c, AfterWrite(r)) /\ ClientOK(c) /\ SeenIsCurrent(c)
      BY <1>t, <1>a, <1>b, <1>5 DEF WriteExisting, ClientOK
  <2>2. CASE rows[UserOf[c]].id = r.seen.id
    <3>1. rows' = [rows EXCEPT ![UserOf[c]].status = r.status, ![UserOf[c]].approval = r.approval]
        BY <1>5, <2>1, <2>2 DEF WriteExisting
    <3>2. rows'[UserOf[c]] = [rows[UserOf[c]] EXCEPT !.status = r.status, !.approval = r.approval]
          /\ \A u \in Users \ {UserOf[c]} : rows'[u] = rows[u]
        BY <1>t, <2>1, <3>1
    <3>3. rows'[UserOf[c]].status = r.status
        BY <2>1, <3>2, RowFields
    <3> QED  BY <1>4, <2>1, <3>2, <3>3 DEF Holds, ClientOK
  <2>3. CASE rows[UserOf[c]].id # r.seen.id
    <3>1. rows' = rows
        BY <1>5, <2>1, <2>3 DEF WriteExisting
    <3>2. ~Holds(r.seen)
        BY <2>1, <2>3 DEF SeenIsCurrent
    <3> QED  BY <1>4, <2>1, <3>1, <3>2
  <2> QED  BY <2>2, <2>3
<1>6. ASSUME NEW c \in Clients, WriteNew(c) PROVE SeatBound(n)'
  <2> DEFINE r == req[c]
  <2>1. r.user = UserOf[c] /\ r.pc = "write" /\ UserOf[c] \in Users /\ r.seen = NoRow
      BY <1>a, <1>b, <1>6 DEF WriteNew, ClientOK
  <2>2. CASE Goto(c, Idle) /\ UNCHANGED rows
      BY <1>a, <1>c, <1>i, <2>2, Fields
  <2>3. CASE /\ rows' = [rows EXCEPT ![r.user] =
                           [status |-> r.status, approval |-> r.approval, id |-> lastId + 1]]
             /\ Goto(c, AfterWrite(r))
    <3>1. rows'[UserOf[c]].status = r.status /\ \A u \in Users \ {UserOf[c]} : rows'[u] = rows[u]
        BY <1>t, <2>1, <2>3
    <3>2. ~Holds(r.seen)
        BY <2>1 DEF Holds, NoRow
    <3> QED  BY <1>4, <2>1, <2>3, <3>1, <3>2 DEF Holds
  <2> QED  BY <1>6, <2>2, <2>3 DEF WriteNew
<1>7. ASSUME NEW a \in Actors, Delete(a) PROVE SeatBound(n)'
  <2>1. a \in Clients /\ req[a].user = UserOf[a] /\ UserOf[a] \in Users
        /\ req[a].want = "not_going" /\ SeenIsCurrent(a) /\ req[a].pc = "delete"
      BY <1>a, <1>b, <1>7 DEF Delete, ModeratorOK, ClientOK, Actors
  <2>2. Committed' \subseteq Committed \ {UserOf[a]}
      BY <1>t, <1>7, <2>1 DEF Delete, Committed, Holds, NoRow
  <2>3. CASE Holds(req[a].seen)
    <3>1. UserOf[a] \in Committed
        BY <2>1, <2>3 DEF SeenIsCurrent, Committed
    <3>2. Goto(a, ThenPromote(req[a]))
        BY <1>7, <2>3 DEF Delete
    <3> QED  BY <1>t, <1>m, <2>2, <3>1, <3>2, SeatGivenUp
  <2>4. CASE ~Holds(req[a].seen)
    <3>1. Goto(a, ThenRefresh(req[a], 1))
        BY <1>7, <2>1, <2>4 DEF Delete
    <3> QED  BY <1>i, <2>2, <3>1, Fields
  <2> QED  BY <2>3, <2>4
<1>8. ASSUME NEW m \in Moderators, CountForApproval(m) \/ Approve(m) PROVE FALSE
    BY <1>b, <1>8 DEF CountForApproval, Approve, ModeratorOK
<1>9. ASSUME NEW a \in Actors, PromoteReadEvent(a) \/ PromotePick(a) PROVE SeatBound(n)'
  <2>1. PICK r : Goto(a, r)
      BY <1>9 DEF PromoteReadEvent, PromotePick
  <2>2. MayTakeSeat(a) /\ UNCHANGED rows
      BY <1>9 DEF PromoteReadEvent, PromotePick, MayTakeSeat
  <2> QED  BY <1>t, <1>c, <1>m, <2>1, <2>2, NothingTaken
<1>10. ASSUME NEW a \in Actors, PromoteWrite(a) PROVE SeatBound(n)'
  <2>1. MayTakeSeat(a) /\ Goto(a, ThenRefresh(req[a], 2)) /\ req[a].n # 0
      BY <1>a, <1>10 DEF PromoteWrite, MayTakeSeat, GoodReq
  <2>2. a \in Tokens /\ Tokens' \subseteq Tokens \ {a}
    <3>1. ~MayTakeSeat(a)'
        BY <1>m, <2>1, Fields DEF MayTakeSeat
    <3> QED  BY <1>m, <2>1, <3>1
  <2>3. \A u \in Users : rows[u].id # req[a].n => rows'[u] = rows[u]
      BY <1>10 DEF PromoteWrite
  <2>4. PICK u : \A v \in Users : rows[v].id = req[a].n => v = u
      BY <1>b, <2>1 DEF IdsUnique
  <2>5. Committed' \subseteq Committed \cup {u}
      BY <2>3, <2>4 DEF Committed
  <2> QED  BY <1>t, <2>2, <2>5, TokenSpent
<1>11. ASSUME NEW a \in Actors, RefreshCount(a) PROVE SeatBound(n)'
  <2> DEFINE q == [req[a] EXCEPT !.pc = "refreshWrite", !.n = Cardinality(Committed)]
  <2>1. q.pc = "refreshWrite"
      BY <1>a, PromotionFields
  <2>2. Goto(a, q) /\ UNCHANGED rows
      BY <1>11 DEF RefreshCount
  <2> HIDE DEF q
  <2> QED  BY <1>c, <1>i, <2>1, <2>2
<1>12. ASSUME NEW a \in Actors, RefreshWrite(a) \/ Die(a) PROVE SeatBound(n)'
    BY <1>c, <1>i, <1>12, Fields DEF RefreshWrite, Die
<1>13. CASE PatchEvent \/ UNCHANGED vars
  <2>1. Committed' = Committed /\ Tokens' = Tokens
      BY <1>c, <1>13 DEF PatchEvent, vars, Tokens, MayTakeSeat
  <2> QED  BY <1>t, <2>1, NothingTaken
<1> QED
    BY <1>1, <1>2, <1>3, <1>5, <1>6, <1>7, <1>8, <1>9, <1>10, <1>11, <1>12, <1>13
    DEF Next, ClientStep, ModeratorStep, SharedStep, BeginRsvp, BeginApproval, Actors

\* Nobody is going at the start, and no request is in flight.
LEMMA BoundInit == ASSUME NEW n, Regime(n) PROVE Init => BoundInv(n)
<1> SUFFICES ASSUME Init PROVE BoundInv(n)
    OBVIOUS
<1>1. \A a \in Actors : req[a].pc = "idle"
    BY Fields DEF Init
<1>2. InFlight = {} /\ Tokens = {} /\ Committed = {}
    BY <1>1 DEF InFlight, Tokens, MayTakeSeat, Committed, Init, Holds, NoRow
<1> QED
    BY <1>2, ReqInit, FS_EmptySet DEF BoundInv, InFlightBound, SeatBound, Regime

\* The three parts of the invariant are preserved together.
LEMMA BoundStep ==
    ASSUME NEW n, Regime(n) PROVE BoundInv(n) /\ [Next]_vars => BoundInv(n)'
    BY ReqStep, InFlightStep, SeatStep DEF BoundInv

\* The bound for every capacity it may be stated for.
CapBounds == \A n \in {s.cap : s \in Settings} : Regime(n) => BoundInv(n)

(* Concurrent requests overbook an event without host approval by fewer     *)
(* seats than there are interleaved requests.                               *)
THEOREM OverbookIsBounded == Spec => []OverbookBound
<1>1. Init => CapBounds
    BY BoundInit DEF CapBounds
<1>2. CapBounds /\ [Next]_vars => CapBounds'
  <2> SUFFICES ASSUME CapBounds, [Next]_vars, NEW n \in {s.cap : s \in Settings}, Regime(n)
               PROVE  BoundInv(n)'
      BY DEF CapBounds
  <2>1. BoundInv(n)
      BY DEF CapBounds
  <2> QED  BY <2>1, BoundStep
<1>3. CapBounds => OverbookBound
  <2> SUFFICES ASSUME CapBounds, NEW n \in {s.cap : s \in Settings},
                      Ungated, OneTabPerUser, CapAtMost(n)
               PROVE  Cardinality(Committed) <= n + MaxInFlight - 1
      BY DEF OverbookBound
  <2>1. Regime(n)
      BY DEF Regime, CapAtMost
  <2>2. BoundInv(n)
      BY <2>1 DEF CapBounds
  <2>3. Cardinality(Committed) \in Nat /\ Cardinality(Tokens) \in Nat
      BY Finite, FS_CardinalityType
  <2> QED  BY <2>1, <2>2, <2>3 DEF BoundInv, SeatBound, Regime
<1> QED  BY <1>1, <1>2, <1>3, PTL DEF Spec

(* Requests handled one at a time never overbook an event whose capacity    *)
(* stays k, whatever order they come in, open or closed to new RSVPs.       *)
THEOREM SerialWithinCapacity ==
    ASSUME MaxInFlight = 1, OneTabPerUser,
           NEW k \in Nat \ {0}, \A s \in Settings : s.cap = k /\ ~s.gated
    PROVE  Spec => []WithinCapacity
<1>1. OverbookBound /\ TypeOK => WithinCapacity
  <2> SUFFICES ASSUME OverbookBound, TypeOK PROVE Cardinality(Committed) <= event.cap
      BY DEF WithinCapacity
  <2>1. event \in Settings /\ event.cap = k /\ k \in {s.cap : s \in Settings}
      BY DEF TypeOK
  <2>2. Ungated /\ CapAtMost(k)
      BY DEF Ungated, CapAtMost
  <2> QED  BY <2>1, <2>2, CommittedFinite DEF OverbookBound
<1> QED  BY <1>1, OverbookIsBounded, TypeCorrect, PTL
-----------------------------------------------------------------------------
(* Requests handled one at a time: no two are ever in flight together, so   *)
(* what the one request has read is what the tables hold.                   *)

Serial == MaxInFlight = 1 /\ ~Failures

Alone == \A a, b \in InFlight : a = b

\* Only the request that moves is in flight, before and after its step.
LEMMA SerialStep ==
    ASSUME Serial, TypeOK, Alone, Next
    PROVE  \/ PatchEvent
           \/ \E a \in Actors :
                 /\ \A b \in Actors \ {a} : req[b].pc = "idle" /\ req'[b] = req[b]
                 /\ \/ \E c \in Clients : c = a /\ ClientStep(c)
                    \/ \E m \in Moderators : m = a /\ ModeratorStep(m)
                    \/ SharedStep(a)
<1> USE DEF At, Finish
<1>1. ASSUME NEW a \in Actors, NEW want, NEW user, Begin(a, want, user)
      PROVE  \A b \in Actors \ {a} : req[b].pc = "idle" /\ req'[b] = req[b]
  <2>1. InFlight = {}
      BY <1>1, Finite, FS_CardinalityType, FS_EmptySet DEF Begin, Serial
  <2> QED  BY <1>1, <2>1, Moved DEF Begin, InFlight
<1>2. ASSUME NEW a \in InFlight, NEW r, Goto(a, r)
      PROVE  \A b \in Actors \ {a} : req[b].pc = "idle" /\ req'[b] = req[b]
    BY <1>2, Moved DEF Alone, InFlight
<1>3. ASSUME NEW c \in Clients, ClientStep(c)
      PROVE  \A b \in Actors \ {c} : req[b].pc = "idle" /\ req'[b] = req[b]
  <2>1. CASE CountForRsvp(c) \/ WriteExisting(c) \/ WriteNew(c)
      BY <1>2, <2>1 DEF CountForRsvp, WriteExisting, WriteNew, InFlight, Actors
  <2> QED  BY <1>1, <1>3, <2>1 DEF ClientStep, BeginRsvp, Actors
<1>4. ASSUME NEW m \in Moderators, ModeratorStep(m)
      PROVE  \A b \in Actors \ {m} : req[b].pc = "idle" /\ req'[b] = req[b]
  <2>1. CASE CountForApproval(m) \/ Approve(m)
      BY <1>2, <2>1 DEF CountForApproval, Approve, InFlight, Actors
  <2> QED  BY <1>1, <1>4, <2>1 DEF ModeratorStep, BeginApproval, Actors
<1>5. ASSUME NEW a \in Actors, SharedStep(a)
      PROVE  \A b \in Actors \ {a} : req[b].pc = "idle" /\ req'[b] = req[b]
  <2>1. CASE ReadRow(a) \/ Delete(a) \/ Die(a)
      BY <1>2, <2>1 DEF ReadRow, Delete, Die, InFlight
  <2>2. CASE \/ PromoteReadEvent(a) \/ PromotePick(a) \/ PromoteWrite(a)
             \/ RefreshCount(a) \/ RefreshWrite(a)
      BY <1>2, <2>2 DEF PromoteReadEvent, PromotePick, PromoteWrite, RefreshCount, RefreshWrite,
                        InFlight
  <2> QED  BY <1>5, <2>1, <2>2 DEF SharedStep
<1> QED  BY <1>3, <1>4, <1>5 DEF Next, Actors

LEMMA AloneStep ==
    ASSUME Serial PROVE TypeOK /\ Alone /\ [Next]_vars => Alone'
<1> SUFFICES ASSUME TypeOK, Alone, [Next]_vars PROVE Alone'
    OBVIOUS
<1>1. CASE PatchEvent \/ UNCHANGED vars
    BY <1>1 DEF PatchEvent, vars, Alone, InFlight
<1>2. ASSUME NEW a \in Actors, \A b \in Actors \ {a} : req[b].pc = "idle" /\ req'[b] = req[b]
      PROVE  Alone'
    BY <1>2 DEF Alone, InFlight
<1> QED  BY <1>1, <1>2, SerialStep

\* The handlers' steps before the first that writes a row.
Reading == {"idle", "readRow", "count", "write", "delete", "approve"}

\* Until a request writes, the cached count is right; the count that a request
\* is about to store is right.
CountInv ==
    /\ TypeOK /\ Alone
    /\ (\A a \in Actors : req[a].pc \in Reading) => rsvpCount = Cardinality(Committed)
    /\ \A a \in Actors : req[a].pc = "refreshWrite" => req[a].n = Cardinality(Committed)

\* Every handler that may have changed the committed rows stores their number last.
LEMMA CountStep == ASSUME Serial PROVE CountInv /\ [Next]_vars => CountInv'
<1> SUFFICES ASSUME CountInv, [Next]_vars PROVE CountInv'
    OBVIOUS
<1> USE DEF At, Finish
<1>t. /\ TypeOK /\ Alone /\ TypeOK' /\ Alone'
      /\ \A a \in Actors : req[a] \in Request
      /\ UNCHANGED rows => Committed' = Committed
    BY TypeStep, AloneStep DEF CountInv, TypeOK, Committed
<1>1. CASE PatchEvent \/ UNCHANGED vars
    BY <1>t, <1>1 DEF PatchEvent, vars, CountInv
<1>2. ASSUME NEW a \in Actors, \A b \in Actors \ {a} : req[b].pc = "idle" /\ req'[b] = req[b],
             \/ \E c \in Clients : c = a /\ ClientStep(c)
             \/ \E m \in Moderators : m = a /\ ModeratorStep(m)
             \/ SharedStep(a)
      PROVE  CountInv'
\* A step that leaves the rows and the cached count alone,
  <2>r. ASSUME NEW r, Goto(a, r), req[a].pc \in Reading, UNCHANGED <<rows, rsvpCount>>,
               r.pc # "refreshWrite"
        PROVE  CountInv'
    <3>1. rsvpCount = Cardinality(Committed)
        BY <1>2, <2>r DEF CountInv, Reading
    <3> QED  BY <1>t, <1>2, <2>r, <3>1, Moved DEF CountInv
\* ... and one after which the request still has to store the count.
  <2>w. ASSUME NEW r, Goto(a, r), r.pc \notin Reading, r.pc # "refreshWrite"
        PROVE  CountInv'
      BY <1>t, <1>2, <2>w, Moved DEF CountInv
  <2>b. ASSUME NEW want, NEW user, Begin(a, want, user) PROVE CountInv'
    <3> DEFINE q == [Idle EXCEPT !.pc = "readRow", !.want = want, !.user = user, !.ev = event]
    <3>1. q.pc = "readRow"
        BY StartedFields
    <3>2. Goto(a, q) /\ req[a].pc = "idle" /\ UNCHANGED <<rows, rsvpCount>>
        BY <2>b DEF Begin
    <3> HIDE DEF q
    <3> QED  BY <2>r, <3>1, <3>2 DEF Reading
  <2>1. CASE \E c \in Clients : c = a /\ ClientStep(c)
    <3>1. CASE BeginRsvp(a)
        BY <2>b, <3>1 DEF BeginRsvp
    <3>2. CASE CountForRsvp(a)
      <4>1. PICK s, x : Goto(a, [req[a] EXCEPT !.pc = "write", !.status = s, !.approval = x])
          BY <3>2 DEF CountForRsvp
      <4>2. [req[a] EXCEPT !.pc = "write", !.status = s, !.approval = x].pc = "write"
          BY <1>t, DecidedFields
      <4> QED  BY <2>r, <3>2, <4>1, <4>2 DEF CountForRsvp, Reading
    <3>3. AfterWrite(req[a]).pc \in {"promoteEvent", "refreshCount"}
        BY Fields DEF AfterWrite
    <3>4. CASE WriteExisting(a)
        BY <2>w, <3>3, <3>4 DEF WriteExisting, Reading
    <3>5. CASE WriteNew(a)
        BY <2>r, <2>w, <3>3, <3>5, Fields DEF WriteNew, Reading
    <3> QED  BY <2>1, <3>1, <3>2, <3>4, <3>5 DEF ClientStep
  <2>2. CASE \E m \in Moderators : m = a /\ ModeratorStep(m)
    <3>1. CASE BeginApproval(a)
        BY <2>b, <3>1 DEF BeginApproval
    <3>2. CASE CountForApproval(a)
      <4>1. [req[a] EXCEPT !.pc = "approve"].pc = "approve"
          BY <1>t DEF Request
      <4> QED  BY <2>r, <3>2, <4>1, Fields DEF CountForApproval, Reading
    <3>3. CASE Approve(a)
        BY <2>w, <3>3, Fields DEF Approve, Reading
    <3> QED  BY <2>2, <3>1, <3>2, <3>3 DEF ModeratorStep
  <2>3. CASE ReadRow(a)
    <3>1. CASE Goto(a, Idle)
        BY <2>r, <2>3, <3>1, Fields DEF ReadRow, Reading
    <3>2. CASE Goto(a, [req[a] EXCEPT !.pc = AfterRead(req[a].want),
                                      !.seen = rows[req[a].user],
                                      !.status = IF req[a].want = "maybe" THEN "maybe" ELSE @])
      <4>1. PICK s : Goto(a, [req[a] EXCEPT !.pc = AfterRead(req[a].want),
                                            !.seen = rows[req[a].user], !.status = s])
          BY <3>2
      <4> DEFINE q == [req[a] EXCEPT !.pc = AfterRead(req[a].want),
                                     !.seen = rows[req[a].user], !.status = s]
      <4>2. q.pc = AfterRead(req[a].want)
          BY <1>t, ReadFields
      <4>3. Goto(a, q) /\ req[a].pc = "readRow" /\ UNCHANGED <<rows, rsvpCount>>
          BY <2>3, <4>1 DEF ReadRow
      <4>4. AfterRead(req[a].want) # "refreshWrite"
          BY DEF AfterRead
      <4> HIDE DEF q
      <4> QED  BY <2>r, <4>2, <4>3, <4>4 DEF Reading
    <3> QED  BY <2>3, <3>1, <3>2 DEF ReadRow
  <2>4. CASE Delete(a)
      BY <2>w, <2>4, Fields DEF Delete, Reading
  <2>5. CASE PromoteReadEvent(a)
    <3>1. [req[a] EXCEPT !.pc = "promotePick", !.ev = event].pc = "promotePick"
        BY <1>t, PromotionFields
    <3> QED  BY <2>w, <2>5, <3>1 DEF PromoteReadEvent, Reading
  <2>6. CASE PromotePick(a)
    <3>1. CASE Goto(a, ThenRefresh(req[a], 1))
        BY <2>w, <3>1, Fields DEF Reading
    <3>2. ASSUME NEW u \in Users,
                 Goto(a, [req[a] EXCEPT !.pc = "promoteWrite", !.n = rows[u].id])
          PROVE  CountInv'
      <4>1. [req[a] EXCEPT !.pc = "promoteWrite", !.n = rows[u].id].pc = "promoteWrite"
          BY <1>t, PromotionFields
      <4> QED  BY <2>w, <3>2, <4>1 DEF Reading
    <3> QED  BY <2>6, <3>1, <3>2 DEF PromotePick
  <2>7. CASE PromoteWrite(a)
      BY <2>w, <2>7, Fields DEF PromoteWrite, Reading
  <2>8. CASE RefreshCount(a)
    <3> DEFINE q == [req[a] EXCEPT !.pc = "refreshWrite", !.n = Cardinality(Committed)]
    <3>1. q.pc = "refreshWrite" /\ q.n = Cardinality(Committed)
        BY <1>t DEF Request
    <3>2. Goto(a, q) /\ UNCHANGED rows
        BY <2>8 DEF RefreshCount
    <3> HIDE DEF q
    <3>3. req'[a] = q /\ \A b \in Actors \ {a} : req'[b].pc = "idle"
        BY <1>t, <1>2, <3>2, Moved
    <3> QED  BY <1>t, <3>1, <3>2, <3>3 DEF CountInv, Reading
  <2>9. CASE RefreshWrite(a)
    <3>1. rsvpCount' = Cardinality(Committed') /\ UNCHANGED rows
        BY <1>t, <2>9 DEF RefreshWrite, CountInv
    <3>2. req'[a].pc # "refreshWrite"
        BY <1>t, <2>9, Moved, Fields DEF RefreshWrite
    <3> QED  BY <1>t, <1>2, <3>1, <3>2 DEF CountInv
  <2>10. CASE Die(a)
      BY <2>10 DEF Die, Serial
  <2> QED
      BY <1>2, <2>1, <2>2, <2>3, <2>4, <2>5, <2>6, <2>7, <2>8, <2>9, <2>10 DEF SharedStep
<1> QED  BY <1>t, <1>1, <1>2, SerialStep

\* Nothing is in flight at the start, and nobody is going.
LEMMA SerialInit == Init => Alone /\ InFlight = {} /\ Committed = {} /\ Waitlist = {}
<1> SUFFICES ASSUME Init PROVE InFlight = {} /\ Committed = {} /\ Waitlist = {}
    BY DEF Alone
<1> QED  BY Fields DEF Init, InFlight, Committed, Waitlist, Holds, NoRow

(* Requests handled one at a time leave the cached number of people going   *)
(* equal to the committed rows, whatever the handlers, the host's approval, *)
(* the capacities and the tabs of a person: refreshEventRsvpCount.          *)
THEOREM SerialCountIsExact == ASSUME Serial PROVE Spec => []CountExactAtRest
<1>1. Init => CountInv
    BY SerialInit, TypeCorrectInit, FS_EmptySet, Fields DEF CountInv, Init
<1>2. CountInv => CountExactAtRest
    BY DEF CountInv, CountExactAtRest, AtRest, InFlight, Reading
<1> QED  BY <1>1, <1>2, CountStep, PTL DEF Spec
-----------------------------------------------------------------------------
(* Nobody waits while a seat is free, when requests are handled one at a    *)
(* time.  A seat is given up only by a request that goes on to promote; it  *)
(* finds the one seat missing, and fills it with somebody who waits.  The   *)
(* waitlist is joined only when the seats that others hold fill the event.  *)

\* The events the promise is about: capacity k, no host approval.
SerialRegime(k) == Serial /\ k \in Nat /\ \A s \in Settings : s.cap = k /\ ~s.gated

SeatsTaken(k)  == Waitlist # {} => Cardinality(Committed) >= k
OneSeatFree(k) == Waitlist # {} => Cardinality(Committed) + 1 >= k

Promoting == {"promoteEvent", "promotePick", "promoteWrite"}

\* What the request in flight relies on, and owes, at each of its steps.
SerialReq(k, r) ==
    /\ r.approval # "pending" /\ r.pc # "approve"
    /\ r.pc = "count" => r.want = "going"
    /\ r.pc = "delete" => r.want # "reject"
    /\ r.pc = "write" => \/ r.want = "going" /\ r.status # "maybe"
                         \/ r.want = "maybe" /\ r.status = "maybe"
    /\ r.pc \in {"count", "write", "delete"} => r.seen = rows[r.user]
    /\ r.pc = "write" /\ r.status = "waitlist" => Cardinality(Committed \ {r.user}) >= k
    /\ r.pc = "promoteWrite" => \E u \in Waitlist : rows[u].id = r.n
    /\ IF r.pc \in Promoting THEN OneSeatFree(k) ELSE SeatsTaken(k)

SerialInv(k) ==
    /\ TypeOK /\ Alone /\ NoPending
    /\ AtRest => SeatsTaken(k)
    /\ \A a \in InFlight : SerialReq(k, req[a])

\* What has to be shown of the step of the one request.
LEMMA OneSerialStep ==
    ASSUME NEW k, TypeOK, TypeOK', Alone', NoPending', NEW a \in Actors, NEW r, Goto(a, r),
           \A b \in Actors \ {a} : req[b].pc = "idle" /\ req'[b] = req[b],
           r.pc = "idle" => SeatsTaken(k)',
           r.pc # "idle" =>
               /\ r.approval # "pending" /\ r.pc # "approve"
               /\ r.pc = "count" => r.want = "going"
               /\ r.pc = "delete" => r.want # "reject"
               /\ r.pc = "write" => \/ r.want = "going" /\ r.status # "maybe"
                                    \/ r.want = "maybe" /\ r.status = "maybe"
               /\ r.pc \in {"count", "write", "delete"} => r.seen = rows'[r.user]
               /\ r.pc = "write" /\ r.status = "waitlist" => Cardinality(Committed' \ {r.user}) >= k
               /\ r.pc = "promoteWrite" => \E u \in Waitlist' : rows'[u].id = r.n
               /\ IF r.pc \in Promoting THEN OneSeatFree(k)' ELSE SeatsTaken(k)'
    PROVE  SerialInv(k)'
<1>1. req'[a] = r /\ \A b \in Actors \ {a} : req'[b].pc = "idle"
    BY Moved
<1>2. InFlight' = {b \in {a} : r.pc # "idle"}
    BY <1>1 DEF InFlight
<1> QED  BY <1>1, <1>2 DEF SerialInv, SerialReq, AtRest

\* Writing one row changes the committed users and the waitlist by one user.
LEMMA OneRowWritten ==
    ASSUME NEW u \in Users, \A v \in Users \ {u} : rows'[v] = rows[v]
    PROVE  /\ Committed' \ {u} = Committed \ {u} /\ Waitlist' \ {u} = Waitlist \ {u}
           /\ Cardinality(Committed) \in Nat /\ Cardinality(Committed') \in Nat
           /\ Cardinality(Committed \ {u}) \in Nat
           /\ Cardinality(Committed) <= Cardinality(Committed \ {u}) + 1
           /\ Cardinality(Committed \ {u}) <= Cardinality(Committed')
           /\ u \in Committed' => Cardinality(Committed') = Cardinality(Committed \ {u}) + 1
           /\ u \notin Committed => Cardinality(Committed) = Cardinality(Committed \ {u})
<1>1. Committed' \ {u} = Committed \ {u} /\ Waitlist' \ {u} = Waitlist \ {u}
    BY DEF Committed, Waitlist
<1>2. /\ Cardinality(Committed) \in Nat /\ Cardinality(Committed \ {u}) \in Nat
      /\ Cardinality(Committed) <= Cardinality(Committed \ {u}) + 1
  <2>1. IsFiniteSet(Committed \ {u})
      BY Finite, FS_Subset
  <2> QED  BY <2>1, CardPlus
<1>3. Cardinality(Committed') \in Nat /\ Cardinality(Committed \ {u}) <= Cardinality(Committed')
    BY <1>1, Finite, CardWithin
<1>4. ASSUME u \in Committed' PROVE Cardinality(Committed') = Cardinality(Committed \ {u}) + 1
  <2>1. Cardinality(Committed' \ {u}) = Cardinality(Committed') - 1
      BY <1>4, Finite, FS_RemoveElement
  <2>2. Cardinality(Committed' \ {u}) = Cardinality(Committed \ {u})
      BY <1>1, Zenon
  <2> QED  BY <1>2, <1>3, <2>1, <2>2
<1>5. ASSUME u \notin Committed PROVE Committed = Committed \ {u}
    BY <1>5
<1> QED  BY <1>1, <1>2, <1>3, <1>4, <1>5

\* The one request writes the row of its user, and promotes if that gave up a seat.
LEMMA WriteKeepsSeatsTaken ==
    ASSUME NEW k, SerialRegime(k), SerialInv(k), TypeOK', Alone', NEW a \in InFlight,
           \A b \in Actors \ {a} : req[b].pc = "idle" /\ req'[b] = req[b],
           req[a].seen = rows[req[a].user], NEW q, Goto(a, q),
           \A v \in Users \ {req[a].user} : rows'[v] = rows[v],
           rows'[req[a].user].approval # "pending",
           rows'[req[a].user].status = "waitlist" =>
               Cardinality(Committed \ {req[a].user}) >= k,
           SeatsTaken(k), q \in {ThenPromote(req[a]), ThenRefresh(req[a], 1)},
           Holds(req[a].seen) /\ rows'[req[a].user].status \notin {"going", "waitlist"}
               => q = ThenPromote(req[a]),
           q = ThenPromote(req[a]) => rows'[req[a].user].status # "waitlist"
    PROVE  SerialInv(k)'
<1> DEFINE u == req[a].user
<1>1. u \in Users /\ a \in Actors /\ TypeOK /\ rows[u] \in Row /\ rows'[u] \in Row
    BY DEF SerialInv, TypeOK, InFlight
<1>2. NoPending'
    BY <1>1 DEF NoPending, SerialInv
<1>3. /\ Committed' \ {u} = Committed \ {u} /\ Waitlist' \ {u} = Waitlist \ {u}
      /\ Cardinality(Committed) \in Nat /\ Cardinality(Committed') \in Nat
      /\ Cardinality(Committed \ {u}) \in Nat
      /\ Cardinality(Committed) <= Cardinality(Committed \ {u}) + 1
      /\ Cardinality(Committed \ {u}) <= Cardinality(Committed')
      /\ u \in Committed' => Cardinality(Committed') = Cardinality(Committed \ {u}) + 1
      /\ u \notin Committed => Cardinality(Committed) = Cardinality(Committed \ {u})
    BY <1>1, OneRowWritten
<1>4. k \in Nat
    BY DEF SerialRegime
<1>5. ASSUME rows'[u].status # "waitlist" PROVE Waitlist' \subseteq Waitlist
    BY <1>3, <1>5 DEF Waitlist
<1>6. OneSeatFree(k)' \/ q # ThenPromote(req[a])
    BY <1>3, <1>4, <1>5 DEF OneSeatFree, SeatsTaken
<1>7. CASE q = ThenPromote(req[a])
    BY <1>1, <1>2, <1>6, <1>7, OneSerialStep, Fields DEF Promoting
<1>8. CASE q = ThenRefresh(req[a], 1) /\ q # ThenPromote(req[a])
  <2>1. SeatsTaken(k)'
    <3>1. CASE rows'[u].status = "waitlist"
        BY <1>3, <1>4, <3>1 DEF SeatsTaken
    <3>2. CASE rows'[u].status = "going"
      <4>1. u \in Committed'
          BY <1>1, <3>2 DEF Committed, Holds, Row, Approvals, NoRow
      <4> QED  BY <1>3, <1>4, <1>5, <3>2, <4>1 DEF SeatsTaken
    <3>3. CASE rows'[u].status \notin {"going", "waitlist"}
      <4>1. u \notin Committed
          BY <1>8, <3>3 DEF Committed
      <4> QED  BY <1>3, <1>4, <1>5, <3>3, <4>1 DEF SeatsTaken
    <3> QED  BY <3>1, <3>2, <3>3
  <2>2. q.pc = "refreshCount" /\ q.approval # "pending"
      BY <1>8, Fields
  <2> HIDE DEF u
  <2> QED  BY <1>1, <1>2, <2>1, <2>2, OneSerialStep DEF Promoting
<1> QED  BY <1>7, <1>8

\* Every step of every handler keeps the waitlist empty while a seat is free.
LEMMA SerialSeatStep ==
    ASSUME NEW k, SerialRegime(k) PROVE SerialInv(k) /\ [Next]_vars => SerialInv(k)'
<1> SUFFICES ASSUME SerialInv(k), [Next]_vars PROVE SerialInv(k)'
    OBVIOUS
<1> USE DEF At, Finish
<1>t. /\ TypeOK /\ Alone /\ TypeOK' /\ Alone' /\ k \in Nat /\ Serial /\ NoPending
      /\ \A s \in Settings : s.cap = k /\ ~s.gated
      /\ \A a \in InFlight : SerialReq(k, req[a])
      /\ AtRest => SeatsTaken(k)
    BY TypeStep, AloneStep DEF SerialInv, SerialRegime
<1>a. /\ \A a \in Actors : req[a] \in Request /\ GoodReq(req[a])
      /\ \A u \in Users : rows[u] \in Row
      /\ rows = [u \in Users |-> rows[u]]
  <2>1. \A a \in Actors : req[a] \in Request /\ GoodReq(req[a])
      BY <1>t, GoodRequests DEF GoodReq
  <2> QED  BY <1>t, <2>1 DEF TypeOK
<1>c. UNCHANGED rows =>
          /\ Committed' = Committed /\ Waitlist' = Waitlist /\ NoPending'
          /\ SeatsTaken(k)' = SeatsTaken(k) /\ OneSeatFree(k)' = OneSeatFree(k)
    BY <1>t DEF Committed, Waitlist, NoPending, SeatsTaken, OneSeatFree
<1>1. CASE PatchEvent \/ UNCHANGED vars
  <2>1. UNCHANGED <<rows, req>>
      BY <1>1 DEF PatchEvent, vars
  <2>2. InFlight' = InFlight
      BY <2>1 DEF InFlight
  <2> QED  BY <1>t, <1>c, <2>1, <2>2 DEF SerialInv, SerialReq, AtRest
<1>2. ASSUME NEW a \in Actors, \A b \in Actors \ {a} : req[b].pc = "idle" /\ req'[b] = req[b],
             \/ \E c \in Clients : c = a /\ ClientStep(c)
             \/ \E m \in Moderators : m = a /\ ModeratorStep(m)
             \/ SharedStep(a)
      PROVE  SerialInv(k)'
  <2>0. /\ req[a].pc # "idle" => a \in InFlight /\ SerialReq(k, req[a]) /\ req[a].user \in Users
        /\ req[a].pc \notin Promoting => SeatsTaken(k)
    <3>1. req[a].pc = "idle" => AtRest
        BY <1>2 DEF AtRest, InFlight
    <3>2. req[a].pc # "idle" => a \in InFlight /\ SerialReq(k, req[a]) /\ req[a].user \in Users
        BY <1>t, <1>a DEF InFlight, GoodReq
    <3> QED  BY <1>t, <3>1, <3>2 DEF SerialReq
\* A step that reads on, or ends, outside a promotion.
  <2>r. ASSUME NEW r, Goto(a, r), UNCHANGED rows, SeatsTaken(k),
               r.pc \in {"idle", "readRow", "refreshCount", "refreshWrite"},
               r.pc # "idle" => r.approval # "pending"
        PROVE  SerialInv(k)'
      BY <1>t, <1>2, <1>c, <2>r, OneSerialStep DEF Promoting
  <2>b. ASSUME NEW want, NEW user, Begin(a, want, user) PROVE SerialInv(k)'
    <3> DEFINE q == [Idle EXCEPT !.pc = "readRow", !.want = want, !.user = user, !.ev = event]
    <3>1. q.pc = "readRow" /\ q.approval = "not_required"
        BY StartedFields
    <3>2. Goto(a, q) /\ req[a].pc = "idle" /\ UNCHANGED rows
        BY <2>b DEF Begin
    <3> HIDE DEF q
    <3> QED  BY <2>0, <2>r, <3>1, <3>2 DEF Promoting
  <2>1. CASE CountForRsvp(a)
    <3> DEFINE full == Full(req[a].ev, req[a].seen, Cardinality(Committed))
               s == IF full THEN "waitlist" ELSE "going"
               x == IF ~full /\ req[a].ev.gated THEN "pending" ELSE "not_required"
               q == [req[a] EXCEPT !.pc = "write", !.status = s, !.approval = x]
    <3>1. Goto(a, q) /\ req[a].pc = "count" /\ req[a].want = "going" /\ UNCHANGED rows
        BY <2>1 DEF CountForRsvp
    <3>2. req[a].ev \in Settings /\ req[a].user \in Users /\ req[a].seen = rows[req[a].user]
          /\ SeatsTaken(k)
        BY <1>a, <2>0, <3>1 DEF GoodReq, NeedsEvent, SerialReq, Promoting
    <3>3. x = "not_required" /\ s # "maybe"
        BY <1>t, <3>2
    <3>4. s = "waitlist" => Cardinality(Committed \ {req[a].user}) >= k
      <4>1. CASE Holds(rows[req[a].user])
        <5>1. Cardinality(Committed \ {req[a].user}) = Cardinality(Committed) - 1
            BY <3>2, <4>1, Finite, FS_RemoveElement DEF Committed
        <5> QED  BY <1>t, <3>2, <4>1, <5>1, CommittedFinite DEF Full
      <4>2. CASE ~Holds(rows[req[a].user])
        <5>1. Committed \ {req[a].user} = Committed
            BY <4>2 DEF Committed
        <5> QED  BY <1>t, <3>2, <4>2, <5>1, CommittedFinite DEF Full
      <4> QED  BY <4>1, <4>2
    <3>5. q.pc = "write" /\ q.status = s /\ q.approval = x /\ q.want = req[a].want
          /\ q.user = req[a].user /\ q.seen = req[a].seen
        BY <1>a, DecidedFields
    <3> HIDE DEF q, s, x
    <3> QED  BY <1>t, <1>2, <1>c, <3>1, <3>2, <3>3, <3>4, <3>5, OneSerialStep DEF Promoting
\* What a request about to write or delete knows.
  <2>w. ASSUME req[a].pc \in {"write", "delete"}
        PROVE  /\ a \in InFlight /\ req[a].user \in Users /\ req[a].seen = rows[req[a].user]
               /\ SerialReq(k, req[a]) /\ SeatsTaken(k)
      BY <2>0, <2>w DEF SerialReq, Promoting
  <2>2. CASE WriteExisting(a)
    <3> DEFINE r == req[a]
    <3>1. r.pc = "write" /\ Goto(a, AfterWrite(r))
        BY <2>2 DEF WriteExisting
    <3>2. rows' = [rows EXCEPT ![r.user].status = r.status, ![r.user].approval = r.approval]
        BY <2>2, <2>w, <3>1 DEF WriteExisting
    <3>3. rows'[r.user] = [rows[r.user] EXCEPT !.status = r.status, !.approval = r.approval]
          /\ \A v \in Users \ {r.user} : rows'[v] = rows[v]
        BY <1>a, <2>w, <3>1, <3>2
    <3>4. rows'[r.user].status = r.status /\ rows'[r.user].approval = r.approval
        BY <1>a, <2>w, <3>1, <3>3, RowFields
    <3>5. /\ r.approval # "pending"
          /\ \/ r.want = "going" /\ r.status # "maybe"
             \/ r.want = "maybe" /\ r.status = "maybe"
          /\ r.status = "waitlist" => Cardinality(Committed \ {r.user}) >= k
          /\ r.status \in Statuses
      <4>1. SerialReq(k, r) /\ r.status \in Statuses
          BY <1>a, <2>w, <3>1 DEF GoodReq
      <4> HIDE DEF r
      <4> QED  BY <3>1, <4>1 DEF SerialReq
    <3>6. /\ AfterWrite(r) = ThenPromote(r) \/ AfterWrite(r) = ThenRefresh(r, 1)
          /\ r.status = "maybe" /\ Holds(r.seen) => AfterWrite(r) = ThenPromote(r)
          /\ AfterWrite(r) = ThenPromote(r) => r.status = "maybe"
        BY <3>5, Fields DEF AfterWrite
    <3> QED
        BY <1>t, <1>2, <2>w, <3>1, <3>3, <3>4, <3>5, <3>6, WriteKeepsSeatsTaken DEF Statuses
  <2>3. CASE WriteNew(a)
    <3> DEFINE r == req[a]
    <3>1. r.pc = "write" /\ r.seen = NoRow
        BY <2>3 DEF WriteNew
    <3>2. /\ Goto(a, AfterWrite(r))
          /\ rows' = [rows EXCEPT ![r.user] =
                        [status |-> r.status, approval |-> r.approval, id |-> lastId + 1]]
        BY <2>3, <2>w, <3>1 DEF WriteNew
    <3>3. rows'[r.user].status = r.status /\ rows'[r.user].approval = r.approval
          /\ \A v \in Users \ {r.user} : rows'[v] = rows[v]
        BY <1>a, <2>w, <3>1, <3>2
    <3>4. /\ r.approval # "pending"
          /\ \/ r.want = "going" /\ r.status # "maybe"
             \/ r.want = "maybe" /\ r.status = "maybe"
          /\ r.status = "waitlist" => Cardinality(Committed \ {r.user}) >= k
          /\ ~Holds(r.seen)
      <4>1. SerialReq(k, r)
          BY <2>w, <3>1
      <4> HIDE DEF r
      <4> QED  BY <3>1, <4>1 DEF SerialReq, Holds, NoRow
    <3>5. AfterWrite(r) = ThenRefresh(r, 1) /\ ThenRefresh(r, 1) # ThenPromote(r)
        BY <3>4, Fields DEF AfterWrite
    <3> QED  BY <1>t, <1>2, <2>w, <3>1, <3>2, <3>3, <3>4, <3>5, WriteKeepsSeatsTaken
  <2>4. CASE Delete(a)
    <3> DEFINE r == req[a]
               q == IF r.want = "reject" \/ Holds(r.seen) THEN ThenPromote(r)
                                                          ELSE ThenRefresh(r, 1)
    <3>1. r.pc = "delete" /\ rows' = [rows EXCEPT ![r.user] = NoRow] /\ Goto(a, q)
        BY <2>4 DEF Delete
    <3>2. /\ rows'[r.user].status = "none" /\ rows'[r.user].approval = "not_required"
          /\ \A v \in Users \ {r.user} : rows'[v] = rows[v]
        BY <1>a, <2>w, <3>1 DEF NoRow
    <3>3. /\ q = ThenPromote(r) \/ q = ThenRefresh(r, 1)
          /\ Holds(r.seen) => q = ThenPromote(r)
        OBVIOUS
    <3> HIDE DEF q
    <3> QED  BY <1>t, <1>2, <2>w, <3>1, <3>2, <3>3, WriteKeepsSeatsTaken
  <2>5. CASE ReadRow(a)
    <3>1. req[a].pc = "readRow" /\ UNCHANGED rows /\ SeatsTaken(k)
        BY <2>0, <2>5 DEF ReadRow, Promoting
    <3>2. CASE Goto(a, Idle)
        BY <2>r, <3>1, <3>2, Fields
    <3>3. ASSUME ~Refused(req[a], rows[req[a].user]),
                 Goto(a, [req[a] EXCEPT !.pc = AfterRead(req[a].want),
                                        !.seen = rows[req[a].user],
                                        !.status = IF req[a].want = "maybe" THEN "maybe" ELSE @])
          PROVE  SerialInv(k)'
      <4>1. req[a].want \notin Decisions
        <5>1. rows[req[a].user].approval # "pending"
            BY <1>t, <2>0, <3>1 DEF NoPending
        <5> QED  BY <3>3, <5>1 DEF Refused
      <4>2. PICK s : /\ Goto(a, [req[a] EXCEPT !.pc = AfterRead(req[a].want),
                                               !.seen = rows[req[a].user], !.status = s])
                     /\ req[a].want = "maybe" => s = "maybe"
          BY <3>3
      <4> DEFINE q == [req[a] EXCEPT !.pc = AfterRead(req[a].want),
                                     !.seen = rows[req[a].user], !.status = s]
      <4>3. q.pc = AfterRead(req[a].want) /\ q.seen = rows[req[a].user] /\ q.status = s
            /\ q.want = req[a].want /\ q.user = req[a].user /\ q.approval = req[a].approval
          BY <1>a, ReadFields
      <4>4. /\ AfterRead(req[a].want) \in {"count", "write", "delete"}
            /\ AfterRead(req[a].want) = "count" => req[a].want = "going"
            /\ AfterRead(req[a].want) = "write" => req[a].want = "maybe"
            /\ req[a].want # "reject" /\ req[a].approval # "pending"
          BY <2>0, <3>1, <4>1 DEF AfterRead, Decisions, SerialReq
      <4>5. Goto(a, q)
          BY <4>2
      <4> HIDE DEF q
      <4> QED  BY <1>t, <1>2, <1>c, <3>1, <4>2, <4>3, <4>4, <4>5, OneSerialStep DEF Promoting
    <3> QED  BY <2>5, <3>2, <3>3 DEF ReadRow
  <2>6. CASE PromoteReadEvent(a)
    <3> DEFINE q == [req[a] EXCEPT !.pc = "promotePick", !.ev = event]
    <3>1. q.pc = "promotePick" /\ q.approval = req[a].approval
        BY <1>a, PromotionFields
    <3>2. Goto(a, q) /\ UNCHANGED rows /\ req[a].pc = "promoteEvent"
        BY <2>6 DEF PromoteReadEvent
    <3>3. OneSeatFree(k) /\ req[a].approval # "pending"
        BY <2>0, <3>2 DEF SerialReq, Promoting
    <3> HIDE DEF q
    <3> QED  BY <1>t, <1>2, <1>c, <3>1, <3>2, <3>3, OneSerialStep DEF Promoting
  <2>7. CASE PromotePick(a)
    <3>1. OneSeatFree(k) /\ req[a].approval # "pending" /\ UNCHANGED rows
        BY <2>0, <2>7 DEF PromotePick, SerialReq, Promoting
    <3>2. CASE Waitlist = {} /\ Goto(a, ThenRefresh(req[a], 1))
      <4>1. SeatsTaken(k)
          BY <3>2 DEF SeatsTaken
      <4> QED  BY <2>r, <3>1, <3>2, <4>1, Fields
    <3>3. ASSUME NEW u \in Users, OldestWaiting(u),
                 Goto(a, [req[a] EXCEPT !.pc = "promoteWrite", !.n = rows[u].id])
          PROVE  SerialInv(k)'
      <4> DEFINE q == [req[a] EXCEPT !.pc = "promoteWrite", !.n = rows[u].id]
      <4>1. q.pc = "promoteWrite" /\ q.approval = req[a].approval /\ q.n = rows[u].id
          BY <1>a, PromotionFields DEF Request
      <4>2. Goto(a, q) /\ u \in Waitlist
          BY <3>3 DEF OldestWaiting
      <4> HIDE DEF q
      <4>3. \E v \in Waitlist' : rows'[v].id = q.n
          BY <1>c, <3>1, <4>1, <4>2
      <4> QED  BY <1>t, <1>2, <1>c, <3>1, <4>1, <4>2, <4>3, OneSerialStep DEF Promoting
    <3> QED  BY <2>7, <3>2, <3>3 DEF PromotePick
  <2>8. CASE PromoteWrite(a)
    <3>1. req[a].pc = "promoteWrite" /\ Goto(a, ThenRefresh(req[a], 2))
        BY <2>8 DEF PromoteWrite
    <3>2. OneSeatFree(k) /\ \E u \in Waitlist : rows[u].id = req[a].n
        BY <2>0, <3>1 DEF SerialReq, Promoting
    <3>3. PICK u \in Waitlist : rows[u].id = req[a].n
        BY <3>2
    <3>4. ASSUME NEW v \in Users
          PROVE  /\ rows'[v].approval # "pending"
                 /\ rows[v].id = req[a].n => Holds(rows'[v])
                 /\ rows[v].id # req[a].n => rows'[v] = rows[v]
      <4>1. CASE rows[v].id = req[a].n
        <5>1. PICK x \in {"approved", "not_required"} :
                 rows'[v] = [rows[v] EXCEPT !.status = "going", !.approval = x]
            BY <2>8, <4>1 DEF PromoteWrite, Promoted
        <5> QED  BY <1>a, <4>1, <5>1, RowFields DEF Holds
      <4>2. CASE rows[v].id # req[a].n
          BY <1>t, <2>8, <4>2 DEF PromoteWrite, NoPending
      <4> QED  BY <4>1, <4>2
    <3>5. Waitlist' \subseteq Waitlist /\ Committed \cup {u} \subseteq Committed' /\ u \notin Committed
        BY <3>3, <3>4 DEF Waitlist, Committed, Holds
    <3>6. Cardinality(Committed') >= Cardinality(Committed) + 1
      <4>1. IsFiniteSet(Committed \cup {u}) /\ Cardinality(Committed \cup {u}) = Cardinality(Committed) + 1
          BY <3>5, Finite, FS_AddElement
      <4> QED  BY <3>5, <4>1, Finite, CardWithin
    <3>7. SeatsTaken(k)'
        BY <1>t, <3>2, <3>5, <3>6, Finite, FS_CardinalityType DEF SeatsTaken, OneSeatFree
    <3>8. NoPending'
        BY <3>4 DEF NoPending
    <3> QED  BY <1>t, <1>2, <3>1, <3>7, <3>8, OneSerialStep, Fields DEF Promoting
  <2>9. CASE RefreshCount(a)
    <3> DEFINE q == [req[a] EXCEPT !.pc = "refreshWrite", !.n = Cardinality(Committed)]
    <3>1. q.pc = "refreshWrite" /\ q.approval = req[a].approval
        BY <1>a, PromotionFields
    <3>2. Goto(a, q) /\ UNCHANGED rows /\ req[a].pc = "refreshCount"
        BY <2>9 DEF RefreshCount
    <3> HIDE DEF q
    <3> QED  BY <2>0, <2>r, <3>1, <3>2 DEF Promoting, SerialReq
  <2>10. CASE RefreshWrite(a)
      BY <2>0, <2>r, <2>10, Fields DEF RefreshWrite, Promoting
  <2>11. CASE Die(a) \/ CountForApproval(a) \/ Approve(a)
      BY <1>t, <2>0, <2>11 DEF Die, CountForApproval, Approve, Serial, SerialReq
  <2> QED
      BY <1>2, <2>b, <2>1, <2>2, <2>3, <2>4, <2>5, <2>6, <2>7, <2>8, <2>9, <2>10, <2>11
      DEF ClientStep, ModeratorStep, SharedStep, BeginRsvp, BeginApproval
<1> QED  BY <1>t, <1>1, <1>2, SerialStep

(* On an event without host approval whose capacity stays k, requests       *)
(* handled one at a time leave nobody waiting while a seat is free,         *)
(* whatever order they come in and however many tabs a person has.          *)
THEOREM SerialSeatsAreFilled ==
    ASSUME Serial, NEW k \in Nat, \A s \in Settings : s.cap = k /\ ~s.gated
    PROVE  Spec => []NoSeatIdleAtRest
<1>0. SerialRegime(k)
    BY DEF SerialRegime
<1>1. Init => SerialInv(k)
  <2>1. Init => NoPending
      BY DEF Init, NoPending, NoRow
  <2> QED  BY <2>1, SerialInit, TypeCorrectInit DEF SerialInv, SeatsTaken
<1>2. SerialInv(k) /\ [Next]_vars => SerialInv(k)'
    BY <1>0, SerialSeatStep
<1>3. SerialInv(k) => NoSeatIdleAtRest
    BY DEF SerialInv, TypeOK, NoSeatIdleAtRest, SeatsTaken
<1> QED  BY <1>1, <1>2, <1>3, PTL DEF Spec
=============================================================================
