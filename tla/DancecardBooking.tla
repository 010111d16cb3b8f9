-------------------------- MODULE DancecardBooking --------------------------
(***************************************************************************)
(* Scene bookings between two attendees of a convention                    *)
(* (routes/convention-dancecard-routes.ts): a guest asks for a time on the *)
(* host's dancecard, the host accepts or declines, either may cancel or    *)
(* ask for another time, and the other agrees or declines.                 *)
(*                                                                         *)
(* Accepting checks both calendars, inserts an entry into each, and then   *)
(* updates the booking: six queries, and no transaction around them.       *)
(*                                                                         *)
(* A request starts at its read of the booking; one that is refused there, *)
(* or whose sender may not see the convention, changes nothing and is left *)
(* out, and so are notifications, descriptions and notes.  Buffers and     *)
(* other commitments (manual entries, program and staff slots) stay what   *)
(* they are: they are read by the checks and never written by a booking.   *)
(***************************************************************************)
EXTENDS DancecardIntervals, FiniteSets

CONSTANTS
    Users,
    Bookings,     \* ids of booking requests
    HostOf,       \* whose dancecard was shared
    GuestOf,      \* who asked
    Slots,        \* the times people ask for
    Window,       \* from when to when the convention lasts
    Buffer,       \* each person's recovery time after a session
    Commitments,  \* the other commitments a person may have
    Requests,     \* requests the API interleaves
    Regimes,      \* what may happen in a behaviour
    NoBooking, NoSlot, Nobody

(* A regime, chosen once for a whole behaviour, says which bookings are     *)
(* made, whether people delete entries from their own calendar, whether the *)
(* requests on one booking come one at a time, whether a handler may die    *)
(* between two queries, and how many entry ids are in use at a time.        *)
Regime == [bookings : SUBSET Bookings, deletions : BOOLEAN, onePerBooking : BOOLEAN,
           failures : BOOLEAN, maxEntries : Nat]

ASSUME BookingAssumption ==
    /\ HostOf \in [Bookings -> Users] /\ GuestOf \in [Bookings -> Users]
    /\ \A b \in Bookings : HostOf[b] # GuestOf[b]
    /\ Slots \subseteq Interval /\ Window \in Interval
    /\ \A s \in Slots : NonEmpty(s)
    /\ Buffer \in [Users -> Nat]
    /\ Commitments \in SUBSET [Users -> SUBSET Interval]
    /\ IsFiniteSet(Requests) /\ Regimes \subseteq Regime
    /\ NoBooking \notin Bookings /\ NoSlot \notin Slots /\ Nobody \notin Users

VARIABLES
    booking,    \* dancecard_booking_requests
    entries,    \* dancecard_entries with source_kind 'scene_booking'
    commitment, \* everything else on each person's calendar
    req,        \* the requests in flight
    regime      \* what may happen; it never changes

vars == <<booking, entries, commitment, req, regime>>

Statuses == {"none", "PENDING", "ACCEPTED", "DECLINED", "CANCELLED", "RESCHEDULE_PENDING"}

\* host and guest are the ids of their entries, 0 for null.
BookingRow == [status : Statuses, slot : Slots \cup {NoSlot}, host : Nat, guest : Nat,
               proposed : Slots \cup {NoSlot}, by : Users \cup {Nobody}]
NoRow == [status |-> "none", slot |-> NoSlot, host |-> 0, guest |-> 0,
          proposed |-> NoSlot, by |-> Nobody]

Entry == [id : Nat \ {0}, user : Users, of : Bookings, slot : Slots]

Ops == {"create", "accept", "decline", "keep", "cancel", "reschedule", "agree"}
Steps == {"idle", "checkHost", "checkGuest", "first", "second", "write"}

\* What a handler holds: the time it is about, the entries it read from the
\* booking or has inserted, and who asks for another time.
Request == [pc : Steps, op : Ops, of : Bookings, slot : Slots \cup {NoSlot},
            host : Nat, guest : Nat, by : Users \cup {Nobody}]
Idle == [pc |-> "idle"]

Ids == {e.id : e \in entries}

\* The foreign keys of host_entry_id and guest_entry_id included.
TypeOK ==
    /\ booking \in [Bookings -> BookingRow]
    /\ \A b \in Bookings : {booking[b].host, booking[b].guest} \subseteq Ids \cup {0}
    /\ entries \subseteq Entry
    /\ \A d, e \in entries : d.id = e.id => d = e
    /\ commitment \in Commitments
    /\ req \in [Requests -> Request \cup {Idle}]
    /\ regime \in Regimes

Init ==
    /\ booking = [b \in Bookings |-> NoRow]
    /\ entries = {}
    /\ commitment \in Commitments
    /\ req = [r \in Requests |-> Idle]
    /\ regime \in Regimes

-----------------------------------------------------------------------------
(* Calendars.                                                              *)

\* The calendar of u, without the scene that is being rescheduled.
Busy(u, except) == {e.slot : e \in {d \in entries : d.user = u /\ d.of # except}}
                   \cup commitment[u]

-----------------------------------------------------------------------------
(* Requests.                                                               *)

At(r, pc) == req[r].pc = pc
Goto(r, pc) == req' = [req EXCEPT ![r].pc = pc]
Finish(r) == req' = [req EXCEPT ![r] = Idle]

InFlight == {r \in Requests : ~At(r, "idle")}
Idling(b) == \A r \in InFlight : req[r].of # b

StartBy(by, r, op, b, slot, pc) ==
    /\ At(r, "idle")
    /\ regime.onePerBooking => Idling(b)
    /\ LET used == op \in {"cancel", "agree"} IN
       req' = [req EXCEPT ![r] =
                 [pc |-> pc, op |-> op, of |-> b, slot |-> slot, by |-> by,
                  host  |-> IF used THEN booking[b].host ELSE 0,
                  guest |-> IF used THEN booking[b].guest ELSE 0]]
    /\ UNCHANGED <<booking, entries, commitment>>

Start(r, op, b, slot, pc) == StartBy(Nobody, r, op, b, slot, pc)

Create(r, b) ==
    /\ booking[b].status = "none" /\ Idling(b)
    /\ \E slot \in Slots : Start(r, "create", b, slot, "checkHost")

Accept(r, b) ==
    /\ booking[b].status = "PENDING"
    /\ Start(r, "accept", b, booking[b].slot, "checkHost")

\* The host declines a new booking, ...
Decline(r, b) ==
    /\ booking[b].status = "PENDING"
    /\ Start(r, "decline", b, NoSlot, "write")

\* ... and the party that did not propose a new time keeps the old one.
Keep(r, b) ==
    /\ booking[b].status = "RESCHEDULE_PENDING"
    /\ Start(r, "keep", b, NoSlot, "write")

Cancel(r, b) ==
    /\ booking[b].status \in {"ACCEPTED", "PENDING", "RESCHEDULE_PENDING"}
    /\ Start(r, "cancel", b, NoSlot, "first")

Reschedule(r, b) ==
    /\ booking[b].status = "ACCEPTED"
    /\ \E actor \in {HostOf[b], GuestOf[b]}, slot \in Slots :
          StartBy(actor, r, "reschedule", b, slot, "checkHost")

\* reschedule-accept, by the party that did not propose.
Agree(r, b) ==
    /\ booking[b].status = "RESCHEDULE_PENDING"
    /\ booking[b].proposed # NoSlot
    /\ Start(r, "agree", b, booking[b].proposed, "checkHost")

\* The scene being moved does not stand in its own way.
Except(r) == IF req[r].op \in {"reschedule", "agree"} THEN req[r].of ELSE NoBooking

CheckHost(r) ==
    /\ At(r, "checkHost")
    /\ LET host == HostOf[req[r].of] IN
       IF HostFree(req[r].slot, Busy(host, Except(r)), Buffer[host], Window)
       THEN Goto(r, "checkGuest")
       ELSE Finish(r)
    /\ UNCHANGED <<booking, entries, commitment>>

CheckGuest(r) ==
    /\ At(r, "checkGuest")
    /\ LET guest == GuestOf[req[r].of] IN
       IF GuestFree(req[r].slot, Busy(guest, Except(r)), Buffer[guest])
       THEN Goto(r, IF req[r].op \in {"accept", "agree"} THEN "first" ELSE "write")
       ELSE Finish(r)
    /\ UNCHANGED <<booking, entries, commitment>>

-----------------------------------------------------------------------------
(* The entries: accept adds the two, reschedule-accept moves them, cancel   *)
(* deletes them; the host's first.                                          *)

\* A deleted entry sets the columns that refer to it to null.
Unlinked(gone) ==
    [b \in Bookings |->
        [booking[b] EXCEPT !.host = IF @ \in gone THEN 0 ELSE @,
                           !.guest = IF @ \in gone THEN 0 ELSE @]]

DeleteEntries(gone) ==
    /\ entries' = {e \in entries : e.id \notin gone}
    /\ booking' = Unlinked(gone)

\* Ids are never reused by the database; here one is free again once no entry
\* has it and no request holds it, which nothing can tell apart.
FreeIds == (1..regime.maxEntries) \ (Ids \cup {req[r].host : r \in InFlight}
                                 \cup {req[r].guest : r \in InFlight})
NewId == CHOOSE i \in FreeIds : \A j \in FreeIds : i <= j

AddEntry(r, u) ==
    /\ FreeIds # {}
    /\ entries' = entries \cup
          {[id |-> NewId, user |-> u, of |-> req[r].of, slot |-> req[r].slot]}

MoveEntry(r, id) ==
    entries' = {IF e.id = id THEN [e EXCEPT !.slot = req[r].slot] ELSE e : e \in entries}

AddHostEntry(r) ==
    /\ At(r, "first") /\ req[r].op = "accept"
    /\ AddEntry(r, HostOf[req[r].of])
    /\ req' = [req EXCEPT ![r].pc = "second", ![r].host = NewId]
    /\ UNCHANGED <<booking, commitment>>

AddGuestEntry(r) ==
    /\ At(r, "second") /\ req[r].op = "accept"
    /\ AddEntry(r, GuestOf[req[r].of])
    /\ req' = [req EXCEPT ![r].pc = "write", ![r].guest = NewId]
    /\ UNCHANGED <<booking, commitment>>

MoveHostEntry(r) ==
    /\ At(r, "first") /\ req[r].op = "agree"
    /\ MoveEntry(r, req[r].host)
    /\ Goto(r, "second")
    /\ UNCHANGED <<booking, commitment>>

MoveGuestEntry(r) ==
    /\ At(r, "second") /\ req[r].op = "agree"
    /\ MoveEntry(r, req[r].guest)
    /\ Goto(r, "write")
    /\ UNCHANGED <<booking, commitment>>

DropHostEntry(r) ==
    /\ At(r, "first") /\ req[r].op = "cancel"
    /\ DeleteEntries({req[r].host} \ {0})
    /\ Goto(r, "second")
    /\ UNCHANGED commitment

\* Mutant: the guest's entry is forgotten.
DropNoGuestEntry(r) ==
    /\ At(r, "second") /\ req[r].op = "cancel"
    /\ Goto(r, "write")
    /\ UNCHANGED <<booking, entries, commitment>>

DropGuestEntry(r) ==
    /\ At(r, "second") /\ req[r].op = "cancel"
    /\ DeleteEntries({req[r].guest} \ {0})
    /\ Goto(r, "write")
    /\ UNCHANGED commitment

-----------------------------------------------------------------------------
(* The last query: the booking itself, by id and whatever it is by now.     *)

Write(r, op) == At(r, "write") /\ req[r].op = op /\ Finish(r)

Update(b, row) ==
    /\ booking' = [booking EXCEPT ![b] = row]
    /\ UNCHANGED <<entries, commitment>>

WriteCreated(r) ==
    /\ Write(r, "create")
    /\ Update(req[r].of, [NoRow EXCEPT !.status = "PENDING", !.slot = req[r].slot])

\* Mutant: the columns are written without their foreign keys.
WriteUnchecked(r) ==
    /\ Write(r, "accept")
    /\ Update(req[r].of, [booking[req[r].of] EXCEPT
                             !.status = "ACCEPTED", !.host = req[r].host, !.guest = req[r].guest])

\* The update fails if one of the new entries has been deleted meanwhile.
WriteAccepted(r) ==
    /\ Write(r, "accept")
    /\ LET q == req[r]
           row == [booking[q.of] EXCEPT
                     !.status = "ACCEPTED", !.host = q.host, !.guest = q.guest]
       IN  Update(q.of, IF {q.host, q.guest} \subseteq Ids THEN row ELSE booking[q.of])

WriteDeclined(r) ==
    /\ Write(r, "decline")
    /\ Update(req[r].of, [booking[req[r].of] EXCEPT !.status = "DECLINED"])

WriteKept(r) ==
    /\ Write(r, "keep")
    /\ Update(req[r].of, [booking[req[r].of] EXCEPT
                             !.status = "ACCEPTED", !.proposed = NoSlot, !.by = Nobody])

WriteCancelled(r) ==
    /\ Write(r, "cancel")
    /\ Update(req[r].of, [booking[req[r].of] EXCEPT !.status = "CANCELLED"])

WriteProposal(r) ==
    /\ Write(r, "reschedule")
    /\ LET q == req[r] IN
       Update(q.of, [booking[q.of] EXCEPT
                        !.status = "RESCHEDULE_PENDING", !.proposed = q.slot, !.by = q.by])

WriteMoved(r) ==
    /\ Write(r, "agree")
    /\ LET q == req[r] IN
       Update(q.of, [booking[q.of] EXCEPT
                        !.status = "ACCEPTED", !.slot = q.slot,
                        !.proposed = NoSlot, !.by = Nobody])

-----------------------------------------------------------------------------
\* DELETE .../dancecard/entries/:id, one of one's own.
DeleteOwnEntry(e) ==
    /\ regime.deletions
    /\ regime.onePerBooking => Idling(e.of)
    /\ DeleteEntries({e.id})
    /\ UNCHANGED <<commitment, req>>

Die(r) ==
    /\ regime.failures
    /\ ~At(r, "idle")
    /\ Finish(r)
    /\ UNCHANGED <<booking, entries, commitment>>

Begin(r, b) ==
    \/ Create(r, b) \/ Accept(r, b) \/ Decline(r, b) \/ Keep(r, b)
    \/ Cancel(r, b) \/ Reschedule(r, b) \/ Agree(r, b)

Continue(r) ==
    \/ CheckHost(r) \/ CheckGuest(r)
    \/ AddHostEntry(r) \/ AddGuestEntry(r)
    \/ MoveHostEntry(r) \/ MoveGuestEntry(r)
    \/ DropHostEntry(r) \/ DropGuestEntry(r)
    \/ WriteCreated(r) \/ WriteAccepted(r) \/ WriteDeclined(r) \/ WriteKept(r)
    \/ WriteCancelled(r) \/ WriteProposal(r) \/ WriteMoved(r)

Next ==
    /\ \/ \E r \in Requests : (\E b \in regime.bookings : Begin(r, b)) \/ Continue(r) \/ Die(r)
       \/ \E e \in entries : DeleteOwnEntry(e)
    /\ UNCHANGED regime

Spec == Init /\ [][Next]_vars

-----------------------------------------------------------------------------
(* Properties.                                                             *)

Crowd(u) == {E \in SUBSET {e \in entries : e.user = u} :
                \A d, e \in E : d.id # e.id => Overlap(d.slot, e.slot)}

(* Concurrent requests may put somebody into the scenes of several bookings *)
(* at once, but never of more bookings than there are interleaved requests, *)
(* however bookings are accepted twice, moved, cancelled or left half done. *)
(* (The checks of both calendars before accept and reschedule-accept write.) *)
CrowdingBound ==
    \A u \in Users : \A E \in Crowd(u) :
        Cardinality({e.of : e \in E}) <= Cardinality(Requests)

\* How many requests on one booking the API interleaves.
AtATime == IF regime.onePerBooking THEN 1 ELSE Cardinality(Requests)

(* A booking accepted by several requests at once is on a calendar several  *)
(* times, but no more often than requests on it are interleaved: a retry or *)
(* a late accept meets the entries of the earlier ones unless they were     *)
(* deleted or moved away, and then each was replaced at most once.  (The    *)
(* same checks; only a pending booking is accepted, and it is never pending *)
(* again.)                                                                  *)
CopiesBound ==
    \A b \in Bookings, u \in Users :
        Cardinality({e \in entries : e.of = b /\ e.user = u}) <= AtATime

(* When the requests on a booking come one at a time and none dies, what   *)
(* is on the calendars is what is booked: every scene entry belongs to an  *)
(* accepted booking, is the one that booking refers to, and is at its      *)
(* time.  (Accept, cancel and reschedule-accept, which write the entries   *)
(* and the booking in separate queries.)                                   *)
EntriesMatchBooking ==
    regime.onePerBooking /\ ~regime.failures =>
        \A e \in entries : Idling(e.of) =>
            LET b == booking[e.of] IN
            /\ b.status \in {"ACCEPTED", "RESCHEDULE_PENDING"}
            /\ b.slot = e.slot
            /\ e.id = IF e.user = HostOf[e.of] THEN b.host ELSE b.guest
=============================================================================
