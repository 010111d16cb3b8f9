--------------------------- MODULE DancecardProofs ---------------------------
(* Proofs about DancecardBooking, for any number of people, bookings, times *)
(* and interleaved requests, and in every regime.                           *)
EXTENDS DancecardBooking, FiniteSetTheorems, TLAPS

USE BookingAssumption

(* A set of numbers has a least one: the id that an insert takes is free.   *)
LEMMA LeastNumber ==
    ASSUME NEW S \in SUBSET Nat, S # {} PROVE \E i \in S : \A j \in S : i <= j
<1> DEFINE below(n) == 0 .. (n - 1)
           T == {below(i) : i \in S}
           R == StrictSubsetOrdering(Nat)
<1>1. T \subseteq FiniteSubsetsOf(Nat)
  <2>1. \A i \in S : IsFiniteSet(below(i))
      BY FS_Interval
  <2> QED  BY <2>1 DEF FiniteSubsetsOf
<1>2. \E t \in T : \A u \in T : ~(<<u, t>> \in R)
  <2>1. IsWellFoundedOn(R, FiniteSubsetsOf(Nat))
      BY FS_StrictSubsetOrderingWellFounded
  <2>2. T # {}
    <3>1. PICK i \in S : TRUE
        OBVIOUS
    <3>2. below(i) \in T
        OBVIOUS
    <3> QED  BY <3>2
  <2> HIDE DEF T, R
  <2> QED  BY <1>1, <2>1, <2>2, WFMin
<1>3. PICK i \in S : \A j \in S : ~(<<below(j), below(i)>> \in R)
    BY <1>2
<1>4. ASSUME NEW j \in S, j < i PROVE FALSE
  <2>1. below(j) \subseteq below(i) /\ j \in below(i) /\ j \notin below(j)
      BY <1>4
  <2>2. below(j) \in SUBSET Nat /\ below(i) \in SUBSET Nat
      OBVIOUS
  <2> HIDE DEF below
  <2> QED  BY <1>3, <2>1, <2>2 DEF StrictSubsetOrdering
<1> QED  BY <1>4

LEMMA NewIdIsFree ==
    ASSUME regime \in Regimes, FreeIds # {}
    PROVE  /\ NewId \in Nat \ {0} /\ NewId \notin Ids
           /\ \A s \in InFlight : NewId \notin {req[s].host, req[s].guest}
<1>1. FreeIds \subseteq Nat \ {0}
    BY DEF FreeIds, Regime
<1>2. NewId \in FreeIds
    BY <1>1, LeastNumber DEF NewId
<1> QED  BY <1>1, <1>2 DEF FreeIds

-----------------------------------------------------------------------------
(* Type correctness, the foreign keys included.  An entry is reached by the *)
(* ids in its booking's row and in the requests on its booking, and by no   *)
(* others: ids are not taken again while somebody holds them.               *)

Timed == {"create", "accept", "reschedule", "agree"}

\* The steps of each operation.
StepsOf(op) ==
    IF op \in {"create", "reschedule"} THEN {"checkHost", "checkGuest", "write"}
    ELSE IF op \in {"accept", "agree"}
         THEN {"checkHost", "checkGuest", "first", "second", "write"}
    ELSE IF op = "cancel" THEN {"first", "second", "write"} ELSE {"write"}

\* What a handler relies on.
ReqOK(q, B, E) ==
    /\ q \in Request /\ q.pc \in StepsOf(q.op)
    /\ q.op \in Timed => q.slot \in Slots
    /\ q.op # "create" => B[q.of].status # "none"
    /\ \A e \in E : e.id \in {q.host, q.guest} => e.of = q.of

OwnInv ==
    /\ TypeOK
    /\ \A b \in Bookings : booking[b].status # "none" => booking[b].slot # NoSlot
    /\ \A b \in Bookings, e \in entries :
          e.id \in {booking[b].host, booking[b].guest} => e.of = b
    /\ \A r \in InFlight : ReqOK(req[r], booking, entries)

\* The fields of a request that goes on to its next step.
LEMMA NextFields ==
    ASSUME NEW q \in Request, NEW pc \in Steps
    PROVE  LET p == [q EXCEPT !.pc = pc]
           IN  /\ p \in Request /\ p.pc = pc /\ p.op = q.op /\ p.of = q.of /\ p.slot = q.slot
               /\ p.host = q.host /\ p.guest = q.guest /\ p.by = q.by
    BY DEF Request

\* A request in flight is a whole record; an idle one is not.
LEMMA Held ==
    ASSUME OwnInv, NEW r \in Requests
    PROVE  /\ req[r].pc # "idle" => r \in InFlight /\ ReqOK(req[r], booking, entries) /\ req[r] \in Request
           /\ Idle.pc = "idle" /\ req = [s \in Requests |-> req[s]]
    BY DEF OwnInv, TypeOK, InFlight, At, Idle, ReqOK

\* What has to be shown of a step.
LEMMA OwnFrame ==
    ASSUME OwnInv, UNCHANGED <<commitment, regime>>,
           booking' \in [Bookings -> BookingRow], entries' \subseteq Entry,
           \A d, e \in entries' : d.id = e.id => d = e,
           \A b \in Bookings : {booking'[b].host, booking'[b].guest} \subseteq Ids' \cup {0},
           \A b \in Bookings : booking'[b].status # "none" => booking'[b].slot # NoSlot,
           \A b \in Bookings : booking[b].status # "none" => booking'[b].status # "none",
           \A b \in Bookings, e \in entries' :
              e.id \in {booking'[b].host, booking'[b].guest} => e.of = b,
           \A s \in InFlight, e \in entries' :
              e.id \in {req[s].host, req[s].guest} => e.of = req[s].of,
           req' \in [Requests -> Request \cup {Idle}],
           \A s \in Requests : req'[s] = req[s] \/ req'[s] = Idle \/ ReqOK(req'[s], booking', entries')
    PROVE  OwnInv'
<1>1. TypeOK'
    BY DEF OwnInv, TypeOK
<1>2. ASSUME NEW s \in InFlight' PROVE ReqOK(req'[s], booking', entries')
  <2>1. s \in Requests /\ req'[s].pc # "idle" /\ req'[s] # Idle
      BY <1>2 DEF InFlight, At, Idle
  <2>2. CASE req'[s] = req[s]
    <3>1. ReqOK(req[s], booking, entries) /\ s \in InFlight
        BY <2>1, <2>2, Held
    <3>2. req[s].of \in Bookings
        BY <3>1 DEF ReqOK, Request
    <3> QED  BY <2>2, <3>1, <3>2 DEF ReqOK
  <2> QED  BY <2>1, <2>2
<1> QED  BY <1>1, <1>2 DEF OwnInv

\* One request moves, and the tables stay as they are.
LEMMA OwnQuiet ==
    ASSUME OwnInv, UNCHANGED <<booking, entries, commitment, regime>>, NEW r \in Requests,
           NEW p, req' = [req EXCEPT ![r] = p], p = Idle \/ ReqOK(p, booking, entries)
    PROVE  OwnInv'
<1>1. req' \in [Requests -> Request \cup {Idle}]
    BY DEF OwnInv, TypeOK, ReqOK
<1>2. \A s \in Requests : req'[s] = req[s] \/ req'[s] = Idle \/ ReqOK(req'[s], booking', entries')
    BY DEF OwnInv, TypeOK, ReqOK
<1> QED
  <2>1. Ids' = Ids
      BY DEF Ids
  <2> QED  BY <1>1, <1>2, <2>1, OwnFrame DEF OwnInv, TypeOK, ReqOK

\* A request starts.
LEMMA OwnStart ==
    ASSUME OwnInv, UNCHANGED regime, NEW r \in Requests, NEW b \in Bookings, NEW op \in Ops,
           NEW slot \in Slots \cup {NoSlot}, NEW pc \in StepsOf(op), NEW by \in Users \cup {Nobody},
           StartBy(by, r, op, b, slot, pc),
           op \in Timed => slot \in Slots, op # "create" => booking[b].status # "none"
    PROVE  OwnInv'
<1> DEFINE used == op \in {"cancel", "agree"}
           h == IF used THEN booking[b].host ELSE 0
           g == IF used THEN booking[b].guest ELSE 0
           p == [pc |-> pc, op |-> op, of |-> b, slot |-> slot, by |-> by, host |-> h, guest |-> g]
<1>1. req' = [req EXCEPT ![r] = p] /\ UNCHANGED <<booking, entries, commitment>>
    BY DEF StartBy
<1>2. booking[b].host \in Nat /\ booking[b].guest \in Nat
    BY DEF OwnInv, TypeOK, BookingRow
<1>3. p \in Request
    BY <1>2 DEF Request, StepsOf, Steps
<1>4. ASSUME NEW e \in entries, e.id \in {h, g} PROVE e.of = b
  <2>1. e.id # 0
      BY DEF OwnInv, TypeOK, Entry
  <2> QED  BY <1>4, <2>1 DEF OwnInv
<1>5. ReqOK(p, booking, entries)
    BY <1>3, <1>4 DEF ReqOK
<1> HIDE DEF p
<1> QED  BY <1>1, <1>5, OwnQuiet

\* A step of a request that stays on its business.
Onward(p, q) ==
    /\ p \in Request /\ p.pc \in StepsOf(p.op)
    /\ p.op = q.op /\ p.of = q.of /\ p.slot = q.slot

LEMMA OwnAdd ==
    ASSUME OwnInv, UNCHANGED <<booking, commitment, regime>>, NEW r \in Requests,
           ~At(r, "idle"), req[r].op \in Timed, NEW u \in Users, AddEntry(r, u),
           NEW p, Onward(p, req[r]), req' = [req EXCEPT ![r] = p],
           {p.host, p.guest} \subseteq {req[r].host, req[r].guest, NewId}
    PROVE  OwnInv'
<1> DEFINE i == NewId
           n == [id |-> i, user |-> u, of |-> req[r].of, slot |-> req[r].slot]
<1>1. ReqOK(req[r], booking, entries) /\ r \in InFlight
    BY Held DEF At
<1>2. /\ i \in Nat \ {0} /\ i \notin Ids
      /\ \A s \in InFlight : i \notin {req[s].host, req[s].guest}
    BY NewIdIsFree DEF AddEntry, OwnInv, TypeOK
<1>3. entries' = entries \cup {n}
    BY DEF AddEntry
<1> HIDE DEF i
<1>4. n \in Entry
    BY <1>1, <1>2 DEF ReqOK, Request, Entry
<1>5. n.id = i /\ n.of = req[r].of /\ \A e \in entries : e.id # i
    BY <1>2 DEF Ids
<1> HIDE DEF n
<1>6. entries' \subseteq Entry /\ \A d, e \in entries' : d.id = e.id => d = e
    BY <1>3, <1>4, <1>5 DEF OwnInv, TypeOK
<1>7. Ids \subseteq Ids'
    BY <1>3 DEF Ids
<1>8. \A b \in Bookings, e \in entries' :
          e.id \in {booking[b].host, booking[b].guest} => e.of = b
  <2>1. \A b \in Bookings : i \notin {booking[b].host, booking[b].guest}
      BY <1>2 DEF OwnInv, TypeOK
  <2> QED  BY <1>3, <1>5, <2>1 DEF OwnInv
<1>9. \A s \in InFlight, e \in entries' :
          e.id \in {req[s].host, req[s].guest} => e.of = req[s].of
    BY <1>2, <1>3, <1>5 DEF OwnInv, ReqOK
<1>10. ReqOK(p, booking, entries')
  <2>1. \A e \in entries' : e.id \in {p.host, p.guest} => e.of = p.of
    <3> USE DEF Onward
    <3>1. \A e \in entries : e.id \in {p.host, p.guest} => e.of = p.of
        BY <1>1, <1>5 DEF ReqOK, i
    <3> QED  BY <1>3, <1>5, <3>1
  <2> QED  BY <1>1, <2>1 DEF Onward, ReqOK
<1>11. req' \in [Requests -> Request \cup {Idle}]
    BY DEF OwnInv, TypeOK, Onward
<1>12. \A s \in Requests : req'[s] = req[s] \/ req'[s] = Idle \/ ReqOK(req'[s], booking', entries')
    BY <1>10 DEF OwnInv, TypeOK
<1> QED
  <2>1. \A b \in Bookings : {booking'[b].host, booking'[b].guest} \subseteq Ids' \cup {0}
      BY <1>7 DEF OwnInv, TypeOK
  <2> QED  BY <1>6, <1>8, <1>9, <1>11, <1>12, <2>1, OwnFrame DEF OwnInv, TypeOK

\* Moving an entry changes its time and nothing else.
LEMMA MovedFields ==
    ASSUME TypeOK, NEW r, NEW id, MoveEntry(r, id), req[r].slot \in Slots
    PROVE  /\ entries' \subseteq Entry
           /\ \A e \in entries : \E d \in entries' :
                 /\ d.id = e.id /\ d.user = e.user /\ d.of = e.of
                 /\ d.slot = IF e.id = id THEN req[r].slot ELSE e.slot
           /\ \A d \in entries' : \E e \in entries :
                 /\ d.id = e.id /\ d.user = e.user /\ d.of = e.of
                 /\ d.slot = IF e.id = id THEN req[r].slot ELSE e.slot
           /\ \A d, e \in entries' : d.id = e.id => d = e
           /\ Ids' = Ids
<1> DEFINE f(e) == IF e.id = id THEN [e EXCEPT !.slot = req[r].slot] ELSE e
<1>1. entries' = {f(e) : e \in entries}
    BY DEF MoveEntry
<1>2. \A e \in entries : /\ f(e) \in Entry
                         /\ f(e).id = e.id /\ f(e).user = e.user /\ f(e).of = e.of
                          /\ f(e).slot = IF e.id = id THEN req[r].slot ELSE e.slot
  <2> TAKE e \in entries
  <2>1. e \in Entry
      BY DEF TypeOK
  <2>2. CASE e.id = id
    <3>1. f(e) = [e EXCEPT !.slot = req[r].slot]
        BY <2>2
    <3> QED  BY <2>1, <2>2, <3>1 DEF Entry
  <2> QED  BY <2>1, <2>2
<1>3. \A d, e \in entries : f(d).id = f(e).id => f(d) = f(e)
  <2>1. \A d, e \in entries : d.id = e.id => d = e
      BY DEF TypeOK
  <2> HIDE DEF f
  <2> QED  BY <1>2, <2>1
<1> HIDE DEF f
<1>4. Ids' = Ids
    BY <1>1, <1>2 DEF Ids
<1> QED  BY <1>1, <1>2, <1>3, <1>4

LEMMA OwnMove ==
    ASSUME OwnInv, UNCHANGED <<booking, commitment, regime>>, NEW r \in Requests,
           ~At(r, "idle"), req[r].op \in Timed, NEW id, MoveEntry(r, id),
           NEW p, ReqOK(p, booking, entries), req' = [req EXCEPT ![r] = p]
    PROVE  OwnInv'
<1>1. ReqOK(req[r], booking, entries)
    BY Held DEF At
<1>2. /\ entries' \subseteq Entry /\ Ids' = Ids /\ \A d, e \in entries' : d.id = e.id => d = e
      /\ \A d \in entries' : \E e \in entries : d.id = e.id /\ d.of = e.of
    BY <1>1, MovedFields DEF OwnInv, ReqOK
<1>3. \A b \in Bookings, e \in entries' :
          e.id \in {booking[b].host, booking[b].guest} => e.of = b
    BY <1>2 DEF OwnInv
<1>4. \A s \in InFlight, e \in entries' :
          e.id \in {req[s].host, req[s].guest} => e.of = req[s].of
    BY <1>2 DEF OwnInv, ReqOK
<1>5. ReqOK(p, booking, entries')
    BY <1>2 DEF ReqOK
<1>6. req' \in [Requests -> Request \cup {Idle}]
    BY DEF OwnInv, TypeOK, ReqOK
<1>7. \A s \in Requests : req'[s] = req[s] \/ req'[s] = Idle \/ ReqOK(req'[s], booking', entries')
    BY <1>5 DEF OwnInv, TypeOK
<1> QED  BY <1>2, <1>3, <1>4, <1>6, <1>7, OwnFrame DEF OwnInv, TypeOK

\* The columns of a row whose entries are deleted.
LEMMA UnlinkedFields ==
    ASSUME TypeOK, NEW gone, DeleteEntries(gone), NEW b \in Bookings
    PROVE  /\ booking' \in [Bookings -> BookingRow]
           /\ booking'[b].host = (IF booking[b].host \in gone THEN 0 ELSE booking[b].host)
           /\ booking'[b].guest = (IF booking[b].guest \in gone THEN 0 ELSE booking[b].guest)
           /\ booking'[b].status = booking[b].status /\ booking'[b].slot = booking[b].slot
           /\ booking'[b].proposed = booking[b].proposed /\ booking'[b].by = booking[b].by
           /\ entries' = {e \in entries : e.id \notin gone}
<1> DEFINE h(c) == IF booking[c].host \in gone THEN 0 ELSE booking[c].host
           g(c) == IF booking[c].guest \in gone THEN 0 ELSE booking[c].guest
           f(c) == [booking[c] EXCEPT !.host = h(c), !.guest = g(c)]
<1>1. booking' = [c \in Bookings |-> f(c)] /\ entries' = {e \in entries : e.id \notin gone}
    BY DEF DeleteEntries, Unlinked
<1>2. ASSUME NEW c \in Bookings
      PROVE  /\ f(c) \in BookingRow /\ f(c).host = h(c) /\ f(c).guest = g(c)
             /\ f(c).status = booking[c].status /\ f(c).slot = booking[c].slot
             /\ f(c).proposed = booking[c].proposed /\ f(c).by = booking[c].by
  <2>1. booking[c] \in BookingRow
      BY DEF TypeOK
  <2>2. h(c) \in Nat /\ g(c) \in Nat
      BY <2>1 DEF BookingRow
  <2> HIDE DEF h, g
  <2> QED  BY <2>1, <2>2 DEF BookingRow
<1>3. f(b) = booking'[b]
    BY <1>1
<1>4. booking' \in [Bookings -> BookingRow]
  <2> HIDE DEF f
  <2> QED  BY <1>1, <1>2
<1> HIDE DEF f
<1> QED  BY <1>1, <1>2, <1>3, <1>4

LEMMA OwnDelete ==
    ASSUME OwnInv, UNCHANGED <<commitment, regime>>, NEW gone, DeleteEntries(gone),
           req' \in [Requests -> Request \cup {Idle}],
           \A s \in Requests : req'[s] = req[s] \/ ReqOK(req'[s], booking, entries)
    PROVE  OwnInv'
<1> USE DEF OwnInv
<1>1. entries' = {e \in entries : e.id \notin gone}
    BY DEF DeleteEntries
<1>2. booking' \in [Bookings -> BookingRow]
  <2>1. CASE Bookings # {}
      BY <2>1, UnlinkedFields
  <2>2. CASE Bookings = {}
      BY <2>2 DEF DeleteEntries, Unlinked
  <2> QED  BY <2>1, <2>2
<1>3. \A b \in Bookings :
         /\ booking'[b].host = (IF booking[b].host \in gone THEN 0 ELSE booking[b].host)
         /\ booking'[b].guest = (IF booking[b].guest \in gone THEN 0 ELSE booking[b].guest)
         /\ booking'[b].status = booking[b].status /\ booking'[b].slot = booking[b].slot
    BY UnlinkedFields
<1>4. \A b \in Bookings : {booking'[b].host, booking'[b].guest} \subseteq Ids' \cup {0}
  <2>1. \A i \in Ids : i \notin gone => i \in Ids'
      BY <1>1 DEF Ids
  <2> TAKE b \in Bookings
  <2>2. booking[b].host \in Ids \cup {0} /\ booking[b].guest \in Ids \cup {0}
      BY DEF TypeOK
  <2>3. booking'[b].host \in Ids' \cup {0} /\ booking'[b].guest \in Ids' \cup {0}
      BY <1>3, <2>1, <2>2
  <2> QED  BY <2>3
<1>5. \A b \in Bookings, e \in entries' :
          e.id \in {booking'[b].host, booking'[b].guest} => e.of = b
  <2>1. \A e \in entries' : e \in entries /\ e.id # 0
      BY <1>1 DEF TypeOK, Entry
  <2> QED  BY <1>3, <2>1
<1>6. \A s \in InFlight, e \in entries' :
          e.id \in {req[s].host, req[s].guest} => e.of = req[s].of
    BY <1>1 DEF ReqOK
<1>7. \A s \in Requests : req'[s] = req[s] \/ req'[s] = Idle \/ ReqOK(req'[s], booking', entries')
  <2>1. ASSUME NEW s \in Requests, ReqOK(req'[s], booking, entries)
        PROVE  ReqOK(req'[s], booking', entries')
    <3>1. req'[s].of \in Bookings
        BY <2>1 DEF ReqOK, Request
    <3> QED  BY <1>1, <1>3, <2>1, <3>1 DEF ReqOK
  <2> QED  BY <2>1
<1> QED  BY <1>1, <1>2, <1>3, <1>4, <1>5, <1>6, <1>7, OwnFrame DEF TypeOK

\* The last query of a handler.
LEMMA OwnWrite ==
    ASSUME OwnInv, UNCHANGED regime, NEW r \in Requests, NEW b \in Bookings,
           NEW row \in BookingRow, Update(b, row), Finish(r),
           {row.host, row.guest} \subseteq Ids \cup {0},
           \A e \in entries : e.id \in {row.host, row.guest} => e.of = b,
           row.status # "none", row.slot # NoSlot
    PROVE  OwnInv'
<1>1. /\ UNCHANGED <<commitment, regime, entries>> /\ Ids' = Ids
      /\ booking' \in [Bookings -> BookingRow]
      /\ \A c \in Bookings : booking'[c] = IF c = b THEN row ELSE booking[c]
    BY DEF Update, OwnInv, TypeOK, Ids
<1>2. req' \in [Requests -> Request \cup {Idle}] /\ \A s \in Requests : req'[s] \in {req[s], Idle}
    BY DEF Finish, OwnInv, TypeOK
<1>3. \A c \in Bookings : {booking'[c].host, booking'[c].guest} \subseteq Ids' \cup {0}
  <2> TAKE c \in Bookings
  <2>1. CASE c = b
      BY <1>1, <2>1
  <2>2. CASE c # b
      BY <1>1, <2>2 DEF OwnInv, TypeOK
  <2> QED  BY <2>1, <2>2
<1>4. \A c \in Bookings, e \in entries' :
          e.id \in {booking'[c].host, booking'[c].guest} => e.of = c
    BY <1>1 DEF OwnInv
<1>5. \A c \in Bookings :
         /\ booking'[c].status # "none" => booking'[c].slot # NoSlot
         /\ booking[c].status # "none" => booking'[c].status # "none"
    BY <1>1 DEF OwnInv
<1>6. \A s \in InFlight, e \in entries' :
          e.id \in {req[s].host, req[s].guest} => e.of = req[s].of
    BY <1>1 DEF OwnInv, ReqOK
<1>7. entries' \subseteq Entry /\ \A d, e \in entries' : d.id = e.id => d = e
    BY <1>1 DEF OwnInv, TypeOK
<1> QED  BY <1>1, <1>2, <1>3, <1>4, <1>5, <1>6, <1>7, OwnFrame

\* The requests that start.
LEMMA OwnBegin ==
    ASSUME OwnInv, UNCHANGED regime, NEW r \in Requests, NEW b \in Bookings, Begin(r, b)
    PROVE  OwnInv'
<1> USE DEF Ops, StepsOf, Timed, Start
<1>1. CASE Create(r, b)
  <2>1. PICK slot \in Slots : Start(r, "create", b, slot, "checkHost")
      BY <1>1 DEF Create
  <2> QED  BY <2>1, OwnStart
<1>2. CASE Accept(r, b)
  <2>1. booking[b].status = "PENDING" /\ Start(r, "accept", b, booking[b].slot, "checkHost")
      BY <1>2 DEF Accept
  <2>2. booking[b].slot \in Slots
      BY <2>1 DEF OwnInv, TypeOK, BookingRow
  <2> QED  BY <2>1, <2>2, OwnStart
<1>3. CASE Decline(r, b)
    BY <1>3, OwnStart DEF Decline
<1>4. CASE Keep(r, b)
    BY <1>4, OwnStart DEF Keep
<1>5. CASE Cancel(r, b)
    BY <1>5, OwnStart DEF Cancel
<1>6. CASE Reschedule(r, b)
  <2>1. /\ booking[b].status = "ACCEPTED"
        /\ \E actor \in {HostOf[b], GuestOf[b]}, slot \in Slots :
               StartBy(actor, r, "reschedule", b, slot, "checkHost")
      BY <1>6 DEF Reschedule
  <2>2. PICK actor \in {HostOf[b], GuestOf[b]}, slot \in Slots :
               StartBy(actor, r, "reschedule", b, slot, "checkHost")
      BY <2>1
  <2> QED  BY <2>1, <2>2, OwnStart
<1>7. CASE Agree(r, b)
  <2>1. /\ booking[b].status = "RESCHEDULE_PENDING"
        /\ booking[b].proposed \in Slots
        /\ Start(r, "agree", b, booking[b].proposed, "checkHost")
      BY <1>7 DEF Agree, OwnInv, TypeOK, BookingRow
  <2> QED  BY <2>1, OwnStart
<1> QED  BY <1>1, <1>2, <1>3, <1>4, <1>5, <1>6, <1>7 DEF Begin

\* What a request in flight has on hand.
LEMMA OwnHeld ==
    ASSUME OwnInv, NEW r \in Requests, ~At(r, "idle")
    PROVE  /\ req[r] \in Request /\ req[r].of \in Bookings /\ ReqOK(req[r], booking, entries)
           /\ \A pc \in StepsOf(req[r].op) :
                 LET p == [req[r] EXCEPT !.pc = pc]
                 IN  /\ ReqOK(p, booking, entries) /\ Onward(p, req[r])
                     /\ p.host = req[r].host /\ p.guest = req[r].guest
                     /\ Goto(r, pc) => req' = [req EXCEPT ![r] = p]
<1>1. ReqOK(req[r], booking, entries) /\ req[r] \in Request
    BY Held DEF At
<1>2. \A pc \in StepsOf(req[r].op) : pc \in Steps
    BY <1>1 DEF StepsOf, Steps
<1>3. ASSUME NEW pc \in StepsOf(req[r].op)
      PROVE  LET p == [req[r] EXCEPT !.pc = pc]
             IN  /\ ReqOK(p, booking, entries) /\ Onward(p, req[r])
                 /\ p.host = req[r].host /\ p.guest = req[r].guest
                 /\ Goto(r, pc) => req' = [req EXCEPT ![r] = p]
  <2> DEFINE p == [req[r] EXCEPT !.pc = pc]
  <2>1. /\ p \in Request /\ p.pc = pc /\ p.op = req[r].op /\ p.of = req[r].of /\ p.slot = req[r].slot
        /\ p.host = req[r].host /\ p.guest = req[r].guest /\ p.by = req[r].by
      BY <1>1, <1>2, NextFields
  <2>2. Goto(r, pc) => req' = [req EXCEPT ![r] = p]
      BY DEF Goto
  <2> HIDE DEF p
  <2>3. ReqOK(p, booking, entries) /\ Onward(p, req[r])
      BY <1>1, <2>1 DEF ReqOK, Onward
  <2> QED  BY <2>1, <2>2, <2>3 DEF p
<1> QED  BY <1>1, <1>3 DEF Request

\* The queries before the last.
LEMMA OwnMiddle ==
    ASSUME OwnInv, UNCHANGED regime, NEW r \in Requests,
           \/ CheckHost(r) \/ CheckGuest(r)
           \/ AddHostEntry(r) \/ AddGuestEntry(r)
           \/ MoveHostEntry(r) \/ MoveGuestEntry(r)
           \/ DropHostEntry(r) \/ DropGuestEntry(r)
    PROVE  OwnInv'
<1> DEFINE q == req[r]
           p(pc) == [q EXCEPT !.pc = pc]
<1>1. ~At(r, "idle")
    BY DEF CheckHost, CheckGuest, AddHostEntry, AddGuestEntry, MoveHostEntry, MoveGuestEntry,
           DropHostEntry, DropGuestEntry, At
<1>2. /\ q \in Request /\ q.of \in Bookings /\ ReqOK(q, booking, entries)
      /\ \A pc \in StepsOf(q.op) :
            /\ ReqOK(p(pc), booking, entries) /\ Onward(p(pc), q)
            /\ p(pc).host = q.host /\ p(pc).guest = q.guest
            /\ Goto(r, pc) => req' = [req EXCEPT ![r] = p(pc)]
    BY <1>1, OwnHeld
<1>3. q.pc \in StepsOf(q.op)
    BY <1>2 DEF ReqOK
<1> HIDE DEF p
<1>4. CASE CheckHost(r)
  <2>1. /\ q.pc = "checkHost" /\ UNCHANGED <<booking, entries, commitment>>
        /\ Goto(r, "checkGuest") \/ Finish(r)
      BY <1>4 DEF CheckHost, At
  <2>2. "checkGuest" \in StepsOf(q.op)
      BY <1>3, <2>1 DEF StepsOf
  <2> QED  BY <1>2, <2>1, <2>2, OwnQuiet DEF Finish
<1>5. CASE CheckGuest(r)
  <2>1. /\ q.pc = "checkGuest" /\ UNCHANGED <<booking, entries, commitment>>
        /\ Goto(r, IF q.op \in {"accept", "agree"} THEN "first" ELSE "write") \/ Finish(r)
      BY <1>5 DEF CheckGuest, At
  <2>2. (IF q.op \in {"accept", "agree"} THEN "first" ELSE "write") \in StepsOf(q.op)
      BY <1>3, <2>1 DEF StepsOf
  <2> QED  BY <1>2, <2>1, <2>2, OwnQuiet DEF Finish
<1>6. ASSUME NEW u \in Users, q.op = "accept", AddEntry(r, u), UNCHANGED <<booking, commitment>>,
             NEW pc \in {"second", "write"},
             NEW t, t = [q EXCEPT !.pc = pc, !.host = NewId] \/ t = [q EXCEPT !.pc = pc, !.guest = NewId],
             req' = [req EXCEPT ![r] = t]
      PROVE  OwnInv'
  <2>0. q \in Request
      BY <1>2
  <2>1. NewId \in Nat
      BY <1>6, NewIdIsFree DEF AddEntry, OwnInv, TypeOK
  <2>2. pc \in Steps /\ pc \in StepsOf("accept")
      BY DEF Steps, StepsOf
  <2>3. CASE t = [q EXCEPT !.pc = pc, !.host = NewId]
    <3>1. /\ t \in Request /\ t.pc = pc /\ t.op = q.op /\ t.of = q.of /\ t.slot = q.slot
          /\ t.host = NewId /\ t.guest = q.guest
        BY <2>0, <2>1, <2>2, <2>3 DEF Request
    <3> QED  BY <1>1, <1>6, <2>2, <3>1, OwnAdd DEF Onward, Timed
  <2>4. CASE t = [q EXCEPT !.pc = pc, !.guest = NewId]
    <3>1. /\ t \in Request /\ t.pc = pc /\ t.op = q.op /\ t.of = q.of /\ t.slot = q.slot
          /\ t.host = q.host /\ t.guest = NewId
        BY <2>0, <2>1, <2>2, <2>4 DEF Request
    <3> QED  BY <1>1, <1>6, <2>2, <3>1, OwnAdd DEF Onward, Timed
  <2> QED  BY <1>6, <2>3, <2>4
<1>7. CASE AddHostEntry(r)
  <2>1. HostOf[q.of] \in Users
      BY <1>2
  <2>2. req' = [req EXCEPT ![r] = [q EXCEPT !.pc = "second", !.host = NewId]]
      BY <1>7 DEF AddHostEntry
  <2> QED  BY <1>6, <1>7, <2>1, <2>2 DEF AddHostEntry
<1>8. CASE AddGuestEntry(r)
  <2>1. GuestOf[q.of] \in Users
      BY <1>2
  <2>2. req' = [req EXCEPT ![r] = [q EXCEPT !.pc = "write", !.guest = NewId]]
      BY <1>8 DEF AddGuestEntry
  <2> QED  BY <1>6, <1>8, <2>1, <2>2 DEF AddGuestEntry
<1>9. CASE MoveHostEntry(r)
  <2>1. q.op \in Timed /\ "second" \in StepsOf(q.op)
      BY <1>9 DEF MoveHostEntry, StepsOf, Timed
  <2> QED  BY <1>1, <1>2, <1>9, <2>1, OwnMove DEF MoveHostEntry
<1>10. CASE MoveGuestEntry(r)
  <2>1. q.op \in Timed /\ "write" \in StepsOf(q.op)
      BY <1>10 DEF MoveGuestEntry, StepsOf, Timed
  <2> QED  BY <1>1, <1>2, <1>10, <2>1, OwnMove DEF MoveGuestEntry
<1>11. ASSUME NEW pc \in StepsOf(q.op), NEW gone, DeleteEntries(gone), Goto(r, pc),
              UNCHANGED commitment
       PROVE  OwnInv'
  <2>1. req' = [req EXCEPT ![r] = p(pc)] /\ ReqOK(p(pc), booking, entries)
      BY <1>2, <1>11
  <2>2. req' \in [Requests -> Request \cup {Idle}]
      BY <2>1 DEF OwnInv, TypeOK, ReqOK
  <2>3. \A s \in Requests : req'[s] = req[s] \/ ReqOK(req'[s], booking, entries)
      BY <2>1 DEF OwnInv, TypeOK
  <2> QED  BY <1>11, <2>2, <2>3, OwnDelete
<1>12. CASE DropHostEntry(r)
  <2>1. "second" \in StepsOf(q.op)
      BY <1>12 DEF DropHostEntry, StepsOf
  <2> QED  BY <1>11, <1>12, <2>1 DEF DropHostEntry
<1>13. CASE DropGuestEntry(r)
  <2>1. "write" \in StepsOf(q.op)
      BY <1>13 DEF DropGuestEntry, StepsOf
  <2> QED  BY <1>11, <1>13, <2>1 DEF DropGuestEntry
<1> QED  BY <1>4, <1>5, <1>7, <1>8, <1>9, <1>10, <1>12, <1>13

\* A request that is about to write: its booking's row, and what that becomes.
LEMMA OwnAtWrite ==
    ASSUME OwnInv, NEW r \in Requests, At(r, "write")
    PROVE  LET q == req[r]  row == booking[q.of]
           IN  /\ q \in Request /\ q.of \in Bookings /\ ReqOK(q, booking, entries)
               /\ row \in BookingRow /\ {row.host, row.guest} \subseteq Ids \cup {0}
               /\ \A e \in entries : e.id \in {row.host, row.guest} => e.of = q.of
               /\ q.op # "create" => row.status # "none" /\ row.slot # NoSlot
<1>1. req[r] \in Request /\ req[r].of \in Bookings /\ ReqOK(req[r], booking, entries)
    BY OwnHeld DEF At
<1> QED  BY <1>1 DEF OwnInv, TypeOK, ReqOK

\* The row that create inserts.
LEMMA CreatedFields ==
    ASSUME NEW slot \in Slots
    PROVE  LET t == [NoRow EXCEPT !.status = "PENDING", !.slot = slot]
           IN  /\ t \in BookingRow /\ t.status = "PENDING" /\ t.slot = slot /\ t.slot # NoSlot
               /\ t.host = 0 /\ t.guest = 0
    BY DEF BookingRow, NoRow, Statuses

LEMMA OwnLast ==
    ASSUME OwnInv, UNCHANGED regime, NEW r \in Requests,
           \/ WriteCreated(r) \/ WriteAccepted(r) \/ WriteDeclined(r) \/ WriteKept(r)
           \/ WriteCancelled(r) \/ WriteProposal(r) \/ WriteMoved(r)
    PROVE  OwnInv'
<1> DEFINE q == req[r]
           old == booking[q.of]
<1>1. At(r, "write") /\ Finish(r)
    BY DEF WriteCreated, WriteAccepted, WriteDeclined, WriteKept, WriteCancelled, WriteProposal,
           WriteMoved, Write
<1>2. /\ q \in Request /\ q.of \in Bookings /\ ReqOK(q, booking, entries)
      /\ old \in BookingRow /\ {old.host, old.guest} \subseteq Ids \cup {0}
      /\ \A e \in entries : e.id \in {old.host, old.guest} => e.of = q.of
      /\ q.op # "create" => old.status # "none" /\ old.slot # NoSlot
    BY <1>1, OwnAtWrite
<1>3. q.host \in Nat /\ q.guest \in Nat /\ q.slot \in Slots \cup {NoSlot} /\ q.by \in Users \cup {Nobody}
    BY <1>2 DEF Request
<1>4. ASSUME NEW row \in BookingRow, Update(q.of, row), q.op # "create",
             row.host = old.host, row.guest = old.guest, row.status # "none", row.slot # NoSlot
      PROVE  OwnInv'
    BY <1>1, <1>2, <1>4, OwnWrite
<1>5. CASE WriteCreated(r)
  <2> DEFINE row == [NoRow EXCEPT !.status = "PENDING", !.slot = q.slot]
  <2>1. q.slot \in Slots
      BY <1>2, <1>5 DEF WriteCreated, Write, ReqOK, Timed
  <2>2. /\ row \in BookingRow /\ row.status = "PENDING" /\ row.slot # NoSlot
        /\ row.host = 0 /\ row.guest = 0
      BY <2>1, CreatedFields
  <2>3. Update(q.of, row)
      BY <1>5 DEF WriteCreated
  <2>4. \A e \in entries : e.id # 0
      BY DEF OwnInv, TypeOK, Entry
  <2> HIDE DEF row
  <2> QED  BY <1>1, <1>2, <2>2, <2>3, <2>4, OwnWrite
<1>6. CASE WriteAccepted(r)
  <2> DEFINE row == [old EXCEPT !.status = "ACCEPTED", !.host = q.host, !.guest = q.guest]
  <2>1. q.op # "create" /\ Update(q.of, IF {q.host, q.guest} \subseteq Ids THEN row ELSE old)
      BY <1>6 DEF WriteAccepted, Write
  <2>2. CASE ~({q.host, q.guest} \subseteq Ids)
      BY <1>2, <1>4, <2>1, <2>2
  <2>3. CASE {q.host, q.guest} \subseteq Ids
    <3>1. /\ row \in BookingRow /\ row.status = "ACCEPTED" /\ row.slot = old.slot
          /\ row.host = q.host /\ row.guest = q.guest
        BY <1>2, <1>3 DEF Statuses, BookingRow
    <3>2. \A e \in entries : e.id \in {q.host, q.guest} => e.of = q.of
        BY <1>2 DEF ReqOK
    <3> HIDE DEF row
    <3> QED  BY <1>1, <1>2, <2>1, <2>3, <3>1, <3>2, OwnWrite
  <2> QED  BY <2>2, <2>3
<1>7. CASE WriteDeclined(r)
  <2> DEFINE row == [old EXCEPT !.status = "DECLINED"]
  <2>1. q.op = "decline" /\ Update(q.of, row)
      BY <1>7 DEF WriteDeclined, Write
  <2>2. /\ row \in BookingRow /\ row.status # "none" /\ row.slot # NoSlot
        /\ row.host = old.host /\ row.guest = old.guest
      BY <1>2, <1>3, <2>1 DEF Statuses, BookingRow
  <2> HIDE DEF row
  <2> QED  BY <1>4, <2>1, <2>2
<1>8. CASE WriteKept(r)
  <2> DEFINE row == [old EXCEPT !.status = "ACCEPTED", !.proposed = NoSlot, !.by = Nobody]
  <2>1. q.op = "keep" /\ Update(q.of, row)
      BY <1>8 DEF WriteKept, Write
  <2>2. /\ row \in BookingRow /\ row.status # "none" /\ row.slot # NoSlot
        /\ row.host = old.host /\ row.guest = old.guest
      BY <1>2, <1>3, <2>1 DEF Statuses, BookingRow
  <2> HIDE DEF row
  <2> QED  BY <1>4, <2>1, <2>2
<1>9. CASE WriteCancelled(r)
  <2> DEFINE row == [old EXCEPT !.status = "CANCELLED"]
  <2>1. q.op = "cancel" /\ Update(q.of, row)
      BY <1>9 DEF WriteCancelled, Write
  <2>2. /\ row \in BookingRow /\ row.status # "none" /\ row.slot # NoSlot
        /\ row.host = old.host /\ row.guest = old.guest
      BY <1>2, <1>3, <2>1 DEF Statuses, BookingRow
  <2> HIDE DEF row
  <2> QED  BY <1>4, <2>1, <2>2
<1>10. CASE WriteProposal(r)
  <2> DEFINE row == [old EXCEPT !.status = "RESCHEDULE_PENDING", !.proposed = q.slot, !.by = q.by]
  <2>1. q.op = "reschedule" /\ Update(q.of, row)
      BY <1>10 DEF WriteProposal, Write
  <2>2. /\ row \in BookingRow /\ row.status # "none" /\ row.slot # NoSlot
        /\ row.host = old.host /\ row.guest = old.guest
      BY <1>2, <1>3, <2>1 DEF Statuses, BookingRow
  <2> HIDE DEF row
  <2> QED  BY <1>4, <2>1, <2>2
<1>11. CASE WriteMoved(r)
  <2> DEFINE row == [old EXCEPT !.status = "ACCEPTED", !.slot = q.slot,
                             !.proposed = NoSlot, !.by = Nobody]
  <2>1. q.op = "agree" /\ Update(q.of, row)
      BY <1>11 DEF WriteMoved, Write
  <2>2. /\ row \in BookingRow /\ row.status # "none" /\ row.slot # NoSlot
        /\ row.host = old.host /\ row.guest = old.guest
      BY <1>2, <1>3, <2>1 DEF Statuses, BookingRow, ReqOK, Timed
  <2> HIDE DEF row
  <2> QED  BY <1>4, <2>1, <2>2
<1> QED  BY <1>5, <1>6, <1>7, <1>8, <1>9, <1>10, <1>11

(* Every step keeps the ownership of the entries, and all there is: type    *)
(* correctness with the foreign keys, which cancel, delete-own-entry and    *)
(* the failing update of accept respect.                                    *)
LEMMA OwnStep == OwnInv /\ [Next]_vars => OwnInv'
<1> SUFFICES ASSUME OwnInv, [Next]_vars PROVE OwnInv'
    OBVIOUS
<1>1. CASE UNCHANGED vars
  <2>1. Ids' = Ids
      BY <1>1 DEF vars, Ids
  <2> QED  BY <1>1, <2>1 DEF vars, OwnInv, TypeOK, ReqOK, InFlight, At
<1>2. ASSUME NEW r \in Requests, NEW b \in regime.bookings, Begin(r, b), UNCHANGED regime
      PROVE  OwnInv'
  <2>1. b \in Bookings
      BY DEF OwnInv, TypeOK, Regime
  <2> QED  BY <1>2, <2>1, OwnBegin
<1>3. ASSUME NEW r \in Requests, Continue(r), UNCHANGED regime PROVE OwnInv'
    BY <1>3, OwnMiddle, OwnLast DEF Continue
<1>4. ASSUME NEW r \in Requests, Die(r), UNCHANGED regime PROVE OwnInv'
    BY <1>4, OwnQuiet DEF Die, Finish
<1>5. ASSUME NEW e \in entries, DeleteOwnEntry(e), UNCHANGED regime PROVE OwnInv'
  <2>1. req' = req /\ DeleteEntries({e.id}) /\ UNCHANGED commitment
      BY <1>5 DEF DeleteOwnEntry
  <2> QED  BY <1>5, <2>1, OwnDelete DEF OwnInv, TypeOK
<1> QED  BY <1>1, <1>2, <1>3, <1>4, <1>5 DEF Next

LEMMA OwnInit == Init => OwnInv
<1> SUFFICES ASSUME Init PROVE OwnInv
    OBVIOUS
<1>1. NoRow \in BookingRow /\ NoRow.status = "none" /\ NoRow.host = 0 /\ NoRow.guest = 0
    BY DEF NoRow, BookingRow, Statuses
<1>2. booking \in [Bookings -> BookingRow] /\ \A b \in Bookings : booking[b] = NoRow
    BY <1>1 DEF Init
<1>3. entries = {} /\ req \in [Requests -> Request \cup {Idle}] /\ InFlight = {}
    BY DEF Init, InFlight, At, Idle
<1>4. commitment \in Commitments /\ regime \in Regimes
    BY DEF Init
<1> QED  BY <1>1, <1>2, <1>3, <1>4 DEF OwnInv, TypeOK

(* Bookings, entries and requests are well formed in every regime, however  *)
(* requests interleave and die: entry ids are unique and a booking's row    *)
(* refers to entries that exist.                                            *)
THEOREM DancecardTypeCorrect == Spec => []TypeOK
<1>1. OwnInv => TypeOK
    BY DEF OwnInv
<1> QED  BY <1>1, OwnInit, OwnStep, PTL DEF Spec

-----------------------------------------------------------------------------
(* With one request on a booking at a time and none dying, the calendars    *)
(* hold what is booked.  It is true of a booking at rest only: in between,  *)
(* the invariant says how far the request on it has come.                   *)

InTurn == regime.onePerBooking /\ ~regime.failures

OneEach == \A r, s \in InFlight : req[r].of = req[s].of => r = s

Of(b, E) == {e \in E : e.of = b}

\* The entries D of b are at most one for the host, with id h, and one for the
\* guest, with id g.
Linked(h, g, b, D) == \A e \in D : e.id = IF e.user = HostOf[b] THEN h ELSE g
AllAt(slot, D) == \A e \in D : e.slot = slot

Settled(row, b, D) ==
    D # {} => /\ row.status \in {"ACCEPTED", "RESCHEDULE_PENDING"}
              /\ AllAt(row.slot, D) /\ Linked(row.host, row.guest, b, D)

\* What request q has done so far to the entries D of its booking.
Underway(q, row, D) ==
    /\ q.op \in {"create", "decline"} => D = {}
    /\ q.op = "accept" =>
          /\ row.slot = q.slot /\ AllAt(q.slot, D)
          /\ q.pc \in {"checkHost", "checkGuest", "first"} => D = {}
          /\ q.pc = "second" => \A e \in D : e.id = q.host /\ e.user = HostOf[q.of]
          /\ q.pc = "write" => Linked(q.host, q.guest, q.of, D)
          /\ q.pc \in {"second", "write"} => \E e \in D : e.id = q.host
          /\ q.pc = "write" => \E e \in D : e.id = q.guest
    /\ q.op \in {"keep", "reschedule"} => Settled(row, q.of, D)
    /\ q.op = "cancel" =>
          /\ q.pc = "first" => Linked(q.host, q.guest, q.of, D)
          /\ q.pc = "second" => \A e \in D : e.id = q.guest
          /\ q.pc = "write" => D = {}
    /\ q.op = "agree" =>
          /\ row.host = q.host /\ row.guest = q.guest /\ Linked(q.host, q.guest, q.of, D)
          /\ q.pc \in {"checkHost", "checkGuest"} => Settled(row, q.of, D)
          /\ q.pc = "second" => \A e \in D : e.user = HostOf[q.of] => e.slot = q.slot
          /\ q.pc = "write" => AllAt(q.slot, D)

MatchInv ==
    InTurn =>
        /\ OneEach
        /\ \A b \in Bookings : Idling(b) => Settled(booking[b], b, Of(b, entries))
        /\ \A r \in InFlight : Underway(req[r], booking[req[r].of], Of(req[r].of, entries))

\* What a step does to the entries of each booking: an insert,
LEMMA AddOf ==
    ASSUME OwnInv, NEW r \in Requests, ~At(r, "idle"), NEW u, AddEntry(r, u), NEW c
    PROVE  LET n == [id |-> NewId, user |-> u, of |-> req[r].of, slot |-> req[r].slot]
           IN  Of(c, entries') = IF c = req[r].of THEN Of(c, entries) \cup {n} ELSE Of(c, entries)
    BY DEF AddEntry, Of

\* ... a move, which keeps their number,
LEMMA MoveOf ==
    ASSUME OwnInv, NEW r \in Requests, ~At(r, "idle"), req[r].op \in Timed,
           NEW id \in {req[r].host, req[r].guest}, MoveEntry(r, id), NEW c
    PROVE  /\ c # req[r].of => Of(c, entries') = Of(c, entries)
           /\ \A d \in Of(c, entries') : \E e \in Of(c, entries) :
                 /\ d.id = e.id /\ d.user = e.user
                 /\ d.slot = IF e.id = id THEN req[r].slot ELSE e.slot
<1>1. ReqOK(req[r], booking, entries)
    BY Held DEF At
<1>2. \A e \in entries : e.id = id => e.of = req[r].of
    BY <1>1 DEF ReqOK
<1>3. c # req[r].of => Of(c, entries') = Of(c, entries)
  <2> DEFINE f(e) == IF e.id = id THEN [e EXCEPT !.slot = req[r].slot] ELSE e
  <2>1. entries' = {f(e) : e \in entries}
      BY DEF MoveEntry
  <2>2. \A e \in entries : f(e).of = e.of /\ (e.of # req[r].of => f(e) = e)
      BY <1>2 DEF OwnInv, TypeOK, Entry
  <2> HIDE DEF f
  <2> QED  BY <2>1, <2>2 DEF Of
<1>4. \A d \in entries' : \E e \in entries :
         /\ d.id = e.id /\ d.user = e.user /\ d.of = e.of
         /\ d.slot = IF e.id = id THEN req[r].slot ELSE e.slot
    BY <1>1, MovedFields DEF OwnInv, ReqOK
<1> QED  BY <1>3, <1>4 DEF Of

\* ... and a deletion, which only touches the row of the entries' own booking.
LEMMA DeleteOf ==
    ASSUME OwnInv, NEW gone, 0 \notin gone, DeleteEntries(gone),
           NEW b, \A e \in entries : e.id \in gone => e.of = b,
           NEW c \in Bookings
    PROVE  /\ c # b => Of(c, entries') = Of(c, entries) /\ booking'[c] = booking[c]
           /\ Of(c, entries') = {e \in Of(c, entries) : e.id \notin gone}
<1>1. entries' = {e \in entries : e.id \notin gone}
    BY DEF DeleteEntries
<1>2. Of(c, entries') = {e \in Of(c, entries) : e.id \notin gone}
    BY <1>1 DEF Of
<1>3. ASSUME c # b PROVE Of(c, entries') = Of(c, entries)
    BY <1>1, <1>3 DEF Of
<1>4. ASSUME c # b PROVE booking'[c] = booking[c]
  <2>1. booking[c].host \notin gone /\ booking[c].guest \notin gone
    <3>1. \A e \in entries : e.id \in {booking[c].host, booking[c].guest} => e.of = c
        BY DEF OwnInv
    <3>2. booking[c].host \in Ids \cup {0} /\ booking[c].guest \in Ids \cup {0}
        BY DEF OwnInv, TypeOK
    <3>3. \A i \in Ids : \E e \in entries : e.id = i
        BY DEF Ids
    <3> QED  BY <1>4, <3>1, <3>2, <3>3
  <2>2. booking[c] \in BookingRow
      BY DEF OwnInv, TypeOK
  <2>3. booking'[c] = [booking[c] EXCEPT !.host = booking[c].host, !.guest = booking[c].guest]
      BY <2>1, <2>2 DEF DeleteEntries, Unlinked, BookingRow
  <2> QED  BY <2>2, <2>3 DEF BookingRow
<1> QED  BY <1>2, <1>3, <1>4

\* What has to be shown of a step of a request on booking b.
LEMMA MatchFrame ==
    ASSUME OwnInv, MatchInv, InTurn, UNCHANGED regime, NEW b \in Bookings, NEW r \in Requests,
           \A c \in Bookings : c # b => Of(c, entries') = Of(c, entries) /\ booking'[c] = booking[c],
           \A s \in InFlight : s # r => req[s].of # b,
           r \in InFlight => req[r].of = b,
           NEW p, req' = [req EXCEPT ![r] = p],
           \/ p = Idle /\ Settled(booking'[b], b, Of(b, entries'))
           \/ p.pc # "idle" /\ p.of = b /\ Underway(p, booking'[b], Of(b, entries'))
    PROVE  MatchInv'
<1>1. /\ OneEach /\ \A c \in Bookings : Idling(c) => Settled(booking[c], c, Of(c, entries))
      /\ \A s \in InFlight : Underway(req[s], booking[req[s].of], Of(req[s].of, entries))
    BY DEF MatchInv
<1>2. req'[r] = p /\ \A s \in Requests : s # r => req'[s] = req[s]
    BY DEF OwnInv, TypeOK
<1>3. /\ \A s \in InFlight' : s # r => s \in InFlight /\ req'[s] = req[s] /\ req[s].of # b
      /\ r \in InFlight' => p # Idle /\ p.pc # "idle"
      /\ \A s \in InFlight : s # r => s \in InFlight'
      /\ p.pc # "idle" => r \in InFlight'
    BY <1>2 DEF InFlight, At, Idle
<1>4. OneEach'
    BY <1>1, <1>2, <1>3 DEF OneEach
<1>5. ASSUME NEW c \in Bookings, Idling(c)' PROVE Settled(booking'[c], c, Of(c, entries'))
  <2>1. CASE c = b
      BY <1>2, <1>3, <1>5, <2>1 DEF Idling
  <2>2. CASE c # b
      BY <1>1, <1>2, <1>3, <1>5, <2>2 DEF Idling
  <2> QED  BY <2>1, <2>2
<1>6. ASSUME NEW s \in InFlight'
      PROVE  Underway(req'[s], booking'[req'[s].of], Of(req'[s].of, entries'))
  <2>1. CASE s = r
      BY <1>2, <1>3, <2>1
  <2>2. CASE s # r
    <3>1. req[s].of \in Bookings /\ req[s].of # b /\ req'[s] = req[s] /\ s \in InFlight
        BY <1>3, <2>2, OwnHeld DEF InFlight
    <3> QED  BY <1>1, <3>1
  <2> QED  BY <2>1, <2>2
<1> QED  BY <1>4, <1>5, <1>6 DEF MatchInv, Idling

\* A request starts on a booking at rest.
LEMMA MatchStart ==
    ASSUME OwnInv, MatchInv, InTurn, UNCHANGED regime, NEW r \in Requests, NEW b \in Bookings,
           NEW op \in Ops, NEW slot, NEW pc \in StepsOf(op), NEW by, StartBy(by, r, op, b, slot, pc),
           op = "create" => booking[b].status = "none",
           op = "accept" => booking[b].status = "PENDING" /\ slot = booking[b].slot,
           op = "decline" => booking[b].status = "PENDING",
           pc = IF op = "cancel" THEN "first" ELSE IF op \in {"decline", "keep"} THEN "write" ELSE "checkHost"
    PROVE  MatchInv'
<1> DEFINE D == Of(b, entries)
           used == op \in {"cancel", "agree"}
           h == IF used THEN booking[b].host ELSE 0
           g == IF used THEN booking[b].guest ELSE 0
           p == [pc |-> pc, op |-> op, of |-> b, slot |-> slot, by |-> by, host |-> h, guest |-> g]
<1>1. /\ req' = [req EXCEPT ![r] = p] /\ UNCHANGED <<booking, entries, commitment>>
      /\ Idling(b) /\ r \notin InFlight
    BY DEF StartBy, InTurn, InFlight
<1>2. Settled(booking[b], b, D)
    BY <1>1 DEF MatchInv
<1>3. op \in {"create", "accept", "decline"} => D = {}
    BY <1>2 DEF Settled
<1>4. Linked(booking[b].host, booking[b].guest, b, D)
  <2>1. CASE D = {}
      BY <2>1 DEF Linked
  <2> QED  BY <1>2, <2>1 DEF Settled
<1>5. pc # "idle"
    OBVIOUS
<1>6. Underway(p, booking[b], D)
  <2>1. /\ p.pc = pc /\ p.op = op /\ p.of = b /\ p.slot = slot /\ p.host = h /\ p.guest = g
      OBVIOUS
  <2> HIDE DEF p, D
  <2>2. AllAt(slot, {})
      BY DEF AllAt
  <2>3. CASE op \in {"create", "decline", "accept"}
      BY <1>3, <2>1, <2>2, <2>3 DEF Underway
  <2>4. CASE op \in {"keep", "reschedule"}
      BY <1>2, <2>1, <2>4 DEF Underway
  <2>5. CASE op \in {"cancel", "agree"}
      BY <1>2, <1>4, <2>1, <2>5 DEF Underway
  <2> QED  BY <2>3, <2>4, <2>5 DEF Ops
<1>7. p.of = b /\ p.pc = pc
    OBVIOUS
<1> HIDE DEF p
<1> QED  BY <1>1, <1>5, <1>6, <1>7, MatchFrame DEF Idling

LEMMA MatchBegin ==
    ASSUME OwnInv, MatchInv, InTurn, UNCHANGED regime, NEW r \in Requests, NEW b \in Bookings, Begin(r, b)
    PROVE  MatchInv'
<1> USE DEF Ops, StepsOf, Start
<1>1. CASE Create(r, b)
  <2>1. PICK slot \in Slots : Start(r, "create", b, slot, "checkHost")
      BY <1>1 DEF Create
  <2> QED  BY <1>1, <2>1, MatchStart DEF Create
<1>2. CASE Accept(r, b)
    BY <1>2, MatchStart DEF Accept
<1>3. CASE Decline(r, b)
    BY <1>3, MatchStart DEF Decline
<1>4. CASE Keep(r, b)
    BY <1>4, MatchStart DEF Keep
<1>5. CASE Cancel(r, b)
    BY <1>5, MatchStart DEF Cancel
<1>6. CASE Reschedule(r, b)
  <2>1. PICK actor \in {HostOf[b], GuestOf[b]}, slot \in Slots :
               StartBy(actor, r, "reschedule", b, slot, "checkHost")
      BY <1>6 DEF Reschedule
  <2> QED  BY <2>1, MatchStart
<1>7. CASE Agree(r, b)
    BY <1>7, MatchStart DEF Agree
<1> QED  BY <1>1, <1>2, <1>3, <1>4, <1>5, <1>6, <1>7 DEF Begin

\* What a request in flight finds: it is alone on its booking.
LEMMA MatchHeld ==
    ASSUME OwnInv, MatchInv, InTurn, NEW r \in Requests, ~At(r, "idle")
    PROVE  LET q == req[r]
           IN  /\ r \in InFlight /\ q.of \in Bookings
               /\ Underway(q, booking[q.of], Of(q.of, entries))
               /\ \A s \in InFlight : s # r => req[s].of # q.of
    BY OwnHeld DEF MatchInv, OneEach, InFlight

\* A step on booking b leaves the others alone.
LEMMA MatchAlone ==
    ASSUME OwnInv, MatchInv, InTurn, UNCHANGED regime, NEW r \in Requests, ~At(r, "idle"),
           \A c \in Bookings : c # req[r].of =>
              Of(c, entries') = Of(c, entries) /\ booking'[c] = booking[c],
           \/ /\ Finish(r)
              /\ Settled(booking'[req[r].of], req[r].of, Of(req[r].of, entries'))
           \/ \E pc \in StepsOf(req[r].op) :
              /\ Goto(r, pc)
              /\ Underway([req[r] EXCEPT !.pc = pc], booking'[req[r].of], Of(req[r].of, entries'))
    PROVE  MatchInv'
<1> DEFINE q == req[r]
<1>1. /\ r \in InFlight /\ q.of \in Bookings
      /\ \A s \in InFlight : s # r => req[s].of # q.of
    BY MatchHeld
<1>2. CASE Finish(r) /\ Settled(booking'[q.of], q.of, Of(q.of, entries'))
    BY <1>1, <1>2, MatchFrame DEF Finish
<1>3. ASSUME NEW pc \in StepsOf(q.op), Goto(r, pc),
             Underway([q EXCEPT !.pc = pc], booking'[q.of], Of(q.of, entries'))
      PROVE  MatchInv'
  <2> DEFINE p == [q EXCEPT !.pc = pc]
  <2>1. p.of = q.of /\ p.pc = pc /\ req' = [req EXCEPT ![r] = p]
      BY <1>3, OwnHeld DEF Request, Goto
  <2>2. pc # "idle"
      BY DEF StepsOf
  <2>3. Underway(p, booking'[q.of], Of(q.of, entries'))
      BY <1>3
  <2> HIDE DEF p
  <2> QED  BY <1>1, <2>1, <2>2, <2>3, MatchFrame
<1> QED  BY <1>2, <1>3

\* The checks write nothing.
LEMMA MatchChecks ==
    ASSUME OwnInv, MatchInv, InTurn, UNCHANGED regime, NEW r \in Requests,
           CheckHost(r) \/ CheckGuest(r)
    PROVE  MatchInv'
<1> DEFINE q == req[r]
           D == Of(q.of, entries)
           next == IF q.pc = "checkHost" THEN "checkGuest"
                   ELSE IF q.op \in {"accept", "agree"} THEN "first" ELSE "write"
           p == [q EXCEPT !.pc = next]
<1>1. /\ UNCHANGED <<booking, entries, commitment>> /\ ~At(r, "idle")
      /\ q.pc \in {"checkHost", "checkGuest"}
      /\ Finish(r) \/ Goto(r, next)
    BY DEF CheckHost, CheckGuest, At
<1>2. /\ Underway(q, booking[q.of], D) /\ q \in Request /\ q.of \in Bookings
      /\ q.pc \in StepsOf(q.op)
    BY <1>1, MatchHeld, OwnHeld DEF ReqOK
<1>3. q.op \in {"create", "accept", "reschedule", "agree"} /\ next \in StepsOf(q.op)
  <2>1. q.op \in Ops
      BY <1>2 DEF Request
  <2> HIDE DEF q
  <2> QED  BY <1>1, <1>2, <2>1 DEF StepsOf, Ops
<1>4. Settled(booking[q.of], q.of, D)
  <2> HIDE DEF q, D
  <2>1. CASE q.op \in {"create", "accept"}
      BY <1>1, <1>2, <2>1 DEF Underway, Settled
  <2>2. CASE q.op \in {"reschedule", "agree"}
      BY <1>1, <1>2, <2>2 DEF Underway
  <2> QED  BY <1>3, <2>1, <2>2
<1>5. /\ p.pc = next /\ p.op = q.op /\ p.of = q.of /\ p.slot = q.slot
      /\ p.host = q.host /\ p.guest = q.guest
    BY <1>2 DEF Request
<1>6. Underway(p, booking[q.of], D)
  <2>1. next \in {"checkGuest", "first", "write"}
      OBVIOUS
  <2>2. next = "write" => q.op \in {"create", "reschedule"}
      BY <1>1, <1>3
  <2> HIDE DEF p, D, next, q
  <2>3. CASE q.op = "create"
      BY <1>2, <1>5, <2>3 DEF Underway
  <2>4. CASE q.op = "accept"
      BY <1>1, <1>2, <1>5, <2>1, <2>2, <2>4 DEF Underway
  <2>5. CASE q.op = "reschedule"
      BY <1>4, <1>5, <2>5 DEF Underway
  <2>6. CASE q.op = "agree"
      BY <1>2, <1>4, <1>5, <2>1, <2>2, <2>6 DEF Underway
  <2> QED  BY <1>3, <2>3, <2>4, <2>5, <2>6
<1> QED  BY <1>1, <1>3, <1>4, <1>6, MatchAlone

\* Accept inserts an entry that nobody else refers to.
LEMMA MatchAdd ==
    ASSUME OwnInv, MatchInv, InTurn, UNCHANGED regime, NEW r \in Requests,
           AddHostEntry(r) \/ AddGuestEntry(r)
    PROVE  MatchInv'
<1> DEFINE q == req[r]
           b == q.of
           D == Of(b, entries)
           u == IF q.pc = "first" THEN HostOf[b] ELSE GuestOf[b]
           n == [id |-> NewId, user |-> u, of |-> b, slot |-> q.slot]
           p == IF q.pc = "first" THEN [q EXCEPT !.pc = "second", !.host = NewId]
                                  ELSE [q EXCEPT !.pc = "write", !.guest = NewId]
<1>1. /\ UNCHANGED <<booking, commitment>> /\ ~At(r, "idle") /\ q.op = "accept"
      /\ q.pc \in {"first", "second"} /\ AddEntry(r, u) /\ req' = [req EXCEPT ![r] = p]
    BY DEF AddHostEntry, AddGuestEntry, At
<1>2. /\ Underway(q, booking[b], D) /\ q \in Request /\ b \in Bookings /\ HostOf[b] # GuestOf[b]
      /\ r \in InFlight /\ \A s \in InFlight : s # r => req[s].of # b
    BY <1>1, MatchHeld, OwnHeld
<1>3. /\ Of(b, entries') = D \cup {n}
      /\ \A c \in Bookings : c # b => Of(c, entries') = Of(c, entries)
    BY <1>1, AddOf
<1>4. /\ p.pc = (IF q.pc = "first" THEN "second" ELSE "write")
      /\ p.op = q.op /\ p.of = b /\ p.slot = q.slot
      /\ p.host = (IF q.pc = "first" THEN NewId ELSE q.host)
      /\ q.pc # "first" => p.guest = NewId
    BY <1>2 DEF Request
<1>5. n.id = NewId /\ n.user = u /\ n.slot = q.slot
    OBVIOUS
<1> HIDE DEF D, n, p
<1>6. Underway(p, booking[b], D \cup {n})
  <2>1. CASE q.pc = "first"
    <3>1. D = {} /\ booking[b].slot = q.slot
        BY <1>1, <1>2, <2>1 DEF Underway
    <3>2. p.pc = "second" /\ p.host = NewId /\ u = HostOf[b]
        BY <1>4, <2>1
    <3> QED  BY <1>1, <1>4, <1>5, <3>1, <3>2 DEF Underway, AllAt
  <2>2. CASE q.pc = "second"
    <3>1. /\ booking[b].slot = q.slot /\ AllAt(q.slot, D)
          /\ \A e \in D : e.id = q.host /\ e.user = HostOf[b]
          /\ \E e \in D : e.id = q.host
        BY <1>1, <1>2, <2>2 DEF Underway
    <3>2. p.pc = "write" /\ p.host = q.host /\ p.guest = NewId /\ u = GuestOf[b]
        BY <1>4, <2>2
    <3> QED  BY <1>1, <1>2, <1>4, <1>5, <3>1, <3>2 DEF Underway, AllAt, Linked
  <2> QED  BY <1>1, <2>1, <2>2
<1> QED
  <2>1. p.pc # "idle"
      BY <1>1, <1>4
  <2> HIDE DEF b
  <2> QED  BY <1>1, <1>2, <1>3, <1>4, <1>6, <2>1, MatchFrame DEF b

\* Reschedule-accept moves the host's entry, then the guest's.
LEMMA MatchMove ==
    ASSUME OwnInv, MatchInv, InTurn, UNCHANGED regime, NEW r \in Requests,
           MoveHostEntry(r) \/ MoveGuestEntry(r)
    PROVE  MatchInv'
<1> DEFINE q == req[r]
           b == q.of
           D == Of(b, entries)
           E == Of(b, entries')
           id == IF q.pc = "first" THEN q.host ELSE q.guest
           next == IF q.pc = "first" THEN "second" ELSE "write"
           p == [q EXCEPT !.pc = next]
<1>1. /\ UNCHANGED <<booking, commitment>> /\ ~At(r, "idle") /\ q.op = "agree"
      /\ q.pc \in {"first", "second"} /\ MoveEntry(r, id) /\ Goto(r, next)
    BY DEF MoveHostEntry, MoveGuestEntry, At
<1>2. /\ Underway(q, booking[b], D) /\ q \in Request /\ b \in Bookings
    BY <1>1, MatchHeld, OwnHeld
<1>3. /\ \A c \in Bookings : c # b => Of(c, entries') = Of(c, entries)
      /\ \A d \in E : \E e \in D : /\ d.id = e.id /\ d.user = e.user
                                   /\ d.slot = IF e.id = id THEN q.slot ELSE e.slot
    BY <1>1, MoveOf DEF Timed
<1>4. /\ p.pc = next /\ p.op = q.op /\ p.of = b /\ p.slot = q.slot
      /\ p.host = q.host /\ p.guest = q.guest
    BY <1>2 DEF Request
<1>5. /\ booking[b].host = q.host /\ booking[b].guest = q.guest /\ Linked(q.host, q.guest, b, D)
      /\ q.pc = "second" => \A e \in D : e.user = HostOf[b] => e.slot = q.slot
    BY <1>1, <1>2 DEF Underway
<1> HIDE DEF D, E, p
<1>6. Linked(q.host, q.guest, b, E)
    BY <1>3, <1>5 DEF Linked
<1>7. q.pc = "first" => \A e \in E : e.user = HostOf[b] => e.slot = q.slot
    BY <1>3, <1>5 DEF Linked
<1>8. q.pc = "second" => AllAt(q.slot, E)
    BY <1>3, <1>5 DEF Linked, AllAt
<1>9. Underway(p, booking[b], E)
    BY <1>1, <1>4, <1>5, <1>6, <1>7, <1>8 DEF Underway
<1> QED
  <2>1. next \in StepsOf(q.op)
      BY <1>1 DEF StepsOf
  <2> QED  BY <1>1, <1>3, <1>9, <2>1, MatchAlone DEF p, E

\* Cancel deletes the host's entry, then the guest's.
LEMMA MatchDrop ==
    ASSUME OwnInv, MatchInv, InTurn, UNCHANGED regime, NEW r \in Requests,
           DropHostEntry(r) \/ DropGuestEntry(r)
    PROVE  MatchInv'
<1> DEFINE q == req[r]
           b == q.of
           D == Of(b, entries)
           E == Of(b, entries')
           gone == {IF q.pc = "first" THEN q.host ELSE q.guest} \ {0}
           next == IF q.pc = "first" THEN "second" ELSE "write"
           p == [q EXCEPT !.pc = next]
<1>1. /\ UNCHANGED commitment /\ ~At(r, "idle") /\ q.op = "cancel"
      /\ q.pc \in {"first", "second"} /\ DeleteEntries(gone) /\ Goto(r, next)
    BY DEF DropHostEntry, DropGuestEntry, At
<1>2. /\ Underway(q, booking[b], D) /\ q \in Request /\ b \in Bookings
      /\ ReqOK(q, booking, entries)
    BY <1>1, MatchHeld, OwnHeld
<1>3. \A e \in entries : e.id \in gone => e.of = b
    BY <1>2 DEF ReqOK
<1>4. /\ \A c \in Bookings : c # b => Of(c, entries') = Of(c, entries) /\ booking'[c] = booking[c]
      /\ E = {e \in D : e.id \notin gone}
    BY <1>1, <1>2, <1>3, DeleteOf
<1>5. p.pc = next /\ p.op = q.op /\ p.of = b /\ p.host = q.host /\ p.guest = q.guest
    BY <1>2 DEF Request
<1>6. \A e \in D : e.id # 0
    BY DEF Of, OwnInv, TypeOK, Entry
<1> HIDE DEF D, E, p
<1> QED
  <2>1. next \in StepsOf(q.op)
      BY <1>1 DEF StepsOf
  <2>2. Underway(p, booking'[b], E)
    <3>1. CASE q.pc = "first"
      <4>1. \A e \in E : e.id = q.guest
        <5>1. Linked(q.host, q.guest, b, D)
            BY <1>1, <1>2, <3>1 DEF Underway
        <5> QED  BY <1>4, <1>6, <3>1, <5>1 DEF Linked
      <4> QED  BY <1>1, <1>5, <3>1, <4>1 DEF Underway
    <3>2. CASE q.pc = "second"
      <4>1. E = {}
          BY <1>1, <1>2, <1>4, <1>6, <3>2 DEF Underway
      <4> QED  BY <1>1, <1>5, <3>2, <4>1 DEF Underway
    <3> QED  BY <1>1, <3>1, <3>2
  <2> QED  BY <1>1, <1>4, <2>1, <2>2, MatchAlone DEF p, E

\* Somebody deletes an entry of a booking at rest.
LEMMA MatchDelete ==
    ASSUME OwnInv, MatchInv, InTurn, UNCHANGED regime, NEW e \in entries, DeleteOwnEntry(e)
    PROVE  MatchInv'
<1> DEFINE b == e.of
<1>1. Idling(b) /\ DeleteEntries({e.id}) /\ UNCHANGED <<req, commitment>> /\ 0 \notin {e.id}
    BY DEF DeleteOwnEntry, InTurn, OwnInv, TypeOK, Entry
<1>2. \A d \in entries : d.id \in {e.id} => d.of = b
    BY DEF OwnInv, TypeOK
<1>3. \A c \in Bookings :
         /\ c # b => Of(c, entries') = Of(c, entries) /\ booking'[c] = booking[c]
         /\ Of(c, entries') = {d \in Of(c, entries) : d.id \notin {e.id}}
    BY <1>1, <1>2, DeleteOf
<1>4. b \in Bookings
    BY DEF OwnInv, TypeOK, Entry
<1>5. /\ booking'[b].host = (IF booking[b].host \in {e.id} THEN 0 ELSE booking[b].host)
      /\ booking'[b].guest = (IF booking[b].guest \in {e.id} THEN 0 ELSE booking[b].guest)
      /\ booking'[b].status = booking[b].status /\ booking'[b].slot = booking[b].slot
    BY <1>1, <1>4, UnlinkedFields DEF OwnInv
<1>6. Settled(booking'[b], b, Of(b, entries'))
  <2>1. Settled(booking[b], b, Of(b, entries))
      BY <1>1, <1>4 DEF MatchInv
  <2>2. Of(b, entries') = {d \in Of(b, entries) : d.id # e.id}
      BY <1>3, <1>4
  <2> QED  BY <1>5, <2>1, <2>2 DEF Settled, AllAt, Linked
<1>7. /\ OneEach /\ \A c \in Bookings : Idling(c) => Settled(booking[c], c, Of(c, entries))
      /\ \A s \in InFlight : Underway(req[s], booking[req[s].of], Of(req[s].of, entries))
    BY DEF MatchInv
<1>8. InFlight' = InFlight /\ OneEach' /\ \A c \in Bookings : Idling(c)' <=> Idling(c)
    BY <1>1, <1>7 DEF InFlight, At, OneEach, Idling
<1>9. \A c \in Bookings : Idling(c)' => Settled(booking'[c], c, Of(c, entries'))
    BY <1>3, <1>6, <1>7, <1>8
<1>10. ASSUME NEW s \in InFlight
       PROVE  Underway(req'[s], booking'[req'[s].of], Of(req'[s].of, entries'))
  <2>1. req[s].of \in Bookings /\ req[s].of # b
      BY <1>1, OwnHeld DEF InFlight, Idling
  <2> QED  BY <1>1, <1>3, <1>7, <2>1
<1> QED  BY <1>8, <1>9, <1>10 DEF MatchInv

\* The last query settles the booking.
LEMMA MatchLast ==
    ASSUME OwnInv, MatchInv, InTurn, UNCHANGED regime, NEW r \in Requests,
           \/ WriteCreated(r) \/ WriteAccepted(r) \/ WriteDeclined(r) \/ WriteKept(r)
           \/ WriteCancelled(r) \/ WriteProposal(r) \/ WriteMoved(r)
    PROVE  MatchInv'
<1> DEFINE q == req[r]
           b == q.of
           D == Of(b, entries)
           old == booking[b]
<1>1. q.pc = "write" /\ ~At(r, "idle") /\ Finish(r)
    BY DEF WriteCreated, WriteAccepted, WriteDeclined, WriteKept, WriteCancelled, WriteProposal,
           WriteMoved, Write, At
<1>2. /\ Underway(q, old, D) /\ q \in Request /\ b \in Bookings /\ old \in BookingRow
    BY <1>1, MatchHeld, OwnHeld DEF OwnInv, TypeOK
<1>3. q.host \in Nat /\ q.guest \in Nat /\ q.slot \in Slots \cup {NoSlot} /\ q.by \in Users \cup {Nobody}
    BY <1>2 DEF Request
<1> HIDE DEF q, D, old
<1>4. ASSUME NEW row, Update(b, row), Settled(row, b, D) PROVE MatchInv'
  <2>1. entries' = entries /\ booking' = [booking EXCEPT ![b] = row]
      BY <1>4 DEF Update
  <2>2. booking'[b] = row /\ \A c \in Bookings : c # b => booking'[c] = booking[c]
      BY <1>2, <2>1 DEF OwnInv, TypeOK
  <2> QED  BY <1>1, <1>4, <2>1, <2>2, MatchAlone DEF q, D
<1>5. ASSUME NEW row, D = {} PROVE Settled(row, b, D)
    BY <1>5 DEF Settled
<1>6. CASE WriteCreated(r)
  <2>1. q.op = "create" /\ \E row : Update(b, row)
      BY <1>6 DEF WriteCreated, Write, q
  <2> QED  BY <1>2, <1>4, <1>5, <2>1 DEF Underway
<1>7. CASE WriteAccepted(r)
  <2> DEFINE row == [old EXCEPT !.status = "ACCEPTED", !.host = q.host, !.guest = q.guest]
  <2>1. q.op = "accept" /\ Update(b, IF {q.host, q.guest} \subseteq Ids THEN row ELSE old)
      BY <1>7 DEF WriteAccepted, Write, q, old
  <2>2. /\ old.slot = q.slot /\ AllAt(q.slot, D) /\ Linked(q.host, q.guest, b, D)
        /\ \E e \in D : e.id = q.host
        /\ \E e \in D : e.id = q.guest
      BY <1>1, <1>2, <2>1 DEF Underway
  <2>3. {q.host, q.guest} \subseteq Ids
      BY <2>2 DEF D, Of, Ids
  <2>4. row.status = "ACCEPTED" /\ row.slot = old.slot /\ row.host = q.host /\ row.guest = q.guest
      BY <1>2, <1>3 DEF BookingRow
  <2> HIDE DEF row
  <2>5. Settled(row, b, D)
      BY <2>2, <2>4 DEF Settled
  <2> QED  BY <1>4, <2>1, <2>3, <2>5
<1>8. CASE WriteDeclined(r)
  <2>1. q.op = "decline" /\ \E row : Update(b, row)
      BY <1>8 DEF WriteDeclined, Write, q
  <2> QED  BY <1>2, <1>4, <1>5, <2>1 DEF Underway
<1>9. CASE WriteKept(r)
  <2> DEFINE row == [old EXCEPT !.status = "ACCEPTED", !.proposed = NoSlot, !.by = Nobody]
  <2>1. q.op = "keep" /\ Update(b, row)
      BY <1>9 DEF WriteKept, Write, q, old
  <2>2. Settled(old, b, D)
      BY <1>2, <2>1 DEF Underway
  <2>3. row.status = "ACCEPTED" /\ row.slot = old.slot /\ row.host = old.host /\ row.guest = old.guest
      BY <1>2, <1>3 DEF BookingRow
  <2> HIDE DEF row
  <2> QED  BY <1>4, <2>1, <2>2, <2>3 DEF Settled
<1>10. CASE WriteCancelled(r)
  <2>1. q.op = "cancel" /\ \E row : Update(b, row)
      BY <1>10 DEF WriteCancelled, Write, q
  <2> QED  BY <1>1, <1>2, <1>4, <1>5, <2>1 DEF Underway
<1>11. CASE WriteProposal(r)
  <2> DEFINE row == [old EXCEPT !.status = "RESCHEDULE_PENDING", !.proposed = q.slot, !.by = q.by]
  <2>1. q.op = "reschedule" /\ Update(b, row)
      BY <1>11 DEF WriteProposal, Write, q, old
  <2>2. Settled(old, b, D)
      BY <1>2, <2>1 DEF Underway
  <2>3. /\ row.status = "RESCHEDULE_PENDING" /\ row.slot = old.slot
        /\ row.host = old.host /\ row.guest = old.guest
      BY <1>2, <1>3 DEF BookingRow
  <2> HIDE DEF row
  <2> QED  BY <1>4, <2>1, <2>2, <2>3 DEF Settled
<1>12. CASE WriteMoved(r)
  <2> DEFINE row == [old EXCEPT !.status = "ACCEPTED", !.slot = q.slot,
                                !.proposed = NoSlot, !.by = Nobody]
  <2>1. q.op = "agree" /\ Update(b, row)
      BY <1>12 DEF WriteMoved, Write, q, old
  <2>2. /\ old.host = q.host /\ old.guest = q.guest
        /\ Linked(q.host, q.guest, b, D) /\ AllAt(q.slot, D)
      BY <1>1, <1>2, <2>1 DEF Underway
  <2>3. row.status = "ACCEPTED" /\ row.slot = q.slot /\ row.host = old.host /\ row.guest = old.guest
      BY <1>2, <1>3 DEF BookingRow
  <2> HIDE DEF row
  <2> QED  BY <1>4, <2>1, <2>2, <2>3 DEF Settled
<1> QED  BY <1>6, <1>7, <1>8, <1>9, <1>10, <1>11, <1>12

LEMMA MatchStep == OwnInv /\ MatchInv /\ [Next]_vars => MatchInv'
<1> SUFFICES ASSUME OwnInv, MatchInv, [Next]_vars PROVE MatchInv'
    OBVIOUS
<1>1. UNCHANGED regime
    BY DEF Next, vars
<1>2. CASE ~InTurn
    BY <1>1, <1>2 DEF InTurn, MatchInv
<1>3. CASE InTurn /\ UNCHANGED vars
    BY <1>3 DEF vars, MatchInv, InTurn, OneEach, InFlight, Idling, At
<1>4. ASSUME InTurn, NEW r \in Requests, NEW b \in regime.bookings, Begin(r, b) PROVE MatchInv'
  <2>1. b \in Bookings
      BY DEF OwnInv, TypeOK, Regime
  <2> QED  BY <1>1, <1>4, <2>1, MatchBegin
<1>5. ASSUME InTurn, NEW r \in Requests, Continue(r) PROVE MatchInv'
    BY <1>1, <1>5, MatchChecks, MatchAdd, MatchMove, MatchDrop, MatchLast DEF Continue
<1>6. ASSUME InTurn, NEW r \in Requests, Die(r) PROVE MatchInv'
    BY <1>6 DEF Die, InTurn
<1>7. ASSUME InTurn, NEW e \in entries, DeleteOwnEntry(e) PROVE MatchInv'
    BY <1>1, <1>7, MatchDelete
<1> QED  BY <1>2, <1>3, <1>4, <1>5, <1>6, <1>7 DEF Next

LEMMA MatchInit == Init => MatchInv
<1> SUFFICES ASSUME Init PROVE MatchInv
    OBVIOUS
<1>1. InFlight = {} /\ entries = {}
    BY DEF Init, InFlight, At, Idle
<1> QED  BY <1>1 DEF MatchInv, OneEach, Settled, Of

(* When the requests on a booking come one at a time and none dies, every   *)
(* scene entry on a calendar belongs to an accepted booking, is the one it  *)
(* refers to and is at its time: accept, cancel and reschedule-accept write *)
(* the entries and the booking in separate queries, and a booking at rest   *)
(* shows none of it.  Requests on different bookings interleave freely.     *)
THEOREM DancecardEntriesMatchBooking == Spec => []EntriesMatchBooking
<1>1. OwnInv /\ MatchInv => EntriesMatchBooking
  <2> SUFFICES ASSUME OwnInv, MatchInv, InTurn, NEW e \in entries, Idling(e.of)
               PROVE  LET b == booking[e.of] IN
                      /\ b.status \in {"ACCEPTED", "RESCHEDULE_PENDING"}
                      /\ b.slot = e.slot
                      /\ e.id = IF e.user = HostOf[e.of] THEN b.host ELSE b.guest
      BY DEF EntriesMatchBooking, InTurn
  <2>1. e.of \in Bookings /\ e \in Of(e.of, entries)
      BY DEF OwnInv, TypeOK, Entry, Of
  <2>2. Settled(booking[e.of], e.of, Of(e.of, entries))
      BY <2>1 DEF MatchInv
  <2> QED  BY <2>1, <2>2 DEF Settled, AllAt, Linked
<1> QED  BY <1>1, OwnInit, MatchInit, OwnStep, MatchStep, PTL DEF Spec

-----------------------------------------------------------------------------
(* Double booking is bounded: for times that all overlap, the bookings that *)
(* have an entry of somebody at one of them, or an accept or a              *)
(* reschedule-accept that has passed that person's check and may yet write  *)
(* one, are no more than the requests.  A request only passes the check     *)
(* when all of them but its own are of requests in flight.                  *)

Cliques == {K \in SUBSET Slots : \A i, j \in K : Overlap(i, j)}

Hopes(q, u) ==
    /\ q.op \in {"accept", "agree"}
    /\ \/ q.pc \in {"first", "second"} /\ u \in {HostOf[q.of], GuestOf[q.of]}
       \/ q.pc = "checkGuest" /\ u = HostOf[q.of]

Booked(u, K) ==
    {e.of : e \in {d \in entries : d.user = u /\ d.slot \in K}}
    \cup {req[r].of : r \in {s \in InFlight : Hopes(req[s], u) /\ req[s].slot \in K}}

Few(S) == IsFiniteSet(S) /\ Cardinality(S) <= Cardinality(Requests)

CrowdInv ==
    /\ \A e \in entries : e.user \in {HostOf[e.of], GuestOf[e.of]}
    /\ \A u \in Users, K \in Cliques : Few(Booked(u, K))

LEMMA FewSubset == ASSUME NEW S, Few(S), NEW T \in SUBSET S PROVE Few(T)
<1>1. Cardinality(T) <= Cardinality(S) /\ IsFiniteSet(T)
    BY FS_Subset DEF Few
<1>2. Cardinality(T) \in Nat /\ Cardinality(S) \in Nat /\ Cardinality(Requests) \in Nat
    BY <1>1, FS_CardinalityType DEF Few
<1> QED  BY <1>1, <1>2 DEF Few

LEMMA FewInFlight == Few({req[s].of : s \in InFlight})
<1> DEFINE T == {req[s].of : s \in InFlight}
           f == [s \in InFlight |-> req[s].of]
<1>1. InFlight \subseteq Requests
    BY DEF InFlight
<1>2. /\ IsFiniteSet(InFlight) /\ Cardinality(InFlight) <= Cardinality(Requests)
      /\ Cardinality(InFlight) \in Nat /\ Cardinality(Requests) \in Nat
    BY <1>1, FS_Subset, FS_CardinalityType
<1>3. f \in Surjection(InFlight, T)
    BY DEF Surjection
<1>4. IsFiniteSet(T) /\ Cardinality(T) <= Cardinality(InFlight)
  <2> HIDE DEF f, T
  <2> QED  BY <1>2, <1>3, FS_Surjection
<1>5. Cardinality(T) \in Nat
    BY <1>4, FS_CardinalityType
<1> QED  BY <1>2, <1>4, <1>5 DEF Few

\* What has to be shown of a step that passes no check.
LEMMA CrowdFrame ==
    ASSUME CrowdInv,
           \A e \in entries' :
              \/ \E d \in entries : e.of = d.of /\ e.user = d.user /\ e.slot = d.slot
              \/ \E s \in InFlight : /\ Hopes(req[s], e.user)
                                     /\ req[s].of = e.of /\ req[s].slot = e.slot,
           \A s \in InFlight', u \in Users : Hopes(req'[s], u) =>
              /\ s \in InFlight /\ Hopes(req[s], u)
              /\ req'[s].of = req[s].of /\ req'[s].slot = req[s].slot
    PROVE  CrowdInv'
<1>1. \A e \in entries' : e.user \in {HostOf[e.of], GuestOf[e.of]}
    BY DEF CrowdInv, Hopes
<1>2. ASSUME NEW u \in Users, NEW K \in Cliques PROVE Few(Booked(u, K)')
  <2>1. Booked(u, K)' \subseteq Booked(u, K)
    <3>1. \A e \in entries' : e.user = u /\ e.slot \in K => e.of \in Booked(u, K)
        BY DEF Booked
    <3>2. \A s \in InFlight' : Hopes(req'[s], u) /\ req'[s].slot \in K => req'[s].of \in Booked(u, K)
        BY DEF Booked
    <3> QED  BY <3>1, <3>2 DEF Booked
  <2> QED  BY <2>1, FewSubset DEF CrowdInv
<1> QED  BY <1>1, <1>2 DEF CrowdInv, Few

\* Who passes the host's check meets no entry but those of their own booking:
\* the recovery time and the window's edges only add to what is in the way.
LEMMA HostCheckClears ==
    ASSUME OwnInv, NEW u \in Users, NEW x, NEW slot \in Slots,
           HostFree(slot, Busy(u, x), Buffer[u], Window),
           NEW e \in entries, e.user = u, Overlap(e.slot, slot)
    PROVE  e.of = x
<1> SUFFICES ASSUME e.of # x PROVE FALSE
    OBVIOUS
<1> DEFINE i == e.slot
           c == Clipped(i, Window)
<1>1. i \in Interval /\ slot \in Interval /\ Window \in Interval /\ NonEmpty(i) /\ NonEmpty(slot)
    BY DEF OwnInv, TypeOK, Entry
<1>2. i \in Busy(u, x) /\ Buffer[u] \in Nat
    BY DEF Busy
<1>3. /\ c.from = Later(i.from, Window.from) /\ c.to = Earlier(i.to, Window.to)
      /\ Later(i.from, Window.from) \in Nat /\ Earlier(i.to, Window.to) \in Nat
    BY <1>1 DEF Clipped, Interval, Later, Earlier
<1>4. /\ Within(slot, Window)
      /\ NonEmpty(c) => ~Overlap(slot, Trailing(c, Buffer[u]))
    BY <1>2 DEF HostFree, ClearOf
<1>5. Trailing(c, Buffer[u]).from = c.from /\ Trailing(c, Buffer[u]).to = c.to + Buffer[u]
    BY DEF Trailing, Clipped
<1> HIDE DEF i, c
<1>6. slot.from < c.to /\ slot.to > c.from /\ c.from < c.to
    BY <1>1, <1>3, <1>4 DEF Interval, Later, Earlier, Within, NonEmpty, Overlap, i
<1> QED  BY <1>1, <1>2, <1>3, <1>4, <1>5, <1>6 DEF NonEmpty, Overlap, Interval

LEMMA GuestCheckClears ==
    ASSUME OwnInv, NEW u \in Users, NEW x, NEW slot \in Slots,
           GuestFree(slot, Busy(u, x), Buffer[u]),
           NEW e \in entries, e.user = u, Overlap(e.slot, slot)
    PROVE  e.of = x
<1> SUFFICES ASSUME e.of # x PROVE FALSE
    OBVIOUS
<1> DEFINE i == e.slot
<1>1. i \in Interval /\ slot \in Interval
    BY DEF OwnInv, TypeOK, Entry
<1>2. i \in Busy(u, x) /\ Buffer[u] \in Nat
    BY DEF Busy
<1>3. ~Overlap(slot, Trailing(i, Buffer[u]))
    BY <1>2 DEF GuestFree, ClearOf
<1>4. Trailing(i, Buffer[u]).from = i.from /\ Trailing(i, Buffer[u]).to = i.to + Buffer[u]
    BY <1>1 DEF Trailing, Interval
<1> QED  BY <1>1, <1>2, <1>3, <1>4 DEF Overlap, Interval

\* What has to be shown of a step of r that passes the check of somebody.
LEMMA CrowdChecked ==
    ASSUME OwnInv, CrowdInv, UNCHANGED entries, NEW r \in Requests, ~At(r, "idle"),
           req[r].slot \in Slots, NEW p, req' = [req EXCEPT ![r] = p], p.pc # "idle",
           p.of = req[r].of, p.slot = req[r].slot,
           \A u \in Users : Hopes(p, u) =>
              \/ Hopes(req[r], u)
              \/ \A e \in entries : e.user = u /\ Overlap(e.slot, req[r].slot) => e.of = req[r].of
    PROVE  CrowdInv'
<1>1. req'[r] = p /\ \A s \in Requests : s # r => req'[s] = req[s]
    BY DEF OwnInv, TypeOK
<1>2. InFlight' = InFlight /\ r \in InFlight
    BY <1>1 DEF InFlight, At
<1>3. ASSUME NEW u \in Users, NEW K \in Cliques PROVE Few(Booked(u, K)')
  <2>1. CASE Hopes(p, u) => Hopes(req[r], u) \/ req[r].slot \notin K
    <3>1. Booked(u, K)' \subseteq Booked(u, K)
      <4>1. \A s \in InFlight : Hopes(req'[s], u) /\ req'[s].slot \in K =>
               Hopes(req[s], u) /\ req[s].slot \in K /\ req[s].of = req'[s].of
          BY <1>1, <2>1 DEF InFlight
      <4> QED  BY <1>2, <4>1 DEF Booked
    <3> QED  BY <3>1, FewSubset DEF CrowdInv
  <2>2. CASE Hopes(p, u) /\ ~Hopes(req[r], u) /\ req[r].slot \in K
    <3>1. \A e \in entries : e.user = u /\ e.slot \in K => e.of = req[r].of
        BY <2>2 DEF Cliques
    <3>2. \A s \in InFlight : req'[s].of = req[s].of
        BY <1>1 DEF InFlight
    <3>3. Booked(u, K)' \subseteq {req[s].of : s \in InFlight}
        BY <1>2, <3>1, <3>2 DEF Booked
    <3> QED  BY <3>3, FewInFlight, FewSubset
  <2> QED  BY <2>1, <2>2
<1> QED  BY <1>3 DEF CrowdInv, Few

\* Who passes a check meets nothing of that person's but what the check leaves out.
LEMMA ChecksClear ==
    ASSUME OwnInv, NEW r \in Requests,
           \/ CheckHost(r) /\ Goto(r, "checkGuest")
           \/ CheckGuest(r) /\ Goto(r, IF req[r].op \in {"accept", "agree"} THEN "first" ELSE "write")
    PROVE  /\ UNCHANGED <<booking, entries>> /\ ~At(r, "idle") /\ req[r].slot \in Slots
           /\ \E p : /\ req' = [req EXCEPT ![r] = p]
                     /\ p.op = req[r].op /\ p.of = req[r].of /\ p.slot = req[r].slot
                     /\ p.host = req[r].host /\ p.guest = req[r].guest
                     /\ \/ req[r].pc = "checkHost" /\ p.pc = "checkGuest"
                        \/ req[r].pc = "checkGuest" /\ p.pc \in {"first", "write"}
                     /\ \A u \in Users : Hopes(p, u) =>
                          \/ Hopes(req[r], u)
                          \/ \A e \in entries : e.user = u /\ Overlap(e.slot, req[r].slot) =>
                               e.of = Except(r)
<1> DEFINE q == req[r]
           next == IF q.pc = "checkHost" THEN "checkGuest"
                   ELSE IF q.op \in {"accept", "agree"} THEN "first" ELSE "write"
           p == [q EXCEPT !.pc = next]
<1>1. /\ UNCHANGED <<booking, entries>> /\ ~At(r, "idle") /\ q.pc \in {"checkHost", "checkGuest"}
      /\ req' = [req EXCEPT ![r] = p]
    BY DEF CheckHost, CheckGuest, At, Goto
<1>2. q \in Request /\ q.of \in Bookings /\ q.pc \in StepsOf(q.op) /\ (q.op \in Timed => q.slot \in Slots)
    BY <1>1, OwnHeld DEF ReqOK
<1>3. /\ p.pc = next /\ p.op = q.op /\ p.of = q.of /\ p.slot = q.slot
      /\ p.host = q.host /\ p.guest = q.guest
    BY <1>2 DEF Request
<1>4. q.slot \in Slots
  <2>1. q.op \in Ops
      BY <1>2 DEF Request
  <2> HIDE DEF q
  <2> QED  BY <1>1, <1>2, <2>1 DEF StepsOf, Ops, Timed
<1>5. HostOf[q.of] \in Users /\ GuestOf[q.of] \in Users
    BY <1>2
<1>6. ASSUME NEW u \in Users, Hopes(p, u), ~Hopes(q, u), NEW e \in entries, e.user = u, Overlap(e.slot, q.slot)
      PROVE  e.of = Except(r)
  <2>1. CASE q.pc = "checkHost"
    <3>1. HostFree(q.slot, Busy(HostOf[q.of], Except(r)), Buffer[HostOf[q.of]], Window)
      <4>1. CheckHost(r)
          BY <2>1 DEF CheckGuest, At
      <4>2. ~Finish(r)
        <5>1. req'[r].pc = "checkGuest" /\ Idle.pc = "idle"
            BY <1>1, <1>3, <2>1 DEF Idle, OwnInv, TypeOK
        <5> QED  BY <5>1 DEF Finish, OwnInv, TypeOK
      <4> QED  BY <4>1, <4>2 DEF CheckHost
    <3>2. u = HostOf[q.of]
        BY <1>3, <1>6, <2>1 DEF Hopes
    <3> QED  BY <1>4, <1>5, <1>6, <3>1, <3>2, HostCheckClears
  <2>2. CASE q.pc = "checkGuest"
    <3>1. GuestFree(q.slot, Busy(GuestOf[q.of], Except(r)), Buffer[GuestOf[q.of]])
      <4>1. CheckGuest(r)
          BY <2>2 DEF CheckHost, At
      <4>2. ~Finish(r)
        <5>1. req'[r].pc # "idle" /\ Idle.pc = "idle"
            BY <1>1, <1>3, <2>2 DEF Idle, OwnInv, TypeOK
        <5> QED  BY <5>1 DEF Finish, OwnInv, TypeOK
      <4> QED  BY <4>1, <4>2 DEF CheckGuest
    <3>2. u = GuestOf[q.of]
        BY <1>3, <1>6, <2>2 DEF Hopes
    <3> QED  BY <1>4, <1>5, <1>6, <3>1, <3>2, GuestCheckClears
  <2> QED  BY <1>1, <2>1, <2>2
<1> HIDE DEF p
<1>7. \A u \in Users : Hopes(p, u) =>
         \/ Hopes(q, u)
         \/ \A e \in entries : e.user = u /\ Overlap(e.slot, q.slot) => e.of = Except(r)
    BY <1>6
<1>8. \/ q.pc = "checkHost" /\ p.pc = "checkGuest"
      \/ q.pc = "checkGuest" /\ p.pc \in {"first", "write"}
    BY <1>1, <1>3
<1> QED  BY <1>1, <1>3, <1>4, <1>7, <1>8

LEMMA CrowdChecks ==
    ASSUME OwnInv, CrowdInv, NEW r \in Requests,
           \/ CheckHost(r) /\ Goto(r, "checkGuest")
           \/ CheckGuest(r) /\ Goto(r, IF req[r].op \in {"accept", "agree"} THEN "first" ELSE "write")
    PROVE  CrowdInv'
<1>1. PICK p :
         /\ req' = [req EXCEPT ![r] = p] /\ p.pc # "idle" /\ p.of = req[r].of /\ p.slot = req[r].slot
         /\ \A u \in Users : Hopes(p, u) =>
              \/ Hopes(req[r], u)
              \/ \A e \in entries : e.user = u /\ Overlap(e.slot, req[r].slot) => e.of = Except(r)
    BY ChecksClear
<1>2. \A e \in entries : e.of = Except(r) => e.of = req[r].of
    BY DEF Except, OwnInv, TypeOK, Entry
<1>3. \A u \in Users : Hopes(p, u) =>
         \/ Hopes(req[r], u)
         \/ \A e \in entries : e.user = u /\ Overlap(e.slot, req[r].slot) => e.of = req[r].of
    BY <1>1, <1>2
<1>4. UNCHANGED entries /\ ~At(r, "idle") /\ req[r].slot \in Slots
    BY ChecksClear
<1> QED  BY <1>1, <1>3, <1>4, CrowdChecked

\* The steps that pass no check: an entry is inserted or moved only where
\* somebody hoped for it, and nobody else hopes for more.
LEMMA CrowdQuiet ==
    ASSUME OwnInv, CrowdInv, NEW r \in Requests, NEW p, req' = [req EXCEPT ![r] = p],
           \A e \in entries' :
              \/ \E d \in entries : e.of = d.of /\ e.user = d.user /\ e.slot = d.slot
              \/ ~At(r, "idle") /\ Hopes(req[r], e.user) /\ req[r].of = e.of /\ req[r].slot = e.slot,
           \A u \in Users : p.pc # "idle" /\ Hopes(p, u) =>
              ~At(r, "idle") /\ Hopes(req[r], u) /\ p.of = req[r].of /\ p.slot = req[r].slot
    PROVE  CrowdInv'
<1>1. req'[r] = p /\ \A s \in Requests : s # r => req'[s] = req[s]
    BY DEF OwnInv, TypeOK
<1>2. \A s \in InFlight', u \in Users : Hopes(req'[s], u) =>
         /\ s \in InFlight /\ Hopes(req[s], u)
         /\ req'[s].of = req[s].of /\ req'[s].slot = req[s].slot
    BY <1>1 DEF InFlight, At
<1>3. ~At(r, "idle") => r \in InFlight
    BY DEF InFlight
<1>4. \A e \in entries' :
         \/ \E d \in entries : e.of = d.of /\ e.user = d.user /\ e.slot = d.slot
         \/ \E s \in InFlight : Hopes(req[s], e.user) /\ req[s].of = e.of /\ req[s].slot = e.slot
    BY <1>3
<1> QED  BY <1>2, <1>4, CrowdFrame

LEMMA CrowdBegin ==
    ASSUME OwnInv, CrowdInv, NEW r \in Requests, NEW b \in Bookings, Begin(r, b)
    PROVE  CrowdInv'
<1>1. ASSUME NEW by, NEW op, NEW slot, NEW pc, StartBy(by, r, op, b, slot, pc),
             pc \in {"checkHost", "write"} \/ op = "cancel"
      PROVE  CrowdInv'
  <2> DEFINE used == op \in {"cancel", "agree"}
             h == IF used THEN booking[b].host ELSE 0
             g == IF used THEN booking[b].guest ELSE 0
             p == [pc |-> pc, op |-> op, of |-> b, slot |-> slot, by |-> by, host |-> h, guest |-> g]
  <2>1. req' = [req EXCEPT ![r] = p] /\ UNCHANGED <<booking, entries, commitment>>
      BY <1>1 DEF StartBy
  <2>2. \A u : ~Hopes(p, u)
      BY <1>1 DEF Hopes
  <2> HIDE DEF p
  <2> QED  BY <2>1, <2>2, CrowdQuiet
<1> QED  BY <1>1 DEF Begin, Create, Accept, Decline, Keep, Cancel, Reschedule, Agree, Start

\* A handler that is done hopes for nothing.
LEMMA CrowdFinish ==
    ASSUME OwnInv, CrowdInv, NEW r \in Requests, Finish(r), UNCHANGED entries
    PROVE  CrowdInv'
<1>1. req' = [req EXCEPT ![r] = Idle] /\ Idle.pc = "idle"
    BY DEF Finish, Idle
<1> QED  BY <1>1, CrowdQuiet

LEMMA CrowdEntries ==
    ASSUME OwnInv, CrowdInv, NEW r \in Requests,
           \/ AddHostEntry(r) \/ AddGuestEntry(r) \/ MoveHostEntry(r) \/ MoveGuestEntry(r)
           \/ DropHostEntry(r) \/ DropGuestEntry(r)
    PROVE  CrowdInv'
<1> DEFINE q == req[r]
           next == IF q.pc = "first" THEN "second" ELSE "write"
<1>1. ~At(r, "idle") /\ q.pc \in {"first", "second"}
    BY DEF AddHostEntry, AddGuestEntry, MoveHostEntry, MoveGuestEntry, DropHostEntry, DropGuestEntry, At
<1>2. q \in Request /\ q.of \in Bookings /\ ReqOK(q, booking, entries)
    BY <1>1, OwnHeld
<1>3. ASSUME NEW p, req' = [req EXCEPT ![r] = p],
             p.op = q.op, p.of = q.of, p.slot = q.slot, p.pc = next,
             \A e \in entries' :
                \/ \E d \in entries : e.of = d.of /\ e.user = d.user /\ e.slot = d.slot
                \/ /\ q.op \in {"accept", "agree"}
                   /\ e.user \in {HostOf[q.of], GuestOf[q.of]} /\ e.of = q.of /\ e.slot = q.slot
      PROVE  CrowdInv'
  <2>1. \A u \in Users : Hopes(p, u) => Hopes(q, u)
      BY <1>1, <1>3 DEF Hopes
  <2>2. \A e \in entries' :
           \/ \E d \in entries : e.of = d.of /\ e.user = d.user /\ e.slot = d.slot
           \/ Hopes(q, e.user) /\ q.of = e.of /\ q.slot = e.slot
      BY <1>1, <1>3 DEF Hopes
  <2> QED  BY <1>1, <1>3, <2>1, <2>2, CrowdQuiet
<1>4. CASE AddHostEntry(r) \/ AddGuestEntry(r)
  <2> DEFINE u == IF q.pc = "first" THEN HostOf[q.of] ELSE GuestOf[q.of]
             n == [id |-> NewId, user |-> u, of |-> q.of, slot |-> q.slot]
             p == IF q.pc = "first" THEN [q EXCEPT !.pc = "second", !.host = NewId]
                                    ELSE [q EXCEPT !.pc = "write", !.guest = NewId]
  <2>1. q.op = "accept" /\ entries' = entries \cup {n} /\ req' = [req EXCEPT ![r] = p]
      BY <1>4 DEF AddHostEntry, AddGuestEntry, AddEntry, At
  <2>2. p.op = q.op /\ p.of = q.of /\ p.slot = q.slot /\ p.pc = next
      BY <1>2 DEF Request
  <2>3. n.user \in {HostOf[q.of], GuestOf[q.of]} /\ n.of = q.of /\ n.slot = q.slot
      OBVIOUS
  <2> HIDE DEF p, n
  <2> QED  BY <1>3, <2>1, <2>2, <2>3
<1>5. CASE ~(AddHostEntry(r) \/ AddGuestEntry(r))
  <2> DEFINE p == [q EXCEPT !.pc = next]
  <2>1. req' = [req EXCEPT ![r] = p]
      BY <1>5 DEF MoveHostEntry, MoveGuestEntry, DropHostEntry, DropGuestEntry, At, Goto
  <2>2. p.op = q.op /\ p.of = q.of /\ p.slot = q.slot /\ p.pc = next
      BY <1>2 DEF Request
  <2>3. CASE MoveHostEntry(r) \/ MoveGuestEntry(r)
    <3> DEFINE id == IF q.pc = "first" THEN q.host ELSE q.guest
    <3>1. q.op = "agree" /\ MoveEntry(r, id)
        BY <2>3 DEF MoveHostEntry, MoveGuestEntry, At
    <3>2. q.slot \in Slots
        BY <1>2, <3>1 DEF ReqOK, Timed
    <3>3. \A d \in entries' : \E e \in entries :
             /\ d.id = e.id /\ d.user = e.user /\ d.of = e.of
             /\ d.slot = IF e.id = id THEN q.slot ELSE e.slot
        BY <3>1, <3>2, MovedFields DEF OwnInv
    <3>4. \A e \in entries : e.id = id => e.of = q.of
        BY <1>2 DEF ReqOK
    <3>5. \A e \in entries : e.user \in {HostOf[e.of], GuestOf[e.of]}
        BY DEF CrowdInv
    <3>6. \A e \in entries' :
             \/ \E d \in entries : e.of = d.of /\ e.user = d.user /\ e.slot = d.slot
             \/ e.user \in {HostOf[q.of], GuestOf[q.of]} /\ e.of = q.of /\ e.slot = q.slot
        BY <3>3, <3>4, <3>5
    <3> HIDE DEF p
    <3> QED  BY <1>3, <2>1, <2>2, <3>1, <3>6
  <2>4. CASE DropHostEntry(r) \/ DropGuestEntry(r)
    <3>1. entries' \subseteq entries
        BY <2>4 DEF DropHostEntry, DropGuestEntry, DeleteEntries
    <3> HIDE DEF p
    <3> QED  BY <1>3, <2>1, <2>2, <3>1
  <2> QED  BY <1>5, <2>3, <2>4
<1> QED  BY <1>4, <1>5

LEMMA CrowdStep == OwnInv /\ CrowdInv /\ [Next]_vars => CrowdInv'
<1> SUFFICES ASSUME OwnInv, CrowdInv, [Next]_vars PROVE CrowdInv'
    OBVIOUS
<1>1. CASE UNCHANGED vars
    BY <1>1 DEF vars, CrowdInv, Booked, InFlight, At, Few
<1>2. ASSUME NEW r \in Requests, NEW b \in regime.bookings, Begin(r, b) PROVE CrowdInv'
  <2>1. b \in Bookings
      BY DEF OwnInv, TypeOK, Regime
  <2> QED  BY <1>2, <2>1, CrowdBegin
<1>3. ASSUME NEW r \in Requests, Continue(r) PROVE CrowdInv'
  <2>1. CASE CheckHost(r) \/ CheckGuest(r)
      BY <2>1, CrowdChecks, CrowdFinish DEF CheckHost, CheckGuest
  <2>2. CASE \/ AddHostEntry(r) \/ AddGuestEntry(r) \/ MoveHostEntry(r) \/ MoveGuestEntry(r)
             \/ DropHostEntry(r) \/ DropGuestEntry(r)
      BY <2>2, CrowdEntries
  <2>3. CASE \/ WriteCreated(r) \/ WriteAccepted(r) \/ WriteDeclined(r) \/ WriteKept(r)
             \/ WriteCancelled(r) \/ WriteProposal(r) \/ WriteMoved(r)
    <3>1. Finish(r) /\ UNCHANGED entries
        BY <2>3 DEF WriteCreated, WriteAccepted, WriteDeclined, WriteKept, WriteCancelled,
                    WriteProposal, WriteMoved, Write, Update
    <3> QED  BY <3>1, CrowdFinish
  <2> QED  BY <1>3, <2>1, <2>2, <2>3 DEF Continue
<1>4. ASSUME NEW r \in Requests, Die(r) PROVE CrowdInv'
    BY <1>4, CrowdFinish DEF Die
<1>5. ASSUME NEW e \in entries, DeleteOwnEntry(e) PROVE CrowdInv'
  <2>1. req' = req /\ entries' \subseteq entries /\ InFlight' = InFlight
      BY <1>5 DEF DeleteOwnEntry, DeleteEntries, InFlight, At
  <2> QED  BY <2>1, CrowdFrame
<1> QED  BY <1>1, <1>2, <1>3, <1>4, <1>5 DEF Next

LEMMA CrowdInit == Init => CrowdInv
<1> SUFFICES ASSUME Init PROVE CrowdInv
    OBVIOUS
<1>1. InFlight = {} /\ entries = {}
    BY DEF Init, InFlight, At, Idle
<1>2. \A u \in Users, K \in Cliques : Booked(u, K) = {}
    BY <1>1 DEF Booked
<1>3. {req[s].of : s \in InFlight} = {}
    BY <1>1
<1>4. Few({})
    BY <1>3, FewInFlight
<1> QED  BY <1>1, <1>2, <1>4 DEF CrowdInv

(* However requests interleave, whatever is deleted and whichever handlers  *)
(* die, nobody is in the scenes of more bookings at once than the API       *)
(* interleaves requests: the two checks bound double booking, which nothing *)
(* else prevents.                                                           *)
THEOREM DancecardCrowdingBound == Spec => []CrowdingBound
<1>1. OwnInv /\ CrowdInv => CrowdingBound
  <2> SUFFICES ASSUME OwnInv, CrowdInv, NEW u \in Users, NEW E \in Crowd(u)
               PROVE  Cardinality({e.of : e \in E}) <= Cardinality(Requests)
      BY DEF CrowdingBound
  <2> DEFINE K == {e.slot : e \in E}
  <2>1. E \subseteq entries /\ \A e \in E : e.user = u /\ e \in Entry
      BY DEF Crowd, OwnInv, TypeOK
  <2>2. \A e \in E : e.slot \in Slots /\ Overlap(e.slot, e.slot)
      BY <2>1 DEF Entry, NonEmpty, Overlap
  <2>3. \A d, e \in E : Overlap(d.slot, e.slot)
    <3>1. \A d, e \in E : d.id = e.id => d = e
        BY <2>1 DEF OwnInv, TypeOK
    <3> QED  BY <2>2, <3>1 DEF Crowd
  <2>4. K \in Cliques
      BY <2>2, <2>3 DEF Cliques
  <2>5. {e.of : e \in E} \subseteq Booked(u, K)
      BY <2>1 DEF Booked
  <2>6. Few({e.of : e \in E})
      BY <2>4, <2>5, FewSubset DEF CrowdInv
  <2> QED  BY <2>6 DEF Few
<1> QED  BY <1>1, OwnInit, CrowdInit, OwnStep, CrowdStep, PTL DEF Spec

-----------------------------------------------------------------------------
(* How often one booking is on a calendar.  A booking is pending once in    *)
(* its life, and only then accepted, so all who accept it do so for the     *)
(* time it was first asked for; while it is pending its entries are there.  *)

RowFits(row, D) ==
    /\ row.status = "none" => D = {}
    /\ row.status = "PENDING" => row.host = 0 /\ row.guest = 0 /\ AllAt(row.slot, D)

Fits(q, row) ==
    /\ q.op = "create" <=> row.status = "none"
    /\ row.status = "PENDING" => q.op \in {"accept", "decline", "cancel"}
    /\ row.status = "PENDING" /\ q.op = "accept" => q.slot = row.slot

\* Whose entries an accept has inserted.
Parts(q, D) ==
    q.op = "accept" =>
        \A e \in D : /\ e.id = q.host => e.user = HostOf[q.of]
                     /\ e.id = q.guest => e.user = GuestOf[q.of]

\* Two requests on one booking.
Agrees(q, p) == q.op # "create" /\ (q.op = "accept" /\ p.op = "accept" => q.slot = p.slot)

LifeInv ==
    /\ regime.onePerBooking => OneEach
    /\ \A b \in Bookings : RowFits(booking[b], Of(b, entries))
    /\ \A r \in InFlight :
          /\ Fits(req[r], booking[req[r].of])
          /\ Parts(req[r], Of(req[r].of, entries))
    /\ \A r, s \in InFlight : r # s /\ req[r].of = req[s].of => Agrees(req[r], req[s])

(* Two counts, of entries and of requests.  The entries of u together with  *)
(* the accepts past u's check are at most AtATime.  An accept passes the    *)
(* check when no entry overlaps its time; the entries elsewhere were moved  *)
(* there, and only an entry that the booking refers to, or did when a       *)
(* reschedule-accept read it, is ever moved.  Each accept that ends can     *)
(* make the booking refer to one more, so those entries together with all   *)
(* accepts in flight are at most AtATime, too.                              *)

Accepts(b) == {r \in InFlight : req[r].of = b /\ req[r].op = "accept"}

\* The accepts that may yet insert an entry of u, and have passed u's check.
Awaits(q, u) ==
    \/ u = HostOf[q.of] /\ q.pc \in {"checkGuest", "first"}
    \/ u = GuestOf[q.of] /\ q.pc \in {"first", "second"}
Waiting(u, b) == {r \in Accepts(b) : Awaits(req[r], u)}

CopyIds(u, b) == {e.id : e \in {d \in Of(b, entries) : d.user = u}}

\* The time for which booking b is accepted.
Asked(b, slot) ==
    \/ booking[b].status = "PENDING" /\ booking[b].slot = slot
    \/ \E r \in Accepts(b) : req[r].slot = slot

Movable(b, i) ==
    \/ i \in {booking[b].host, booking[b].guest}
    \/ \E r \in InFlight : /\ req[r].of = b /\ req[r].op = "agree"
                           /\ i \in {req[r].host, req[r].guest}

StrayIds(u, b, slot) ==
    {e.id : e \in {d \in Of(b, entries) :
                      d.user = u /\ (~Overlap(d.slot, slot) \/ Movable(b, d.id))}}

AtMost(A, B) ==
    IsFiniteSet(A) /\ IsFiniteSet(B) /\ Cardinality(A) + Cardinality(B) <= AtATime

CopyInv ==
    \A u \in Users, b \in Bookings :
        /\ AtMost(CopyIds(u, b), Waiting(u, b))
        /\ \A slot \in Slots : Asked(b, slot) => AtMost(StrayIds(u, b, slot), Accepts(b))

\* Fewer are still few enough,
LEMMA AtMostSubset ==
    ASSUME regime \in Regimes, NEW A, NEW B, AtMost(A, B), NEW S \in SUBSET A, NEW T \in SUBSET B
    PROVE  AtMost(S, T)
<1>1. /\ IsFiniteSet(S) /\ Cardinality(S) <= Cardinality(A)
      /\ IsFiniteSet(T) /\ Cardinality(T) <= Cardinality(B)
    BY FS_Subset DEF AtMost
<1>2. /\ Cardinality(S) \in Nat /\ Cardinality(A) \in Nat
      /\ Cardinality(T) \in Nat /\ Cardinality(B) \in Nat
    BY <1>1, FS_CardinalityType DEF AtMost
<1>3. AtATime \in Nat
    BY FS_CardinalityType DEF AtATime
<1> QED  BY <1>1, <1>2, <1>3 DEF AtMost

\* ... one more entry for one request less are, too,
LEMMA AtMostSwap ==
    ASSUME regime \in Regimes, NEW A, NEW B, AtMost(A, B), NEW r \in B, NEW i,
           NEW S \in SUBSET (A \cup {i}), NEW T \in SUBSET (B \ {r})
    PROVE  AtMost(S, T)
<1>1. /\ IsFiniteSet(A \cup {i}) /\ IsFiniteSet(B \ {r})
      /\ Cardinality(A \cup {i}) <= Cardinality(A) + 1
      /\ Cardinality(B \ {r}) = Cardinality(B) - 1
  <2>1. IsFiniteSet(A) /\ IsFiniteSet(B) /\ Cardinality(A) \in Nat
      BY FS_CardinalityType DEF AtMost
  <2>2. IsFiniteSet(A \cup {i}) /\ (i \notin A => Cardinality(A \cup {i}) = Cardinality(A) + 1)
      BY <2>1, FS_AddElement
  <2>3. i \in A => A \cup {i} = A
      OBVIOUS
  <2>4. i \in A => Cardinality(A \cup {i}) = Cardinality(A)
      BY <2>3, Zenon
  <2>5. IsFiniteSet(B \ {r}) /\ Cardinality(B \ {r}) = Cardinality(B) - 1
      BY <2>1, FS_RemoveElement
  <2> QED  BY <2>1, <2>2, <2>4, <2>5
<1>2. AtMost(A \cup {i}, B \ {r})
  <2>1. /\ Cardinality(A) \in Nat /\ Cardinality(B) \in Nat
        /\ Cardinality(A \cup {i}) \in Nat /\ AtATime \in Nat
      BY <1>1, FS_CardinalityType DEF AtMost, AtATime
  <2> QED  BY <1>1, <2>1 DEF AtMost
<1> QED  BY <1>2, AtMostSubset

\* ... and so are the requests on one booking.
LEMMA AtMostRequests ==
    ASSUME NEW R \in SUBSET Requests, regime.onePerBooking => \A r, s \in R : r = s
    PROVE  AtMost({}, R)
<1>1. /\ IsFiniteSet(R) /\ Cardinality(R) <= Cardinality(Requests)
      /\ Cardinality(R) \in Nat /\ Cardinality(Requests) \in Nat
    BY FS_Subset, FS_CardinalityType
<1>2. IsFiniteSet({}) /\ Cardinality({}) = 0
    BY FS_EmptySet
<1>3. CASE ~regime.onePerBooking
    BY <1>1, <1>2, <1>3 DEF AtMost, AtATime
<1>4. CASE regime.onePerBooking
  <2>1. Cardinality(R) <= 1
    <3>1. CASE R = {}
        BY <1>2, <3>1
    <3>2. CASE R # {}
      <4>1. PICK r \in R : TRUE
          BY <3>2
      <4>2. R = {r}
          BY <1>4, <4>1
      <4>3. Cardinality({r}) = 1
          BY FS_Singleton
      <4>4. Cardinality(R) = Cardinality({r})
          BY <4>2, Zenon
      <4> QED  BY <4>3, <4>4
    <3> QED  BY <3>1, <3>2
  <2> QED  BY <1>1, <1>2, <1>4, <2>1 DEF AtMost, AtATime
<1> QED  BY <1>3, <1>4

\* What has to be shown of a step about booking b.
LEMMA LifeFrame ==
    ASSUME OwnInv, LifeInv, UNCHANGED regime, NEW b \in Bookings,
           \A c \in Bookings : c # b => Of(c, entries') = Of(c, entries) /\ booking'[c] = booking[c],
           \A s \in InFlight' : req'[s].of = b \/ (s \in InFlight /\ req'[s] = req[s]),
           RowFits(booking'[b], Of(b, entries')),
           \A s \in InFlight' : req'[s].of = b =>
              Fits(req'[s], booking'[b]) /\ Parts(req'[s], Of(b, entries')),
           \A s, t \in InFlight' : s # t /\ req'[s].of = b /\ req'[t].of = b =>
              ~regime.onePerBooking /\ Agrees(req'[s], req'[t])
    PROVE  LifeInv'
<1>1. \A c \in Bookings : RowFits(booking'[c], Of(c, entries'))
    BY DEF LifeInv
<1>2. ASSUME NEW s \in InFlight', req'[s].of # b
      PROVE  s \in InFlight /\ req'[s] = req[s] /\ req[s].of \in Bookings
    BY <1>2, OwnHeld DEF InFlight
<1>3. \A s \in InFlight' :
         /\ Fits(req'[s], booking'[req'[s].of])
         /\ Parts(req'[s], Of(req'[s].of, entries'))
    BY <1>2 DEF LifeInv
<1>4. \A s, t \in InFlight' : s # t /\ req'[s].of = req'[t].of =>
         ~regime.onePerBooking /\ Agrees(req'[s], req'[t])
    BY <1>2 DEF LifeInv, OneEach
<1> QED  BY <1>1, <1>3, <1>4 DEF LifeInv, OneEach

\* A step that starts nothing and leaves the booking's status as it is.
LEMMA LifeKeep ==
    ASSUME OwnInv, LifeInv, UNCHANGED regime, NEW b \in Bookings,
           \A c \in Bookings : c # b => Of(c, entries') = Of(c, entries) /\ booking'[c] = booking[c],
           booking'[b].status = booking[b].status, booking'[b].slot = booking[b].slot,
           \A s \in InFlight' :
              /\ s \in InFlight
              /\ req'[s].op = req[s].op /\ req'[s].of = req[s].of /\ req'[s].slot = req[s].slot
              /\ req[s].of # b => req'[s] = req[s],
           RowFits(booking'[b], Of(b, entries')),
           \A s \in InFlight' : req[s].of = b => Parts(req'[s], Of(b, entries'))
    PROVE  LifeInv'
<1>1. \A s \in InFlight' : req'[s].of = b => Fits(req'[s], booking'[b])
  <2> SUFFICES ASSUME NEW s \in InFlight', req'[s].of = b PROVE Fits(req'[s], booking'[b])
      OBVIOUS
  <2>1. s \in InFlight /\ req[s].of = b
      OBVIOUS
  <2>2. Fits(req[s], booking[b])
      BY <2>1 DEF LifeInv
  <2> QED  BY <2>1, <2>2 DEF Fits
<1>2. \A s, t \in InFlight' : s # t /\ req'[s].of = b /\ req'[t].of = b =>
         ~regime.onePerBooking /\ Agrees(req'[s], req'[t])
  <2> SUFFICES ASSUME NEW s \in InFlight', NEW t \in InFlight', s # t, req'[s].of = b, req'[t].of = b
               PROVE  ~regime.onePerBooking /\ Agrees(req'[s], req'[t])
      OBVIOUS
  <2>1. s \in InFlight /\ t \in InFlight /\ req[s].of = req[t].of
      OBVIOUS
  <2>2. ~regime.onePerBooking /\ Agrees(req[s], req[t])
      BY <2>1 DEF LifeInv, OneEach
  <2> QED  BY <2>1, <2>2 DEF Agrees
<1>3. \A s \in InFlight' : req'[s].of = b \/ (s \in InFlight /\ req'[s] = req[s])
    OBVIOUS
<1>4. \A s \in InFlight' : req'[s].of = b => Parts(req'[s], Of(b, entries'))
    OBVIOUS
<1> QED  BY <1>1, <1>2, <1>3, <1>4, LifeFrame

\* What the requests of a starting handler say of its booking.
LEMMA LifeBegin ==
    ASSUME OwnInv, LifeInv, UNCHANGED regime, NEW r \in Requests, NEW b \in Bookings, Begin(r, b)
    PROVE  LifeInv'
<1>1. ASSUME NEW by, NEW op, NEW slot, NEW pc, pc # "idle", StartBy(by, r, op, b, slot, pc),
             op = "create" <=> booking[b].status = "none",
             op = "create" => Idling(b),
             booking[b].status = "PENDING" => op \in {"accept", "decline", "cancel"},
             op = "accept" => booking[b].status = "PENDING" /\ slot = booking[b].slot
      PROVE  LifeInv'
  <2> DEFINE used == op \in {"cancel", "agree"}
             h == IF used THEN booking[b].host ELSE 0
             g == IF used THEN booking[b].guest ELSE 0
             p == [pc |-> pc, op |-> op, of |-> b, slot |-> slot, by |-> by, host |-> h, guest |-> g]
  <2>1. /\ req' = [req EXCEPT ![r] = p] /\ UNCHANGED <<booking, entries, commitment>>
        /\ r \notin InFlight /\ (regime.onePerBooking => Idling(b))
      BY <1>1 DEF StartBy, InFlight
  <2>2. /\ p.pc = pc /\ p.op = op /\ p.of = b /\ p.slot = slot
        /\ op = "accept" => p.host = 0 /\ p.guest = 0
      OBVIOUS
  <2> HIDE DEF p
  <2>3. req'[r] = p /\ \A s \in Requests : s # r => req'[s] = req[s]
      BY <2>1 DEF OwnInv, TypeOK
  <2>4. InFlight' = InFlight \cup {r}
      BY <1>1, <2>2, <2>3 DEF InFlight, At
  <2>5. \A s \in InFlight : req'[s] = req[s]
      BY <2>1, <2>3 DEF InFlight
  <2>6. Fits(p, booking[b]) /\ Parts(p, Of(b, entries))
    <3>1. \A e \in entries : e.id # 0
        BY DEF OwnInv, TypeOK, Entry
    <3> QED  BY <1>1, <2>2, <3>1 DEF Fits, Parts, Of
  <2>7. \A s \in InFlight : req[s].of = b =>
           ~regime.onePerBooking /\ Agrees(req[s], p) /\ Agrees(p, req[s])
    <3> SUFFICES ASSUME NEW s \in InFlight, req[s].of = b
                 PROVE  ~regime.onePerBooking /\ Agrees(req[s], p) /\ Agrees(p, req[s])
        OBVIOUS
    <3>1. ~regime.onePerBooking /\ op # "create"
        BY <1>1, <2>1 DEF Idling
    <3>2. Fits(req[s], booking[b])
        BY DEF LifeInv
    <3> QED  BY <1>1, <2>2, <3>1, <3>2 DEF Agrees, Fits
  <2>8. \A s, t \in InFlight' : s # t /\ req'[s].of = b /\ req'[t].of = b =>
           ~regime.onePerBooking /\ Agrees(req'[s], req'[t])
      BY <2>3, <2>4, <2>5, <2>7 DEF LifeInv, OneEach
  <2> QED  BY <2>1, <2>2, <2>3, <2>4, <2>5, <2>6, <2>8, LifeFrame DEF LifeInv
<1>2. booking[b].status \in Statuses
    BY DEF OwnInv, TypeOK, BookingRow
<1> QED  BY <1>1, <1>2 DEF Begin, Create, Accept, Decline, Keep, Cancel, Reschedule, Agree, Start, Statuses

\* A request goes on or ends, and its booking's status stays as it is.
LEMMA LifeAdvance ==
    ASSUME OwnInv, LifeInv, UNCHANGED regime, NEW r \in Requests, ~At(r, "idle"),
           NEW p, req' = [req EXCEPT ![r] = p],
           \/ p = Idle
           \/ /\ p.op = req[r].op /\ p.of = req[r].of /\ p.slot = req[r].slot
              /\ Parts(p, Of(req[r].of, entries')),
           \A c \in Bookings : c # req[r].of =>
              Of(c, entries') = Of(c, entries) /\ booking'[c] = booking[c],
           booking'[req[r].of].status = booking[req[r].of].status,
           booking'[req[r].of].slot = booking[req[r].of].slot,
           RowFits(booking'[req[r].of], Of(req[r].of, entries')),
           \A s \in InFlight : s # r /\ req[s].of = req[r].of => Parts(req[s], Of(req[r].of, entries'))
    PROVE  LifeInv'
<1> DEFINE b == req[r].of
<1>1. r \in InFlight /\ b \in Bookings
    BY OwnHeld DEF InFlight
<1>2. req'[r] = p /\ \A s \in Requests : s # r => req'[s] = req[s]
    BY DEF OwnInv, TypeOK
<1>3. /\ \A s \in InFlight' : s \in InFlight /\ (s # r => req'[s] = req[s])
      /\ r \in InFlight' => p # Idle
    BY <1>1, <1>2 DEF InFlight, At, Idle
<1>4. \A s \in InFlight' :
         /\ s \in InFlight
         /\ req'[s].op = req[s].op /\ req'[s].of = req[s].of /\ req'[s].slot = req[s].slot
         /\ req[s].of # b => req'[s] = req[s]
    BY <1>2, <1>3
<1>5. \A s \in InFlight' : req[s].of = b => Parts(req'[s], Of(b, entries'))
    BY <1>2, <1>3
<1> HIDE DEF b
<1> QED  BY <1>1, <1>4, <1>5, LifeKeep DEF b

LEMMA LifeQuiet ==
    ASSUME OwnInv, LifeInv, UNCHANGED <<booking, entries, regime>>, NEW r \in Requests, ~At(r, "idle"),
           Finish(r) \/ \E pc \in StepsOf(req[r].op) : Goto(r, pc)
    PROVE  LifeInv'
<1> DEFINE q == req[r]
<1>1. r \in InFlight /\ q \in Request /\ q.of \in Bookings
    BY OwnHeld DEF InFlight
<1>2. /\ RowFits(booking[q.of], Of(q.of, entries))
      /\ \A s \in InFlight : req[s].of = q.of => Parts(req[s], Of(q.of, entries))
    BY <1>1 DEF LifeInv
<1>3. CASE Finish(r)
    BY <1>2, <1>3, LifeAdvance DEF Finish
<1>4. ASSUME NEW pc \in StepsOf(q.op), Goto(r, pc) PROVE LifeInv'
  <2> DEFINE p == [q EXCEPT !.pc = pc]
  <2>1. /\ p.op = q.op /\ p.of = q.of /\ p.slot = q.slot /\ p.host = q.host /\ p.guest = q.guest
        /\ req' = [req EXCEPT ![r] = p]
      BY <1>1, <1>4 DEF Request, Goto
  <2> HIDE DEF p
  <2>2. Parts(q, Of(q.of, entries))
      BY <1>1, <1>2
  <2>3. Parts(p, Of(q.of, entries))
      BY <2>1, <2>2 DEF Parts
  <2> QED  BY <1>2, <2>1, <2>3, LifeAdvance
<1> QED  BY <1>3, <1>4

LEMMA LifeAdd ==
    ASSUME OwnInv, LifeInv, UNCHANGED regime, NEW r \in Requests, AddHostEntry(r) \/ AddGuestEntry(r)
    PROVE  LifeInv'
<1> DEFINE q == req[r]
           b == q.of
           D == Of(b, entries)
           u == IF q.pc = "first" THEN HostOf[b] ELSE GuestOf[b]
           n == [id |-> NewId, user |-> u, of |-> b, slot |-> q.slot]
           p == IF q.pc = "first" THEN [q EXCEPT !.pc = "second", !.host = NewId]
                                  ELSE [q EXCEPT !.pc = "write", !.guest = NewId]
<1>1. /\ UNCHANGED <<booking, commitment>> /\ ~At(r, "idle") /\ q.op = "accept"
      /\ q.pc \in {"first", "second"} /\ AddEntry(r, u) /\ req' = [req EXCEPT ![r] = p]
    BY DEF AddHostEntry, AddGuestEntry, At
<1>2. r \in InFlight /\ q \in Request /\ b \in Bookings
    BY <1>1, OwnHeld DEF InFlight
<1>3. /\ Of(b, entries') = D \cup {n}
      /\ \A c \in Bookings : c # b => Of(c, entries') = Of(c, entries)
    BY <1>1, AddOf
<1>4. /\ p.op = q.op /\ p.of = b /\ p.slot = q.slot
      /\ p.host = (IF q.pc = "first" THEN NewId ELSE q.host)
      /\ p.guest = (IF q.pc = "first" THEN q.guest ELSE NewId)
    BY <1>2 DEF Request
<1>5. n.id = NewId /\ n.user = u /\ n.slot = q.slot
    OBVIOUS
<1>6. /\ \A e \in D : e.id # NewId
      /\ \A s \in InFlight : NewId \notin {req[s].host, req[s].guest}
    BY <1>1, NewIdIsFree DEF AddEntry, OwnInv, TypeOK, Ids, Of
<1> HIDE DEF D, n, p
<1>7. /\ RowFits(booking[b], D) /\ Fits(q, booking[b])
      /\ \A s \in InFlight : req[s].of = b => Parts(req[s], D)
    BY <1>2 DEF LifeInv, D
<1>8. RowFits(booking[b], D \cup {n})
    BY <1>1, <1>5, <1>7 DEF RowFits, Fits, AllAt
<1>9. \A s \in InFlight : req[s].of = b => Parts(req[s], D \cup {n})
    BY <1>5, <1>6, <1>7 DEF Parts
<1>10. Parts(p, D \cup {n})
  <2>1. Parts(q, D) /\ q.guest # NewId /\ q.host # NewId
      BY <1>2, <1>6, <1>7
  <2>2. \A e \in D : /\ e.id = q.host => e.user = HostOf[b]
                     /\ e.id = q.guest => e.user = GuestOf[b]
      BY <1>1, <2>1 DEF Parts
  <2>3. CASE q.pc = "first"
    <3>1. p.host = NewId /\ p.guest = q.guest /\ n.id = NewId /\ n.user = HostOf[b]
        BY <1>4, <1>5, <2>3
    <3>2. \A e \in D \cup {n} : /\ e.id = p.host => e.user = HostOf[b]
                                /\ e.id = p.guest => e.user = GuestOf[b]
        BY <1>6, <2>1, <2>2, <3>1
    <3> QED  BY <1>4, <3>2 DEF Parts
  <2>4. CASE q.pc = "second"
    <3>1. p.host = q.host /\ p.guest = NewId /\ n.id = NewId /\ n.user = GuestOf[b]
        BY <1>4, <1>5, <2>4
    <3>2. \A e \in D \cup {n} : /\ e.id = p.host => e.user = HostOf[b]
                                /\ e.id = p.guest => e.user = GuestOf[b]
        BY <1>6, <2>1, <2>2, <3>1
    <3> QED  BY <1>4, <3>2 DEF Parts
  <2>5. q.pc = "first" \/ q.pc = "second"
      BY <1>1
  <2> HIDE DEF q, u
  <2> QED  BY <2>3, <2>4, <2>5
<1>11. /\ RowFits(booking'[b], Of(b, entries')) /\ Parts(p, Of(b, entries'))
       /\ \A c \in Bookings : c # b => Of(c, entries') = Of(c, entries) /\ booking'[c] = booking[c]
       /\ \A s \in InFlight : s # r /\ req[s].of = b => Parts(req[s], Of(b, entries'))
    BY <1>1, <1>3, <1>8, <1>9, <1>10
<1> QED  BY <1>1, <1>4, <1>11, LifeAdvance

LEMMA LifeMove ==
    ASSUME OwnInv, LifeInv, UNCHANGED regime, NEW r \in Requests, MoveHostEntry(r) \/ MoveGuestEntry(r)
    PROVE  LifeInv'
<1> DEFINE q == req[r]
           b == q.of
           id == IF q.pc = "first" THEN q.host ELSE q.guest
           next == IF q.pc = "first" THEN "second" ELSE "write"
           p == [q EXCEPT !.pc = next]
<1>1. /\ UNCHANGED <<booking, commitment>> /\ ~At(r, "idle") /\ q.op = "agree"
      /\ MoveEntry(r, id) /\ req' = [req EXCEPT ![r] = p]
    BY DEF MoveHostEntry, MoveGuestEntry, At, Goto
<1>2. r \in InFlight /\ q \in Request /\ b \in Bookings
    BY <1>1, OwnHeld DEF InFlight
<1>3. /\ \A c \in Bookings : c # b => Of(c, entries') = Of(c, entries)
      /\ \A d \in Of(b, entries') : \E e \in Of(b, entries) : d.id = e.id /\ d.user = e.user
    BY <1>1, MoveOf DEF Timed
<1>4. p.op = q.op /\ p.of = b /\ p.slot = q.slot
    BY <1>2 DEF Request
<1>5. Fits(q, booking[b]) /\ \A s \in InFlight : req[s].of = b => Parts(req[s], Of(b, entries))
    BY <1>2 DEF LifeInv
<1> HIDE DEF p
<1>6. RowFits(booking[b], Of(b, entries'))
    BY <1>1, <1>5 DEF RowFits, Fits
<1>7. \A s \in InFlight : req[s].of = b => Parts(req[s], Of(b, entries'))
    BY <1>3, <1>5 DEF Parts
<1>8. Parts(p, Of(b, entries'))
    BY <1>1, <1>4 DEF Parts
<1> QED  BY <1>1, <1>3, <1>4, <1>6, <1>7, <1>8, LifeAdvance

LEMMA LifeDrop ==
    ASSUME OwnInv, LifeInv, UNCHANGED regime, NEW r \in Requests, DropHostEntry(r) \/ DropGuestEntry(r)
    PROVE  LifeInv'
<1> DEFINE q == req[r]
           b == q.of
           gone == {IF q.pc = "first" THEN q.host ELSE q.guest} \ {0}
           next == IF q.pc = "first" THEN "second" ELSE "write"
           p == [q EXCEPT !.pc = next]
<1>1. /\ UNCHANGED commitment /\ ~At(r, "idle") /\ q.op = "cancel"
      /\ DeleteEntries(gone) /\ req' = [req EXCEPT ![r] = p]
    BY DEF DropHostEntry, DropGuestEntry, At, Goto
<1>2. r \in InFlight /\ q \in Request /\ b \in Bookings /\ ReqOK(q, booking, entries)
    BY <1>1, OwnHeld DEF InFlight
<1>3. \A e \in entries : e.id \in gone => e.of = b
    BY <1>2 DEF ReqOK
<1>4. /\ \A c \in Bookings : c # b => Of(c, entries') = Of(c, entries) /\ booking'[c] = booking[c]
      /\ Of(b, entries') \subseteq Of(b, entries)
    BY <1>1, <1>2, <1>3, DeleteOf
<1>5. p.op = q.op /\ p.of = b /\ p.slot = q.slot
    BY <1>2 DEF Request
<1>6. /\ RowFits(booking[b], Of(b, entries))
      /\ \A s \in InFlight : req[s].of = b => Parts(req[s], Of(b, entries))
    BY <1>2 DEF LifeInv
<1>7. /\ booking'[b].status = booking[b].status /\ booking'[b].slot = booking[b].slot
      /\ booking'[b].host \in {0, booking[b].host} /\ booking'[b].guest \in {0, booking[b].guest}
    BY <1>1, <1>2, UnlinkedFields DEF OwnInv
<1> HIDE DEF p, gone
<1>8. RowFits(booking'[b], Of(b, entries'))
    BY <1>4, <1>6, <1>7 DEF RowFits, AllAt
<1>9. \A s \in InFlight : req[s].of = b => Parts(req[s], Of(b, entries'))
    BY <1>4, <1>6 DEF Parts
<1>10. Parts(p, Of(b, entries'))
    BY <1>1, <1>5 DEF Parts
<1> QED  BY <1>1, <1>4, <1>5, <1>7, <1>8, <1>9, <1>10, LifeAdvance

LEMMA LifeDelete ==
    ASSUME OwnInv, LifeInv, UNCHANGED regime, NEW e \in entries, DeleteOwnEntry(e)
    PROVE  LifeInv'
<1> DEFINE b == e.of
<1>1. DeleteEntries({e.id}) /\ UNCHANGED <<req, commitment>> /\ 0 \notin {e.id} /\ b \in Bookings
    BY DEF DeleteOwnEntry, OwnInv, TypeOK, Entry
<1>2. \A d \in entries : d.id \in {e.id} => d.of = b
    BY DEF OwnInv, TypeOK
<1>3. /\ \A c \in Bookings : c # b => Of(c, entries') = Of(c, entries) /\ booking'[c] = booking[c]
      /\ Of(b, entries') \subseteq Of(b, entries)
  <2>1. \A c \in Bookings :
           /\ c # b => Of(c, entries') = Of(c, entries) /\ booking'[c] = booking[c]
           /\ Of(c, entries') = {d \in Of(c, entries) : d.id \notin {e.id}}
    <3> DEFINE gone == {e.id}
    <3>1. DeleteEntries(gone) /\ 0 \notin gone /\ \A d \in entries : d.id \in gone => d.of = b
        BY <1>1, <1>2
    <3> HIDE DEF gone, b
    <3>2. \A c \in Bookings :
             /\ c # b => Of(c, entries') = Of(c, entries) /\ booking'[c] = booking[c]
             /\ Of(c, entries') = {d \in Of(c, entries) : d.id \notin gone}
        BY <3>1, DeleteOf
    <3> QED  BY <3>2 DEF gone
  <2> HIDE DEF b
  <2> QED  BY <1>1, <2>1
<1>4. /\ booking'[b].status = booking[b].status /\ booking'[b].slot = booking[b].slot
      /\ booking'[b].host \in {0, booking[b].host} /\ booking'[b].guest \in {0, booking[b].guest}
    BY <1>1, UnlinkedFields DEF OwnInv
<1>5. RowFits(booking[b], Of(b, entries)) /\ \A s \in InFlight : req[s].of = b => Parts(req[s], Of(b, entries))
    BY <1>1 DEF LifeInv
<1>6. InFlight' = InFlight
    BY <1>1 DEF InFlight, At
<1> HIDE DEF b
<1>7. RowFits(booking'[b], Of(b, entries'))
    BY <1>3, <1>4, <1>5 DEF RowFits, AllAt
<1>8. \A s \in InFlight : req[s].of = b => Parts(req'[s], Of(b, entries'))
    BY <1>1, <1>3, <1>5 DEF Parts
<1> QED  BY <1>1, <1>3, <1>4, <1>6, <1>7, <1>8, LifeKeep

LEMMA LifeLast ==
    ASSUME OwnInv, LifeInv, UNCHANGED regime, NEW r \in Requests,
           \/ WriteCreated(r) \/ WriteAccepted(r) \/ WriteDeclined(r) \/ WriteKept(r)
           \/ WriteCancelled(r) \/ WriteProposal(r) \/ WriteMoved(r)
    PROVE  LifeInv'
<1> DEFINE q == req[r]
           b == q.of
           old == booking[b]
<1>1. ~At(r, "idle") /\ Finish(r) /\ UNCHANGED entries
    BY DEF WriteCreated, WriteAccepted, WriteDeclined, WriteKept, WriteCancelled, WriteProposal,
           WriteMoved, Write, Update, At
<1>2. r \in InFlight /\ q \in Request /\ b \in Bookings /\ ReqOK(q, booking, entries) /\ old \in BookingRow
    BY <1>1, OwnHeld DEF InFlight, OwnInv, TypeOK
<1>3. /\ \A s \in InFlight' : s \in InFlight /\ s # r /\ req'[s] = req[s]
      /\ Fits(q, old) /\ RowFits(old, Of(b, entries))
  <2>1. req'[r] = Idle /\ \A s \in Requests : s # r => req'[s] = req[s]
      BY <1>1 DEF Finish, OwnInv, TypeOK
  <2> QED  BY <1>2, <2>1 DEF InFlight, At, Idle, LifeInv
<1>4. ASSUME NEW row, Update(b, row), RowFits(row, Of(b, entries)),
             \A s \in InFlight : s # r /\ req[s].of = b => Fits(req[s], row)
      PROVE  LifeInv'
  <2>1. /\ booking'[b] = row
        /\ \A c \in Bookings : c # b => booking'[c] = booking[c]
      BY <1>2, <1>4 DEF Update, OwnInv, TypeOK
  <2>2. \A s \in InFlight' : req'[s].of = b => Fits(req'[s], row) /\ Parts(req'[s], Of(b, entries))
      BY <1>3, <1>4 DEF LifeInv
  <2>3. \A s, t \in InFlight' : s # t /\ req'[s].of = b /\ req'[t].of = b =>
           ~regime.onePerBooking /\ Agrees(req'[s], req'[t])
      BY <1>3 DEF LifeInv, OneEach
  <2>4. \A s \in InFlight' : req'[s].of = b \/ (s \in InFlight /\ req'[s] = req[s])
      BY <1>3
  <2>5. /\ \A c \in Bookings : c # b => Of(c, entries') = Of(c, entries) /\ booking'[c] = booking[c]
        /\ RowFits(booking'[b], Of(b, entries'))
        /\ \A s \in InFlight' : req'[s].of = b =>
              Fits(req'[s], booking'[b]) /\ Parts(req'[s], Of(b, entries'))
      BY <1>1, <1>4, <2>1, <2>2
  <2> HIDE DEF b
  <2> QED  BY <1>2, <2>3, <2>4, <2>5, LifeFrame
<1>5. ASSUME NEW row, Update(b, row), q.op # "create", row.status \notin {"none", "PENDING"}
      PROVE  LifeInv'
  <2>1. old.status # "none"
      BY <1>3, <1>5 DEF Fits
  <2>2. \A s \in InFlight : req[s].of = b => Fits(req[s], row)
    <3>1. \A s \in InFlight : req[s].of = b => Fits(req[s], old)
        BY DEF LifeInv
    <3> QED  BY <1>5, <2>1, <3>1 DEF Fits
  <2> QED  BY <1>4, <1>5, <2>2 DEF RowFits
<1>6. CASE WriteCreated(r)
  <2> DEFINE row == [NoRow EXCEPT !.status = "PENDING", !.slot = q.slot]
  <2>1. q.op = "create" /\ Update(b, row)
      BY <1>6 DEF WriteCreated, Write
  <2>2. q.slot \in Slots
      BY <1>2, <2>1 DEF ReqOK, Timed
  <2>3. row.status = "PENDING" /\ row.host = 0 /\ row.guest = 0
      BY <2>2, CreatedFields
  <2>4. Of(b, entries) = {}
      BY <1>3, <2>1 DEF Fits, RowFits
  <2>5. \A s \in InFlight : s # r => req[s].of # b
      BY <1>2, <2>1 DEF LifeInv, Agrees
  <2> HIDE DEF row
  <2> QED  BY <1>4, <2>1, <2>3, <2>4, <2>5 DEF RowFits, AllAt
<1>7. CASE WriteAccepted(r)
  <2> DEFINE row == [old EXCEPT !.status = "ACCEPTED", !.host = q.host, !.guest = q.guest]
  <2>1. q.op = "accept" /\ Update(b, IF {q.host, q.guest} \subseteq Ids THEN row ELSE old)
      BY <1>7 DEF WriteAccepted, Write
  <2>2. row.status = "ACCEPTED"
      BY <1>2 DEF BookingRow
  <2>3. \A s \in InFlight : req[s].of = b => Fits(req[s], old)
      BY DEF LifeInv
  <2> HIDE DEF row
  <2> QED  BY <1>3, <1>4, <1>5, <2>1, <2>2, <2>3
<1>8. CASE \/ WriteDeclined(r) \/ WriteKept(r) \/ WriteCancelled(r)
           \/ WriteProposal(r) \/ WriteMoved(r)
  <2>1. q.op # "create" /\ \E row : Update(b, row) /\ row.status \notin {"none", "PENDING"}
    <3>1. CASE WriteDeclined(r)
        BY <1>2, <3>1 DEF WriteDeclined, Write, BookingRow
    <3>2. CASE WriteKept(r)
      <4> DEFINE row == [old EXCEPT !.status = "ACCEPTED", !.proposed = NoSlot, !.by = Nobody]
      <4>1. q.op # "create" /\ Update(b, row)
          BY <3>2 DEF WriteKept, Write
      <4>2. row.status = "ACCEPTED"
          BY <1>2 DEF BookingRow
      <4> QED  BY <4>1, <4>2
    <3>3. CASE WriteCancelled(r)
        BY <1>2, <3>3 DEF WriteCancelled, Write, BookingRow
    <3>4. CASE WriteProposal(r)
      <4> DEFINE row == [old EXCEPT !.status = "RESCHEDULE_PENDING", !.proposed = q.slot, !.by = q.by]
      <4>1. q.op # "create" /\ Update(b, row)
          BY <3>4 DEF WriteProposal, Write
      <4>2. row.status = "RESCHEDULE_PENDING"
          BY <1>2 DEF BookingRow
      <4> QED  BY <4>1, <4>2
    <3>5. CASE WriteMoved(r)
      <4> DEFINE row == [old EXCEPT !.status = "ACCEPTED", !.slot = q.slot,
                                 !.proposed = NoSlot, !.by = Nobody]
      <4>1. q.op # "create" /\ Update(b, row)
          BY <3>5 DEF WriteMoved, Write
      <4>2. row.status = "ACCEPTED"
          BY <1>2 DEF BookingRow
      <4> QED  BY <4>1, <4>2
    <3> QED  BY <1>8, <3>1, <3>2, <3>3, <3>4, <3>5
  <2> QED  BY <1>5, <2>1
<1> QED  BY <1>6, <1>7, <1>8

LEMMA LifeStep == OwnInv /\ LifeInv /\ [Next]_vars => LifeInv'
<1> SUFFICES ASSUME OwnInv, LifeInv, [Next]_vars PROVE LifeInv'
    OBVIOUS
<1>0. UNCHANGED regime
    BY DEF Next, vars
<1>1. CASE UNCHANGED vars
    BY <1>1 DEF vars, LifeInv, OneEach, InFlight, At
<1>2. ASSUME NEW r \in Requests, NEW b \in regime.bookings, Begin(r, b) PROVE LifeInv'
  <2>1. b \in Bookings
      BY DEF OwnInv, TypeOK, Regime
  <2> QED  BY <1>0, <1>2, <2>1, LifeBegin
<1>3. ASSUME NEW r \in Requests, Continue(r) PROVE LifeInv'
  <2>1. CASE CheckHost(r) \/ CheckGuest(r)
    <3>1. /\ UNCHANGED <<booking, entries>> /\ ~At(r, "idle")
          /\ Finish(r) \/ \E pc \in {"checkGuest", "first", "write"} : Goto(r, pc)
        BY <2>1 DEF CheckHost, CheckGuest, At
    <3>2. Finish(r) \/ \E pc \in StepsOf(req[r].op) : Goto(r, pc)
      <4>1. req[r].pc \in {"checkHost", "checkGuest"} /\ req[r].pc \in StepsOf(req[r].op)
          BY <2>1, <3>1, OwnHeld DEF CheckHost, CheckGuest, At, ReqOK
      <4> QED  BY <2>1, <4>1 DEF CheckHost, CheckGuest, StepsOf
    <3> QED  BY <1>0, <3>1, <3>2, LifeQuiet
  <2>2. CASE AddHostEntry(r) \/ AddGuestEntry(r)
      BY <1>0, <2>2, LifeAdd
  <2>3. CASE MoveHostEntry(r) \/ MoveGuestEntry(r)
      BY <1>0, <2>3, LifeMove
  <2>4. CASE DropHostEntry(r) \/ DropGuestEntry(r)
      BY <1>0, <2>4, LifeDrop
  <2> QED  BY <1>0, <1>3, <2>1, <2>2, <2>3, <2>4, LifeLast DEF Continue
<1>4. ASSUME NEW r \in Requests, Die(r) PROVE LifeInv'
    BY <1>0, <1>4, LifeQuiet DEF Die
<1>5. ASSUME NEW e \in entries, DeleteOwnEntry(e) PROVE LifeInv'
    BY <1>0, <1>5, LifeDelete
<1> QED  BY <1>1, <1>2, <1>3, <1>4, <1>5 DEF Next

LEMMA LifeInit == Init => LifeInv
<1> SUFFICES ASSUME Init PROVE LifeInv
    OBVIOUS
<1>1. InFlight = {} /\ entries = {} /\ \A b \in Bookings : booking[b] = NoRow
    BY DEF Init, InFlight, At, Idle
<1>2. NoRow.status = "none"
    BY DEF NoRow
<1> QED  BY <1>1, <1>2 DEF LifeInv, OneEach, RowFits, Of

\* A booking that nothing is added to: no entry, no accept, none goes past a
\* check, no entry comes within reach of a move, and none is moved that was not.
LEMMA CopyKeep ==
    ASSUME regime \in Regimes, CopyInv, UNCHANGED regime, NEW c \in Bookings,
           \A d \in Of(c, entries') : \E e \in Of(c, entries) :
              d.id = e.id /\ d.user = e.user /\ (d.slot = e.slot \/ Movable(c, e.id)),
           \A s \in InFlight' : req'[s].of = c /\ req'[s].op = "accept" =>
              /\ s \in InFlight /\ req[s].of = c /\ req[s].op = "accept"
              /\ req'[s].slot = req[s].slot /\ \A u \in Users : Awaits(req'[s], u) => Awaits(req[s], u),
           \A d \in Of(c, entries') : Movable(c, d.id)' => Movable(c, d.id),
           booking'[c].status = "PENDING" =>
              booking[c].status = "PENDING" /\ booking'[c].slot = booking[c].slot
    PROVE  \A u \in Users :
              /\ AtMost(CopyIds(u, c)', Waiting(u, c)')
              /\ \A slot \in Slots : Asked(c, slot)' => AtMost(StrayIds(u, c, slot)', Accepts(c)')
<1> SUFFICES ASSUME NEW u \in Users
             PROVE  /\ AtMost(CopyIds(u, c)', Waiting(u, c)')
                    /\ \A slot \in Slots : Asked(c, slot)' => AtMost(StrayIds(u, c, slot)', Accepts(c)')
    OBVIOUS
<1>1. Accepts(c)' \subseteq Accepts(c) /\ Waiting(u, c)' \subseteq Waiting(u, c)
    BY DEF Accepts, Waiting
<1>2. CopyIds(u, c)' \subseteq CopyIds(u, c)
  <2>1. ASSUME NEW d \in Of(c, entries'), d.user = u PROVE d.id \in CopyIds(u, c)
      BY <2>1 DEF CopyIds
  <2> QED  BY <2>1 DEF CopyIds
<1>3. AtMost(CopyIds(u, c)', Waiting(u, c)')
    BY <1>1, <1>2, AtMostSubset DEF CopyInv
<1>4. ASSUME NEW slot \in Slots, Asked(c, slot)' PROVE AtMost(StrayIds(u, c, slot)', Accepts(c)')
  <2>1. Asked(c, slot)
      BY <1>4 DEF Asked, Accepts
  <2>2. ASSUME NEW d \in Of(c, entries'), d.user = u, ~Overlap(d.slot, slot) \/ Movable(c, d.id)'
        PROVE  d.id \in StrayIds(u, c, slot)
    <3>1. PICK e \in Of(c, entries) :
             d.id = e.id /\ d.user = e.user /\ (d.slot = e.slot \/ Movable(c, e.id))
        OBVIOUS
    <3>2. ~Overlap(e.slot, slot) \/ Movable(c, e.id)
        BY <2>2, <3>1
    <3> QED  BY <2>2, <3>1, <3>2 DEF StrayIds
  <2>3. StrayIds(u, c, slot)' \subseteq StrayIds(u, c, slot)
      BY <2>2 DEF StrayIds
  <2> QED  BY <1>1, <2>1, <2>3, AtMostSubset DEF CopyInv
<1> QED  BY <1>3, <1>4

\* What has to be shown of a step about booking b.
LEMMA CopyFrame ==
    ASSUME OwnInv, CopyInv, UNCHANGED regime, NEW b \in Bookings,
           \A c \in Bookings : c # b => Of(c, entries') = Of(c, entries) /\ booking'[c] = booking[c],
           \A s \in InFlight' : req'[s].of = b \/ (s \in InFlight /\ req'[s] = req[s]),
           \A u \in Users :
              /\ AtMost(CopyIds(u, b)', Waiting(u, b)')
              /\ \A slot \in Slots : Asked(b, slot)' => AtMost(StrayIds(u, b, slot)', Accepts(b)')
    PROVE  CopyInv'
<1>1. ASSUME NEW c \in Bookings, c # b
      PROVE  \A u \in Users :
                /\ AtMost(CopyIds(u, c)', Waiting(u, c)')
                /\ \A slot \in Slots : Asked(c, slot)' => AtMost(StrayIds(u, c, slot)', Accepts(c)')
  <2>1. \A i : Movable(c, i)' => Movable(c, i)
      BY <1>1 DEF Movable
  <2>2. /\ regime \in Regimes
        /\ \A d \in Of(c, entries') : \E e \in Of(c, entries) :
              d.id = e.id /\ d.user = e.user /\ (d.slot = e.slot \/ Movable(c, e.id))
        /\ \A d \in Of(c, entries') : Movable(c, d.id)' => Movable(c, d.id)
      BY <1>1, <2>1 DEF OwnInv, TypeOK
  <2>3. \A s \in InFlight' : req'[s].of = c /\ req'[s].op = "accept" =>
           /\ s \in InFlight /\ req[s].of = c /\ req[s].op = "accept"
           /\ req'[s].slot = req[s].slot /\ \A u \in Users : Awaits(req'[s], u) => Awaits(req[s], u)
      BY <1>1
  <2> QED  BY <1>1, <2>2, <2>3, CopyKeep
<1>2. \A u \in Users, c \in Bookings :
         /\ AtMost(CopyIds(u, c)', Waiting(u, c)')
         /\ \A slot \in Slots : Asked(c, slot)' => AtMost(StrayIds(u, c, slot)', Accepts(c)')
    BY <1>1
<1> QED  BY <1>2 DEF CopyInv, AtMost, AtATime

\* A request goes on without getting past a check as an accept, or ends.
LEMMA CopyAdvance ==
    ASSUME OwnInv, CopyInv, UNCHANGED regime, NEW r \in Requests, ~At(r, "idle"),
           NEW b \in Bookings, b = req[r].of,
           NEW p, req' = [req EXCEPT ![r] = p],
           \/ p = Idle
           \/ /\ p.op = req[r].op /\ p.of = req[r].of /\ p.slot = req[r].slot
              /\ p.host = req[r].host /\ p.guest = req[r].guest
              /\ p.op = "accept" => \A u \in Users : Awaits(p, u) => Awaits(req[r], u),
           \A c \in Bookings : c # b =>
              Of(c, entries') = Of(c, entries) /\ booking'[c] = booking[c],
           \A d \in Of(b, entries') : \E e \in Of(b, entries) :
              d.id = e.id /\ d.user = e.user /\ (d.slot = e.slot \/ Movable(b, e.id)),
           booking'[b].status = "PENDING" =>
              /\ booking[b].status = "PENDING"
              /\ booking'[b].slot = booking[b].slot,
           booking'[b].host \in {0, booking[b].host},
           booking'[b].guest \in {0, booking[b].guest}
    PROVE  CopyInv'
<1>1. r \in InFlight /\ b \in Bookings /\ regime \in Regimes
    BY OwnHeld DEF InFlight, OwnInv, TypeOK
<1>2. req'[r] = p /\ \A s \in Requests : s # r => req'[s] = req[s]
    BY DEF OwnInv, TypeOK
<1>3. /\ \A s \in InFlight' : s \in InFlight /\ (s # r => req'[s] = req[s])
      /\ r \in InFlight' => p # Idle
    BY <1>1, <1>2 DEF InFlight, At, Idle
<1>4. \A s \in InFlight' : req'[s].of = b \/ (s \in InFlight /\ req'[s] = req[s])
    BY <1>2, <1>3
<1>5. \A s \in InFlight' : req'[s].of = b /\ req'[s].op = "accept" =>
         /\ s \in InFlight /\ req[s].of = b /\ req[s].op = "accept"
         /\ req'[s].slot = req[s].slot /\ \A u \in Users : Awaits(req'[s], u) => Awaits(req[s], u)
    BY <1>2, <1>3
<1>6. \A d \in Of(b, entries') : Movable(b, d.id)' => Movable(b, d.id)
  <2> SUFFICES ASSUME NEW d \in Of(b, entries'), Movable(b, d.id)' PROVE Movable(b, d.id)
      OBVIOUS
  <2>1. d.id # 0
    <3>1. \E e \in entries : d.id = e.id
        BY DEF Of
    <3> QED  BY <3>1 DEF OwnInv, TypeOK, Entry
  <2>2. CASE d.id \in {booking'[b].host, booking'[b].guest}
      BY <2>1, <2>2 DEF Movable
  <2>3. CASE d.id \notin {booking'[b].host, booking'[b].guest}
    <3>1. PICK s \in InFlight' : /\ req'[s].of = b /\ req'[s].op = "agree"
                                 /\ d.id \in {req'[s].host, req'[s].guest}
        BY <2>3 DEF Movable
    <3>2. /\ s \in InFlight /\ req[s].of = b /\ req[s].op = "agree"
          /\ req[s].host = req'[s].host /\ req[s].guest = req'[s].guest
        BY <1>2, <1>3, <3>1
    <3> QED  BY <3>1, <3>2 DEF Movable
  <2> QED  BY <2>2, <2>3
<1>7. \A u \in Users :
         /\ AtMost(CopyIds(u, b)', Waiting(u, b)')
         /\ \A slot \in Slots : Asked(b, slot)' => AtMost(StrayIds(u, b, slot)', Accepts(b)')
    BY <1>1, <1>5, <1>6, CopyKeep
<1> QED  BY <1>1, <1>4, <1>7, CopyFrame

\* A request starts: an accept of a pending booking finds every entry at the
\* time that is asked for and none that may be moved.
LEMMA CopyBegin ==
    ASSUME OwnInv, LifeInv, LifeInv', CopyInv, UNCHANGED regime,
           NEW r \in Requests, NEW b \in Bookings, Begin(r, b)
    PROVE  CopyInv'
<1>1. ASSUME NEW by, NEW op, NEW slot, NEW pc, pc # "idle", StartBy(by, r, op, b, slot, pc),
             op = "accept" => /\ booking[b].status = "PENDING" /\ slot = booking[b].slot
                              /\ pc = "checkHost"
      PROVE  CopyInv'
  <2> DEFINE used == op \in {"cancel", "agree"}
             h == IF used THEN booking[b].host ELSE 0
             g == IF used THEN booking[b].guest ELSE 0
             p == [pc |-> pc, op |-> op, of |-> b, slot |-> slot, by |-> by, host |-> h, guest |-> g]
  <2>1. /\ req' = [req EXCEPT ![r] = p] /\ UNCHANGED <<booking, entries>> /\ r \notin InFlight
      BY <1>1 DEF StartBy, InFlight
  <2>2. /\ p.pc = pc /\ p.op = op /\ p.of = b /\ p.slot = slot
        /\ op = "agree" => p.host = booking[b].host /\ p.guest = booking[b].guest
      OBVIOUS
  <2> HIDE DEF p
  <2>3. req'[r] = p /\ \A s \in Requests : s # r => req'[s] = req[s]
      BY <2>1 DEF OwnInv, TypeOK
  <2>4. /\ InFlight' = InFlight \cup {r} /\ \A s \in InFlight : req'[s] = req[s]
    <3>1. InFlight' = InFlight \cup {r}
        BY <1>1, <2>2, <2>3 DEF InFlight, At
    <3> QED  BY <2>1, <2>3, <3>1 DEF InFlight
  <2>5. \A s \in InFlight' : req'[s].of = b \/ (s \in InFlight /\ req'[s] = req[s])
      BY <2>2, <2>3, <2>4
  <2>6. regime \in Regimes
      BY DEF OwnInv, TypeOK
  <2>7. CASE op # "accept"
    <3>1. \A s \in InFlight' : req'[s].of = b /\ req'[s].op = "accept" =>
             /\ s \in InFlight /\ req[s].of = b /\ req[s].op = "accept"
             /\ req'[s].slot = req[s].slot /\ \A u \in Users : Awaits(req'[s], u) => Awaits(req[s], u)
        BY <2>2, <2>3, <2>4, <2>7
    <3>2. \A i : Movable(b, i)' => Movable(b, i)
        BY <2>1, <2>2, <2>3, <2>4 DEF Movable
    <3>3. \A u \in Users :
             /\ AtMost(CopyIds(u, b)', Waiting(u, b)')
             /\ \A slt \in Slots : Asked(b, slt)' => AtMost(StrayIds(u, b, slt)', Accepts(b)')
        BY <2>1, <2>6, <3>1, <3>2, CopyKeep
    <3> QED  BY <2>1, <2>5, <3>3, CopyFrame
  <2>8. CASE op = "accept"
    <3> DEFINE row == booking[b]
               D == Of(b, entries)
    <3>1. row.status = "PENDING" /\ slot = row.slot /\ row.host = 0 /\ row.guest = 0 /\ AllAt(slot, D)
        BY <1>1, <2>8 DEF LifeInv, RowFits
    <3>2. \A s \in InFlight' : req'[s].of = b =>
             /\ req'[s].op \in {"accept", "decline", "cancel"}
             /\ req'[s].op = "accept" => req'[s].slot = slot
        BY <2>1, <3>1 DEF LifeInv, Fits
    <3>3. \A d \in D : d.id # 0 /\ Overlap(d.slot, slot)
      <4>1. \A d \in D : d \in Entry /\ d.slot = slot
          BY <3>1 DEF AllAt, Of, OwnInv, TypeOK
      <4> QED  BY <4>1 DEF Entry, NonEmpty, Overlap
    <3>4. ASSUME NEW u \in Users, NEW slt \in Slots, Asked(b, slt)'
          PROVE  AtMost(StrayIds(u, b, slt)', Accepts(b)')
      <4>1. slt = slot
          BY <2>1, <3>1, <3>2, <3>4 DEF Asked, Accepts
      <4>2. \A d \in D : ~Movable(b, d.id)'
          BY <2>1, <3>1, <3>2, <3>3 DEF Movable
      <4>3. StrayIds(u, b, slt)' = {}
          BY <2>1, <3>3, <4>1, <4>2 DEF StrayIds
      <4>4. /\ Accepts(b)' \in SUBSET Requests
            /\ regime.onePerBooking => \A s, t \in Accepts(b)' : s = t
          BY DEF Accepts, InFlight, LifeInv, OneEach
      <4>5. AtMost({}, Accepts(b)')
          BY <4>4, AtMostRequests
      <4> QED  BY <4>3, <4>5
    <3>5. ASSUME NEW u \in Users PROVE AtMost(CopyIds(u, b)', Waiting(u, b)')
      <4>1. CopyIds(u, b)' \subseteq CopyIds(u, b)
          BY <2>1 DEF CopyIds
      <4>2. ~Awaits(p, u)
          BY <1>1, <2>2, <2>8 DEF Awaits
      <4>3. Waiting(u, b)' \subseteq Waiting(u, b)
          BY <2>3, <2>4, <4>2 DEF Waiting, Accepts
      <4> QED  BY <2>6, <4>1, <4>3, AtMostSubset DEF CopyInv
    <3> QED  BY <2>1, <2>5, <3>4, <3>5, CopyFrame
  <2> QED  BY <2>7, <2>8
<1> QED  BY <1>1 DEF Begin, Create, Accept, Decline, Keep, Cancel, Reschedule, Agree, Start

\* The steps that leave the entries and the booking alone, but for an accept
\* that passes a check.
LEMMA CopyQuiet ==
    ASSUME OwnInv, CopyInv, UNCHANGED <<booking, entries, regime>>, NEW r \in Requests, ~At(r, "idle"),
           \/ Finish(r)
           \/ req[r].op # "accept" /\ \E pc \in StepsOf(req[r].op) : Goto(r, pc)
    PROVE  CopyInv'
<1> DEFINE q == req[r]
<1>1. q \in Request
    BY OwnHeld
<1>2. PICK b \in Bookings : b = q.of
    BY OwnHeld
<1>3. \A d \in Of(b, entries') : \E e \in Of(b, entries) :
         d.id = e.id /\ d.user = e.user /\ (d.slot = e.slot \/ Movable(b, e.id))
    OBVIOUS
<1>4. CASE Finish(r)
    BY <1>2, <1>3, <1>4, CopyAdvance DEF Finish
<1>5. ASSUME q.op # "accept", NEW pc \in StepsOf(q.op), Goto(r, pc) PROVE CopyInv'
  <2> DEFINE p == [q EXCEPT !.pc = pc]
  <2>1. /\ p.op = q.op /\ p.of = q.of /\ p.slot = q.slot /\ p.host = q.host /\ p.guest = q.guest
        /\ req' = [req EXCEPT ![r] = p]
      BY <1>1, <1>5 DEF Request, Goto
  <2> HIDE DEF p
  <2> QED  BY <1>2, <1>3, <1>5, <2>1, CopyAdvance
<1> QED  BY <1>4, <1>5

\* A reschedule-accept moves what its booking referred to when it was read.
LEMMA CopyMove ==
    ASSUME OwnInv, CopyInv, UNCHANGED regime, NEW r \in Requests, MoveHostEntry(r) \/ MoveGuestEntry(r)
    PROVE  CopyInv'
<1> DEFINE q == req[r]
           id == IF q.pc = "first" THEN q.host ELSE q.guest
           next == IF q.pc = "first" THEN "second" ELSE "write"
           p == [q EXCEPT !.pc = next]
<1>1. /\ UNCHANGED <<booking, commitment>> /\ ~At(r, "idle") /\ q.op = "agree"
      /\ MoveEntry(r, id) /\ req' = [req EXCEPT ![r] = p]
    BY DEF MoveHostEntry, MoveGuestEntry, At, Goto
<1>2. r \in InFlight /\ q \in Request
    BY <1>1, OwnHeld DEF InFlight
<1>3. PICK b \in Bookings : b = q.of
    BY <1>1, OwnHeld
<1>4. \A c \in Bookings :
         /\ c # q.of => Of(c, entries') = Of(c, entries)
         /\ \A d \in Of(c, entries') : \E e \in Of(c, entries) :
               /\ d.id = e.id /\ d.user = e.user
               /\ d.slot = IF e.id = id THEN q.slot ELSE e.slot
    BY <1>1, MoveOf DEF Timed
<1>5. Movable(b, id)
    BY <1>1, <1>2, <1>3 DEF Movable
<1>6. p.op = q.op /\ p.of = q.of /\ p.slot = q.slot /\ p.host = q.host /\ p.guest = q.guest
    BY <1>2 DEF Request
<1> HIDE DEF p, id
<1>7. \A d \in Of(b, entries') : \E e \in Of(b, entries) :
         d.id = e.id /\ d.user = e.user /\ (d.slot = e.slot \/ Movable(b, e.id))
    BY <1>4, <1>5
<1>8. p.op # "accept"
    BY <1>1, <1>6
<1>9. /\ \A c \in Bookings : c # b => Of(c, entries') = Of(c, entries) /\ booking'[c] = booking[c]
      /\ booking'[b] = booking[b]
    BY <1>1, <1>3, <1>4
<1> HIDE DEF q
<1> QED  BY <1>1, <1>3, <1>6, <1>7, <1>8, <1>9, CopyAdvance DEF q

\* Deleting entries of b.
LEMMA CopyDeleted ==
    ASSUME OwnInv, NEW gone, 0 \notin gone, DeleteEntries(gone), NEW b \in Bookings,
           \A e \in entries : e.id \in gone => e.of = b
    PROVE  /\ \A c \in Bookings : c # b => Of(c, entries') = Of(c, entries) /\ booking'[c] = booking[c]
           /\ \A d \in Of(b, entries') : \E e \in Of(b, entries) :
                 d.id = e.id /\ d.user = e.user /\ (d.slot = e.slot \/ Movable(b, e.id))
           /\ booking'[b].status = booking[b].status /\ booking'[b].slot = booking[b].slot
           /\ booking'[b].host \in {0, booking[b].host} /\ booking'[b].guest \in {0, booking[b].guest}
<1>1. /\ \A c \in Bookings : c # b => Of(c, entries') = Of(c, entries) /\ booking'[c] = booking[c]
      /\ Of(b, entries') \subseteq Of(b, entries)
    BY DeleteOf
<1>2. /\ booking'[b].status = booking[b].status /\ booking'[b].slot = booking[b].slot
      /\ booking'[b].host \in {0, booking[b].host} /\ booking'[b].guest \in {0, booking[b].guest}
    BY UnlinkedFields DEF OwnInv
<1> QED  BY <1>1, <1>2

LEMMA CopyDrop ==
    ASSUME OwnInv, CopyInv, UNCHANGED regime, NEW r \in Requests, DropHostEntry(r) \/ DropGuestEntry(r)
    PROVE  CopyInv'
<1> DEFINE q == req[r]
           gone == {IF q.pc = "first" THEN q.host ELSE q.guest} \ {0}
           next == IF q.pc = "first" THEN "second" ELSE "write"
           p == [q EXCEPT !.pc = next]
<1>1. /\ UNCHANGED commitment /\ ~At(r, "idle") /\ q.op = "cancel"
      /\ DeleteEntries(gone) /\ req' = [req EXCEPT ![r] = p]
    BY DEF DropHostEntry, DropGuestEntry, At, Goto
<1>2. q \in Request /\ ReqOK(q, booking, entries)
    BY <1>1, OwnHeld
<1>3. PICK b \in Bookings : b = q.of
    BY <1>1, OwnHeld
<1>4. 0 \notin gone /\ \A e \in entries : e.id \in gone => e.of = b
    BY <1>2, <1>3 DEF ReqOK
<1>5. p.op = q.op /\ p.of = q.of /\ p.slot = q.slot /\ p.host = q.host /\ p.guest = q.guest
    BY <1>2 DEF Request
<1> HIDE DEF p, gone
<1>6. p.op # "accept"
    BY <1>1, <1>5
<1>7. /\ \A c \in Bookings : c # b => Of(c, entries') = Of(c, entries) /\ booking'[c] = booking[c]
      /\ \A d \in Of(b, entries') : \E e \in Of(b, entries) :
            d.id = e.id /\ d.user = e.user /\ (d.slot = e.slot \/ Movable(b, e.id))
      /\ booking'[b].status = booking[b].status /\ booking'[b].slot = booking[b].slot
      /\ booking'[b].host \in {0, booking[b].host} /\ booking'[b].guest \in {0, booking[b].guest}
    BY <1>1, <1>4, CopyDeleted
<1>8. booking'[b].status = "PENDING" =>
         booking[b].status = "PENDING" /\ booking'[b].slot = booking[b].slot
    BY <1>7
<1>9. ~At(r, "idle") /\ req' = [req EXCEPT ![r] = p] /\ b = req[r].of
    BY <1>1, <1>3
<1>10. /\ p.op = req[r].op /\ p.of = req[r].of /\ p.slot = req[r].slot
       /\ p.host = req[r].host /\ p.guest = req[r].guest
       /\ p.op = "accept" => \A u \in Users : Awaits(p, u) => Awaits(req[r], u)
    BY <1>5, <1>6
<1> QED  BY <1>7, <1>8, <1>9, <1>10, CopyAdvance

LEMMA CopyDelete ==
    ASSUME OwnInv, CopyInv, UNCHANGED regime, NEW e \in entries, DeleteOwnEntry(e)
    PROVE  CopyInv'
<1>1. PICK b \in Bookings : b = e.of
    BY DEF OwnInv, TypeOK, Entry
<1>2. PICK gone : gone = {e.id}
    OBVIOUS
<1>3. /\ 0 \notin gone /\ DeleteEntries(gone) /\ UNCHANGED req
      /\ \A d \in entries : d.id \in gone => d.of = b
    BY <1>1, <1>2 DEF DeleteOwnEntry, OwnInv, TypeOK, Entry
<1>4. InFlight' = InFlight /\ regime \in Regimes
    BY <1>3 DEF InFlight, At, OwnInv, TypeOK
<1>5. /\ \A c \in Bookings : c # b => Of(c, entries') = Of(c, entries) /\ booking'[c] = booking[c]
      /\ \A d \in Of(b, entries') : \E f \in Of(b, entries) :
            d.id = f.id /\ d.user = f.user /\ (d.slot = f.slot \/ Movable(b, f.id))
      /\ booking'[b].status = booking[b].status /\ booking'[b].slot = booking[b].slot
      /\ booking'[b].host \in {0, booking[b].host} /\ booking'[b].guest \in {0, booking[b].guest}
    BY <1>3, CopyDeleted
<1>6. \A d \in Of(b, entries') : Movable(b, d.id)' => Movable(b, d.id)
  <2>1. \A d \in Of(b, entries') : d.id # 0
    <3>1. \A d \in Of(b, entries') : \E f \in entries : d.id = f.id
        BY <1>5 DEF Of
    <3> QED  BY <3>1 DEF OwnInv, TypeOK, Entry
  <2> QED  BY <1>3, <1>4, <1>5, <2>1 DEF Movable
<1>7. \A u \in Users :
         /\ AtMost(CopyIds(u, b)', Waiting(u, b)')
         /\ \A slot \in Slots : Asked(b, slot)' => AtMost(StrayIds(u, b, slot)', Accepts(b)')
    BY <1>3, <1>4, <1>5, <1>6, CopyKeep
<1> QED  BY <1>3, <1>4, <1>5, <1>7, CopyFrame

\* An accept passes a check.
LEMMA CopyChecked ==
    ASSUME OwnInv, CopyInv, UNCHANGED regime, NEW r \in Requests, req[r].op = "accept",
           \/ CheckHost(r) /\ Goto(r, "checkGuest")
           \/ CheckGuest(r) /\ Goto(r, IF req[r].op \in {"accept", "agree"} THEN "first" ELSE "write")
    PROVE  CopyInv'
<1>1. UNCHANGED <<booking, entries>> /\ ~At(r, "idle") /\ req[r].slot \in Slots
    BY ChecksClear
<1>2. PICK p :
         /\ req' = [req EXCEPT ![r] = p]
         /\ p.op = "accept" /\ p.of = req[r].of /\ p.slot = req[r].slot
         /\ \/ req[r].pc = "checkHost" /\ p.pc = "checkGuest"
            \/ req[r].pc = "checkGuest" /\ p.pc \in {"first", "write"}
         /\ \A u \in Users : Hopes(p, u) =>
              \/ Hopes(req[r], u)
              \/ \A e \in entries : e.user = u /\ Overlap(e.slot, req[r].slot) => e.of = Except(r)
    BY ChecksClear
<1>3. PICK b \in Bookings : b = req[r].of
    BY <1>1, OwnHeld
<1>4. r \in InFlight /\ req'[r] = p /\ \A s \in Requests : s # r => req'[s] = req[s]
    BY <1>1, <1>2 DEF InFlight, OwnInv, TypeOK
<1>5. InFlight' = InFlight /\ regime \in Regimes
    BY <1>1, <1>2, <1>4 DEF InFlight, At, OwnInv, TypeOK
<1>6. /\ \A s \in InFlight' : req'[s].of = b \/ (s \in InFlight /\ req'[s] = req[s])
      /\ \A s \in InFlight : req'[s].of = req[s].of /\ req'[s].op = req[s].op /\ req'[s].slot = req[s].slot
      /\ \A s \in InFlight : s # r => req'[s] = req[s]
    BY <1>2, <1>3, <1>4, <1>5 DEF InFlight
<1>7. Accepts(b)' = Accepts(b) /\ r \in Accepts(b)
    BY <1>3, <1>4, <1>5, <1>6 DEF Accepts
<1>8. ASSUME NEW u \in Users, NEW slot \in Slots, Asked(b, slot)'
      PROVE  AtMost(StrayIds(u, b, slot)', Accepts(b)')
  <2>1. Asked(b, slot)
      BY <1>1, <1>6, <1>7, <1>8 DEF Asked, Accepts
  <2>2. \A i : Movable(b, i)' => Movable(b, i)
      BY <1>1, <1>2, <1>4, <1>5, <1>6 DEF Movable
  <2>3. StrayIds(u, b, slot)' \subseteq StrayIds(u, b, slot)
      BY <1>1, <2>2 DEF StrayIds
  <2> QED  BY <1>5, <1>7, <2>1, <2>3, AtMostSubset DEF CopyInv
<1>9. ASSUME NEW u \in Users PROVE AtMost(CopyIds(u, b)', Waiting(u, b)')
  <2>1. CopyIds(u, b)' = CopyIds(u, b)
      BY <1>1 DEF CopyIds
  <2>2. CASE Awaits(p, u) => Awaits(req[r], u)
    <3>1. Waiting(u, b)' \subseteq Waiting(u, b)
        BY <1>4, <1>6, <1>7, <2>2 DEF Waiting, Accepts
    <3> QED  BY <1>5, <2>1, <3>1, AtMostSubset DEF CopyInv
  <2>3. CASE Awaits(p, u) /\ ~Awaits(req[r], u)
    <3>1. Hopes(p, u) /\ ~Hopes(req[r], u)
        BY <1>2, <2>3 DEF Awaits, Hopes
    <3>2. \A e \in entries : e.user = u => ~Overlap(e.slot, req[r].slot)
      <4>1. \A e \in entries : e.of # Except(r)
          BY DEF Except, OwnInv, TypeOK, Entry
      <4> QED  BY <1>2, <3>1, <4>1
    <3>3. CopyIds(u, b) \subseteq StrayIds(u, b, req[r].slot)
        BY <3>2 DEF CopyIds, StrayIds, Of
    <3>4. Asked(b, req[r].slot)
        BY <1>7 DEF Asked
    <3>5. AtMost(StrayIds(u, b, req[r].slot), Accepts(b))
        BY <1>1, <3>4 DEF CopyInv
    <3>6. Waiting(u, b)' \subseteq Accepts(b)
        BY <1>7 DEF Waiting
    <3> QED  BY <1>5, <2>1, <3>3, <3>5, <3>6, AtMostSubset
  <2> QED  BY <2>2, <2>3
<1> QED  BY <1>1, <1>3, <1>6, <1>8, <1>9, CopyFrame

\* An accept inserts an entry: one more, and one less that waits for it.
LEMMA CopyAdd ==
    ASSUME OwnInv, LifeInv, CopyInv, UNCHANGED regime, NEW r \in Requests,
           AddHostEntry(r) \/ AddGuestEntry(r)
    PROVE  CopyInv'
<1> DEFINE q == req[r]
           v == IF q.pc = "first" THEN HostOf[q.of] ELSE GuestOf[q.of]
           m == [id |-> NewId, user |-> v, of |-> q.of, slot |-> q.slot]
           f == IF q.pc = "first" THEN [q EXCEPT !.pc = "second", !.host = NewId]
                                  ELSE [q EXCEPT !.pc = "write", !.guest = NewId]
<1>1. /\ UNCHANGED <<booking, commitment>> /\ ~At(r, "idle") /\ q.op = "accept"
      /\ q.pc \in {"first", "second"} /\ AddEntry(r, v) /\ req' = [req EXCEPT ![r] = f]
    BY DEF AddHostEntry, AddGuestEntry, At
<1>2. r \in InFlight /\ q \in Request /\ ReqOK(q, booking, entries)
    BY <1>1, OwnHeld DEF InFlight
<1>3. PICK b \in Bookings : b = q.of
    BY <1>1, OwnHeld
<1>4. PICK n : n = m
    OBVIOUS
<1>5. PICK w \in Users : w = v
    BY <1>3
<1>6. n.id = NewId /\ n.user = w /\ n.slot = q.slot
    BY <1>4, <1>5
<1>7. \A c \in Bookings : Of(c, entries') = IF c = b THEN Of(c, entries) \cup {n} ELSE Of(c, entries)
    BY <1>1, <1>3, <1>4, AddOf
<1>8. PICK i : i = NewId
    OBVIOUS
<1>9. /\ i # 0 /\ i \notin Ids
      /\ \A s \in InFlight : i \notin {req[s].host, req[s].guest}
    BY <1>1, <1>8, NewIdIsFree DEF AddEntry, OwnInv, TypeOK
<1>10. PICK p : p = f
    OBVIOUS
<1>11. /\ req' = [req EXCEPT ![r] = p] /\ p.op = "accept" /\ p.of = b /\ p.slot = q.slot
       /\ p.pc = IF q.pc = "first" THEN "second" ELSE "write"
    BY <1>1, <1>2, <1>3, <1>10 DEF Request
<1> HIDE DEF f, m
<1>12. req'[r] = p /\ \A s \in Requests : s # r => req'[s] = req[s]
    BY <1>11 DEF OwnInv, TypeOK
<1>13. InFlight' = InFlight /\ regime \in Regimes
    BY <1>2, <1>11, <1>12 DEF InFlight, At, OwnInv, TypeOK
<1>14. /\ \A s \in InFlight' : req'[s].of = b \/ (s \in InFlight /\ req'[s] = req[s])
       /\ \A s \in InFlight : req'[s].of = req[s].of /\ req'[s].op = req[s].op /\ req'[s].slot = req[s].slot
       /\ \A s \in InFlight : s # r => req'[s] = req[s]
    BY <1>1, <1>3, <1>11, <1>12, <1>13 DEF InFlight
<1>15. Accepts(b)' = Accepts(b) /\ r \in Accepts(b)
    BY <1>1, <1>2, <1>3, <1>13, <1>14 DEF Accepts
<1>16. q.slot \in Slots
    BY <1>1, <1>2 DEF ReqOK, Timed
<1>17. ASSUME NEW u \in Users, NEW slot \in Slots, Asked(b, slot)'
       PROVE  AtMost(StrayIds(u, b, slot)', Accepts(b)')
  <2>1. Asked(b, slot)
      BY <1>1, <1>14, <1>15, <1>17 DEF Asked, Accepts
  <2>2. slot = q.slot
    <3>1. CASE booking[b].status = "PENDING" /\ booking[b].slot = slot
        BY <1>1, <1>2, <1>3, <3>1 DEF LifeInv, Fits
    <3>2. CASE \E s \in Accepts(b) : req[s].slot = slot
      <4>1. PICK s \in Accepts(b) : req[s].slot = slot
          BY <3>2
      <4>2. s # r => Agrees(req[r], req[s])
          BY <1>2, <1>3 DEF Accepts, LifeInv
      <4> QED  BY <1>1, <4>1, <4>2 DEF Accepts, Agrees
    <3> QED  BY <2>1, <3>1, <3>2 DEF Asked
  <2>3. Overlap(n.slot, slot)
      BY <1>6, <1>16, <2>2 DEF NonEmpty, Overlap
  <2>4. \A j : Movable(b, j)' => Movable(b, j)
      BY <1>1, <1>11, <1>12, <1>13, <1>14 DEF Movable
  <2>5. ~Movable(b, i)
      BY <1>9 DEF Movable, OwnInv, TypeOK
  <2>6. StrayIds(u, b, slot)' \subseteq StrayIds(u, b, slot)
    <3>1. ASSUME NEW d \in Of(b, entries'), d.user = u, ~Overlap(d.slot, slot) \/ Movable(b, d.id)'
          PROVE  d \in Of(b, entries) /\ (~Overlap(d.slot, slot) \/ Movable(b, d.id))
        BY <1>6, <1>7, <1>8, <2>3, <2>4, <2>5, <3>1
    <3> QED  BY <3>1 DEF StrayIds
  <2> QED  BY <1>13, <1>15, <2>1, <2>6, AtMostSubset DEF CopyInv
<1>18. ASSUME NEW u \in Users PROVE AtMost(CopyIds(u, b)', Waiting(u, b)')
  <2>1. HostOf[b] # GuestOf[b]
      OBVIOUS
  <2>2. CASE u = w
    <3>1. Awaits(q, u) /\ ~Awaits(p, u)
        BY <1>1, <1>3, <1>5, <1>11, <2>1, <2>2 DEF Awaits
    <3>2. r \in Waiting(u, b) /\ Waiting(u, b)' \subseteq Waiting(u, b) \ {r}
        BY <1>12, <1>14, <1>15, <3>1 DEF Waiting, Accepts
    <3>3. CopyIds(u, b)' \subseteq CopyIds(u, b) \cup {i}
        BY <1>6, <1>7, <1>8 DEF CopyIds
    <3>4. AtMost(CopyIds(u, b), Waiting(u, b))
        BY DEF CopyInv
    <3>5. /\ CopyIds(u, b)' \in SUBSET (CopyIds(u, b) \cup {i})
          /\ Waiting(u, b)' \in SUBSET (Waiting(u, b) \ {r})
        BY <3>2, <3>3
    <3> HIDE DEF v, q
    <3> QED  BY <1>13, <3>2, <3>4, <3>5, AtMostSwap
  <2>3. CASE u # w
    <3>1. Awaits(p, u) => Awaits(q, u)
        BY <1>1, <1>3, <1>5, <1>11, <2>1, <2>3 DEF Awaits
    <3>2. Waiting(u, b)' \subseteq Waiting(u, b)
        BY <1>12, <1>14, <1>15, <3>1 DEF Waiting, Accepts
    <3>3. CopyIds(u, b)' \subseteq CopyIds(u, b)
        BY <1>6, <1>7, <2>3 DEF CopyIds
    <3> QED  BY <1>13, <3>2, <3>3, AtMostSubset DEF CopyInv
  <2> QED  BY <2>2, <2>3
<1>19. \A c \in Bookings : c # b => Of(c, entries') = Of(c, entries) /\ booking'[c] = booking[c]
    BY <1>1, <1>7
<1> QED  BY <1>14, <1>17, <1>18, <1>19, CopyFrame

\* An accept makes its booking refer to its entries: at most one more entry of
\* each person may be moved, and there is one accept less.
LEMMA CopyAccepted ==
    ASSUME OwnInv, LifeInv, CopyInv, UNCHANGED regime, NEW r \in Requests, WriteAccepted(r)
    PROVE  CopyInv'
<1>1. /\ ~At(r, "idle") /\ Finish(r) /\ UNCHANGED entries /\ req[r].op = "accept"
    BY DEF WriteAccepted, Write, Update, At
<1>2. PICK b \in Bookings : b = req[r].of
    BY <1>1, OwnHeld
<1>3. PICK h \in Nat, g \in Nat : h = req[r].host /\ g = req[r].guest
    BY <1>1, OwnHeld DEF Request
<1>4. PICK row : row = [booking[b] EXCEPT !.status = "ACCEPTED", !.host = h, !.guest = g]
    OBVIOUS
<1>5. /\ booking[b] \in BookingRow /\ regime \in Regimes /\ r \in InFlight
      /\ booking \in [Bookings -> BookingRow]
    BY <1>1 DEF OwnInv, TypeOK, InFlight
<1>6. row.status = "ACCEPTED" /\ row.host = h /\ row.guest = g
    BY <1>4, <1>5 DEF BookingRow
<1>7. booking' = [booking EXCEPT ![b] = row] \/ booking' = [booking EXCEPT ![b] = booking[b]]
    BY <1>2, <1>3, <1>4 DEF WriteAccepted, Update
<1>8. \A c \in Bookings : c # b => Of(c, entries') = Of(c, entries) /\ booking'[c] = booking[c]
    BY <1>1, <1>5, <1>7
<1>9. CASE booking'[b] = booking[b]
    BY <1>1, <1>2, <1>8, <1>9, CopyAdvance DEF Finish
<1>10. CASE booking'[b] = row
  <2>1. /\ \A s \in InFlight' : s \in InFlight /\ s # r /\ req'[s] = req[s]
      BY <1>1 DEF Finish, InFlight, At, Idle, OwnInv, TypeOK
  <2>2. \A s \in InFlight' : req'[s].of = b \/ (s \in InFlight /\ req'[s] = req[s])
      BY <2>1
  <2>3. /\ r \in Accepts(b) /\ Accepts(b)' \in SUBSET (Accepts(b) \ {r})
        /\ \A u \in Users : Waiting(u, b)' \subseteq Waiting(u, b)
      BY <1>1, <1>2, <1>5, <2>1 DEF Accepts, Waiting
  <2>4. ASSUME NEW u \in Users PROVE AtMost(CopyIds(u, b)', Waiting(u, b)')
    <3>1. CopyIds(u, b)' \subseteq CopyIds(u, b)
        BY <1>1 DEF CopyIds
    <3> QED  BY <1>5, <2>3, <3>1, AtMostSubset DEF CopyInv
  <2>5. ASSUME NEW u \in Users, NEW slot \in Slots, Asked(b, slot)'
        PROVE  AtMost(StrayIds(u, b, slot)', Accepts(b)')
    <3>1. Asked(b, slot)
        BY <1>6, <1>10, <2>1, <2>5 DEF Asked, Accepts
    <3>2. PICK i : i = IF u = HostOf[b] THEN h ELSE g
        OBVIOUS
    <3>3. \A d \in Of(b, entries) :
             /\ d.id = h => d.user = HostOf[b]
             /\ d.id = g => d.user = GuestOf[b]
        BY <1>1, <1>2, <1>3, <1>5 DEF LifeInv, Parts
    <3>4. ASSUME NEW d \in Of(b, entries), d.user = u, Movable(b, d.id)'
          PROVE  d.id = i \/ Movable(b, d.id)
      <4>0. HostOf[b] # GuestOf[b]
          OBVIOUS
      <4>1. CASE d.id \in {h, g}
        <5>1. d.id = h => u = HostOf[b] /\ i = h
            BY <3>2, <3>3, <3>4
        <5>2. d.id = g => u = GuestOf[b] /\ i = g
            BY <3>2, <3>3, <3>4, <4>0
        <5> QED  BY <4>1, <5>1, <5>2
      <4>2. CASE d.id \notin {h, g}
          BY <1>6, <1>10, <2>1, <3>4, <4>2 DEF Movable
      <4> QED  BY <4>1, <4>2
    <3>5. StrayIds(u, b, slot)' \in SUBSET (StrayIds(u, b, slot) \cup {i})
        BY <1>1, <3>4 DEF StrayIds
    <3>6. AtMost(StrayIds(u, b, slot), Accepts(b))
        BY <3>1 DEF CopyInv
    <3> QED  BY <1>5, <2>3, <3>5, <3>6, AtMostSwap
  <2> QED  BY <1>8, <2>2, <2>4, <2>5, CopyFrame
<1> QED  BY <1>5, <1>7, <1>9, <1>10

LEMMA CopyLast ==
    ASSUME OwnInv, LifeInv, CopyInv, UNCHANGED regime, NEW r \in Requests,
           \/ WriteCreated(r) \/ WriteDeclined(r) \/ WriteKept(r)
           \/ WriteCancelled(r) \/ WriteProposal(r) \/ WriteMoved(r)
    PROVE  CopyInv'
<1>1. ~At(r, "idle") /\ Finish(r) /\ UNCHANGED entries
    BY DEF WriteCreated, WriteDeclined, WriteKept, WriteCancelled, WriteProposal,
           WriteMoved, Write, Update, At
<1>2. PICK b \in Bookings : b = req[r].of
    BY <1>1, OwnHeld
<1>3. PICK old \in BookingRow : old = booking[b]
    BY DEF OwnInv, TypeOK
<1>4. CASE WriteCreated(r)
  <2>1. req[r].op = "create" /\ \E row : Update(b, row)
      BY <1>2, <1>4 DEF WriteCreated, Write
  <2>2. \A c \in Bookings : c # b => Of(c, entries') = Of(c, entries) /\ booking'[c] = booking[c]
      BY <1>1, <2>1 DEF Update, OwnInv, TypeOK
  <2>3. \A s \in InFlight' : s \in InFlight /\ s # r /\ req'[s] = req[s]
      BY <1>1 DEF Finish, InFlight, At, Idle, OwnInv, TypeOK
  <2>4. r \in InFlight
      BY <1>1 DEF InFlight
  <2>5. Of(b, entries) = {} /\ \A s \in InFlight : s # r => req[s].of # b
    <3>1. Fits(req[r], old) /\ RowFits(old, Of(b, entries))
        BY <1>2, <1>3, <2>4 DEF LifeInv
    <3>2. \A s \in InFlight : s # r /\ req[s].of = b => Agrees(req[r], req[s])
        BY <1>2, <2>4 DEF LifeInv
    <3> QED  BY <2>1, <3>1, <3>2 DEF Fits, RowFits, Agrees
  <2>6. Accepts(b)' = {}
      BY <2>3, <2>5 DEF Accepts
  <2>7. \A u \in Users : /\ CopyIds(u, b)' = {} /\ Waiting(u, b)' = {}
                         /\ \A slot \in Slots : StrayIds(u, b, slot)' = {}
      BY <1>1, <2>5, <2>6 DEF CopyIds, Waiting, StrayIds
  <2>8. AtMost({}, {})
      BY AtMostRequests
  <2>9. \A u \in Users :
           /\ AtMost(CopyIds(u, b)', Waiting(u, b)')
           /\ \A slot \in Slots : Asked(b, slot)' => AtMost(StrayIds(u, b, slot)', Accepts(b)')
      BY <2>6, <2>7, <2>8
  <2>10. \A s \in InFlight' : req'[s].of = b \/ (s \in InFlight /\ req'[s] = req[s])
      BY <2>3
  <2> QED  BY <2>2, <2>9, <2>10, CopyFrame
<1>5. ASSUME NEW row, Update(b, row), row.status # "PENDING", row.host = old.host, row.guest = old.guest
      PROVE  CopyInv'
  <2>1. /\ \A c \in Bookings : c # b => Of(c, entries') = Of(c, entries) /\ booking'[c] = booking[c]
        /\ booking'[b] = row
      BY <1>1, <1>5 DEF Update, OwnInv, TypeOK
  <2>2. \A d \in Of(b, entries') : \E e \in Of(b, entries) :
           d.id = e.id /\ d.user = e.user /\ (d.slot = e.slot \/ Movable(b, e.id))
      BY <1>1
  <2> QED  BY <1>1, <1>2, <1>3, <1>5, <2>1, <2>2, CopyAdvance DEF Finish
<1>6. CASE WriteDeclined(r)
  <2> DEFINE row == [old EXCEPT !.status = "DECLINED"]
  <2>1. Update(b, row)
      BY <1>2, <1>3, <1>6 DEF WriteDeclined
  <2>2. row.status = "DECLINED" /\ row.host = old.host /\ row.guest = old.guest
      BY <1>3 DEF BookingRow
  <2> HIDE DEF row
  <2> QED  BY <1>5, <2>1, <2>2
<1>7. CASE WriteKept(r)
  <2> DEFINE row == [old EXCEPT !.status = "ACCEPTED", !.proposed = NoSlot, !.by = Nobody]
  <2>1. Update(b, row)
      BY <1>2, <1>3, <1>7 DEF WriteKept
  <2>2. row.status = "ACCEPTED" /\ row.host = old.host /\ row.guest = old.guest
      BY <1>3 DEF BookingRow
  <2> HIDE DEF row
  <2> QED  BY <1>5, <2>1, <2>2
<1>8. CASE WriteCancelled(r)
  <2> DEFINE row == [old EXCEPT !.status = "CANCELLED"]
  <2>1. Update(b, row)
      BY <1>2, <1>3, <1>8 DEF WriteCancelled
  <2>2. row.status = "CANCELLED" /\ row.host = old.host /\ row.guest = old.guest
      BY <1>3 DEF BookingRow
  <2> HIDE DEF row
  <2> QED  BY <1>5, <2>1, <2>2
<1>9. CASE WriteProposal(r)
  <2> DEFINE row == [old EXCEPT !.status = "RESCHEDULE_PENDING", !.proposed = req[r].slot,
                                !.by = req[r].by]
  <2>1. Update(b, row)
      BY <1>2, <1>3, <1>9 DEF WriteProposal
  <2>2. row.status = "RESCHEDULE_PENDING" /\ row.host = old.host /\ row.guest = old.guest
      BY <1>3 DEF BookingRow
  <2> HIDE DEF row
  <2> QED  BY <1>5, <2>1, <2>2
<1>10. CASE WriteMoved(r)
  <2> DEFINE row == [old EXCEPT !.status = "ACCEPTED", !.slot = req[r].slot,
                                !.proposed = NoSlot, !.by = Nobody]
  <2>1. Update(b, row)
      BY <1>2, <1>3, <1>10 DEF WriteMoved
  <2>2. row.status = "ACCEPTED" /\ row.host = old.host /\ row.guest = old.guest
      BY <1>3 DEF BookingRow
  <2> HIDE DEF row
  <2> QED  BY <1>5, <2>1, <2>2
<1> QED  BY <1>4, <1>6, <1>7, <1>8, <1>9, <1>10

LEMMA CopyStep == OwnInv /\ LifeInv /\ LifeInv' /\ CopyInv /\ [Next]_vars => CopyInv'
<1> SUFFICES ASSUME OwnInv, LifeInv, LifeInv', CopyInv, [Next]_vars PROVE CopyInv'
    OBVIOUS
<1>0. UNCHANGED regime
    BY DEF Next, vars
<1>1. CASE UNCHANGED vars
  <2>1. UNCHANGED <<booking, entries, req, regime>>
      BY <1>1 DEF vars
  <2>2. InFlight' = InFlight
      BY <2>1 DEF InFlight, At
  <2>3. \A b : /\ Accepts(b)' = Accepts(b) /\ \A slot : Asked(b, slot)' = Asked(b, slot)
               /\ \A i : Movable(b, i)' = Movable(b, i)
      BY <2>1, <2>2 DEF Accepts, Asked, Movable
  <2>4. \A u, b : /\ CopyIds(u, b)' = CopyIds(u, b) /\ Waiting(u, b)' = Waiting(u, b)
                  /\ \A slot : StrayIds(u, b, slot)' = StrayIds(u, b, slot)
      BY <2>1, <2>3 DEF CopyIds, Waiting, StrayIds
  <2> QED  BY <2>1, <2>3, <2>4 DEF CopyInv, AtMost, AtATime
<1>2. ASSUME NEW r \in Requests, NEW b \in regime.bookings, Begin(r, b) PROVE CopyInv'
  <2>1. b \in Bookings
      BY DEF OwnInv, TypeOK, Regime
  <2> QED  BY <1>0, <1>2, <2>1, CopyBegin
<1>3. ASSUME NEW r \in Requests, Continue(r) PROVE CopyInv'
  <2>1. CASE CheckHost(r) \/ CheckGuest(r)
    <3>1. /\ UNCHANGED <<booking, entries>> /\ ~At(r, "idle")
          /\ req[r].pc \in {"checkHost", "checkGuest"} /\ req[r].pc \in StepsOf(req[r].op)
      <4>1. /\ UNCHANGED <<booking, entries>> /\ ~At(r, "idle")
            /\ req[r].pc \in {"checkHost", "checkGuest"}
          BY <2>1 DEF CheckHost, CheckGuest, At
      <4> QED  BY <4>1, OwnHeld DEF ReqOK
    <3>2. \/ Finish(r)
          \/ CheckHost(r) /\ Goto(r, "checkGuest")
          \/ CheckGuest(r) /\ Goto(r, IF req[r].op \in {"accept", "agree"} THEN "first" ELSE "write")
        BY <2>1 DEF CheckHost, CheckGuest
    <3>3. CASE Finish(r)
        BY <1>0, <3>1, <3>3, CopyQuiet
    <3>4. CASE req[r].op = "accept" /\ ~Finish(r)
        BY <1>0, <3>2, <3>4, CopyChecked
    <3>5. CASE req[r].op # "accept" /\ ~Finish(r)
      <4>1. \E pc \in StepsOf(req[r].op) : Goto(r, pc)
          BY <3>1, <3>2, <3>5 DEF StepsOf
      <4> QED  BY <1>0, <3>1, <3>5, <4>1, CopyQuiet
    <3> QED  BY <3>3, <3>4, <3>5
  <2>2. CASE AddHostEntry(r) \/ AddGuestEntry(r)
      BY <1>0, <2>2, CopyAdd
  <2>3. CASE MoveHostEntry(r) \/ MoveGuestEntry(r)
      BY <1>0, <2>3, CopyMove
  <2>4. CASE DropHostEntry(r) \/ DropGuestEntry(r)
      BY <1>0, <2>4, CopyDrop
  <2>5. CASE WriteAccepted(r)
      BY <1>0, <2>5, CopyAccepted
  <2> QED  BY <1>0, <1>3, <2>1, <2>2, <2>3, <2>4, <2>5, CopyLast DEF Continue
<1>4. ASSUME NEW r \in Requests, Die(r) PROVE CopyInv'
    BY <1>0, <1>4, CopyQuiet DEF Die
<1>5. ASSUME NEW e \in entries, DeleteOwnEntry(e) PROVE CopyInv'
    BY <1>0, <1>5, CopyDelete
<1> QED  BY <1>1, <1>2, <1>3, <1>4, <1>5 DEF Next

LEMMA CopyInit == Init => CopyInv
<1> SUFFICES ASSUME Init PROVE CopyInv
    OBVIOUS
<1>1. InFlight = {} /\ entries = {}
    BY DEF Init, InFlight, At, Idle
<1>2. \A u \in Users, b \in Bookings :
         /\ CopyIds(u, b) = {} /\ Accepts(b) = {} /\ Waiting(u, b) = {}
         /\ \A slot \in Slots : StrayIds(u, b, slot) = {}
    BY <1>1 DEF CopyIds, Accepts, Waiting, StrayIds, Of
<1>3. AtMost({}, {})
    BY AtMostRequests
<1> QED  BY <1>2, <1>3 DEF CopyInv

(* However often a booking is accepted at once, retried after a handler     *)
(* died, moved or deleted, it is on a calendar no more often than requests  *)
(* on it are interleaved: once when they come one at a time.                *)
THEOREM DancecardCopiesBound == Spec => []CopiesBound
<1>1. OwnInv /\ CopyInv => CopiesBound
  <2> SUFFICES ASSUME OwnInv, CopyInv, NEW b \in Bookings, NEW u \in Users
               PROVE  Cardinality({e \in entries : e.of = b /\ e.user = u}) <= AtATime
      BY DEF CopiesBound
  <2> DEFINE E == {e \in entries : e.of = b /\ e.user = u}
             I == CopyIds(u, b)
             f == [i \in I |-> CHOOSE e \in E : e.id = i]
  <2>1. \A e \in E : e.id \in I /\ f[e.id] = e
    <3>1. \A e \in E : e.id \in I
        BY DEF CopyIds, Of
    <3>2. \A d, e \in E : d.id = e.id => d = e
        BY DEF OwnInv, TypeOK
    <3> QED  BY <3>1, <3>2
  <2>2. \A i \in I : f[i] \in E
    <3>1. \A i \in I : \E e \in E : e.id = i
        BY DEF CopyIds, Of
    <3> QED  BY <3>1
  <2>3. f \in Surjection(I, E)
    <3>1. f \in [I -> E]
        BY <2>2
    <3> HIDE DEF f, E, I
    <3> QED  BY <2>1, <3>1 DEF Surjection
  <2>4. AtMost(I, Waiting(u, b))
      BY DEF CopyInv
  <2> HIDE DEF f, E, I
  <2>5. IsFiniteSet(E) /\ Cardinality(E) <= Cardinality(I)
      BY <2>3, <2>4, FS_Surjection DEF AtMost
  <2>6. /\ Cardinality(E) \in Nat /\ Cardinality(I) \in Nat
        /\ Cardinality(Waiting(u, b)) \in Nat
      BY <2>4, <2>5, FS_CardinalityType DEF AtMost
  <2>7. AtATime \in Nat
      BY FS_CardinalityType DEF AtATime
  <2>8. Cardinality(E) <= AtATime
      BY <2>4, <2>5, <2>6, <2>7 DEF AtMost
  <2> QED  BY <2>8 DEF E
<1> QED  BY <1>1, OwnInit, LifeInit, CopyInit, OwnStep, LifeStep, CopyStep, PTL DEF Spec
=============================================================================
