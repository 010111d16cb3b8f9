--------------------------- MODULE VolunteerShift ---------------------------
(***************************************************************************)
(* A volunteer shift of a convention: attendees claim it while it is open  *)
(* (routes/convention-attendee-routes.ts), or sign up for it beside that   *)
(* (routes/conventions-routes.ts), and organizers open, close and assign   *)
(* it (routes/convention-organizer-routes.ts).                             *)
(*                                                                         *)
(* The reads of a handler are one step: between the count, after which     *)
(* only refusals can follow, and the write the others may do anything.  A  *)
(* shift that is deleted takes its sign-ups with it, and is left out; so   *)
(* are shifts without a capacity, which take everybody, and the requests   *)
(* to swap, which change no shift.                                         *)
(***************************************************************************)
EXTENDS Handlers

CONSTANTS
    Attendees,
    Nobody,
    Capacity

ASSUME ShiftAssumption == Nobody \notin Attendees /\ Capacity \in Nat \ {0}

VARIABLES
    shift,   \* the row of convention_volunteer_shifts
    signups  \* who has a row of convention_volunteer_shift_signups

shiftVars == <<shift, signups>>

Somebody == Attendees \cup {Nobody}

\* A draft, assigned or dropped shift is "closed" to claims.
Shift == [status : {"open", "closed"}, person : Somebody, claimed : Somebody]

ShiftDoing == [pc : {"claim", "signup"}, user : Attendees]

ShiftTypeOK ==
    /\ shift \in Shift
    /\ signups \subseteq Attendees
    /\ req \in [Requests -> ShiftDoing \cup {Idle}]

ShiftInit ==
    /\ HandlersInit
    /\ \E p \in Somebody, s \in {"open", "closed"} :
          shift = [status |-> s, person |-> p, claimed |-> Nobody]
    /\ signups = {}

-----------------------------------------------------------------------------
NotFull == Cardinality(signups) < Capacity

BeginForAttendee(r, pc, u) ==
    /\ At(r, "idle")
    /\ Become(r, [pc |-> pc, user |-> u])
    /\ UNCHANGED shiftVars

\* POST .../claim
ClaimShift(r, u) ==
    /\ shift.status = "open" /\ shift.claimed = Nobody /\ shift.person = Nobody
    /\ NotFull /\ u \notin signups
    /\ BeginForAttendee(r, "claim", u)

\* The update repeats the check of status and claim, but not of the person.
ClaimUnclaimed(r) ==
    /\ At(r, "claim")
    /\ shift.status = "open" /\ shift.claimed = Nobody
    /\ shift' = [status |-> "closed", person |-> req[r].user, claimed |-> req[r].user]
    /\ Goto(r, "signup")
    /\ UNCHANGED signups

ClaimTaken(r) ==
    /\ At(r, "claim")
    /\ ~(shift.status = "open" /\ shift.claimed = Nobody)
    /\ Finish(r)
    /\ UNCHANGED shiftVars

\* Mutant: one too many.
SignUpOverfull(r, u) ==
    /\ Cardinality(signups) <= Capacity
    /\ BeginForAttendee(r, "signup", u)

\* POST .../signup, whoever works the shift.
SignUp(r, u) == NotFull /\ BeginForAttendee(r, "signup", u)

\* Mutant: not beyond the capacity.
InsertIfRoom(r) ==
    /\ At(r, "signup")
    /\ signups' = IF NotFull THEN signups \cup {req[r].user} ELSE signups
    /\ Finish(r)
    /\ UNCHANGED shift

\* A second row of one attendee is skipped.
InsertSignup(r) ==
    /\ At(r, "signup")
    /\ signups' = signups \cup {req[r].user}
    /\ Finish(r)
    /\ UNCHANGED shift

\* PATCH .../staff-shifts: either field, by id, whatever the row says.
Assign ==
    /\ \E s \in {"open", "closed", shift.status}, p \in Attendees \cup {shift.person} :
          shift' = [shift EXCEPT !.status = s, !.person = p]
    /\ UNCHANGED <<signups, req>>

\* In orderly behaviours no request dies.
CutOffShift(r) ==
    /\ ~At(r, "idle") /\ ~orderly
    /\ Finish(r)
    /\ UNCHANGED shiftVars

ShiftStep(r) ==
    \/ \E u \in Attendees : ClaimShift(r, u) \/ SignUp(r, u)
    \/ ClaimUnclaimed(r) \/ ClaimTaken(r) \/ InsertSignup(r) \/ CutOffShift(r)

ShiftNext == ((\E r \in Requests : ShiftStep(r)) \/ Assign) /\ UNCHANGED orderly

ShiftSpec == ShiftInit /\ [][ShiftNext]_<<shift, signups, req, orderly>>

-----------------------------------------------------------------------------
(* Properties.                                                             *)

(* The sign-ups exceed the capacity by less than the requests that run     *)
(* side by side, whichever of the two endpoints they come by.  (The count  *)
(* before the insert in both.)                                             *)
SignupsBound == Cardinality(signups) < Capacity + Cardinality(Requests)

(* Unless the request died, whoever claimed the shift is signed up for it  *)
(* once everything is at rest, even where that makes one more than it      *)
(* takes.  (The insert after the claim, which nothing may refuse.)         *)
ClaimIsSignedUp ==
    orderly /\ AtSome({"claim", "signup"}) = {} =>
        shift.claimed = Nobody \/ shift.claimed \in signups
=============================================================================
