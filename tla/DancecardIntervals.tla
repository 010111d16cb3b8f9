------------------------- MODULE DancecardIntervals -------------------------
(***************************************************************************)
(* Stretches of time on a dancecard (lib/dancecard-intervals.ts) and what  *)
(* the two calendar checks of lib/convention-dancecard-calendar.ts decide, *)
(* said of the set of things on a calendar.  DancecardGaps says how the    *)
(* code computes it.  Time is in minutes.                                  *)
(***************************************************************************)
EXTENDS Naturals

\* Nothing makes the end of a manual entry come after its start.
Interval == [from : Nat, to : Nat]

Overlap(i, j) == i.from < j.to /\ i.to > j.from

\* With the owner's time to recover after it.
Trailing(i, buffer) == [i EXCEPT !.to = @ + buffer]

Later(s, t) == IF s < t THEN t ELSE s
Earlier(s, t) == IF s < t THEN s ELSE t

Clipped(i, win) == [from |-> Later(i.from, win.from), to |-> Earlier(i.to, win.to)]
NonEmpty(i) == i.from < i.to

Within(i, j) == j.from <= i.from /\ i.to <= j.to

\* Mutant: nothing on the calendar is in the way.
NothingInTheWay(slot, I, buffer) == NonEmpty(slot)

ClearOf(slot, I, buffer) == \A i \in I : ~Overlap(slot, Trailing(i, buffer))

\* The guest is free when nothing of theirs is in the way.
GuestFree(slot, busy, buffer) == ClearOf(slot, busy, buffer)

\* Mutant: only the convention's window counts.
AnyTimeInWindow(slot, busy, buffer, win) == Within(slot, win)

\* The host offers what is left of the convention's window win: what is busy
\* outside the window does not count, nor does the recovery from it.
HostFree(slot, busy, buffer, win) ==
    /\ Within(slot, win)
    /\ ClearOf(slot, {i \in {Clipped(j, win) : j \in busy} : NonEmpty(i)}, buffer)
=============================================================================
