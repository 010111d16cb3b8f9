--------------------------- MODULE DancecardGaps ----------------------------
(***************************************************************************)
(* How the code decides whether somebody is free: it merges what is on the *)
(* calendar into busy blocks and inverts those into free gaps.  The module *)
(* puts every short calendar together, one item at a time, and compares    *)
(* the algorithms with what they are to compute.                           *)
(***************************************************************************)
EXTENDS DancecardIntervals, SequencesExt

CONSTANTS
    Items,     \* what may be put on the calendar
    Proposals, \* the times somebody may ask for
    Window,    \* from when to when the convention lasts
    Buffers,   \* recovery times
    MinGaps,   \* the shortest gap that is shown
    MaxItems   \* items on a calendar

ASSUME GapsAssumption ==
    /\ Items \subseteq Interval /\ Proposals \subseteq {i \in Interval : NonEmpty(i)}
    /\ Window \in Interval /\ NonEmpty(Window)
    /\ Buffers \subseteq Nat /\ MinGaps \subseteq Nat \ {0} /\ MaxItems \in Nat

VARIABLE calendar \* the items in the order the queries return them

Init == calendar = <<>>

Add(i) == Len(calendar) < MaxItems /\ calendar' = Append(calendar, i)

Next == \E i \in Items : Add(i)

Spec == Init /\ [][Next]_calendar

-----------------------------------------------------------------------------
(* The algorithms.                                                         *)

\* An item that is not empty once it is clipped is kept.
Keep(kept, i) ==
    IF NonEmpty(Clipped(i, Window)) THEN Append(kept, Clipped(i, Window)) ELSE kept

ClippedToWindow(s) == FoldLeft(Keep, <<>>, s)

Expanded(s, buffer) == [k \in DOMAIN s |-> Trailing(s[k], buffer)]

\* Mutant: a block ends where its last item does.
AbsorbLast(blocks, i) ==
    IF blocks = <<>> \/ i.from > Last(blocks).to
    THEN Append(blocks, i)
    ELSE [blocks EXCEPT ![Len(blocks)].to = i.to]

\* An item that starts within the current block extends it.
Absorb(blocks, i) ==
    IF blocks = <<>> \/ i.from > Last(blocks).to
    THEN Append(blocks, i)
    ELSE [blocks EXCEPT ![Len(blocks)].to = Later(@, i.to)]

\* After the last item that starts no later: the sort is stable.
Insert(sorted, i) ==
    InsertAt(sorted, Max({0} \cup {k \in DOMAIN sorted : sorted[k].from <= i.from}) + 1, i)

Sorted(s) == FoldLeft(Insert, <<>>, s)

Merged(s) == FoldLeft(Absorb, <<>>, Sorted(s))

WithGap(gaps, from, to, minGap) ==
    IF from + minGap <= to THEN Append(gaps, [from |-> from, to |-> to]) ELSE gaps

\* The gap before the next busy block b, if time is left; cursor is where the
\* time dealt with ends.
Pass(done, b, minGap) ==
    IF done.cursor >= Window.to THEN done
    ELSE [gaps   |-> IF b.from > done.cursor
                     THEN WithGap(done.gaps, done.cursor, Earlier(b.from, Window.to), minGap)
                     ELSE done.gaps,
          cursor |-> Later(done.cursor, b.to)]

\* The gaps before, between and after the busy blocks.
Inverted(blocks, minGap) ==
    LET done == FoldLeft(LAMBDA d, b : Pass(d, b, minGap),
                         [gaps |-> <<>>, cursor |-> Window.from], blocks)
    IN  WithGap(done.gaps, done.cursor, Window.to, minGap)

\* Mutant: the recovery from a commitment before the convention counts.
GapsExpandedFirst(s, buffer, minGap) ==
    Inverted(Merged(ClippedToWindow(Expanded(s, buffer))), minGap)

\* computeFreeGapsForUser
FreeGaps(s, buffer, minGap) ==
    Inverted(Merged(Expanded(ClippedToWindow(s), buffer)), minGap)

\* intervalInsideHostFreeGaps
InsideHostFreeGaps(s, buffer, slot) ==
    \E gap \in Range(FreeGaps(s, buffer, 1)) : Within(slot, gap)

\* guestCalendarConflict
GuestConflicts(s, buffer, slot) ==
    {b \in Range(Merged(Expanded(s, buffer))) : Overlap(slot, b)}

-----------------------------------------------------------------------------
(* Properties.                                                             *)

Busy == Range(calendar)

(* The gaps shown on a shared dancecard are all the free time of its owner *)
(* that is long enough, in order, and none that is not: each is free from  *)
(* end to end and could not start earlier or end later.  (mergeIntervals   *)
(* and invertToFreeGaps, for items that overlap, touch, contain each other *)
(* or end before they start.)                                              *)
GapsAreTheFreeTime ==
    \A buffer \in Buffers, minGap \in MinGaps :
        LET gaps == FreeGaps(calendar, buffer, minGap)
            Free(g) == NonEmpty(g) /\ HostFree(g, Busy, buffer, Window)
            free == {g \in [from : Window.from..Window.to, to : Window.from..Window.to] : Free(g)}
            longest == {g \in free : \A h \in free : Within(g, h) => g = h}
        IN  /\ Range(gaps) = {g \in longest : g.from + minGap <= g.to}
            /\ \A k, l \in DOMAIN gaps : k < l => gaps[k].to < gaps[l].from

(* A time fits into one of the host's gaps exactly when it is within the   *)
(* convention and clear of everything the host has then; it meets none of  *)
(* the guest's busy blocks exactly when it is clear of every item of the   *)
(* guest's: merging hides no conflict and makes none up, clipped or not.   *)
(* (intervalInsideHostFreeGaps and guestCalendarConflict, the checks       *)
(* before every booking write.)                                            *)
ChecksAreExact ==
    \A buffer \in Buffers, slot \in Proposals :
        /\ InsideHostFreeGaps(calendar, buffer, slot) <=> HostFree(slot, Busy, buffer, Window)
        /\ GuestConflicts(calendar, buffer, slot) = {} <=> GuestFree(slot, Busy, buffer)
=============================================================================
