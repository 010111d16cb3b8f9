------------------------- MODULE MCDancecardBooking -------------------------
(* Instances of DancecardBooking for TLC: Ann hosts Bea.                    *)
EXTENDS DancecardBooking, TLC

CONSTANTS ann, bea, b1, b2, b3, r1, r2

AnnHosts == [b \in Bookings |-> ann]
BeaAsks  == [b \in Bookings |-> bea]

T(from, to) == [from |-> from, to |-> to]

\* Ann's commitment ends as the convention begins.
Evening       == T(1, 5)
BackToBack    == {T(1, 3), T(3, 5)}
AnnIsBusy     == {ann :> {T(0, 1)} @@ bea :> {}}

\* One booking, whatever happens to it, or with its requests one at a time; or
\* several, each with its requests one at a time and nothing going wrong, so
\* that their entries are at most two each.
OneBooking(deletions, max) ==
    {[bookings |-> {b}, deletions |-> deletions, onePerBooking |-> FALSE,
      failures |-> TRUE, maxEntries |-> max] : b \in Bookings}
AllBookings ==
    [bookings |-> Bookings, deletions |-> FALSE, onePerBooking |-> TRUE,
     failures |-> FALSE, maxEntries |-> 6]
InTurn(failures) ==
    {[bookings |-> {b}, deletions |-> TRUE, onePerBooking |-> TRUE,
      failures |-> failures, maxEntries |-> 3] : b \in Bookings}
OneOrThree ==
    OneBooking(TRUE, 2) \cup OneBooking(FALSE, 3) \cup InTurn(TRUE) \cup InTurn(FALSE)
    \cup {AllBookings}

AnnRecovers   == ann :> 1 @@ bea :> 0

SameBookings == {p @@ q : p \in Permutations({r1, r2}), q \in Permutations({b1, b2, b3})}
=============================================================================
