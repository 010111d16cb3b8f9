----------------------------- MODULE MCEventRsvp -----------------------------
(* Instances of EventRsvp for TLC.                                          *)
EXTENDS EventRsvp, TLC

CONSTANTS u1, u2, u3, t1, t2, t3

OneTabEach == t1 :> u1 @@ t2 :> u2 @@ t3 :> u3
\* Nothing tells one person with their tab from another.
TabOf == u1 :> t1 @@ u2 :> t2 @@ u3 :> t3
Everyone ==
    {p @@ [t \in {t1, t2, t3} |-> TabOf[p[OneTabEach[t]]]] : p \in Permutations({u1, u2, u3})}

\* u1 has the event open in two tabs.
TwoTabsForU1 == t1 :> u1 @@ t2 :> u1 @@ t3 :> u2

Setting(cap, gated, open) == [cap |-> cap, gated |-> gated, open |-> open]
OpenEvents  == {Setting(1, FALSE, TRUE), Setting(1, FALSE, FALSE)}
OpenSerial  == {Setting(2, FALSE, TRUE), Setting(2, FALSE, FALSE)}
GatedEvents == {Setting(1, TRUE, TRUE)}
=============================================================================
