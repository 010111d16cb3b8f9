------------------------- MODULE MCVendorPublishing -------------------------
(* Instances of VendorPublishing for TLC.                                   *)
EXTENDS VendorPublishing

CONSTANTS draft, final, r1, r2
TwoContents == {draft, final}
TwoRequests == {r1, r2}
BothRegimes == {"anything", "queued"}

\* The second request only withdraws, and only in queued behaviours.
SecondWithdraws ==
    \/ exec'[r2] = exec[r2]
    \/ Queued /\ exec'[r2].pc \in {"idle"} \cup WithdrawSteps

MCSpec == Init /\ [][Next /\ SecondWithdraws]_vars /\ Fairness
=============================================================================
