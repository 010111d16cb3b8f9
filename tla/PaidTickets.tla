----------------------------- MODULE PaidTickets -----------------------------
(* What checkout promises, whatever the deliveries, retries and failures    *)
(* behind it: access is granted for payments only, is not taken back, and   *)
(* every payment is granted in the end (docs/adr/006-stripe-connect-per-org *)
(* item 8: checkout.session.completed -> paidConfirmed).                    *)
CONSTANTS Sessions,   \* Stripe Checkout sessions
          Tickets,    \* what they pay for: one user's access to one convention
          TicketOf    \* the ticket each session pays for

VARIABLES paid,       \* sessions whose buyer has been charged
          granted     \* tickets marked paidConfirmed

Init == paid = {} /\ granted = {}

Pay(s) == paid' = paid \cup {s} /\ UNCHANGED granted

Grant(t) ==
    /\ \E s \in paid : TicketOf[s] = t
    /\ t \notin granted
    /\ granted' = granted \cup {t}
    /\ UNCHANGED paid

Next == (\E s \in Sessions : Pay(s)) \/ (\E t \in Tickets : Grant(t))

Safety == Init /\ [][Next]_<<paid, granted>>
Spec == Safety /\ \A t \in Tickets : WF_<<paid, granted>>(Grant(t))
=============================================================================
