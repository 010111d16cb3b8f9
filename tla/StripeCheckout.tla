--------------------------- MODULE StripeCheckout ---------------------------
(***************************************************************************)
(* Ticket checkout and its webhooks: routes/stripe-checkout-routes.ts,     *)
(* routes/stripe-webhooks.ts and lib/stripe-paid-access.ts.                *)
(*                                                                         *)
(* A checkout handler creates a session at Stripe, records it, and only    *)
(* then hands the buyer its URL.  When the buyer completes it, Stripe      *)
(* delivers a checkout.session.completed event until it gets a 2xx answer. *)
(* The webhook claims the event id (a unique index), fulfils the session   *)
(* query by query, and gives the claim back if a query throws.             *)
(*                                                                         *)
(* Stripe itself is external: its sessions and what it will still deliver. *)
(* Convention tickets are modelled; the account check of the webhook, the  *)
(* other kinds of session and the subscription events are not.             *)
(***************************************************************************)
EXTENDS Naturals, FiniteSets

CONSTANTS
    Sessions,     \* Checkout sessions; each has one completed event, named by it
    Tickets,      \* (convention, user) pairs, the key of convention_access_grants
    TicketOf,     \* what each session pays for
    Workers,      \* webhook requests the API serves at the same time
    MaxFaults,    \* how many queries throw (bounds retries)
    ClaimFaults,  \* whether the claiming insert is among the queries that throw
    Crashes,      \* whether a webhook request may vanish between two queries
    EarlyRetry,   \* whether Stripe redelivers while a delivery is being handled
    Edited,       \* tickets whose access row an organizer edits by hand
    NoSession

ASSUME StripeAssumption ==
    /\ TicketOf \in [Sessions -> Tickets]
    /\ NoSession \notin Sessions
    /\ IsFiniteSet(Workers)
    /\ MaxFaults \in Nat
    /\ Edited \subseteq Tickets
    /\ {ClaimFaults, Crashes, EarlyRetry} \subseteq BOOLEAN

VARIABLES
    stripe,   \* each session at Stripe (external)
    due,      \* each session's completed event at Stripe (external)
    session,  \* stripe_checkout_sessions.status
    claims,   \* stripe_webhook_events: claimed event ids
    grant,    \* convention_access_grants: no row, or its paidConfirmed
    worker,   \* the webhook requests being handled
    edit,     \* the access row as an organizer's request has read it, or "idle"
    faults    \* queries that have thrown so far

vars == <<stripe, due, session, claims, grant, worker, edit, faults>>

Idle == [pc |-> "idle", s |-> NoSession, seen |-> FALSE]
Steps == {"idle", "lookup", "complete", "select", "write", "reply", "release"}

TypeOK ==
    /\ stripe \in [Sessions -> {"none", "created", "open", "delayed", "paid"}]
    /\ due \in [Sessions -> {"none", "due", "acked"}]
    /\ session \in [Sessions -> {"none", "open", "complete"}]
    /\ claims \in SUBSET Sessions
    /\ grant \in [Tickets -> {"none", "unpaid", "paid"}]
    /\ worker \in [Workers -> [pc : Steps, s : Sessions \cup {NoSession}, seen : BOOLEAN]]
    /\ \A w \in Workers : worker[w].pc # "idle" => worker[w].s \in Sessions
    /\ edit \in [Tickets -> {"idle", "none", "unpaid", "paid"}]
    /\ faults \in Nat

\* Some tickets have an access row already, from an organizer or an invite.
Init ==
    /\ stripe = [s \in Sessions |-> "none"]
    /\ due = [s \in Sessions |-> "none"]
    /\ session = [s \in Sessions |-> "none"]
    /\ claims = {}
    /\ grant \in [Tickets -> {"none", "unpaid"}]
    /\ worker = [w \in Workers |-> Idle]
    /\ edit = [t \in Tickets |-> "idle"]
    /\ faults = 0

-----------------------------------------------------------------------------
(* Checkout: POST .../checkout, and the buyer at Stripe.                   *)

CreateSession(s) ==
    /\ stripe[s] = "none"
    /\ stripe' = [stripe EXCEPT ![s] = "created"]
    /\ UNCHANGED <<due, session, claims, grant, worker, edit, faults>>

RecordSession(s) ==
    /\ stripe[s] = "created" /\ session[s] = "none"
    /\ session' = [session EXCEPT ![s] = "open"]
    /\ UNCHANGED <<stripe, due, claims, grant, worker, edit, faults>>

\* Mutant: the URL is handed out before the session is recorded.
ReturnUrlEarly(s) ==
    /\ stripe[s] = "created"
    /\ stripe' = [stripe EXCEPT ![s] = "open"]
    /\ UNCHANGED <<due, session, claims, grant, worker, edit, faults>>

ReturnUrl(s) ==
    /\ stripe[s] = "created" /\ session[s] = "open"
    /\ stripe' = [stripe EXCEPT ![s] = "open"]
    /\ UNCHANGED <<due, session, claims, grant, worker, edit, faults>>

\* External.  The session completes; the money may still be on its way.
CompleteCheckout(s) ==
    /\ stripe[s] = "open"
    /\ \E outcome \in {"paid", "delayed"} : stripe' = [stripe EXCEPT ![s] = outcome]
    /\ due' = [due EXCEPT ![s] = "due"]
    /\ UNCHANGED <<session, claims, grant, worker, edit, faults>>

-----------------------------------------------------------------------------
(* POST /api/v1/webhooks/stripe.                                           *)

Handling(s) == {w \in Workers : worker[w].pc # "idle" /\ worker[w].s = s}

At(w, pc) == worker[w].pc = pc
Goto(w, pc) == worker' = [worker EXCEPT ![w].pc = pc]

\* Stripe posts the event to an idle worker.
Delivered(w, s) ==
    /\ due[s] = "due"
    /\ At(w, "idle")
    /\ EarlyRetry \/ Handling(s) = {}

\* Mutant: the event id is recorded without looking at the unique index.
ClaimAlways(w, s) ==
    /\ Delivered(w, s)
    /\ claims' = claims \cup {s}
    /\ worker' = [worker EXCEPT ![w] = [Idle EXCEPT !.pc = "lookup", !.s = s]]
    /\ UNCHANGED <<stripe, due, session, grant, edit, faults>>

Claim(w, s) ==
    /\ Delivered(w, s)
    /\ s \notin claims
    /\ claims' = claims \cup {s}
    /\ worker' = [worker EXCEPT ![w] = [Idle EXCEPT !.pc = "lookup", !.s = s]]
    /\ UNCHANGED <<stripe, due, session, grant, edit, faults>>

\* The insert throws: on the unique index, or on any other error, which is
\* answered as a duplicate all the same.
AnswerDuplicate(w, s) ==
    /\ Delivered(w, s)
    /\ \/ s \in claims /\ UNCHANGED faults
       \/ ClaimFaults /\ faults < MaxFaults /\ faults' = faults + 1
    /\ due' = [due EXCEPT ![s] = "acked"]
    /\ UNCHANGED <<stripe, session, claims, grant, worker, edit>>

\* Mutant: an unpaid session is fulfilled too.
LookupUnpaid(w) ==
    /\ At(w, "lookup")
    /\ Goto(w, IF session[worker[w].s] = "none" THEN "reply" ELSE "complete")
    /\ UNCHANGED <<stripe, due, session, claims, grant, edit, faults>>

\* checkoutSessionIsPaid, and the platform's row for the session.
Lookup(w) ==
    /\ At(w, "lookup")
    /\ LET s == worker[w].s IN
       Goto(w, IF stripe[s] # "paid" \/ session[s] = "none" THEN "reply" ELSE "complete")
    /\ UNCHANGED <<stripe, due, session, claims, grant, edit, faults>>

\* Mutant: Stripe's word for it is stored.
MarkPaid(w) ==
    /\ At(w, "complete")
    /\ session' = [session EXCEPT ![worker[w].s] = "paid"]
    /\ Goto(w, "select")
    /\ UNCHANGED <<stripe, due, claims, grant, edit, faults>>

MarkComplete(w) ==
    /\ At(w, "complete")
    /\ session' = [session EXCEPT ![worker[w].s] = "complete"]
    /\ Goto(w, "select")
    /\ UNCHANGED <<stripe, due, claims, grant, edit, faults>>

TicketFor(w) == TicketOf[worker[w].s]

SelectGrant(w) ==
    /\ At(w, "select")
    /\ worker' = [worker EXCEPT ![w].pc = "write", ![w].seen = grant[TicketFor(w)] # "none"]
    /\ UNCHANGED <<stripe, due, session, claims, grant, edit, faults>>

\* Update the row that was seen, or insert one; the insert throws when another
\* session's webhook has inserted it meanwhile.
WriteGrant(w) ==
    /\ At(w, "write")
    /\ IF worker[w].seen \/ grant[TicketFor(w)] = "none"
       THEN /\ grant' = [grant EXCEPT ![TicketFor(w)] = "paid"]
            /\ Goto(w, "reply")
       ELSE Goto(w, "release") /\ UNCHANGED grant
    /\ UNCHANGED <<stripe, due, session, claims, edit, faults>>

\* A query of the handler throws (an unpaid session is dropped before any).
Throw(w) ==
    /\ worker[w].pc \in {"lookup", "complete", "select", "write"}
    /\ stripe[worker[w].s] = "paid"
    /\ faults < MaxFaults
    /\ faults' = faults + 1
    /\ Goto(w, "release")
    /\ UNCHANGED <<stripe, due, session, claims, grant, edit>>

\* Mutant: the failed handler keeps the claim.
ReleaseNothing(w) ==
    /\ At(w, "release")
    /\ worker' = [worker EXCEPT ![w] = Idle]
    /\ UNCHANGED <<stripe, due, session, claims, grant, edit, faults>>

\* releaseWebhookEventClaim, then a 500: Stripe keeps the event due.
Release(w) ==
    /\ At(w, "release")
    /\ claims' = claims \ {worker[w].s}
    /\ worker' = [worker EXCEPT ![w] = Idle]
    /\ UNCHANGED <<stripe, due, session, grant, edit, faults>>

\* A 2xx answer: Stripe will not deliver the event again.
Reply(w) ==
    /\ At(w, "reply")
    /\ due' = [due EXCEPT ![worker[w].s] = "acked"]
    /\ worker' = [worker EXCEPT ![w] = Idle]
    /\ UNCHANGED <<stripe, session, claims, grant, edit, faults>>

\* The process dies, or the release itself throws.
Crash(w) ==
    /\ Crashes
    /\ worker[w].pc # "idle"
    /\ worker' = [worker EXCEPT ![w] = Idle]
    /\ UNCHANGED <<stripe, due, session, claims, grant, edit, faults>>

-----------------------------------------------------------------------------
(* PUT /api/v1/conventions/:key/access/:userId, for a body that leaves      *)
(* paidConfirmed out: the row is read, and its paidConfirmed written back.  *)

EditRead(t) ==
    /\ t \in Edited
    /\ edit[t] = "idle"
    /\ edit' = [edit EXCEPT ![t] = grant[t]]
    /\ UNCHANGED <<stripe, due, session, claims, grant, worker, faults>>

\* Mutant: a row created by hand counts as paid.
EditWritePaid(t) ==
    /\ edit[t] # "idle"
    /\ grant' = [grant EXCEPT ![t] = IF edit[t] = "none" THEN "paid" ELSE edit[t]]
    /\ edit' = [edit EXCEPT ![t] = "idle"]
    /\ UNCHANGED <<stripe, due, session, claims, worker, faults>>

\* With no row read, the insert fails if one is there by now.
EditWrite(t) ==
    /\ edit[t] # "idle"
    /\ \/ edit[t] # "none" /\ grant' = [grant EXCEPT ![t] = edit[t]]
       \/ edit[t] = "none" /\ grant[t] = "none" /\ grant' = [grant EXCEPT ![t] = "unpaid"]
       \/ edit[t] = "none" /\ grant[t] # "none" /\ UNCHANGED grant
    /\ edit' = [edit EXCEPT ![t] = "idle"]
    /\ UNCHANGED <<stripe, due, session, claims, worker, faults>>

-----------------------------------------------------------------------------
CheckoutStep(s) ==
    CreateSession(s) \/ RecordSession(s) \/ ReturnUrl(s) \/ CompleteCheckout(s)

Deliver(s) == \E w \in Workers : Claim(w, s) \/ AnswerDuplicate(w, s)

HandlerStep(w) ==
    \/ Lookup(w) \/ MarkComplete(w) \/ SelectGrant(w) \/ WriteGrant(w)
    \/ Release(w) \/ Reply(w)

Next ==
    \/ \E s \in Sessions : CheckoutStep(s) \/ Deliver(s)
    \/ \E w \in Workers : HandlerStep(w) \/ Throw(w) \/ Crash(w)
    \/ \E t \in Tickets : EditRead(t) \/ EditWrite(t)

Spec == Init /\ [][Next]_vars

\* Stripe redelivers what is due for days, and a handler that runs keeps
\* running.  Buyers and faults owe nothing.
Fairness ==
    /\ \A s \in Sessions : WF_vars(Deliver(s))
    /\ \A w \in Workers : WF_vars(HandlerStep(w))

FairSpec == Spec /\ Fairness

-----------------------------------------------------------------------------
(* Properties.                                                             *)

(* Access is paid only if Stripe took money for it, through any number of  *)
(* duplicate, early or failed deliveries: checkoutSessionIsPaid guards     *)
(* every path to setConventionPaidConfirmed.                               *)
PaidOnlyIfCharged ==
    \A t \in Tickets :
        grant[t] = "paid" => \E s \in Sessions : TicketOf[s] = t /\ stripe[s] = "paid"

(* A session is marked complete only once it is paid.                      *)
CompleteOnlyIfCharged ==
    \A s \in Sessions : session[s] = "complete" => stripe[s] = "paid"

(* The claim is a lock: two deliveries of an event are never fulfilled at  *)
(* the same time, even when Stripe retries early and handlers fail and     *)
(* give the claim back (claimWebhookEvent, releaseWebhookEventClaim).      *)
OneFulfilmentPerEvent ==
    \A s \in Sessions : Cardinality(Handling(s)) <= 1

(* No buyer pays a session the platform has no row for, so the webhook's   *)
(* silent return on a missing row never drops a payment.                   *)
ChargedIsOnRecord ==
    \A s \in Sessions : stripe[s] \in {"delayed", "paid"} => session[s] # "none"

(* When Stripe has been told to stop delivering the event of a paid        *)
(* session, the access is there.                                           *)
AckMeansGranted ==
    \A s \in Sessions :
        due[s] = "acked" /\ stripe[s] = "paid" => grant[TicketOf[s]] = "paid"

(* Without crashes and early retries, checkout keeps its promise, and keeps *)
(* it in the end: failed handlers release, and Stripe's retries fulfil.     *)
Abstract == INSTANCE PaidTickets WITH
    paid    <- {s \in Sessions : stripe[s] = "paid"},
    granted <- {t \in Tickets : grant[t] = "paid"}
KeepsPromise == Abstract!Spec
=============================================================================
