------------------------ MODULE StripeCheckoutProofs ------------------------
(* Proofs about StripeCheckout, for any number of sessions, tickets,        *)
(* webhook workers and faults.                                              *)
EXTENDS StripeCheckout, FiniteSetTheorems, TLAPS

USE StripeAssumption

(* SelectGrant only moves its worker on, remembering whether a row was seen. *)
LEMMA SelectShape ==
    ASSUME TypeOK, NEW w \in Workers, SelectGrant(w)
    PROVE  /\ At(w, "select") /\ UNCHANGED <<stripe, due, session, claims, grant, edit, faults>>
           /\ \E b \in BOOLEAN :
                 worker' = [worker EXCEPT ![w] = [@ EXCEPT !.pc = "write", !.seen = b]]
<1>1. CASE grant[TicketFor(w)] # "none"
    BY <1>1 DEF SelectGrant
<1>2. CASE grant[TicketFor(w)] = "none"
    BY <1>2 DEF SelectGrant
<1> QED  BY <1>1, <1>2

(* Every variable keeps its type through checkout, delivery, retry, failure *)
(* and manual edits.                                                        *)
LEMMA TypeStep == TypeOK /\ [Next]_vars => TypeOK'
<1> SUFFICES ASSUME TypeOK, [Next]_vars PROVE TypeOK'
    OBVIOUS
<1> USE DEF TypeOK, At, Goto, Idle, Steps, Delivered, TicketFor
<1>1. ASSUME NEW s \in Sessions, CheckoutStep(s) PROVE TypeOK'
    BY <1>1 DEF CheckoutStep, CreateSession, RecordSession, ReturnUrl, CompleteCheckout
<1>2. ASSUME NEW s \in Sessions, NEW w \in Workers, Claim(w, s) PROVE TypeOK'
    BY <1>2 DEF Claim
<1>3. ASSUME NEW s \in Sessions, NEW w \in Workers, AnswerDuplicate(w, s) PROVE TypeOK'
    BY <1>3 DEF AnswerDuplicate
<1>4. ASSUME NEW w \in Workers, Lookup(w) PROVE TypeOK'
    BY <1>4 DEF Lookup
<1>5. ASSUME NEW w \in Workers, MarkComplete(w) PROVE TypeOK'
    BY <1>5 DEF MarkComplete
<1>6. ASSUME NEW w \in Workers, SelectGrant(w) PROVE TypeOK'
  <2>1. At(w, "select") /\ UNCHANGED <<stripe, due, session, claims, grant, edit, faults>>
    BY <1>6, SelectShape
  <2>2. PICK b \in BOOLEAN :
            worker' = [worker EXCEPT ![w] = [@ EXCEPT !.pc = "write", !.seen = b]]
    BY <1>6, SelectShape
  <2> QED  BY <2>1, <2>2
<1>7. ASSUME NEW w \in Workers, WriteGrant(w) PROVE TypeOK'
    BY <1>7 DEF WriteGrant
<1>8. ASSUME NEW w \in Workers, Release(w) PROVE TypeOK'
    BY <1>8 DEF Release
<1>9. ASSUME NEW w \in Workers, Reply(w) PROVE TypeOK'
    BY <1>9 DEF Reply
<1>10. ASSUME NEW w \in Workers, Throw(w) PROVE TypeOK'
    BY <1>10 DEF Throw
<1>11. ASSUME NEW w \in Workers, Crash(w) PROVE TypeOK'
    BY <1>11 DEF Crash
<1>12. ASSUME NEW t \in Tickets, EditRead(t) \/ EditWrite(t) PROVE TypeOK'
    BY <1>12 DEF EditRead, EditWrite
<1>13. CASE UNCHANGED vars
    BY <1>13 DEF vars
<1> QED
    BY <1>1, <1>2, <1>3, <1>4, <1>5, <1>6, <1>7, <1>8, <1>9, <1>10, <1>11, <1>12, <1>13
    DEF Next, Deliver, HandlerStep

(* The variables of checkout always have their types.                       *)
THEOREM TypeCorrect == Spec => []TypeOK
<1>1. Init => TypeOK
    BY DEF Init, TypeOK, Idle, Steps
<1> QED
    BY <1>1, TypeStep, PTL DEF Spec

-----------------------------------------------------------------------------
(* The inductive invariant behind the safety of fulfilment.                 *)

\* A worker that passed the lookup is fulfilling a charged, recorded session.
PastLookup ==
    \A w \in Workers :
        worker[w].pc \in {"complete", "select", "write"} =>
            stripe[worker[w].s] = "paid"

\* The event a worker is handling is claimed, and no other worker handles it.
ClaimHeld ==
    /\ \A w \in Workers : worker[w].pc # "idle" => worker[w].s \in claims
    /\ \A v, w \in Workers :
          worker[v].pc # "idle" /\ worker[w].pc # "idle" /\ worker[v].s = worker[w].s
              => v = w

\* A buyer who has the URL has a session the platform recorded.
UrlIsOnRecord ==
    \A s \in Sessions : stripe[s] \in {"open", "delayed", "paid"} => session[s] # "none"

\* An organizer's request that read a payment read a real one.
EditIsCharged ==
    \A t \in Tickets :
        edit[t] = "paid" => \E s \in Sessions : TicketOf[s] = t /\ stripe[s] = "paid"

IInv ==
    /\ TypeOK
    /\ PastLookup
    /\ ClaimHeld
    /\ UrlIsOnRecord
    /\ EditIsCharged
    /\ PaidOnlyIfCharged
    /\ CompleteOnlyIfCharged

\* Nothing is paid, claimed or handled at the start.
LEMMA InvInit == Init => IInv
    BY DEF Init, IInv, TypeOK, PastLookup, ClaimHeld, UrlIsOnRecord, EditIsCharged, PaidOnlyIfCharged,
           CompleteOnlyIfCharged, Idle, Steps

\* Every step of checkout, delivery, fulfilment and editing keeps the invariant.
LEMMA InvStep == IInv /\ [Next]_vars => IInv'
<1> SUFFICES ASSUME IInv, [Next]_vars PROVE IInv'
    OBVIOUS
<1> USE DEF IInv, TypeOK, PastLookup, ClaimHeld, UrlIsOnRecord, EditIsCharged,
            PaidOnlyIfCharged, CompleteOnlyIfCharged, At, Goto, Idle
<1>0. TypeOK'
    BY TypeStep
<1>1. ASSUME NEW s \in Sessions, CheckoutStep(s) PROVE IInv'
    BY <1>0, <1>1 DEF CheckoutStep, CreateSession, RecordSession, ReturnUrl, CompleteCheckout
<1>2. ASSUME NEW s \in Sessions, NEW w \in Workers, Claim(w, s) PROVE IInv'
    BY <1>0, <1>2 DEF Claim, Delivered, Handling
<1>3. ASSUME NEW s \in Sessions, NEW w \in Workers, AnswerDuplicate(w, s) PROVE IInv'
    BY <1>0, <1>3 DEF AnswerDuplicate
<1>4. ASSUME NEW w \in Workers, Lookup(w) PROVE IInv'
    BY <1>0, <1>4 DEF Lookup
<1>5. ASSUME NEW w \in Workers, MarkComplete(w) PROVE IInv'
    BY <1>0, <1>5 DEF MarkComplete
<1>6. ASSUME NEW w \in Workers, SelectGrant(w) PROVE IInv'
  <2>1. At(w, "select") /\ UNCHANGED <<stripe, due, session, claims, grant, edit, faults>>
    BY <1>6, SelectShape
  <2>2. PICK b \in BOOLEAN :
            worker' = [worker EXCEPT ![w] = [@ EXCEPT !.pc = "write", !.seen = b]]
    BY <1>6, SelectShape
  <2> QED  BY <1>0, <2>1, <2>2
<1>7. ASSUME NEW w \in Workers, WriteGrant(w) PROVE IInv'
  <2>0. /\ worker[w].pc = "write" /\ worker[w].s \in Sessions
        /\ stripe[worker[w].s] = "paid" /\ TicketFor(w) \in Tickets
        /\ UNCHANGED <<stripe, due, session, claims, edit, faults>>
    BY <1>7 DEF WriteGrant, TicketFor
  <2>1. \E pc \in {"reply", "release"} : Goto(w, pc)
    BY <1>7 DEF WriteGrant
  <2>2. grant' \in {grant, [grant EXCEPT ![TicketFor(w)] = "paid"]}
    BY <1>7 DEF WriteGrant
  <2>3. PaidOnlyIfCharged'
    BY <2>0, <2>2 DEF TicketFor
  <2>4. (PastLookup /\ ClaimHeld)'
    BY <2>0, <2>1
  <2> QED  BY <1>0, <2>0, <2>3, <2>4
<1>8. ASSUME NEW w \in Workers, Release(w) PROVE IInv'
    BY <1>0, <1>8 DEF Release
<1>9. ASSUME NEW w \in Workers, Reply(w) PROVE IInv'
    BY <1>0, <1>9 DEF Reply
<1>10. ASSUME NEW w \in Workers, Throw(w) PROVE IInv'
    BY <1>0, <1>10 DEF Throw
<1>11. ASSUME NEW w \in Workers, Crash(w) PROVE IInv'
    BY <1>0, <1>11 DEF Crash
<1>12. ASSUME NEW t \in Tickets, EditRead(t) \/ EditWrite(t) PROVE IInv'
    BY <1>0, <1>12 DEF EditRead, EditWrite
<1>13. CASE UNCHANGED vars
    BY <1>0, <1>13 DEF vars
<1> QED
    BY <1>1, <1>2, <1>3, <1>4, <1>5, <1>6, <1>7, <1>8, <1>9, <1>10, <1>11, <1>12, <1>13
    DEF Next, Deliver, HandlerStep

(* Fulfilment only ever acts on claimed, recorded and charged sessions: the *)
(* inductive invariant holds in every state.                                *)
THEOREM Invariance == Spec => []IInv
    BY InvInit, InvStep, PTL DEF Spec

(* Access is paid only if Stripe took money for it, through any number of   *)
(* duplicate, early, failed and vanished deliveries.                        *)
THEOREM PaidIsCharged == Spec => []PaidOnlyIfCharged
    BY Invariance, PTL DEF IInv

(* A session is marked complete only once it is paid.                       *)
THEOREM CompleteIsCharged == Spec => []CompleteOnlyIfCharged
    BY Invariance, PTL DEF IInv

(* No buyer is charged for a session the platform has no row for.           *)
THEOREM ChargedIsRecorded == Spec => []ChargedIsOnRecord
<1>1. IInv => ChargedIsOnRecord
    BY DEF IInv, UrlIsOnRecord, ChargedIsOnRecord
<1> QED  BY <1>1, Invariance, PTL

(* The claim is a lock: an event is fulfilled by one worker at a time.      *)
THEOREM OneFulfilment == Spec => []OneFulfilmentPerEvent
<1>1. IInv => OneFulfilmentPerEvent
  <2> SUFFICES ASSUME IInv, NEW s \in Sessions
               PROVE  Cardinality(Handling(s)) <= 1
      BY DEF OneFulfilmentPerEvent
  <2>1. \A v, w \in Handling(s) : v = w
      BY DEF IInv, ClaimHeld, Handling
  <2>2. CASE Handling(s) = {}
      BY <2>2, FS_EmptySet
  <2>3. ASSUME NEW w \in Handling(s) PROVE Cardinality(Handling(s)) <= 1
    <3>1. Handling(s) = {w}
        BY <2>1, <2>3
    <3> QED  BY <3>1, FS_Singleton
  <2> QED  BY <2>2, <2>3
<1> QED  BY <1>1, Invariance, PTL

-----------------------------------------------------------------------------
(* What an acknowledgement means, and the abstract promise.                 *)

\* No handler vanishes, no claim fails for another reason, Stripe waits for an
\* answer before it retries, and nobody edits access by hand.
Reliable == ~ClaimFaults /\ ~Crashes /\ ~EarlyRetry /\ Edited = {}

NoEdit == \A t \in Tickets : edit[t] = "idle"

\* A claimed event is in the hands of a worker or has been acknowledged.
ClaimIsLive ==
    \A s \in claims : (\E w \in Workers : worker[w].pc # "idle" /\ worker[w].s = s)
                       \/ due[s] = "acked"

\* Only the event of a completed session is due, and it is while handled.
DueWhileHandled ==
    /\ \A s \in Sessions : due[s] # "none" => stripe[s] \in {"delayed", "paid"}
    /\ \A w \in Workers : worker[w].pc # "idle" => due[worker[w].s] = "due"

\* A worker about to answer 2xx has granted what was paid.
ReplyIsEarned ==
    \A w \in Workers :
        worker[w].pc = "reply" /\ stripe[worker[w].s] = "paid"
            => grant[TicketOf[worker[w].s]] = "paid"

AckInv == IInv /\ NoEdit /\ ClaimIsLive /\ DueWhileHandled /\ ReplyIsEarned /\ AckMeansGranted

\* No event is acknowledged at the start.
LEMMA AckInit == Init => AckInv
    BY InvInit DEF Init, AckInv, NoEdit, ClaimIsLive, DueWhileHandled, ReplyIsEarned,
                   AckMeansGranted, Idle

\* In the reliable regime every step keeps the claim, the event and the answer in line.
LEMMA AckStep == Reliable /\ AckInv /\ [Next]_vars => AckInv'
<1> SUFFICES ASSUME Reliable, AckInv, [Next]_vars PROVE AckInv'
    OBVIOUS
<1> USE DEF AckInv, NoEdit, ClaimIsLive, DueWhileHandled, ReplyIsEarned, AckMeansGranted,
            At, Goto, Idle
<1>0. IInv' /\ TypeOK /\ TypeOK' /\ UrlIsOnRecord /\ ClaimHeld
    BY InvStep DEF IInv
<1>1. ASSUME NEW s \in Sessions, CheckoutStep(s) PROVE AckInv'
    BY <1>0, <1>1 DEF TypeOK, CheckoutStep, CreateSession, RecordSession, ReturnUrl,
                      CompleteCheckout
<1>2. ASSUME NEW s \in Sessions, NEW w \in Workers, Claim(w, s) PROVE AckInv'
    BY <1>0, <1>2 DEF TypeOK, Claim, Delivered
<1>3. ASSUME NEW s \in Sessions, NEW w \in Workers, AnswerDuplicate(w, s) PROVE FALSE
    BY <1>0, <1>3 DEF TypeOK, AnswerDuplicate, Delivered, Handling, Reliable
<1>4. ASSUME NEW w \in Workers, Lookup(w) PROVE AckInv'
    BY <1>0, <1>4 DEF TypeOK, Lookup, UrlIsOnRecord
<1>5. ASSUME NEW w \in Workers, MarkComplete(w) PROVE AckInv'
    BY <1>0, <1>5 DEF TypeOK, MarkComplete
<1>6. ASSUME NEW w \in Workers, SelectGrant(w) PROVE AckInv'
  <2>1. At(w, "select") /\ UNCHANGED <<stripe, due, session, claims, grant, edit, faults>>
    BY <1>0, <1>6, SelectShape
  <2>2. PICK b \in BOOLEAN :
            worker' = [worker EXCEPT ![w] = [@ EXCEPT !.pc = "write", !.seen = b]]
    BY <1>0, <1>6, SelectShape
  <2> QED  BY <1>0, <2>1, <2>2 DEF TypeOK
<1>7. ASSUME NEW w \in Workers, WriteGrant(w) PROVE AckInv'
  <2>0. /\ worker[w].pc = "write" /\ worker[w].s \in Sessions
        /\ TicketOf[worker[w].s] \in Tickets
        /\ UNCHANGED <<stripe, due, session, claims, edit, faults>>
    BY <1>0, <1>7 DEF TypeOK, WriteGrant
  <2>1. CASE grant' = [grant EXCEPT ![TicketOf[worker[w].s]] = "paid"] /\ Goto(w, "reply")
    BY <1>0, <2>0, <2>1 DEF TypeOK
  <2>2. CASE Goto(w, "release") /\ UNCHANGED grant
    BY <1>0, <2>0, <2>2 DEF TypeOK
  <2> QED  BY <1>7, <2>1, <2>2 DEF WriteGrant, TicketFor
<1>8. ASSUME NEW w \in Workers, Release(w) PROVE AckInv'
    BY <1>0, <1>8 DEF TypeOK, Release
<1>9. ASSUME NEW w \in Workers, Reply(w) PROVE AckInv'
    BY <1>0, <1>9 DEF TypeOK, Reply, ClaimHeld
<1>10. ASSUME NEW w \in Workers, Throw(w) PROVE AckInv'
    BY <1>0, <1>10 DEF TypeOK, Throw
<1>11. ASSUME NEW w \in Workers, Crash(w) PROVE FALSE
    BY <1>11 DEF Crash, Reliable
<1>12. ASSUME NEW t \in Tickets, EditRead(t) \/ EditWrite(t) PROVE FALSE
    BY <1>12 DEF EditRead, EditWrite, Reliable
<1>13. CASE UNCHANGED vars
    BY <1>0, <1>13 DEF vars
<1> QED
    BY <1>1, <1>2, <1>3, <1>4, <1>5, <1>6, <1>7, <1>8, <1>9, <1>10, <1>11, <1>12, <1>13
    DEF Next, Deliver, HandlerStep

(* Once Stripe has been told to stop delivering the event of a paid         *)
(* session, the access is there: as long as the API, Stripe and the         *)
(* organizers are Reliable, however many other queries throw.               *)
THEOREM AckedIsGranted == ASSUME Reliable PROVE Spec => []AckMeansGranted
<1>1. AckInv => AckMeansGranted
    BY DEF AckInv
<1>2. AckInv /\ [Next]_vars => AckInv'
    BY AckStep
<1> QED  BY <1>1, <1>2, AckInit, PTL DEF Spec

(* Without manual edits, checkout implements the safety of PaidTickets:     *)
(* access is granted for payments only, and is never taken back; early      *)
(* retries, crashes and failing claims included.                            *)
THEOREM ImplementsPaidTickets == ASSUME Edited = {} PROVE Spec => Abstract!Safety
<1> DEFINE Q == IInv /\ NoEdit
<1> USE DEF Abstract!Next, Abstract!Pay, Abstract!Grant, At, Goto
<1>1. Init => Abstract!Init /\ Q
    BY InvInit DEF Init, NoEdit, Abstract!Init
<1>2. Q /\ [Next]_vars => Q'
  <2> SUFFICES ASSUME Q, [Next]_vars PROVE NoEdit'
      BY InvStep
  <2>1. UNCHANGED edit
      BY DEF vars, Next, CheckoutStep, CreateSession, RecordSession, ReturnUrl,
             CompleteCheckout, Deliver, Claim, AnswerDuplicate, HandlerStep, Lookup,
             MarkComplete, SelectGrant, WriteGrant, Release, Reply, Throw, Crash,
             EditRead, EditWrite, NoEdit
  <2> QED  BY <2>1 DEF NoEdit
<1>3. Q /\ [Next]_vars => [Abstract!Next]_<<{s \in Sessions : stripe[s] = "paid"},
                                           {t \in Tickets : grant[t] = "paid"}>>
  <2> SUFFICES ASSUME Q, [Next]_vars, ~ UNCHANGED <<stripe, grant>>
               PROVE  \/ \E s \in Sessions : Abstract!Pay(s)
                      \/ \E t \in Tickets : Abstract!Grant(t)
                      \/ UNCHANGED <<{s \in Sessions : stripe[s] = "paid"},
                                     {t \in Tickets : grant[t] = "paid"}>>
      OBVIOUS
  <2>0. TypeOK /\ PastLookup
      BY DEF IInv
  <2>1. ASSUME NEW s \in Sessions, CheckoutStep(s) PROVE
               \/ Abstract!Pay(s)
               \/ UNCHANGED <<{x \in Sessions : stripe[x] = "paid"},
                              {t \in Tickets : grant[t] = "paid"}>>
      BY <2>0, <2>1 DEF TypeOK, CheckoutStep, CreateSession, RecordSession, ReturnUrl,
                        CompleteCheckout
  <2>2. ASSUME NEW w \in Workers, WriteGrant(w) PROVE
               \/ Abstract!Grant(TicketOf[worker[w].s])
               \/ UNCHANGED <<{x \in Sessions : stripe[x] = "paid"},
                              {t \in Tickets : grant[t] = "paid"}>>
      BY <2>0, <2>2 DEF TypeOK, PastLookup, WriteGrant, TicketFor
  <2>3. \/ \E s \in Sessions : CheckoutStep(s)
        \/ \E w \in Workers : WriteGrant(w)
      BY DEF Next, Deliver, Claim, AnswerDuplicate, HandlerStep, Lookup,
             MarkComplete, SelectGrant, Release, Reply, Throw, Crash,
             EditRead, EditWrite, NoEdit, vars
  <2>4. \A w \in Workers : WriteGrant(w) => TicketOf[worker[w].s] \in Tickets
      BY <2>0 DEF TypeOK, WriteGrant
  <2> QED  BY <2>1, <2>2, <2>3, <2>4
<1> QED  BY <1>1, <1>2, <1>3, PTL DEF Spec, Abstract!Safety
=============================================================================
