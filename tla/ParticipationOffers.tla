------------------------ MODULE ParticipationOffers -------------------------
(***************************************************************************)
(* Offers to one applicant of a convention, a presenter, a volunteer or a  *)
(* vendor (lib/convention-participation-offers.ts): an organizer drafts an *)
(* offer, which supersedes the earlier ones, and sends it; the applicant   *)
(* accepts or declines.  What became of the offer is also written to the   *)
(* application it answers.                                                 *)
(*                                                                         *)
(* No handler uses a transaction, and each writes by id what it decided    *)
(* from the row it read.  The e-mail is written by a job or, if the queue  *)
(* refuses it, by the request: either reads the offer when it runs, and is *)
(* the last step of sending here.  Organizers who edit the application     *)
(* itself, and requests that die, are left out.                            *)
(***************************************************************************)
EXTENDS Handlers

CONSTANTS
    Offers,    \* rows of convention_participation_offers
    NoOffer

ASSUME OffersAssumption == IsFiniteSet(Offers) /\ NoOffer \notin Offers

VARIABLES
    offer,        \* the status of each
    application,  \* the status of what the offers answer
    mailed,       \* the offers that an e-mail was sent about
    lastSent      \* history: the offer that was sent last

offerVars == <<offer, application, mailed, lastSent>>

Active == {"draft", "sent"}
OfferStatuses == Active \cup {"none", "accepted", "declined", "expired", "superseded"}
ApplicationStatuses == {"pending", "offered", "accepted", "declined"}

OfferDoing ==
    [pc : {"draft"}]
    \cup [pc : {"send", "offered", "mail", "expired", "accepted", "declined"}, offer : Offers]
    \cup [pc : {"respond"}, to : {"accepted", "declined"}]

OffersTypeOK ==
    /\ offer \in [Offers -> OfferStatuses]
    /\ application \in ApplicationStatuses
    /\ mailed \subseteq Offers
    /\ lastSent \in Offers \cup {NoOffer}
    /\ req \in [Requests -> OfferDoing \cup {Idle}]

OffersInit ==
    /\ HandlersInit
    /\ offer = [o \in Offers |-> "none"]
    /\ application = "pending"
    /\ mailed = {}
    /\ lastSent = NoOffer

-----------------------------------------------------------------------------
ActiveOffers == {o \in Offers : offer[o] \in Active}

\* In orderly behaviours one handler runs at a time.
OffersMayStart(r) == At(r, "idle") /\ (orderly => \A q \in Requests : At(q, "idle"))

\* A handler that found the offer in one of the statuses, and goes on at pc.
Handle(r, statuses, pc) ==
    /\ OffersMayStart(r)
    /\ \E o \in Offers :
          /\ offer[o] \in statuses
          /\ Become(r, [pc |-> pc, offer |-> o])
    /\ UNCHANGED offerVars

\* It updates the offer by id.
SetOffer(r, pc, status) ==
    /\ At(r, pc)
    /\ offer' = [offer EXCEPT ![req[r].offer] = status]
    /\ UNCHANGED mailed

-----------------------------------------------------------------------------
(* createParticipationOfferDraft                                           *)

\* Mutant: drafts are left as they are.
SupersedeSent(r) ==
    /\ OffersMayStart(r)
    /\ offer' = [o \in Offers |-> IF offer[o] = "sent" THEN "superseded" ELSE offer[o]]
    /\ Become(r, [pc |-> "draft"])
    /\ UNCHANGED <<application, mailed, lastSent>>

Supersede(r) ==
    /\ OffersMayStart(r)
    /\ offer' = [o \in Offers |-> IF o \in ActiveOffers THEN "superseded" ELSE offer[o]]
    /\ Become(r, [pc |-> "draft"])
    /\ UNCHANGED <<application, mailed, lastSent>>

InsertDraft(r) ==
    /\ At(r, "draft")
    /\ \E o \in Offers : offer[o] = "none" /\ offer' = [offer EXCEPT ![o] = "draft"]
    /\ Finish(r)
    /\ UNCHANGED <<application, mailed, lastSent>>

-----------------------------------------------------------------------------
(* sendParticipationOffer                                                  *)

Send(r) == Handle(r, {"draft"}, "send")

MarkSent(r) ==
    /\ SetOffer(r, "send", "sent")
    /\ lastSent' = req[r].offer
    /\ Goto(r, "offered")
    /\ UNCHANGED application

\* Mutant: the e-mail is forgotten.
MarkOfferedOnly(r) ==
    /\ At(r, "offered")
    /\ application' = "offered"
    /\ Finish(r)
    /\ UNCHANGED <<offer, mailed, lastSent>>

MarkOffered(r) ==
    /\ At(r, "offered")
    /\ application' = "offered"
    /\ Goto(r, "mail")
    /\ UNCHANGED <<offer, mailed, lastSent>>

\* Nothing is mailed about an offer that is not sent, or no longer.
Mail(r) ==
    /\ At(r, "mail")
    /\ mailed' = IF offer[req[r].offer] = "sent" THEN mailed \cup {req[r].offer} ELSE mailed
    /\ Finish(r)
    /\ UNCHANGED <<offer, application, lastSent>>

-----------------------------------------------------------------------------
(* acceptParticipationOffer and declineParticipationOffer                  *)

Accept(r) == Handle(r, {"sent"}, "accepted")
AcceptTooLate(r) == Handle(r, {"sent"}, "expired")
Decline(r) == Handle(r, {"sent"}, "declined")

MarkExpired(r) ==
    /\ SetOffer(r, "expired", "expired")
    /\ Finish(r)
    /\ UNCHANGED <<application, lastSent>>

\* Mutant: the application is left as it is.
MarkAnswerOnly(r, status) ==
    /\ SetOffer(r, status, status)
    /\ Finish(r)
    /\ UNCHANGED <<application, lastSent>>

MarkAnswer(r, status) ==
    /\ SetOffer(r, status, status)
    /\ Become(r, [pc |-> "respond", to |-> status])
    /\ UNCHANGED <<application, lastSent>>

MarkApplication(r) ==
    /\ At(r, "respond")
    /\ application' = req[r].to
    /\ Finish(r)
    /\ UNCHANGED <<offer, mailed, lastSent>>

OfferStep(r) ==
    \/ Supersede(r) \/ InsertDraft(r)
    \/ Send(r) \/ MarkSent(r) \/ MarkOffered(r) \/ Mail(r)
    \/ Accept(r) \/ AcceptTooLate(r) \/ Decline(r) \/ MarkExpired(r)
    \/ MarkAnswer(r, "accepted") \/ MarkAnswer(r, "declined") \/ MarkApplication(r)

OffersNext == (\E r \in Requests : OfferStep(r)) /\ UNCHANGED orderly

OffersSpec == OffersInit /\ [][OffersNext]_<<offer, application, mailed, lastSent, req, orderly>>

-----------------------------------------------------------------------------
(* Properties.                                                             *)

(* Of offers made one after the other at most one is active, and there are *)
(* never more active offers than requests that ran side by side, although  *)
(* sending and answering write by id and may revive a superseded offer.    *)
(* (supersedeActiveOffers, the insert after it, and the status checks.)    *)
ActiveOffersBound ==
    Cardinality(ActiveOffers) <= IF orderly THEN 1 ELSE Cardinality(Requests)

OffersAtRest == \A r \in Requests : At(r, "idle")

(* Once everything is at rest the applicant has had an e-mail about every  *)
(* offer that is open to an answer, however requests overlapped.  (The     *)
(* e-mail reads the offer again, and is skipped if it is not sent.)        *)
OpenOffersAreMailed ==
    OffersAtRest => \A o \in Offers : offer[o] = "sent" => o \in mailed

(* When the requests come one at a time the application says what became   *)
(* of the offer sent last: the answer, or else that there is one.  (The    *)
(* two updates of each handler, and the statuses in which it may run.)     *)
ApplicationFollowsOffer ==
    orderly /\ OffersAtRest =>
        application = IF lastSent = NoOffer THEN "pending"
                      ELSE IF offer[lastSent] \in {"accepted", "declined"}
                           THEN offer[lastSent]
                           ELSE "offered"
=============================================================================
