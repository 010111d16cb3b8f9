# A TLA+ model of Kink Social's bookings, payments and shared rows

Kink Social (codename C2K) is a TypeScript monorepo: a Fastify API with Drizzle
on Postgres (`packages/api`), a BullMQ worker on Redis in the same package, a
React client (`packages/web`) and shared helpers (`packages/shared`). All paths
below are relative to `src/packages/api/src/` unless they start with `docs/` or
`packages/`.

The hard part of this program is not its algorithms. It is that **almost no
handler opens a transaction**: every awaited query is a Postgres statement of
its own, so between any two of them another request, a webhook or a restart may
run. The modules here take handlers apart at exactly those points.

## 1. Inventory

| Component | State | Operations | What is hard |
|---|---|---|---|
| Event RSVPs: `routes/ecosystem-stubs.ts`, `lib/event-rsvp-helpers.ts` | `event_rsvps`, `events.rsvp_count`, `capacity_max`, `location_visibility`, `rsvp_open` | PUT rsvp, PATCH rsvp-approval, PATCH event, promotion, count refresh | count-then-write, blind updates by id, promotion after a freed seat |
| Stripe checkout: `routes/stripe-checkout-routes.ts`, `routes/stripe-webhooks.ts`, `lib/stripe-paid-access.ts` | `stripe_checkout_sessions`, `stripe_webhook_events`, `convention_access_grants`, `event_rsvps.paid_confirmed` | checkout, webhook delivery, fulfilment, subscription updates | duplicate, early, lost and failed deliveries; claims; lost updates |
| Dancecard booking: `routes/convention-dancecard-routes.ts`, `lib/convention-dancecard-calendar.ts` | `dancecard_booking_requests`, `dancecard_entries` | create, accept, decline, cancel, reschedule | check-then-insert on calendars, entries and status in separate queries |
| Dancecard intervals: `lib/dancecard-intervals.ts` | none | clip, buffer, merge, invert | boundaries of half-open intervals |
| Participation offers: `lib/convention-participation-offers.ts` | offers and the application rows they come from | draft, supersede, send, accept, decline | two rows kept in step without a transaction |
| Password reset and sessions: `lib/password-reset.ts`, `lib/change-password.ts`, `routes/auth.ts` | reset tokens, password hash, `users.session_version` | request, confirm, change, login, logout | single use under read committed, row locks, a version written back |
| Organization ownership: `lib/org-claim.ts`, `routes/organizations.ts` | owner, members' roles, claim tokens | mint, redeem, join, leave, give roles | owner checked outside the transaction |
| Group leadership: `routes/group-leadership-routes.ts`, `lib/lifecycle-sweep.ts` | owner, member rows, the election, votes | sweep, vote, finalize, join, leave, give roles | no unique index on members; membership checked outside the transaction |
| Volunteer shifts: `routes/convention-attendee-routes.ts`, `routes/conventions-routes.ts` | a shift, its sign-ups | claim, sign up, assign | count-then-insert in two endpoints; claim and sign-up in two queries |
| Attendee groups: `routes/convention-attendee-routes.ts` | a group, its members, join requests | join, ask, approve, deny, edit | count-then-insert; two owners answering at once |
| Staff invites: `routes/conventions-routes.ts` | invite tokens, staff grants | mint, redeem | check-then-mark by id |
| ECKE publishing: `lib/ecke-publish-queue.ts`, `lib/ecke-publish-executor.ts`, `worker.ts` | a shop, a Redis job, a target row, and the copy another site keeps | save, enqueue, run, stall, withdraw | job-id deduplication, a worker that dies, answers that get lost |
| Access edits and check-in: `routes/conventions-routes.ts` | `convention_access_grants` | edit, check in | write-back of values read earlier |
| Media pipeline, moderation, retention and legal hold, trust scores, DM privacy, mail, web client | their own tables | sweeps, CRUD, rendering, I/O | mostly external services or pure predicates |

How they interact: the first two share `event_rsvps` (a paid event ticket inserts
a going row); checkout, staff invites, offers and organizers all write
`convention_access_grants`; the worker sends what handlers enqueue; clients only
see JSON.

What makes each component correct: capacity is kept and nobody loses a seat to
another person's request (RSVPs); access is granted for payments, all of them,
and only them (checkout); no one is in two scenes at once and an accepted booking
has exactly one entry per person (dancecards); an offer and its application agree
and nobody can answer an offer they were not told of (offers); one link works
once, resets kill older links and sessions (passwords); an organization has one
owner, who gave it away by a claim of their own (organizations); the owner of a
group is one of its members (groups); a capacity is overrun by no more than the
race that is open (shifts, attendee groups); an invite lets in one person
(invites); the sister site never shows what was not offered, and the target row
tells the truth (ECKE).

Where the code has a race and no document promises that it has not, the
properties say what survives: a bound that grows with the number of requests side
by side, or the exact statement for behaviours in which the disturbing handlers
take turns.

## 2. Modules

| Module | What it is |
|---|---|
| `EventRsvp` | RSVPs, approval, promotion and the cached count, query by query |
| `MCEventRsvp` | its instances for TLC |
| `EventRsvpProofs` | types, loss of seats, gated seats; the bound on overbooking; for serial requests the exact count and no idle seat |
| `PaidTickets` | what checkout promises: an abstract specification of two sets |
| `StripeCheckout` | checkout, webhook and fulfilment, query by query; states that it implements `PaidTickets` |
| `MCStripeCheckout` | its instances for TLC |
| `StripeCheckoutProofs` | safety of fulfilment and the refinement |
| `DancecardIntervals` | stretches of time, and what the two calendar checks decide, as predicates on sets |
| `DancecardGaps`, `MCDancecardGaps` | how the code computes those decisions, compared with them on every short calendar |
| `DancecardGapsProofs` | that the two agree for every calendar |
| `DancecardBooking` | scene bookings, query by query; its checks are the predicates of `DancecardIntervals` |
| `MCDancecardBooking` | its instances for TLC |
| `DancecardProofs` | types and foreign keys, calendars that agree with bookings, the bounds on double booking and on copies |
| `Handlers` | request handlers side by side, each at one of its queries; the seven modules below extend it |
| `PasswordReset` | links, passwords and sessions of one account, with the row locks of the confirming transaction |
| `ParticipationOffers` | offers to one applicant, and the application they answer |
| `OrgOwnership` | owner, members and claims of one organization |
| `GroupLeadership` | members and owner of one group, and the election |
| `VolunteerShift` | claims and sign-ups of one shift |
| `AttendeeGroup` | members and join requests of one group of attendees |
| `StaffInvites` | invite tokens of one convention |
| `MCHandlers` | their instances for TLC, and their disjoint union |
| `OwnershipProofs` | proofs about what somebody owns: passwords and sessions, organizations, groups |
| `ConventionProofs` | proofs about a convention's lists: shifts, attendee groups, invites, offers |
| `HandlersProofs` | that each topic of `MCHandlers` is its component, and the types of all |
| `VendorPublishing` | publishing a shop to ECKE: requests, the Redis job, the worker, the target row, the remote copy |
| `MCVendorPublishing` | its instances for TLC |
| `VendorPublishingProofs` | its types and safety |

### EventRsvp

`event` is the part of the events row the handlers decide from, `rows` the RSVP
of each user (the unique index allows one), `rsvpCount` the cached number,
`req[a]` the request actor `a` has in flight. A request is a record whose `pc` is
the query it will send next, with what the earlier queries returned.

| Actions | Code |
|---|---|
| `BeginRsvp`, `ReadRow`, `CountForRsvp`, `WriteExisting`, `WriteNew`, `Delete` | PUT rsvp, `ecosystem-stubs.ts` 1816-1986 |
| `BeginApproval`, `ReadRow`, `CountForApproval`, `Approve`, `Delete` | PATCH rsvp-approval, 2126-2166 |
| `PromoteReadEvent`, `PromotePick`, `PromoteWrite` | `promoteNextWaitlist` |
| `RefreshCount`, `RefreshWrite` | `refreshEventRsvpCount`, run twice after a promotion as in the code |
| `PatchEvent` | PATCH event |
| `Die` | a handler that ends between two queries |

Abstracted: one event; a row's id grows with insertion and stands for
`created_at`, which promotion orders by; capacity 0 stands for null too, as in
the code's `cap != null && cap > 0`. The screening question, notifications, mail
and activity are left out: no later query depends on them. So are the RSVP rows
that webhooks insert for paid event tickets.

### StripeCheckout

`stripe` and `due` are Stripe's side and marked external: a session's life, and
whether its completed event will still be delivered. `session`, `claims` and
`grant` are the three tables. `worker[w]` is a webhook request being handled,
`edit[t]` the access row an organizer's PUT has read.

| Actions | Code |
|---|---|
| `CreateSession`, `RecordSession`, `ReturnUrl` | `stripe-checkout-routes.ts` 89-143 |
| `Claim`, `AnswerDuplicate`, `Release`, `Reply` | `stripe-webhooks.ts` 11-27 and 196-234 |
| `Lookup`, `MarkComplete` | `handleCheckoutCompleted`, 72-111 |
| `SelectGrant`, `WriteGrant` | `setConventionPaidConfirmed` |
| `Throw`, `Crash` | a query that throws; a process that vanishes |
| `EditRead`, `EditWrite` | PUT access, `conventions-routes.ts` 621-661, for a body without `paidConfirmed` |

The event carries a snapshot of its session, so a session completed by a delayed
payment method (`delayed`) is unpaid for ever as far as its completed event goes.
The code handles no later event for it, and neither does the model.

### DancecardIntervals and DancecardGaps

A calendar is a sequence of intervals in minutes, in any order and with any ends:
nothing makes a manual entry end after it starts (`conventions-routes.ts` 1155).
`DancecardGaps` builds every calendar of up to `MaxItems` items and applies
`computeFreeGapsForUser` and `guestCalendarConflict` to it as the code composes
them: clip, buffer, sort and merge, invert, each loop a fold whose step is an operator
(`Keep`, `Insert`, `Absorb`, `Pass`). `Insert` is a stable sort, as JavaScript's is.
The two checks differ as the code's do: the host's items are clipped to the
convention before the recovery time is added, the guest's are not clipped at all.

### DancecardBooking

`booking` and `entries` are the two tables, `commitment` everything else that the
checks read from a calendar, `req[r]` a request in flight with the query it sends
next. Accept, cancel and reschedule-accept are six, four and six queries.

| Actions | Code (`convention-dancecard-routes.ts`) |
|---|---|
| `Create`, `Accept`, `Decline`, `Keep`, `Cancel`, `Reschedule`, `Agree` | the read of the booking and its guards; `Keep` is decline on a proposed time, `Agree` is reschedule-accept |
| `CheckHost`, `CheckGuest` | the two calendar checks |
| `AddHostEntry`, `AddGuestEntry`, `MoveHostEntry`, `MoveGuestEntry`, `DropHostEntry`, `DropGuestEntry` | the entries, host's first: accept 481-504, reschedule-accept 702-713, cancel 591-596 |
| `WriteCreated`, `WriteAccepted`, `WriteDeclined`, `WriteKept`, `WriteCancelled`, `WriteProposal`, `WriteMoved` | the last query, a blind update by id |
| `DeleteOwnEntry` | DELETE entries, `conventions-routes.ts` 1207, with `ON DELETE SET NULL` |
| `Die` | a handler that ends between two queries |

A request refused at its first read changes nothing and is left out, as are
notifications and texts. `WriteAccepted` is refused by the foreign keys when an
entry it has just inserted is gone. The variable `regime`, chosen once, says what
may happen in a behaviour; its fields are explained in the module.

### Handlers and the modules on top of it

`req[r]` is a record with the query request `r` sends next and what it holds;
`orderly`, chosen once, says whether the handlers that would disturb each other
take turns. The reads of a handler are one step when its guards come before its
first write and none is made stale by another of its own; what a property needs
to see between two reads is taken apart.

| Module | Actions | Code |
|---|---|---|
| `PasswordReset` | `Ask`, `InsertToken` | `requestPasswordReset`: invalidate, then insert |
| | `Consume`, `ReadVersion`, `LockAccount`, `SpendTheRest`, `Deadlock` | `confirmPasswordReset`, one transaction: the token is locked by its update, the account by the next, the other tokens by the last; writes show at the commit, which is `SpendTheRest` |
| | `Change`, `WriteChanged`; `Login`, `Rehash`, `GiveCookie`; `Logout` | `change-password.ts`, `routes/auth.ts`: each reads the account, hashes, then writes |
| `ParticipationOffers` | `Supersede`, `InsertDraft` | `createParticipationOfferDraft` |
| | `Send`, `MarkSent`, `MarkOffered`, `Mail` | `sendParticipationOffer` and the e-mail it sends |
| | `Accept`, `AcceptTooLate`, `Decline`, `MarkExpired`, `MarkAnswer`, `MarkApplication` | accept and decline: read and check, update by id, update the application |
| `OrgOwnership` | `Mint`, `InsertClaim`, `ClaimExpires` | POST claim-tokens |
| | `Redeem`, `ReadOrg`, `SpendOnly`, `Transfer` | `redeemOrganizationClaimToken`: two reads, then the transaction |
| | `JoinOrg`, `InsertMember`, `LeaveOrg`, `DeleteMember`, `PatchRole`, `UpdateRole` | the member routes of `organizations.ts` |
| `GroupLeadership` | `Sweep`, `Vote`, `UpsertVote`, `ChooseWinner`, `FinalizeElection` | the sweep and the election |
| | `JoinGroup`, `InsertRow`, `LeaveGroup`, `DeleteRows`, `PatchMember`, `UpdateRow` | the member routes of `ecosystem-stubs.ts` |
| `VolunteerShift` | `ClaimShift`, `ClaimUnclaimed`, `ClaimTaken`, `SignUp`, `InsertSignup`, `Assign` | claim (a conditional update, then a sign-up), sign-up, organizers' PATCH |
| `AttendeeGroup` | `JoinParty`, `InsertGuest`, `InsertRequest`, `Approve`, `AddApproved`, `Deny`, `MarkRequest`, `PatchParty` | join, join requests, owners' answers and edits |
| `StaffInvites` | `MintInvite`, `RedeemOpen`, `MarkRedeemed`, `GrantStaff` | mint and redeem |
| all but offers | `CutOff...` | a request that ends between two queries |

In `AttendeeGroup` a guest who was denied and asks again is told the request is
pending while it is not: the insert meets the unique index and is swallowed. That
is modelled; nothing promises otherwise.

### VendorPublishing

`profile` is the shop, `job` the one job Redis can hold under the vendor's id,
`exec[a]` what the worker or a request is doing, `target` the row of
`ecke_publish_targets`, `remote` the vendor's row at ECKE (external): what it says
and its status. What a shop says is a member of `Contents` and is its own hash.

| Actions | Code |
|---|---|
| `Save`, `Patch`, `Ask` | `routes/ecosystem-stubs.ts`, `routes/ecke-publish-entity-routes.ts` |
| `Enqueue`, `RunInline` | `ecke-publish-queue.ts`: an add that finds the id changes nothing; if Redis does not answer, the request runs the job |
| `ReadShop`, `SelectTarget`, `UpsertTarget`, `Push`, `MarkPublished`, `MarkError` | `executeEckePublishVendor`, 83-194; `Push` may be written and its answer lost, and writes what `Republished` says |
| `Take`, `Settle`, `Stalled`, `WorkerDies`, `Forget` | the worker and BullMQ: one retry of a stalled job, retention of finished ones (external) |
| `Withdraw`, `CheckTarget`, `TakeDown`, `MarkDown`, `MarkStuck` | `executeVendorProfileUnpublish` and its executor; `TakeDown` writes `Hidden` |
| `Die` | a request that ends between two steps |

Both kinds of write to ECKE are upserts on the slug that merge
(`ecke-publish-client.ts` 656). Publishing sends the columns of `EckeVendorRow`,
which has no status, so a new row gets the status ECKE gives by default and a row
that is there keeps its own (`Republished`). Withdrawing sends the status `draft`
and no content (`Hidden`). Nothing sends another status: a shop that was ever
withdrawn stays hidden when it is published again (see the end of section 4). The
rows of events and articles do carry the status `published`. Whether ECKE accepts a
withdrawal for a slug it has no row of is its own affair; the model allows both.

An edit saved while the job runs, or while a finished job of the same id is
retained, is not published: the add is dropped. `docs/ECKE_INTEGRATION.md` 53
says that running inline when an add fails keeps publishes from being silently
lost; of an add that is dropped it says nothing. What is promised, and checked, is
that a job that *waits* publishes the shop of the moment it runs. The search and
offer e-mail queues use ids with a colon, which BullMQ refuses, so their jobs run
inline in the request.

## 3. Runs

| Run | Instance | Shows |
|---|---|---|
| `rsvp_concurrent` | 3 people, 1 seat, 2 interleaved requests, 4 rows, deaths, RSVPs opened and closed | overbooked by at most one seat |
| `rsvp_serial` | 3 people, 2 seats, one request at a time, 5 rows | capacity kept, no idle seat with people waiting, count exact |
| `rsvp_gated` | 2 people with 3 tabs, 2 moderators, 1 seat, 2 interleaved requests | no seat without approval or promotion; no seat lost to another's request |
| `rsvp_gated_capacity` | 3 people, 1 moderator, one request at a time | **violated**: rejecting a pending guest promotes over the capacity |
| `dancecard_gaps` | calendars of up to 3 items in 0..5, convention 1..4, recovery 0 to 2 | the gaps shown are exactly the free time; both checks are exact |
| `dancecard_bookings` | 1 booking with deletions and deaths, its 2 requests interleaved or in turn, or 3 bookings with requests one at a time for each; 2 times | nobody is in the scenes of three bookings at once; a booking is on a calendar once per interleaved request, once in turn; calendars agree with bookings; foreign keys hold |
| `stripe_faults` | 3 sessions for 2 tickets, 2 workers, crashes, early retries, 1 fault, edits | safety of fulfilment under everything |
| `stripe_delivery` | 2 sessions for one ticket, 2 workers, 2 faults, fair | every payment is granted; an acknowledged event was |
| `stripe_claim_error` | as before, but the claim may throw | **violated**: a failed claim is acknowledged as a duplicate |
| `stripe_lost_update` | no faults, one organizer's edit | **violated**: an edit writes back unpaid |
| `ecke_publish` | 2 contents, the worker, and 1 request where everything may go wrong; while Redis answers, a second that withdraws | only what was offered gets to ECKE; a waiting job brings the shop to ECKE's row or fails on record; a target that says unpublished is of a hidden row; while Redis answers, one that says published after a completed job tells what ECKE's row says |
| `handlers` | 2 interleaved requests on each of the seven components | the sixteen properties and the types of the modules on top of `Handlers` |

**Bounds.** `MaxInFlight` is how many requests the API interleaves, `MaxRows` how
many RSVP rows are ever inserted (it bounds ids), `MaxFaults` how many queries
throw (it bounds retries). Two requests are enough for every two-party race of
the RSVP code, and its bound on overbooking is proved for any number; three people
on one or two seats give a holder, a rival and somebody waiting; four or five
inserted rows let a person leave and come back behind the others on the waitlist.
Two workers and two sessions for one ticket give the insert race of the grant and
simultaneous deliveries; the third session is another ticket's.

In `dancecard_bookings` the field `maxEntries` of the regime is how many scene
entries exist at a time. With three bookings six is all there can be. With one
whose requests interleave, three let two accepts pile up, and the fourth insert
waits for a deletion; where people may delete entries as well it is two. With one
whose requests come in turn it is three, one more than there ever are. Two times,
one after which Ann must recover into the other, give moves to and fro; a person
would be in the scenes of three bookings at one time if the calendar checks
failed. `dancecard_gaps` needs three items for one
that bridges two others.

In `handlers`, two requests give every two-party race, and the bounds that grow
with their number are proved for any. Three ids for links, offers and group rows
let two be made side by side and a third after them; `MaxVersion` = 2 lets the
sessions be revoked twice. Three users, one of them on the site's staff, and two
claims let an organization change hands and back while an old claim stays open.
Four attendees or guests overfill a capacity of two by the one that the bound
allows and would overfill it by one more if it were wrong. Three helpers and two
invites let two redeem one. The components share no state, so the variable `topic`
explores them one at a time and nothing is lost.

In `ecke_publish` one request and the worker are two actors who publish, the
request inline, and the request also withdraws; a second request there multiplies
the states by twenty. While Redis answers there is a second one, which withdraws
(`SecondWithdraws`), so that withdrawals overlap each other, the worker's run and a
save.

**Symmetry.** In `dancecard_bookings` requests are interchangeable, and so are
bookings; in `handlers` requests and ids.
In `rsvp_concurrent` and `rsvp_serial` people are interchangeable together with
their tabs. No liveness is checked there.

**Deadlock.** The Stripe runs end when every event is acknowledged, the dancecard
run when every booking is declined or cancelled or the calendar is full, and some
topics of `handlers` when ids or versions are used up, so their configurations
turn the deadlock check off. The RSVP and ECKE runs leave it on: a new request can
always begin, and a shop can always be edited.

**Fairness** (`FairSpec`, used by `stripe_delivery`). Stripe redelivers what has
not been acknowledged, and a handler that runs keeps running its queries: weak
fairness of `Deliver(s)` and `HandlerStep(w)`. Buyers need not pay and queries
need not fail. Retries are finite at Stripe; the model's faults are fewer, which
is what makes "in the end" meaningful.

`VendorPublishing` assumes weak fairness of the worker's steps and of each
request's own: the worker is restarted when it dies (BullMQ's stalled check is
among its steps), and a request that does not die goes on. Nobody need save, ask
or withdraw; a finished job may be retained for ever.

**Regimes.** Some properties hold in a stated regime only, and the runs outside it
are either findings or true limits of the code, listed as hazards with a note:
`OverbookBound` assumes no host approval and one request per person (the client
disables its RSVP button while one runs, `packages/web/src/app/events/[id]/EventDetailClient.tsx`
1961); `WithinCapacity`, `NoSeatIdleAtRest` and `CountExactAtRest` are about
requests handled one at a time, the last two with none that dies, and of these
`WithinCapacity` and `NoSeatIdleAtRest` about events without host approval whose
capacity stays as it is (raising it promotes nobody who waits); `EntriesMatchBooking` is about requests that come one at a time
for each booking, with none dying (the field `onePerBooking`, without `failures`); `CopiesBound` holds in
every regime, and is one entry where the requests on a booking come in turn;
`AckMeansGranted` needs no crashes, no early retries, no failing
claims and no manual edits. `KeepsPromise` is checked in the same regime. The
two violations of `AckMeansGranted` step outside it by one condition each.

In the modules on top of `Handlers` the regime is `orderly`: no two requests write
the password or revoke sessions at once (`PasswordReset`, for
`SignedInKnowsPassword`), and links are asked for one after the other (for the
bound of one link in `LiveLinksBound`); handlers run one at a time (`ParticipationOffers`, for
`ApplicationFollowsOffer` and the bound of one); nobody redeems a claim while
another redeems, leaves or changes a role (`OrgOwnership`); nobody leaves or votes
while an election is finalized (`GroupLeadership`, for `LeaderBelongs`); no request
dies (`VolunteerShift`, for `ClaimIsSignedUp`); the capacity is not lowered
(`AttendeeGroup`, for `PartyBound`); tokens are redeemed one at a time and no
request dies (`StaffInvites`). The other properties hold in every behaviour.

In `VendorPublishing` the regime is `queued`: Redis answers whenever a job is added,
so that requests run no job themselves and the worker is the only one who
publishes. Two who publish at once may leave the content of one with the hash of
the other, which is why `StatusIsTrue` asks for it where it compares contents.
Requests die, answers get lost, and publishing and withdrawing overlap in both
regimes. Of a row that says published it speaks *after a completed job*: a job whose
worker died between pushing new content and marking it leaves other content on ECKE
than the row's hash, and the next job's upsert of the old content may call that
published again until its own push.

## 4. Findings

1. *Rejection promotes without a freed seat* (`ecosystem-stubs.ts` 2151, run
   `rsvp_gated_capacity`). A pending guest holds no seat, but rejecting one calls
   `promoteNextWaitlist` unconditionally; on a full event the promoted person
   exceeds `capacity_max`, which `db/schema.ts` 1960 says caps committed going.
2. *A failed claim is acknowledged* (`stripe-webhooks.ts` 18, run
   `stripe_claim_error`). The claim's catch takes every error for "already
   claimed" and the route answers 200, so Stripe gives up on the event.
3. *An access edit can undo a payment* (`conventions-routes.ts` 636, run
   `stripe_lost_update`). `paidConfirmed` is written back from a row read before
   the webhook paid it.

Two more statements of the repository are not true of the code. No run refutes
them; the properties are stated so that they hold, and say where they stop.

- *A shop that was withdrawn stays hidden* (`ecke-publish-client.ts` 732-743 with
  `ecke-directory-sync.ts` 32-42). Publishing it again marks the target published
  while ECKE's row keeps the status `draft`, though the text shown before publishing
  promises a public vendor profile
  (`packages/web/src/components/ecke/ecke-publish-copy.ts` 49). `StatusIsTrue` and
  `WaitingJobPublishes` are about what ECKE's row says, and do not claim that it is
  visible.
- *Two reset links may work* (`password-reset.ts` 106). The comment says that only the
  latest link works; of two requests that interleave each invalidates what it saw
  and inserts its own. `LiveLinksBound` is one link when they are asked for in turn,
  and otherwise the number of requests.

## 5. Proofs

Checked by TLAPS for every value of the constants that satisfies the named
assumptions in the modules (`RsvpAssumption`, `StripeAssumption`,
`BookingAssumption`, `RequestsAssumption` and one per component).

**RSVPs.** `TypeCorrect` carries a type for every request (`GoodReq`) along.
`NoSeatIsTaken` follows from types alone: a promotion only ever makes a row
committed, and every other write is to the requester's own user.
`GatedSeats` needs that a request about to write going on a gated event writes
`pending` (`WritesPending`).

`OverbookIsBounded` needs an argument. A *token* is a request that may yet take
one more seat: one that has decided on a seat it did not hold, or that is about
to promote. The invariant is

    |Committed| + |Tokens| <= capacity + MaxInFlight - 1

A decision for a seat creates a token when fewer than `capacity` seats were
taken, and all tokens are requests in flight (`FreeSeatSeen`); giving a seat up
turns it into a token (`SeatGivenUp`); taking a seat spends one (`TokenSpent`).
The second case needs that a handler which gives a seat up really had one: what
it read of its own user's row is still true (`SeenIsCurrent`), which is why the
theorem asks for one request per person, and why `IdsUnique` and `NoPending` are
in the invariant. `SerialWithinCapacity` is the case of one request at a time.

Two more theorems are about requests handled one at a time, none of which dies
(`Serial`). `SerialCountIsExact` says which queries leave the cached count behind:
until a handler's first write it equals the committed rows, and a handler about
to store the count holds the number of today (`CountInv`); every handler that
writes ends with that store, in every setting of the event. `SerialSeatsAreFilled`
needs to know, query by query, what the handler may still do about an idle seat
(`SerialReq`): before it writes no seat is idle; after it gave up a seat at most
one is, and it is on its way to promote the row that waits longest.

**Dancecard gaps.** `DancecardGapsAreTheFreeTime` and `DancecardChecksAreExact` are
about algorithms: what the loops compute for a calendar of any length, with items
that overlap, touch, contain each other or end before they start. The library's
induction theorems cannot be instantiated here, so `Induction` is derived for *sets*
of numbers from the well-foundedness of the subsets of a finite set
(`LeastNumber`); `FoldRun` then turns a fold into the sequence of values its loop
passes through, and each loop has an invariant:

- `SortedItems`: the items so far, by their start;
- `Blocks`: a time meets a busy block exactly when it meets an item absorbed so far,
  every block starts where an item does, and blocks of items that are not empty do
  not touch. That an item ending before it starts keeps the equivalence is why
  `Absorb` must take the later of the two ends;
- `Passed`: the cursor is the end of the last block, and the gaps are those between
  the blocks passed, if long enough. It needs blocks that are apart and start
  within the convention, which holds because the host's items are clipped *before*
  the recovery time is added.

The rest is order on a line: the time between two blocks is free (`GapIsFree`),
what is free lies between two blocks (`FreeIsInGap`), and no gap lies within another
(`GapsApart`). The assumption that the shortest gap is at least a minute is the
code's (1 in the check, 15 by default when gaps are shown).

**Dancecard bookings.** All four invariants of `dancecard_bookings` are theorems, in every
regime and for any people, bookings, times and number of interleaved requests.

- `DancecardTypeCorrect`. The foreign keys hold because an id that a booking, or a
  request about to write one, carries belongs to an entry of that booking or is
  new to it (`OwnInv`); an accept whose own entry was deleted under it is refused
  by the database and writes nothing.
- `DancecardEntriesMatchBooking`. At rest a booking is `Settled`; while a request
  on it is in flight its entries and its row differ exactly by what the request
  has done so far (`Underway`, one clause per operation and query). Requests on
  other bookings disturb neither.
- `DancecardCrowdingBound`. For times that all overlap, take the bookings with an
  entry of a person there and those of requests that have passed this person's
  check and may still write one there. A request passes only when every other
  booking among them has a request in flight: its entry was not there to be seen.
  So there are never more than requests (`CrowdInv`). A handler that dies leaves
  its entry behind, which is why the theorem counts bookings: an accept repeated
  after a death may leave a booking's entry next to its own earlier one, and a
  reschedule-accept exempts the entries of its own booking from its check. Entries
  are not bounded by the number of requests; bookings are, and the entries of each
  are bounded by the next theorem.
- `DancecardCopiesBound`. Two counts. The entries of a person for a booking and the
  accepts past that person's check are at most `AtATime`. When an accept passes the
  check, the entries left are those that were moved away; they are ones that the
  booking refers to or that a reschedule-accept read, and each accept that ends
  makes the booking refer to one more, so those and all accepts in flight are at
  most `AtATime` as well (`CopyInv`). Underneath is the life of a booking
  (`LifeInv`): it is pending once, and an accept holds the time it was pending for.

**Checkout.** `IInv` adds to the four safety properties: a worker past the lookup
handles a paid session (`PastLookup`), a handled event is claimed and has one
worker (`ClaimHeld`), a buyer with a URL has a recorded session
(`UrlIsOnRecord`), and an organizer who read a payment read a real one
(`EditIsCharged`). It holds under crashes, early retries, failing claims and
edits. `AckedIsGranted` is proved in the `Reliable` regime, with three more parts:
a claimed event is being handled or was acknowledged, an event stays due while it
is handled, and a worker about to answer has granted. `ImplementsPaidTickets`
shows every step is a payment, a first grant, or neither.

**Passwords.** `LinksBounded` counts live links and requests about to insert one:
together they never exceed the requests. When links are asked for in turn there is
one of either at most, since a request that asks waits for the insert before it and
spends every live link. `LinksInv` says that a request which
confirms holds a live token nobody else holds, and that a live token is younger
than the last reset; from it follow `NoLinkOutlives` and `OneReset`, for any
number of requests and tokens, deadlocks included. `SignedInKnows` needs
`SessionsInv`: no session, nor a cookie about to be given, combines today's
version with another password, nor a version from the future.

**Offers.** `ActiveOffersBounded` counts offers that are active or about to be
revived by a blind update, with the requests about to draft. `OpenOffersMailed`
carries the sender who is still to mail. `ApplicationFollows` is an invariant over
the two updates of each handler (`Following`).

**Organizations and groups.** `OwnerInv` says that whoever is about to take over
read the owner of today and a claim of theirs; `SoleOwnerHolds` and the action
property `OwnerGivesAwayHolds` follow. `ElectionInv` says that whoever is about to
become the owner of a group still has a row in it; `LeaderIsMember` and
`VotesAreOfTheElection` follow. `RowsBounded` counts rows and pending inserts of
one member against the requests.

**Shifts, attendee groups, invites.** The bounds add those who are past the count
to those who are in: a request that begins found room, one that ends moves from
the first to the second. `ApprovedAreIn` needs that a request about to mark has
added.

**ECKE.** `OnlyOffered`: whoever carries content read it while the shop was listed
(`CarriedIsOffered`), and what was once offered stays on record. `StatusTrue`:
nothing brings the status back once a row is hidden, and a request about to mark the
target unpublished has hidden it (`DownIsHidden`); while Redis answers the worker
alone publishes, as the active job (`WorkerPublishes`), so what it pushed is what
ECKE's row says until the next job (`RowAgrees`), whatever is withdrawn meanwhile.

**The composition.** `MCHandlers` explores the seven components one at a time.
`EachTopicIsItsComponent` shows that a behaviour about one of them satisfies that
component's own specification, so every theorem about the component holds of what
the run explores; `HandlersTypeCorrect` draws that conclusion for the types.

**Proved and not checked by a run**: `CompleteIsCharged`, `VotesAreOfTheElection`
and `RedeemersAreStaff`.

**Model-checked only.** Every invariant and action property that a passing run
checks is a theorem. Of the temporal properties, the safety part of `KeepsPromise`
is proved (`ImplementsPaidTickets`), while its fairness part and
`WaitingJobPublishes` are liveness, out of the prover's reach. Nothing here rests on
ENABLED or on RECURSIVE operators.

## 6. Not modelled, and the plan

Next, in order:

1. Event tickets in `StripeCheckout` composed with `EventRsvp` on the shared table:
   a paid ticket without an RSVP inserts `going` past the capacity.
2. Memberships: subscription events that arrive out of order.
3. Organizers' edits of applications beside `ParticipationOffers`, requests that
   die there, and the grants that accepting leads to.
4. Access codes and login lockout.

Proofs follow each of these: the bound on overbooking with paid rows beside the
requests (a paid row takes a seat without a token, so the bound grows with the
tickets), and the offers once handlers may die.

Articles and events are published to ECKE along the same path as shops, with a status
in what they send, and would add no behaviour. Left out for good: media processing, mail and the web client (I/O with
other systems and rendering), trust scores and privacy predicates (no
interleaving, covered by the repository's unit tests), most sweeps over dates, and
the many routes that read a row and write it once. They are most of the
repository's lines, and there is no state in them that two steps could disagree on.
