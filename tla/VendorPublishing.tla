-------------------------- MODULE VendorPublishing --------------------------
(***************************************************************************)
(* Publishing a vendor's shop to ECKE, a sister site that keeps its own    *)
(* copy (lib/ecke-publish-queue.ts, lib/ecke-publish-executor.ts).         *)
(*                                                                         *)
(* Saving a listed shop adds a job to a BullMQ queue under an id of the    *)
(* vendor's own, so that an add changes nothing while Redis still holds    *)
(* that id: waiting, active, or finished and retained.  If Redis cannot be *)
(* reached the request runs the job itself.  The worker, which takes one   *)
(* job at a time, reads the shop when it starts, writes the vendor's       *)
(* target row, writes the shop to ECKE, and writes the target row again.   *)
(* A job whose worker died is run once more.                               *)
(*                                                                         *)
(* ECKE's row of a vendor is written by upserts that merge: publishing     *)
(* sends what the shop says and no status, withdrawing sends the status    *)
(* draft and nothing else.  No write takes the status back.                *)
(*                                                                         *)
(* One vendor is modelled, since vendors share nothing but the worker's    *)
(* time.  What a shop says is a member of Contents, and so is its hash.    *)
(***************************************************************************)
EXTENDS Naturals

CONSTANTS
    Contents,  \* what a shop may say
    Requests,  \* requests the API interleaves
    Worker,
    Regimes,   \* what may happen in a behaviour
    Nothing

ASSUME PublishingAssumption ==
    /\ Nothing \notin Contents /\ Worker \notin Requests
    /\ Regimes \subseteq {"anything", "queued"}

VARIABLES
    profile,  \* vendor_profiles: what the shop says, and whether it is
              \* public and opted in
    offered,  \* history: what the shop has said while it was listed
    job,      \* the job in Redis, and how often it was found stalled
    exec,     \* what the worker and each request are doing
    target,   \* the vendor's row of ecke_publish_targets
    remote,   \* the vendor's row at ECKE
    regime    \* what may happen; it never changes

vars == <<profile, offered, job, exec, target, remote, regime>>

Actors == Requests \cup {Worker}
Profile == [content : Contents, listed : BOOLEAN]
Job == [state : {"none", "waiting", "active", "completed", "failed"}, stalls : {0, 1}]
NoJob == [state |-> "none", stalls |-> 0]

\* hash is published_content_hash; ever, that last_published_at is set.
Target == [status : {"none", "draft", "stale", "published", "error", "unpublished"},
           hash : Contents \cup {Nothing}, ever : BOOLEAN]
NoTarget == [status |-> "none", hash |-> Nothing, ever |-> FALSE]

\* default is the status that ECKE gives a row that comes without one.
Row == [content : Contents \cup {Nothing}, status : {"none", "default", "draft"}]
NoRow == [content |-> Nothing, status |-> "none"]

PublishSteps == {"read", "select", "upsert", "push", "markPublished", "markError",
                 "done", "failed"}
WithdrawSteps == {"check", "withdraw", "markDown", "markStuck"}
\* content is what the actor read, seen the target row it read.
Doing == [pc : {"idle", "enqueue"} \cup PublishSteps \cup WithdrawSteps,
          content : Contents \cup {Nothing}, seen : Target]
Idle == [pc |-> "idle", content |-> Nothing, seen |-> NoTarget]

TypeOK ==
    /\ profile \in Profile
    /\ offered \subseteq Contents
    /\ job \in Job
    /\ exec \in [Actors -> Doing]
    /\ target \in Target
    /\ remote \in Row
    /\ regime \in Regimes

\* What a shop that is listed says.
Said(p) == IF p.listed THEN {p.content} ELSE {}

Init ==
    /\ profile \in Profile
    /\ offered = Said(profile)
    /\ job = NoJob
    /\ exec = [a \in Actors |-> Idle]
    /\ target = NoTarget
    /\ remote = NoRow
    /\ regime \in Regimes

-----------------------------------------------------------------------------
At(a, pc) == exec[a].pc = pc
Goto(a, pc) == exec' = [exec EXCEPT ![a].pc = pc]
Finish(a) == exec' = [exec EXCEPT ![a] = Idle]

\* In queued behaviours Redis answers whenever a job is added.
Queued == regime = "queued"

-----------------------------------------------------------------------------
(* The API.                                                                *)

Store(p) ==
    /\ profile' = p
    /\ offered' = offered \cup Said(p)
    /\ UNCHANGED <<job, target, remote>>

\* PUT /me/vendor-profile; a shop that is not listed is not published.
Save(r, p) ==
    /\ At(r, "idle")
    /\ Store(p)
    /\ IF p.listed THEN Goto(r, "enqueue") ELSE UNCHANGED exec

\* PATCH /vendors/me, which publishes nothing.
Patch(c) ==
    /\ Store([profile EXCEPT !.content = c])
    /\ UNCHANGED exec

\* POST /vendors/me/ecke-publish, listed or not.
Ask(r) ==
    /\ At(r, "idle")
    /\ Goto(r, "enqueue")
    /\ UNCHANGED <<profile, offered, job, target, remote>>

Add(j) == IF j.state = "none" THEN [state |-> "waiting", stalls |-> 0] ELSE j

Enqueue(r) ==
    /\ At(r, "enqueue")
    /\ job' = Add(job)
    /\ Finish(r)
    /\ UNCHANGED <<profile, offered, target, remote>>

RunInline(r) ==
    /\ At(r, "enqueue")
    /\ ~Queued
    /\ Goto(r, "read")
    /\ UNCHANGED <<profile, offered, job, target, remote>>

-----------------------------------------------------------------------------
(* The job, run by the worker or by a request.                             *)

\* Mutant: whether the shop is listed is not looked at again.
ReadAnyShop(a) ==
    /\ At(a, "read")
    /\ exec' = [exec EXCEPT ![a].pc = "select", ![a].content = profile.content]
    /\ UNCHANGED <<profile, offered, job, target, remote>>

\* A shop that is not listed by now fails the job before anything is written.
ReadShop(a) ==
    /\ At(a, "read")
    /\ exec' = IF profile.listed
               THEN [exec EXCEPT ![a].pc = "select", ![a].content = profile.content]
               ELSE [exec EXCEPT ![a].pc = "failed"]
    /\ UNCHANGED <<profile, offered, job, target, remote>>

SelectTarget(a) ==
    /\ At(a, "select")
    /\ exec' = [exec EXCEPT ![a].pc = "upsert", ![a].seen = target]
    /\ UNCHANGED <<profile, offered, job, target, remote>>

StatusFor(content, seen) ==
    CASE seen.hash = content /\ seen.ever -> "published"
      [] seen.ever /\ seen.hash # content -> "stale"
      [] OTHER -> "draft"

\* Of two inserts the second breaks the unique index, and fails the job.
UpsertTarget(a) ==
    /\ At(a, "upsert")
    /\ LET status == StatusFor(exec[a].content, exec[a].seen) IN
       IF exec[a].seen.status = "none" /\ target.status # "none"
       THEN /\ exec' = [exec EXCEPT ![a] = [Idle EXCEPT !.pc = "failed"]]
            /\ UNCHANGED target
       ELSE /\ exec' = [exec EXCEPT ![a].pc = "push", ![a].seen = NoTarget]
            /\ target' = [target EXCEPT !.status = status]
    /\ UNCHANGED <<profile, offered, job, remote>>

\* The upsert leaves the status of a row that is there as it is.
Republished(content) ==
    [content |-> content, status |-> IF remote = NoRow THEN "default" ELSE remote.status]

\* The answer of ECKE may get lost: the job then believes the write failed.
Push(a) ==
    /\ At(a, "push")
    /\ \E written, told \in BOOLEAN :
          /\ told => written
          /\ remote' = IF written THEN Republished(exec[a].content) ELSE remote
          /\ Goto(a, IF told THEN "markPublished" ELSE "markError")
    /\ UNCHANGED <<profile, offered, job, target>>

MarkPublished(a) ==
    /\ At(a, "markPublished")
    /\ target' = [status |-> "published", hash |-> exec[a].content, ever |-> TRUE]
    /\ exec' = [exec EXCEPT ![a] = [Idle EXCEPT !.pc = "done"]]
    /\ UNCHANGED <<profile, offered, job, remote>>

MarkError(a) ==
    /\ At(a, "markError")
    /\ target' = [target EXCEPT !.status = "error"]
    /\ exec' = [exec EXCEPT ![a] = [Idle EXCEPT !.pc = "failed"]]
    /\ UNCHANGED <<profile, offered, job, remote>>

Answer(r) ==
    /\ exec[r].pc \in {"done", "failed"}
    /\ Finish(r)
    /\ UNCHANGED <<profile, offered, job, target, remote>>

RunJob(a) ==
    \/ ReadShop(a) \/ SelectTarget(a) \/ UpsertTarget(a)
    \/ Push(a) \/ MarkPublished(a) \/ MarkError(a)

-----------------------------------------------------------------------------
(* The queue and its worker.                                               *)

Take ==
    /\ job.state = "waiting" /\ At(Worker, "idle")
    /\ job' = [job EXCEPT !.state = "active"]
    /\ Goto(Worker, "read")
    /\ UNCHANGED <<profile, offered, target, remote>>

\* Mutant: a job that failed counts as completed.
SettleAnyway ==
    /\ exec[Worker].pc \in {"done", "failed"}
    /\ job' = [job EXCEPT !.state = "completed"]
    /\ Finish(Worker)
    /\ UNCHANGED <<profile, offered, target, remote>>

Settle ==
    /\ exec[Worker].pc \in {"done", "failed"}
    /\ job' = [job EXCEPT !.state = IF At(Worker, "done") THEN "completed" ELSE "failed"]
    /\ Finish(Worker)
    /\ UNCHANGED <<profile, offered, target, remote>>

WorkerDies ==
    /\ ~At(Worker, "idle")
    /\ Finish(Worker)
    /\ UNCHANGED <<profile, offered, job, target, remote>>

\* Mutant: it waits again however often it stalled.
StalledAgain ==
    /\ job.state = "active" /\ At(Worker, "idle")
    /\ job' = [state |-> "waiting", stalls |-> job.stalls + 1]
    /\ UNCHANGED <<profile, offered, exec, target, remote>>

\* A job whose worker is gone waits again, but only once.
Stalled ==
    /\ job.state = "active" /\ At(Worker, "idle")
    /\ job' = IF job.stalls = 0 THEN [state |-> "waiting", stalls |-> 1]
                                ELSE [job EXCEPT !.state = "failed"]
    /\ UNCHANGED <<profile, offered, exec, target, remote>>

\* The jobs of 200 other vendors push a completed one out, 100 a failed one.
Forget ==
    /\ job.state \in {"completed", "failed"}
    /\ job' = NoJob
    /\ UNCHANGED <<profile, offered, exec, target, remote>>

-----------------------------------------------------------------------------
(* Withdrawing the shop from ECKE, in the request itself.                  *)

Withdraw(r) ==
    /\ At(r, "idle")
    /\ target.status \notin {"none", "unpublished"}
    /\ Goto(r, "check")
    /\ UNCHANGED <<profile, offered, job, target, remote>>

\* The row is read again by the executor.
CheckTarget(r) ==
    /\ At(r, "check")
    /\ Goto(r, IF target.status = "unpublished" THEN "markDown" ELSE "withdraw")
    /\ UNCHANGED <<profile, offered, job, target, remote>>

\* The row keeps what it says; one that is not there yet is made, if ECKE lets
\* it be.
Hidden == [remote EXCEPT !.status = "draft"]

\* Mutant: a failed answer is taken for a good one.
TakeDownHopefully(r) ==
    /\ At(r, "withdraw")
    /\ \E written \in BOOLEAN : remote' = IF written THEN Hidden ELSE remote
    /\ Goto(r, "markDown")
    /\ UNCHANGED <<profile, offered, job, target>>

TakeDown(r) ==
    /\ At(r, "withdraw")
    /\ \E written, told \in BOOLEAN :
          /\ told => written
          /\ remote' = IF written THEN Hidden ELSE remote
          /\ Goto(r, IF told THEN "markDown" ELSE "markStuck")
    /\ UNCHANGED <<profile, offered, job, target>>

MarkDown(r) ==
    /\ At(r, "markDown")
    /\ target' = [target EXCEPT !.status = "unpublished", !.hash = Nothing]
    /\ Finish(r)
    /\ UNCHANGED <<profile, offered, job, remote>>

MarkStuck(r) ==
    /\ At(r, "markStuck")
    /\ target' = [target EXCEPT !.status = "error"]
    /\ Finish(r)
    /\ UNCHANGED <<profile, offered, job, remote>>

Die(r) ==
    /\ ~At(r, "idle")
    /\ Finish(r)
    /\ UNCHANGED <<profile, offered, job, target, remote>>

-----------------------------------------------------------------------------
Begin(r) == (\E p \in Profile : Save(r, p)) \/ Ask(r) \/ Withdraw(r)

Continue(r) ==
    \/ Enqueue(r) \/ RunInline(r) \/ RunJob(r) \/ Answer(r)
    \/ CheckTarget(r) \/ TakeDown(r) \/ MarkDown(r) \/ MarkStuck(r)

WorkerStep == Take \/ RunJob(Worker) \/ Settle \/ Stalled

Next ==
    /\ \/ \E r \in Requests : Begin(r) \/ Continue(r) \/ Die(r)
       \/ \E c \in Contents : Patch(c)
       \/ WorkerStep \/ WorkerDies \/ Forget
    /\ UNCHANGED regime

(* The worker is restarted when it dies, and goes on; so does a request     *)
(* that does not die.  Nobody has to save, ask or withdraw anything, and a  *)
(* finished job may be retained for ever.                                   *)
Fairness ==
    /\ WF_vars(WorkerStep /\ UNCHANGED regime)
    /\ \A r \in Requests : WF_vars(Continue(r) /\ UNCHANGED regime)

Spec == Init /\ [][Next]_vars /\ Fairness

-----------------------------------------------------------------------------
(* Properties.                                                             *)

(* What a shop says only while it is unlisted never gets to ECKE, not even *)
(* to a hidden row, and even if the shop is unlisted, or asked for again,  *)
(* while its job waits or runs.  (The executor decides from the row it     *)
(* reads, and publishes that row.)                                         *)
OnlyOfferedIsShown == remote.content # Nothing => remote.content \in offered

(* A target that says unpublished means that ECKE hides the shop.  While   *)
(* Redis answers, one that says published after a completed job tells what *)
(* ECKE's row says.  Both hold whatever answers get lost, wherever the     *)
(* worker and the requests die, and however publishing and withdrawing     *)
(* overlap.  Published does not tell that the row is shown, since a row    *)
(* that was ever withdrawn stays hidden.  (The order of upsert, push and   *)
(* mark in executeEckePublishVendor and its withdrawing counterpart.)      *)
StatusIsTrue ==
    /\ target.status = "unpublished" => remote.status = "draft"
    /\ Queued /\ target.status = "published" /\ job.state = "completed"
          => remote.content = target.hash

(* A job that waits brings what the shop says when it runs to ECKE, so     *)
(* nothing is lost when a save finds a job waiting: ECKE's row comes to    *)
(* say it, or the shop is changed again, or the job is on record as        *)
(* failed.  A worker that dies does not change that.  (The dedupe by job   *)
(* id, the executor's read of the row, and the throw for a result that is  *)
(* not ok.)                                                                *)
WaitingJobPublishes ==
    \A c \in Contents :
        (job.state = "waiting" /\ profile = [content |-> c, listed |-> TRUE])
            ~> (remote.content = c \/ profile # [content |-> c, listed |-> TRUE]
                                   \/ job.state = "failed")
=============================================================================
