----------------------- MODULE VendorPublishingProofs -----------------------
(***************************************************************************)
(* Proofs about VendorPublishing: what ECKE shows was offered, and the     *)
(* target row tells the truth.                                             *)
(***************************************************************************)
EXTENDS VendorPublishing, TLAPS


-----------------------------------------------------------------------------
(* Types.                                                                  *)

LEMMA NoTargetType == NoTarget \in Target /\ Idle \in Doing /\ NoRow \in Row
BY DEF NoTarget, Target, Idle, Doing, PublishSteps, WithdrawSteps, NoRow, Row

(* ECKE's row keeps its type when the shop is published or withdrawn.      *)
LEMMA RowType ==
    ASSUME TypeOK
    PROVE  /\ Hidden \in Row /\ Hidden.status = "draft" /\ Hidden.content = remote.content
           /\ \A c \in Contents \cup {Nothing} :
                 /\ Republished(c) \in Row /\ Republished(c).content = c
                 /\ remote.status = "draft" => Republished(c).status = "draft"
BY DEF TypeOK, Row, Hidden, Republished, NoRow

(* Moving an actor on, whatever it holds, keeps the type of exec.          *)
LEMMA GotoType ==
    ASSUME TypeOK, NEW a \in Actors,
           NEW pc \in {"idle", "enqueue"} \cup PublishSteps \cup WithdrawSteps, Goto(a, pc)
    PROVE  exec' \in [Actors -> Doing]
BY DEF TypeOK, Goto, Doing, Actors

LEMMA FinishType ==
    ASSUME TypeOK, NEW a \in Actors, Finish(a)
    PROVE  exec' \in [Actors -> Doing]
BY NoTargetType DEF TypeOK, Finish, Actors

(* What the job does to the tables and to its actor keeps their types.     *)
LEMMA RunJobType ==
    ASSUME TypeOK, NEW a \in Actors, RunJob(a), UNCHANGED regime
    PROVE  TypeOK'
<1> USE DEF PublishSteps, WithdrawSteps
<1>1. CASE ReadShop(a)
  BY <1>1 DEF ReadShop, TypeOK, Doing, Profile, Actors
<1>2. CASE SelectTarget(a)
  BY <1>2 DEF SelectTarget, TypeOK, Doing, Actors
<1>3. CASE UpsertTarget(a)
  <2>1. StatusFor(exec[a].content, exec[a].seen) \in {"draft", "stale", "published"}
    BY DEF StatusFor
  <2>2. target' \in Target
    BY <1>3, <2>1 DEF UpsertTarget, TypeOK, Target
  <2>3. exec' \in [Actors -> Doing]
    BY <1>3, NoTargetType DEF UpsertTarget, TypeOK, Doing, Idle, Actors
  <2> QED
    BY <1>3, <2>2, <2>3 DEF UpsertTarget, TypeOK
<1>4. CASE Push(a)
  <2>1. exec[a].content \in Contents \cup {Nothing}
    BY DEF TypeOK, Doing
  <2>2. remote' \in {Republished(exec[a].content), remote}
    BY <1>4 DEF Push
  <2>3. exec' \in [Actors -> Doing]
    BY <1>4 DEF Push, TypeOK, Goto, Doing, Actors
  <2>4. remote' \in Row
    BY <2>1, <2>2, RowType DEF TypeOK
  <2> QED
    BY <1>4, <2>3, <2>4 DEF Push, TypeOK
<1>5. CASE MarkPublished(a)
  <2>1. target' \in Target /\ exec' \in [Actors -> Doing]
    BY <1>5, NoTargetType DEF MarkPublished, TypeOK, Target, Doing, Idle, Actors
  <2> QED
    BY <1>5, <2>1 DEF MarkPublished, TypeOK
<1>6. CASE MarkError(a)
  <2>1. target' \in Target /\ exec' \in [Actors -> Doing]
    BY <1>6, NoTargetType DEF MarkError, TypeOK, Target, Doing, Idle, Actors
  <2> QED
    BY <1>6, <2>1 DEF MarkError, TypeOK
<1> QED
  BY <1>1, <1>2, <1>3, <1>4, <1>5, <1>6 DEF RunJob

LEMMA StoreType ==
    ASSUME TypeOK, NEW p \in Profile, Store(p)
    PROVE  profile' \in Profile /\ offered' \subseteq Contents
BY DEF TypeOK, Store, Said, Profile

(* A request or the worker does something: the types are kept.             *)
LEMMA TypeStep == TypeOK /\ [Next]_vars => TypeOK'
<1> SUFFICES ASSUME TypeOK, [Next]_vars PROVE TypeOK'
  OBVIOUS
<1> USE DEF PublishSteps, WithdrawSteps
<1>1. CASE UNCHANGED vars
  BY <1>1 DEF vars, TypeOK
<1>2. CASE Next
  <2>1. ASSUME NEW r \in Requests, Begin(r) PROVE TypeOK'
    <3>1. r \in Actors /\ UNCHANGED regime
      BY <1>2 DEF Actors, Next
    <3>2. ASSUME NEW p \in Profile, Save(r, p) PROVE TypeOK'
      <4>1. exec' \in [Actors -> Doing]
        BY <3>1, <3>2, GotoType DEF Save, TypeOK
      <4> QED
        BY <3>1, <3>2, <4>1, StoreType DEF Save, Store, TypeOK
    <3>3. CASE Ask(r)
      BY <3>1, <3>3, GotoType DEF Ask, TypeOK
    <3>4. CASE Withdraw(r)
      BY <3>1, <3>4, GotoType DEF Withdraw, TypeOK
    <3> QED
      BY <2>1, <3>2, <3>3, <3>4 DEF Begin
  <2>2. ASSUME NEW r \in Requests, Continue(r) PROVE TypeOK'
    <3>1. r \in Actors /\ UNCHANGED regime
      BY <1>2 DEF Actors, Next
    <3>2. CASE Enqueue(r)
      <4>1. job' \in Job
        BY <3>2 DEF Enqueue, Add, Job, TypeOK
      <4> QED
        BY <3>1, <3>2, <4>1, FinishType DEF Enqueue, TypeOK
    <3>3. CASE RunInline(r)
      BY <3>1, <3>3, GotoType DEF RunInline, TypeOK
    <3>4. CASE RunJob(r)
      BY <3>1, <3>4, RunJobType
    <3>5. CASE Answer(r)
      BY <3>1, <3>5, FinishType DEF Answer, TypeOK
    <3>6. CASE CheckTarget(r)
      <4>1. exec' \in [Actors -> Doing]
        BY <3>1, <3>6, GotoType DEF CheckTarget
      <4> QED
        BY <3>1, <3>6, <4>1 DEF CheckTarget, TypeOK
    <3>7. CASE TakeDown(r)
      <4>1. exec' \in [Actors -> Doing]
        BY <3>1, <3>7 DEF TakeDown, Goto, Doing, TypeOK
      <4>2. remote' \in {Hidden, remote}
        BY <3>7 DEF TakeDown
      <4>3. remote' \in Row
        BY <4>2, RowType DEF TypeOK
      <4> QED
        BY <3>1, <3>7, <4>1, <4>3 DEF TakeDown, TypeOK
    <3>8. CASE MarkDown(r)
      BY <3>1, <3>8, FinishType DEF MarkDown, TypeOK, Target
    <3>9. CASE MarkStuck(r)
      BY <3>1, <3>9, FinishType DEF MarkStuck, TypeOK, Target
    <3> QED
      BY <2>2, <3>2, <3>3, <3>4, <3>5, <3>6, <3>7, <3>8, <3>9 DEF Continue
  <2>3. ASSUME NEW r \in Requests, Die(r) PROVE TypeOK'
    BY <1>2, <2>3, FinishType DEF Die, TypeOK, Actors, Next
  <2>4. ASSUME NEW c \in Contents, Patch(c) PROVE TypeOK'
    <3>1. [profile EXCEPT !.content = c] \in Profile
      BY DEF TypeOK, Profile
    <3> QED
      BY <1>2, <2>4, <3>1, StoreType DEF Patch, Store, TypeOK, Next
  <2>5. CASE WorkerStep
    <3>1. Worker \in Actors /\ UNCHANGED regime
      BY <1>2 DEF Actors, Next
    <3>2. CASE Take
      BY <3>1, <3>2, GotoType DEF Take, TypeOK, Job
    <3>3. CASE RunJob(Worker)
      BY <3>1, <3>3, RunJobType
    <3>4. CASE Settle
      BY <3>1, <3>4, FinishType DEF Settle, TypeOK, Job
    <3>5. CASE Stalled
      BY <3>1, <3>5 DEF Stalled, TypeOK, Job
    <3> QED
      BY <2>5, <3>2, <3>3, <3>4, <3>5 DEF WorkerStep
  <2>6. CASE WorkerDies
    BY <1>2, <2>6, FinishType DEF WorkerDies, TypeOK, Actors, Next
  <2>7. CASE Forget
    BY <1>2, <2>7 DEF Forget, TypeOK, Job, NoJob, Next
  <2> QED
    BY <1>2, <2>1, <2>2, <2>3, <2>4, <2>5, <2>6, <2>7 DEF Next
<1> QED
  BY <1>1, <1>2

(* The shop, the job, the target and what everybody is doing keep their    *)
(* types, for any number of requests and contents.                         *)
THEOREM TypeCorrect == Spec => []TypeOK
<1>1. Init => TypeOK
  BY NoTargetType DEF Init, TypeOK, NoJob, Job, Profile, Said, Actors
<1> QED
  BY <1>1, TypeStep, PTL DEF Spec

-----------------------------------------------------------------------------
(* What is shown was offered.                                              *)

\* Whoever carries a shop to ECKE read it while it was listed.
CarriedIsOffered ==
    /\ profile.listed => profile.content \in offered
    /\ \A a \in Actors :
          exec[a].pc \in {"select", "upsert", "push", "markPublished"}
              => exec[a].content \in offered

OfferedInv == TypeOK /\ CarriedIsOffered /\ OnlyOfferedIsShown

(* A step of the job keeps it.                                             *)
LEMMA OfferedRunJob ==
    ASSUME OfferedInv, NEW a \in Actors, RunJob(a)
    PROVE  CarriedIsOffered' /\ OnlyOfferedIsShown'
<1> USE DEF OfferedInv, CarriedIsOffered, OnlyOfferedIsShown, TypeOK, At, Doing
<1>1. CASE ReadShop(a)
  BY <1>1 DEF ReadShop, Profile
<1>2. CASE SelectTarget(a)
  BY <1>2 DEF SelectTarget
<1>3. CASE UpsertTarget(a)
  BY <1>3 DEF UpsertTarget, Idle
<1>4. CASE Push(a)
  <2>1. PICK written, told \in BOOLEAN :
           /\ remote' = IF written THEN Republished(exec[a].content) ELSE remote
           /\ Goto(a, IF told THEN "markPublished" ELSE "markError")
    BY <1>4 DEF Push
  <2>2. exec[a].content \in offered /\ UNCHANGED <<profile, offered>>
    BY <1>4 DEF Push
  <2>3. \A b \in Actors : /\ exec'[b].content = exec[b].content
                          /\ b # a => exec'[b].pc = exec[b].pc
    BY <2>1 DEF Goto
  <2>4. remote'.content \in {exec[a].content, remote.content}
    BY <2>1, RowType
  <2> QED
    BY <2>1, <2>2, <2>3, <2>4
<1>5. CASE MarkPublished(a)
  BY <1>5 DEF MarkPublished, Idle
<1>6. CASE MarkError(a)
  BY <1>6 DEF MarkError, Idle
<1> QED
  BY <1>1, <1>2, <1>3, <1>4, <1>5, <1>6 DEF RunJob

\* An actor moves to a step that carries nothing, and ECKE's row says what it
\* said.
Harmless(a) ==
    /\ \A b \in Actors : b # a => exec'[b] = exec[b]
    /\ exec'[a].pc \notin {"select", "upsert", "push", "markPublished"}
    /\ remote'.content = remote.content

(* Such a move keeps it, whatever happens to the shop.                     *)
LEMMA OfferedHarmless ==
    ASSUME OfferedInv, NEW a \in Actors, Harmless(a), offered \subseteq offered',
           profile'.listed => profile'.content \in offered'
    PROVE  CarriedIsOffered' /\ OnlyOfferedIsShown'
BY DEF OfferedInv, CarriedIsOffered, OnlyOfferedIsShown, Harmless

(* Moves to a step, and ends, are harmless.                                *)
LEMMA GotoHarmless ==
    ASSUME TypeOK, NEW a \in Actors,
           NEW pc \in {"idle", "enqueue", "read", "done", "failed", "markError"} \cup WithdrawSteps,
           Goto(a, pc) \/ Finish(a), remote'.content = remote.content
    PROVE  Harmless(a)
<1>1. CASE Goto(a, pc)
  BY <1>1 DEF TypeOK, Goto, Doing, Harmless, WithdrawSteps
<1>2. CASE Finish(a)
  BY <1>2 DEF TypeOK, Finish, Idle, Harmless
<1> QED
  BY <1>1, <1>2

(* Storing a shop records what it offers.                                  *)
LEMMA StoreOffers ==
    ASSUME OfferedInv, NEW p \in Profile, Store(p)
    PROVE  /\ offered \subseteq offered' /\ remote' = remote
           /\ profile'.listed => profile'.content \in offered'
BY DEF Store, Said, Profile

(* Every step keeps it.                                                    *)
LEMMA OfferedStep == OfferedInv /\ [Next]_vars => OfferedInv'
<1> SUFFICES ASSUME OfferedInv, [Next]_vars PROVE CarriedIsOffered' /\ OnlyOfferedIsShown'
  BY TypeStep DEF OfferedInv
<1>t. TypeOK /\ (profile.listed => profile.content \in offered)
  BY DEF OfferedInv, CarriedIsOffered
<1>1. CASE UNCHANGED vars
  BY <1>1 DEF vars, OfferedInv, CarriedIsOffered, OnlyOfferedIsShown
<1>2. CASE Next
  <2> USE DEF WithdrawSteps
  <2>1. ASSUME NEW r \in Requests, Begin(r) PROVE CarriedIsOffered' /\ OnlyOfferedIsShown'
    <3>1. r \in Actors
      BY DEF Actors
    <3>2. ASSUME NEW p \in Profile, Save(r, p) PROVE CarriedIsOffered' /\ OnlyOfferedIsShown'
      <4>1. CASE p.listed
        BY <1>t, <3>1, <3>2, <4>1, GotoHarmless, StoreOffers, OfferedHarmless DEF Save
      <4>2. CASE ~p.listed
        <5>1. UNCHANGED exec
          BY <3>2, <4>2 DEF Save
        <5>2. offered \subseteq offered' /\ remote' = remote
              /\ (profile'.listed => profile'.content \in offered')
          BY <3>2, StoreOffers DEF Save
        <5> QED
          BY <5>1, <5>2 DEF OfferedInv, CarriedIsOffered, OnlyOfferedIsShown
      <4> QED
        BY <4>1, <4>2
    <3>3. CASE Ask(r)
      BY <1>t, <3>1, <3>3, GotoHarmless, OfferedHarmless DEF Ask
    <3>4. CASE Withdraw(r)
      BY <1>t, <3>1, <3>4, GotoHarmless, OfferedHarmless DEF Withdraw
    <3> QED
      BY <2>1, <3>2, <3>3, <3>4 DEF Begin
  <2>2. ASSUME NEW r \in Requests, Continue(r) PROVE CarriedIsOffered' /\ OnlyOfferedIsShown'
    <3>1. r \in Actors
      BY DEF Actors
    <3>2. CASE Enqueue(r)
      BY <1>t, <3>1, <3>2, GotoHarmless, OfferedHarmless DEF Enqueue
    <3>3. CASE RunInline(r)
      BY <1>t, <3>1, <3>3, GotoHarmless, OfferedHarmless DEF RunInline
    <3>4. CASE RunJob(r)
      BY <3>1, <3>4, OfferedRunJob
    <3>5. CASE Answer(r)
      BY <1>t, <3>1, <3>5, GotoHarmless, OfferedHarmless DEF Answer
    <3>6. CASE CheckTarget(r)
      BY <1>t, <3>1, <3>6, GotoHarmless, OfferedHarmless DEF CheckTarget
    <3>7. CASE TakeDown(r)
      <4>1. PICK told \in BOOLEAN : /\ Goto(r, IF told THEN "markDown" ELSE "markStuck")
                                    /\ remote'.content = remote.content
        BY <1>t, <3>7, RowType DEF TakeDown
      <4>2. Harmless(r)
        BY <1>t, <3>1, <4>1, GotoHarmless
      <4> QED
        BY <1>t, <3>1, <3>7, <4>2, OfferedHarmless DEF TakeDown
    <3>8. CASE MarkDown(r)
      BY <1>t, <3>1, <3>8, GotoHarmless, OfferedHarmless DEF MarkDown
    <3>9. CASE MarkStuck(r)
      BY <1>t, <3>1, <3>9, GotoHarmless, OfferedHarmless DEF MarkStuck
    <3> QED
      BY <2>2, <3>2, <3>3, <3>4, <3>5, <3>6, <3>7, <3>8, <3>9 DEF Continue
  <2>3. ASSUME NEW r \in Requests, Die(r) PROVE CarriedIsOffered' /\ OnlyOfferedIsShown'
    <3>1. r \in Actors
      BY DEF Actors
    <3> QED
      BY <1>t, <2>3, <3>1, GotoHarmless, OfferedHarmless DEF Die
  <2>4. ASSUME NEW c \in Contents, Patch(c) PROVE CarriedIsOffered' /\ OnlyOfferedIsShown'
    <3>1. [profile EXCEPT !.content = c] \in Profile
      BY <1>t DEF TypeOK, Profile
    <3>2. /\ offered \subseteq offered' /\ remote' = remote /\ exec' = exec
          /\ profile'.listed => profile'.content \in offered'
      BY <2>4, <3>1, StoreOffers DEF Patch
    <3> QED
      BY <3>2 DEF OfferedInv, CarriedIsOffered, OnlyOfferedIsShown
  <2>5. Worker \in Actors
    BY DEF Actors
  <2>6. CASE Take
    BY <1>t, <2>5, <2>6, GotoHarmless, OfferedHarmless DEF Take
  <2>7. CASE RunJob(Worker)
    BY <2>5, <2>7, OfferedRunJob
  <2>8. CASE Settle
    BY <1>t, <2>5, <2>8, GotoHarmless, OfferedHarmless DEF Settle
  <2>9. CASE WorkerDies
    BY <1>t, <2>5, <2>9, GotoHarmless, OfferedHarmless DEF WorkerDies
  <2>10. CASE Stalled \/ Forget
    BY <2>10 DEF Stalled, Forget, OfferedInv, CarriedIsOffered, OnlyOfferedIsShown
  <2> QED
    BY <1>2, <2>1, <2>2, <2>3, <2>4, <2>6, <2>7, <2>8, <2>9, <2>10 DEF Next, WorkerStep
<1> QED
  BY <1>1, <1>2

(* What a shop says only while it is unlisted never appears on ECKE, for   *)
(* any number of requests, and however publishing and withdrawing overlap. *)
THEOREM OnlyOffered == Spec => []OnlyOfferedIsShown
<1>1. Init => OfferedInv
  <2> SUFFICES ASSUME Init PROVE OfferedInv
    OBVIOUS
  <2>1. TypeOK
    BY NoTargetType DEF Init, TypeOK, NoJob, Job, Profile, Said, Actors
  <2> QED
    BY <2>1 DEF Init, OfferedInv, CarriedIsOffered, OnlyOfferedIsShown, Said, Idle,
                NoRow
<1>2. OfferedInv => OnlyOfferedIsShown
  BY DEF OfferedInv
<1> QED
  BY <1>1, <1>2, OfferedStep, PTL DEF Spec

-----------------------------------------------------------------------------
(* The target row.                                                         *)

\* A shop that is recorded as taken down, or is about to be, is hidden.
DownIsHidden ==
    /\ target.status = "unpublished" => remote.status = "draft"
    /\ \A r \in Requests : At(r, "markDown") => remote.status = "draft"

\* While Redis answers, the worker alone publishes, as the active job.
WorkerPublishes ==
    Queued =>
        /\ \A r \in Requests : exec[r].pc \notin PublishSteps
        /\ exec[Worker].pc \in PublishSteps => job.state = "active"

\* What it has published is what the row says, until the next job.
RowAgrees ==
    Queued =>
        /\ At(Worker, "markPublished") => remote.content = exec[Worker].content
        /\ At(Worker, "done") /\ target.status = "published" => remote.content = target.hash
        /\ target.status = "published" /\ job.state = "completed"
              => remote.content = target.hash

TruthInv == TypeOK /\ DownIsHidden /\ WorkerPublishes /\ RowAgrees

\* An actor comes to a step, and the others stay where they are.
Moves(a, pc) ==
    /\ exec'[a].pc = pc
    /\ \A b \in Actors \ {a} : exec'[b] = exec[b]

LEMMA GotoMoves ==
    ASSUME TypeOK, NEW a \in Actors, NEW pc, Goto(a, pc)
    PROVE  Moves(a, pc) /\ exec'[a].content = exec[a].content
BY DEF TypeOK, Goto, Doing, Moves

LEMMA FinishMoves ==
    ASSUME TypeOK, NEW a \in Actors, Finish(a)
    PROVE  Moves(a, "idle")
BY DEF TypeOK, Finish, Idle, Moves

(* Where each step of the job goes, and what it writes.                    *)
LEMMA JobMoves ==
    ASSUME TypeOK, NEW a \in Actors, RunJob(a)
    PROVE  /\ exec[a].pc \in PublishSteps /\ UNCHANGED job
           /\ \/ /\ \E pc \in {"select", "upsert", "failed"} : Moves(a, pc)
                 /\ UNCHANGED <<target, remote>>
              \/ /\ Moves(a, "push") /\ UNCHANGED remote
                 /\ target'.status \in {"draft", "stale", "published"}
              \/ /\ Moves(a, "markPublished") /\ UNCHANGED target
                 /\ remote' = Republished(exec[a].content)
                 /\ exec'[a].content = exec[a].content
              \/ /\ Moves(a, "markError") /\ UNCHANGED target
                 /\ remote' \in {remote, Republished(exec[a].content)}
              \/ /\ exec[a].pc = "markPublished" /\ Moves(a, "done") /\ UNCHANGED remote
                 /\ target'.status = "published" /\ target'.hash = exec[a].content
              \/ /\ Moves(a, "failed") /\ UNCHANGED remote
                 /\ target'.status = "error"
<1> USE DEF At, PublishSteps
<1>1. CASE ReadShop(a)
  <2>1. PICK pc \in {"select", "failed"} : Moves(a, pc)
    BY <1>1 DEF ReadShop, TypeOK, Doing, Moves
  <2> QED
    BY <1>1, <2>1 DEF ReadShop
<1>2. CASE SelectTarget(a)
  <2>1. Moves(a, "upsert")
    BY <1>2 DEF SelectTarget, TypeOK, Doing, Moves
  <2> QED
    BY <1>2, <2>1 DEF SelectTarget
<1>3. CASE UpsertTarget(a)
  <2>1. CASE exec[a].seen.status = "none" /\ target.status # "none"
    <3>1. Moves(a, "failed") /\ UNCHANGED <<target, remote>>
      BY <1>3, <2>1 DEF UpsertTarget, TypeOK, Doing, Idle, Moves
    <3> QED
      BY <1>3, <3>1 DEF UpsertTarget
  <2>2. CASE ~(exec[a].seen.status = "none" /\ target.status # "none")
    <3>1. Moves(a, "push") /\ UNCHANGED remote
      BY <1>3, <2>2 DEF UpsertTarget, TypeOK, Doing, Moves
    <3>2. target'.status \in {"published", "stale", "draft"}
      BY <1>3, <2>2 DEF UpsertTarget, StatusFor, TypeOK, Target
    <3> QED
      BY <1>3, <3>1, <3>2 DEF UpsertTarget
  <2> QED
    BY <2>1, <2>2
<1>4. CASE Push(a)
  <2>1. PICK written, told \in BOOLEAN :
           /\ told => written
           /\ remote' = IF written THEN Republished(exec[a].content) ELSE remote
           /\ Goto(a, IF told THEN "markPublished" ELSE "markError")
    BY <1>4 DEF Push
  <2>2. /\ Moves(a, IF told THEN "markPublished" ELSE "markError")
        /\ exec'[a].content = exec[a].content
    BY <2>1, GotoMoves
  <2>3. exec[a].pc = "push" /\ UNCHANGED <<target, job>>
    BY <1>4 DEF Push
  <2> QED
    BY <2>1, <2>2, <2>3
<1>5. CASE MarkPublished(a)
  <2>1. Moves(a, "done")
    BY <1>5 DEF MarkPublished, TypeOK, Doing, Idle, Moves
  <2> QED
    BY <1>5, <2>1 DEF MarkPublished
<1>6. CASE MarkError(a)
  <2>1. Moves(a, "failed") /\ target'.status = "error"
    BY <1>6 DEF MarkError, TypeOK, Doing, Idle, Target, Moves
  <2> QED
    BY <1>6, <2>1 DEF MarkError
<1> QED
  BY <1>1, <1>2, <1>3, <1>4, <1>5, <1>6 DEF RunJob

\* An actor moves to a step outside the job, and neither row is written.
StepsAside(a) ==
    /\ \E pc \in {"idle", "enqueue", "read", "check", "withdraw"} : Moves(a, pc)
    /\ UNCHANGED <<target, remote>>

(* What a request does that is not a step of the job.                      *)
LEMMA RequestMoves ==
    ASSUME TypeOK, NEW r \in Requests, Begin(r) \/ Continue(r) \/ Die(r), ~RunJob(r)
    PROVE  /\ \/ StepsAside(r)
              \/ UNCHANGED <<exec, target, remote>>
              \/ At(r, "check") /\ target.status = "unpublished" /\ Moves(r, "markDown")
                 /\ UNCHANGED <<target, remote>>
              \/ Moves(r, "markDown") /\ remote' = Hidden /\ UNCHANGED target
              \/ Moves(r, "markStuck") /\ remote' \in {remote, Hidden} /\ UNCHANGED target
              \/ At(r, "markDown") /\ Moves(r, "idle") /\ UNCHANGED remote
                 /\ target'.status = "unpublished"
              \/ Moves(r, "idle") /\ UNCHANGED remote /\ target'.status = "error"
           /\ job.state = "active" => job'.state = "active"
           /\ job'.state = "completed" => job.state = "completed"
           /\ Queued => exec'[r].pc # "read"
<1>1. r \in Actors
  BY DEF Actors
<1> USE DEF At, StepsAside
<1>2. ASSUME NEW p \in Profile, Save(r, p)
      PROVE  StepsAside(r) \/ UNCHANGED <<exec, target, remote>>
  <2>1. CASE p.listed
    BY <1>1, <1>2, <2>1, GotoMoves DEF Save, Store
  <2>2. CASE ~p.listed
    BY <1>2, <2>2 DEF Save, Store
  <2> QED
    BY <2>1, <2>2
<1>3. ASSUME NEW p \in Profile, Save(r, p) PROVE UNCHANGED job /\ exec'[r].pc # "read"
  <2>1. exec'[r].pc \in {"idle", "enqueue"}
    <3>1. CASE p.listed
      BY <1>1, <1>3, <3>1, GotoMoves DEF Save, Moves
    <3>2. CASE ~p.listed
      BY <1>3, <3>2 DEF Save
    <3> QED
      BY <3>1, <3>2
  <2> QED
    BY <1>3, <2>1 DEF Save, Store
<1>4. CASE Ask(r)
  <2>1. Moves(r, "enqueue")
    BY <1>1, <1>4, GotoMoves DEF Ask
  <2> QED
    BY <1>4, <2>1 DEF Ask, Moves
<1>5. CASE Withdraw(r)
  <2>1. Moves(r, "check")
    BY <1>1, <1>5, GotoMoves DEF Withdraw
  <2> QED
    BY <1>5, <2>1 DEF Withdraw, Moves
<1>6. CASE Enqueue(r)
  <2>1. Moves(r, "idle")
    BY <1>1, <1>6, FinishMoves DEF Enqueue
  <2>2. /\ job.state = "active" => job'.state = "active"
        /\ job'.state = "completed" => job.state = "completed"
    BY <1>6 DEF Enqueue, Add
  <2> QED
    BY <1>6, <2>1, <2>2 DEF Enqueue, Moves
<1>7. CASE RunInline(r)
  <2>1. Moves(r, "read")
    BY <1>1, <1>7, GotoMoves DEF RunInline
  <2> QED
    BY <1>7, <2>1 DEF RunInline
<1>8. CASE Answer(r) \/ Die(r)
  <2>1. Moves(r, "idle")
    BY <1>1, <1>8, FinishMoves DEF Answer, Die
  <2> QED
    BY <1>8, <2>1 DEF Answer, Die, Moves
<1>9. CASE CheckTarget(r)
  <2>1. Moves(r, IF target.status = "unpublished" THEN "markDown" ELSE "withdraw")
    BY <1>1, <1>9, GotoMoves DEF CheckTarget
  <2> QED
    BY <1>9, <2>1 DEF CheckTarget, Moves
<1>10. CASE TakeDown(r)
  <2>1. PICK written, told \in BOOLEAN :
           /\ told => written
           /\ remote' = IF written THEN Hidden ELSE remote
           /\ Goto(r, IF told THEN "markDown" ELSE "markStuck")
    BY <1>10 DEF TakeDown
  <2>2. Moves(r, IF told THEN "markDown" ELSE "markStuck")
    BY <1>1, <2>1, GotoMoves
  <2> QED
    BY <1>10, <2>1, <2>2 DEF TakeDown, Moves
<1>11. CASE MarkDown(r)
  <2>1. Moves(r, "idle")
    BY <1>1, <1>11, FinishMoves DEF MarkDown
  <2>2. target'.status = "unpublished"
    BY <1>11 DEF MarkDown, TypeOK, Target
  <2> QED
    BY <1>11, <2>1, <2>2 DEF MarkDown, Moves
<1>12. CASE MarkStuck(r)
  <2>1. Moves(r, "idle")
    BY <1>1, <1>12, FinishMoves DEF MarkStuck
  <2>2. target'.status = "error"
    BY <1>12 DEF MarkStuck, TypeOK, Target
  <2> QED
    BY <1>12, <2>1, <2>2 DEF MarkStuck, Moves
<1> QED
  BY <1>2, <1>3, <1>4, <1>5, <1>6, <1>7, <1>8, <1>9, <1>10, <1>11, <1>12 DEF Begin, Continue

(* What happens to the job itself, and to the worker.                      *)
LEMMA QueueMoves ==
    ASSUME TypeOK, Take \/ Settle \/ Stalled \/ WorkerDies \/ Forget
    PROVE  /\ UNCHANGED <<target, remote>>
           /\ \/ Moves(Worker, "read") /\ job'.state = "active"
              \/ Moves(Worker, "idle")
              \/ UNCHANGED exec /\ exec[Worker].pc \notin PublishSteps
              \/ UNCHANGED exec /\ job.state # "active"
           /\ job'.state = "completed" => job.state = "completed" \/ At(Worker, "done")
<1>1. Worker \in Actors
  BY DEF Actors
<1>2. CASE Take
  BY <1>1, <1>2, GotoMoves DEF Take, TypeOK, Job
<1>3. CASE Settle
  BY <1>1, <1>3, FinishMoves DEF Settle, TypeOK, Job
<1>4. CASE Stalled
  BY <1>4 DEF Stalled, TypeOK, Job, At, PublishSteps
<1>5. CASE WorkerDies
  BY <1>1, <1>5, FinishMoves DEF WorkerDies
<1>6. CASE Forget
  BY <1>6 DEF Forget, NoJob
<1> QED
  BY <1>2, <1>3, <1>4, <1>5, <1>6

(* A shop that is recorded as taken down is hidden after each step too:    *)
(* nothing brings the status of the row back.                              *)
LEMMA DownStep ==
    ASSUME TypeOK, DownIsHidden, Next
    PROVE  DownIsHidden'
<1> USE DEF DownIsHidden, At, Moves
<1>1. \A r \in Requests : r \in Actors /\ r # Worker
  BY PublishingAssumption DEF Actors
<1>2. Worker \in Actors
  BY DEF Actors
<1>3. ASSUME NEW a \in Actors, RunJob(a) PROVE DownIsHidden'
  <2>1. remote.status = "draft" => remote'.status = "draft"
    <3>1. exec[a].content \in Contents \cup {Nothing}
      BY DEF TypeOK, Doing
    <3>2. remote' \in {remote, Republished(exec[a].content)}
      BY <1>3, JobMoves
    <3> QED
      BY <3>1, <3>2, RowType
  <2>2. target'.status = "unpublished" => target.status = "unpublished"
    BY <1>3, JobMoves
  <2>3. exec'[a].pc # "markDown" /\ \A b \in Actors \ {a} : exec'[b] = exec[b]
    BY <1>3, JobMoves
  <2> QED
    BY <1>1, <2>1, <2>2, <2>3
<1>4. ASSUME NEW r \in Requests, Begin(r) \/ Continue(r) \/ Die(r), ~RunJob(r)
      PROVE  DownIsHidden'
  <2>1. remote' \in {remote, Hidden}
    BY <1>4, RequestMoves DEF StepsAside
  <2>2. remote.status = "draft" => remote'.status = "draft"
    BY <2>1, RowType
  <2>3. target'.status = "unpublished" => target.status = "unpublished" \/ At(r, "markDown")
    BY <1>4, RequestMoves DEF StepsAside
  <2>4. exec'[r].pc = "markDown" =>
           exec[r].pc = "markDown" \/ target.status = "unpublished" \/ remote' = Hidden
    BY <1>1, <1>4, RequestMoves DEF StepsAside
  <2>5. \A b \in Actors \ {r} : exec'[b] = exec[b]
    BY <1>1, <1>4, RequestMoves DEF StepsAside
  <2> QED
    BY <1>1, <2>2, <2>3, <2>4, <2>5, RowType
<1>5. CASE Take \/ Settle \/ Stalled \/ WorkerDies \/ Forget
  <2>1. UNCHANGED <<target, remote>> /\ \A b \in Actors \ {Worker} : exec'[b] = exec[b]
    BY <1>5, QueueMoves
  <2> QED
    BY <1>1, <2>1
<1>6. ASSUME NEW c \in Contents, Patch(c) PROVE DownIsHidden'
  BY <1>6 DEF Patch, Store
<1> QED
  BY <1>1, <1>2, <1>3, <1>4, <1>5, <1>6 DEF Next, Continue, WorkerStep

(* While Redis answers, each step keeps what the worker published.         *)
LEMMA PublishedStep ==
    ASSUME TypeOK, WorkerPublishes, RowAgrees, Queued, Next
    PROVE  WorkerPublishes' /\ RowAgrees'
<1> USE DEF WorkerPublishes, RowAgrees, Queued, At
<1>1. /\ Worker \in Actors /\ Worker \notin Requests /\ Queued'
      /\ \A q \in Requests : q \in Actors \ {Worker}
  BY PublishingAssumption DEF Actors, Next
<1>2. CASE RunJob(Worker)
  <2>1. /\ exec[Worker].pc \in PublishSteps /\ job.state = "active" /\ job' = job
        /\ \A q \in Requests : exec'[q] = exec[q]
    BY <1>1, <1>2, JobMoves DEF Moves
  <2>2. exec[Worker].content \in Contents \cup {Nothing}
    BY <1>1 DEF TypeOK, Doing
  <2>3. exec'[Worker].pc = "markPublished" => remote'.content = exec'[Worker].content
    BY <1>1, <1>2, <2>2, JobMoves, RowType DEF Moves
  <2>4. exec'[Worker].pc = "done" => remote'.content = target'.hash
    BY <1>1, <1>2, JobMoves DEF Moves
  <2> QED
    BY <1>1, <2>1, <2>3, <2>4
<1>3. ASSUME NEW r \in Requests, Begin(r) \/ Continue(r) \/ Die(r)
      PROVE  WorkerPublishes' /\ RowAgrees'
  <2>1. ~RunJob(r)
    BY <1>1, JobMoves
  <2>2. /\ exec'[r].pc \notin PublishSteps
        /\ \A b \in Actors \ {r} : exec'[b] = exec[b]
    BY <1>1, <1>3, <2>1, RequestMoves DEF StepsAside, Moves, PublishSteps
  <2>3. /\ job.state = "active" => job'.state = "active"
        /\ job'.state = "completed" => job.state = "completed"
    BY <1>3, <2>1, RequestMoves
  <2>4. target' = target \/ target'.status \in {"unpublished", "error"}
    BY <1>3, <2>1, RequestMoves DEF StepsAside
  <2>5. remote' \in {remote, Hidden}
    BY <1>3, <2>1, RequestMoves DEF StepsAside
  <2>6. remote'.content = remote.content
    BY <2>5, RowType
  <2> QED
    BY <1>1, <2>2, <2>3, <2>4, <2>6
<1>4. CASE Take \/ Settle \/ Stalled \/ WorkerDies \/ Forget
  <2>1. /\ UNCHANGED <<target, remote>>
        /\ \A q \in Requests : exec'[q] = exec[q]
        /\ job'.state = "completed" => job.state = "completed" \/ exec[Worker].pc = "done"
    BY <1>1, <1>4, QueueMoves DEF Moves
  <2>2. exec'[Worker].pc \in PublishSteps => job'.state = "active"
    BY <1>1, <1>4, QueueMoves DEF Moves, PublishSteps
  <2>3. exec'[Worker].pc \in {"markPublished", "done"} => exec' = exec
    BY <1>1, <1>4, QueueMoves DEF Moves
  <2> QED
    BY <1>1, <2>1, <2>2, <2>3
<1>5. ASSUME NEW c \in Contents, Patch(c) PROVE WorkerPublishes' /\ RowAgrees'
  BY <1>1, <1>5 DEF Patch, Store
<1> QED
  BY <1>2, <1>3, <1>4, <1>5 DEF Next, WorkerStep

(* Every step keeps it.                                                    *)
LEMMA TruthStep == TruthInv /\ [Next]_vars => TruthInv'
<1> SUFFICES ASSUME TruthInv, [Next]_vars PROVE TruthInv'
  OBVIOUS
<1>1. CASE UNCHANGED vars
  BY <1>1, TypeStep DEF vars, TruthInv, DownIsHidden, WorkerPublishes, RowAgrees, Queued, At
<1>2. CASE Next
  <2>1. TypeOK' /\ DownIsHidden'
    BY <1>2, TypeStep, DownStep DEF TruthInv
  <2>2. CASE Queued
    BY <1>2, <2>1, <2>2, PublishedStep DEF TruthInv
  <2>3. CASE ~Queued
    BY <1>2, <2>1, <2>3 DEF TruthInv, WorkerPublishes, RowAgrees, Queued, Next
  <2> QED
    BY <2>2, <2>3
<1> QED
  BY <1>1, <1>2

(* A target that says unpublished means that ECKE hides the shop, and,     *)
(* while Redis answers, one that says published after a completed job      *)
(* tells what ECKE's row says: for any number of requests, whatever        *)
(* answers get lost, whoever dies, and however publishing and withdrawing  *)
(* overlap.                                                                *)
THEOREM StatusTrue == Spec => []StatusIsTrue
<1>1. Init => TruthInv
  <2> SUFFICES ASSUME Init PROVE TruthInv
    OBVIOUS
  <2>1. TypeOK
    BY NoTargetType DEF Init, TypeOK, NoJob, Job, Profile, Said, Actors
  <2> QED
    BY <2>1 DEF Init, TruthInv, DownIsHidden, WorkerPublishes, RowAgrees, At, Idle,
                NoTarget, NoJob, Actors, PublishSteps
<1>2. TruthInv => StatusIsTrue
  BY DEF TruthInv, DownIsHidden, RowAgrees, StatusIsTrue
<1> QED
  BY <1>1, <1>2, TruthStep, PTL DEF Spec
=============================================================================
