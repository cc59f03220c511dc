------------------------------- MODULE Batch -------------------------------
(***************************************************************************)
(* Confirmed batches: their rows and launch slots in PostgreSQL, one       *)
(* durable BatchWorkflow per batch, the child operations it starts, the    *)
(* users' cancel and resume requests on their way through the outbox, and  *)
(* the providers whose capacity the batches share.                         *)
(*                                                                         *)
(* A parent is sequential: its code between two activities is one step,    *)
(* which decides on what the last load read (view).  A database activity   *)
(* commits or not, its reply may be lost, and it is retried until it       *)
(* answers; an attempt that outlived its timeout may still commit (late).  *)
(* Signals wait in the run's channel and are gone when the run continues   *)
(* as new.  A child is seen from outside: Operation models its inside.     *)
(***************************************************************************)
EXTENDS Integers, FiniteSets, Sequences

CONSTANTS
  Batches, Children, Providers, Projects, Sources,
  BatchOf,           \* the batch of a child
  ProviderOf,        \* the provider of a child, "none" for a reused result
  ProjectOf,         \* the project of a batch
  SourceOf,          \* the canvas node of a batch, "none" without one
  Concurrency,       \* the concurrency frozen in the scope of a batch
  ProjectLimit,      \* active launches per project
  ProviderLimit,     \* concurrency_limit of a provider
  Streak,            \* equal provider failures that pause a batch
  RunStarts,         \* starts after which a parent continues as new
  FailureCodes,      \* the normalized "provider:" failure codes
  MayRoll,           \* whether Temporal may suggest to continue as new
  MayRefuse,         \* whether frozen inputs may be refused before a submission
  MayBreak,          \* whether a child's workflow may fail
  MayDisable,        \* whether an administrator changes a provider's status
  MaxControls,       \* bound: accepted cancel and resume requests per batch
  MaxLate            \* bound: timed-out attempts that may still commit

ASSUME BatchAssumption ==
  /\ BatchOf \in [Children -> Batches]
  /\ ProviderOf \in [Children -> Providers \cup {"none"}] /\ "none" \notin Providers
  /\ ProjectOf \in [Batches -> Projects]
  /\ SourceOf \in [Batches -> Sources \cup {"none"}] /\ "none" \notin Sources
  /\ Concurrency \in [Batches -> Nat \ {0}]
  /\ ProjectLimit \in Nat \ {0}
  /\ ProviderLimit \in [Providers -> Nat \ {0}]
  /\ Streak \in Nat \ {0} /\ RunStarts \in Nat \ {0}
  /\ FailureCodes \cap {"none", "other"} = {}
  /\ {MayRoll, MayRefuse, MayBreak, MayDisable} \subseteq BOOLEAN
  /\ MaxControls \in Nat /\ MaxLate \in Nat
  /\ IsFiniteSet(Children)

VARIABLES
  batch,     \* the batch rows: status, pause, cancel intent, summary, events
  child,     \* the operation rows with their batch_launch rows and workflows
  settled,   \* the settled children of a batch by finished_at
  control,   \* accepted control requests that are not delivered
  enabled,   \* the providers with status active
  parent,    \* the BatchWorkflow of a batch
  late       \* database requests that timed out and may still commit

vars == <<batch, child, settled, control, enabled, parent, late>>

-----------------------------------------------------------------------------
Members(b) == {c \in Children : BatchOf[c] = b}

Terminal == {"completed", "failed", "cancelled"}
ChildStatuses == Terminal \cup {"confirmed", "submitting", "submitted", "cancelling"}
Over == {"finished", "cancelled"}
Ended == {"none", "done", "failed"}

Settled(c) == child[c].status \in Terminal
Holds(c) == child[c].slot = "active"
IsOver(b) == batch[b].status \in Over

\* What LoadWorkflowBatch returns, with the failure streak of the items.
View(b, p) ==
  LET fresh == SelectSeq(settled[b], LAMBDA c : c \notin p.acknowledged)
      last  == {child[fresh[i]].code : i \in (Len(fresh) - Streak + 1)..Len(fresh)}
  IN [paused |-> batch[b].paused, cancelled |-> batch[b].cancelled,
      items  |-> [c \in Members(b) |-> child[c].status],
      streak |-> IF Len(fresh) >= Streak /\ \E code \in FailureCodes : last = {code}
                 THEN CHOOSE code \in FailureCodes : last = {code} ELSE "none"]

Open(p) == {c \in DOMAIN p.view.items : p.view.items[c] \notin Terminal}

-----------------------------------------------------------------------------
(* The parent's code between its activities.                               *)

Nothing(members) ==
  [paused |-> "none", cancelled |-> FALSE, items |-> [c \in members |-> "confirmed"],
   streak |-> "none"]

\* What a pass read is forgotten at its end.
Forgets(p, pc) ==
  [p EXCEPT !.pc = pc, !.view = Nothing(DOMAIN @.items), !.at = "none", !.todo = {},
            !.claimed = FALSE]

\* Mutant: the end of a child is not noticed.
NeverLanded(p) == p.watched

\* The children of this run whose workflow has not ended.
InFlight(p) == {c \in p.watched : child[c].run = "running"}

\* A new run: what BatchInput carries stays, the signal channels are empty.
ContinueAsNew(p) ==
  [Forgets(p, "begin") EXCEPT !.started = {}, !.watched = {}, !.cancels = 0, !.resumes = 0]

\* The end of one pass over the items.
EndPass(p) ==
  IF Open(p) = {} /\ InFlight(p) = {} THEN {Forgets(p, "finish")}
  ELSE (IF Open(p) # {} /\ (MayRoll \/ Cardinality(p.started) >= RunStarts)
        THEN {ContinueAsNew(p)} ELSE {})
       \cup
       (IF Open(p) = {} \/ Cardinality(p.started) < RunStarts
        THEN {Forgets(p, "load")} ELSE {})

\* The next item to launch; identifiers are random, so the items come in any
\* order.
NextLaunch(p) ==
  IF p.todo = {} \/ Cardinality(p.started) >= RunStarts THEN EndPass(p)
  ELSE {[p EXCEPT !.pc = "acquire", !.at = c, !.todo = @ \ {c}] : c \in p.todo}

\* Mutant: only a child that was not started counts as queued.
OnlyUnstarted(status) == status = "confirmed"

\* The item looked as if its provider may not have been called yet.
MaybeQueued(status) == status \in {"confirmed", "submitting", "cancelling"}

\* The next item of a cancelled batch.
NextCancel(p) ==
  IF p.todo = {} THEN IF p.claimed THEN {Forgets(p, "load")} ELSE EndPass(p)
  ELSE {[p EXCEPT !.pc = IF MaybeQueued(p.view.items[c]) THEN "claim_child" ELSE "signal_child",
                  !.at = c, !.todo = @ \ {c}] : c \in p.todo}

\* A child that is not queued is signalled once.
NotQueued(p) ==
  IF p.at \in p.told THEN NextCancel(p) ELSE {[p EXCEPT !.pc = "signal_child"]}

Launchable(p) ==
  {c \in Open(p) : p.view.items[c] = "confirmed" /\ c \notin p.started}

\* Mutant: a receive takes a signal that is not there.
ReceiveMissing(n) == n - 1

\* ReceiveAsync
Receive(n) == IF n > 0 THEN n - 1 ELSE 0

\* Mutant: a paused batch looks for a resume signal only.
CancelUnlessPaused(p) == p.cancels > 0 /\ p.view.paused = "none"

HearsCancel(p) == p.cancels > 0

\* One pass, from the items read to its first activity.
Decide(p) ==
  IF \E c \in p.watched \cap Open(p) : child[c].run = "failed"
  THEN {Forgets(p, "failed")}
  ELSE LET heard == [p EXCEPT !.cancels = Receive(@)] IN
    IF p.view.cancelled
    THEN NextCancel([heard EXCEPT !.claimed = FALSE,
           !.todo = {c \in Open(p) : MaybeQueued(p.view.items[c]) \/ c \notin p.told}])
    ELSE IF HearsCancel(p) THEN {[heard EXCEPT !.pc = "mark_cancel"]}
    ELSE IF p.view.paused # "none"
    THEN IF p.resumes > 0 THEN {[p EXCEPT !.pc = "resume", !.resumes = @ - 1]} ELSE EndPass(p)
    ELSE IF Open(p) # {} /\ p.view.streak # "none" THEN {[p EXCEPT !.pc = "pause"]}
    ELSE NextLaunch([p EXCEPT !.todo = Launchable(p)])

-----------------------------------------------------------------------------
(* Replies.                                                                *)

\* The parent goes on to one of the steps in nexts.
Goes(b, nexts) == \E p \in nexts : parent' = [parent EXCEPT ![b] = p]

\* The reply of a committed activity reaches the parent, or is lost and the
\* activity is retried.
Replies(b, nexts) == Goes(b, nexts \cup {parent[b]})

Fails(b) == Goes(b, {Forgets(parent[b], "failed")})

RowsUnchanged == UNCHANGED <<batch, child, settled>>

OthersUnchanged == UNCHANGED <<control, enabled, late>>

-----------------------------------------------------------------------------
ConfirmedBatch == [status |-> "confirmed", paused |-> "none", cancelled |-> FALSE,
                   succeeded |-> 0, failed |-> 0, events |-> 0]
ConfirmedChild == [status |-> "confirmed", code |-> "none", called |-> FALSE, slot |-> "none",
                   run |-> "none", signalled |-> FALSE]
Unstarted(b) == [pc |-> "none", view |-> Nothing(Members(b)), todo |-> {}, at |-> "none",
                 claimed |-> FALSE, started |-> {}, watched |-> {}, acknowledged |-> {},
                 told |-> {}, cancels |-> 0, resumes |-> 0]
AtRest ==
  /\ control = [b \in Batches |-> [cancel |-> 0, resume |-> 0, accepted |-> 0]]
  /\ enabled = Providers
  /\ late = {}

Init ==
  /\ batch = [b \in Batches |-> ConfirmedBatch]
  /\ child = [c \in Children |-> ConfirmedChild]
  /\ settled = [b \in Batches |-> <<>>]
  /\ parent = [b \in Batches |-> Unstarted(b)]
  /\ AtRest

-----------------------------------------------------------------------------
(* BatchWorkflow.                                                          *)

\* The starter or its sweep starts the parent of a confirmed batch.
StartBatch(b) ==
  /\ parent[b].pc = "none" /\ batch[b].status = "confirmed"
  /\ Goes(b, {[parent[b] EXCEPT !.pc = "begin"]})
  /\ RowsUnchanged /\ OthersUnchanged

\* LoadBatch at the start of a run and at the start of a pass.
Load(b) ==
  /\ parent[b].pc \in {"begin", "load"}
  /\ LET p == [parent[b] EXCEPT !.view = View(b, parent[b])]
     IN Goes(b,
          {IF IsOver(b) THEN Forgets(p, "done")
           ELSE IF p.pc = "load" THEN [p EXCEPT !.pc = "decide"]
           ELSE Forgets(p, IF batch[b].status = "confirmed" THEN "mark_running" ELSE "load")})
  /\ RowsUnchanged /\ OthersUnchanged

Pass(b) ==
  /\ parent[b].pc = "decide"
  /\ Goes(b, Decide(parent[b]))
  /\ RowsUnchanged /\ OthersUnchanged

MarkWorkflowBatchRunning(b) ==
  /\ parent[b].pc = "mark_running"
  /\ LET next == {[parent[b] EXCEPT !.pc = "load"]}
         claims == batch[b].status = "confirmed" /\ \A c \in Members(b) : child[c].status = "confirmed"
     IN \/ /\ claims
           /\ batch' = [batch EXCEPT ![b].status = "running"]
           /\ Replies(b, next)
        \/ /\ ~claims
           /\ IF batch[b].status = "running" THEN Goes(b, next) ELSE Fails(b)
           /\ UNCHANGED batch
  /\ UNCHANGED <<child, settled>> /\ OthersUnchanged

-----------------------------------------------------------------------------
(* Admission.                                                              *)

Active(S) == Cardinality({c \in S : Holds(c)})

Of(p) == {c \in Children : ProviderOf[c] = p}
InProject(q) == {c \in Children : ProjectOf[BatchOf[c]] = q}
FromSource(s) == {c \in Children : SourceOf[BatchOf[c]] = s}

\* Mutant: only the batch's own frozen concurrency counts.
OwnLimit(b) == {Concurrency[b]}

\* The frozen limits that bind: the batch's own and those of the batches that
\* hold a slot for the same source.
SourceLimits(b) ==
  {Concurrency[b]} \cup {Concurrency[BatchOf[c]] : c \in {d \in FromSource(SourceOf[b]) : Holds(d)}}

\* Mutant: the slots of the project are not counted.
HasRoomAtProvider(b, c) ==
  /\ SourceOf[b] # "none" =>
       \A limit \in SourceLimits(b) : Active(FromSource(SourceOf[b])) < limit
  /\ ProviderOf[c] # "none" => Active(Of(ProviderOf[c])) < ProviderLimit[ProviderOf[c]]

\* Mutant: the slots of the provider are not counted.
HasRoomInProject(b, c) ==
  /\ SourceOf[b] # "none" =>
       \A limit \in SourceLimits(b) : Active(FromSource(SourceOf[b])) < limit
  /\ Active(InProject(ProjectOf[b])) < ProjectLimit

HasRoom(b, c) ==
  /\ SourceOf[b] # "none" =>
       \A limit \in SourceLimits(b) : Active(FromSource(SourceOf[b])) < limit
  /\ Active(InProject(ProjectOf[b])) < ProjectLimit
  /\ ProviderOf[c] # "none" => Active(Of(ProviderOf[c])) < ProviderLimit[ProviderOf[c]]

\* The rows AcquireBatchLaunch locks still admit the child.
Admits(b, c) ==
  /\ batch[b].status = "running" /\ batch[b].paused = "none" /\ ~batch[b].cancelled
  /\ child[c].status = "confirmed"

ModelAvailable(c) == ProviderOf[c] \in enabled \cup {"none"}

TakesSlot(b, c) ==
  ModelAvailable(c) /\ Admits(b, c) /\ child[c].slot = "none" /\ HasRoom(b, c)

TakeSlot(c) == child' = [child EXCEPT ![c].slot = "active"]

AcquireBatchLaunch(b) ==
  /\ parent[b].pc = "acquire"
  /\ LET c == parent[b].at
         admitted == {[parent[b] EXCEPT !.pc = "start_child"]}
         again == Admits(b, c) /\ Holds(c)
     IN \/ TakesSlot(b, c) /\ TakeSlot(c) /\ Replies(b, admitted)
        \/ ModelAvailable(c) /\ again /\ Goes(b, admitted) /\ UNCHANGED child
        \/ /\ ModelAvailable(c) /\ ~TakesSlot(b, c) /\ ~again
           /\ Goes(b, NextLaunch(parent[b])) /\ UNCHANGED child
        \/ ~ModelAvailable(c) /\ Fails(b) /\ UNCHANGED child
  /\ UNCHANGED <<batch, settled>> /\ OthersUnchanged

\* ExecuteChildWorkflow with REJECT_DUPLICATE: a child that was started before
\* counts as started, and its end is not awaited.
StartChild(b) ==
  /\ parent[b].pc = "start_child"
  /\ LET c == parent[b].at
         p == [parent[b] EXCEPT !.started = @ \cup {c}]
     IN IF child[c].run = "none"
        THEN /\ child' = [child EXCEPT ![c].run = "running"]
             /\ Goes(b, NextLaunch([p EXCEPT !.watched = @ \cup {c}]))
        ELSE Goes(b, NextLaunch(p)) /\ UNCHANGED child
  /\ UNCHANGED <<batch, settled>> /\ OthersUnchanged

-----------------------------------------------------------------------------
(* The breaker.                                                            *)

Pauses(b) == batch[b].status = "running" /\ batch[b].paused = "none"

PauseWorkflowBatch(b) ==
  /\ parent[b].pc = "pause"
  /\ LET reason == parent[b].view.streak
         next == {Forgets(parent[b], "load")}
     IN \/ /\ Pauses(b)
           /\ batch' = [batch EXCEPT ![b].paused = reason]
           /\ Replies(b, next)
        \/ /\ ~Pauses(b)
           /\ IF batch[b].paused = reason THEN Goes(b, next) ELSE Fails(b)
           /\ UNCHANGED batch
  /\ UNCHANGED <<child, settled>> /\ OthersUnchanged

Resumes(b) == batch[b].status = "running" /\ ~batch[b].cancelled

\* The failures seen before the resume do not count again.
ResumeWorkflowBatch(b) ==
  /\ parent[b].pc = "resume"
  /\ LET p == parent[b]
         next == {[Forgets(p, "load") EXCEPT
                     !.acknowledged = @ \cup (Members(b) \ Open(p))]}
     IN \/ /\ Resumes(b) /\ batch[b].paused # "none"
           /\ batch' = [batch EXCEPT ![b].paused = "none"]
           /\ Replies(b, next)
        \/ /\ ~Resumes(b) \/ batch[b].paused = "none"
           /\ IF Resumes(b) THEN Goes(b, next) ELSE Fails(b)
           /\ UNCHANGED batch
  /\ UNCHANGED <<child, settled>> /\ OthersUnchanged

-----------------------------------------------------------------------------
(* Cancellation.                                                           *)

MarkWorkflowBatchCancelRequested(b) ==
  /\ parent[b].pc = "mark_cancel"
  /\ batch[b].status = "running"
  /\ batch' = [batch EXCEPT ![b].cancelled = TRUE]
  /\ Replies(b, {Forgets(parent[b], "load")})
  /\ UNCHANGED <<child, settled>> /\ OthersUnchanged

\* MarkQueuedWorkflowOperationCancelling, the first transaction of
\* CancelQueuedBatchChild.  A child without a provider call that settled by
\* itself is not expected here.
ClaimChild(b) ==
  /\ parent[b].pc = "claim_child"
  /\ LET c == parent[b].at
         claimed == {[parent[b] EXCEPT !.pc = "settle_child"]}
     IN \/ child[c].called /\ Goes(b, NotQueued(parent[b])) /\ UNCHANGED child
        \/ /\ ~child[c].called /\ child[c].status \in {"confirmed", "submitting"}
           /\ child' = [child EXCEPT ![c].status = "cancelling"]
           /\ Replies(b, claimed)
        \/ /\ ~child[c].called /\ child[c].status \in {"cancelling", "cancelled"}
           /\ Goes(b, claimed) /\ UNCHANGED child
        \/ /\ ~child[c].called /\ child[c].status \in {"completed", "failed"}
           /\ Fails(b) /\ UNCHANGED child
  /\ UNCHANGED <<batch, settled>> /\ OthersUnchanged

\* Mutant: the settlement forgets the launch slot.
KeepSlot(row) == row

\* ReleaseBatchLaunchInTransaction
ReleaseSlot(row) == [row EXCEPT !.slot = IF @ = "active" THEN "done" ELSE @]

\* FinalizeOperation: the terminal status, the settlement and the release of
\* the slot are one transaction.
Finalize(c, status, code) ==
  /\ child' = [child EXCEPT ![c] =
       ReleaseSlot([child[c] EXCEPT !.status = status, !.code = code])]
  /\ settled' = [settled EXCEPT ![BatchOf[c]] = Append(@, c)]

\* The second transaction of CancelQueuedBatchChild; a crash in between, or a
\* lost reply, repeats the first.
SettleChild(b) ==
  /\ parent[b].pc = "settle_child"
  /\ LET c == parent[b].at
         next == NextCancel([parent[b] EXCEPT !.claimed = TRUE])
     IN \/ /\ child[c].status = "cancelling"
           /\ Finalize(c, "cancelled", "none")
           /\ Goes(b, next \cup {[parent[b] EXCEPT !.pc = "claim_child"]})
        \/ /\ child[c].status = "cancelled"
           /\ Goes(b, next) /\ UNCHANGED <<child, settled>>
  /\ UNCHANGED batch /\ OthersUnchanged

\* SignalExternalWorkflow reaches a child that runs.
SignalChild(b) ==
  /\ parent[b].pc = "signal_child"
  /\ LET c == parent[b].at
     IN IF child[c].run = "running"
        THEN /\ child' = [child EXCEPT ![c].signalled = TRUE]
             /\ Goes(b, NextCancel([parent[b] EXCEPT !.told = @ \cup {c}]))
        ELSE Goes(b, {[parent[b] EXCEPT !.pc = "reload"]}) /\ UNCHANGED child
  /\ UNCHANGED <<batch, settled>> /\ OthersUnchanged

\* Mutant: a child whose workflow is gone is an error even when it settled.
NeverTolerated(c) == FALSE

Tolerated(c) == Settled(c)

\* The load after a signal that found no workflow.
ReloadChild(b) ==
  /\ parent[b].pc = "reload"
  /\ IF Tolerated(parent[b].at) THEN Goes(b, NextCancel(parent[b])) ELSE Fails(b)
  /\ RowsUnchanged /\ OthersUnchanged

-----------------------------------------------------------------------------
(* The end.                                                                *)

Count(b, status) == Cardinality({c \in Members(b) : child[c].status = status})

\* Mutant: the status under the lock is not looked at, so a replay writes again.
NeverFinished(b) == FALSE

AlreadyFinished(b) == batch[b].status \in Over

\* A batch whose children or slots are not at rest is refused and retried.
Ready(b) == \A c \in Members(b) : Settled(c) /\ ~Holds(c)

FinishWorkflowBatch(b) ==
  /\ parent[b].pc = "finish"
  /\ LET next == {[parent[b] EXCEPT !.pc = "done"]}
     IN \/ /\ ~AlreadyFinished(b) /\ Ready(b)
           /\ batch' = [batch EXCEPT
                ![b].status = IF batch[b].cancelled THEN "cancelled" ELSE "finished",
                ![b].succeeded = Count(b, "completed"), ![b].failed = Count(b, "failed"),
                ![b].paused = "none", ![b].events = @ + 1]
           /\ Replies(b, next)
        \/ AlreadyFinished(b) /\ Goes(b, next) /\ UNCHANGED batch
  /\ UNCHANGED <<child, settled>> /\ OthersUnchanged

-----------------------------------------------------------------------------
(* Attempts that outlive their timeout.  Only these three can have an      *)
(* effect after the retry has answered.                                    *)

Request(b) == [step |-> parent[b].pc, batch |-> b, at |-> parent[b].at,
               reason |-> parent[b].view.streak]

AttemptTimesOut(b) ==
  /\ parent[b].pc \in {"acquire", "pause", "resume"}
  /\ Cardinality(late) < MaxLate
  /\ late' = late \cup {Request(b)}
  /\ RowsUnchanged /\ UNCHANGED <<control, enabled, parent>>

ExecuteLate(r) ==
  /\ late' = late \ {r}
  /\ CASE r.step = "acquire" ->
            /\ IF TakesSlot(r.batch, r.at) THEN TakeSlot(r.at) ELSE UNCHANGED child
            /\ UNCHANGED batch
       [] r.step = "pause" ->
            /\ batch' = [batch EXCEPT ![r.batch].paused =
                 IF Pauses(r.batch) THEN r.reason ELSE @]
            /\ UNCHANGED child
       [] OTHER ->
            /\ batch' = [batch EXCEPT ![r.batch].paused =
                 IF Resumes(r.batch) THEN "none" ELSE @]
            /\ UNCHANGED child
  /\ UNCHANGED <<settled, control, enabled, parent>>

-----------------------------------------------------------------------------
(* The children.                                                           *)

ChildUnchanged == UNCHANGED <<batch, control, enabled, parent, late>>

ChildSubmits(c) ==
  /\ child[c].run = "running" /\ child[c].status = "confirmed"
  /\ ProviderOf[c] # "none"
  /\ child' = [child EXCEPT ![c].status = "submitting"]
  /\ UNCHANGED settled /\ ChildUnchanged

\* Mutant: a claimed child may still begin its submission.
ClaimedMayCall(c) == child[c].status \in {"submitting", "cancelling"}

MayCall(c) == child[c].status = "submitting"

\* Its first provider call, then the provider's acceptance or an unknown
\* outcome; "submitted" stands for every later status that is not terminal.
ChildCalls(c) ==
  /\ child[c].run = "running" /\ MayCall(c)
  /\ child' = [child EXCEPT ![c].called = TRUE,
                            ![c].status = IF child[c].called THEN "submitted" ELSE @]
  /\ UNCHANGED settled /\ ChildUnchanged

ChildSettles(c) ==
  /\ child[c].run = "running"
  /\ \/ /\ child[c].status = "confirmed"
        /\ \/ MayRefuse /\ Finalize(c, "failed", "other")
           \/ ProviderOf[c] = "none" /\ Finalize(c, "completed", "none")
     \/ /\ child[c].status \in {"submitting", "submitted"} /\ child[c].called
        /\ \/ Finalize(c, "completed", "none")
           \/ \E code \in FailureCodes \cup {"other"} : Finalize(c, "failed", code)
           \/ child[c].signalled /\ Finalize(c, "cancelled", "none")
  /\ ChildUnchanged

\* The workflow ends with its operation; one whose operation was claimed meets
\* a conflict, or a terminal operation at its start.
ChildEnds(c) ==
  /\ child[c].run = "running"
  /\ \/ Settled(c) /\ child' = [child EXCEPT ![c].run = "done"]
     \/ /\ child[c].status \in {"cancelling", "cancelled"} /\ ~child[c].called
        /\ child' = [child EXCEPT ![c].run = "failed"]
  /\ UNCHANGED settled /\ ChildUnchanged

\* The workflow of an open operation fails.
ChildBreaks(c) ==
  /\ MayBreak
  /\ child[c].run = "running" /\ ~Settled(c)
  /\ child' = [child EXCEPT ![c].run = "failed"]
  /\ UNCHANGED settled /\ ChildUnchanged

-----------------------------------------------------------------------------
(* The users and the administrator.                                        *)

\* RequestWorkflowControl and lockControlTarget
RequestControl(b, action) ==
  /\ control[b].accepted < MaxControls
  /\ IF action = "cancel" THEN ~IsOver(b)
     ELSE batch[b].status = "running" /\ batch[b].paused # "none" /\ ~batch[b].cancelled
  /\ control' = [control EXCEPT ![b][action] = @ + 1, ![b].accepted = @ + 1]
  /\ RowsUnchanged /\ UNCHANGED <<enabled, parent, late>>

\* The control consumer signals the parent of a live batch, or tries again.
DeliverControl(b, action) ==
  /\ control[b][action] > 0
  /\ \/ IsOver(b) /\ UNCHANGED parent
     \/ /\ ~IsOver(b) /\ parent[b].pc \notin Ended
        /\ Goes(b, {IF action = "cancel" THEN [parent[b] EXCEPT !.cancels = @ + 1]
                    ELSE [parent[b] EXCEPT !.resumes = @ + 1]})
  /\ control' = [control EXCEPT ![b][action] = @ - 1]
  /\ RowsUnchanged /\ UNCHANGED <<enabled, late>>

ChangeProviderStatus(p) ==
  /\ MayDisable
  /\ enabled' = IF p \in enabled THEN enabled \ {p} ELSE enabled \cup {p}
  /\ RowsUnchanged /\ UNCHANGED <<control, parent, late>>

-----------------------------------------------------------------------------
Parent(b) ==
  \/ Load(b) \/ Pass(b) \/ MarkWorkflowBatchRunning(b)
  \/ AcquireBatchLaunch(b) \/ StartChild(b)
  \/ PauseWorkflowBatch(b) \/ ResumeWorkflowBatch(b)
  \/ MarkWorkflowBatchCancelRequested(b) \/ ClaimChild(b) \/ SettleChild(b)
  \/ SignalChild(b) \/ ReloadChild(b) \/ FinishWorkflowBatch(b)

Controls == {"cancel", "resume"}

Next ==
  \/ \E b \in Batches :
       \/ StartBatch(b) \/ Parent(b) \/ AttemptTimesOut(b)
       \/ \E action \in Controls : RequestControl(b, action) \/ DeliverControl(b, action)
  \/ \E r \in late : ExecuteLate(r)
  \/ \E c \in Children :
       ChildSubmits(c) \/ ChildCalls(c) \/ ChildSettles(c) \/ ChildEnds(c) \/ ChildBreaks(c)
  \/ \E p \in Providers : ChangeProviderStatus(p)

Spec == Init /\ [][Next]_vars

(* The sweep starts every confirmed batch; Temporal resumes a parent and   *)
(* retries its activities until they answer; the consumer retries a        *)
(* control until it is delivered; a workflow ends once its operation did.  *)
(* A child need not settle: it may wait for an administrator.              *)
Fairness ==
  /\ \A b \in Batches : WF_vars(StartBatch(b)) /\ WF_vars(Parent(b))
  /\ \A b \in Batches, action \in Controls : WF_vars(DeliverControl(b, action))
  /\ \A c \in Children : WF_vars(ChildEnds(c))
FairSpec == Spec /\ Fairness

(* The same, and no child waits for an administrator forever.              *)
ChildStep(c) == ChildSubmits(c) \/ ChildCalls(c) \/ ChildSettles(c) \/ ChildEnds(c)
Attended == Fairness /\ \A c \in Children : WF_vars(ChildStep(c))
AttendedSpec == Spec /\ Attended

-----------------------------------------------------------------------------
BatchRows ==
  [status : {"confirmed", "running"} \cup Over, paused : FailureCodes \cup {"none"},
   cancelled : BOOLEAN, succeeded : Nat, failed : Nat, events : Nat]

ChildRows ==
  [status : ChildStatuses, code : FailureCodes \cup {"none", "other"}, called : BOOLEAN,
   slot : {"none", "active", "done"}, run : {"none", "running", "done", "failed"},
   signalled : BOOLEAN]

PCs == Ended \cup
  {"begin", "load", "decide", "mark_running", "mark_cancel", "claim_child",
   "settle_child", "signal_child", "reload", "pause", "resume", "acquire",
   "start_child", "finish"}

Views(b) ==
  [paused : FailureCodes \cup {"none"}, cancelled : BOOLEAN,
   items : [Members(b) -> ChildStatuses], streak : FailureCodes \cup {"none"}]

Parents(b) ==
  [pc : PCs, view : Views(b), todo : SUBSET Members(b),
   at : Members(b) \cup {"none"}, claimed : BOOLEAN, started : SUBSET Members(b),
   watched : SUBSET Members(b), acknowledged : SUBSET Members(b),
   told : SUBSET Members(b), cancels : Nat, resumes : Nat]

Requests ==
  [step : {"acquire", "pause", "resume"}, batch : Batches,
   at : Children \cup {"none"}, reason : FailureCodes \cup {"none"}]

(* Every variable keeps its type.                                          *)
TypeOK ==
  /\ batch \in [Batches -> BatchRows]
  /\ child \in [Children -> ChildRows]
  /\ settled \in [Batches -> Seq(Children)]
  /\ control \in [Batches -> [cancel : Nat, resume : Nat, accepted : Nat]]
  /\ enabled \subseteq Providers
  /\ DOMAIN parent = Batches /\ \A b \in Batches : parent[b] \in Parents(b)
  /\ late \subseteq Requests

(* No project and no provider has more launches than its limit, whichever  *)
(* parents compete and whichever attempts come late.                       *)
CapacityKept ==
  /\ \A q \in Projects : Active(InProject(q)) <= ProjectLimit
  /\ \A p \in Providers : Active(Of(p)) <= ProviderLimit[p]

(* While a batch holds a slot for a canvas node, all batches of that node  *)
(* together keep the concurrency that batch was confirmed with.            *)
SourceShareKept ==
  \A c \in Children :
    Holds(c) /\ SourceOf[BatchOf[c]] # "none" =>
      Active(FromSource(SourceOf[BatchOf[c]])) <= Concurrency[BatchOf[c]]

(* A child that works holds a slot until it is settled, so the limits bound *)
(* the calls under way; a settled child holds none, so no slot leaks.      *)
SlotsHonest ==
  \A c \in Children :
    /\ child[c].run # "none" /\ ~Settled(c) => Holds(c)
    /\ Settled(c) => ~Holds(c)

(* A batch that is over has settled every child, announced it once and     *)
(* counted what the children really became.                                *)
SummaryExact ==
  \A b \in Batches :
    /\ batch[b].events = IF IsOver(b) THEN 1 ELSE 0
    /\ IsOver(b) =>
         /\ \A c \in Members(b) : Settled(c)
         /\ batch[b].succeeded = Count(b, "completed")
         /\ batch[b].failed = Count(b, "failed")
         /\ batch[b].status = "finished" => ~batch[b].cancelled

(* A child a parent cancelled unsubmitted never calls its provider.        *)
ClaimedNeverCalls ==
  [][\A c \in Children :
       child[c].status \in {"cancelling", "cancelled"} /\ ~child[c].called
         => ~child'[c].called]_vars

(* No pause, cancellation, lost reply or settling child makes a parent     *)
(* give up its batch.                                                      *)
ParentSurvives == \A b \in Batches : parent[b].pc # "failed"

(* When every child of a started batch is settled, the batch gets over.    *)
Finishable(b) == parent[b].pc # "none" /\ \A c \in Members(b) : Settled(c)
BatchFinishes == \A b \in Batches : Finishable(b) ~> IsOver(b)

(* A cancelled batch settles every child whose provider was never called,  *)
(* unless the child calls it first.                                        *)
CancelReleases ==
  \A c \in Children :
    (batch[BatchOf[c]].cancelled /\ ~child[c].called) ~> (Settled(c) \/ child[c].called)

(* A cancel signal its parent received is recorded, or the batch is over.  *)
CancelHeard ==
  \A b \in Batches : (parent[b].cancels > 0) ~> (batch[b].cancelled \/ IsOver(b))

(* Children that settle make room: whichever batches compete, a moment     *)
(* comes when no batch that was started and is not paused has a child left *)
(* that waits for its turn.                                                *)
Queued(c) ==
  /\ parent[BatchOf[c]].pc # "none" /\ batch[BatchOf[c]].paused = "none"
  /\ child[c].run = "none" /\ ~Settled(c)
QueueDrains == (\E c \in Children : Queued(c)) ~> (\A c \in Children : ~Queued(c))
=============================================================================
