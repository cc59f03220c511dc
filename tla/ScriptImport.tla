---------------------------- MODULE ScriptImport ----------------------------
(***************************************************************************)
(* The import of files into a project's script.  A job freezes its files;  *)
(* a worker extracts them one after the other, and publishes those that    *)
(* could be read as one change of the sources, together with the job's     *)
(* own outcome.  Commands reach the job's workflow as events; a cancel     *)
(* runs beside the execution it stops.  Who writes the sources is written  *)
(* in the job, and is taken out by that worker's own exit or by a command  *)
(* that has seen it exit.                                                  *)
(***************************************************************************)
EXTENDS Naturals, Sequences, FiniteSets

CONSTANTS
    Files,          \* the job's files
    MaxAttempts,    \* bound: attempts of the job
    MaxCommands,    \* bound: commands of the users
    MaxRuns,        \* bound: activities at the same time
    MaxEdits,       \* bound: other changes of the sources
    MaxFaults       \* bound: crashes, timeouts and failed transactions

VARIABLES
    job,        \* script.import_state
    attempt,    \* [attempts -> script.import_attempt, its results and its publication]
    head,       \* script.project_state.revision
    event,      \* delivered to the topic and not yet handled
    commands,   \* number of commands so far
    flow,       \* FileImportWorkflow
    run,        \* [runs -> activity ExecuteFileImport]
    faults      \* number of faults so far

vars == <<job, attempt, head, event, commands, flow, run, faults>>

Attempts == 1 .. MaxAttempts
Runs == 1 .. MaxRuns

NoJob == [status |-> "none", attempt |-> 0, needs |-> FALSE, cancel |-> FALSE, asked |-> FALSE,
          owner |-> 0, io |-> "idle", latest |-> 0]
NoAttempt == [positions |-> {}, failed |-> {}, read |-> {}, write |-> "none", clean |-> TRUE]
NoFlow == [state |-> "none", signals |-> <<>>, pending |-> <<>>, main |-> 0, beside |-> {},
           result |-> "none", attempt |-> 0]
NoRun == [pc |-> "none", action |-> "none", attempt |-> 0, owner |-> 0, prepared |-> {},
          todo |-> {}, failed |-> FALSE, unsure |-> FALSE, stopped |-> FALSE]

Init ==
    /\ job = NoJob
    /\ attempt = [a \in Attempts |-> NoAttempt]
    /\ head = 1
    /\ event = {} /\ commands = 0
    /\ flow = NoFlow
    /\ run = [r \in Runs |-> NoRun]
    /\ faults = 0

Fault == faults < MaxFaults /\ faults' = faults + 1

-----------------------------------------------------------------------------
(* What the job's rows say *)

Published == UNION {attempt[a].read : a \in {b \in Attempts : attempt[b].write = "completed"}}
Written(a) == {f \in Files : f \in attempt[a].failed \cup attempt[a].read}
Latest(f) == LET tried == {a \in Attempts : f \in Written(a)} IN
             IF tried = {} THEN 0 ELSE CHOOSE a \in tried : \A b \in tried : b <= a
Failures == {f \in Files \ Published : Latest(f) # 0 /\ f \in attempt[Latest(f)].failed}

CanRetryImport == /\ job.status \in {"partial", "failed"}
                  /\ job.owner = 0 /\ ~job.needs
                  /\ Failures # {}
CanControl == job.status \notin {"succeeded", "cancelled"}

PendingWrite == \E a \in Attempts : attempt[a].write = "pending"
PendingImport == job.status \in {"queued", "running", "cancel_requested"}
                 \/ job.needs \/ job.owner # 0

-----------------------------------------------------------------------------
(* Users *)

Emit(action, a) ==
    /\ commands < MaxCommands /\ commands' = commands + 1
    /\ event' = event \cup {[no |-> commands, action |-> action, attempt |-> a]}

CreateImport ==
    /\ job = NoJob
    /\ job' = [NoJob EXCEPT !.status = "queued", !.attempt = 1, !.latest = head]
    /\ attempt' = [attempt EXCEPT ![1].positions = Files]
    /\ Emit("start", 1)
    /\ UNCHANGED <<head, flow, run, faults>>

Cancel ==
    /\ CanControl /\ job # NoJob
    /\ job' = [job EXCEPT !.cancel = TRUE, !.status = "cancel_requested"]
    /\ Emit("cancel", job.attempt)
    /\ UNCHANGED <<attempt, head, flow, run, faults>>

Reconcile ==
    /\ (job.needs \/ job.cancel) /\ ~job.asked
    /\ job' = [job EXCEPT !.asked = TRUE]
    /\ Emit("reconcile", job.attempt)
    /\ UNCHANGED <<attempt, head, flow, run, faults>>

Retry ==
    /\ CanRetryImport /\ job.attempt < MaxAttempts
    /\ head = job.latest /\ ~PendingWrite
    /\ job' = [job EXCEPT !.attempt = @ + 1, !.status = "queued", !.cancel = FALSE, !.asked = FALSE]
    /\ attempt' = [attempt EXCEPT ![job.attempt + 1].positions = Failures]
    /\ Emit("start", job.attempt + 1)
    /\ UNCHANGED <<head, flow, run, faults>>

(* Any other change of the script waits for an import that is not over. *)
EditUnasked == /\ head <= MaxEdits /\ head' = head + 1
               /\ UNCHANGED <<job, attempt, event, commands, flow, run, faults>>
Edit == /\ ~PendingImport /\ ~PendingWrite
        /\ head <= MaxEdits /\ head' = head + 1
        /\ UNCHANGED <<job, attempt, event, commands, flow, run, faults>>

-----------------------------------------------------------------------------
(* The event handler and the workflow *)

VerifyImportDelivery(d) ==
    /\ d.attempt = job.attempt /\ CanControl
    /\ CASE d.action = "cancel" -> job.cancel
         [] d.action = "reconcile" -> job.asked
         [] OTHER -> job.status = "queued" \/ (job.status = "running" /\ ~job.needs)

Deliver(e, again) ==
    /\ e \in event
    /\ IF again THEN Fault ELSE UNCHANGED faults
    /\ event' = IF again THEN event ELSE event \ {e}
    /\ LET d == [action |-> e.action, attempt |-> e.attempt] IN
       flow' = IF ~VerifyImportDelivery(e) THEN flow
               ELSE IF flow.state \in {"none", "failed"}
                 THEN [NoFlow EXCEPT !.state = "open", !.pending = <<d>>]
               ELSE [flow EXCEPT !.signals = Append(@, d)]
    /\ UNCHANGED <<job, attempt, head, commands, run>>

(* The owner of a claim is never taken for a later run's. *)
Unused == {r \in Runs : run[r] = NoRun /\ job.owner # r /\ \A q \in Runs : run[q].owner # r}
Free(r) == r \in Unused /\ \A q \in Unused : r <= q
Start(r, d) == run' = [run EXCEPT ![r] = [NoRun EXCEPT !.action = d.action, !.attempt = d.attempt,
                                    !.pc = CASE d.action = "start" -> "verify" [] d.action = "cancel" -> "check"
                                        [] OTHER -> "route"]]

Idle == flow.state = "open" /\ flow.main = 0 /\ flow.result = "none"
Execute(r) ==
    /\ Idle /\ flow.pending # <<>> /\ Free(r)
    /\ Start(r, Head(flow.pending))
    /\ flow' = [flow EXCEPT !.pending = Tail(@), !.main = r, !.attempt = Head(flow.pending).attempt]
    /\ UNCHANGED <<job, attempt, head, event, commands, faults>>

Receive ==
    /\ flow.signals # <<>>
    /\ \/ /\ Idle /\ flow.pending = <<>>
          /\ flow' = [flow EXCEPT !.signals = Tail(@), !.pending = <<Head(flow.signals)>>]
          /\ UNCHANGED run
       \/ /\ flow.main # 0 /\ Head(flow.signals).action = "cancel"
          /\ \E r \in Runs :
                /\ Free(r) /\ Start(r, Head(flow.signals))
                /\ flow' = [flow EXCEPT !.signals = Tail(@), !.beside = @ \cup {r}]
       \/ /\ flow.main # 0 /\ Head(flow.signals).action # "cancel"
          /\ flow' = [flow EXCEPT !.signals = Tail(@), !.pending = Append(@, Head(flow.signals))]
          /\ UNCHANGED run
    /\ UNCHANGED <<job, attempt, head, event, commands, faults>>

Over(r) == run[r].pc \in {"returned", "lost", "dead"}
Forgotten(r) == IF job.owner # r THEN [run EXCEPT ![r] = NoRun] ELSE run
Result(r) == IF run[r].pc = "dead" \/ run[r].failed THEN "failed" ELSE "ok"

Complete(r) ==
    /\ Over(r)
    /\ \/ flow.main = r /\ flow' = [flow EXCEPT !.main = 0, !.result = Result(r)]
       \/ r \in flow.beside /\ flow' = [flow EXCEPT !.beside = @ \ {r}]
       \/ /\ flow.main # r /\ r \notin flow.beside /\ job.owner # r
          /\ UNCHANGED flow
    /\ run' = Forgotten(r)
    /\ UNCHANGED <<job, attempt, head, event, commands, faults>>

(* An activity's time ends, and its caller is told to stop. *)
Timeout(r) ==
    /\ flow.main = r /\ ~Over(r) /\ Fault
    /\ flow' = [flow EXCEPT !.main = 0, !.result = "failed"]
    /\ run' = [run EXCEPT ![r].stopped = TRUE]
    /\ UNCHANGED <<job, attempt, head, event, commands>>

(* InterruptFileImport: who was interrupted is unknown, and keeps its claim. *)
FailImportWorkflow == job' = IF job.attempt = flow.attempt
                                 /\ job.status \in {"queued", "running", "cancel_requested"}
                               THEN [job EXCEPT !.needs = TRUE] ELSE job

After ==
    /\ flow.result # "none" /\ flow.beside = {}
    /\ \/ /\ flow.result = "failed" /\ FailImportWorkflow /\ UNCHANGED faults
          /\ flow' = [flow EXCEPT !.result = "ok"]
       \/ /\ flow.result = "failed" /\ Fault /\ UNCHANGED job
          /\ flow' = [NoFlow EXCEPT !.state = "failed"]
       \/ /\ flow.result = "ok" /\ UNCHANGED <<job, faults>>
          /\ flow' = IF CanControl THEN [flow EXCEPT !.result = "none"]
                                   ELSE [NoFlow EXCEPT !.state = "done"]
    /\ UNCHANGED <<attempt, head, event, commands, run>>

-----------------------------------------------------------------------------
(* An execution *)

Calm == UNCHANGED <<event, commands, flow>>
Go(r, to) == run' = [run EXCEPT ![r].pc = to]
Fail(r, unsure) == run' = [run EXCEPT ![r].pc = "exit", ![r].failed = TRUE, ![r].unsure = unsure]
Return(r, failed) == run' = [run EXCEPT ![r] = [NoRun EXCEPT !.pc = "returned", !.failed = failed]]
Current(r) == CanControl /\ run[r].attempt = job.attempt
Mine(r) == attempt[run[r].attempt]

(* A reconciliation executes again what nobody executes. *)
Route(r) ==
    /\ run[r].pc = "route"
    /\ IF ~Current(r) THEN Return(r, TRUE)
       ELSE Go(r, IF job.cancel \/ job.owner # 0 \/ job.io = "running" THEN "check" ELSE "verify")
    /\ Calm /\ UNCHANGED <<job, attempt, head, faults>>

Verify(r) ==
    /\ run[r].pc \in {"verify", "check"}
    /\ IF ~VerifyImportDelivery(run[r]) THEN Return(r, FALSE)
       ELSE Go(r, IF run[r].pc = "verify" THEN "claim" ELSE "record")
    /\ Calm /\ UNCHANGED <<job, attempt, head, faults>>

MayClaim(r) ==
    /\ run[r].attempt = job.attempt /\ ~job.cancel
    /\ IF run[r].action = "start" THEN job.status = "queued" /\ ~job.needs ELSE job.asked
    /\ head = job.latest
Claimed(r) ==
    /\ job' = [job EXCEPT !.status = "running", !.asked = FALSE, !.owner = r, !.io = "running"]
    /\ run' = [run EXCEPT ![r].pc = "files", ![r].todo = (Files \ Published) \ Mine(r).failed]
ClaimAgain(r) ==
    /\ run[r].pc = "claim"
    /\ IF MayClaim(r) THEN Claimed(r) ELSE Return(r, TRUE) /\ UNCHANGED job
    /\ Calm /\ UNCHANGED <<attempt, head, faults>>
ClaimImport(r) ==
    /\ run[r].pc = "claim"
    /\ IF MayClaim(r) /\ job.owner = 0 /\ job.io # "running"
         THEN Claimed(r) ELSE Return(r, TRUE) /\ UNCHANGED job
    /\ Calm /\ UNCHANGED <<attempt, head, faults>>

(* withWorker, and what every step of the worker asks again *)
Works(r) == job.attempt = run[r].attempt /\ job.owner = r /\ job.io = "running" /\ ~job.cancel
First(S) == CHOOSE f \in S : \A g \in S : f <= g

(* RecordImportFile: an outcome is recorded once, for a file of the attempt. *)
Record(r, f, readable) ==
    LET a == run[r].attempt IN
    IF f \in Mine(r).read \/ (f \in Mine(r).positions /\ f \notin Mine(r).failed)
      THEN IF readable
             THEN /\ attempt' = [attempt EXCEPT ![a].read = @ \cup {f}]
                  /\ run' = [run EXCEPT ![r].todo = @ \ {f}, ![r].prepared = @ \cup {f}]
           ELSE IF f \in Mine(r).read THEN Fail(r, TRUE) /\ UNCHANGED attempt
           ELSE /\ attempt' = [attempt EXCEPT ![a].failed = @ \cup {f}]
                /\ run' = [run EXCEPT ![r].todo = @ \ {f}]
      ELSE Fail(r, FALSE) /\ UNCHANGED attempt

Extract(r) ==
    /\ run[r].pc = "files" /\ run[r].todo # {}
    /\ IF ~Works(r) \/ run[r].stopped THEN Fail(r, FALSE) /\ UNCHANGED <<attempt, faults>>
       ELSE \/ \E readable \in BOOLEAN : Record(r, First(run[r].todo), readable) /\ UNCHANGED faults
            \/ Fault /\ Fail(r, FALSE) /\ UNCHANGED attempt
    /\ Calm /\ UNCHANGED <<job, head>>

(* FinishImport *)
Finished(r, unsure) ==
    IF job.status \in {"partial", "succeeded", "cancelled"} THEN job
    ELSE [job EXCEPT !.needs = unsure \/ Mine(r).write = "pending",
                     !.status = IF job.cancel THEN "cancel_requested" ELSE "failed"]

AllFailed(r) ==
    /\ run[r].pc = "files" /\ run[r].todo = {} /\ run[r].prepared = {}
    /\ IF job.attempt = run[r].attempt /\ job.owner = r /\ ~run[r].stopped
         THEN job' = Finished(r, FALSE) /\ Go(r, "end")
         ELSE Fail(r, FALSE) /\ UNCHANGED job
    /\ Calm /\ UNCHANGED <<attempt, head, faults>>

(* The publication begins: BeginWrite of the sources, under the claim. *)
Authorized(r) == Works(r) /\ job.status = "running" /\ head = job.latest
Begin(r) ==
    /\ run[r].pc = "files" /\ run[r].todo = {} /\ run[r].prepared # {}
    /\ IF /\ Authorized(r) /\ ~run[r].stopped /\ run[r].prepared = Mine(r).read
          /\ Mine(r).write \in {"none", "pending"}
         THEN /\ attempt' = [attempt EXCEPT ![run[r].attempt].write = "pending"]
              /\ Go(r, "put")
         ELSE Fail(r, FALSE) /\ UNCHANGED attempt
    /\ Calm /\ UNCHANGED <<job, head, faults>>

Put(r) ==
    /\ run[r].pc = "put"
    /\ \/ Go(r, "write") /\ UNCHANGED <<attempt, faults>>
       \/ /\ IF run[r].stopped THEN UNCHANGED faults ELSE Fault
          /\ attempt' = [attempt EXCEPT ![run[r].attempt].clean = FALSE]
          /\ Fail(r, TRUE)
    /\ Calm /\ UNCHANGED <<job, head>>

(* FinishWrite with finishImportedPublication, in one transaction *)
ImportOutcome == IF Published \cup Mine(job.owner).read = Files THEN "succeeded" ELSE "partial"
Commit(r) ==
    /\ head' = head + 1
    /\ attempt' = [attempt EXCEPT ![run[r].attempt].write = "completed"]
    /\ job' = [job EXCEPT !.latest = head + 1, !.needs = FALSE, !.asked = FALSE,
                          !.status = ImportOutcome]
    /\ Go(r, "end")
PublishUnasked(r) ==
    /\ run[r].pc = "write" /\ job.owner = r
    /\ Commit(r)
    /\ Calm /\ UNCHANGED faults
Publish(r) ==
    /\ run[r].pc = "write"
    /\ \/ Authorized(r) /\ Commit(r) /\ UNCHANGED faults
       \/ /\ IF Authorized(r) /\ ~run[r].stopped THEN Fault ELSE UNCHANGED faults
          /\ Fail(r, FALSE) /\ UNCHANGED <<job, attempt, head>>
    /\ Calm

FinishImport(r) ==
    /\ run[r].pc = "exit"
    /\ \/ /\ job.attempt = run[r].attempt /\ job.owner = r /\ UNCHANGED faults
          /\ job' = Finished(r, run[r].unsure) /\ Go(r, "end")
       \/ /\ IF job.attempt = run[r].attempt /\ job.owner = r THEN Fault ELSE UNCHANGED faults
          /\ run' = [run EXCEPT ![r].pc = "end", ![r].unsure = TRUE] /\ UNCHANGED job
    /\ Calm /\ UNCHANGED <<attempt, head>>

EndImportIO(r) ==
    /\ run[r].pc = "end"
    /\ \/ /\ job.attempt = run[r].attempt /\ job.owner = r /\ job.io = "running"
          /\ job' = [job EXCEPT !.owner = 0, !.io = "ended", !.needs = @ \/ run[r].unsure]
          /\ Return(r, run[r].failed) /\ UNCHANGED faults
       \/ /\ IF job.owner = r THEN Fault ELSE UNCHANGED faults
          /\ Go(r, "lost") /\ UNCHANGED job
    /\ Calm /\ UNCHANGED <<attempt, head>>

-----------------------------------------------------------------------------
(* A control: cancel, or a reconciliation that finds a claim *)

(* FinishImportControl *)
Settle(r, uncertain) ==
    IF ~Current(r) THEN Return(r, TRUE) /\ UNCHANGED job
    ELSE LET unsure == \/ uncertain \/ job.owner # 0 \/ job.io = "running"
                       \/ (job.cancel /\ Mine(r).write = "pending") IN
         /\ job' = [job EXCEPT !.needs = unsure, !.asked = FALSE,
                               !.status = CASE unsure -> @ [] job.cancel -> "cancelled"
                                            [] OTHER -> "queued"]
         /\ Return(r, FALSE)

ImportControlRecord(r) ==
    /\ run[r].pc \in {"record", "again"}
    /\ IF ~Current(r) THEN Return(r, TRUE) /\ UNCHANGED job
       ELSE IF run[r].pc = "record" /\ job.owner # 0
         THEN run' = [run EXCEPT ![r].pc = "stop", ![r].owner = job.owner] /\ UNCHANGED job
       ELSE IF job.io = "running" THEN Settle(r, TRUE)
       ELSE Go(r, IF job.cancel THEN "clean" ELSE "settle") /\ UNCHANGED job
    /\ Calm /\ UNCHANGED <<attempt, head, faults>>

(* The registry of this process: a call that has returned is joined, one of  *)
(* another process is unknown.                                              *)
Returned(o) == run[o].pc \in {"none", "returned", "lost"}
StopUnjoined(r) ==
    /\ run[r].pc = "stop"
    /\ Go(r, "prove")
    /\ Calm /\ UNCHANGED <<job, attempt, head, faults>>
Stop(r) ==
    /\ run[r].pc = "stop"
    /\ IF run[run[r].owner].pc = "dead" THEN Settle(r, TRUE)
       ELSE /\ run' = [run EXCEPT ![r].pc = "join", ![run[r].owner].stopped = TRUE]
            /\ UNCHANGED job
    /\ Calm /\ UNCHANGED <<attempt, head, faults>>

Join(r) ==
    /\ run[r].pc = "join"
    /\ IF Returned(run[r].owner) THEN Go(r, "prove") ELSE run[r].stopped /\ Return(r, TRUE)
    /\ Calm /\ UNCHANGED <<job, attempt, head, faults>>

ProveImportStop(r) ==
    /\ run[r].pc = "prove"
    /\ IF Current(r) /\ (job.owner = run[r].owner \/ (job.owner = 0 /\ job.io = "ended"))
         THEN /\ job' = [job EXCEPT !.owner = 0, !.io = "ended"]
              /\ run' = [run EXCEPT ![r].pc = "again",
                                    ![run[r].owner] = IF @.pc = "lost" THEN NoRun ELSE @]
         ELSE Return(r, TRUE) /\ UNCHANGED job
    /\ Calm /\ UNCHANGED <<attempt, head, faults>>

(* The unpublished sources are removed, if it is known which were written. *)
CancelWrite(r) ==
    /\ run[r].pc = "clean"
    /\ IF Mine(r).write # "pending" THEN Go(r, "settle") /\ UNCHANGED attempt
       ELSE \/ /\ attempt' = [attempt EXCEPT ![run[r].attempt].write = "cancelled"]
               /\ Go(r, "settle")
            \/ ~Mine(r).clean /\ Go(r, "unsettled") /\ UNCHANGED attempt
    /\ Calm /\ UNCHANGED <<job, head, faults>>

FinishImportControl(r) ==
    /\ run[r].pc \in {"settle", "unsettled"}
    /\ Settle(r, run[r].pc = "unsettled")
    /\ Calm /\ UNCHANGED <<attempt, head, faults>>

-----------------------------------------------------------------------------
(* The worker's process dies: what its calls did is not known to anybody. *)
Crash ==
    /\ \E r \in Runs : run[r].pc \notin {"none", "returned", "dead"}
    /\ Fault
    /\ run' = [r \in Runs |-> IF run[r].pc \in {"none", "returned"} THEN run[r]
                              ELSE [NoRun EXCEPT !.pc = "dead"]]
    /\ attempt' = [a \in Attempts |->
                     IF \E r \in Runs : run[r].pc = "put" /\ run[r].attempt = a
                       THEN [attempt[a] EXCEPT !.clean = FALSE] ELSE attempt[a]]
    /\ Calm /\ UNCHANGED <<job, head>>

ControlFails(r) ==
    /\ run[r].pc \in {"record", "again", "clean", "settle"} /\ Fault
    /\ Return(r, TRUE)
    /\ Calm /\ UNCHANGED <<job, attempt, head>>

Next ==
    \/ CreateImport \/ Cancel \/ Reconcile \/ Retry \/ Edit
    \/ \E e \in event : Deliver(e, FALSE) \/ Deliver(e, TRUE)
    \/ Receive \/ After \/ Crash
    \/ \E r \in Runs :
          \/ Execute(r) \/ Complete(r) \/ Timeout(r)
          \/ Route(r) \/ Verify(r) \/ ClaimImport(r) \/ Extract(r) \/ AllFailed(r)
          \/ Begin(r) \/ Put(r) \/ Publish(r) \/ FinishImport(r) \/ EndImportIO(r)
          \/ ImportControlRecord(r) \/ Stop(r) \/ Join(r) \/ ProveImportStop(r)
          \/ CancelWrite(r) \/ FinishImportControl(r) \/ ControlFails(r)

Spec == Init /\ [][Next]_vars

-----------------------------------------------------------------------------
Writing == {"files", "put", "write"}

(* The runs that write, and the claims of which nobody heard that they ended. *)
Holders == {r \in Runs : run[r].pc \in Writing \/ (run[r].pc = "dead" /\ job.owner = r)}

(* A file becomes a source of the script once. *)
PublishedOnce == \A a, b \in Attempts :
    a # b /\ attempt[a].write = "completed" /\ attempt[b].write = "completed"
    => attempt[a].read \cap attempt[b].read = {}

(* The outcome the user sees is that of all files. *)
OutcomeTrue == /\ job.status = "succeeded" => Published = Files
               /\ job.status = "partial" => Published \notin {{}, Files}

(* A job that is over and may be retried left nothing behind that could     *)
(* still be published.                                                      *)
NothingBehind ==
    /\ job.status \in {"partial", "failed", "cancelled"} /\ ~job.needs /\ job.owner = 0
    => ~PendingWrite /\ \A r \in Runs : run[r].pc \notin Writing

(* While the job publishes, the script is as the job left it. *)
LatestTrue == job.status = "running" \/ PendingWrite => head = job.latest

ImportHonest == PublishedOnce /\ OutcomeTrue /\ NothingBehind /\ LatestTrue

(* Nothing is published once a cancel was accepted. *)
CancelKept == job.cancel => Published' = Published

(* A retry extracts nothing but the files the attempt before it failed on.  *)
(* TLC refutes it (README, section 7).                                       *)
RetriesFailed == \A r \in Runs : run[r].pc = "files" => run[r].todo \subseteq Mine(r).positions

(* Whoever still holds the project's script can be told to let go.  TLC     *)
(* refutes it (README, section 7).                                           *)
NotStranded == PendingImport /\ ~CanControl => \E r \in Runs : run[r].pc = "end"
=============================================================================
