-------------------------------- MODULE Depth --------------------------------
(***************************************************************************)
(* Depth estimation: a native process runs for minutes under one worker,   *)
(* its output is three objects, and nothing is repeated by itself.  Every  *)
(* command of a user (start, cancel, reconcile) runs one workflow with one *)
(* execution of one activity.  A process whose end was not observed keeps  *)
(* its worker's fence; an object whose write or removal was not observed   *)
(* leaves the job "needs_reconciliation"; a cancellation deletes what was  *)
(* verified and is complete when all of it is known to be gone.            *)
(***************************************************************************)
EXTENDS Naturals, FiniteSets

CONSTANTS
    MaxAttempts,    \* bound: attempts of the job (the code stops at 100)
    MaxObjects,     \* objects of the output (the code has 3)
    MaxRuns,        \* bound: commands, each with its workflow and execution
    MaxFaults       \* bound: failures, lost answers, timeouts, crashes, revocations

VARIABLES
    job,        \* mediatool.depth_job
    object,     \* mediatool.depth_object, [attempts -> [objects -> its row]]
    asset,      \* [attempts -> the private media asset of the output]
    stored,     \* objects in object storage, <<attempt, number>>
    late,       \* unanswered writes and removals that may still be applied
    native,     \* executions whose native process runs
    events,     \* committed commands that are not delivered
    open,       \* workflows that have not ended
    stop,       \* executions whose context is cancelled
    exec,       \* [executions -> where the execution is]
    revoked,    \* of "creator" and "control" (who gave the last command): no longer authorized
    used,       \* number of commands so far
    faults      \* number of faults so far

rows == <<job, object, asset>>
outside == <<stored, late, native>>
flow == <<events, open, stop, used>>
vars == <<rows, outside, flow, exec, revoked, faults>>

Attempts == 1 .. MaxAttempts
Objects == 1 .. MaxObjects
Runs == 1 .. MaxRuns

Idle == [pc |-> "none", attempt |-> 0, action |-> "none", k |-> 1,
         err |-> "none", stopped |-> TRUE, uncertain |-> FALSE]

Init ==
    /\ job = [status |-> "none", attempt |-> 1, process |-> "none", worker |-> 0,
              needs |-> FALSE, unconfirmed |-> FALSE, cancel |-> FALSE,
              reconcile |-> FALSE, retryable |-> FALSE]
    /\ object = [a \in Attempts |-> [k \in Objects |-> "none"]]
    /\ asset = [a \in Attempts |-> "none"]
    /\ stored = {} /\ late = {} /\ native = {}
    /\ events = {} /\ open = {} /\ stop = {} /\ used = 0
    /\ exec = [e \in Runs |-> Idle]
    /\ revoked = {} /\ faults = 0

Fault == faults < MaxFaults /\ faults' = faults + 1
Terminal == job.status \in {"review_required", "succeeded", "cancelled"}

-----------------------------------------------------------------------------
(* Commands of the users *)

Command(action, attempt) ==
    /\ used < MaxRuns /\ used' = used + 1
    /\ events' = events \cup {[run |-> used + 1, action |-> action, attempt |-> attempt]}
    /\ revoked' = IF action = "start" THEN revoked ELSE revoked \ {"control"}
    /\ UNCHANGED <<object, asset, outside, open, stop, exec, faults>>

CreateDepth ==
    /\ job.status = "none"
    /\ job' = [job EXCEPT !.status = "queued"]
    /\ Command("start", 1)

CancelDepth ==
    /\ job.status \in {"queued", "running", "review_required", "failed", "cancel_requested"}
    /\ job' = [job EXCEPT !.cancel = TRUE, !.status = IF job.needs THEN @ ELSE "cancel_requested"]
    /\ Command("cancel", job.attempt)

RetryFailed ==
    /\ job.status \in {"failed", "cancelled"} /\ job.attempt < MaxAttempts
    /\ job' = [job EXCEPT !.status = "queued", !.attempt = @ + 1, !.process = "none", !.worker = 0,
                          !.cancel = FALSE, !.needs = FALSE, !.unconfirmed = FALSE]
    /\ Command("start", job.attempt + 1)

RetryDepth ==
    /\ job.status \in {"failed", "cancelled"} /\ job.attempt < MaxAttempts
    /\ job.retryable /\ ~job.needs /\ ~job.unconfirmed /\ job.worker = 0
    /\ job' = [job EXCEPT !.status = "queued", !.attempt = @ + 1, !.process = "none",
                          !.cancel = FALSE, !.retryable = FALSE]
    /\ Command("start", job.attempt + 1)

ReconcileDepth ==
    /\ job.status = "failed" /\ job.needs /\ ~job.unconfirmed
    /\ job.worker = 0 /\ job.process = "ended" /\ ~job.reconcile
    /\ job' = [job EXCEPT !.reconcile = TRUE]
    /\ Command("reconcile", job.attempt)

(* A person accepts the output; the media asset becomes usable. *)
ReviewDepth ==
    /\ job.status = "review_required" /\ ~job.cancel /\ ~job.unconfirmed /\ job.worker = 0
    /\ \A k \in Objects : object[job.attempt][k] = "verified"
    /\ job' = [job EXCEPT !.status = "succeeded", !.retryable = FALSE]
    /\ asset' = [asset EXCEPT ![job.attempt] = "published"]
    /\ UNCHANGED <<object, outside, flow, exec, revoked, faults>>

Revoke(who) ==
    /\ who \notin revoked /\ Fault
    /\ revoked' = revoked \cup {who}
    /\ UNCHANGED <<rows, outside, flow, exec>>

-----------------------------------------------------------------------------
(* Delivery and workflow *)

(* A cancel stops the context of the attempt's start, then runs like the rest. *)
Deliver(d) ==
    /\ d \in events
    /\ events' = events \ {d}
    /\ IF d.attempt = job.attempt /\ ~Terminal
         THEN /\ exec' = [exec EXCEPT ![d.run] = [Idle EXCEPT !.pc = "claim", !.attempt = d.attempt,
                                                              !.action = d.action]]
              /\ open' = open \cup {d.run}
              /\ stop' = IF d.action # "cancel" THEN stop
                         ELSE stop \cup {e \in open : exec[e].action = "start"
                                                        /\ exec[e].attempt = d.attempt}
         ELSE UNCHANGED <<exec, open, stop>>
    /\ UNCHANGED <<rows, outside, used, revoked, faults>>

At(e, pc) == exec[e].pc = pc
Own(e) == job.attempt = exec[e].attempt /\ job.worker = e

Interrupted(j) ==
    [j EXCEPT !.process = IF @ = "ended" THEN "ended" ELSE "unknown",
              !.unconfirmed = j.process # "ended",
              !.status = "failed", !.needs = TRUE, !.retryable = FALSE]

(* The workflow's last activity, after an error, a timeout or a crash. *)
Interrupt(e) ==
    /\ e \in open
    /\ IF exec[e].pc \in {"error", "dead"} THEN UNCHANGED faults
       ELSE exec[e].pc # "done" /\ Fault
    /\ open' = open \ {e} /\ stop' = stop \cup {e}
    /\ job' = IF Own(e) THEN Interrupted(job) ELSE job
    /\ UNCHANGED <<object, asset, outside, events, used, exec, revoked>>

Close(e) ==
    /\ e \in open /\ At(e, "done")
    /\ open' = open \ {e}
    /\ UNCHANGED <<rows, outside, events, stop, used, exec, revoked, faults>>

-----------------------------------------------------------------------------
(* An execution: claim, process, store *)

Return(e, pc) == exec' = [exec EXCEPT ![e] = [Idle EXCEPT !.pc = pc, !.attempt = exec[e].attempt,
                                                           !.action = exec[e].action]]
Goto(e, pc, k) == exec' = [exec EXCEPT ![e].pc = pc, ![e].k = k]

(* The deferred part of Execute: a cancelled execution cleans up first. *)
Quit(e, err, uncertain) ==
    exec' = [exec EXCEPT ![e].pc = IF err = "cancelled" THEN "clean" ELSE "finish",
                         ![e].k = 1, ![e].err = err, ![e].uncertain = uncertain]

HasOutput == \E k \in Objects : object[job.attempt][k] # "none"

(* Nothing was dispatched and nobody authorized asks for it any more. *)
RejectedCancel == [job EXCEPT !.status = "failed", !.cancel = FALSE,
                              !.retryable = FALSE, !.needs = FALSE]

Claimable(e) ==
    IF exec[e].action = "reconcile"
      THEN job.status = "failed" /\ job.needs /\ job.process = "ended"
      ELSE job.status \in {"queued", "cancel_requested"} /\ ~job.needs
             /\ job.process \in {"none", "ended"}

Claim(e) ==
    /\ At(e, "claim")
    /\ LET controlled == job.cancel \/ exec[e].action = "reconcile"
           busy == job.attempt # exec[e].attempt \/ job.worker # 0 \/ job.unconfirmed
           barred == (IF controlled THEN "control" ELSE "creator") \in revoked
       IN CASE busy -> Return(e, "error") /\ UNCHANGED job
            [] ~busy /\ barred ->
                 /\ job' = IF job.status = "cancel_requested" /\ job.cancel
                              /\ job.process = "none" /\ ~HasOutput
                             THEN RejectedCancel
                           ELSE IF exec[e].action = "reconcile" /\ job.reconcile
                             THEN [job EXCEPT !.reconcile = FALSE, !.status = "failed"]
                           ELSE job
                 /\ Return(e, "error")
            [] ~busy /\ ~barred /\ Terminal -> Return(e, "done") /\ UNCHANGED job
            [] ~busy /\ ~barred /\ ~Terminal ->
                 IF (exec[e].action = "reconcile" /\ ~job.reconcile) \/ ~Claimable(e)
                   THEN Return(e, "error") /\ UNCHANGED job
                   ELSE /\ job' = [job EXCEPT !.worker = e, !.reconcile = FALSE,
                                     !.status = IF job.cancel /\ exec[e].action # "reconcile"
                                                  THEN "cancel_requested" ELSE "running"]
                        /\ IF job.cancel THEN Quit(e, "cancelled", FALSE)
                           ELSE Goto(e, IF exec[e].action = "reconcile" THEN "check" ELSE "start", 1)
    /\ UNCHANGED <<object, asset, outside, flow, revoked, faults>>

(* withDepthAttempt: why a step of the execution is refused. *)
Refusal(e) ==
    CASE ~Own(e) \/ job.unconfirmed -> "busy"
      [] Own(e) /\ ~job.unconfirmed /\ (job.cancel \/ job.status = "cancel_requested") -> "cancelled"
      [] Own(e) /\ ~job.unconfirmed /\ ~job.cancel /\ job.status # "cancel_requested" ->
           IF job.status # "running" THEN "conflict"
           ELSE IF "creator" \in revoked THEN "forbidden" ELSE "none"

MayClean(e) ==
    /\ Own(e) /\ ~job.unconfirmed /\ job.cancel
    /\ job.process \in {"none", "ended"} /\ "control" \notin revoked

(* The source is read and probed, the dispatch recorded, the process begun. *)
StartProcess(e) ==
    /\ At(e, "start")
    /\ IF Refusal(e) = "none" /\ job.process = "none"
         THEN /\ job' = [job EXCEPT !.process = "started"]
              /\ native' = native \cup {e}
              /\ Goto(e, "native", 1)
         ELSE UNCHANGED <<job, native>> /\ Quit(e, Refusal(e), FALSE)
    /\ UNCHANGED <<object, asset, stored, late, flow, revoked, faults>>

(* The process ends, by itself or with the context. *)
ProcessEnds(e) ==
    /\ At(e, "native")
    /\ native' = native \ {e}
    /\ \E err \in {"none", "failed"} :
          /\ IF err = "none" \/ e \in stop THEN UNCHANGED faults ELSE Fault
          /\ exec' = [exec EXCEPT ![e].pc = "end", ![e].err = err]
    /\ UNCHANGED <<rows, stored, late, flow, revoked>>

(* The process could not be seen to end. *)
ProcessUncertain(e) ==
    /\ At(e, "native") /\ Fault
    /\ exec' = [exec EXCEPT ![e].pc = "finish", ![e].stopped = FALSE]
    /\ UNCHANGED <<rows, outside, flow, revoked>>

NativeEnds(e) ==
    /\ e \in native /\ ~At(e, "native")
    /\ native' = native \ {e}
    /\ UNCHANGED <<rows, stored, late, flow, exec, revoked, faults>>

(* The end is recorded for the owner even after its job was given up.      *)
EndProcess(e) ==
    /\ At(e, "end")
    /\ IF Own(e)
         THEN /\ job' = [job EXCEPT !.process = "ended", !.unconfirmed = FALSE]
              /\ IF exec[e].err = "none" THEN Goto(e, "freeze", 1)
                 ELSE Quit(e, IF job.cancel \/ job.status = "cancel_requested"
                                THEN "cancelled" ELSE "failed", FALSE)
         ELSE UNCHANGED job /\ Quit(e, "busy", TRUE)
    /\ UNCHANGED <<object, asset, outside, flow, revoked, faults>>

(* The manifest of the output; from here on a failure is uncertain. *)
FreezeArtifact(e) ==
    /\ At(e, "freeze")
    /\ IF Refusal(e) = "none" /\ job.process = "ended"
         THEN /\ object' = [object EXCEPT ![job.attempt] = [k \in Objects |-> "pending"]]
              /\ Goto(e, "write", 1)
         ELSE UNCHANGED object /\ Quit(e, Refusal(e), FALSE)
    /\ UNCHANGED <<job, asset, outside, flow, revoked, faults>>

Row(e) == object[exec[e].attempt][exec[e].k]
Key(e) == <<exec[e].attempt, exec[e].k>>
SetRow(e, status) == object' = [object EXCEPT ![exec[e].attempt][exec[e].k] = status]
NextObject(e, pc, last) ==
    IF exec[e].k < MaxObjects THEN Goto(e, pc, exec[e].k + 1) ELSE Goto(e, last, 1)

BeginWrite(e) ==
    /\ At(e, "write")
    /\ IF Refusal(e) = "none" /\ Row(e) = "pending"
         THEN SetRow(e, "written") /\ Goto(e, "put", exec[e].k)
         ELSE UNCHANGED object /\ Quit(e, Refusal(e), TRUE)
    /\ UNCHANGED <<job, asset, outside, flow, revoked, faults>>

Put(e) ==
    /\ At(e, "put")
    /\ stored' = stored \cup {Key(e)}
    /\ Goto(e, "confirm", exec[e].k)
    /\ UNCHANGED <<rows, late, native, flow, revoked, faults>>

(* The write is not answered and the object cannot be read. *)
PutUnknown(e) ==
    /\ At(e, "put") /\ Fault
    /\ late' = late \cup {[op |-> "put", key |-> Key(e)]}
    /\ Quit(e, "failed", TRUE)
    /\ UNCHANGED <<rows, stored, native, flow, revoked>>

(* After the bytes were read back; a cancellation does not prevent it. *)
ConfirmObject(e) ==
    /\ At(e, "confirm")
    /\ IF Refusal(e) = "none" \/ (Refusal(e) = "cancelled" /\ MayClean(e))
         THEN SetRow(e, "verified") /\ NextObject(e, "write", "commit")
         ELSE UNCHANGED object /\ Quit(e, IF Refusal(e) = "cancelled" THEN "conflict"
                                          ELSE Refusal(e), TRUE)
    /\ UNCHANGED <<job, asset, outside, flow, revoked, faults>>

(* A reconciliation reads the objects that were begun; it writes none. *)
CheckObject(e) ==
    /\ At(e, "check")
    /\ IF \/ ~Own(e) \/ job.unconfirmed \/ Row(e) \notin {"written", "verified"}
          \/ Key(e) \notin stored \/ "control" \in revoked
          \/ (~job.cancel /\ (job.status # "running" \/ job.process # "ended"))
         THEN UNCHANGED object /\ Quit(e, "conflict", TRUE)
         ELSE SetRow(e, "verified") /\ NextObject(e, "check", "commit")
    /\ UNCHANGED <<job, asset, outside, flow, revoked, faults>>

Commit(e) ==
    /\ At(e, "commit")
    /\ IF Refusal(e) = "none" /\ job.process = "ended"
            /\ \A k \in Objects : object[job.attempt][k] = "verified"
         THEN /\ job' = [job EXCEPT !.status = "review_required", !.worker = 0,
                                    !.needs = FALSE, !.retryable = FALSE]
              /\ asset' = [asset EXCEPT ![job.attempt] = "pending"]
              /\ \/ Return(e, "done") /\ UNCHANGED faults
                 \/ Quit(e, "failed", TRUE) /\ Fault
         ELSE UNCHANGED <<job, asset, faults>> /\ Quit(e, Refusal(e), TRUE)
    /\ UNCHANGED <<object, outside, flow, revoked>>

(* The source changed, the context ended, a file, the store or the database *)
(* is unavailable.                                                          *)
Fails(e) ==
    /\ exec[e].pc \in {"start", "end", "freeze", "write", "confirm", "check", "commit"}
    /\ IF e \in stop /\ exec[e].pc # "end" THEN UNCHANGED faults ELSE Fault
    /\ Quit(e, "failed", exec[e].pc \notin {"start", "freeze"})
    /\ UNCHANGED <<rows, outside, flow, revoked>>

ClaimFails(e) ==
    /\ At(e, "claim")
    /\ IF e \in stop THEN UNCHANGED faults ELSE Fault
    /\ Return(e, "error")
    /\ UNCHANGED <<rows, outside, flow, revoked>>

-----------------------------------------------------------------------------
(* Cleanup, finish *)

CleanUncertain(e) == exec' = [exec EXCEPT ![e].pc = "finish", ![e].uncertain = TRUE]
CleanDone(e) == exec' = [exec EXCEPT ![e].pc = "finish", ![e].uncertain = FALSE]
NextClean(e) == IF exec[e].k < MaxObjects THEN Goto(e, "clean", exec[e].k + 1) ELSE CleanDone(e)

(* A write that was begun may still arrive: only an object that was read    *)
(* and whose removal was begun is gone when it is missing.                  *)
Gone(e) == Row(e) = "pending" \/ (Row(e) = "deleting" /\ Key(e) \notin stored)
GoneWhenMissing(e) == Row(e) = "pending" \/ Key(e) \notin stored

CleanTrusting(e) ==
    /\ At(e, "clean")
    /\ CASE ~MayClean(e) -> CleanUncertain(e) /\ UNCHANGED object
         [] MayClean(e) /\ Row(e) = "none" -> CleanDone(e) /\ UNCHANGED object
         [] MayClean(e) /\ Row(e) = "removed" -> NextClean(e) /\ UNCHANGED object
         [] MayClean(e) /\ Row(e) \notin {"none", "removed"} ->
              IF GoneWhenMissing(e) THEN SetRow(e, "removed") /\ NextClean(e)
              ELSE SetRow(e, "deleting") /\ Goto(e, "remove", exec[e].k)
    /\ UNCHANGED <<job, asset, outside, flow, revoked, faults>>

CleanObject(e) ==
    /\ At(e, "clean")
    /\ CASE ~MayClean(e) -> CleanUncertain(e) /\ UNCHANGED object
         [] MayClean(e) /\ Row(e) = "none" -> CleanDone(e) /\ UNCHANGED object
         [] MayClean(e) /\ Row(e) = "removed" -> NextClean(e) /\ UNCHANGED object
         [] MayClean(e) /\ Row(e) \notin {"none", "removed"} ->
              IF Gone(e) THEN SetRow(e, "removed") /\ NextClean(e)
              ELSE IF Key(e) \notin stored THEN CleanUncertain(e) /\ UNCHANGED object
              ELSE SetRow(e, "deleting") /\ Goto(e, "remove", exec[e].k)
    /\ UNCHANGED <<job, asset, outside, flow, revoked, faults>>

Remove(e) ==
    /\ At(e, "remove")
    /\ stored' = stored \ {Key(e)}
    /\ Goto(e, "clean", exec[e].k)
    /\ UNCHANGED <<rows, late, native, flow, revoked, faults>>

CleanFails(e) ==
    /\ exec[e].pc \in {"clean", "remove"} /\ Fault
    /\ late' = IF At(e, "remove") THEN late \cup {[op |-> "remove", key |-> Key(e)]} ELSE late
    /\ CleanUncertain(e)
    /\ UNCHANGED <<rows, stored, native, flow, revoked>>

Land(l) ==
    /\ l \in late
    /\ late' = late \ {l}
    /\ stored' \in {stored, IF l.op = "put" THEN stored \cup {l.key} ELSE stored \ {l.key}}
    /\ UNCHANGED <<rows, native, flow, exec, revoked, faults>>

Finish(e) ==
    /\ At(e, "finish")
    /\ LET p == IF job.process \in {"started", "unknown"} THEN "ended" ELSE job.process
           uncertain == exec[e].uncertain
           barred == job.cancel /\ (~uncertain \/ p = "none") /\ "control" \in revoked
           clean == \A k \in Objects : object[job.attempt][k] \in {"none", "removed"}
           ended == [job EXCEPT !.process = p, !.unconfirmed = FALSE, !.worker = 0]
           failed(unsure) == [ended EXCEPT !.status = "failed", !.needs = unsure,
                                           !.retryable = ~unsure /\ ~barred]
       IN CASE ~Own(e) \/ Terminal ->
                 UNCHANGED <<job, asset>> /\ Return(e, "error")
            [] Own(e) /\ ~Terminal /\ ~exec[e].stopped ->
                 job' = Interrupted(job) /\ UNCHANGED asset /\ Return(e, "error")
            [] Own(e) /\ ~Terminal /\ exec[e].stopped /\ job.cancel /\ ~uncertain /\ ~barred ->
                 IF clean
                   THEN /\ job' = [ended EXCEPT !.status = "cancelled", !.needs = FALSE,
                                                !.retryable = TRUE]
                        /\ asset' = [asset EXCEPT ![job.attempt] = IF @ = "none" THEN @ ELSE "rejected"]
                        /\ Return(e, "done")
                   ELSE UNCHANGED <<job, asset>> /\ Return(e, "error")
            [] Own(e) /\ ~Terminal /\ exec[e].stopped /\ ~(job.cancel /\ ~uncertain /\ ~barred) ->
                 /\ job' = IF ~barred THEN failed(uncertain)
                           ELSE IF p = "none" THEN [failed(FALSE) EXCEPT !.cancel = FALSE]
                           ELSE failed(TRUE)
                 /\ UNCHANGED asset /\ Return(e, "error")
    /\ UNCHANGED <<object, outside, flow, revoked, faults>>

FinishFails(e) ==
    /\ At(e, "finish") /\ Fault
    /\ Return(e, "error")
    /\ UNCHANGED <<rows, outside, flow, revoked>>

Crash(e) ==
    /\ exec[e].pc \notin {"none", "done", "error", "dead"} /\ Fault
    /\ Return(e, "dead")
    /\ late' = CASE At(e, "put") -> late \cup {[op |-> "put", key |-> Key(e)]}
                 [] At(e, "remove") -> late \cup {[op |-> "remove", key |-> Key(e)]}
                 [] OTHER -> late
    /\ UNCHANGED <<rows, stored, native, flow, revoked>>

Next ==
    \/ CreateDepth \/ CancelDepth \/ RetryDepth \/ ReconcileDepth \/ ReviewDepth
    \/ \E who \in {"creator", "control"} : Revoke(who)
    \/ \E d \in events : Deliver(d)
    \/ \E l \in late : Land(l)
    \/ \E e \in Runs :
          \/ Interrupt(e) \/ Close(e) \/ Claim(e) \/ ClaimFails(e)
          \/ StartProcess(e) \/ ProcessEnds(e) \/ ProcessUncertain(e) \/ NativeEnds(e)
          \/ EndProcess(e) \/ FreezeArtifact(e) \/ BeginWrite(e) \/ Put(e) \/ PutUnknown(e)
          \/ ConfirmObject(e) \/ CheckObject(e) \/ Commit(e) \/ Fails(e)
          \/ CleanObject(e) \/ Remove(e) \/ CleanFails(e)
          \/ Finish(e) \/ FinishFails(e) \/ Crash(e)

Spec == Init /\ [][Next]_vars

-----------------------------------------------------------------------------
(* Every variable keeps its type. *)
TypeOK ==
    /\ job.status \in {"none", "queued", "running", "review_required", "succeeded", "failed",
                       "cancel_requested", "cancelled"}
    /\ job.process \in {"none", "started", "ended", "unknown"}
    /\ job.attempt \in Attempts /\ job.worker \in 0 .. MaxRuns
    /\ stored \subseteq Attempts \X Objects /\ native \subseteq Runs
    /\ open \subseteq Runs /\ stop \subseteq Runs /\ used \in 0 .. MaxRuns
    /\ revoked \subseteq {"creator", "control"} /\ faults \in 0 .. MaxFaults

(* Output that is shown or published is stored; an attempt that is cancelled *)
(* or replaced leaves no object behind, not even a write that is under way;  *)
(* a job without an owner has no process; a job whose cancellation is        *)
(* accepted is never reviewed or published.                                  *)
ShownIsStored ==
    job.status \in {"review_required", "succeeded"} =>
        \A k \in Objects : <<job.attempt, k>> \in stored
NothingLeft ==
    \A a \in Attempts :
        a < job.attempt \/ (a = job.attempt /\ job.status = "cancelled") =>
            \A k \in Objects : /\ <<a, k>> \notin stored
                               /\ [op |-> "put", key |-> <<a, k>>] \notin late
UnownedIsIdle == job.worker = 0 => native = {}
CancelExcludesResult == job.cancel => job.status \notin {"review_required", "succeeded"}
PublishedOnce == \A a \in Attempts :
    asset[a] = "published" <=> job.status = "succeeded" /\ a = job.attempt

DepthHonest ==
    ShownIsStored /\ NothingLeft /\ UnownedIsIdle /\ CancelExcludesResult /\ PublishedOnce

(* One native process of the job at a time. *)
Work == INSTANCE PhysicalWork WITH holders <- native, settled <- FALSE
OneWorkerAtATime == Work!Spec
=============================================================================
