--------------------------- MODULE MediaTransfer ----------------------------
(***************************************************************************)
(* The copy of library items between a personal and a project library.  A  *)
(* worker copies the objects of one item after another under a lease and   *)
(* publishes an item when all of its objects are verified; what it does    *)
(* not publish it removes again.  A write is recorded before it is sent,   *)
(* so that an unknown one is never repeated.  Commands, deliveries and     *)
(* leases are those of MediaPurge; here a failed job can be retried.       *)
(***************************************************************************)
EXTENDS Naturals, Sequences, FiniteSets

CONSTANTS
    Items,          \* the items of the job, in the order of their index
    Parts,          \* [items -> its target objects]
    MaxCommands,    \* bound: the job's command and the controls after it
    MaxFaults       \* bound: crashes, calls without an answer, timeouts, lost leases

VARIABLES
    job,        \* media.transfer_job
    item,       \* [item -> status of media.transfer_item]
    object,     \* [object -> state of media.transfer_object]
    changed,    \* the first item's source has changed since the job was made
    stored,     \* target objects whose bytes are in object storage
    writing,    \* unanswered writes that may still take effect
    removing,   \* [object -> its unanswered removal: none; late, it may still
                \* take effect; over, it did or never will]
    run,        \* [commands -> the run it starts]
    commands,   \* number of accepted commands
    faults      \* number of faults so far

storage == <<stored, writing, removing>>
vars == <<job, item, object, changed, storage, run, commands, faults>>

ItemSet == {Items[n] : n \in DOMAIN Items}
ObjectsOf(i) == {Parts[i][k] : k \in DOMAIN Parts[i]}
Objects == UNION {ObjectsOf(i) : i \in ItemSet}
Commands == 1 .. MaxCommands

Terminal == {"succeeded", "partial_failed", "failed", "cancelled"}

NoRun == [pc |-> "none", action |-> "none", attempt |-> 0, n |-> 0, k |-> 0,
          code |-> "none", stop |-> FALSE]

(* Of an object: written, BeginTransferWrite has committed; verified, it was *)
(* read back; removed, its absence was proved; skipped, it was never written *)
(* and is now marked as removed.                                             *)
Init ==
    /\ job = [status |-> "none", attempt |-> 1, cancel |-> FALSE, needs |-> FALSE,
              unconfirmed |-> FALSE, ended |-> TRUE, fence |-> 0, leased |-> FALSE]
    /\ item = [i \in ItemSet |-> "none"]
    /\ object = [o \in Objects |-> "pending"]
    /\ changed = FALSE
    /\ stored = {} /\ writing = {} /\ removing = [o \in Objects |-> "none"]
    /\ run = [c \in Commands |-> NoRun]
    /\ commands = 0 /\ faults = 0

Emit(action, attempt) ==
    /\ commands < MaxCommands
    /\ commands' = commands + 1
    /\ run' = [run EXCEPT ![commands + 1] =
                  [NoRun EXCEPT !.pc = "sent", !.action = action, !.attempt = attempt]]

Fault == faults < MaxFaults /\ faults' = faults + 1

-----------------------------------------------------------------------------
(* Commands of the user *)

CreateTransfer ==
    /\ job.status = "none"
    /\ job' = [job EXCEPT !.status = "queued"]
    /\ item' = [i \in ItemSet |-> "queued"]
    /\ Emit("start", 1)
    /\ UNCHANGED <<object, changed, storage, faults>>

(* Objects of unpublished items that were written and not removed. *)
Written(o) == object[o] \in {"written", "verified"}
Unsafe == \E i \in ItemSet : item[i] # "succeeded" /\ \E o \in ObjectsOf(i) : Written(o)

(* Only a job that no worker has touched is cancelled at once. *)
CancelTransfer ==
    /\ job.status \notin Terminal \cup {"none"}
    /\ IF job.status = "queued" /\ job.ended /\ ~job.unconfirmed
          /\ \A o \in Objects : object[o] \in {"pending", "skipped"}
         THEN /\ item' = [i \in ItemSet |-> IF item[i] = "queued" THEN "cancelled" ELSE item[i]]
              /\ job' = [job EXCEPT !.status = "cancelled", !.cancel = TRUE]
              /\ UNCHANGED <<run, commands>>
         ELSE /\ job' = [job EXCEPT !.status = "cancel_requested", !.cancel = TRUE]
              /\ Emit("cancel", job.attempt)
              /\ UNCHANGED item
    /\ UNCHANGED <<object, changed, storage, faults>>

Requeued == [job EXCEPT !.status = "queued", !.attempt = @ + 1, !.needs = FALSE,
                        !.fence = 0, !.leased = FALSE]

RetryTransfer ==
    /\ ~job.cancel /\ job.ended /\ ~job.unconfirmed
    /\ job.status \in {"failed", "partial_failed"} /\ ~job.needs /\ ~Unsafe
    /\ object' = [o \in Objects |-> IF \E i \in ItemSet : item[i] = "failed" /\ o \in ObjectsOf(i)
                                      THEN "pending" ELSE object[o]]
    /\ item' = [i \in ItemSet |-> IF item[i] = "failed" THEN "queued" ELSE item[i]]
    /\ job' = Requeued
    /\ Emit("start", job.attempt + 1)
    /\ UNCHANGED <<changed, storage, faults>>

ReconcileTransfer ==
    /\ job.ended /\ ~job.unconfirmed
    /\ job.status = "needs_reconciliation" /\ job.needs
    /\ job' = Requeued
    /\ Emit("reconcile", job.attempt + 1)
    /\ UNCHANGED <<item, object, changed, storage, faults>>

(* The user edits the first item in its own library, once. *)
EditSource ==
    /\ job.status = "running" /\ ~changed
    /\ changed' = TRUE
    /\ UNCHANGED <<job, item, object, storage, run, commands, faults>>

-----------------------------------------------------------------------------
(* Delivery: a cancel signals the workflow of the attempt's start. *)
Live(c) == run[c].pc \notin {"none", "sent", "closed", "dead", "failed"}

VerifyTransferDelivery(r) == run[r].attempt = job.attempt /\ job.status \notin Terminal

Deliver(r) ==
    /\ run[r].pc = "sent"
    /\ IF VerifyTransferDelivery(r)
         THEN run' = [c \in Commands |->
                IF c = r THEN [run[r] EXCEPT !.pc = "claim"]
                ELSE IF /\ run[r].action = "cancel" /\ run[c].action = "start"
                        /\ run[c].attempt = run[r].attempt /\ Live(c)
                  THEN [run[c] EXCEPT !.stop = TRUE]
                ELSE run[c]]
         ELSE run' = [run EXCEPT ![r] = [NoRun EXCEPT !.pc = "closed"]]
    /\ UNCHANGED <<job, item, object, changed, storage, commands, faults>>

-----------------------------------------------------------------------------
(* The worker of a run *)

Step(r, to) == run' = [run EXCEPT ![r].pc = to]
Close(r, to) == run' = [run EXCEPT ![r] = [NoRun EXCEPT !.pc = to, !.attempt = run[r].attempt]]
Rest == <<item, object, changed, storage, commands, faults>>

ClaimByLease(r) == /\ job.attempt = run[r].attempt /\ ~job.leased
                   /\ job.status \in {"queued", "cancel_requested", "running"}
MayClaim(r) == /\ job.attempt = run[r].attempt
               /\ job.ended /\ ~job.unconfirmed
               /\ job.status \in {"queued", "cancel_requested"}

Claim(r) ==
    /\ run[r].pc = "claim"
    /\ IF MayClaim(r) /\ ~run[r].stop
         THEN /\ job' = [job EXCEPT !.status = IF job.cancel THEN "cancel_requested" ELSE "running",
                                    !.ended = FALSE, !.fence = r, !.leased = TRUE]
              /\ run' = [run EXCEPT ![r].pc = "item", ![r].n = 1]
         ELSE /\ UNCHANGED job
              /\ Close(r, IF job.attempt = run[r].attempt /\ job.status \in Terminal
                            THEN "closed" ELSE "failed")
    /\ UNCHANGED Rest

(* withLease; all but the cleanup also refuse a job that is not running. *)
Leased(r) == job.attempt = run[r].attempt /\ job.fence = r /\ job.leased /\ ~job.ended
Allowed(r) == Leased(r) /\ job.status = "running" /\ ~run[r].stop
Stopped(r) == run[r].stop \/ ~Leased(r) \/ job.status # "running"

Current(r) == Items[run[r].n]
Part(r) == Parts[Current(r)][run[r].k]
SourceChanged(r) == changed /\ run[r].n = 1
Advance(r) == run' = [run EXCEPT ![r].pc = "item", ![r].n = @ + 1, ![r].k = 0, ![r].code = "none"]
NextPart(r) == run' = [run EXCEPT ![r].pc = "copy", ![r].k = @ + 1]

(* A failure that is understood is cleaned up, an unknown one is not. *)
Failing(r, code) == run' = [run EXCEPT ![r].pc = "cleanup", ![r].k = 1, ![r].code = code]
Refused(r) == Failing(r, IF Leased(r) /\ (run[r].stop \/ job.status = "cancel_requested")
                           THEN "cancelled" ELSE "failed")
Unknown(r) == run' = [run EXCEPT ![r].pc = "fail", ![r].code = "unknown"]
ByWorker == <<job, changed, commands>>

(* A heartbeat that fails at the start of an item cancels the whole run. *)
StartTransferItem(r) ==
    /\ run[r].pc = "item" /\ run[r].n <= Len(Items)
    /\ IF item[Current(r)] = "succeeded"
         THEN Advance(r) /\ UNCHANGED item
       ELSE IF ~Allowed(r)
         THEN /\ run' = [run EXCEPT ![r].pc = "cleanup", ![r].k = 1, ![r].stop = TRUE,
                                    ![r].code = "cancelled"]
              /\ UNCHANGED item
       ELSE IF \/ item[Current(r)] \notin {"queued", "needs_reconciliation", "running"}
               \/ SourceChanged(r)
         THEN Failing(r, "failed") /\ UNCHANGED item
       ELSE /\ item' = [item EXCEPT ![Current(r)] = "running"]
            /\ run' = [run EXCEPT ![r].pc = "copy", ![r].k = 1]
    /\ UNCHANGED <<ByWorker, object, storage, faults>>

(* transferPrivateObject up to its write.  An object whose write was begun  *)
(* by an earlier run is only read back.                                      *)
BeginTransferWrite(r) ==
    /\ run[r].pc = "copy" /\ run[r].k <= Len(Parts[Current(r)])
    /\ CASE Written(Part(r)) ->
              /\ CASE Part(r) \notin stored -> Unknown(r)
                   [] Part(r) \in stored /\ object[Part(r)] = "verified" -> NextPart(r)
                   [] Part(r) \in stored /\ object[Part(r)] = "written" -> Step(r, "reconfirm")
              /\ UNCHANGED object
         [] object[Part(r)] \in {"removed", "skipped"} ->
              Failing(r, "failed") /\ UNCHANGED object
         [] object[Part(r)] = "pending" /\ Allowed(r) ->
              object' = [object EXCEPT ![Part(r)] = "written"] /\ Step(r, "put")
         [] object[Part(r)] = "pending" /\ ~Allowed(r) ->
              Refused(r) /\ UNCHANGED object
    /\ UNCHANGED <<ByWorker, item, storage, faults>>

(* The source cannot be read. *)
SourceUnavailable(r) ==
    /\ run[r].pc = "copy" /\ run[r].k <= Len(Parts[Current(r)])
    /\ object[Part(r)] = "pending" /\ Fault
    /\ Failing(r, "failed")
    /\ UNCHANGED <<ByWorker, item, object, storage>>

Put(r) ==
    /\ run[r].pc = "put"
    /\ stored' = stored \cup {Part(r)}
    /\ Step(r, "confirm")
    /\ UNCHANGED <<ByWorker, item, object, writing, removing, faults>>

(* No answer to the write: it takes effect at any later time, or never. *)
PutUnknown(r) ==
    /\ run[r].pc = "put"
    /\ IF Stopped(r) THEN UNCHANGED faults ELSE Fault
    /\ writing' = writing \cup {Part(r)}
    /\ Unknown(r)
    /\ UNCHANGED <<ByWorker, item, object, stored, removing>>

(* The receipt of an object that was read back.  If it is refused, the      *)
(* outcome of a write of this run is unknown; an object of an earlier run    *)
(* fails like any other call.                                                *)
ConfirmTransferObject(r) ==
    /\ run[r].pc \in {"confirm", "reconfirm"}
    /\ IF Allowed(r)
         THEN object' = [object EXCEPT ![Part(r)] = "verified"] /\ NextPart(r)
         ELSE /\ IF run[r].pc = "confirm" THEN Unknown(r) ELSE Refused(r)
              /\ UNCHANGED object
    /\ UNCHANGED <<ByWorker, item, storage, faults>>

PublishTransferItem(r) ==
    /\ run[r].pc = "copy" /\ run[r].k > Len(Parts[Current(r)])
    /\ IF ~Allowed(r)
         THEN Refused(r) /\ UNCHANGED item
       ELSE IF \/ item[Current(r)] # "running" \/ SourceChanged(r)
               \/ \E o \in ObjectsOf(Current(r)) : object[o] # "verified"
         THEN Failing(r, "failed") /\ UNCHANGED item
       ELSE item' = [item EXCEPT ![Current(r)] = "succeeded"] /\ Advance(r)
    /\ UNCHANGED <<ByWorker, object, storage, faults>>

TrustAbsence(r) ==
    /\ run[r].pc = "cleanup"
    /\ IF run[r].k > Len(Parts[Current(r)])
         THEN Step(r, "fail") /\ UNCHANGED <<object, stored>>
       ELSE IF ~Leased(r)
         THEN Unknown(r) /\ UNCHANGED <<object, stored>>
       ELSE /\ stored' = stored \ {Part(r)}
            /\ object' = [object EXCEPT ![Part(r)] = IF @ \in {"pending", "skipped"}
                                                        THEN "skipped" ELSE "removed"]
            /\ run' = [run EXCEPT ![r].k = @ + 1]
    /\ UNCHANGED <<ByWorker, item, writing, removing, faults>>

(* cleanupItem, on a context of its own: an object that was written and is  *)
(* not there may still arrive.                                               *)
Cleanup(r) ==
    /\ run[r].pc = "cleanup"
    /\ IF run[r].k > Len(Parts[Current(r)])
         THEN Step(r, "fail") /\ UNCHANGED <<object, stored>>
       ELSE IF ~Leased(r) \/ (Part(r) \notin stored /\ Written(Part(r)))
         THEN Unknown(r) /\ UNCHANGED <<object, stored>>
       ELSE /\ stored' = stored \ {Part(r)}
            /\ object' = [object EXCEPT ![Part(r)] = IF @ \in {"pending", "skipped"}
                                                        THEN "skipped" ELSE "removed"]
            /\ run' = [run EXCEPT ![r].k = @ + 1]
    /\ UNCHANGED <<ByWorker, item, writing, removing, faults>>

(* No answer to the removal, or no receipt for it. *)
CleanupUnknown(r) ==
    /\ run[r].pc = "cleanup" /\ run[r].k <= Len(Parts[Current(r)])
    /\ Leased(r) /\ Part(r) \in stored /\ Fault
    /\ removing' = [removing EXCEPT ![Part(r)] = "late"]
    /\ Unknown(r)
    /\ UNCHANGED <<ByWorker, item, object, stored, writing>>

FailTransferItem(r) ==
    /\ run[r].pc = "fail"
    /\ IF Leased(r) /\ item[Current(r)] # "succeeded"
         THEN /\ item' = [item EXCEPT ![Current(r)] =
                            CASE run[r].code = "unknown" -> "needs_reconciliation"
                              [] run[r].code = "cancelled" /\ job.status = "cancel_requested" -> "cancelled"
                              [] OTHER -> "failed"]
              /\ job' = [job EXCEPT !.needs = @ \/ run[r].code = "unknown"]
              /\ IF run[r].code = "unknown" \/ run[r].stop THEN Step(r, "end") ELSE Advance(r)
         ELSE UNCHANGED <<item, job>> /\ Step(r, "end")
    /\ UNCHANGED <<object, changed, storage, commands, faults>>

LastItem(r) ==
    /\ run[r].pc = "item" /\ run[r].n > Len(Items)
    /\ Step(r, "end")
    /\ UNCHANGED <<job, Rest>>

EndTransferPhysical(r) ==
    /\ run[r].pc = "end"
    /\ IF job.attempt = run[r].attempt /\ job.fence = r
         THEN job' = [job EXCEPT !.ended = TRUE, !.unconfirmed = FALSE] /\ Step(r, "finish")
         ELSE UNCHANGED job /\ Close(r, "failed")
    /\ UNCHANGED Rest

Unsettled == \/ \E i \in ItemSet : item[i] = "needs_reconciliation"
             \/ job.needs /\ Unsafe

FinishTransfer(r) ==
    /\ run[r].pc = "finish"
    /\ LET succeeded == {i \in ItemSet : item[i] = "succeeded"}
           holds == job.attempt = run[r].attempt /\ job.fence = r /\ job.leased /\ job.ended
           status == IF Unsettled THEN "needs_reconciliation"
                     ELSE IF succeeded = ItemSet THEN "succeeded"
                     ELSE IF succeeded # {} THEN "partial_failed"
                     ELSE IF job.status = "cancel_requested" THEN "cancelled" ELSE "failed"
       IN IF ~holds \/ (job.cancel /\ ~Unsettled /\ Unsafe)
            THEN Close(r, "failed") /\ UNCHANGED <<job, item>>
            ELSE /\ job' = [job EXCEPT !.status = status, !.needs = Unsettled]
                 /\ item' = [i \in ItemSet |-> IF job.cancel /\ ~Unsettled /\ i \notin succeeded
                                                 THEN "cancelled" ELSE item[i]]
                 /\ Close(r, "closed")
    /\ UNCHANGED <<object, changed, storage, commands, faults>>

-----------------------------------------------------------------------------
(* Faults *)

Physical == {"item", "copy", "put", "confirm", "reconfirm", "cleanup", "fail", "end"}

Crash(r) ==
    /\ run[r].pc \in Physical \cup {"finish"} /\ Fault
    /\ Close(r, IF run[r].pc = "finish" THEN "failed" ELSE "dead")
    /\ writing' = IF run[r].pc = "put" THEN writing \cup {Part(r)} ELSE writing
    /\ UNCHANGED <<ByWorker, item, object, stored, removing>>

Land(o) ==
    /\ \/ /\ o \in writing /\ stored' \in {stored, stored \cup {o}}
          /\ writing' = writing \ {o} /\ UNCHANGED removing
       \/ /\ removing[o] = "late" /\ stored' \in {stored, stored \ {o}}
          /\ removing' = [removing EXCEPT ![o] = "over"] /\ UNCHANGED writing
    /\ UNCHANGED <<job, item, object, changed, run, commands, faults>>

LeaseExpires ==
    /\ job.leased /\ ~job.ended /\ Fault
    /\ job' = [job EXCEPT !.leased = FALSE]
    /\ UNCHANGED <<item, object, changed, storage, run, commands>>

InterruptTransfer(r) ==
    IF job.attempt = run[r].attempt /\ job.fence = r /\ job.status \notin Terminal
      THEN job' = [job EXCEPT !.status = "needs_reconciliation", !.needs = TRUE,
                              !.unconfirmed = ~job.ended]
      ELSE UNCHANGED job

(* The workflow, after its activity failed or was given up. *)
Interrupt(r) ==
    /\ \/ run[r].pc = "failed" /\ Close(r, "closed") /\ UNCHANGED faults
       \/ run[r].pc = "dead" /\ job.status # "needs_reconciliation" /\ UNCHANGED <<run, faults>>
       \/ run[r].pc \in Physical /\ Fault /\ UNCHANGED run
    /\ InterruptTransfer(r)
    /\ UNCHANGED <<item, object, changed, storage, commands>>

Worker(r) ==
    \/ Claim(r) \/ StartTransferItem(r) \/ BeginTransferWrite(r) \/ Put(r)
    \/ ConfirmTransferObject(r) \/ PublishTransferItem(r) \/ Cleanup(r)
    \/ FailTransferItem(r) \/ LastItem(r) \/ EndTransferPhysical(r) \/ FinishTransfer(r)

Next ==
    \/ CreateTransfer \/ CancelTransfer \/ RetryTransfer \/ ReconcileTransfer \/ EditSource
    \/ \E r \in Commands : \/ Deliver(r) \/ Worker(r)
                           \/ SourceUnavailable(r) \/ PutUnknown(r) \/ CleanupUnknown(r)
                           \/ Crash(r) \/ Interrupt(r)
    \/ \E o \in Objects : Land(o)
    \/ LeaseExpires

Spec == Init /\ [][Next]_vars

-----------------------------------------------------------------------------
TypeOK ==
    /\ item \in [ItemSet -> {"none", "queued", "running", "succeeded", "failed",
                             "needs_reconciliation", "cancelled"}]
    /\ object \in [Objects -> {"pending", "written", "verified", "removed", "skipped"}]
    /\ stored \subseteq Objects /\ writing \subseteq Objects
    /\ removing \in [Objects -> {"none", "late", "over"}]
    /\ commands \in 0 .. MaxCommands /\ faults \in 0 .. MaxFaults

(* A published item has every object it registers, for ever, and a job with *)
(* a final result has left no other object behind.  An object whose removal *)
(* went unanswered is excepted: read back by a reconciliation and published,*)
(* it is gone when the removal takes effect after all.                      *)
PublishedComplete ==
    \A i \in ItemSet : item[i] = "succeeded" =>
        \A o \in ObjectsOf(i) : removing[o] = "none" => o \in stored
NothingLeftBehind == job.status \in Terminal =>
                        \A i \in ItemSet : item[i] # "succeeded" => ObjectsOf(i) \cap stored = {}
TransferWhole == PublishedComplete /\ NothingLeftBehind

(* One worker at a time, and none once the job can no longer be retried.    *)
Holders == {r \in Commands : run[r].pc \in Physical \cup {"dead"}}
Ended == job.status \in {"succeeded", "cancelled"}
Work == INSTANCE PhysicalWork WITH holders <- Holders, settled <- Ended
OneWorkerAtATime == Work!Spec

(* The run that follows a cancellation cleans the unpublished items: it     *)
(* leaves none of them unsettled that it never looked at.                   *)
CancelReachesEveryItem ==
    [][\A r \in Commands : FinishTransfer(r) /\ job.cancel /\ run[r].n > 0 =>
          \A m \in DOMAIN Items : m > run[r].n => item[Items[m]] # "needs_reconciliation"]_vars
=============================================================================
