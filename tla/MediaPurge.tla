----------------------------- MODULE MediaPurge -----------------------------
(***************************************************************************)
(* The permanent deletion of trashed library items.  A job freezes its     *)
(* items, a command of the user becomes an event, an event becomes one     *)
(* Temporal run, and a run's worker removes the objects of one item after  *)
(* another under a lease: all of an item's objects are verified before the *)
(* first is removed, and the intent to remove one is committed before the  *)
(* call.  Workers crash, outlive their activity and lose their lease; a    *)
(* call to object storage may take effect late or not at all.              *)
(***************************************************************************)
EXTENDS Naturals, Sequences, FiniteSets, Functions

CONSTANTS
    Items,          \* the items of the job, in the order of their index
    Parts,          \* [items -> its objects: the original and the renditions]
    MaxCommands,    \* bound: the job's command and the controls after it
    MaxFaults       \* bound: crashes, lost calls, timeouts and lost leases

VARIABLES
    job,        \* media.purge_job
    item,       \* [item -> status of media.purge_item]
    object,     \* [object -> "frozen", "verified", "started" or "removed"]
    catalog,    \* [item -> state of media.library_item]
    hidden,     \* items whose asset is marked as deleted
    stored,     \* objects whose bytes are in object storage
    inflight,   \* objects with a removal that may still take effect
    run,        \* [commands -> the run it starts]
    commands,   \* number of accepted commands
    faults      \* number of faults so far

library == <<catalog, hidden>>
storage == <<stored, inflight>>
vars == <<job, item, object, library, storage, run, commands, faults>>

ItemSet == Range(Items)
Objects == UNION {Range(Parts[i]) : i \in ItemSet}
Commands == 1 .. MaxCommands

(* A job lists an item once (UNIQUE (job_id, item_id)); two items never     *)
(* share an asset (UNIQUE (library_id, asset_id)), two assets never an      *)
(* object: its key is unique, or derived from the asset's.                  *)
ASSUME PurgeAssumption ==
    /\ Items \in Seq(ItemSet) /\ IsInjective(Items)
    /\ \A i \in ItemSet : Parts[i] \in Seq(Range(Parts[i]))
    /\ \A i, j \in ItemSet : Range(Parts[i]) \cap Range(Parts[j]) # {} => i = j
    /\ MaxCommands \in Nat \ {0} /\ MaxFaults \in Nat

Terminal == {"succeeded", "partial_failed", "failed", "cancelled"}
Settled == {"blocked", "succeeded", "cancelled"}
Reserving == {"queued", "running", "needs_reconciliation", "succeeded"}

NoRun == [pc |-> "none", action |-> "none", attempt |-> 0, n |-> 0, k |-> 0,
          held |-> {}, stop |-> FALSE, code |-> "none"]
Sent(action, attempt) == [NoRun EXCEPT !.pc = "sent", !.action = action, !.attempt = attempt]

Init ==
    /\ job = [status |-> "none", attempt |-> 1, cancel |-> FALSE, unconfirmed |-> FALSE,
              ended |-> TRUE, fence |-> 0, leased |-> FALSE]
    /\ item = [i \in ItemSet |-> "none"]
    /\ object = [o \in Objects |-> "frozen"]
    /\ catalog = [i \in ItemSet |-> "trashed"]
    /\ hidden = {}
    /\ stored = Objects
    /\ inflight = {}
    /\ run = [c \in Commands |-> NoRun]
    /\ commands = 0
    /\ faults = 0

Emit(action, attempt) ==
    /\ commands < MaxCommands
    /\ commands' = commands + 1
    /\ run' = [run EXCEPT ![commands + 1] = Sent(action, attempt)]

Fault == faults < MaxFaults /\ faults' = faults + 1

-----------------------------------------------------------------------------
(* Commands of the user *)

(* Items that something refers to are blocked; the assets of the others are *)
(* hidden with the job.                                                      *)
CreatePurge(used) ==
    /\ job.status = "none" /\ \A i \in ItemSet : catalog[i] = "trashed"
    /\ item' = [i \in ItemSet |-> IF i \in used THEN "blocked" ELSE "queued"]
    /\ hidden' = ItemSet \ used
    /\ IF used = ItemSet
         THEN job' = [job EXCEPT !.status = "failed"] /\ UNCHANGED <<run, commands>>
         ELSE job' = [job EXCEPT !.status = "queued"] /\ Emit("create", 1)
    /\ UNCHANGED <<object, catalog, storage, faults>>

Reconcilable == {"needs_reconciliation", "cancel_requested", "running"}

(* Only when the last worker is known to have stopped. *)
Reconcile ==
    /\ job.ended /\ ~job.unconfirmed /\ job.status \in Reconcilable
    /\ item' = [i \in ItemSet |-> IF item[i] \in {"running", "needs_reconciliation"}
                                    THEN "queued" ELSE item[i]]
    /\ job' = [job EXCEPT !.status = "queued", !.attempt = @ + 1]
    /\ Emit("reconcile", job.attempt + 1)
    /\ UNCHANGED <<object, library, storage, faults>>

(* What cancelPendingItem can still give back: no removal of one of its     *)
(* objects has begun.                                                        *)
NeverRemoved(i) == \A o \in Range(Parts[i]) : object[o] # "removed"
Untouched(i) == \A o \in Range(Parts[i]) : object[o] \in {"frozen", "verified"}
Cancellable(i) == item[i] \notin Settled /\ Untouched(i)

GiveBack(S) ==
    /\ item' = [i \in ItemSet |-> IF i \in S THEN "cancelled" ELSE item[i]]
    /\ hidden' = hidden \ S

RequestCancel ==
    /\ job.status \notin Terminal \cup {"none"}
    /\ LET quiet == job.ended /\ ~job.unconfirmed
           back == IF quiet THEN {i \in ItemSet : Cancellable(i)} ELSE {}
           done == quiet /\ \A i \in ItemSet : i \in back \/ item[i] \in Settled
       IN /\ GiveBack(back)
          /\ job' = [job EXCEPT !.cancel = TRUE,
                                !.status = IF done THEN "cancelled" ELSE "cancel_requested"]
          /\ IF done THEN UNCHANGED <<run, commands>> ELSE Emit("cancel", job.attempt)
    /\ UNCHANGED <<object, catalog, storage, faults>>

(* restore_items, refused while the item is reserved for a purge. *)
Restore(i) ==
    /\ job.status # "none"
    /\ catalog[i] = "trashed" /\ item[i] \notin Reserving
    /\ catalog' = [catalog EXCEPT ![i] = "active"]
    /\ UNCHANGED <<job, item, object, hidden, storage, run, commands, faults>>

-----------------------------------------------------------------------------
(* Delivery: an event becomes one workflow; a cancel first signals the      *)
(* attempt's first workflow, which cancels its activity.                    *)
Signalled(r) == {c \in Commands : /\ run[r].action = "cancel" /\ run[c].action = "create"
                                  /\ run[c].attempt = run[r].attempt
                                  /\ run[c].pc \notin {"sent", "closed", "dead", "end", "finish"}}

VerifyPurgeDelivery(r) == run[r].attempt = job.attempt /\ job.status \notin Terminal

Deliver(r) ==
    /\ run[r].pc = "sent"
    /\ IF VerifyPurgeDelivery(r)
         THEN run' = [c \in Commands |->
                        IF c = r THEN [run[r] EXCEPT !.pc = "claim"]
                        ELSE IF c \in Signalled(r) THEN [run[c] EXCEPT !.stop = TRUE]
                        ELSE run[c]]
         ELSE run' = [run EXCEPT ![r] = [NoRun EXCEPT !.pc = "closed", !.attempt = run[r].attempt]]
    /\ UNCHANGED <<job, item, object, library, storage, commands, faults>>

-----------------------------------------------------------------------------
(* The worker of a run *)

Step(r, to) == run' = [run EXCEPT ![r].pc = to]
Leave(r, to) == run' = [run EXCEPT ![r] = [NoRun EXCEPT !.pc = to, !.attempt = run[r].attempt]]
Unclaimed == <<item, object, library, storage, commands, faults>>

ClaimByLease(r) == job.attempt = run[r].attempt /\ ~job.leased
                   /\ job.status \in {"queued", "cancel_requested", "running"}
MayClaim(r) == /\ job.attempt = run[r].attempt
               /\ job.ended /\ ~job.unconfirmed
               /\ job.status \in {"queued", "cancel_requested"}

Claim(r) ==
    /\ run[r].pc = "claim"
    /\ IF MayClaim(r) /\ ~run[r].stop
         THEN /\ job' = [job EXCEPT !.status = "running", !.ended = FALSE, !.fence = r, !.leased = TRUE]
              /\ run' = [run EXCEPT ![r].pc = "item", ![r].n = 1]
         ELSE /\ UNCHANGED job
              /\ Leave(r, IF job.attempt = run[r].attempt /\ job.status \in Terminal
                            THEN "closed" ELSE "failed")
    /\ UNCHANGED Unclaimed

(* withLease *)
Leased(r) == /\ job.attempt = run[r].attempt /\ job.fence = r
             /\ job.leased /\ ~job.ended

Current(r) == Items[run[r].n]

(* The item and its asset are still as the job froze them. *)
ValidatePurgeItem(i) == catalog[i] = "trashed" /\ i \in hidden

WithObject(r) == /\ Leased(r) /\ ValidatePurgeItem(Current(r))
                 /\ item[Current(r)] \in {"running", "needs_reconciliation"}

Part(r) == Parts[Current(r)][run[r].k]
Failing(r, code) == run' = [run EXCEPT ![r].pc = "fail", ![r].code = code]
Working(r, at) == run[r].pc = at /\ ~run[r].stop
NextItem(r) == run' = [run EXCEPT ![r].pc = "item", ![r].n = @ + 1, ![r].k = 0, ![r].held = {}]
Storage(r) == UNCHANGED <<job, catalog, commands>>

StartItem(r) ==
    /\ Working(r, "item") /\ run[r].n <= Len(Items)
    /\ LET i == Current(r) IN
       IF ~Leased(r)
         THEN Failing(r, "refused") /\ UNCHANGED <<item, hidden>>
       ELSE IF item[i] \in Settled
         THEN NextItem(r) /\ UNCHANGED <<item, hidden>>
       ELSE IF job.cancel /\ Untouched(i)
         THEN NextItem(r) /\ GiveBack({i})
       ELSE IF ~ValidatePurgeItem(i)
         THEN Failing(r, "refused") /\ UNCHANGED <<item, hidden>>
       ELSE /\ item' = [item EXCEPT ![i] = "running"]
            /\ run' = [run EXCEPT ![r].pc = "verify", ![r].k = 1,
                           ![r].held = {o \in Range(Parts[i]) : object[o] \in {"started", "removed"}}]
            /\ UNCHANGED hidden
    /\ Storage(r) /\ UNCHANGED <<object, storage, faults>>

(* The first pass reads every object that is not known to be gone and       *)
(* records its digest.                                                       *)
Verify(r) ==
    /\ Working(r, "verify")
    /\ IF run[r].k > Len(Parts[Current(r)])
         THEN run' = [run EXCEPT ![r].pc = "remove", ![r].k = 1] /\ UNCHANGED object
       ELSE IF Part(r) \notin stored
         THEN /\ IF Part(r) \in run[r].held THEN run' = [run EXCEPT ![r].k = @ + 1]
                                             ELSE Failing(r, "source_unavailable")
              /\ UNCHANGED object
       ELSE IF object[Part(r)] = "removed" \/ ~WithObject(r)
         THEN Failing(r, "object_mismatch") /\ UNCHANGED object
       ELSE /\ object' = [object EXCEPT ![Part(r)] = IF @ = "frozen" THEN "verified" ELSE @]
            /\ run' = [run EXCEPT ![r].k = @ + 1]
    /\ Storage(r) /\ UNCHANGED <<item, hidden, storage, faults>>

(* The second pass.  A removal that was begun before and has taken effect   *)
(* only needs its receipt.                                                   *)
Begin(r) ==
    /\ Working(r, "remove") /\ run[r].k <= Len(Parts[Current(r)])
    /\ LET o == Part(r) IN
       IF o \in run[r].held
         THEN Step(r, IF o \in stored THEN "call" ELSE "confirm") /\ UNCHANGED object
       ELSE IF ~WithObject(r)
         THEN Failing(r, "refused") /\ UNCHANGED object
       ELSE IF job.cancel /\ Untouched(Current(r))
         THEN Failing(r, "cancelled") /\ UNCHANGED object
       ELSE IF object[o] # "verified" \/ \E p \in Range(Parts[Current(r)]) : object[p] = "frozen"
         THEN Failing(r, "object_mismatch") /\ UNCHANGED object
       ELSE object' = [object EXCEPT ![o] = "started"] /\ Step(r, "call")
    /\ Storage(r) /\ UNCHANGED <<item, hidden, storage, faults>>

Remove(r) ==
    /\ Working(r, "call")
    /\ stored' = stored \ {Part(r)}
    /\ Step(r, "confirm")
    /\ Storage(r) /\ UNCHANGED <<item, object, hidden, inflight, faults>>

(* No answer: the removal may take effect later, or never. *)
RemoveUnknown(r) ==
    /\ run[r].pc = "call"
    /\ IF run[r].stop THEN UNCHANGED faults ELSE Fault
    /\ inflight' = inflight \cup {Part(r)}
    /\ Failing(r, "object_remove_unknown")
    /\ Storage(r) /\ UNCHANGED <<item, object, hidden, stored>>

Confirm(r) ==
    /\ Working(r, "confirm")
    /\ IF WithObject(r)
         THEN /\ object' = [object EXCEPT ![Part(r)] = "removed"]
              /\ run' = [run EXCEPT ![r].pc = "remove", ![r].k = @ + 1]
         ELSE UNCHANGED object /\ Failing(r, "object_remove_unknown")
    /\ Storage(r) /\ UNCHANGED <<item, hidden, storage, faults>>

(* The item is retired only with a receipt for every object. *)
CompletePurgeItem(r) ==
    /\ Working(r, "remove") /\ run[r].k > Len(Parts[Current(r)])
    /\ LET i == Current(r) IN
       IF WithObject(r) /\ \A o \in Range(Parts[i]) : object[o] = "removed"
         THEN /\ item' = [item EXCEPT ![i] = "succeeded"]
              /\ catalog' = [catalog EXCEPT ![i] = "removed"]
              /\ NextItem(r)
         ELSE Failing(r, "refused") /\ UNCHANGED <<item, catalog>>
    /\ UNCHANGED <<job, object, hidden, storage, commands, faults>>

(* The activity is cancelled between two calls. *)
Interrupted(r) ==
    /\ run[r].stop /\ run[r].pc \in {"item", "verify", "remove", "confirm"}
    /\ IF run[r].pc = "item" /\ run[r].n > Len(Items) THEN Leave(r, "end")
                                                       ELSE Failing(r, "worker_interrupted")
    /\ UNCHANGED <<job, item, object, library, storage, commands, faults>>

FailPurgeItem(r) ==
    /\ run[r].pc = "fail"
    /\ LET i == Current(r) IN
       IF ~Leased(r) \/ item[i] \in Settled
         THEN Leave(r, "end") /\ UNCHANGED <<item, hidden>>
       ELSE /\ IF run[r].code = "cancelled" /\ job.cancel /\ Untouched(i)
                 THEN GiveBack({i})
                 ELSE item' = [item EXCEPT ![i] = "needs_reconciliation"] /\ UNCHANGED hidden
            /\ IF run[r].stop THEN Leave(r, "end") ELSE NextItem(r)
    /\ UNCHANGED <<job, object, catalog, storage, commands, faults>>

LastItem(r) ==
    /\ Working(r, "item") /\ run[r].n > Len(Items)
    /\ Leave(r, "end")
    /\ UNCHANGED <<job, item, object, library, storage, commands, faults>>

(* EndPurgePhysical proves that the worker has stopped: its fence, but not  *)
(* its lease, is required.                                                   *)
EndPurgePhysical(r) ==
    /\ run[r].pc = "end"
    /\ IF job.attempt = run[r].attempt /\ job.fence = r
         THEN job' = [job EXCEPT !.ended = TRUE, !.unconfirmed = FALSE] /\ Leave(r, "finish")
         ELSE UNCHANGED job /\ Leave(r, "failed")
    /\ UNCHANGED Unclaimed

Outcome ==
    LET succeeded == {i \in ItemSet : item[i] = "succeeded"} IN
    IF \E i \in ItemSet : item[i] \notin Settled THEN "needs_reconciliation"
    ELSE IF succeeded = ItemSet THEN "succeeded"
    ELSE IF succeeded # {} THEN "partial_failed"
    ELSE IF job.cancel THEN "cancelled"
    ELSE "failed"

FinishPurge(r) ==
    /\ run[r].pc = "finish"
    /\ IF job.attempt = run[r].attempt /\ job.fence = r /\ job.leased /\ job.ended
         THEN job' = [job EXCEPT !.status = Outcome] /\ Leave(r, "closed")
         ELSE UNCHANGED job /\ Leave(r, "failed")
    /\ UNCHANGED Unclaimed

-----------------------------------------------------------------------------
(* Faults *)

Physical == {"item", "verify", "remove", "call", "confirm", "fail", "end"}

(* The process dies; a removal it was calling may still take effect. *)
Crash(r) ==
    /\ run[r].pc \in Physical \cup {"finish"} /\ Fault
    /\ Leave(r, IF run[r].pc = "finish" THEN "failed" ELSE "dead")
    /\ inflight' = IF run[r].pc = "call" THEN inflight \cup {Part(r)} ELSE inflight
    /\ UNCHANGED <<job, item, object, library, stored, commands>>

(* A removal that was not answered takes effect or is dropped. *)
Land(o) ==
    /\ o \in inflight
    /\ inflight' = inflight \ {o}
    /\ stored' \in {stored, stored \ {o}}
    /\ UNCHANGED <<job, item, object, library, run, commands, faults>>

(* 45 seconds without a heartbeat; a lease that has run out is not renewed. *)
LeaseExpires ==
    /\ job.leased /\ Fault
    /\ job' = [job EXCEPT !.leased = FALSE]
    /\ UNCHANGED <<item, object, library, storage, run, commands>>

InterruptPurge(r) ==
    IF job.attempt = run[r].attempt /\ job.fence = r /\ job.status \notin Terminal
      THEN job' = [job EXCEPT !.status = "needs_reconciliation", !.unconfirmed = ~job.ended]
      ELSE UNCHANGED job

(* The workflow learns that its activity failed, or gives it up after 30    *)
(* seconds without a heartbeat while the worker goes on.                    *)
Interrupt(r) ==
    /\ \/ run[r].pc = "failed" /\ Leave(r, "closed") /\ UNCHANGED faults
       \/ run[r].pc = "dead" /\ job.status # "needs_reconciliation" /\ UNCHANGED <<run, faults>>
       \/ run[r].pc \in Physical /\ Fault /\ UNCHANGED run
    /\ InterruptPurge(r)
    /\ UNCHANGED <<item, object, library, storage, commands>>

Worker(r) ==
    \/ Claim(r) \/ StartItem(r) \/ Verify(r) \/ Begin(r) \/ Remove(r) \/ Confirm(r)
    \/ CompletePurgeItem(r) \/ Interrupted(r) \/ FailPurgeItem(r) \/ LastItem(r)
    \/ EndPurgePhysical(r) \/ FinishPurge(r)

Next ==
    \/ \E used \in SUBSET ItemSet : CreatePurge(used)
    \/ Reconcile \/ RequestCancel
    \/ \E i \in ItemSet : Restore(i)
    \/ \E r \in Commands : Deliver(r) \/ Worker(r) \/ RemoveUnknown(r) \/ Crash(r) \/ Interrupt(r)
    \/ \E o \in Objects : Land(o)
    \/ LeaseExpires

Spec == Init /\ [][Next]_vars

-----------------------------------------------------------------------------
TypeOK ==
    /\ item \in [ItemSet -> {"none", "blocked", "queued", "running",
                             "needs_reconciliation", "succeeded", "cancelled"}]
    /\ object \in [Objects -> {"frozen", "verified", "started", "removed"}]
    /\ catalog \in [ItemSet -> {"active", "trashed", "removed"}]
    /\ hidden \subseteq ItemSet /\ stored \subseteq Objects /\ inflight \subseteq Objects
    /\ commands \in 0 .. MaxCommands /\ faults \in 0 .. MaxFaults
    /\ job.fence \in 0 .. MaxCommands /\ job.attempt \in 1 .. MaxCommands

(* An item whose asset is not hidden can be opened or restored, so all of   *)
(* its bytes are there and nothing is about to remove them; an item that is *)
(* reported as purged has left no byte; a job with a final result has left  *)
(* no item half removed.                                                    *)
ReadableWhole == \A i \in ItemSet \ hidden :
                    Range(Parts[i]) \subseteq stored \ inflight
PurgedGone == \A i \in ItemSet : item[i] = "succeeded" => Range(Parts[i]) \cap stored = {}
NothingHalfDone == job.status \in Terminal => \A i \in ItemSet : item[i] \in Settled

BytesFollowCatalog == ReadableWhole /\ PurgedGone /\ NothingHalfDone

(* The workers of the job are those of PhysicalWork: no second one while    *)
(* the first may be acting, none once the job is settled.                   *)
Holders == {r \in Commands : run[r].pc \in Physical \cup {"dead"}}
Ended == job.status \in Terminal
Work == INSTANCE PhysicalWork WITH holders <- Holders, settled <- Ended
OneWorkerAtATime == Work!Spec
=============================================================================
