----------------------------- MODULE CodexImage -----------------------------
(***************************************************************************)
(* One image made by the Codex path: a request that must be sent once and  *)
(* can never be asked about.  The workflow begins a call, lets the adapter *)
(* carry it out and saves what it answered.  The adapter claims the right  *)
(* to send, starts a turn, stages the image and then its manifest under    *)
(* keys that are never overwritten, and records the receipt itself; it may *)
(* still be at work when the workflow has stopped waiting.  What is left   *)
(* uncertain goes to an administrator, who may state that nothing was      *)
(* executed.                                                               *)
(***************************************************************************)
EXTENDS Naturals

CONSTANTS MaxFaults, MaxSignals  \* bounds

ASSUME CodexAssumption == MaxFaults \in Nat /\ MaxSignals \in Nat

VARIABLES
    operation,      \* the operation's row: status, cancel event, the manual decision
    providerCall,    \* its row of provider_call
    staged,  \* private objects: the turn whose image and manifest they hold
    run,     \* the adapter's executions of provider.submit
    flow,    \* the workflow: where it is and the answer it has
    turns,   \* turns the provider was paid for
    faults, signals

codexVars == <<operation, providerCall, staged, run, flow, turns, faults, signals>>

(* The workflow gives the activity one attempt and takes the answer of its   *)
(* first execution; the second one repeats a task that holds the claim.      *)
Executions == {1, 2}

NoRun == [pc |-> "none", turn |-> 0, answer |-> "none", last |-> FALSE]

CodexInit ==
    /\ operation = [status |-> "confirmed", cancelled |-> FALSE, decision |-> FALSE]
    /\ providerCall = [begun |-> FALSE, claimed |-> FALSE, state |-> "none", receipt |-> 0]
    /\ staged = [image |-> 0, manifest |-> 0]
    /\ run = [e \in Executions |-> NoRun]
    /\ flow = [pc |-> "submit", answer |-> "none"]
    /\ turns = 0 /\ faults = 0 /\ signals = 0

Terminal(status) == status \in {"failed", "cancelled", "completed", "expired"}
Fault == faults < MaxFaults /\ faults' = faults + 1

-----------------------------------------------------------------------------
(* The call's row.  Outcome and state go together: completed is "ok",        *)
(* unknown "unknown" and not_submitted "error".                              *)

(* CompleteProviderCall: an answer that is there already is repeated, only   *)
(* an unknown one may still be replaced, and never once the operation ended. *)
Repeated(state, receipt) == providerCall.state = state /\ providerCall.receipt = receipt
AnyOperation == TRUE
OpenOperation == ~Terminal(operation.status)

AcceptsAnother(state, receipt) == (state = "completed" => providerCall.claimed) /\ OpenOperation
Accepts(state, receipt) ==
    /\ state = "completed" => providerCall.claimed
    /\ \/ Repeated(state, receipt)
       \/ providerCall.state \in {"none", "unknown"} /\ ~(providerCall.state = "unknown" /\ state = "unknown") /\ OpenOperation

Save(state, receipt) == providerCall' = [providerCall EXCEPT !.state = state, !.receipt = receipt]

-----------------------------------------------------------------------------
(* The adapter *)

AdapterAt(e, pc) == run[e].pc = pc

(* With its context ended an execution finishes the call it is in, no more. *)
Goes(e, pc) == run' = [run EXCEPT ![e].pc = IF run[e].last THEN "dead" ELSE pc]
Answers(e, answer) == run' = [run EXCEPT ![e].pc = "answered", ![e].answer = answer]
AdapterOnly == UNCHANGED <<operation, flow, signals>>

Redeliver ==
    /\ providerCall.claimed /\ AdapterAt(1, "none") = FALSE /\ AdapterAt(2, "none")
    /\ Fault /\ Goes(2, "called")
    /\ AdapterOnly /\ UNCHANGED <<providerCall, staged, turns>>

(* The context ended before anything was done, or the model is another one. *)
Refuse ==
    /\ AdapterAt(1, "called") /\ Fault /\ Answers(1, "not_submitted")
    /\ AdapterOnly /\ UNCHANGED <<providerCall, staged, turns>>

(* ClaimProviderDispatch under the locks of the operation and the call. *)
MayClaimAgain == operation.status = "submitting" /\ providerCall.state = "none" /\ ~operation.cancelled
MayClaim == ~providerCall.claimed /\ operation.status = "submitting" /\ providerCall.state = "none" /\ ~operation.cancelled

(* A claim whose answer is lost with the context is never used: the caller   *)
(* tells that nothing was sent.                                              *)
Claim(e) ==
    /\ AdapterAt(e, "called") /\ MayClaim
    /\ providerCall' = [providerCall EXCEPT !.claimed = TRUE]
    /\ \/ Goes(e, "claimed") /\ UNCHANGED faults
       \/ Answers(e, "not_submitted") /\ Fault
       \/ Answers(e, "unknown") /\ Fault
    /\ AdapterOnly /\ UNCHANGED <<staged, turns>>

NotClaimed(e) ==
    /\ AdapterAt(e, "called") /\ ~MayClaim
    /\ \/ providerCall.receipt # 0 /\ Answers(e, "completed")
       \/ providerCall.receipt = 0 /\ providerCall.claimed /\ Goes(e, "recovering")
       \/ ~providerCall.claimed /\ operation.status = "submitting" /\ providerCall.state = "none" /\ Answers(e, "cancelled")
       \/ ~providerCall.claimed /\ ~(operation.status = "submitting" /\ providerCall.state = "none") /\ Answers(e, "unknown")
    /\ AdapterOnly /\ UNCHANGED <<providerCall, staged, turns, faults>>

(* The scratch directory and the child process, then its thread. *)
AdapterStep(e, from, next, answer) ==
    /\ AdapterAt(e, from)
    /\ \/ Goes(e, next) /\ UNCHANGED faults
       \/ Answers(e, answer) /\ Fault
    /\ AdapterOnly /\ UNCHANGED <<providerCall, staged, turns>>

LaunchAgain(e) ==
    /\ AdapterAt(e, "claimed")
    /\ \/ Goes(e, "launched") /\ UNCHANGED <<faults, providerCall>>
       \/ Answers(e, "not_submitted") /\ Fault /\ providerCall' = [providerCall EXCEPT !.claimed = FALSE]
    /\ AdapterOnly /\ UNCHANGED <<staged, turns>>
Launch(e) == AdapterStep(e, "claimed", "launched", "not_submitted")
PrepareThread(e) == AdapterStep(e, "launched", "ready", "not_submitted")

(* Once turn/start may have been written the answer can only be unknown. *)
Undelivered(e) == turns' \in {turns, turns + 1} /\ Answers(e, "unknown") /\ Fault
StartTurn(e) ==
    /\ AdapterAt(e, "ready") /\ ~run[e].last
    /\ \/ turns' = turns + 1 /\ run' = [run EXCEPT ![e].pc = "turning", ![e].turn = turns + 1] /\ UNCHANGED faults
       \/ Undelivered(e)
    /\ AdapterOnly /\ UNCHANGED <<providerCall, staged>>

CompletedImage(e) == AdapterStep(e, "turning", "saved", "unknown")
ReadImage(e) == AdapterStep(e, "saved", "imaged", "unknown")

(* write: PutIfAbsent and a check of the bytes that are there.  A put whose  *)
(* answer is lost may have stored its object.                                *)
Holds(object, turn) == staged[object] = turn
Put(e, object, next) ==
    LET held == staged[object] IN
    \/ (held = 0 \/ Holds(object, run[e].turn)) /\ staged' = [staged EXCEPT ![object] = run[e].turn]
       /\ Goes(e, next) /\ UNCHANGED faults
    \/ held # 0 /\ ~Holds(object, run[e].turn) /\ Answers(e, "unknown") /\ UNCHANGED <<staged, faults>>
    \/ staged' \in {staged, [staged EXCEPT ![object] = IF held = 0 THEN run[e].turn ELSE held]}
       /\ Answers(e, "unknown") /\ Fault

StageImage(e) ==
    /\ AdapterAt(e, "imaged") /\ Put(e, "image", "staged")
    /\ AdapterOnly /\ UNCHANGED <<providerCall, turns>>

PublishUnread(e) ==
    /\ AdapterAt(e, "imaged") /\ Put(e, "manifest", "published")
    /\ AdapterOnly /\ UNCHANGED <<providerCall, turns>>
Publish(e) ==
    /\ AdapterAt(e, "staged") /\ Put(e, "manifest", "published")
    /\ AdapterOnly /\ UNCHANGED <<providerCall, turns>>

(* record, and the answer of Submit *)
Record(e, receipt) ==
    \/ Accepts("completed", receipt) /\ Save("completed", receipt) /\ Answers(e, "completed") /\ UNCHANGED faults
    \/ Accepts("completed", receipt) /\ Save("completed", receipt) /\ Answers(e, "unknown") /\ Fault
    \/ ~Accepts("completed", receipt) /\ Answers(e, "unknown") /\ UNCHANGED <<providerCall, faults>>

RecordReceipt(e) ==
    /\ AdapterAt(e, "published") /\ Record(e, run[e].turn)
    /\ AdapterOnly /\ UNCHANGED <<staged, turns>>

(* RecoverImage: only a manifest whose image can be read is evidence. *)
Manifest == staged.manifest
Recoverable == Manifest # 0 /\ Holds("image", Manifest)

Recover(e) ==
    /\ AdapterAt(e, "recovering")
    /\ IF Recoverable THEN Record(e, Manifest)
       ELSE Answers(e, "unknown") /\ UNCHANGED <<providerCall, faults>>
    /\ AdapterOnly /\ UNCHANGED <<staged, turns>>

(* The worker dies. *)
Die(e) ==
    /\ run[e].pc \notin {"none", "answered", "dead"} /\ Fault /\ Goes(e, "dead")
    /\ AdapterOnly /\ UNCHANGED <<providerCall, staged, turns>>

-----------------------------------------------------------------------------
(* The workflow.  Its flow activities are repeated until they are answered;  *)
(* each is one transaction whose repetition finds its own result.            *)

FlowAt(pc) == flow.pc = pc
FlowGoes(pc) == flow' = [flow EXCEPT !.pc = pc]
FlowOnly == UNCHANGED <<staged, turns, faults, signals>>

Transition(from, to) == operation.status = from /\ operation' = [operation EXCEPT !.status = to]

Submit ==
    /\ FlowAt("submit")
    /\ \/ Transition("confirmed", "submitting") /\ FlowGoes("begin")
       \/ Transition("confirmed", "failed") /\ FlowGoes("ended")  \* consent or input withdrawn
    /\ FlowOnly /\ UNCHANGED <<providerCall, run>>

BeginProviderCall ==
    /\ FlowAt("begin") /\ operation.status = "submitting"
    /\ providerCall' = [providerCall EXCEPT !.begun = TRUE]
    /\ Goes(1, "called") /\ FlowGoes("waiting")
    /\ FlowOnly /\ UNCHANGED operation

(* submitImage takes the answer, or none after ten minutes, when the context *)
(* of the execution ends too.                                                *)
TakeAnswer ==
    /\ FlowAt("waiting") /\ AdapterAt(1, "answered")
    /\ flow' = [pc |-> "complete", answer |-> run[1].answer]
    /\ FlowOnly /\ UNCHANGED <<operation, providerCall, run>>

TimeOut ==
    /\ FlowAt("waiting") /\ Fault
    /\ flow' = [pc |-> "complete", answer |-> "unknown"]
    /\ run' = [run EXCEPT ![1].last = TRUE]
    /\ UNCHANGED <<operation, providerCall, staged, turns, signals>>

(* A receipt that was recorded by an adapter whose answer was lost makes the *)
(* unknown result a conflict, and the workflow fails.                        *)
Answered == IF flow.answer = "cancelled" THEN "not_submitted" ELSE flow.answer
CompleteProviderCall ==
    LET receipt == IF flow.answer = "completed" THEN providerCall.receipt ELSE 0 IN
    /\ FlowAt("complete")
    /\ IF Accepts(Answered, receipt)
       THEN Save(Answered, receipt) /\ FlowGoes("decide")
       ELSE FlowGoes("stranded") /\ UNCHANGED providerCall
    /\ FlowOnly /\ UNCHANGED <<operation, run>>

(* ProviderCostInTransaction, read again under the lock that ends the        *)
(* operation: nothing is owed.                                               *)
NothingOwedUnread == TRUE
NothingOwed ==
    \/ ~providerCall.begun
    \/ providerCall.state = "not_submitted"
    \/ providerCall.state \in {"none", "unknown"} /\ operation.status = "manual" /\ operation.decision

Settle(from, to) == NothingOwed /\ Transition(from, to)

NotSubmitted ==
    /\ FlowAt("decide") /\ flow.answer = "not_submitted"
    /\ Settle("submitting", "failed") /\ FlowGoes("ended")
    /\ FlowOnly /\ UNCHANGED <<providerCall, run>>

CancelledBeforeDispatch ==
    /\ FlowAt("decide") /\ flow.answer = "cancelled"
    /\ \/ Transition("submitting", "cancelling") /\ UNCHANGED flow
       \/ Settle("cancelling", "cancelled") /\ FlowGoes("ended")
    /\ FlowOnly /\ UNCHANGED <<providerCall, run>>

(* A finished image has no price yet, so it waits like an unknown one. *)
Unsettled ==
    /\ FlowAt("decide") /\ flow.answer \in {"completed", "unknown"}
    /\ \/ Transition("submitting", "unknown") /\ UNCHANGED flow
       \/ Transition("unknown", "reconciling") /\ FlowGoes("recover")
    /\ FlowOnly /\ UNCHANGED <<providerCall, run>>

(* A refused record leaves the call as it is. *)
RecoverImage ==
    IF Recoverable /\ Accepts("completed", Manifest) THEN Save("completed", Manifest) ELSE UNCHANGED providerCall
RecoverProviderImage ==
    /\ FlowAt("recover") /\ RecoverImage
    /\ FlowGoes("manual")
    /\ \/ Transition("reconciling", "manual")
       \/ operation.status = "manual" /\ UNCHANGED operation
    /\ FlowOnly /\ UNCHANGED run

Signal(outcome) ==
    /\ FlowAt("manual") /\ signals < MaxSignals /\ signals' = signals + 1
    /\ \/ outcome = "succeeded" /\ FlowGoes("recover")
       \/ outcome = "not_executed" /\ FlowGoes("check")
    /\ UNCHANGED <<operation, providerCall, staged, run, turns, faults>>

CheckManualNotExecuted ==
    /\ FlowAt("check")
    /\ FlowGoes(IF operation.decision /\ providerCall.state # "completed" THEN "release" ELSE "manual")
    /\ FlowOnly /\ UNCHANGED <<operation, providerCall, run>>

Release ==
    /\ FlowAt("release")
    /\ IF NothingOwed THEN Transition("manual", "failed") /\ FlowGoes("ended")
       ELSE FlowGoes("manual") /\ UNCHANGED operation
    /\ FlowOnly /\ UNCHANGED <<providerCall, run>>

-----------------------------------------------------------------------------
(* The user and the administrator *)

RequestCancel ==
    /\ OpenOperation /\ ~operation.cancelled /\ operation' = [operation EXCEPT !.cancelled = TRUE]
    /\ UNCHANGED <<providerCall, staged, run, flow, turns, faults, signals>>

RecordManualNotExecuted ==
    /\ operation.status = "manual" /\ ~operation.decision /\ providerCall.state # "completed"
    /\ operation' = [operation EXCEPT !.decision = TRUE]
    /\ UNCHANGED <<providerCall, staged, run, flow, turns, faults, signals>>

CodexNext ==
    \/ Redeliver \/ Refuse
    \/ \E e \in Executions :
         Claim(e) \/ NotClaimed(e) \/ Launch(e) \/ PrepareThread(e) \/ StartTurn(e)
         \/ CompletedImage(e) \/ ReadImage(e) \/ StageImage(e)
         \/ Publish(e) \/ RecordReceipt(e) \/ Recover(e) \/ Die(e)
    \/ Submit \/ BeginProviderCall \/ TakeAnswer \/ TimeOut \/ CompleteProviderCall
    \/ NotSubmitted \/ CancelledBeforeDispatch \/ Unsettled \/ RecoverProviderImage
    \/ \E outcome \in {"succeeded", "not_executed"} : Signal(outcome)
    \/ CheckManualNotExecuted \/ Release \/ RequestCancel \/ RecordManualNotExecuted

CodexSpec == CodexInit /\ [][CodexNext]_codexVars

-----------------------------------------------------------------------------
(* The provider is paid for one turn at most, and for none if the            *)
(* reservation was released without an administrator's decision, now or      *)
(* later.                                                                    *)
PaidOnce ==
    /\ turns <= 1
    /\ Terminal(operation.status) /\ ~operation.decision => turns = 0

(* An operation whose image was received is never released as not executed,  *)
(* and a receipt names an image and a manifest that are stored.              *)
ReceiptHonest ==
    /\ Terminal(operation.status) => providerCall.state # "completed"
    /\ providerCall.receipt # 0 => providerCall.state = "completed" /\ staged.image = providerCall.receipt /\ staged.manifest = providerCall.receipt

(* A claim is never handed back, a receipt never replaced, a staged object   *)
(* never overwritten and an ended operation never reopened.                  *)
CodexKept ==
    /\ providerCall.claimed => providerCall'.claimed
    /\ providerCall.receipt # 0 => providerCall'.receipt = providerCall.receipt
    /\ \A object \in {"image", "manifest"} : staged[object] # 0 => staged'[object] = staged[object]
    /\ Terminal(operation.status) => operation'.status = operation.status /\ turns' = turns

(* One turn of Codex is paid for an operation, which is never released as    *)
(* not executed when its image was received.                                 *)
CodexHonest == [](PaidOnce /\ ReceiptHonest) /\ [][CodexKept]_codexVars
=============================================================================
