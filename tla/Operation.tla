----------------------------- MODULE Operation -----------------------------
(***************************************************************************)
(* One generation operation on the mock provider path: its row with the    *)
(* provider_call and operation_event rows in PostgreSQL, its Temporal      *)
(* workflow OperationWorkflow, the provider behind the agent queue, the    *)
(* user's cancel signal, the administrator and, for a batch child, the     *)
(* parent that may claim it.                                               *)
(*                                                                         *)
(* The workflow is sequential and durable; the activities it calls are     *)
(* not.  A database activity commits or not, its reply may be lost, and it *)
(* is retried until it answers; an attempt that outlived its timeout may   *)
(* still commit later (late).  A provider activity has one attempt: a lost *)
(* reply is an unknown outcome, and a lost request may still arrive.       *)
(* A terminal status, settled_micros and the closing of the reservation    *)
(* are one transaction, so the reservation is closed iff the status is     *)
(* terminal.  Costs of the mock provider are zero throughout.              *)
(***************************************************************************)
EXTENDS Integers, FiniteSets

CONSTANTS
  SupportsCancel,    \* supports_cancel of the model profile version
  InBatch,           \* the operation is a child of a batch
  MaxSubmits,        \* provider.submit attempts
  QueryRetries,      \* provider.query attempts of one query
  ReconcileQueries,  \* queries of one reconciliation
  MaxLate            \* bound: timed-out attempts that may still commit

ASSUME OperationAssumption ==
  /\ SupportsCancel \in BOOLEAN
  /\ InBatch \in BOOLEAN
  /\ MaxSubmits \in Nat \ {0}
  /\ QueryRetries \in Nat \ {0}
  /\ ReconcileQueries \in Nat \ {0}
  /\ MaxLate \in Nat

VARIABLES
  op,         \* the operation row: status, failure code, reused result or not
  submits,    \* provider_call rows of action submit: state per attempt
  queries,    \* the states of the query rows, "open" while one is unanswered
  cancelCall, \* the state of the one cancel row
  recorded,   \* the provider task id of the latest event that has one
  vouched,    \* whether the manual_not_executed event is written
  cancel,     \* the cancel signal: none, requested, pending or taken
  parent,     \* what the batch parent did to this child
  provider,   \* the provider: the task, requests under way, executions
  late,       \* database requests that timed out and may still commit
  wf          \* the state of OperationWorkflow

calls == <<submits, queries, cancelCall>>
vars == <<op, submits, queries, cancelCall, recorded, vouched, cancel, parent,
          provider, late, wf>>

-----------------------------------------------------------------------------
Terminal == {"completed", "failed", "cancelled"}

Statuses == Terminal \cup
  {"confirmed", "submitting", "submitted", "unknown", "reconciling", "manual",
   "cancelling", "succeeded", "ingesting"}

(* The flow.Transition requests of the workflow, under their reasons, and   *)
(* where the workflow goes on.                                             *)
Step(from, to, next) == [from |-> from, to |-> to, next |-> next]

Transitions ==
  [submit                  |-> Step("confirmed", "submitting", "begin_submit"),
   provider_accepted       |-> Step("submitting", "submitted", "submitted"),
   provider_result_unknown |-> Step("submitting", "unknown", "reconcile"),
   reconcile               |-> Step("unknown", "reconciling", "begin_query"),
   reconciled_found        |-> Step("reconciling", "submitted", "submitted"),
   reconcile_unresolved    |-> Step("reconciling", "manual", "manual"),
   manual_succeeded        |-> Step("manual", "ingesting", "ingest_outputs"),
   poll_result_unknown     |-> Step("submitted", "reconciling", "begin_query"),
   cancel_requested        |-> Step("submitted", "cancelling", "begin_cancel"),
   cancel_not_confirmed    |-> Step("cancelling", "submitted", "submitted"),
   cancel_result_unknown   |-> Step("submitted", "reconciling", "begin_query"),
   provider_succeeded      |-> Step("submitted", "succeeded", "ingest"),
   ingest                  |-> Step("succeeded", "ingesting", "ingest_outputs")]

\* The transitions whose event keeps the provider task id.
RecordsTask == {"provider_accepted", "reconciled_found", "cancel_not_confirmed",
                "manual_succeeded"}

\* The request the workflow waits for: a transition, a settlement or a reuse.
Request(w) ==
  [name |-> w.pc,
   from |-> IF w.pc \in DOMAIN Transitions THEN Transitions[w.pc].from ELSE w.status,
   to   |-> IF w.pc \in DOMAIN Transitions THEN Transitions[w.pc].to
            ELSE IF w.pc = "settle" THEN w.to ELSE "completed",
   code |-> IF w.pc = "settle" THEN w.code ELSE "none",
   task |-> IF w.pc \in RecordsTask THEN w.task ELSE "none"]

Ended == {"done", "failed"}

DatabaseSteps == DOMAIN Transitions \cup {"settle", "reuse"}

-----------------------------------------------------------------------------
(* The charge evidence of the provider_call rows.                          *)

NoCalls ==
  /\ \A i \in 1..MaxSubmits : submits[i] = "none"
  /\ queries = {}
  /\ cancelCall = "none"

HasSubmission == \E i \in 1..MaxSubmits : submits[i] # "none"

OpenCall ==
  \/ \E i \in 1..MaxSubmits : submits[i] = "open"
  \/ "open" \in queries
  \/ cancelCall = "open"

\* unknownSubmission or acceptedSubmission
MayHaveRun == \E i \in 1..MaxSubmits : submits[i] \in {"open", "unknown", "accepted"}

\* Mutant: a confirmed cancellation is not counted as a resolution.
ConclusiveWithoutCancel == queries \cap {"succeeded", "failed"} # {}

\* conclusiveResolution, by providerCallEstablishesCharge
Conclusive ==
  \/ queries \cap {"succeeded", "failed"} # {}
  \/ cancelCall = "cancelled"

\* ProviderCostInTransaction returns a cost, without the manual evidence.
CostEstablished ==
  IF HasSubmission
  THEN ~OpenCall /\ (MayHaveRun => Conclusive)
  ELSE NoCalls /\ (op.status \in {"confirmed", "submitting", "cancelling"} \/ op.reused)

\* ProviderCostInTransaction with ManualNotExecuted, for the one settlement
\* FinalizeOperation accepts it for.
ManualNotExecuted(r) ==
  /\ op.status = "manual" /\ HasSubmission
  /\ vouched /\ ~Conclusive
  /\ r.from = "manual" /\ r.to = "failed" /\ r.code = "provider_not_executed"

CanFinalize(r) == CostEstablished \/ ManualNotExecuted(r)

-----------------------------------------------------------------------------
(* A database request, whichever attempt of it executes.                   *)

\* Mutant: the status read under the row lock is not looked at.
AnyStatus(r) == op.status # r.to

\* The row has the status the request expects; every request moves along an
\* edge of CanTransitionTo, so the row may take it.
Expected(r) == op.status = r.from

Commits(r) ==
  /\ Expected(r)
  /\ r.name = "settle" => CanFinalize(r)
  /\ r.name = "reuse" => op.reused /\ NoCalls

\* Mutant: a request that finds its own effect is a conflict.
NeverReplays(r) == FALSE

\* matchesTransitionReplay and AlreadyFinalized
Replays(r) ==
  /\ op.status = r.to
  /\ r.name \in RecordsTask => recorded = r.task

Commit(r) ==
  /\ op' = [op EXCEPT !.status = r.to, !.failure = r.code]
  /\ recorded' = IF r.name \in RecordsTask THEN r.task ELSE recorded
  /\ UNCHANGED <<calls, vouched>>

DbUnchanged == UNCHANGED <<op, calls, recorded, vouched>>

OthersUnchanged == UNCHANGED <<cancel, parent, provider, late>>

\* The reply of a committed activity reaches the workflow or is lost.
Reply(w) == wf' \in {w, wf}

Settle(w, to, code) == [w EXCEPT !.pc = "settle", !.to = to, !.code = code]

-----------------------------------------------------------------------------
Init ==
  /\ \E reused \in BOOLEAN :
       op = [status |-> "confirmed", failure |-> "none", reused |-> reused]
  /\ submits = [i \in 1..MaxSubmits |-> "none"]
  /\ queries = {}
  /\ cancelCall = "none"
  /\ recorded = "none"
  /\ vouched = FALSE
  /\ cancel = "none"
  /\ parent = "idle"
  /\ provider = [task |-> "none", flying |-> 0, executions |-> 0]
  /\ late = {}
  /\ wf = [pc |-> "load", status |-> "confirmed", attempt |-> 1, report |-> "none",
           purpose |-> "reconcile", retry |-> 0, tries |-> 0, answer |-> "none",
           reported |-> "none", claim |-> "none", task |-> "none",
           result |-> "none", to |-> "failed", code |-> "none"]

-----------------------------------------------------------------------------
(* The start of OperationWorkflow.                                         *)

\* LoadOperation: a terminal operation ends the workflow, one its parent is
\* cancelling is not supported.
LoadWorkflowOperation == op.status
Load ==
  /\ wf.pc = "load"
  /\ wf' = [wf EXCEPT !.pc =
       IF LoadWorkflowOperation \in Terminal THEN "done"
       ELSE IF LoadWorkflowOperation # "confirmed" THEN "failed" ELSE "check_consent"]
  /\ DbUnchanged /\ OthersUnchanged

\* CheckConsent and the validation of the frozen mock input, up to the first
\* request that writes.
CheckConsent ==
  /\ wf.pc = "check_consent"
  /\ wf' \in {[wf EXCEPT !.pc = IF op.reused THEN "reuse" ELSE "submit"],
              Settle(wf, "failed", "input_refused")}
  /\ DbUnchanged /\ OthersUnchanged

\* CompleteFromReuse, and its reuse_source_unavailable.
CompleteFromReuse ==
  /\ wf.pc = "reuse"
  /\ LET r == Request(wf)
         done == [wf EXCEPT !.pc = "done", !.status = "completed"]
     IN \/ Commits(r) /\ Commit(r) /\ Reply(done)
        \/ Replays(r) /\ wf' = done /\ DbUnchanged
        \/ /\ Commits(r)
           /\ wf' = Settle(wf, "failed", "reuse_source_unavailable")
           /\ DbUnchanged
        \/ /\ ~Commits(r) /\ ~Replays(r)
           /\ wf' = [wf EXCEPT !.pc = "failed"]
           /\ DbUnchanged
  /\ OthersUnchanged

\* The workflow after a transition.  A reconciliation starts from its first
\* query; an unknown cancellation goes on to reconcile.
After(w, r) ==
  [w EXCEPT !.pc = IF r.name = "cancel_not_confirmed" /\ w.report = "unknown"
                   THEN "cancel_result_unknown" ELSE Transitions[r.name].next,
            !.status = r.to, !.purpose = "reconcile", !.retry = 0, !.tries = 0]

\* flow.Transition.  The move to submitting checks the frozen inputs again.
Transition ==
  /\ wf.pc \in DOMAIN Transitions
  /\ LET r == Request(wf)
     IN \/ Commits(r) /\ Commit(r) /\ Reply(After(wf, r))
        \/ Replays(r) /\ wf' = After(wf, r) /\ DbUnchanged
        \/ /\ Commits(r) /\ r.name = "submit"
           /\ wf' = Settle(wf, "failed", "input_refused")
           /\ DbUnchanged
        \/ /\ ~Commits(r) /\ ~Replays(r)
           /\ wf' = [wf EXCEPT !.pc = "failed"]
           /\ DbUnchanged
  /\ OthersUnchanged

\* flow.SettleOperation: FinalizeOperation.  manual_resolution_unverified is
\* the one refusal the workflow survives.
SettleOperation ==
  /\ wf.pc = "settle"
  /\ LET r == Request(wf)
         done == [wf EXCEPT !.pc = "done", !.status = r.to]
     IN \/ Commits(r) /\ Commit(r) /\ Reply(done)
        \/ Replays(r) /\ wf' = done /\ DbUnchanged
        \/ /\ ~Commits(r) /\ ~Replays(r)
           /\ wf' = [wf EXCEPT !.pc =
                IF op.status = "manual" /\ r.code = "provider_not_executed"
                THEN "manual" ELSE "failed"]
           /\ DbUnchanged
  /\ OthersUnchanged

\* An attempt passes its StartToCloseTimeout and is retried; the first one
\* may still be running against the database.
AttemptTimesOut ==
  /\ wf.pc \in DatabaseSteps
  /\ Cardinality(late) < MaxLate
  /\ late' = late \cup {Request(wf)}
  /\ DbUnchanged /\ UNCHANGED <<cancel, parent, provider, wf>>

ExecuteLate(r) ==
  /\ late' = late \ {r}
  /\ IF Commits(r) THEN Commit(r) ELSE DbUnchanged
  /\ UNCHANGED <<cancel, parent, provider, wf>>

-----------------------------------------------------------------------------
(* provider.submit.                                                        *)

\* Mutant: a provider call may begin whatever the status of the operation.
MayAlwaysBegin(action) == TRUE

\* BeginProviderCall accepts a new call.
MayBegin(action) ==
  /\ op.status \notin Terminal
  /\ op.status = "cancelling" => action = "cancel"
  /\ action = "cancel" =>
       op.status = "cancelling" /\ recorded = wf.task /\ SupportsCancel

BeginSubmit ==
  /\ wf.pc = "begin_submit"
  /\ LET next == [wf EXCEPT !.pc = "call_submit"]
     IN \/ /\ submits[wf.attempt] = "none" /\ MayBegin("submit")
           /\ submits' = [submits EXCEPT ![wf.attempt] = "open"]
           /\ Reply(next)
        \/ submits[wf.attempt] # "none" /\ wf' = next /\ UNCHANGED submits
        \/ /\ submits[wf.attempt] = "none" /\ ~MayBegin("submit")
           /\ wf' = [wf EXCEPT !.pc = "failed"]
           /\ UNCHANGED submits
  /\ UNCHANGED <<op, queries, cancelCall, recorded, vouched>>
  /\ OthersUnchanged

Runs(p) == [p EXCEPT !.task = "running", !.executions = @ + 1]

\* Mutant: an activity that failed is taken for a request that was not sent.
LostMeansNotSubmitted(answer) == IF answer = "lost" THEN "not_submitted" ELSE answer

\* providerCalls.submit: an activity error is an unknown outcome.
SubmitReport(answer) == IF answer = "lost" THEN "unknown" ELSE answer

\* The one attempt of the activity provider.submit.
CallSubmit ==
  /\ wf.pc = "call_submit"
  /\ \E answer \in {"accepted", "rejected", "not_submitted", "lost"} :
       /\ wf' = [wf EXCEPT !.pc = "complete_submit", !.report = SubmitReport(answer)]
       /\ \/ answer \in {"accepted", "lost"} /\ provider' = Runs(provider)
          \/ answer # "accepted" /\ provider' = provider
          \/ answer = "lost" /\ provider' = [provider EXCEPT !.flying = @ + 1]
  /\ DbUnchanged /\ UNCHANGED <<cancel, parent, late>>

\* Mutant: an unknown outcome is submitted again like a refused connection.
RetryUnknown(report) == report \in {"not_submitted", "unknown"}

MayResubmit(report) == report = "not_submitted"

\* Mutant: the last attempt is followed by another one.
IsPastLastAttempt(w) == w.attempt > MaxSubmits

IsLastAttempt(w) == w.attempt = MaxSubmits

AfterSubmit(w) ==
  IF MayResubmit(w.report)
  THEN IF IsLastAttempt(w) THEN Settle(w, "failed", "provider_not_submitted")
       ELSE [w EXCEPT !.pc = "begin_submit", !.attempt = @ + 1]
  ELSE IF w.report = "rejected" THEN Settle(w, "failed", "provider_failed")
  ELSE IF w.report = "accepted" THEN [w EXCEPT !.pc = "provider_accepted", !.task = "own"]
  ELSE [w EXCEPT !.pc = "provider_result_unknown"]

\* CompleteProviderCall of the attempt and the switch on its outcome.
CompleteSubmit ==
  /\ wf.pc = "complete_submit"
  /\ submits' = [submits EXCEPT ![wf.attempt] = wf.report]
  /\ Reply(AfterSubmit(wf))
  /\ UNCHANGED <<op, queries, cancelCall, recorded, vouched>>
  /\ OthersUnchanged

-----------------------------------------------------------------------------
(* provider.query, for reconciliation and manual verification by request    *)
(* key, and for polling by task id.                                        *)

StartQuery(w, purpose) ==
  [w EXCEPT !.pc = "begin_query", !.purpose = purpose, !.retry = 0]

\* The next query of reconcileMockProvider, or its end without a task.
NextTry(w) ==
  IF w.tries + 1 < ReconcileQueries
  THEN [StartQuery(w, "reconcile") EXCEPT !.tries = @ + 1]
  ELSE [w EXCEPT !.pc = "reconcile_unresolved"]

\* providerCalls.query returned an error.
NoAnswer(w) ==
  IF w.purpose = "reconcile" THEN NextTry(w)
  ELSE [w EXCEPT !.pc = IF w.purpose = "poll" THEN "poll_result_unknown" ELSE "manual"]

\* A result in hand while submitted.
Conclude(w) ==
  IF w.result = "succeeded" THEN [w EXCEPT !.pc = "provider_succeeded"]
  ELSE Settle(w, "failed", IF w.result = "failed" THEN "provider_failed"
                           ELSE "provider_result_invalid")

\* A result in hand while manual; one without URLs fails the workflow.
ConcludeManual(w) ==
  IF w.result = "succeeded" THEN [w EXCEPT !.pc = "manual_succeeded"]
  ELSE IF w.result = "failed" THEN Settle(w, "failed", "provider_failed")
  ELSE [w EXCEPT !.pc = "failed"]

\* Mutant: the task of a manual signal is trusted.
AnyTaskVerified(w) == TRUE

TaskVerified(w) == w.reported = w.claim

\* The workflows an answer may lead to; poll: go on, or pass the poll limit.
Answered(w) ==
  LET known == [w EXCEPT !.result = w.answer]
  IN CASE w.purpose = "reconcile" ->
            {IF w.answer # "not_found" /\ w.reported # "none"
             THEN [known EXCEPT !.pc = "reconciled_found", !.task = w.reported]
             ELSE NextTry(w)}
       [] w.purpose = "verify" ->
            {IF TaskVerified(w) THEN StartQuery([w EXCEPT !.task = w.claim], "manual_poll")
             ELSE [w EXCEPT !.pc = "manual"]}
       [] w.purpose = "poll" ->
            IF w.answer = "running"
            THEN {[w EXCEPT !.pc = "submitted"], NoAnswer(w)}
            ELSE {IF w.answer = "not_found" THEN NoAnswer(w) ELSE Conclude(known)}
       [] OTHER ->
            IF w.answer = "running"
            THEN {StartQuery(w, "manual_poll"), NoAnswer(w)}
            ELSE {IF w.answer = "not_found" THEN NoAnswer(w) ELSE ConcludeManual(known)}

\* The workflow after a query: an answer is used, none is asked for again.
AfterQuery(w) ==
  IF w.answer # "unknown" THEN Answered(w)
  ELSE IF w.retry + 1 < QueryRetries
       THEN {[w EXCEPT !.pc = "begin_query", !.retry = @ + 1]}
       ELSE {NoAnswer(w)}

BeginQuery ==
  /\ wf.pc = "begin_query"
  /\ LET next == [wf EXCEPT !.pc = "call_query"]
     IN \/ /\ "open" \notin queries /\ MayBegin("query")
           /\ queries' = queries \cup {"open"}
           /\ Reply(next)
        \/ "open" \in queries /\ wf' = next /\ UNCHANGED queries
        \/ /\ "open" \notin queries /\ ~MayBegin("query")
           /\ wf' = NoAnswer(wf)
           /\ UNCHANGED queries
  /\ UNCHANGED <<op, submits, cancelCall, recorded, vouched>>
  /\ OthersUnchanged

\* What the provider may answer: the state of the task, or that it does not
\* (yet) find it.  A task of another operation has a state of its own.
Answers ==
  IF wf.purpose = "manual_poll" /\ wf.task # "own"
  THEN {"running", "succeeded", "empty", "failed", "not_found", "unknown"}
  ELSE {"not_found", "unknown"} \cup
    CASE provider.task = "none" -> {}
      [] provider.task = "running" -> {"running"}
      [] provider.task = "succeeded" -> {"succeeded", "empty"}
      [] OTHER -> {"failed"}

CallQuery ==
  /\ wf.pc = "call_query"
  /\ \E answer \in Answers, reported \in {"none", "own"} :
       /\ answer \in {"not_found", "unknown"} => reported = "none"
       /\ wf' = [wf EXCEPT !.pc = "complete_query", !.answer = answer,
                           !.reported = reported]
  /\ DbUnchanged /\ OthersUnchanged

\* The row of a result without URLs says succeeded.
QueryState(answer) == IF answer = "empty" THEN "succeeded" ELSE answer

CompleteQuery ==
  /\ wf.pc = "complete_query"
  /\ queries' = (queries \ {"open"}) \cup {QueryState(wf.answer)}
  /\ \E w \in AfterQuery(wf) : Reply(w)
  /\ UNCHANGED <<op, submits, cancelCall, recorded, vouched>>
  /\ OthersUnchanged

-----------------------------------------------------------------------------
(* The loop of runMockProvider while submitted: a pending cancel signal is  *)
(* taken once, then a result in hand is used, else the task is polled.     *)

TakesCancel == SupportsCancel /\ cancel = "pending"

TakeCancel ==
  /\ wf.pc = "submitted" /\ TakesCancel
  /\ cancel' = "taken"
  /\ wf' = [wf EXCEPT !.pc = "cancel_requested"]
  /\ DbUnchanged /\ UNCHANGED <<parent, provider, late>>

UseResult ==
  /\ wf.pc = "submitted" /\ ~TakesCancel
  /\ wf' = CASE wf.result \in {"succeeded", "failed", "empty"} -> Conclude(wf)
             [] OTHER -> StartQuery(wf, "poll")
  /\ DbUnchanged /\ OthersUnchanged

BeginCancel ==
  /\ wf.pc = "begin_cancel"
  /\ LET next == [wf EXCEPT !.pc = "call_cancel"]
     IN \/ /\ cancelCall = "none" /\ MayBegin("cancel")
           /\ cancelCall' = "open"
           /\ Reply(next)
        \/ cancelCall # "none" /\ wf' = next /\ UNCHANGED cancelCall
        \/ /\ cancelCall = "none" /\ ~MayBegin("cancel")
           /\ wf' = [wf EXCEPT !.pc = "failed"]
           /\ UNCHANGED cancelCall
  /\ UNCHANGED <<op, submits, queries, recorded, vouched>>
  /\ OthersUnchanged

\* Mutant: a cancellation whose reply is lost counts as confirmed.
LostMeansCancelled(answer) == IF answer = "lost" THEN "cancelled" ELSE answer

CancelReport(answer) == IF answer = "lost" THEN "unknown" ELSE answer

CallCancel ==
  /\ wf.pc = "call_cancel"
  /\ \E answer \in {"cancelled", "not_cancelled", "lost"} :
       /\ answer = "cancelled" => provider.task \in {"running", "cancelled"}
       /\ wf' = [wf EXCEPT !.pc = "complete_cancel", !.report = CancelReport(answer)]
       /\ \/ /\ answer # "not_cancelled" /\ provider.task = "running"
             /\ provider' = [provider EXCEPT !.task = "cancelled"]
          \/ /\ answer = "cancelled" => provider.task = "cancelled"
             /\ provider' = provider
  /\ DbUnchanged /\ UNCHANGED <<cancel, parent, late>>

CompleteCancel ==
  /\ wf.pc = "complete_cancel"
  /\ cancelCall' = wf.report
  /\ Reply(IF wf.report = "cancelled" THEN Settle(wf, "cancelled", "none")
           ELSE [wf EXCEPT !.pc = "cancel_not_confirmed"])
  /\ UNCHANGED <<op, submits, queries, recorded, vouched>>
  /\ OthersUnchanged

-----------------------------------------------------------------------------
(* Manual resolution.                                                      *)

\* The administrator command RecordManualNotExecuted.
RecordManualNotExecuted ==
  /\ op.status = "manual" /\ ~Conclusive
  /\ vouched' = TRUE
  /\ UNCHANGED <<op, calls, recorded, wf>>
  /\ OthersUnchanged

\* A resolve_manual signal; its content is not trusted.
ReceiveResolution ==
  /\ wf.pc = "manual"
  /\ \/ wf' = [wf EXCEPT !.pc = "check_not_executed"]
     \/ \E claim \in {"own", "foreign"} :
          wf' = StartQuery([wf EXCEPT !.claim = claim], "verify")
  /\ DbUnchanged /\ OthersUnchanged

\* Mutant: neither the administrator's decision nor the calls are looked up.
SignalTrusted == op.status = "manual"

NotExecutedVerified == op.status = "manual" /\ vouched /\ ~Conclusive

\* flow.CheckManualNotExecuted
CheckManualNotExecuted ==
  /\ wf.pc = "check_not_executed"
  /\ wf' = IF NotExecutedVerified THEN Settle(wf, "failed", "provider_not_executed")
           ELSE [wf EXCEPT !.pc = "manual"]
  /\ DbUnchanged /\ OthersUnchanged

\* ingestAndFinish: registration and moderation of every output, retried
\* until one of its settlements is due.
IngestAndFinish ==
  /\ wf.pc = "ingest_outputs"
  /\ wf' \in {Settle(wf, "completed", "none"),
              Settle(wf, "failed", "media_refused"),
              Settle(wf, "failed", "moderation_unavailable"),
              Settle(wf, "failed", "provider_result_invalid")}
  /\ DbUnchanged /\ OthersUnchanged

-----------------------------------------------------------------------------
(* The other actors.                                                       *)

\* RequestWorkflowControl accepts the user's cancel.
RequestCancel ==
  /\ cancel = "none"
  /\ op.status = "confirmed" \/ (op.status = "submitted" /\ SupportsCancel)
  /\ cancel' = "requested"
  /\ DbUnchanged /\ UNCHANGED <<parent, provider, late, wf>>

\* The control consumer signals the workflow of a live operation.
DeliverCancel ==
  /\ cancel = "requested"
  /\ op.status \notin Terminal /\ wf.pc \notin Ended
  /\ cancel' = "pending"
  /\ DbUnchanged /\ UNCHANGED <<parent, provider, late, wf>>

\* Mutant: the parent claims a child whose calls it did not look for.
AnyQueued == op.status \in {"confirmed", "submitting"}

Queued == op.status \in {"confirmed", "submitting"} /\ NoCalls

\* MarkQueuedWorkflowOperationCancelling under a batch cancel intent; the
\* settlement that follows is a transaction of its own, retried after a crash.
ClaimQueued ==
  /\ InBatch /\ parent = "idle" /\ Queued
  /\ op' = [op EXCEPT !.status = "cancelling"]
  /\ parent' = "claimed"
  /\ UNCHANGED <<calls, recorded, vouched, cancel, provider, late, wf>>

BatchCancel ==
  [name |-> "settle", from |-> "cancelling", to |-> "cancelled", code |-> "none",
   task |-> "none"]

SettleClaimed ==
  /\ parent = "claimed"
  /\ Commits(BatchCancel)
  /\ Commit(BatchCancel)
  /\ parent' = "settled"
  /\ UNCHANGED <<cancel, provider, late, wf>>

\* BatchWorkflow signals a child it could not claim.
ParentSignalsCancel ==
  /\ InBatch /\ parent = "idle" /\ cancel = "none"
  /\ ~Queued /\ op.status \notin Terminal /\ wf.pc \notin Ended
  /\ cancel' = "pending"
  /\ DbUnchanged /\ UNCHANGED <<parent, provider, late, wf>>

\* A submit request whose activity was lost reaches the provider.
RequestArrives ==
  /\ provider.flying > 0
  /\ provider' = Runs([provider EXCEPT !.flying = @ - 1])
  /\ DbUnchanged /\ UNCHANGED <<cancel, parent, late, wf>>

ProviderFinishes ==
  /\ provider.task = "running"
  /\ \E end \in {"succeeded", "failed"} : provider' = [provider EXCEPT !.task = end]
  /\ DbUnchanged /\ UNCHANGED <<cancel, parent, late, wf>>

-----------------------------------------------------------------------------
Workflow ==
  \/ Load \/ CheckConsent \/ CompleteFromReuse \/ Transition \/ SettleOperation
  \/ BeginSubmit \/ CallSubmit \/ CompleteSubmit
  \/ BeginQuery \/ CallQuery \/ CompleteQuery
  \/ TakeCancel \/ UseResult \/ BeginCancel \/ CallCancel \/ CompleteCancel
  \/ CheckManualNotExecuted \/ IngestAndFinish

Environment ==
  \/ AttemptTimesOut
  \/ \E r \in late : ExecuteLate(r)
  \/ RecordManualNotExecuted \/ ReceiveResolution
  \/ RequestCancel \/ DeliverCancel
  \/ ClaimQueued \/ SettleClaimed \/ ParentSignalsCancel
  \/ RequestArrives \/ ProviderFinishes

Next == Workflow \/ Environment

Spec == Init /\ [][Next]_vars

(* Temporal resumes the workflow and retries its activities until they     *)
(* answer; the parent's activity is retried likewise; a provider finishes  *)
(* what it runs.  Nothing else need ever happen.                           *)
FairSpec ==
  /\ Spec
  /\ WF_vars(Workflow)
  /\ WF_vars(SettleClaimed)
  /\ WF_vars(ProviderFinishes)

-----------------------------------------------------------------------------
SubmitStates == {"none", "open", "accepted", "rejected", "not_submitted", "unknown"}
QueryStates == {"open", "running", "succeeded", "failed", "not_found", "unknown"}
CancelStates == {"none", "open", "cancelled", "not_cancelled", "unknown"}
AnswerStates == {"none", "running", "succeeded", "empty", "failed", "not_found", "unknown"}
TaskIds == {"none", "own", "foreign"}
Codes == {"none", "input_refused", "reuse_source_unavailable", "provider_not_submitted",
          "provider_failed", "provider_result_invalid", "provider_not_executed",
          "media_refused", "moderation_unavailable"}
ProviderSteps == {"begin_submit", "call_submit", "complete_submit", "begin_query",
                  "call_query", "complete_query", "begin_cancel", "call_cancel",
                  "complete_cancel"}
PCs == DatabaseSteps \cup ProviderSteps \cup Ended \cup
       {"load", "check_consent", "submitted", "manual", "check_not_executed",
        "ingest_outputs"}

Rows == [status : Statuses, failure : Codes, reused : BOOLEAN]

Providers == [task : {"none", "running", "succeeded", "failed", "cancelled"},
              flying : Nat, executions : Nat]

Requests == [name : DatabaseSteps, from : Statuses, to : Statuses, code : Codes,
             task : TaskIds]

Workflows ==
  [pc : PCs, status : Statuses, attempt : 1..MaxSubmits,
   report : {"none", "accepted", "rejected", "not_submitted", "unknown",
             "cancelled", "not_cancelled"},
   purpose : {"reconcile", "poll", "verify", "manual_poll"},
   retry : 0..QueryRetries, tries : 0..ReconcileQueries,
   answer : AnswerStates, reported : TaskIds, claim : TaskIds, task : TaskIds,
   result : AnswerStates, to : Terminal, code : Codes]

(* Every variable keeps its type; in particular no submit attempt beyond   *)
(* the last one is ever made.                                              *)
TypeOK ==
  /\ op \in Rows
  /\ submits \in [1..MaxSubmits -> SubmitStates]
  /\ queries \subseteq QueryStates
  /\ cancelCall \in CancelStates
  /\ recorded \in TaskIds
  /\ vouched \in BOOLEAN
  /\ cancel \in {"none", "requested", "pending", "taken"}
  /\ parent \in {"idle", "claimed", "settled"}
  /\ provider \in Providers
  /\ late \subseteq Requests
  /\ wf \in Workflows

Closed == op.status \in Terminal

(* A reservation is not released while its request runs at the provider or *)
(* may still reach it, whatever replies were lost and whatever attempts    *)
(* came late, unless an administrator vouched that it was not executed.    *)
NoBlindRelease ==
  Closed /\ ~vouched => provider.flying = 0 /\ provider.task # "running"

(* The provider never executes the request of an operation twice: a submit *)
(* is repeated only after a definite answer that nothing was submitted.    *)
AtMostOneExecution == provider.executions + provider.flying <= 1

(* A cancelled operation has no execution to pay for, and none that may    *)
(* still begin: it was claimed before its first call, or the provider      *)
(* confirmed the cancellation.                                             *)
CancelledMeansStopped ==
  op.status = "cancelled" =>
    provider.flying = 0 /\ provider.task \in {"none", "cancelled"}

(* A completed operation that reuses no result has a task that succeeded   *)
(* and is its own: no manual signal attaches the task of another one.      *)
CompletedMeansSucceeded ==
  /\ recorded # "foreign"
  /\ op.status = "completed" /\ ~op.reused =>
       provider.task = "succeeded" /\ recorded = "own"

(* provider_not_executed is the failure of an operation an administrator   *)
(* vouched for and no provider answer contradicts.                         *)
ManualReleaseVerified ==
  op.failure = "provider_not_executed" => vouched /\ ~Conclusive

(* What an operation was closed as is what the provider did: stopped,      *)
(* succeeded with its own task, or vouched for by an administrator whom no *)
(* answer contradicts.                                                     *)
OutcomeVerified ==
  CancelledMeansStopped /\ CompletedMeansSucceeded /\ ManualReleaseVerified

(* Once a parent claimed its queued child, no provider call of the child   *)
(* exists or ever begins, although the child's workflow may be running.    *)
ClaimedNeverSubmitted ==
  parent # "idle" => NoCalls /\ provider.task = "none" /\ provider.flying = 0

(* When no attempt is late, the settlement a workflow or a parent asks for *)
(* is accepted or already done, so no reservation is stranded by its gate. *)
SettlementAccepted ==
  /\ wf.pc = "settle" /\ parent = "idle" =>
       Commits(Request(wf)) \/ Replays(Request(wf))
  /\ parent = "claimed" => Commits(BatchCancel)

(* A terminal operation never changes again: neither status nor failure    *)
(* code, by no late attempt, parent claim or administrator.                *)
TerminalForever == [][Closed => op' = op]_vars

\* The exposure the billing context sees.
Exposure ==
  IF Conclusive THEN "established"
  ELSE IF vouched THEN "vouched"
  ELSE IF MayHaveRun THEN "possible" ELSE "none"

Contract == INSTANCE ReservationContract WITH
  reservation <- IF Closed THEN "closed" ELSE "held",
  exposure <- Exposure

(* The operation keeps the contract of its reservation.                    *)
ContractKept == Contract!Spec

(* An operation does not stay between: it is closed, or waits for the      *)
(* documented decision of an administrator.                                *)
Resting == Closed \/ op.status = "manual"
ComesToRest == ~Resting ~> Resting
=============================================================================
