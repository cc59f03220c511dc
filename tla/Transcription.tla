---------------------------- MODULE Transcription ----------------------------
(***************************************************************************)
(* Speech recognition by a local server that takes one request, gives no   *)
(* receipt and cannot be asked whether it still computes.  An attempt is   *)
(* marked as submitted before the request is sent; only the server's own   *)
(* answer, or a connection that was never made, marks it as terminal.      *)
(* What is not known to have ended is never submitted again.  Workflow,    *)
(* tries and executions are those of MediaExport; the user's cancel does   *)
(* not interrupt an execution.                                             *)
(***************************************************************************)
EXTENDS Naturals, FiniteSets

CONSTANTS
    MaxAttempts,    \* bound: attempts of the job (the code stops at 100)
    MaxTries,       \* tries of the activity (the code allows 3)
    MaxExecutions,  \* bound: executions over all attempts
    MaxFaults       \* bound: failures, lost answers, timeouts and crashes

VARIABLES
    job,        \* mediatool.transcription_job
    native,     \* executions whose request the server may be computing
    asked,      \* [attempts -> number of requests sent to the server]
    drafts,     \* attempts whose draft is in object storage
    late,       \* attempts with an unanswered write of their draft
    events,     \* committed events that are not delivered
    flow,       \* [attempts -> its workflow]
    exec,       \* [executions -> where the execution is]
    used,       \* number of executions so far
    faults      \* number of faults so far

server == <<native, asked>>
files == <<drafts, late>>
vars == <<job, server, files, events, flow, exec, used, faults>>

Attempts == 1 .. MaxAttempts
Executions == 1 .. MaxExecutions

Idle == [pc |-> "none", attempt |-> 0, err |-> "none", last |-> FALSE]

Init ==
    /\ job = [status |-> "none", attempt |-> 1, worker |-> 0, infer |-> "none", awaiting |-> FALSE]
    /\ native = {} /\ asked = [a \in Attempts |-> 0]
    /\ drafts = {} /\ late = {} /\ events = {}
    /\ flow = [a \in Attempts |-> [state |-> "none", tries |-> 0, current |-> 0]]
    /\ exec = [e \in Executions |-> Idle]
    /\ used = 0 /\ faults = 0

Fault == faults < MaxFaults /\ faults' = faults + 1
Emit(action, attempt) == events' = events \cup {[action |-> action, attempt |-> attempt]}
Working == <<server, files, flow, exec, used, faults>>

-----------------------------------------------------------------------------
(* Commands of the user *)

CreateTranscription ==
    /\ job.status = "none"
    /\ job' = [job EXCEPT !.status = "queued"]
    /\ Emit("start", 1)
    /\ UNCHANGED Working

CancelTranscription ==
    /\ job.status \in {"queued", "running"}
    /\ job' = [job EXCEPT !.status = "cancel_requested", !.awaiting = job.infer = "unknown"]
    /\ Emit("cancel", job.attempt)
    /\ UNCHANGED Working

Ceased == job.worker = 0 /\ job.infer \notin {"submitted", "unknown"}

RetryTranscription ==
    /\ job.status \in {"failed", "cancelled"} /\ job.attempt < MaxAttempts /\ Ceased
    /\ job' = [job EXCEPT !.status = "queued", !.attempt = @ + 1, !.infer = "none", !.awaiting = FALSE]
    /\ Emit("start", job.attempt + 1)
    /\ UNCHANGED Working

-----------------------------------------------------------------------------
(* Delivery and workflow *)

VerifyDelivery(d) ==
    /\ d.attempt = job.attempt
    /\ IF d.action = "cancel" THEN job.status = "cancel_requested"
       ELSE /\ job.status \in {"queued", "running", "cancel_requested"}
            /\ job.infer # "unknown"

(* The signal of a cancel changes nothing in a running workflow. *)
Deliver(d) ==
    /\ d \in events
    /\ events' = events \ {d}
    /\ flow' = IF VerifyDelivery(d) /\ flow[d.attempt].state = "none"
                 THEN [flow EXCEPT ![d.attempt].state = "open"] ELSE flow
    /\ UNCHANGED <<job, server, files, exec, used, faults>>

RunActivity(a) ==
    /\ flow[a].state = "open" /\ flow[a].current = 0
    /\ used < MaxExecutions /\ used' = used + 1
    /\ flow' = [flow EXCEPT ![a].tries = @ + 1, ![a].current = used + 1]
    /\ exec' = [exec EXCEPT ![used + 1] = [Idle EXCEPT !.pc = "claim", !.attempt = a,
                                                 !.last = flow[a].tries + 1 = MaxTries]]
    /\ UNCHANGED <<job, server, files, events, faults>>

Ended(f, err) ==
    [f EXCEPT !.current = 0,
              !.state = CASE err = "none" -> "closed"
                          [] err = "retry" /\ f.tries < MaxTries -> "open"
                          [] OTHER -> "failing"]

HeartbeatTimeout(a) ==
    /\ flow[a].current # 0
    /\ IF exec[flow[a].current].pc = "dead" THEN UNCHANGED faults ELSE Fault
    /\ flow' = [flow EXCEPT ![a] = Ended(@, "retry")]
    /\ UNCHANGED <<job, server, files, events, exec, used>>

(* Nothing that may still compute is declared over. *)
FailWorkflow(a) ==
    /\ flow[a].state = "failing"
    /\ flow' = [flow EXCEPT ![a].state = "closed"]
    /\ job' = IF job.attempt # a \/ job.status \notin {"queued", "running", "cancel_requested"} THEN job
              ELSE IF ~Ceased THEN [job EXCEPT !.awaiting = TRUE]
              ELSE [job EXCEPT !.status = IF @ = "cancel_requested" THEN "cancelled" ELSE "failed"]
    /\ UNCHANGED <<server, files, events, exec, used, faults>>

-----------------------------------------------------------------------------
(* An execution of the activity *)

At(e, pc) == exec[e].pc = pc
Goto(e, pc) == exec' = [exec EXCEPT ![e].pc = pc]
Error(e, err) == exec' = [exec EXCEPT ![e].pc = "finish", ![e].err = err]
Outside == <<events, flow, used>>
Mine(e) == job.attempt = exec[e].attempt
Own(e) == Mine(e) /\ job.worker = e
Refused(e) == Error(e, IF Own(e) /\ job.status = "cancel_requested" THEN "cancelled" ELSE "nonretry")

ClaimSubmitted(e) ==
    /\ At(e, "claim")
    /\ IF Mine(e) /\ job.status \in {"queued", "running"} /\ job.infer # "unknown"
         THEN job' = [job EXCEPT !.status = "running", !.worker = e] /\ Goto(e, "draft")
         ELSE UNCHANGED job /\ Error(e, "nonretry")
    /\ UNCHANGED <<server, files, Outside, faults>>

Claim(e) ==
    /\ At(e, "claim")
    /\ CASE ~Mine(e) ->
              Error(e, "nonretry") /\ UNCHANGED job
         [] Mine(e) /\ job.status = "succeeded" ->
              Goto(e, "release") /\ UNCHANGED job
         [] Mine(e) /\ job.status # "succeeded" /\ job.infer \in {"submitted", "unknown"} ->
              /\ job' = [job EXCEPT !.awaiting = TRUE,
                                    !.infer = IF ~job.awaiting /\ job.worker = 0 THEN "unknown" ELSE @]
              /\ Error(e, "uncertain")
         [] Mine(e) /\ job.infer \in {"none", "terminal"} /\ job.status = "cancel_requested" ->
              /\ job' = IF job.worker = 0 /\ job.infer = "none"
                          THEN [job EXCEPT !.status = "cancelled"] ELSE job
              /\ Error(e, "cancelled")
         [] Mine(e) /\ job.infer \in {"none", "terminal"} /\ job.status \in {"failed", "cancelled"} ->
              Error(e, "nonretry") /\ UNCHANGED job
         [] Mine(e) /\ job.infer \in {"none", "terminal"} /\ job.status \in {"queued", "running"} ->
              IF job.worker # 0
                THEN Error(e, "retry") /\ UNCHANGED job
                ELSE /\ job' = [job EXCEPT !.status = "running", !.worker = e, !.awaiting = FALSE]
                     /\ Goto(e, "draft")
    /\ UNCHANGED <<server, files, Outside, faults>>

(* A draft of an earlier try is completed, never recognized again. *)
ExistingTranscript(e) ==
    /\ At(e, "draft")
    /\ IF exec[e].attempt \in drafts THEN Goto(e, "complete")
       ELSE IF job.infer = "terminal" THEN Error(e, "nonretry")
       ELSE Goto(e, "prepare")
    /\ UNCHANGED <<job, server, files, Outside, faults>>

(* Progress: the source is staged and turned into PCM. *)
Prepare(e) ==
    /\ At(e, "prepare")
    /\ IF Own(e) /\ job.status = "running" THEN Goto(e, "start") ELSE Refused(e)
    /\ UNCHANGED <<job, server, files, Outside, faults>>

StartInference(e) ==
    /\ At(e, "start")
    /\ IF Own(e) /\ job.status = "running" /\ job.infer \in {"none", "terminal"}
         THEN job' = [job EXCEPT !.infer = "submitted", !.awaiting = FALSE] /\ Goto(e, "send")
         ELSE UNCHANGED job /\ Refused(e)
    /\ UNCHANGED <<server, files, Outside, faults>>

Send(e) ==
    /\ At(e, "send")
    /\ native' = native \cup {e}
    /\ asked' = [asked EXCEPT ![exec[e].attempt] = @ + 1]
    /\ Goto(e, "infer")
    /\ UNCHANGED <<job, files, Outside, faults>>

(* No connection was made. *)
DialFails(e) ==
    /\ At(e, "send") /\ Fault
    /\ exec' = [exec EXCEPT ![e].pc = "end", ![e].err = "retry"]
    /\ UNCHANGED <<job, server, files, Outside>>

(* The server answers, with a transcript or without. *)
Answer(e) ==
    /\ At(e, "infer")
    /\ native' = native \ {e}
    /\ \E err \in {"none", "nonretry"} :
          /\ IF err = "none" THEN UNCHANGED faults ELSE Fault
          /\ exec' = [exec EXCEPT ![e].pc = "end", ![e].err = err]
    /\ UNCHANGED <<job, asked, files, Outside>>

(* The connection breaks or times out while the server goes on. *)
Detached(e) ==
    /\ At(e, "infer") /\ Fault
    /\ Error(e, "uncertain")
    /\ UNCHANGED <<job, server, files, Outside>>

NativeEnds(e) ==
    /\ e \in native /\ ~At(e, "infer")
    /\ native' = native \ {e}
    /\ UNCHANGED <<job, asked, files, Outside, exec, faults>>

EndInference(e) ==
    /\ At(e, "end")
    /\ IF Own(e) /\ job.infer \in {"submitted", "terminal"}
         THEN /\ job' = [job EXCEPT !.infer = "terminal"]
              /\ IF exec[e].err = "none" THEN Goto(e, "put") ELSE Goto(e, "finish")
         ELSE UNCHANGED job /\ Error(e, "nonretry")
    /\ UNCHANGED <<server, files, Outside, faults>>

PutDraft(e) ==
    /\ At(e, "put")
    /\ drafts' = drafts \cup {exec[e].attempt}
    /\ Goto(e, "complete")
    /\ UNCHANGED <<job, server, late, Outside, faults>>

PutUnknown(e) ==
    /\ At(e, "put") /\ Fault
    /\ late' = late \cup {exec[e].attempt}
    /\ Error(e, "retry")
    /\ UNCHANGED <<job, server, drafts, Outside>>

Land(a) ==
    /\ a \in late
    /\ late' = late \ {a}
    /\ drafts' \in {drafts, drafts \cup {a}}
    /\ UNCHANGED <<job, server, Outside, exec, faults>>

(* A cancelled job discards the draft. *)
Complete(e) ==
    /\ At(e, "complete")
    /\ IF Own(e) /\ job.infer = "terminal" /\ job.status \in {"running", "cancel_requested"}
         THEN /\ job' = [job EXCEPT !.status = IF @ = "running" THEN "succeeded" ELSE "cancelled"]
              /\ \/ Goto(e, "release") /\ UNCHANGED faults
                 \/ Error(e, "retry") /\ Fault
         ELSE UNCHANGED <<job, faults>> /\ Error(e, "nonretry")
    /\ UNCHANGED <<server, files, Outside>>

(* A source changed, a file is unreadable, the database is unavailable. *)
Fails(e) ==
    /\ exec[e].pc \in {"claim", "draft", "prepare", "start", "end", "complete"} /\ Fault
    /\ \E err \in {"retry", "nonretry"} : Error(e, err)
    /\ UNCHANGED <<job, server, files, Outside>>

(* The heartbeat of an execution that was given up cancels its context; the *)
(* inference and what follows run on contexts of their own.                 *)
Interrupted(e) ==
    /\ exec[e].pc \in {"claim", "draft", "prepare", "start"}
    /\ flow[exec[e].attempt].current # e
    /\ Error(e, "cancelled")
    /\ UNCHANGED <<job, server, files, Outside, faults>>

FinishEnded(e) ==
    /\ At(e, "finish")
    /\ job' = IF /\ Own(e) /\ (exec[e].err # "retry" \/ exec[e].last)
                 /\ job.status \notin {"succeeded", "failed", "cancelled"}
                THEN [job EXCEPT !.infer = IF @ = "submitted" THEN "terminal" ELSE @,
                                 !.status = IF @ = "cancel_requested" THEN "cancelled" ELSE "failed"]
                ELSE job
    /\ Goto(e, "release")
    /\ UNCHANGED <<server, files, Outside, faults>>

(* Finish, after an error that is final or on the last try. *)
Finish(e) ==
    /\ At(e, "finish")
    /\ job' = IF \/ ~Own(e) \/ (exec[e].err = "retry" /\ ~exec[e].last)
                 \/ job.status \in {"succeeded", "failed", "cancelled"}
                THEN job
              ELSE IF exec[e].err = "uncertain"
                THEN [job EXCEPT !.infer = "unknown", !.awaiting = TRUE]
              ELSE [job EXCEPT !.infer = IF @ = "submitted" THEN "terminal" ELSE @,
                               !.status = IF @ = "cancel_requested" THEN "cancelled" ELSE "failed"]
    /\ Goto(e, "release")
    /\ UNCHANGED <<server, files, Outside, faults>>

(* The execution has returned; a request it submitted may not have.        *)
Release(e) ==
    /\ At(e, "release")
    /\ job' = IF ~Own(e) THEN job
              ELSE IF job.infer = "submitted"
                THEN [job EXCEPT !.worker = 0, !.infer = "unknown", !.awaiting = TRUE]
              ELSE [job EXCEPT !.worker = 0]
    /\ LET a == exec[e].attempt IN
       flow' = IF flow[a].current = e THEN [flow EXCEPT ![a] = Ended(@, exec[e].err)] ELSE flow
    /\ exec' = [exec EXCEPT ![e] = [Idle EXCEPT !.pc = "done", !.attempt = exec[e].attempt]]
    /\ UNCHANGED <<server, files, events, used, faults>>

Crash(e) ==
    /\ exec[e].pc \notin {"none", "done", "dead"} /\ Fault
    /\ exec' = [exec EXCEPT ![e] = [Idle EXCEPT !.pc = "dead", !.attempt = exec[e].attempt]]
    /\ late' = IF At(e, "put") THEN late \cup {exec[e].attempt} ELSE late
    /\ UNCHANGED <<job, server, drafts, Outside>>

Next ==
    \/ CreateTranscription \/ CancelTranscription \/ RetryTranscription
    \/ \E d \in events : Deliver(d)
    \/ \E a \in Attempts : RunActivity(a) \/ HeartbeatTimeout(a) \/ FailWorkflow(a) \/ Land(a)
    \/ \E e \in Executions :
          \/ Claim(e) \/ ExistingTranscript(e) \/ Prepare(e) \/ StartInference(e) \/ Send(e)
          \/ DialFails(e) \/ Answer(e) \/ Detached(e) \/ NativeEnds(e) \/ EndInference(e)
          \/ PutDraft(e) \/ PutUnknown(e) \/ Complete(e)
          \/ Fails(e) \/ Interrupted(e) \/ Finish(e) \/ Release(e) \/ Crash(e)

Spec == Init /\ [][Next]_vars

-----------------------------------------------------------------------------
TypeOK ==
    /\ job.status \in {"none", "queued", "running", "cancel_requested", "cancelled",
                       "succeeded", "failed"}
    /\ job.infer \in {"none", "submitted", "terminal", "unknown"}
    /\ job.attempt \in Attempts /\ job.worker \in 0 .. MaxExecutions
    /\ native \subseteq Executions /\ drafts \subseteq Attempts /\ late \subseteq Attempts
    /\ used \in 0 .. MaxExecutions /\ faults \in 0 .. MaxFaults

(* A job is reported as over only when the server computes nothing for it;  *)
(* no attempt is sent to the server twice; a transcript that is reported is *)
(* stored; an accepted cancellation never ends in a transcript or a failure.*)
SettledStopped == job.status \in {"succeeded", "failed", "cancelled"} => native = {}
SentOnce == \A a \in Attempts : asked[a] <= 1
ResultStored == job.status = "succeeded" => job.attempt \in drafts /\ job.infer = "terminal"
CancelKept == job.status = "cancel_requested" => job'.status \in {"cancel_requested", "cancelled"}

InferenceWhole == SettledStopped /\ SentOnce /\ ResultStored
InferenceHonest == []InferenceWhole /\ [][CancelKept]_vars

(* The server works for one execution of the job at a time. *)
Work == INSTANCE PhysicalWork WITH holders <- native, settled <- FALSE
OneWorkerAtATime == Work!Spec
=============================================================================
