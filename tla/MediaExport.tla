----------------------------- MODULE MediaExport -----------------------------
(***************************************************************************)
(* The local rendering of a saved timeline.  Each attempt of a job has one *)
(* workflow, which tries its activity a few times; each try is an          *)
(* execution of its own that claims the job, renders or adopts the object  *)
(* of its attempt, registers it as pending media and leaves.  The user     *)
(* cancels, retries and reviews meanwhile.  Executions are given up while  *)
(* they still run, or die.                                                 *)
(***************************************************************************)
EXTENDS Naturals, FiniteSets

CONSTANTS
    MaxAttempts,    \* bound: attempts of the job (the code stops at 100)
    MaxTries,       \* tries of the activity (the code allows 3)
    MaxExecutions,  \* bound: executions over all attempts
    MaxFaults       \* bound: failures, lost answers, timeouts and crashes

VARIABLES
    job,        \* mediatool.export_job
    media,      \* [attempts -> the asset it registered]
    stored,     \* [attempts -> execution whose bytes are stored, or 0]
    late,       \* unanswered writes that may still take effect
    events,     \* committed events that are not delivered
    flow,       \* [attempts -> its workflow]
    exec,       \* [executions -> where the execution is]
    used,       \* number of executions so far
    faults      \* number of faults so far

vars == <<job, media, stored, late, events, flow, exec, used, faults>>

Attempts == 1 .. MaxAttempts
Executions == 1 .. MaxExecutions

NoAsset == [state |-> "none", sha |-> 0]
Idle == [pc |-> "none", attempt |-> 0, out |-> 0, err |-> "none", last |-> FALSE, stop |-> FALSE]

Init ==
    /\ job = [status |-> "none", attempt |-> 1, worker |-> 0]
    /\ media = [a \in Attempts |-> NoAsset]
    /\ stored = [a \in Attempts |-> 0]
    /\ late = {} /\ events = {}
    /\ flow = [a \in Attempts |-> [state |-> "none", tries |-> 0, current |-> 0, stop |-> FALSE]]
    /\ exec = [e \in Executions |-> Idle]
    /\ used = 0 /\ faults = 0

Fault == faults < MaxFaults /\ faults' = faults + 1
Emit(action, attempt) == events' = events \cup {[action |-> action, attempt |-> attempt]}
Working == <<media, stored, late, flow, exec, used, faults>>

-----------------------------------------------------------------------------
(* Commands of the user *)

CreateExport ==
    /\ job.status = "none"
    /\ job' = [job EXCEPT !.status = "queued"]
    /\ Emit("start", 1)
    /\ UNCHANGED Working

CancelExport ==
    \/ /\ job.status \in {"queued", "running"}
       /\ job' = [job EXCEPT !.status = "cancel_requested"]
       /\ Emit("cancel", job.attempt)
       /\ UNCHANGED Working
    \/ /\ job.status = "review_required"
       /\ job' = [job EXCEPT !.status = "cancelled"]
       /\ media' = [media EXCEPT ![job.attempt].state = "rejected"]
       /\ UNCHANGED <<stored, late, events, flow, exec, used, faults>>

(* The new attempt does not wait for an execution of the last one. *)
RetryExport ==
    /\ job.status \in {"failed", "cancelled"} /\ job.attempt < MaxAttempts
    /\ job' = [status |-> "queued", attempt |-> job.attempt + 1, worker |-> 0]
    /\ Emit("start", job.attempt + 1)
    /\ UNCHANGED Working

(* The reviewer names the bytes that were inspected. *)
ReviewExport(sha) ==
    /\ job.status = "review_required" /\ media[job.attempt].sha = sha
    /\ job' = [job EXCEPT !.status = "succeeded"]
    /\ media' = [media EXCEPT ![job.attempt].state = "published"]
    /\ UNCHANGED <<stored, late, events, flow, exec, used, faults>>

-----------------------------------------------------------------------------
(* Delivery and workflow *)

VerifyDelivery(d) ==
    /\ d.attempt = job.attempt
    /\ job.status \in IF d.action = "start" THEN {"queued", "running", "cancel_requested"}
                                            ELSE {"cancel_requested"}

(* A cancel first starts the workflow of its attempt, if nothing has. *)
Started(f) == IF f.state = "none" THEN [f EXCEPT !.state = "open"] ELSE f

Deliver(d) ==
    /\ d \in events
    /\ events' = events \ {d}
    /\ IF ~VerifyDelivery(d)
         THEN UNCHANGED <<flow, exec>>
         ELSE LET f == Started(flow[d.attempt])
                  cancel == d.action = "cancel" /\ f.state = "open"
              IN /\ flow' = [flow EXCEPT ![d.attempt] = [f EXCEPT !.stop = @ \/ cancel]]
                 /\ exec' = IF cancel /\ f.current # 0
                              THEN [exec EXCEPT ![f.current].stop = TRUE] ELSE exec
    /\ UNCHANGED <<job, media, stored, late, used, faults>>

(* A workflow that is cancelled between two tries starts no other.          *)
RunActivity(a) ==
    /\ flow[a].state = "open" /\ flow[a].current = 0
    /\ IF flow[a].stop
         THEN flow' = [flow EXCEPT ![a].state = "closed"] /\ UNCHANGED <<exec, used>>
         ELSE /\ used < MaxExecutions /\ used' = used + 1
              /\ flow' = [flow EXCEPT ![a].tries = @ + 1, ![a].current = used + 1]
              /\ exec' = [exec EXCEPT ![used + 1] =
                            [Idle EXCEPT !.pc = "claim", !.attempt = a,
                                         !.last = flow[a].tries + 1 = MaxTries]]
    /\ UNCHANGED <<job, media, stored, late, events, faults>>

(* What the workflow does with the result of its current try. *)
Ended(f, err) ==
    [f EXCEPT !.current = 0,
              !.state = CASE err \in {"none", "cancelled"} -> "closed"
                          [] err = "nonretry" -> "failing"
                          [] OTHER -> IF f.tries = MaxTries \/ f.stop THEN "failing" ELSE "open"]

(* 30 seconds without a heartbeat. *)
HeartbeatTimeout(a) ==
    /\ flow[a].current # 0
    /\ IF exec[flow[a].current].pc = "dead" THEN UNCHANGED faults ELSE Fault
    /\ flow' = [flow EXCEPT ![a] = Ended(@, "timeout")]
    /\ UNCHANGED <<job, media, stored, late, events, exec, used>>

FailWorkflow(a) ==
    /\ flow[a].state = "failing"
    /\ flow' = [flow EXCEPT ![a].state = "closed"]
    /\ job' = IF job.attempt = a /\ job.status \in {"queued", "running"}
                THEN [job EXCEPT !.status = "failed"] ELSE job
    /\ UNCHANGED <<media, stored, late, events, exec, used, faults>>

-----------------------------------------------------------------------------
(* An execution of the activity *)

At(e, pc) == exec[e].pc = pc /\ ~exec[e].stop
Goto(e, pc) == exec' = [exec EXCEPT ![e].pc = pc]
Error(e, err) == exec' = [exec EXCEPT ![e].pc = "finish", ![e].err = err]
Environment == <<events, flow, used>>
Mine(e) == job.attempt = exec[e].attempt

Claim(e) ==
    /\ At(e, "claim")
    /\ CASE ~Mine(e) ->
              Error(e, "nonretry") /\ UNCHANGED job
         [] Mine(e) /\ job.status = "cancel_requested" ->
              /\ job' = IF job.worker = 0 THEN [job EXCEPT !.status = "cancelled"] ELSE job
              /\ Error(e, "cancelled")
         [] Mine(e) /\ job.status \in {"review_required", "succeeded"} ->
              Goto(e, "release") /\ UNCHANGED job
         [] Mine(e) /\ job.status \in {"failed", "cancelled"} ->
              Error(e, "nonretry") /\ UNCHANGED job
         [] Mine(e) /\ job.status \in {"queued", "running"} ->
              IF job.worker # 0
                THEN Error(e, "retry") /\ UNCHANGED job
                ELSE /\ job' = [job EXCEPT !.status = "running", !.worker = e]
                     /\ Goto(e, "open")
    /\ UNCHANGED <<media, stored, late, Environment, faults>>

(* Progress, called before and during each stage. *)
Proceed(e, to) ==
    IF Mine(e) /\ job.worker = e /\ job.status = "running" THEN to
    ELSE Error(e, IF Mine(e) /\ job.worker = e /\ job.status \in {"cancel_requested", "cancelled"}
                    THEN "cancelled" ELSE "nonretry")

(* The object of an earlier try is adopted, otherwise the timeline rendered. *)
Open(e) ==
    /\ At(e, "open")
    /\ LET o == stored[exec[e].attempt] IN
       IF o # 0
         THEN exec' = [exec EXCEPT ![e].pc = "preview", ![e].out = o]
         ELSE Proceed(e, Goto(e, "put"))
    /\ UNCHANGED <<job, media, stored, late, Environment, faults>>

PutKeepsOwn(e) ==
    /\ At(e, "put")
    /\ stored' = [stored EXCEPT ![exec[e].attempt] = IF @ = 0 THEN e ELSE @]
    /\ exec' = [exec EXCEPT ![e].pc = "preview", ![e].out = e]
    /\ UNCHANGED <<job, media, late, Environment, faults>>

(* PutIfAbsent; a loser of the race adopts the winner's bytes. *)
Put(e) ==
    /\ At(e, "put")
    /\ LET o == IF stored[exec[e].attempt] = 0 THEN e ELSE stored[exec[e].attempt] IN
         /\ stored' = [stored EXCEPT ![exec[e].attempt] = o]
         /\ exec' = [exec EXCEPT ![e].pc = "preview", ![e].out = o]
    /\ UNCHANGED <<job, media, late, Environment, faults>>

(* No answer: the write takes effect at any later time, or never. *)
PutUnknown(e) ==
    /\ exec[e].pc = "put"
    /\ IF exec[e].stop THEN UNCHANGED faults ELSE Fault
    /\ late' = late \cup {e}
    /\ Error(e, IF exec[e].stop THEN "cancelled" ELSE "retry")
    /\ UNCHANGED <<job, media, stored, Environment>>

Land(e) ==
    /\ e \in late
    /\ late' = late \ {e}
    /\ \/ UNCHANGED stored
       \/ stored[exec[e].attempt] = 0 /\ stored' = [stored EXCEPT ![exec[e].attempt] = e]
    /\ UNCHANGED <<job, media, Environment, exec, faults>>

Preview(e) ==
    /\ At(e, "preview")
    /\ Proceed(e, Goto(e, "commit"))
    /\ UNCHANGED <<job, media, stored, late, Environment, faults>>

CommitAnyway(e) ==
    /\ At(e, "commit")
    /\ IF Mine(e) /\ job.worker = e
         THEN /\ job' = [job EXCEPT !.status = "review_required"]
              /\ media' = [media EXCEPT ![job.attempt] = [state |-> "pending", sha |-> exec[e].out]]
              /\ Goto(e, "release")
         ELSE UNCHANGED <<job, media>> /\ Proceed(e, Goto(e, "release"))
    /\ UNCHANGED <<stored, late, Environment, faults>>

(* Registers pending media; the answer may be lost. *)
Commit(e) ==
    /\ At(e, "commit")
    /\ IF Mine(e) /\ job.worker = e /\ job.status = "running"
         THEN /\ job' = [job EXCEPT !.status = "review_required"]
              /\ media' = [media EXCEPT ![job.attempt] = [state |-> "pending", sha |-> exec[e].out]]
              /\ \/ Goto(e, "release") /\ UNCHANGED faults
                 \/ Error(e, "retry") /\ Fault
         ELSE UNCHANGED <<job, media, faults>> /\ Proceed(e, Goto(e, "release"))
    /\ UNCHANGED <<stored, late, Environment>>

Stage == {"claim", "open", "preview", "commit"}

(* A source changed, a file is unreadable, a service is unavailable. *)
Fails(e) ==
    /\ exec[e].pc \in Stage /\ ~exec[e].stop /\ Fault
    /\ \E err \in {"retry", "nonretry"} : Error(e, err)
    /\ UNCHANGED <<job, media, stored, late, Environment>>

(* The context of the activity is cancelled, by the user's signal or by the *)
(* heartbeat of an execution that was given up.                             *)
Interrupted(e) ==
    /\ exec[e].pc \in Stage
    /\ exec[e].stop \/ flow[exec[e].attempt].current # e
    /\ Error(e, "cancelled")
    /\ UNCHANGED <<job, media, stored, late, Environment, faults>>

(* Finish, after an error that is final or on the last try. *)
Finish(e) ==
    /\ exec[e].pc = "finish"
    /\ job' = IF /\ exec[e].err # "retry" \/ exec[e].last
                 /\ Mine(e) /\ job.worker = e
                 /\ job.status \in {"queued", "running", "cancel_requested"}
                THEN [job EXCEPT !.worker = 0,
                                 !.status = IF exec[e].err = "cancelled" \/ @ = "cancel_requested"
                                              THEN "cancelled" ELSE "failed"]
                ELSE job
    /\ Goto(e, "release")
    /\ UNCHANGED <<media, stored, late, Environment, faults>>

Release(e) ==
    /\ exec[e].pc = "release"
    /\ job' = IF Mine(e) /\ job.worker = e THEN [job EXCEPT !.worker = 0] ELSE job
    /\ LET a == exec[e].attempt IN
       flow' = IF flow[a].current = e THEN [flow EXCEPT ![a] = Ended(@, exec[e].err)] ELSE flow
    /\ exec' = [exec EXCEPT ![e] = [Idle EXCEPT !.pc = "done", !.attempt = exec[e].attempt]]
    /\ UNCHANGED <<media, stored, late, events, used, faults>>

Crash(e) ==
    /\ exec[e].pc \in Stage \cup {"put", "finish", "release"} /\ Fault
    /\ exec' = [exec EXCEPT ![e] = [Idle EXCEPT !.pc = "dead", !.attempt = exec[e].attempt]]
    /\ late' = IF exec[e].pc = "put" THEN late \cup {e} ELSE late
    /\ UNCHANGED <<job, media, stored, Environment>>

Next ==
    \/ CreateExport \/ CancelExport \/ RetryExport
    \/ \E sha \in Executions : ReviewExport(sha)
    \/ \E d \in events : Deliver(d)
    \/ \E a \in Attempts : RunActivity(a) \/ HeartbeatTimeout(a) \/ FailWorkflow(a)
    \/ \E e \in Executions :
          \/ Claim(e) \/ Open(e) \/ Put(e) \/ PutUnknown(e) \/ Land(e) \/ Preview(e) \/ Commit(e)
          \/ Fails(e) \/ Interrupted(e) \/ Finish(e) \/ Release(e) \/ Crash(e)

Spec == Init /\ [][Next]_vars

-----------------------------------------------------------------------------
TypeOK ==
    /\ job.status \in {"none", "queued", "running", "cancel_requested", "cancelled",
                       "review_required", "succeeded", "failed"}
    /\ job.attempt \in Attempts /\ job.worker \in 0 .. MaxExecutions
    /\ \A a \in Attempts : /\ media[a].state \in {"none", "pending", "published", "rejected"}
                           /\ stored[a] \in 0 .. MaxExecutions
    /\ late \subseteq Executions /\ used \in 0 .. MaxExecutions /\ faults \in 0 .. MaxFaults

(* The media library shows exactly the output of the job's current attempt: *)
(* pending while it waits for review, published once it is accepted, and no *)
(* output of an attempt that was cancelled, failed or superseded.  What is  *)
(* registered are the bytes that are stored, whichever execution wrote      *)
(* them.  A cancelled attempt renders no more, and an accepted cancellation *)
(* is never overtaken by a result.                                          *)
MediaFollowsJob ==
    \A a \in Attempts :
        /\ media[a].state = "published" <=> a = job.attempt /\ job.status = "succeeded"
        /\ media[a].state = "pending" <=> a = job.attempt /\ job.status = "review_required"
RegisteredAsStored ==
    \A a \in Attempts : media[a].state # "none" => media[a].sha = stored[a]
Rendering(a) == {e \in Executions : /\ exec[e].attempt = a
                                    /\ exec[e].pc \in {"open", "put", "preview", "commit"}}
CancelledRendersNoMore == job.status = "cancelled" => Rendering(job.attempt) = {}
CancelKept == job.status = "cancel_requested" => job'.status \in {"cancel_requested", "cancelled"}

ExportWhole == MediaFollowsJob /\ RegisteredAsStored /\ CancelledRendersNoMore
ExportHonest == []ExportWhole /\ [][CancelKept]_vars
=============================================================================
