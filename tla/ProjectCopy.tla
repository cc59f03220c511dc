---------------------------- MODULE ProjectCopy -----------------------------
(***************************************************************************)
(* The copy of a whole project.  Its content is frozen when the job is     *)
(* created; a workflow then runs one worker at a time through the stages   *)
(* media, bible, script, canvases and finalizing, each of which writes its *)
(* part of the hidden target and advances the job in one transaction.  A   *)
(* cancelled job removes what it wrote.  A worker that is no longer heard  *)
(* of keeps its fence: only its own last word frees the job.               *)
(***************************************************************************)
EXTENDS Naturals, Sequences, FiniteSets

CONSTANTS
    Media,          \* the objects of the target's media, in order
    Script,         \* the objects of the target's script history, in order
    Users,          \* members of the organization
    MaxCommands,    \* bound: accepted commands
    MaxWorkers,     \* bound: executions of the activity
    MaxCopyFaults   \* bound: lost calls, timeouts, crashes

ASSUME CopyAssumption ==
    /\ Media \in Seq({Media[k] : k \in DOMAIN Media})
    /\ Script \in Seq({Script[k] : k \in DOMAIN Script})
    /\ {Media[k] : k \in DOMAIN Media} \cap {Script[k] : k \in DOMAIN Script} = {}
    /\ MaxCommands \in Nat /\ MaxWorkers \in Nat /\ MaxCopyFaults \in Nat

VARIABLES
    job,        \* workspace.project_copy_job
    copied,     \* media.project_copy_object and script.copy_object_state
    target,     \* status of the target project
    written,    \* target objects whose bytes are in object storage
    writing,    \* unanswered writes that may still take effect
    run,        \* [workers -> execution of the activity]
    flow,       \* the job's workflow
    events,     \* requests in the outbox that are not delivered yet
    commands,   \* number of accepted commands
    copyFaults  \* number of faults so far

copyVars == <<job, copied, target, written, writing, run, flow, events, commands, copyFaults>>

Elements(s) == {s[k] : k \in DOMAIN s}
CopyObjects == Elements(Media) \cup Elements(Script)
Workers == 1 .. MaxWorkers

NoRun == [pc |-> "none", actor |-> "none", asked |-> FALSE, k |-> 0, code |-> "none",
          steps |-> 0, stopped |-> FALSE]

(* An object is begun when the intent to write it is recorded.  A worker 0  *)
(* stands for none; receipts are the stages the job has a receipt for.      *)
CopyInit ==
    /\ job = [status |-> "none", stage |-> "media", worker |-> 0, actor |-> "none",
              receipts |-> {}, retryable |-> FALSE, needs |-> FALSE, cancel |-> FALSE,
              asked |-> FALSE, unconfirmed |-> FALSE]
    /\ copied = [o \in CopyObjects |-> "none"]
    /\ target = "none"
    /\ written = {} /\ writing = {}
    /\ run = [w \in Workers |-> NoRun]
    /\ flow = [pc |-> "none", worker |-> 0, pending |-> FALSE]
    /\ events = 0 /\ commands = 0 /\ copyFaults = 0

Terminal == {"succeeded", "cancelled"}
CopyFault == copyFaults < MaxCopyFaults /\ copyFaults' = copyFaults + 1

-----------------------------------------------------------------------------
(* Commands.  Each is read and written under the lock of the job, so the    *)
(* revision a user sends is the current one or the command is refused.      *)

Accept == commands < MaxCommands /\ commands' = commands + 1
Request == events' = events + 1
ByUser == <<copied, written, writing, run, flow, copyFaults>>

(* What is to be copied is fixed once; what becomes of the source is none   *)
(* of the job's business.                                                   *)
FreezeMedia == Elements(Media)
FreezeScript == Elements(Script)

CreateCopy(u) ==
    /\ job.status = "none" /\ Accept /\ Request
    /\ job' = [job EXCEPT !.status = "queued", !.actor = u]
    /\ copied' = [o \in FreezeMedia \cup FreezeScript |-> "pending"]
    /\ target' = "copying"
    /\ UNCHANGED <<written, writing, run, flow, copyFaults>>

(* RequestCancel; a job whose outcome is unknown stays failed. *)
CancelledBy(u) == [job EXCEPT !.cancel = TRUE, !.stage = "cleanup", !.retryable = FALSE,
                            !.status = IF job.needs THEN @ ELSE "cancel_requested",
                            !.actor = u]

(* Any member may cancel and becomes the job's actor. *)
RequestCancelBy(u) ==
    /\ job.status \notin Terminal \cup {"none"}
    /\ ~job.cancel \/ job.actor # u
    /\ Accept /\ Request
    /\ job' = IF job.cancel THEN [job EXCEPT !.actor = u] ELSE CancelledBy(u)
    /\ UNCHANGED <<target, ByUser>>

Retry(u) ==
    /\ job.actor = u /\ job.status = "failed" /\ job.retryable
    /\ ~job.needs /\ ~job.cancel /\ job.worker = 0
    /\ Accept /\ Request
    /\ job' = [job EXCEPT !.status = "queued", !.retryable = FALSE]
    /\ UNCHANGED <<target, ByUser>>

RequestReconciliation(u) ==
    /\ job.actor = u \/ job.cancel
    /\ job.status = "failed" /\ job.needs /\ ~job.unconfirmed /\ job.worker = 0
    /\ ~job.asked
    /\ Accept /\ Request
    /\ job' = [job EXCEPT !.asked = TRUE, !.actor = u]
    /\ UNCHANGED <<target, ByUser>>

-----------------------------------------------------------------------------
(* The workflow: one execution after another, as long as commands arrive *)

ByFlow == <<job, copied, target, written, writing, commands>>
Unused(w) == run[w].pc = "none"

(* A new execution under a fresh worker identity. *)
Execute ==
    \E w \in Workers :
        /\ Unused(w) /\ \A v \in Workers : Unused(v) => w <= v
        /\ flow' = [pc |-> "activity", worker |-> w, pending |-> FALSE]
        /\ run' = [run EXCEPT ![w].pc = "find"]

(* A request starts the workflow or signals it; one for a finished job is   *)
(* dropped.  Requests may be delivered more than once, which is no more     *)
(* than another signal.                                                     *)
Deliver ==
    /\ events > 0 /\ events' = events - 1
    /\ IF job.status \notin Terminal /\ flow.pc \in {"none", "failed", "wait"} THEN Execute
       ELSE /\ flow' = IF job.status \notin Terminal /\ flow.pc \in {"activity", "interrupt"}
                         THEN [flow EXCEPT !.pending = TRUE] ELSE flow
            /\ UNCHANGED run
    /\ UNCHANGED <<ByFlow, copyFaults>>

(* After an execution: the end, the next one, or waiting for a command. *)
Continue ==
    /\ flow.pc = "next"
    /\ IF job.status \in Terminal
         THEN flow' = [pc |-> "ended", worker |-> 0, pending |-> FALSE] /\ UNCHANGED run
       ELSE IF flow.pending THEN Execute
       ELSE flow' = [pc |-> "wait", worker |-> 0, pending |-> FALSE] /\ UNCHANGED run
    /\ UNCHANGED <<ByFlow, events, copyFaults>>

(* The activity is given up: its heartbeats or its two hours are over.  Its *)
(* worker may go on, and may or may not learn of it.                        *)
Timeout ==
    /\ flow.pc = "activity"
    /\ IF run[flow.worker].pc = "dead" THEN UNCHANGED copyFaults ELSE CopyFault
    /\ flow' = [flow EXCEPT !.pc = "interrupt"]
    /\ UNCHANGED <<ByFlow, run, events>>

Interrupt ==
    /\ flow.pc = "interrupt"
    /\ job' = IF /\ job.worker = flow.worker /\ ~job.unconfirmed
                 /\ job.status \in {"running", "cancel_requested"}
                THEN [job EXCEPT !.status = "failed", !.retryable = FALSE, !.needs = TRUE,
                                 !.unconfirmed = TRUE]
                ELSE job
    /\ flow' = [flow EXCEPT !.pc = "next"]
    /\ UNCHANGED <<copied, target, written, writing, run, events, commands, copyFaults>>

(* InterruptCopyActivity fails three times: the workflow fails. *)
InterruptFails ==
    /\ flow.pc = "interrupt" /\ CopyFault
    /\ flow' = [pc |-> "failed", worker |-> 0, pending |-> FALSE]
    /\ UNCHANGED <<ByFlow, run, events>>

-----------------------------------------------------------------------------
(* The execution of a worker *)

Mine(w) == job.worker = w
GoesTo(w, to) == run' = [run EXCEPT ![w].pc = to]
Rest == <<target, written, writing, events, commands, copyFaults>>

(* The activity returns, unless its workflow has given it up already. *)
Returns(w, to) ==
    /\ run' = [run EXCEPT ![w] = [NoRun EXCEPT !.pc = "closed"]]
    /\ flow' = IF flow.pc = "activity" /\ flow.worker = w THEN [flow EXCEPT !.pc = to] ELSE flow

(* Execute reads the job before it claims it. *)
Find(w) ==
    /\ run[w].pc = "find"
    /\ IF job.status \in Terminal \/ (job.status = "failed" /\ ~job.asked)
         THEN Returns(w, "next")
       ELSE IF job.worker # 0
         THEN Returns(w, "interrupt")
       ELSE /\ run' = [run EXCEPT ![w].pc = "claim", ![w].actor = job.actor,
                                  ![w].asked = job.asked]
            /\ UNCHANGED flow
    /\ UNCHANGED <<job, copied, Rest>>

MayStart(w) == /\ job.status \in {"queued", "cancel_requested"}
               /\ job.worker = 0 /\ ~job.needs
MayResume(w) == /\ job.status = "failed" /\ job.needs /\ job.asked
                /\ ~job.unconfirmed /\ job.worker = 0

Claim(w) ==
    /\ run[w].pc = "claim"
    /\ IF job.actor = run[w].actor /\ (IF run[w].asked THEN MayResume(w) ELSE MayStart(w))
         THEN /\ job' = [job EXCEPT !.worker = w, !.needs = FALSE, !.asked = FALSE,
                                    !.unconfirmed = FALSE,
                                    !.status = IF job.cancel THEN "cancel_requested" ELSE "running",
                                    !.stage = IF job.cancel THEN "cleanup" ELSE @]
              /\ GoesTo(w, "step") /\ UNCHANGED flow
         ELSE UNCHANGED job /\ Returns(w, "interrupt")
    /\ UNCHANGED <<copied, Rest>>

(* UseAttempt: every checkpoint is made under the fence of the worker, of   *)
(* the actor it was claimed for and of the stage it belongs to.             *)
Authorized(w) == Mine(w) /\ job.actor = run[w].actor
Fenced(w, stage) ==
    /\ Authorized(w) /\ job.stage = stage
    /\ IF stage = "cleanup" THEN job.status = "cancel_requested"
                            ELSE job.status = "running" /\ ~job.cancel

(* At most six steps; the next one is found by the job's stage. *)
NextStep(w) ==
    /\ run[w].pc = "step"
    /\ run' = IF run[w].steps = 6 \/ job.stage = "complete"
                THEN [run EXCEPT ![w].pc = "stop", ![w].code = "known"]
                ELSE [run EXCEPT ![w].pc = job.stage, ![w].k = 1, ![w].steps = @ + 1]
    /\ UNCHANGED <<job, copied, flow, Rest>>

(* A known error of a cancelled job leads to its cleanup, any other ends    *)
(* the execution; an unknown one is told from a known one.                  *)
Fails(w) == run' = [run EXCEPT ![w].pc = "failing"]
Unknown(w) == run' = [run EXCEPT ![w].pc = "stop", ![w].code = "unknown"]
Failing(w) ==
    /\ run[w].pc = "failing"
    /\ IF job.status = "cancel_requested" /\ Mine(w) /\ ~run[w].stopped
         THEN GoesTo(w, "step")
         ELSE run' = [run EXCEPT ![w].pc = "stop",
                                 ![w].code = IF run[w].stopped THEN "unknown" ELSE "known"]
    /\ UNCHANGED <<job, copied, flow, Rest>>

ByWorker == <<target, flow, events, commands>>
Part(w, s) == s[run[w].k]
More(w, stage, s) == run[w].pc = stage /\ run[w].k <= Len(s)
Done(w, stage, s) == run[w].pc = stage /\ run[w].k > Len(s)
Following(w, to) == run' = [run EXCEPT ![w].pc = to, ![w].k = @ + 1]

(* A stage that has written everything advances the job, or finds the job   *)
(* changed.                                                                 *)
Advance(w, stage, next, ok) ==
    /\ IF Fenced(w, stage) /\ ok
         THEN /\ job' = [job EXCEPT !.stage = next, !.receipts = @ \cup {stage}]
              /\ GoesTo(w, "step")
         ELSE UNCHANGED job /\ Fails(w)
    /\ UNCHANGED <<copied, written, writing, ByWorker, copyFaults>>

(* Media: an object whose write was begun earlier is only read back. *)
TransferObject(w) ==
    /\ More(w, "media", Media)
    /\ LET o == Part(w, Media) IN
       IF Fenced(w, "media") /\ copied[o] = "pending"
         THEN copied' = [copied EXCEPT ![o] = "begun"] /\ GoesTo(w, "put")
         ELSE /\ IF ~Fenced(w, "media") \/ copied[o] \notin {"begun", "verified"} THEN Fails(w)
                 ELSE IF o \notin written THEN Unknown(w)
                 ELSE IF copied[o] = "verified" THEN Following(w, "media")
                 ELSE GoesTo(w, "confirm")
              /\ UNCHANGED copied
    /\ UNCHANGED <<job, Rest, flow>>

(* Script: an object that is not there is written, also a second time. *)
BeginObject(w) ==
    /\ More(w, "script", Script)
    /\ LET o == Part(w, Script) IN
       IF ~Fenced(w, "script") \/ copied[o] = "removed" THEN Fails(w) /\ UNCHANGED copied
       ELSE /\ copied' = [copied EXCEPT ![o] = IF @ = "verified" THEN @ ELSE "begun"]
            /\ GoesTo(w, IF o \in written THEN "confirm" ELSE "put")
    /\ UNCHANGED <<job, Rest, flow>>

WritesObject(w) == Part(w, IF job.stage = "script" \/ "bible" \in job.receipts THEN Script ELSE Media)

PutObject(w) ==
    /\ run[w].pc = "put"
    /\ written' = written \cup {WritesObject(w)}
    /\ GoesTo(w, "confirm")
    /\ UNCHANGED <<job, copied, writing, ByWorker, copyFaults>>

(* No answer to the write: it takes effect at any later time, or never. *)
PutUnanswered(w) ==
    /\ run[w].pc = "put"
    /\ IF run[w].stopped THEN UNCHANGED copyFaults ELSE CopyFault
    /\ writing' = writing \cup {WritesObject(w)}
    /\ Unknown(w)
    /\ UNCHANGED <<job, copied, written, ByWorker>>

(* The object is read back and its receipt recorded. *)
ConfirmObject(w) ==
    /\ run[w].pc = "confirm"
    /\ LET o == WritesObject(w)
           stage == IF o \in Elements(Script) THEN "script" ELSE "media" IN
       IF Fenced(w, stage) /\ copied[o] # "removed"
         THEN copied' = [copied EXCEPT ![o] = "verified"] /\ Following(w, stage)
         ELSE UNCHANGED copied /\ Unknown(w)
    /\ UNCHANGED <<job, Rest, flow>>

(* Each owner writes its rows when its objects are recorded as verified,    *)
(* and finds the same rows when it is asked again.                          *)
Register(s) == \A o \in Elements(s) : copied[o] = "verified"

CompleteMedia(w) == Done(w, "media", Media) /\ Advance(w, "media", "bible", Register(Media))

(* The bible's references are read from the target's media. *)
VerifyTransferred == Elements(Media) \subseteq written

CompleteBible(w) ==
    /\ run[w].pc = "bible"
    /\ IF Fenced(w, "bible") /\ ~VerifyTransferred
         THEN Unknown(w) /\ UNCHANGED <<job, copied, written, writing, ByWorker, copyFaults>>
         ELSE Advance(w, "bible", "script", TRUE)

CompleteScript(w) == Done(w, "script", Script) /\ Advance(w, "script", "canvases", Register(Script))

CompleteCanvases(w) ==
    /\ run[w].pc = "canvases"
    /\ Advance(w, "canvases", "finalizing", "media" \in job.receipts)

(* Publish asks every owner again and shows the target. *)
VerifyScript == "script" \in job.receipts /\ Register(Script)
VerifyBible == "bible" \in job.receipts
VerifyMedia == "media" \in job.receipts /\ Register(Media)
VerifyCanvases == "canvases" \in job.receipts

Publish(w) ==
    /\ run[w].pc = "finalizing"
    /\ IF /\ Fenced(w, "finalizing")
          /\ VerifyMedia /\ VerifyCanvases /\ VerifyScript /\ VerifyBible
         THEN /\ job' = [job EXCEPT !.status = "succeeded", !.stage = "complete", !.worker = 0]
              /\ target' = "active" /\ Returns(w, "next")
         ELSE UNCHANGED <<job, target, flow>> /\ Fails(w)
    /\ UNCHANGED <<copied, written, writing, events, commands, copyFaults>>

Owned == Media \o Script

(* An object that was begun and is not there may still arrive. *)
Absent == {o \in CopyObjects : o \notin written /\ copied[o] = "begun"}

(* Authorized, verified, removed, looked for again and recorded. *)
RemoveUnless(w, s, absent) ==
    /\ More(w, "cleanup", Owned) /\ Part(w, Owned) \in Elements(s)
    /\ LET o == Part(w, Owned) IN
       IF ~Fenced(w, "cleanup") THEN Fails(w) /\ UNCHANGED <<copied, written>>
       ELSE IF o \in absent THEN Unknown(w) /\ UNCHANGED <<copied, written>>
       ELSE /\ written' = written \ {o}
            /\ copied' = [copied EXCEPT ![o] = "removed"]
            /\ Following(w, "cleanup")
    /\ UNCHANGED <<job, writing, ByWorker, copyFaults>>

RemoveAnyway(w) == RemoveUnless(w, Media, {})
RemoveMedia(w) == RemoveUnless(w, Media, Absent)
RemoveScript(w) == RemoveUnless(w, Script, Absent)

(* The object is removed but the receipt is not recorded; of the script,    *)
(* what was found is recorded before the removal.                           *)
ReceiptLost(w) ==
    /\ More(w, "cleanup", Owned) /\ Fenced(w, "cleanup") /\ CopyFault
    /\ LET o == Part(w, Owned) IN
       /\ o \in written /\ written' = written \ {o}
       /\ copied' = [copied EXCEPT ![o] = IF o \in Elements(Script) /\ @ # "removed"
                                            THEN "verified" ELSE @]
    /\ Fails(w)
    /\ UNCHANGED <<job, writing, ByWorker>>

(* Every owner takes its rows back when its objects are gone. *)
Removed(s) == \A o \in Elements(s) : copied[o] = "removed"
RetireCopy == target' = "deleted"

FinishCancelled(w) ==
    /\ Done(w, "cleanup", Owned)
    /\ IF Fenced(w, "cleanup") /\ Removed(Media) /\ Removed(Script)
         THEN /\ job' = [job EXCEPT !.status = "cancelled", !.stage = "complete", !.worker = 0]
              /\ RetireCopy /\ Returns(w, "next")
         ELSE UNCHANGED <<job, target, flow>> /\ Fails(w)
    /\ UNCHANGED <<copied, written, writing, events, commands, copyFaults>>

(* StopAttempt: the last word of an execution. *)
StopAttempt(w) ==
    /\ run[w].pc = "stop"
    /\ LET unknown == job.unconfirmed \/ job.cancel \/ run[w].code = "unknown" IN
       IF Mine(w)
         THEN /\ job' = [job EXCEPT !.status = "failed", !.retryable = ~unknown, !.needs = unknown,
                                    !.worker = 0, !.unconfirmed = FALSE, !.asked = FALSE]
              /\ Returns(w, "next")
         ELSE UNCHANGED job /\ Returns(w, "interrupt")
    /\ UNCHANGED <<copied, Rest>>

StopFails(w) ==
    /\ run[w].pc = "stop" /\ CopyFault
    /\ Returns(w, "interrupt")
    /\ UNCHANGED <<job, copied, target, written, writing, events, commands>>

-----------------------------------------------------------------------------
(* Faults *)

AtWork == {"step", "failing", "media", "bible", "script", "canvases", "finalizing", "cleanup",
            "put", "confirm", "stop"}

(* A call to the database or to object storage fails before it had effect.  *)
WorkerFails(w) ==
    /\ run[w].pc \in {"media", "bible", "script", "canvases", "finalizing", "cleanup"} /\ CopyFault
    /\ \/ Fails(w)
       \/ run[w].pc \in {"bible", "script", "cleanup"} /\ Unknown(w)
    /\ UNCHANGED <<job, copied, written, writing, ByWorker>>

(* The worker learns that its activity was given up. *)
Stopped(w) ==
    /\ run[w].pc \in AtWork \ {"stop"} /\ ~run[w].stopped
    /\ ~(flow.pc = "activity" /\ flow.worker = w)
    /\ run' = IF run[w].pc \in {"put", "failing"}
                THEN [run EXCEPT ![w].stopped = TRUE]
                ELSE [run EXCEPT ![w].stopped = TRUE, ![w].pc = "failing"]
    /\ UNCHANGED <<job, copied, flow, Rest>>

WorkerDies(w) ==
    /\ run[w].pc \in AtWork \cup {"find", "claim"} /\ CopyFault
    /\ run' = [run EXCEPT ![w] = [NoRun EXCEPT !.pc = "dead"]]
    /\ writing' = IF run[w].pc = "put" THEN writing \cup {WritesObject(w)} ELSE writing
    /\ UNCHANGED <<job, copied, written, ByWorker>>

WriteLands(o) ==
    /\ o \in writing /\ writing' = writing \ {o}
    /\ written' \in {written, written \cup {o}}
    /\ UNCHANGED <<job, copied, target, run, flow, events, commands, copyFaults>>

Command(u) == CreateCopy(u) \/ RequestCancelBy(u) \/ Retry(u) \/ RequestReconciliation(u)

WorkerStep(w) ==
    \/ Find(w) \/ Claim(w) \/ NextStep(w) \/ Failing(w)
    \/ TransferObject(w) \/ BeginObject(w) \/ PutObject(w) \/ ConfirmObject(w)
    \/ CompleteMedia(w) \/ CompleteBible(w) \/ CompleteScript(w) \/ CompleteCanvases(w)
    \/ Publish(w) \/ RemoveMedia(w) \/ RemoveScript(w) \/ FinishCancelled(w) \/ StopAttempt(w)

CopyNext ==
    \/ \E u \in Users : Command(u)
    \/ Deliver \/ Continue \/ Timeout \/ Interrupt \/ InterruptFails
    \/ \E w \in Workers : \/ WorkerStep(w) \/ PutUnanswered(w) \/ ReceiptLost(w) \/ StopFails(w)
                          \/ WorkerFails(w) \/ Stopped(w) \/ WorkerDies(w)
    \/ \E o \in CopyObjects : WriteLands(o)

CopySpec == CopyInit /\ [][CopyNext]_copyVars

-----------------------------------------------------------------------------
CopyTypeOK ==
    /\ copied \in [CopyObjects -> {"none", "pending", "begun", "verified", "removed"}]
    /\ target \in {"none", "copying", "active", "deleted"}
    /\ written \subseteq CopyObjects /\ writing \subseteq CopyObjects
    /\ job.worker \in 0 .. MaxWorkers

(* A copy that is shown is whole. *)
CopyShownWhole == target = "active" => /\ job.status = "succeeded" /\ CopyObjects \subseteq written

(* A cancelled copy leaves no media in storage, and none can arrive. *)
CopyCancelledClean == target = "deleted" =>
                    /\ job.status = "cancelled"
                    /\ (written \cup writing) \cap Elements(Media) = {}

(* Of the script: a cancelled copy leaves nothing either.  TLC refutes it   *)
(* (README, section 7).                                                      *)
ScriptClean == target = "deleted" => written \cap Elements(Script) = {}

(* An accepted cancellation is never overtaken by the publication. *)
CancelKept == job.cancel => target' # "active"

(* The worker that may be writing, or whose end nobody confirmed. *)
CopyHolders == {w \in Workers : run[w].pc \in AtWork \/ (run[w].pc = "dead" /\ job.worker = w)}
CopyEnded == job.status \in Terminal

(* One process works for a copy at a time, the next only when the last is   *)
(* known to have stopped, and none after the final result.                  *)
CopyWork == INSTANCE PhysicalWork WITH holders <- CopyHolders, settled <- CopyEnded
OneCopierAtATime == CopyWork!Spec

(* A copied project is complete when it is shown and leaves no media when   *)
(* it is not, and a copy that was cancelled never appears.                  *)
CopyHonest == [](CopyShownWhole /\ CopyCancelledClean) /\ [][CancelKept]_copyVars
=============================================================================
