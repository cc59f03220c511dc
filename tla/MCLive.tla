------------------------------- MODULE MCLive -------------------------------
(***************************************************************************)
(* What must happen in the end, on small instances: two relay processes    *)
(* that bring the audit trail up to date or that start and cancel an       *)
(* operation, one batch of two children, one operation.  They share no     *)
(* state; a behaviour moves one of them, its "subject", and the others     *)
(* stay where they begin.                                                  *)
(***************************************************************************)
EXTENDS Delivery

CONSTANTS p1, p2, b1, c1, c2, openai, home

VARIABLES subject, batch, child, settled, control, enabled, parent, late,
          op, submits, queries, cancelCall, recorded, vouched, cancel,
          inBatch, provider, expired, wf

B == INSTANCE Batch WITH
       Batches <- {b1}, Children <- {c1, c2}, Providers <- {openai}, Projects <- {home},
       Sources <- {}, BatchOf <- [c \in {c1, c2} |-> b1],
       ProviderOf <- [c \in {c1, c2} |-> openai], ProjectOf <- [b \in {b1} |-> home],
       SourceOf <- [b \in {b1} |-> "none"], Concurrency <- [b \in {b1} |-> 2],
       ProjectLimit <- 1, ProviderLimit <- [p \in {openai} |-> 2], Streak <- 1, RunStarts <- 3,
       FailureCodes <- {"rate_limited"}, MayRoll <- FALSE, MayRefuse <- FALSE,
       MayBreak <- FALSE, MayDisable <- FALSE, MaxControls <- 2, MaxLate <- 0

O == INSTANCE Operation WITH
       SupportsCancel <- TRUE, InBatch <- TRUE, MaxSubmits <- 2, QueryRetries <- 2,
       ReconcileQueries <- 2, MaxLate <- 0, parent <- inBatch, late <- expired

batchVars == <<batch, child, settled, control, enabled, parent, late>>
operationVars == <<op, submits, queries, cancelCall, recorded, vouched, cancel, inBatch,
                   provider, expired, wf>>
all == <<subject, vars, batchVars, operationVars>>

LiveInit ==
    /\ Init /\ B!Init /\ O!Init
    /\ subject \in {"audit", "control", "batch", "operation"}
    /\ op.reused => subject = "operation"
    /\ subject # "audit" => \A l \in Loops : owner[l] = p1

(* The audit trail and the control of an operation need different loops of   *)
(* the processes; the loops that are not looked at do not move.              *)
Steps(p, l) == Consume(p, l) \/ OutboxLoop(p) \/ Crash(p)

AuditNext ==
    \/ \E o \in Ops : Confirm(o)
    \/ \E p \in Processes : Steps(p, "audit") \/ TakeOver(p, "audit")
    \/ \E e \in Events : PrunePublished(e) \/ PruneExpired(e)

(* Bound: one fault of the control, a lost acknowledgement or a death.       *)
OneFault == crashes + repeats <= 1
ControlNext ==
    \/ \E o \in Ops : Confirm(o) \/ RequestCancel(o) \/ Workflow(o)
    \/ \E p \in Processes : Steps(p, "starter") \/ Call(p) \/ SweepLoop(p)

LiveNext ==
    /\ UNCHANGED subject
    /\ \/ subject = "audit" /\ AuditNext /\ UNCHANGED <<batchVars, operationVars>>
       \/ subject = "control" /\ ControlNext /\ OneFault' /\ UNCHANGED <<batchVars, operationVars>>
       \/ subject = "batch" /\ B!Next /\ UNCHANGED <<vars, operationVars>>
       \/ subject = "operation" /\ O!Next /\ UNCHANGED <<vars, batchVars>>

(* The fairness of Delivery, of Batch and of Operation, each for its own    *)
(* subject.                                                                 *)
LiveSpec ==
    /\ LiveInit /\ [][LiveNext]_all
    /\ \A p \in Processes :
          /\ WF_vars(subject \in {"audit", "control"} /\ OutboxLoop(p))
          /\ WF_vars(subject = "audit" /\ Consume(p, "audit"))
          /\ WF_vars(subject = "control" /\ Consume(p, "starter"))
          /\ WF_vars(subject = "control" /\ Call(p) /\ OneFault')
          /\ WF_vars(subject = "control" /\ SweepList(p))
          /\ SF_vars(subject = "control" /\ SweepStart(p))
    /\ \A o \in Ops : WF_vars(subject = "control" /\ Workflow(o))
    /\ WF_batchVars(subject = "batch" /\ B!StartBatch(b1))
    /\ WF_batchVars(subject = "batch" /\ B!Parent(b1))
    /\ \A a \in B!Controls : WF_batchVars(subject = "batch" /\ B!DeliverControl(b1, a))
    /\ \A c \in {c1, c2} : WF_batchVars(subject = "batch" /\ B!ChildEnds(c))
    /\ WF_operationVars(subject = "operation" /\ O!Workflow)
    /\ WF_operationVars(subject = "operation" /\ O!SettleClaimed)
    /\ WF_operationVars(subject = "operation" /\ O!ProviderFinishes)

-----------------------------------------------------------------------------
(* The audit trail implements exactly-once delivery of every committed      *)
(* event, although two processes overtake and repeat each other.            *)
Trail == INSTANCE ExactlyOnce WITH
            Events <- AuditEvents,
            sent <- {e \in AuditEvents : subject = "audit" /\ outbox[e] # "absent"},
            effect <- [e \in AuditEvents |-> audited[e]]
AuditIsExactlyOnce == Trail!Spec

(* What was begun ends: when every child of a started batch is settled, the *)
(* batch gets over; a request to cancel an operation reaches its workflow   *)
(* or comes too late; an operation is closed, or waits for the documented   *)
(* decision of an administrator.  And a cancel signal that the parent of a  *)
(* batch received is recorded, or the batch is over.                        *)
Begun == CASE subject = "control" -> \E o \in Ops : ControlPending(o)
           [] subject = "batch" -> B!Finishable(b1)
           [] subject = "operation" -> ~O!Resting
           [] OTHER -> FALSE
Done == CASE subject = "control" -> \A o \in Ops : ControlTaken(o)
          [] subject = "batch" -> B!IsOver(b1)
          [] subject = "operation" -> O!Resting
          [] OTHER -> TRUE
EverythingEnds == (Begun ~> Done) /\ B!CancelHeard
=============================================================================
