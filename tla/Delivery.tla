------------------------------ MODULE Delivery ------------------------------
(***************************************************************************)
(* From a committed row of the outbox to its effect: the relay processes   *)
(* claim rows and publish them to Kafka, the consumers of the same         *)
(* processes handle one record at a time behind the inbox's markers, and a *)
(* sweep starts what no event has started.  The first loop of a process    *)
(* that fails stops the whole process; its transactions roll back and the  *)
(* supervisor starts it again.                                             *)
(*                                                                         *)
(* One project (one partition per topic).  Events stand for three kinds of *)
(* effect: "confirmed" starts a workflow, "control" signals it, "audit"    *)
(* writes a row in the transaction of the marker.                          *)
(***************************************************************************)
EXTENDS Naturals, Sequences, FiniteSets

CONSTANTS
    Ops,            \* operations of the project
    Processes,      \* relay processes
    Cancels,        \* operations that a user asks to cancel
    MaxCrashes,     \* bound: processes that die for a reason of their own
    MaxRepeats,     \* bound: publications whose acknowledgement is lost
    MaxTakeovers    \* bound: partitions handed over while they are served

ASSUME DeliveryConstants ==
    /\ Cancels \subseteq Ops
    /\ Processes \cap {"none", "done", "expired"} = {}
    /\ MaxCrashes \in Nat /\ MaxRepeats \in Nat /\ MaxTakeovers \in Nat

VARIABLES
    operation,  \* [Ops -> state of the operation row]
    workflow,   \* [Ops -> the Temporal execution operation/<id>]
    starts,     \* [Ops -> number of executions that Temporal has started]
    outbox,     \* [Events -> state of the outbox row]
    created,    \* the events in the order of their create_time
    relay,      \* [Processes -> the row claimed by the outbox loop]
    topic,      \* [Topics -> the records of the partition]
    owner,      \* [Loops -> the process that holds the group's partitions]
    committed,  \* [Topics -> offset committed by the group]
    loop,       \* [Processes -> [Loops -> the record being handled]]
    marker,     \* [Events -> infra.processed_event]
    audited,    \* [Events -> rows of audit.audit_log]
    signalled,  \* operations whose workflow got the cancel signal
    listed,     \* [Processes -> operations the sweep goes on to start]
    crashes, repeats, takeovers     \* counters of the bounds

world == <<operation, workflow, starts, signalled>>
consumers == <<owner, committed, loop, marker, audited>>
counters == <<crashes, repeats, takeovers>>
vars == <<world, outbox, created, relay, topic, consumers, listed, counters>>

Topics == {"confirmed", "control", "audit"}
Loops == {"starter", "audit"}
Subscribed(l) == IF l = "starter" THEN {"confirmed", "control"} ELSE {"audit"}

Events == [op : Ops, topic : Topics]
Event(o, t) == [op |-> o, topic |-> t]

NoEvent == [op |-> "none", topic |-> "none"]
FreeRelay == [pc |-> "idle", event |-> NoEvent]
FreeLoop == [pc |-> "idle", event |-> NoEvent, eligible |-> FALSE]

Published(e) == \E i \in DOMAIN topic[e.topic] : topic[e.topic][i] = e

-----------------------------------------------------------------------------
(* Rows of the outbox are written with the change they announce. *)

Write(S, order) ==
    /\ outbox' = [e \in Events |-> IF e \in S THEN "pending" ELSE outbox[e]]
    /\ created' = created \o order

Confirm(o) ==
    /\ operation[o] = "quoted"
    /\ operation' = [operation EXCEPT ![o] = "confirmed"]
    /\ Write({Event(o, "confirmed"), Event(o, "audit")}, <<Event(o, "confirmed"), Event(o, "audit")>>)
    /\ UNCHANGED <<workflow, starts, signalled, relay, topic, consumers, listed, counters>>

(* CancelOperation accepts a request for an operation that still runs. *)
RequestCancel(o) ==
    /\ o \in Cancels /\ operation[o] \in {"confirmed", "running"}
    /\ outbox[Event(o, "control")] = "absent"
    /\ Write({Event(o, "control")}, <<Event(o, "control")>>)
    /\ UNCHANGED <<world, relay, topic, consumers, listed, counters>>

-----------------------------------------------------------------------------
(* A process stops: PostgreSQL rolls back its transactions, so its claim and *)
(* its uncommitted markers are gone.  A record it published is not.          *)
Held(p) == {e \in Events : marker[e] = p}

KeepMarkers(p) == UNCHANGED marker
RollBack(p) == marker' = [e \in Events |-> IF e \in Held(p) THEN "none" ELSE marker[e]]

Stop(p) ==
    /\ IF relay[p].pc = "sent" THEN repeats < MaxRepeats /\ repeats' = repeats + 1
                               ELSE UNCHANGED repeats
    /\ relay' = [relay EXCEPT ![p] = FreeRelay]
    /\ loop' = [loop EXCEPT ![p] = [l \in Loops |-> FreeLoop]]
    /\ listed' = [listed EXCEPT ![p] = {}]
    /\ RollBack(p)

Busy(p) == relay[p].pc # "idle" \/ listed[p] # {} \/ \E l \in Loops : loop[p][l].pc # "idle"

(* At any time, for a reason of its own: a lost connection, a deadline (10 s *)
(* for a delivery), a kill.                                                  *)
Crash(p) ==
    /\ Busy(p) /\ crashes < MaxCrashes
    /\ crashes' = crashes + 1
    /\ Stop(p)
    /\ UNCHANGED <<world, outbox, created, topic, owner, committed, audited, takeovers>>

-----------------------------------------------------------------------------
(* The outbox loop *)

Claimed == {relay[p].event : p \in Processes} \ {NoEvent}

(* WithNext: the oldest pending row that no other relay holds. *)
Claim(p) ==
    /\ relay[p].pc = "idle"
    /\ \E i \in DOMAIN created :
          /\ outbox[created[i]] = "pending" /\ created[i] \notin Claimed
          /\ \A j \in 1 .. i - 1 : outbox[created[j]] # "pending" \/ created[j] \in Claimed
          /\ relay' = [relay EXCEPT ![p] = [pc |-> "claimed", event |-> created[i]]]
    /\ UNCHANGED <<world, outbox, created, topic, consumers, listed, counters>>

(* Publish: the broker has the record. *)
Publish(p) ==
    /\ relay[p].pc = "claimed"
    /\ topic' = [topic EXCEPT ![relay[p].event.topic] = Append(@, relay[p].event)]
    /\ relay' = [relay EXCEPT ![p].pc = "sent"]
    /\ UNCHANGED <<world, outbox, created, consumers, listed, counters>>

(* The commit that marks the row as published; a Crash before it leaves the  *)
(* row pending, and the event is published again.                            *)
Acknowledge(p) ==
    /\ relay[p].pc = "sent"
    /\ outbox' = [outbox EXCEPT ![relay[p].event] = "published"]
    /\ relay' = [relay EXCEPT ![p] = FreeRelay]
    /\ UNCHANGED <<world, created, topic, consumers, listed, counters>>

PruneUnpublished == {e \in Events : outbox[e] \in {"pending", "published"} /\ e \notin Claimed}

(* PrunePublished: published seven days ago; locked rows are skipped. *)
Prunable == {e \in Events : outbox[e] = "published" /\ e \notin Claimed}
PrunePublished(e) ==
    /\ e \in Prunable
    /\ outbox' = [outbox EXCEPT ![e] = "pruned"]
    /\ UNCHANGED <<world, created, relay, topic, consumers, listed, counters>>

-----------------------------------------------------------------------------
(* The consumers *)

SkipAhead(p, l) ==
    /\ owner[l] = p /\ loop[p][l].pc = "idle"
    /\ \E t \in Subscribed(l) :
          /\ committed[t] < Len(topic[t])
          /\ committed' = [committed EXCEPT ![t] = @ + 1]
          /\ loop' = [loop EXCEPT ![p][l] = [pc |-> "fetched", event |-> topic[t][committed[t] + 1],
                                             eligible |-> FALSE]]
    /\ UNCHANGED <<world, outbox, created, relay, topic, owner, marker, audited, listed, counters>>

(* PollRecords(ctx, 1): the next record of any subscribed topic. *)
Fetch(p, l) ==
    /\ owner[l] = p /\ loop[p][l].pc = "idle"
    /\ \E t \in Subscribed(l) :
          /\ committed[t] < Len(topic[t])
          /\ loop' = [loop EXCEPT ![p][l] = [pc |-> "fetched", event |-> topic[t][committed[t] + 1],
                                             eligible |-> FALSE]]
    /\ UNCHANGED <<world, outbox, created, relay, topic, owner, committed, marker, audited, listed, counters>>

(* The group gives the partitions to another process while a record is       *)
(* handled (a missed heartbeat); the old one learns it when it commits.      *)
TakeOver(p, l) ==
    /\ owner[l] # p /\ loop[p][l].pc = "idle" /\ takeovers < MaxTakeovers
    /\ owner' = [owner EXCEPT ![l] = p]
    /\ takeovers' = takeovers + 1
    /\ UNCHANGED <<world, outbox, created, relay, topic, committed, loop, marker, audited, listed, crashes, repeats>>

ReadMarkerOnly(p, l) ==
    /\ loop[p][l].pc = "fetched"
    /\ loop' = [loop EXCEPT ![p][l].pc = IF marker[loop[p][l].event] = "done" THEN "handled" ELSE "marked"]
    /\ UNCHANGED <<world, outbox, created, relay, topic, owner, committed, marker, audited, listed, counters>>

(* ProcessOnce inserts the marker first: it waits for a transaction that     *)
(* holds the same one, and does nothing when the event has been processed.   *)
InsertMarker(p, l) ==
    /\ loop[p][l].pc = "fetched"
    /\ LET e == loop[p][l].event IN
       \/ /\ marker[e] = "none"
          /\ marker' = [marker EXCEPT ![e] = p]
          /\ loop' = [loop EXCEPT ![p][l].pc = "marked"]
       \/ /\ marker[e] = "done"
          /\ loop' = [loop EXCEPT ![p][l].pc = "handled"]
          /\ UNCHANGED marker
    /\ UNCHANGED <<world, outbox, created, relay, topic, owner, committed, audited, listed, counters>>

(* ConfirmedSingle and CanDeliverWorkflowControl: what the database says     *)
(* before Temporal is called.                                                *)
Eligible(e) == IF e.topic = "confirmed" THEN operation[e.op] = "confirmed" ELSE operation[e.op] # "ended"

Check(p, l) ==
    /\ l = "starter" /\ loop[p][l].pc = "marked"
    /\ loop' = [loop EXCEPT ![p][l].pc = "checked", ![p][l].eligible = Eligible(loop[p][l].event)]
    /\ UNCHANGED <<world, outbox, created, relay, topic, owner, committed, marker, audited, listed, counters>>

StartAgainWhenClosed(o) ==
    IF workflow[o] # "open"
    THEN workflow' = [workflow EXCEPT ![o] = "open"] /\ starts' = [starts EXCEPT ![o] = @ + 1]
    ELSE UNCHANGED <<workflow, starts>>

(* ExecuteWorkflow under the workflow ID of the operation: an execution that *)
(* runs or has run is left alone (REJECT_DUPLICATE).                         *)
StartOperation(o) ==
    IF workflow[o] = "none"
    THEN workflow' = [workflow EXCEPT ![o] = "open"] /\ starts' = [starts EXCEPT ![o] = @ + 1]
    ELSE UNCHANGED <<workflow, starts>>

(* The handler's call to Temporal.  A signal for an execution that does not  *)
(* run is an error, which stops the process.                                 *)
Call(p) ==
    LET e == loop[p]["starter"].event
        handled == loop' = [loop EXCEPT ![p]["starter"].pc = "effected"]
    IN
    /\ loop[p]["starter"].pc = "checked"
    /\ \/ /\ ~loop[p]["starter"].eligible
          /\ handled
          /\ UNCHANGED <<world, relay, listed, marker, repeats>>
       \/ /\ loop[p]["starter"].eligible /\ e.topic = "confirmed"
          /\ StartOperation(e.op)
          /\ handled
          /\ UNCHANGED <<operation, signalled, relay, listed, marker, repeats>>
       \/ /\ loop[p]["starter"].eligible /\ e.topic = "control" /\ workflow[e.op] = "open"
          /\ signalled' = signalled \cup {e.op}
          /\ handled
          /\ UNCHANGED <<operation, workflow, starts, relay, listed, marker, repeats>>
       \/ /\ loop[p]["starter"].eligible /\ e.topic = "control" /\ workflow[e.op] # "open"
          /\ Stop(p)
          /\ UNCHANGED world
    /\ UNCHANGED <<outbox, created, topic, owner, committed, audited, crashes, takeovers>>

(* The transaction commits: the marker, and for an audit event its row. *)
CommitMarker(p, l) ==
    /\ \/ loop[p][l].pc = "effected"
       \/ l = "audit" /\ loop[p][l].pc = "marked"
    /\ marker' = [marker EXCEPT ![loop[p][l].event] = "done"]
    /\ audited' = IF l = "audit" THEN [audited EXCEPT ![loop[p][l].event] = @ + 1] ELSE audited
    /\ loop' = [loop EXCEPT ![p][l].pc = "handled"]
    /\ UNCHANGED <<world, outbox, created, relay, topic, owner, committed, listed, counters>>

(* CommitRecords: only the owner of the partition may move its offset; for   *)
(* another process the error ends the loop.                                  *)
CommitOffset(p, l) ==
    /\ loop[p][l].pc = "handled"
    /\ LET t == loop[p][l].event.topic IN
       \/ /\ owner[l] = p
          /\ committed' = [committed EXCEPT ![t] = @ + 1]
          /\ loop' = [loop EXCEPT ![p][l] = FreeLoop]
          /\ UNCHANGED <<relay, listed, marker, repeats>>
       \/ /\ owner[l] # p
          /\ Stop(p)
          /\ UNCHANGED committed
    /\ UNCHANGED <<world, outbox, created, topic, owner, audited, crashes, takeovers>>

(* PruneExpired: thirty days old, which is longer than a row stays pending   *)
(* or a record unread.                                                       *)
PruneExpired(e) ==
    /\ marker[e] = "done"
    /\ outbox[e] \in {"published", "pruned"}
    /\ \A i \in DOMAIN topic[e.topic] : topic[e.topic][i] = e => i <= committed[e.topic]
    /\ \A p \in Processes, l \in Loops : loop[p][l].event # e
    /\ marker' = [marker EXCEPT ![e] = "expired"]
    /\ UNCHANGED <<world, outbox, created, relay, topic, owner, committed, loop, audited, listed, counters>>

-----------------------------------------------------------------------------
StaleRunning == {o \in Ops : operation[o] = "running"}

(* The sweep: what has been confirmed for two minutes, read page by page     *)
(* before the first start.                                                   *)
StaleConfirmed == {o \in Ops : operation[o] = "confirmed"}
SweepList(p) ==
    /\ listed[p] = {} /\ StaleConfirmed # {}
    /\ listed' = [listed EXCEPT ![p] = StaleConfirmed]
    /\ UNCHANGED <<world, outbox, created, relay, topic, consumers, counters>>

SweepStart(p) ==
    \E o \in listed[p] :
        /\ StartOperation(o)
        /\ listed' = [listed EXCEPT ![p] = @ \ {o}]
        /\ UNCHANGED <<operation, signalled, outbox, created, relay, topic, consumers, counters>>

-----------------------------------------------------------------------------
(* The workflow of an operation: it begins to run, and closes once it has    *)
(* ended the operation.                                                      *)
Run(o) ==
    /\ workflow[o] = "open" /\ operation[o] = "confirmed"
    /\ operation' = [operation EXCEPT ![o] = "running"]
    /\ UNCHANGED <<workflow, starts, signalled, outbox, created, relay, topic, consumers, listed, counters>>

EndOperation(o) ==
    /\ workflow[o] = "open" /\ operation[o] = "running"
    /\ operation' = [operation EXCEPT ![o] = "ended"]
    /\ UNCHANGED <<workflow, starts, signalled, outbox, created, relay, topic, consumers, listed, counters>>

CloseWorkflow(o) ==
    /\ workflow[o] = "open" /\ operation[o] = "ended"
    /\ workflow' = [workflow EXCEPT ![o] = "closed"]
    /\ UNCHANGED <<operation, starts, signalled, outbox, created, relay, topic, consumers, listed, counters>>

-----------------------------------------------------------------------------
Init ==
    /\ operation = [o \in Ops |-> "quoted"] /\ workflow = [o \in Ops |-> "none"]
    /\ starts = [o \in Ops |-> 0] /\ signalled = {}
    /\ outbox = [e \in Events |-> "absent"] /\ created = <<>>
    /\ relay = [p \in Processes |-> FreeRelay]
    /\ topic = [t \in Topics |-> <<>>]
    /\ owner \in [Loops -> Processes]
    /\ committed = [t \in Topics |-> 0]
    /\ loop = [p \in Processes |-> [l \in Loops |-> FreeLoop]]
    /\ marker = [e \in Events |-> "none"] /\ audited = [e \in Events |-> 0]
    /\ listed = [p \in Processes |-> {}]
    /\ crashes = 0 /\ repeats = 0 /\ takeovers = 0

OutboxLoop(p) == Claim(p) \/ Publish(p) \/ Acknowledge(p)
Consume(p, l) == Fetch(p, l) \/ InsertMarker(p, l) \/ Check(p, l) \/ CommitMarker(p, l) \/ CommitOffset(p, l)
SweepLoop(p) == SweepList(p) \/ SweepStart(p)
Workflow(o) == Run(o) \/ EndOperation(o) \/ CloseWorkflow(o)

Next ==
    \/ \E o \in Ops : Confirm(o) \/ RequestCancel(o) \/ Workflow(o)
    \/ \E p \in Processes : OutboxLoop(p) \/ Call(p) \/ SweepLoop(p) \/ Crash(p)
    \/ \E p \in Processes, l \in Loops : Consume(p, l) \/ TakeOver(p, l)
    \/ \E e \in Events : PrunePublished(e) \/ PruneExpired(e)

Spec == Init /\ [][Next]_vars

(* The loops go on.  A process that a failing signal stops again and again   *)
(* comes up with its sweep at once, and not every start of the sweep is cut  *)
(* off.                                                                      *)
FairSpec ==
    /\ Spec
    /\ \A p \in Processes :
          /\ WF_vars(OutboxLoop(p)) /\ WF_vars(Call(p))
          /\ WF_vars(SweepList(p)) /\ SF_vars(SweepStart(p))
          /\ \A l \in Loops : WF_vars(Consume(p, l))
    /\ \A o \in Ops : WF_vars(Workflow(o))

-----------------------------------------------------------------------------
(* PROPERTIES *)

TypeOK ==
    /\ operation \in [Ops -> {"quoted", "confirmed", "running", "ended"}]
    /\ workflow \in [Ops -> {"none", "open", "closed"}]
    /\ starts \in [Ops -> Nat] /\ signalled \subseteq Ops
    /\ outbox \in [Events -> {"absent", "pending", "published", "pruned"}]
    /\ created \in Seq(Events) /\ topic \in [Topics -> Seq(Events)]
    /\ relay \in [Processes -> [pc : {"idle", "claimed", "sent"}, event : Events \cup {NoEvent}]]
    /\ owner \in [Loops -> Processes]
    /\ committed \in [Topics -> Nat] /\ \A t \in Topics : committed[t] <= Len(topic[t])
    /\ loop \in [Processes -> [Loops -> [pc : {"idle", "fetched", "marked", "checked", "effected", "handled"},
                                         event : Events \cup {NoEvent}, eligible : BOOLEAN]]]
    /\ marker \in [Events -> {"none", "done", "expired"} \cup Processes]
    /\ audited \in [Events -> Nat] /\ listed \in [Processes -> SUBSET Ops]

(* An offset is committed only over records whose event has been processed:  *)
(* no crash, takeover or restart makes a group jump over an event ("commits  *)
(* only after handling").                                                    *)
NothingSkipped ==
    \A t \in Topics : \A i \in 1 .. committed[t] : marker[topic[t][i]] \in {"done", "expired"}

(* Rows leave the outbox only when the broker has their record.              *)
NothingLost == \A e \in Events : outbox[e] \in {"published", "pruned"} => Published(e)

(* However often a confirmation is delivered, and whatever the sweep starts  *)
(* in parallel or too late, an operation has one execution, and only an      *)
(* operation that was confirmed has one.                                     *)
StartedOnce == \A o \in Ops : starts[o] <= 1 /\ (starts[o] = 1 => operation[o] # "quoted")

(* No offset is committed over a record whose event has not been processed, *)
(* and however often a confirmation is delivered, whatever the sweep starts *)
(* meanwhile, an operation is started once.                                 *)
DeliveredOnce == NothingSkipped /\ StartedOnce

(* An event's effect in the database takes place once.                       *)
AuditedOnce == \A e \in Events : audited[e] <= 1

(* What the audit trail implements. *)
AuditEvents == {e \in Events : e.topic = "audit"}
EO == INSTANCE ExactlyOnce WITH
         Events <- AuditEvents,
         sent <- {e \in AuditEvents : outbox[e] # "absent"},
         effect <- [e \in AuditEvents |-> audited[e]]

(* A request to cancel an operation reaches its workflow or comes too late,  *)
(* also when its record overtakes the start and stops the process again and  *)
(* again.                                                                    *)
ControlPending(o) == outbox[Event(o, "control")] = "pending"
ControlTaken(o) == o \in signalled \/ operation[o] = "ended"
ControlDelivered == \A o \in Ops : ControlPending(o) ~> ControlTaken(o)
=============================================================================
