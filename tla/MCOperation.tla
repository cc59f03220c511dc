---------------------------- MODULE MCOperation ----------------------------
(***************************************************************************)
(* Operation on small instances, and the delivery of the events that start *)
(* and control it.  The two share no state: a behaviour moves only one,    *)
(* its "subject".  Two submit attempts, two attempts of a query and two    *)
(* queries of a reconciliation stand for 3, 10 and 6: every counter still  *)
(* has a first, a further and an exhausted value.                          *)
(***************************************************************************)
EXTENDS Operation, TLC

CONSTANTS Ops, Processes, Cancels, MaxCrashes, MaxRepeats, MaxTakeovers

VARIABLES subject, operation, workflow, starts, outbox, created, relay, topic, owner,
          committed, loop, marker, audited, signalled, listed, crashes, repeats, takeovers

deliveryVars == <<operation, workflow, starts, outbox, created, relay, topic, owner,
                  committed, loop, marker, audited, signalled, listed, crashes, repeats,
                  takeovers>>

D == INSTANCE Delivery

MCInit ==
  /\ Init /\ D!Init /\ subject \in {"operation", "delivery"}
  /\ op.reused => subject = "operation"
  /\ subject = "operation" => owner["starter"] = owner["audit"]

(* Bound: two faults of the delivery, of whatever kinds. *)
TwoFaults == crashes + repeats + takeovers <= 2

MCNext ==
  /\ UNCHANGED subject
  /\ \/ subject = "operation" /\ Next /\ UNCHANGED deliveryVars
     \/ subject = "delivery" /\ D!Next /\ TwoFaults' /\ UNCHANGED vars

MCSpec == MCInit /\ [][MCNext]_<<subject, vars, deliveryVars>>

Interchangeable == Permutations(Processes)

(* Two relay processes hand partitions over, crash and repeat themselves,   *)
(* and no event is jumped over, no operation is started twice.              *)
DeliveredOnce == D!DeliveredOnce
=============================================================================
