---------------------------- MODULE PhysicalWork ----------------------------
(***************************************************************************)
(* What every long job of the media library promises about the process     *)
(* that does its physical work: one process at a time, a new one only when *)
(* the last is known to have stopped, and none after the job is settled.   *)
(* A process that disappears without a word keeps its place.               *)
(***************************************************************************)
VARIABLES
    holders,    \* the processes that may be acting on the job's objects
    settled     \* the job has its final result

Init == holders = {} /\ settled = FALSE

Begin == /\ holders = {} /\ ~settled
         /\ \E p \in holders' : holders' = {p}
         /\ UNCHANGED settled

(* The process stops; its last act may be the job's final result. *)
End == holders # {} /\ holders' = {} /\ (UNCHANGED settled \/ (~settled /\ settled' = TRUE))

Settle == holders = {} /\ ~settled /\ settled' = TRUE /\ UNCHANGED holders

Next == Begin \/ End \/ Settle

Spec == Init /\ [][Next]_<<holders, settled>>
=============================================================================
