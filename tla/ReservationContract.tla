------------------------ MODULE ReservationContract ------------------------
(***************************************************************************)
(* What the operation context promises the billing context about one       *)
(* reservation: it is closed once, and never while a paid request may have *)
(* run at the provider and nobody has established what became of it.       *)
(***************************************************************************)
VARIABLES
  reservation,  \* "held" until the settlement, then "closed"
  exposure      \* what the provider calls say: "none", "possible", "vouched"
                \* (an administrator says it did not run) or "established"

vars == <<reservation, exposure>>

Init == reservation = "held" /\ exposure = "none"

(* A submit call is about to be dispatched. *)
Expose ==
  /\ reservation = "held" /\ exposure = "none"
  /\ exposure' = "possible"
  /\ UNCHANGED reservation

(* The provider refused the call: nothing ran. *)
Withdraw ==
  /\ exposure = "possible"
  /\ exposure' = "none"
  /\ UNCHANGED reservation

(* A query or a cancellation told how the task ended. *)
Establish ==
  /\ reservation = "held" /\ exposure \in {"possible", "vouched"}
  /\ exposure' = "established"
  /\ UNCHANGED reservation

Vouch ==
  /\ reservation = "held" /\ exposure = "possible"
  /\ exposure' = "vouched"
  /\ UNCHANGED reservation

Close ==
  /\ reservation = "held" /\ exposure # "possible"
  /\ reservation' = "closed"
  /\ UNCHANGED exposure

Next == Expose \/ Withdraw \/ Establish \/ Vouch \/ Close

Spec == Init /\ [][Next]_vars
=============================================================================
