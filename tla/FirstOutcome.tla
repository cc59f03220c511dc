---------------------------- MODULE FirstOutcome ----------------------------
(***************************************************************************)
(* What an idempotent command promises: the first committed outcome of a   *)
(* request key is final, and whoever asks again with the same body hears   *)
(* that outcome.  A key that arrives with another body is told so and      *)
(* changes nothing.                                                        *)
(***************************************************************************)
CONSTANTS
    Keys,       \* request keys
    Outcomes,   \* records with a body and an answer
    NoOutcome   \* the key has not been used

VARIABLES
    outcome,    \* [Keys -> the body and the answer of the first outcome]
    told        \* the set of <<key, body, answer>> that clients have heard

vars == <<outcome, told>>

Init ==
    /\ outcome = [k \in Keys |-> NoOutcome]
    /\ told = {}

(* The first attempt that commits decides for the key. *)
Decide(k) ==
    /\ outcome[k] = NoOutcome
    /\ \E o \in Outcomes :
          /\ outcome' = [outcome EXCEPT ![k] = o]
          /\ told' \in {told, told \cup {<<k, o.body, o.answer>>}}

(* Every later attempt with that body hears what was decided. *)
Repeat(k) ==
    /\ outcome[k] # NoOutcome
    /\ told' = told \cup {<<k, outcome[k].body, outcome[k].answer>>}
    /\ UNCHANGED outcome

Next == \E k \in Keys : Decide(k) \/ Repeat(k)

Spec == Init /\ [][Next]_vars
=============================================================================
