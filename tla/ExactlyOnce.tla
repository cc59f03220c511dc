---------------------------- MODULE ExactlyOnce ----------------------------
(***************************************************************************)
(* What the outbox and the inbox promise together: the effect of a         *)
(* committed event takes place once, whatever is delivered twice or dies   *)
(* in between.                                                             *)
(***************************************************************************)
EXTENDS Naturals

CONSTANT Events

VARIABLES
    sent,       \* events whose transaction has committed
    effect      \* how often the effect of an event has taken place

vars == <<sent, effect>>

Init ==
    /\ sent = {}
    /\ effect = [e \in Events |-> 0]

Send(S) ==
    /\ S # {} /\ S \subseteq Events \ sent
    /\ sent' = sent \cup S
    /\ UNCHANGED effect

Take(e) ==
    /\ e \in sent /\ effect[e] = 0
    /\ effect' = [effect EXCEPT ![e] = 1]
    /\ UNCHANGED sent

Next ==
    \/ \E S \in SUBSET Events : Send(S)
    \/ \E e \in Events : Take(e)

Spec == Init /\ [][Next]_vars /\ \A e \in Events : WF_vars(Take(e))
=============================================================================
