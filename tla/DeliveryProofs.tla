--------------------------- MODULE DeliveryProofs ---------------------------
(* Theorems about the outbox, the relays and the consumers for every set   *)
(* of operations and processes, and for every number of crashes, repeated  *)
(* publications and takeovers.                                             *)
EXTENDS Delivery, TLAPS

-----------------------------------------------------------------------------
LoopState ==
    [pc : {"idle", "fetched", "marked", "checked", "effected", "handled"},
     event : Events \cup {NoEvent}, eligible : BOOLEAN]

RelayState == [pc : {"idle", "claimed", "sent"}, event : Events \cup {NoEvent}]

Processed == {"done", "expired"}

(* What is written is known: a record of the broker, a claimed row and an   *)
(* entry of the order of creation belong to a row of the outbox, and a      *)
(* quoted operation has written none.                                       *)
Records ==
    \A t \in Topics : \A i \in DOMAIN topic[t] :
        topic[t][i].topic = t /\ outbox[topic[t][i]] # "absent"

Claims ==
    \A p \in Processes : relay[p].pc # "idle" =>
        /\ relay[p].event \in Events /\ outbox[relay[p].event] # "absent"
        /\ relay[p].pc = "sent" => Published(relay[p].event)

Creations == \A i \in DOMAIN created : outbox[created[i]] # "absent"

Unwritten ==
    \A o \in Ops : operation[o] = "quoted" =>
        outbox[Event(o, "confirmed")] = "absent" /\ outbox[Event(o, "audit")] = "absent"

Written == Records /\ Claims /\ Creations /\ Unwritten /\ NothingLost

(* What a loop handles is a published record of its topics, and the record  *)
(* at the committed offset as long as its process owns the partitions.      *)
Reads(p, l) ==
    LET e == loop[p][l].event IN
    loop[p][l].pc # "idle" =>
        /\ e \in Events /\ e.topic \in Subscribed(l) /\ Published(e)
        /\ owner[l] = p => /\ committed[e.topic] < Len(topic[e.topic])
                           /\ topic[e.topic][committed[e.topic] + 1] = e

Reading == \A p \in Processes, l \in Loops : Reads(p, l)

(* A loop beyond its marker holds it until it has committed it. *)
Marks(p, l) ==
    /\ loop[p][l].pc \in {"marked", "checked", "effected"} => marker[loop[p][l].event] = p
    /\ loop[p][l].pc = "handled" => marker[loop[p][l].event] \in Processed

Marking == \A p \in Processes, l \in Loops : Marks(p, l)

(* The audit row is written by the transaction of the marker. *)
Auditing ==
    \A e \in Events :
        audited[e] = IF e.topic = "audit" /\ marker[e] \in Processed THEN 1 ELSE 0

(* Whatever is about to be started has been confirmed. *)
Starting ==
    /\ \A o \in Ops : /\ starts[o] = IF workflow[o] = "none" THEN 0 ELSE 1
                      /\ workflow[o] # "none" => operation[o] # "quoted"
    /\ \A p \in Processes :
          /\ \A o \in listed[p] : operation[o] # "quoted"
          /\ LET r == loop[p]["starter"] IN
             r.pc = "checked" /\ r.eligible /\ r.event.topic = "confirmed"
                => operation[r.event.op] # "quoted"

Inv ==
    /\ TypeOK /\ Written /\ Reading /\ Marking /\ Auditing /\ Starting
    /\ NothingSkipped

-----------------------------------------------------------------------------
(* The parts of the type that the leaves below need. *)
LEMMA Typed ==
    ASSUME Inv
    PROVE  /\ \A p \in Processes, l \in Loops : loop[p][l] \in LoopState
           /\ \A p \in Processes : relay[p] \in RelayState
           /\ \A t \in Topics : /\ topic[t] \in Seq(Events) /\ Len(topic[t]) \in Nat
                                /\ committed[t] \in Nat /\ committed[t] <= Len(topic[t])
                                /\ DOMAIN topic[t] = 1 .. Len(topic[t])
    BY DEF Inv, TypeOK, LoopState, RelayState

LEMMA EventTopic ==
    /\ \A e \in Events : e.topic \in Topics /\ e.op \in Ops
    /\ NoEvent \notin Events
    /\ \A o \in Ops, t \in Topics : Event(o, t) \in Events /\ Event(o, t).topic = t
    BY DEF Events, Event, NoEvent, Topics

LEMMA Names ==
    ASSUME NEW p \in Processes
    PROVE  p \notin {"none", "done", "expired"}
    BY DeliveryConstants

LEMMA InvInit == Init => Inv
<1> SUFFICES ASSUME Init PROVE Inv
    OBVIOUS
<1>1. TypeOK
    BY DEF Init, TypeOK, FreeRelay, FreeLoop
<1>2. Written
  <2>1. Records /\ Creations
    BY DEF Init, Records, Creations
  <2>2. Claims
    BY DEF Init, Claims, FreeRelay
  <2>3. Unwritten
    BY EventTopic DEF Init, Unwritten, Topics
  <2>4. NothingLost
    BY DEF Init, NothingLost
  <2>5. QED
    BY <2>1, <2>2, <2>3, <2>4 DEF Written
<1>3. Reading /\ Marking
    BY DEF Init, Reading, Reads, Marking, Marks, FreeLoop
<1>4. Auditing /\ Starting
    BY DEF Init, Auditing, Starting, Processed, FreeLoop, Loops
<1>5. NothingSkipped
    BY DEF Init, NothingSkipped
<1>6. QED
    BY <1>1, <1>2, <1>3, <1>4, <1>5 DEF Inv

-----------------------------------------------------------------------------
(* A process that stops keeps no record, no claim and no marker.            *)
LEMMA StopEffect ==
    ASSUME Inv, NEW p \in Processes, Stop(p)
    PROVE  /\ relay' = [relay EXCEPT ![p] = FreeRelay]
           /\ loop' = [loop EXCEPT ![p] = [l \in Loops |-> FreeLoop]]
           /\ listed' = [listed EXCEPT ![p] = {}]
           /\ marker' \in [Events -> {"none", "done", "expired"} \cup Processes]
           /\ \A e \in Events : marker'[e] = IF marker[e] = p THEN "none" ELSE marker[e]
           /\ \A q \in Processes \ {p} : /\ relay'[q] = relay[q] /\ loop'[q] = loop[q]
                                         /\ listed'[q] = listed[q]
           /\ relay'[p] = FreeRelay /\ listed'[p] = {}
           /\ \A l \in Loops : loop'[p][l] = FreeLoop
    BY DEF Stop, RollBack, Held, Inv, TypeOK

LEMMA StopTyped ==
    ASSUME Inv, NEW p \in Processes, Stop(p)
    PROVE  /\ relay' \in [Processes -> RelayState]
           /\ loop' \in [Processes -> [Loops -> LoopState]]
           /\ listed' \in [Processes -> SUBSET Ops]
<1>1. FreeRelay \in RelayState /\ FreeLoop \in LoopState
    BY DEF FreeRelay, FreeLoop, RelayState, LoopState
<1>2. /\ relay \in [Processes -> RelayState] /\ loop \in [Processes -> [Loops -> LoopState]]
      /\ listed \in [Processes -> SUBSET Ops]
    BY DEF Inv, TypeOK, RelayState, LoopState
<1>3. [l \in Loops |-> FreeLoop] \in [Loops -> LoopState]
    BY <1>1
<1>4. /\ relay' = [relay EXCEPT ![p] = FreeRelay]
      /\ loop' = [loop EXCEPT ![p] = [l \in Loops |-> FreeLoop]]
      /\ listed' = [listed EXCEPT ![p] = {}]
    BY StopEffect
<1>5. relay' \in [Processes -> RelayState] /\ listed' \in [Processes -> SUBSET Ops]
    BY <1>1, <1>2, <1>4
<1>6. loop' \in [Processes -> [Loops -> LoopState]]
  <2> DEFINE f == [l \in Loops |-> FreeLoop]
             F == [Loops -> LoopState]
  <2>1. f \in F /\ loop \in [Processes -> F] /\ loop' = [loop EXCEPT ![p] = f]
    BY <1>2, <1>3, <1>4
  <2> HIDE DEF f, F
  <2>2. loop' \in [Processes -> F]
    BY <2>1
  <2>3. QED
    BY <2>2 DEF F
<1>7. QED
    BY <1>5, <1>6

(* A step of one loop. *)
LEMMA LoopStep ==
    ASSUME Inv, NEW p \in Processes, NEW l \in Loops, NEW r \in LoopState,
           loop' = [loop EXCEPT ![p][l] = r]
    PROVE  /\ loop' \in [Processes -> [Loops -> LoopState]]
           /\ loop'[p][l] = r
           /\ \A q \in Processes, m \in Loops : q # p \/ m # l => loop'[q][m] = loop[q][m]
    BY DEF Inv, TypeOK, LoopState

(* Every record stays at its place; at most one is appended. *)
LEMMA PublishTopics ==
    ASSUME Inv, NEW p \in Processes, Publish(p)
    PROVE  /\ topic' \in [Topics -> Seq(Events)]
           /\ \A t \in Topics :
                 /\ Len(topic'[t]) \in Nat /\ Len(topic[t]) <= Len(topic'[t])
                 /\ DOMAIN topic'[t] = 1 .. Len(topic'[t])
                 /\ \A i \in 1 .. Len(topic[t]) : topic'[t][i] = topic[t][i]
                 /\ \A i \in DOMAIN topic'[t] : i \notin DOMAIN topic[t] =>
                       topic'[t][i] = relay[p].event /\ t = relay[p].event.topic
           /\ \E i \in DOMAIN topic'[relay[p].event.topic] :
                 topic'[relay[p].event.topic][i] = relay[p].event
<1> DEFINE e == relay[p].event
           u == relay[p].event.topic
<1>1. e \in Events /\ u \in Topics
    BY EventTopic DEF Publish, Inv, Written, Claims
<1>2. topic \in [Topics -> Seq(Events)]
    BY DEF Inv, TypeOK
<1>3. topic' = [topic EXCEPT ![u] = Append(@, e)]
    BY DEF Publish
<1> HIDE DEF e, u
<1>4. topic'[u] = Append(topic[u], e) /\ \A t \in Topics \ {u} : topic'[t] = topic[t]
    BY <1>1, <1>2, <1>3
<1>5. /\ Append(topic[u], e) \in Seq(Events) /\ Len(topic[u]) \in Nat
      /\ Len(Append(topic[u], e)) = Len(topic[u]) + 1
      /\ \A i \in 1 .. Len(topic[u]) : Append(topic[u], e)[i] = topic[u][i]
      /\ Append(topic[u], e)[Len(topic[u]) + 1] = e
    BY <1>1, <1>2
<1>6. topic' \in [Topics -> Seq(Events)]
    BY <1>1, <1>2, <1>3, <1>5
<1>7. \A t \in Topics : DOMAIN topic'[t] = 1 .. Len(topic'[t]) /\ Len(topic'[t]) \in Nat
    BY <1>6
<1>8. \A t \in Topics : DOMAIN topic[t] = 1 .. Len(topic[t]) /\ Len(topic[t]) \in Nat
    BY <1>2
<1>9. ASSUME NEW t \in Topics
      PROVE  /\ Len(topic[t]) <= Len(topic'[t])
             /\ \A i \in 1 .. Len(topic[t]) : topic'[t][i] = topic[t][i]
             /\ \A i \in DOMAIN topic'[t] : i \notin DOMAIN topic[t] => topic'[t][i] = e /\ t = u
  <2>1. CASE t = u
      BY <1>4, <1>5, <1>7, <1>8, <2>1
  <2>2. CASE t # u
      BY <1>4, <1>7, <1>8, <2>2
  <2>3. QED
      BY <2>1, <2>2
<1>10. \E i \in DOMAIN topic'[u] : topic'[u][i] = e
  <2>1. Len(topic[u]) + 1 \in DOMAIN topic'[u] /\ topic'[u][Len(topic[u]) + 1] = e
      BY <1>1, <1>4, <1>5, <1>7
  <2>2. QED
      BY <2>1
<1>11. QED
    BY <1>6, <1>7, <1>9, <1>10 DEF e, u

-----------------------------------------------------------------------------
(* Types. *)
LEMMA TypeNext ==
    ASSUME Inv, [Next]_vars
    PROVE  TypeOK'
<1> USE DEF world, consumers, counters
<1>1. ASSUME NEW o \in Ops, Confirm(o) \/ RequestCancel(o) PROVE TypeOK'
  <2>1. /\ Event(o, "confirmed") \in Events /\ Event(o, "audit") \in Events
        /\ Event(o, "control") \in Events
      BY EventTopic DEF Topics
  <2>2. created' \in Seq(Events)
    <3>1. PICK order \in Seq(Events) : created' = created \o order
      <4>1. /\ <<Event(o, "confirmed"), Event(o, "audit")>> \in Seq(Events)
            /\ <<Event(o, "control")>> \in Seq(Events)
          BY <2>1
      <4>2. \/ created' = created \o <<Event(o, "confirmed"), Event(o, "audit")>>
            \/ created' = created \o <<Event(o, "control")>>
          BY <1>1 DEF Confirm, RequestCancel, Write
      <4>3. QED
          BY <4>1, <4>2, Zenon
    <3>2. created \in Seq(Events)
        BY DEF Inv, TypeOK
    <3>3. QED
        BY <3>1, <3>2
  <2>3. outbox' \in [Events -> {"absent", "pending", "published", "pruned"}]
      BY <1>1 DEF Inv, TypeOK, Confirm, RequestCancel, Write
  <2>4. operation' \in [Ops -> {"quoted", "confirmed", "running", "ended"}]
      BY <1>1, ZenonT(40) DEF Inv, TypeOK, Confirm, RequestCancel
  <2>5. UNCHANGED <<workflow, starts, signalled, relay, topic, owner, committed, loop, marker,
                    audited, listed>>
      BY <1>1 DEF Confirm, RequestCancel
  <2>6. QED
      BY <2>2, <2>3, <2>4, <2>5 DEF Inv, TypeOK
<1>2. ASSUME NEW o \in Ops, Workflow(o) PROVE TypeOK'
    BY <1>2 DEF Inv, TypeOK, Workflow, Run, EndOperation, CloseWorkflow
<1>3. ASSUME NEW o \in Ops, StartOperation(o)
      PROVE  workflow' \in [Ops -> {"none", "open", "closed"}] /\ starts' \in [Ops -> Nat]
  <2>1. workflow \in [Ops -> {"none", "open", "closed"}] /\ starts \in [Ops -> Nat]
      BY DEF Inv, TypeOK
  <2>2. CASE workflow[o] = "none"
    <3>1. /\ workflow' = [workflow EXCEPT ![o] = "open"]
          /\ starts' = [starts EXCEPT ![o] = @ + 1]
        BY <1>3, <2>2 DEF StartOperation
    <3>2. QED
        BY <2>1, <3>1
  <2>3. CASE workflow[o] # "none"
      BY <1>3, <2>1, <2>3 DEF StartOperation
  <2>4. QED
      BY <2>2, <2>3
<1>4. ASSUME NEW p \in Processes, SweepLoop(p) PROVE TypeOK'
  <2>1. CASE SweepList(p)
      BY <2>1 DEF SweepList, StaleConfirmed, Inv, TypeOK
  <2>2. CASE SweepStart(p)
    <3>1. PICK o \in listed[p] :
             /\ StartOperation(o)
             /\ listed' = [listed EXCEPT ![p] = @ \ {o}]
             /\ UNCHANGED <<operation, signalled, outbox, created, relay, topic, consumers, counters>>
        BY <2>2 DEF SweepStart
    <3>2. o \in Ops
        BY DEF Inv, TypeOK
    <3>3. workflow' \in [Ops -> {"none", "open", "closed"}] /\ starts' \in [Ops -> Nat]
        BY <1>3, <3>1, <3>2
    <3>4. listed' \in [Processes -> SUBSET Ops]
        BY <3>1 DEF Inv, TypeOK
    <3>5. QED
        BY <3>1, <3>3, <3>4 DEF Inv, TypeOK
  <2>3. QED
      BY <1>4, <2>1, <2>2 DEF SweepLoop
<1>5. ASSUME NEW p \in Processes, OutboxLoop(p) PROVE TypeOK'
  <2>1. CASE Claim(p)
    <3>1. PICK i \in DOMAIN created :
                  relay' = [relay EXCEPT ![p] = [pc |-> "claimed", event |-> created[i]]]
        BY <2>1 DEF Claim
    <3>2. created[i] \in Events
        BY DEF Inv, TypeOK
    <3>3. QED
        BY <2>1, <3>1, <3>2 DEF Claim, Inv, TypeOK
  <2>2. CASE Publish(p)
    <3>1. /\ topic' \in [Topics -> Seq(Events)]
          /\ \A t \in Topics : Len(topic'[t]) \in Nat /\ Len(topic[t]) <= Len(topic'[t])
        BY <2>2, PublishTopics
    <3>2. committed' \in [Topics -> Nat] /\ \A t \in Topics : committed'[t] <= Len(topic'[t])
        BY <2>2, <3>1, Typed DEF Publish, Inv, TypeOK
    <3>3. relay' \in [Processes -> RelayState]
        BY <2>2, ZenonT(40) DEF Publish, Inv, TypeOK, RelayState
    <3>4. UNCHANGED <<operation, workflow, starts, signalled, outbox, created, owner, loop,
                      marker, audited, listed>>
        BY <2>2 DEF Publish
    <3>5. QED
        BY <3>1, <3>2, <3>3, <3>4 DEF Inv, TypeOK, RelayState
  <2>3. CASE Acknowledge(p)
    <3>1. relay' \in [Processes -> RelayState]
        BY <2>3 DEF Acknowledge, Inv, TypeOK, RelayState, FreeRelay
    <3>2. outbox' \in [Events -> {"absent", "pending", "published", "pruned"}]
        BY <2>3 DEF Acknowledge, Inv, TypeOK
    <3>3. QED
        BY <2>3, <3>1, <3>2 DEF Acknowledge, Inv, TypeOK, RelayState
  <2>4. QED
      BY <1>5, <2>1, <2>2, <2>3 DEF OutboxLoop
<1>6. ASSUME NEW p \in Processes, Stop(p)
      PROVE  /\ relay' \in [Processes -> RelayState]
             /\ loop' \in [Processes -> [Loops -> LoopState]]
             /\ listed' \in [Processes -> SUBSET Ops]
             /\ marker' \in [Events -> {"none", "done", "expired"} \cup Processes]
    BY <1>6, StopTyped, StopEffect
<1>7. ASSUME NEW p \in Processes, Crash(p) PROVE TypeOK'
    BY <1>6, <1>7 DEF Crash, Inv, TypeOK, RelayState, LoopState
<1>8. ASSUME NEW p \in Processes, NEW l \in Loops, NEW r \in LoopState,
             loop' = [loop EXCEPT ![p][l] = r]
      PROVE  loop' \in [Processes -> [Loops -> LoopState]]
    BY <1>8, LoopStep
<1>9. ASSUME NEW p \in Processes, NEW l \in Loops,
             NEW pc \in {"idle", "fetched", "marked", "checked", "effected", "handled"},
             loop' = [loop EXCEPT ![p][l].pc = pc]
      PROVE  loop' \in [Processes -> [Loops -> LoopState]]
  <2> DEFINE r == [loop[p][l] EXCEPT !.pc = pc]
  <2>1. r \in LoopState
      BY Typed DEF LoopState
  <2>2. loop' = [loop EXCEPT ![p][l] = r]
      BY <1>9
  <2> HIDE DEF r
  <2>3. QED
      BY <2>1, <2>2, LoopStep
<1>10. ASSUME NEW p \in Processes, Call(p) PROVE TypeOK'
  <2> DEFINE e == loop[p]["starter"].event
  <2>1. /\ "starter" \in Loops /\ loop[p]["starter"].pc = "checked" /\ e.op \in Ops
        /\ UNCHANGED <<outbox, created, topic, owner, committed, audited>>
      BY <1>10, EventTopic DEF Call, Loops, Inv, Reading, Reads
  <2>2. CASE /\ loop' = [loop EXCEPT ![p]["starter"].pc = "effected"]
             /\ UNCHANGED <<operation, relay, listed, marker>>
             /\ \/ StartOperation(e.op) /\ UNCHANGED signalled
                \/ UNCHANGED <<workflow, starts>> /\ signalled' \subseteq signalled \cup {e.op}
    <3>1. loop' \in [Processes -> [Loops -> LoopState]]
        BY <1>9, <2>1, <2>2
    <3>2. /\ workflow' \in [Ops -> {"none", "open", "closed"}] /\ starts' \in [Ops -> Nat]
          /\ signalled' \subseteq Ops
        BY <1>3, <2>1, <2>2 DEF Inv, TypeOK
    <3>3. QED
        BY <2>1, <2>2, <3>1, <3>2 DEF Inv, TypeOK, LoopState
  <2>3. CASE Stop(p) /\ UNCHANGED world
      BY <1>6, <2>1, <2>3 DEF Inv, TypeOK, RelayState, LoopState
  <2>4. QED
      BY <1>10, <2>2, <2>3 DEF Call
<1>11. ASSUME NEW p \in Processes, NEW l \in Loops, Consume(p, l) PROVE TypeOK'
  <2>0. loop[p][l] \in LoopState
      BY Typed
  <2>1. CASE Fetch(p, l)
    <3>1. PICK t \in Topics :
             /\ committed[t] < Len(topic[t])
             /\ loop' = [loop EXCEPT ![p][l] = [pc |-> "fetched", event |-> topic[t][committed[t] + 1],
                                                eligible |-> FALSE]]
        BY <2>1 DEF Fetch, Subscribed, Topics, Loops
    <3>2. topic[t][committed[t] + 1] \in Events
        BY <3>1, Typed
    <3>3. [pc |-> "fetched", event |-> topic[t][committed[t] + 1], eligible |-> FALSE] \in LoopState
        BY <3>2 DEF LoopState
    <3>4. loop' \in [Processes -> [Loops -> LoopState]]
        BY <1>8, <3>1, <3>3
    <3>5. QED
        BY <2>1, <3>4 DEF Fetch, Inv, TypeOK, LoopState
  <2>2. CASE InsertMarker(p, l)
    <3>1. loop' \in [Processes -> [Loops -> LoopState]]
        BY <1>9, <2>2 DEF InsertMarker
    <3>2. marker' \in [Events -> {"none", "done", "expired"} \cup Processes]
      <4>1. marker \in [Events -> {"none", "done", "expired"} \cup Processes]
          BY DEF Inv, TypeOK
      <4>2. UNCHANGED marker \/ marker' = [marker EXCEPT ![loop[p][l].event] = p]
          BY <2>2 DEF InsertMarker
      <4>3. QED
          BY <4>1, <4>2
    <3>3. QED
        BY <2>2, <3>1, <3>2 DEF InsertMarker, Inv, TypeOK, LoopState
  <2>3. CASE Check(p, l)
    <3> DEFINE r == [loop[p][l] EXCEPT !.pc = "checked", !.eligible = Eligible(loop[p][l].event)]
    <3>1. Eligible(loop[p][l].event) \in BOOLEAN
        BY DEF Eligible
    <3>2. r \in LoopState
        BY <2>0, <3>1 DEF LoopState
    <3>3. loop' = [loop EXCEPT ![p][l] = r]
        BY <2>3 DEF Check, Inv, TypeOK
    <3> HIDE DEF r
    <3>4. loop' \in [Processes -> [Loops -> LoopState]]
        BY <1>8, <3>2, <3>3
    <3>5. QED
        BY <2>3, <3>4 DEF Check, Inv, TypeOK, LoopState
  <2>4. CASE CommitMarker(p, l)
    <3>1. loop' \in [Processes -> [Loops -> LoopState]]
        BY <1>9, <2>4 DEF CommitMarker
    <3>2. marker' \in [Events -> {"none", "done", "expired"} \cup Processes]
        BY <2>4 DEF CommitMarker, Inv, TypeOK
    <3>3. audited' \in [Events -> Nat]
      <4>1. audited \in [Events -> Nat]
          BY DEF Inv, TypeOK
      <4>2. UNCHANGED audited \/ audited' = [audited EXCEPT ![loop[p][l].event] = @ + 1]
          BY <2>4 DEF CommitMarker
      <4>3. loop[p][l].event \in Events
          BY <2>4 DEF CommitMarker, Inv, Reading, Reads
      <4>4. QED
          BY <4>1, <4>2, <4>3
    <3>4. QED
        BY <2>4, <3>1, <3>2, <3>3 DEF CommitMarker, Inv, TypeOK, LoopState
  <2>5. CASE CommitOffset(p, l)
    <3> DEFINE t == loop[p][l].event.topic
    <3>1. /\ loop[p][l].pc = "handled" /\ t \in Topics
          /\ UNCHANGED <<operation, workflow, starts, signalled, outbox, created, topic, owner, audited>>
        BY <2>5, EventTopic DEF CommitOffset, Inv, Reading, Reads
    <3>2. CASE /\ owner[l] = p /\ committed' = [committed EXCEPT ![t] = @ + 1]
               /\ loop' = [loop EXCEPT ![p][l] = FreeLoop]
               /\ UNCHANGED <<relay, listed, marker>>
      <4>1. committed[t] < Len(topic[t])
          BY <3>1, <3>2 DEF Inv, Reading, Reads
      <4>2. \A u \in Topics : committed'[u] = IF u = t THEN committed[u] + 1 ELSE committed[u]
          BY <3>1, <3>2 DEF Inv, TypeOK
      <4>3. \A u \in Topics : committed'[u] <= Len(topic'[u])
        <5> HIDE DEF t
        <5>1. QED
          BY <3>1, <4>1, <4>2, Typed
      <4>4. committed' \in [Topics -> Nat]
          BY <3>1, <3>2 DEF Inv, TypeOK
      <4>5. FreeLoop \in LoopState
          BY DEF FreeLoop, LoopState
      <4>6. loop' \in [Processes -> [Loops -> LoopState]]
          BY <1>8, <3>2, <4>5
      <4>7. QED
          BY <3>1, <3>2, <4>3, <4>4, <4>6 DEF Inv, TypeOK, LoopState
    <3>3. CASE Stop(p) /\ UNCHANGED committed
        BY <1>6, <3>1, <3>3 DEF Inv, TypeOK, RelayState, LoopState
    <3>4. QED
        BY <2>5, <3>2, <3>3 DEF CommitOffset
  <2>6. QED
      BY <1>11, <2>1, <2>2, <2>3, <2>4, <2>5 DEF Consume
<1>12. ASSUME NEW p \in Processes, NEW l \in Loops, TakeOver(p, l) PROVE TypeOK'
    BY <1>12 DEF TakeOver, Inv, TypeOK
<1>13. ASSUME NEW e \in Events, PrunePublished(e) \/ PruneExpired(e) PROVE TypeOK'
    BY <1>13 DEF PrunePublished, PruneExpired, Inv, TypeOK
<1>14. CASE UNCHANGED vars
    BY <1>14 DEF vars, Inv, TypeOK
<1>15. QED
    BY <1>1, <1>2, <1>4, <1>5, <1>7, <1>10, <1>11, <1>12, <1>13, <1>14 DEF Next

-----------------------------------------------------------------------------
(* What is written stays known. *)

(* Written does not look at the consumers, the sweep or Temporal, and a     *)
(* released claim or an operation that moves on cannot harm it.             *)
LEMMA WrittenQuietly ==
    ASSUME Inv, UNCHANGED <<topic, outbox, created>>,
           \A p \in Processes : relay'[p] = relay[p] \/ relay'[p] = FreeRelay,
           \A o \in Ops : operation'[o] = "quoted" => operation[o] = "quoted"
    PROVE  Written'
<1>1. Records' /\ Creations' /\ Unwritten' /\ NothingLost'
    BY DEF Inv, Written, Records, Creations, Unwritten, NothingLost, Published
<1>2. Claims'
    BY DEF Inv, Written, Claims, Published, FreeRelay
<1>3. QED
    BY <1>1, <1>2 DEF Written

LEMMA WrittenNext ==
    ASSUME Inv, [Next]_vars
    PROVE  Written'
<1> USE DEF world, consumers, counters
<1>1. ASSUME NEW o \in Ops, Confirm(o) \/ RequestCancel(o) PROVE Written'
  <2>1. PICK S \in SUBSET Events, order \in Seq(Events) :
           /\ outbox' = [e \in Events |-> IF e \in S THEN "pending" ELSE outbox[e]]
           /\ created' = created \o order
           /\ \A i \in DOMAIN order : order[i] \in S
           /\ \A e \in S : outbox[e] = "absent" /\ e.op = o
           /\ (\E e \in S : e.topic # "control") => operation'[o] # "quoted"
    <3> DEFINE c == Event(o, "confirmed")
               a == Event(o, "audit")
               k == Event(o, "control")
    <3>1. /\ c \in Events /\ a \in Events /\ k \in Events
          /\ c.op = o /\ a.op = o /\ k.op = o /\ k.topic = "control"
        BY EventTopic DEF Topics, Event
    <3>2. CASE Confirm(o)
      <4>1. outbox[c] = "absent" /\ outbox[a] = "absent"
          BY <3>2 DEF Confirm, Inv, Written, Unwritten
      <4>2. operation'[o] # "quoted"
          BY <3>2 DEF Confirm, Inv, TypeOK
      <4>3. /\ outbox' = [e \in Events |-> IF e \in {c, a} THEN "pending" ELSE outbox[e]]
            /\ created' = created \o <<c, a>>
          BY <3>2 DEF Confirm, Write
      <4> HIDE DEF c, a, k
      <4>4. <<c, a>> \in Seq(Events) /\ \A i \in DOMAIN <<c, a>> : <<c, a>>[i] \in {c, a}
          BY <3>1
      <4>5. {c, a} \in SUBSET Events /\ \A e \in {c, a} : outbox[e] = "absent" /\ e.op = o
          BY <3>1, <4>1
      <4>6. QED
          BY <4>2, <4>3, <4>4, <4>5
    <3>3. CASE RequestCancel(o)
      <4>1. outbox[k] = "absent"
          BY <3>3 DEF RequestCancel
      <4>2. /\ outbox' = [e \in Events |-> IF e \in {k} THEN "pending" ELSE outbox[e]]
            /\ created' = created \o <<k>>
          BY <3>3 DEF RequestCancel, Write
      <4> HIDE DEF c, a, k
      <4>3. <<k>> \in Seq(Events) /\ \A i \in DOMAIN <<k>> : <<k>>[i] \in {k}
          BY <3>1
      <4>4. {k} \in SUBSET Events /\ \A e \in {k} : outbox[e] = "absent" /\ e.op = o
          BY <3>1, <4>1
      <4>5. ~(\E e \in {k} : e.topic # "control")
          BY <3>1
      <4>6. QED
          BY <4>2, <4>3, <4>4, <4>5
    <3>4. QED
        BY <1>1, <3>2, <3>3
  <2>2. /\ UNCHANGED <<topic, relay>>
        /\ \A n \in Ops : operation'[n] = "quoted" => operation[n] = "quoted"
      BY <1>1 DEF Confirm, RequestCancel, Inv, TypeOK
  <2>3. \A e \in Events : /\ outbox[e] # "absent" => outbox'[e] = outbox[e]
                          /\ outbox'[e] = outbox[e] \/ outbox'[e] = "pending"
      BY <2>1
  <2>4. Records'
      BY <2>2, <2>3, Typed DEF Records, Inv, Written
  <2>5. Claims'
      BY <2>2, <2>3 DEF Claims, Published, Inv, Written
  <2>6. Creations'
    <3>1. created \in Seq(Events) /\ order \in Seq(Events)
        BY <2>1 DEF Inv, TypeOK
    <3>2. ASSUME NEW i \in DOMAIN created' PROVE outbox'[created'[i]] # "absent"
      <4>1. \/ i \in DOMAIN created /\ created'[i] = created[i]
            \/ \E j \in DOMAIN order : created'[i] = order[j]
        <5>1. /\ Len(created) \in Nat /\ Len(order) \in Nat
              /\ DOMAIN created = 1 .. Len(created) /\ DOMAIN order = 1 .. Len(order)
            BY <3>1
        <5>2. i \in 1 .. Len(created) + Len(order)
            BY <2>1, <3>1, <3>2
        <5>3. created'[i] = IF i <= Len(created) THEN created[i] ELSE order[i - Len(created)]
            BY <2>1, <3>1, <5>2
        <5>4. QED
            BY <5>1, <5>2, <5>3
      <4>2. CASE i \in DOMAIN created /\ created'[i] = created[i]
          BY <2>3, <3>1, <4>2 DEF Inv, Written, Creations
      <4>3. CASE \E j \in DOMAIN order : created'[i] = order[j]
          BY <2>1, <4>3
      <4>4. QED
          BY <4>1, <4>2, <4>3
    <3>3. QED
        BY <3>2 DEF Creations
  <2>7. Unwritten'
    <3> SUFFICES ASSUME NEW n \in Ops, operation'[n] = "quoted"
                 PROVE  outbox'[Event(n, "confirmed")] = "absent" /\ outbox'[Event(n, "audit")] = "absent"
        BY DEF Unwritten
    <3>1. outbox[Event(n, "confirmed")] = "absent" /\ outbox[Event(n, "audit")] = "absent"
        BY <2>2 DEF Inv, Written, Unwritten
    <3>2. /\ Event(n, "confirmed") \in Events /\ Event(n, "confirmed").topic = "confirmed"
          /\ Event(n, "audit") \in Events /\ Event(n, "audit").topic = "audit"
          /\ Event(n, "confirmed").op = n /\ Event(n, "audit").op = n
        BY EventTopic DEF Topics, Event
    <3>3. Event(n, "confirmed") \notin S /\ Event(n, "audit") \notin S
        BY <2>1, <3>2
    <3>4. QED
        BY <2>1, <3>1, <3>2, <3>3
  <2>8. NothingLost'
      BY <2>1, <2>2 DEF NothingLost, Published, Inv, Written
  <2>9. QED
      BY <2>4, <2>5, <2>6, <2>7, <2>8 DEF Written
<1>2. ASSUME NEW o \in Ops, Workflow(o) PROVE Written'
  <2>1. \A n \in Ops : operation'[n] = "quoted" => operation[n] = "quoted"
      BY <1>2 DEF Workflow, Run, EndOperation, CloseWorkflow, Inv, TypeOK
  <2>2. UNCHANGED <<topic, outbox, created, relay>>
      BY <1>2 DEF Workflow, Run, EndOperation, CloseWorkflow
  <2>3. QED
      BY <2>1, <2>2, WrittenQuietly
<1>3. ASSUME NEW p \in Processes, SweepLoop(p) \/ Crash(p) \/ Call(p) PROVE Written'
  <2>1. UNCHANGED <<topic, outbox, created, operation>>
      BY <1>3 DEF SweepLoop, SweepList, SweepStart, Crash, Call
  <2>2. UNCHANGED relay \/ Stop(p)
      BY <1>3 DEF SweepLoop, SweepList, SweepStart, Crash, Call
  <2>3. \A q \in Processes : relay'[q] = relay[q] \/ relay'[q] = FreeRelay
      BY <2>2, StopEffect
  <2>4. QED
      BY <2>1, <2>3, WrittenQuietly
<1>4. ASSUME NEW p \in Processes, NEW l \in Loops, Consume(p, l) \/ TakeOver(p, l) PROVE Written'
  <2>1. UNCHANGED <<topic, outbox, created, operation>>
      BY <1>4 DEF Consume, Fetch, InsertMarker, Check, CommitMarker, CommitOffset, TakeOver
  <2>2. UNCHANGED relay \/ Stop(p)
      BY <1>4 DEF Consume, Fetch, InsertMarker, Check, CommitMarker, CommitOffset, TakeOver
  <2>3. \A q \in Processes : relay'[q] = relay[q] \/ relay'[q] = FreeRelay
      BY <2>2, StopEffect
  <2>4. QED
      BY <2>1, <2>3, WrittenQuietly
<1>5. ASSUME NEW p \in Processes, Claim(p) PROVE Written'
  <2>1. PICK i \in DOMAIN created :
           /\ outbox[created[i]] = "pending"
           /\ relay' = [relay EXCEPT ![p] = [pc |-> "claimed", event |-> created[i]]]
      BY <1>5 DEF Claim
  <2>2. created[i] \in Events
      BY DEF Inv, TypeOK
  <2>3. UNCHANGED <<topic, outbox, created, operation>>
      BY <1>5 DEF Claim
  <2>4. Claims'
      BY <2>1, <2>2, <2>3 DEF Claims, Published, Inv, Written, TypeOK
  <2>5. QED
      BY <2>3, <2>4 DEF Inv, Written, Records, Creations, Unwritten, NothingLost, Published
<1>6. ASSUME NEW p \in Processes, Publish(p) PROVE Written'
  <2>1. UNCHANGED <<outbox, created, operation>> /\ relay' = [relay EXCEPT ![p].pc = "sent"]
      BY <1>6 DEF Publish
  <2>2. /\ relay[p].event \in Events /\ outbox[relay[p].event] # "absent"
        /\ relay[p].event.topic \in Topics
      BY <1>6, EventTopic DEF Publish, Inv, Written, Claims
  <2>3. \A e \in Events : Published(e) => Published(e)'
    <3> SUFFICES ASSUME NEW e \in Events, NEW i \in DOMAIN topic[e.topic], topic[e.topic][i] = e
                 PROVE  i \in DOMAIN topic'[e.topic] /\ topic'[e.topic][i] = e
        BY DEF Published
    <3>1. e.topic \in Topics
        BY EventTopic
    <3>2. i \in 1 .. Len(topic[e.topic]) /\ Len(topic[e.topic]) \in Nat
        BY <3>1, Typed
    <3>3. /\ topic'[e.topic][i] = topic[e.topic][i] /\ Len(topic'[e.topic]) \in Nat
          /\ DOMAIN topic'[e.topic] = 1 .. Len(topic'[e.topic])
          /\ Len(topic[e.topic]) <= Len(topic'[e.topic])
        BY <1>6, <3>1, <3>2, PublishTopics
    <3>4. QED
        BY <3>2, <3>3
  <2>4. Published(relay[p].event)'
      BY <1>6, <2>1, PublishTopics DEF Published
  <2>5. Records'
      BY <1>6, <2>1, <2>2, PublishTopics, Typed DEF Records, Inv, Written
  <2>6. Claims'
    <3> SUFFICES ASSUME NEW q \in Processes, relay'[q].pc # "idle"
                 PROVE  /\ relay'[q].event \in Events /\ outbox'[relay'[q].event] # "absent"
                        /\ relay'[q].pc = "sent" => Published(relay[q].event)'
        <4>1. \A q \in Processes : relay'[q].event = relay[q].event
            BY <2>1 DEF Inv, TypeOK
        <4>2. QED
            BY <4>1 DEF Claims, Published
    <3>1. CASE q = p
        BY <2>1, <2>2, <2>4, <3>1 DEF Inv, TypeOK
    <3>2. CASE q # p
        BY <2>1, <2>3, <3>2 DEF Inv, TypeOK, Written, Claims
    <3>3. QED
        BY <3>1, <3>2
  <2>7. NothingLost'
      BY <2>1, <2>3 DEF NothingLost, Inv, Written
  <2>8. Creations' /\ Unwritten'
      BY <2>1 DEF Creations, Unwritten, Inv, Written
  <2>9. QED
      BY <2>5, <2>6, <2>7, <2>8 DEF Written
<1>7. ASSUME UNCHANGED <<topic, created, operation>>,
             \A e \in Events : \/ outbox'[e] = outbox[e]
                               \/ Published(e) /\ outbox[e] # "absent" /\ outbox'[e] \in {"published", "pruned"},
             \A q \in Processes : relay'[q] = relay[q] \/ relay'[q] = FreeRelay
      PROVE  Written'
  <2>1. \A e \in Events : outbox[e] = "absent" <=> outbox'[e] = "absent"
      BY <1>7
  <2>2. Records'
      BY <1>7, <2>1, Typed DEF Records, Inv, Written
  <2>3. Claims'
      BY <1>7, <2>1 DEF Claims, Published, Inv, Written, FreeRelay
  <2>4. Creations'
      BY <1>7, <2>1 DEF Creations, Inv, TypeOK, Written
  <2>5. Unwritten'
      BY <1>7, <2>1, EventTopic DEF Unwritten, Inv, Written, Topics
  <2>6. NothingLost'
      BY <1>7 DEF NothingLost, Published, Inv, Written
  <2>7. QED
      BY <2>2, <2>3, <2>4, <2>5, <2>6 DEF Written
<1>8. ASSUME NEW p \in Processes, Acknowledge(p) PROVE Written'
  <2>1. relay[p].event \in Events /\ outbox[relay[p].event] # "absent" /\ Published(relay[p].event)
      BY <1>8 DEF Acknowledge, Inv, Written, Claims
  <2>2. /\ outbox' = [outbox EXCEPT ![relay[p].event] = "published"]
        /\ relay' = [relay EXCEPT ![p] = FreeRelay]
        /\ UNCHANGED <<topic, created, operation>>
      BY <1>8 DEF Acknowledge
  <2>3. \A q \in Processes : relay'[q] = relay[q] \/ relay'[q] = FreeRelay
      BY <2>2 DEF Inv, TypeOK
  <2>4. \A e \in Events : \/ outbox'[e] = outbox[e]
                          \/ Published(e) /\ outbox[e] # "absent" /\ outbox'[e] \in {"published", "pruned"}
      BY <2>1, <2>2 DEF Inv, TypeOK
  <2>5. QED
      BY <1>7, <2>2, <2>3, <2>4
<1>9. ASSUME NEW d \in Events, PrunePublished(d) PROVE Written'
  <2>1. outbox[d] = "published" /\ Published(d)
      BY <1>9 DEF PrunePublished, Prunable, Inv, Written, NothingLost
  <2>2. outbox' = [outbox EXCEPT ![d] = "pruned"] /\ UNCHANGED <<topic, created, operation, relay>>
      BY <1>9 DEF PrunePublished
  <2>3. \A e \in Events : \/ outbox'[e] = outbox[e]
                          \/ Published(e) /\ outbox[e] # "absent" /\ outbox'[e] \in {"published", "pruned"}
      BY <2>1, <2>2 DEF Inv, TypeOK
  <2>4. QED
      BY <1>7, <2>2, <2>3
<1>10. ASSUME NEW d \in Events, PruneExpired(d) PROVE Written'
    BY <1>10, WrittenQuietly DEF PruneExpired
<1>11. CASE UNCHANGED vars
    BY <1>11, WrittenQuietly DEF vars
<1>12. QED
    BY <1>1, <1>2, <1>3, <1>4, <1>5, <1>6, <1>8, <1>9, <1>10, <1>11 DEF Next, OutboxLoop

-----------------------------------------------------------------------------
(* The consumers. *)
Consuming == Reading /\ Marking /\ Auditing /\ NothingSkipped

LEMMA OneLoopPerTopic ==
    /\ \A l, m \in Loops : \A t : t \in Subscribed(l) /\ t \in Subscribed(m) => l = m
    /\ \A l \in Loops : Subscribed(l) \subseteq Topics
    /\ "starter" \in Loops /\ "audit" \in Loops /\ Subscribed("audit") = {"audit"}
    /\ "audit" \notin Subscribed("starter")
    BY DEF Loops, Subscribed, Topics

(* A record that has been read stays where it is. *)
LEMMA ReadsKept ==
    ASSUME Inv, NEW q \in Processes, NEW m \in Loops,
           loop'[q][m].event = loop[q][m].event,
           loop'[q][m].pc # "idle" => loop[q][m].pc # "idle",
           UNCHANGED <<topic, committed>>,
           owner'[m] = q => owner[m] = q
    PROVE  Reads(q, m)'
    BY DEF Inv, Reading, Reads, Published

LEMMA ConsumingPublish ==
    ASSUME Inv, NEW p \in Processes, Publish(p)
    PROVE  Consuming'
<1> USE DEF world, consumers, counters
<1>1. UNCHANGED <<owner, committed, loop, marker, audited>>
    BY DEF Publish
<1>2. \A t \in Topics : \A i \in 1 .. Len(topic[t]) :
          i \in DOMAIN topic'[t] /\ topic'[t][i] = topic[t][i]
  <2> SUFFICES ASSUME NEW t \in Topics, NEW i \in 1 .. Len(topic[t])
               PROVE  i \in DOMAIN topic'[t] /\ topic'[t][i] = topic[t][i]
      OBVIOUS
  <2>1. /\ topic'[t][i] = topic[t][i] /\ Len(topic'[t]) \in Nat
        /\ DOMAIN topic'[t] = 1 .. Len(topic'[t]) /\ Len(topic[t]) <= Len(topic'[t])
      BY PublishTopics
  <2>2. QED
      BY <2>1, Typed
<1>3. \A t \in Topics : Len(topic[t]) <= Len(topic'[t]) /\ Len(topic'[t]) \in Nat
    BY PublishTopics
<1>4. Reading'
  <2> SUFFICES ASSUME NEW q \in Processes, NEW m \in Loops, loop[q][m].pc # "idle"
               PROVE  LET e == loop[q][m].event IN
                      /\ e \in Events /\ e.topic \in Subscribed(m) /\ Published(e)'
                      /\ owner[m] = q => /\ committed[e.topic] < Len(topic'[e.topic])
                                         /\ topic'[e.topic][committed[e.topic] + 1] = e
      BY <1>1 DEF Reading, Reads, Published
  <2> DEFINE e == loop[q][m].event
             t == e.topic
  <2>1. /\ e \in Events /\ t \in Subscribed(m) /\ Published(e)
        /\ owner[m] = q => committed[t] < Len(topic[t]) /\ topic[t][committed[t] + 1] = e
      BY DEF Inv, Reading, Reads
  <2>2. t \in Topics
      BY <2>1, OneLoopPerTopic
  <2>3. Published(e)'
    <3>1. PICK i \in DOMAIN topic[t] : topic[t][i] = e
        BY <2>1 DEF Published
    <3>2. i \in 1 .. Len(topic[t])
        BY <2>2, <3>1, Typed
    <3>3. QED
        BY <1>1, <1>2, <2>2, <3>1, <3>2 DEF Published
  <2> HIDE DEF t, e
  <2>4. ASSUME owner[m] = q
        PROVE  committed[t] < Len(topic'[t]) /\ topic'[t][committed[t] + 1] = e
    <3>1. committed[t] < Len(topic[t]) /\ topic[t][committed[t] + 1] = e
        BY <2>1, <2>4
    <3>2. committed[t] + 1 \in 1 .. Len(topic[t])
      <4>1. committed[t] \in Nat /\ Len(topic[t]) \in Nat
          BY <2>2, Typed
      <4>2. QED
          BY <3>1, <4>1
    <3>3. topic'[t][committed[t] + 1] = topic[t][committed[t] + 1]
        BY <1>2, <2>2, <3>2
    <3>4. /\ Len(topic[t]) <= Len(topic'[t]) /\ Len(topic'[t]) \in Nat
          /\ committed[t] \in Nat /\ Len(topic[t]) \in Nat
        BY <1>3, <2>2, Typed
    <3>5. committed[t] < Len(topic'[t])
        BY <3>1, <3>4
    <3>6. QED
        BY <3>1, <3>3, <3>5
  <2>5. QED
      BY <2>1, <2>3, <2>4 DEF e, t
<1>5. NothingSkipped'
  <2> SUFFICES ASSUME NEW t \in Topics, NEW i \in 1 .. committed[t]
               PROVE  marker[topic'[t][i]] \in {"done", "expired"}
      BY <1>1 DEF NothingSkipped
  <2>1. i \in 1 .. Len(topic[t])
      BY Typed
  <2>2. QED
      BY <1>2, <2>1 DEF Inv, NothingSkipped
<1>6. Marking' /\ Auditing'
    BY <1>1 DEF Inv, Marking, Marks, Auditing
<1>7. QED
    BY <1>4, <1>5, <1>6 DEF Consuming

(* What is processed stays processed when the markers change as they do.    *)
LEMMA MarkersKept ==
    ASSUME Inv, UNCHANGED <<topic, committed>>,
           \A e \in Events : marker[e] \in Processed => marker'[e] \in Processed
    PROVE  NothingSkipped'
<1> SUFFICES ASSUME NEW t \in Topics, NEW i \in 1 .. committed[t]
             PROVE  marker'[topic[t][i]] \in {"done", "expired"}
    BY DEF NothingSkipped
<1>1. topic[t][i] \in Events
    BY Typed
<1>2. QED
    BY <1>1 DEF Inv, NothingSkipped, Processed

LEMMA ConsumingStop ==
    ASSUME Inv, NEW p \in Processes, Stop(p), UNCHANGED <<topic, owner, committed, audited>>
    PROVE  Consuming'
<1>1. /\ \A e \in Events : marker'[e] = IF marker[e] = p THEN "none" ELSE marker[e]
      /\ \A q \in Processes \ {p} : loop'[q] = loop[q]
      /\ \A l \in Loops : loop'[p][l].pc = "idle"
    BY StopEffect DEF FreeLoop
<1>2. \A e \in Events : marker'[e] \in Processed <=> marker[e] \in Processed
    BY <1>1, Names DEF Processed
<1>3. Reading'
  <2>1. ASSUME NEW q \in Processes \ {p}, NEW m \in Loops PROVE Reads(q, m)'
      BY <1>1, ReadsKept
  <2>2. ASSUME NEW m \in Loops PROVE Reads(p, m)'
      BY <1>1 DEF Reads
  <2>3. QED
      BY <2>1, <2>2 DEF Reading
<1>4. Marking'
  <2>1. ASSUME NEW q \in Processes \ {p}, NEW m \in Loops PROVE Marks(q, m)'
    <3>1. loop'[q][m] = loop[q][m]
        BY <1>1
    <3>2. loop[q][m].pc # "idle" => loop[q][m].event \in Events
        BY DEF Inv, Reading, Reads
    <3>3. Marks(q, m)
        BY DEF Inv, Marking
    <3>4. QED
        BY <1>1, <1>2, <3>1, <3>2, <3>3 DEF Marks
  <2>2. ASSUME NEW m \in Loops PROVE Marks(p, m)'
      BY <1>1 DEF Marks
  <2>3. QED
      BY <2>1, <2>2 DEF Marking
<1>5. Auditing'
    BY <1>2 DEF Auditing, Inv
<1>6. NothingSkipped'
    BY <1>2, MarkersKept
<1>7. QED
    BY <1>3, <1>4, <1>5, <1>6 DEF Consuming

LEMMA ConsumingFetch ==
    ASSUME Inv, NEW p \in Processes, NEW l \in Loops, Fetch(p, l)
    PROVE  Consuming'
<1> USE DEF world, consumers, counters
<1>1. /\ UNCHANGED <<topic, owner, committed, marker, audited>>
      /\ owner[l] = p /\ loop[p][l].pc = "idle"
    BY DEF Fetch
<1>2. PICK t \in Subscribed(l) :
         /\ committed[t] < Len(topic[t])
         /\ loop' = [loop EXCEPT ![p][l] = [pc |-> "fetched", event |-> topic[t][committed[t] + 1],
                                            eligible |-> FALSE]]
    BY DEF Fetch
<1>3. t \in Topics
    BY <1>2, OneLoopPerTopic
<1>4. committed[t] + 1 \in DOMAIN topic[t] /\ topic[t][committed[t] + 1] \in Events
    BY <1>2, <1>3, Typed
<1>5. topic[t][committed[t] + 1].topic = t
    BY <1>3, <1>4 DEF Inv, Written, Records
<1> DEFINE r == [pc |-> "fetched", event |-> topic[t][committed[t] + 1], eligible |-> FALSE]
<1>6. r \in LoopState /\ r.event = topic[t][committed[t] + 1] /\ r.pc = "fetched"
    BY <1>4 DEF LoopState
<1>7. /\ loop'[p][l] = r
      /\ \A q \in Processes, m \in Loops : q # p \/ m # l => loop'[q][m] = loop[q][m]
  <2> HIDE DEF r
  <2>1. QED
      BY <1>2, <1>6, LoopStep, ZenonT(40) DEF r
<1> HIDE DEF r
<1>8. Reads(p, l)'
    BY <1>1, <1>2, <1>4, <1>5, <1>6, <1>7 DEF Reads, Published
<1>9. Reading'
    BY <1>1, <1>7, <1>8, ReadsKept DEF Reading
<1>10. Marking'
    BY <1>1, <1>6, <1>7 DEF Marking, Marks, Inv
<1>11. Auditing' /\ NothingSkipped'
    BY <1>1 DEF Auditing, NothingSkipped, Inv
<1>12. QED
    BY <1>9, <1>10, <1>11 DEF Consuming

LEMMA ConsumingTakeOver ==
    ASSUME Inv, NEW p \in Processes, NEW l \in Loops, TakeOver(p, l)
    PROVE  Consuming'
<1> USE DEF world, consumers, counters
<1>1. /\ UNCHANGED <<topic, committed, loop, marker, audited>>
      /\ owner' = [owner EXCEPT ![l] = p] /\ loop[p][l].pc = "idle"
    BY DEF TakeOver
<1>2. \A m \in Loops : owner'[m] = IF m = l THEN p ELSE owner[m]
    BY <1>1 DEF Inv, TypeOK
<1>3. ASSUME NEW q \in Processes, NEW m \in Loops PROVE Reads(q, m)'
  <2>1. CASE q = p /\ m = l
      BY <1>1, <2>1 DEF Reads
  <2>2. CASE ~(q = p /\ m = l)
      BY <1>1, <1>2, <2>2, ReadsKept
  <2>3. QED
      BY <2>1, <2>2
<1>4. Marking' /\ Auditing' /\ NothingSkipped'
    BY <1>1 DEF Marking, Marks, Auditing, NothingSkipped, Inv
<1>5. QED
    BY <1>3, <1>4 DEF Consuming, Reading

(* A step of one loop that goes on with its record: only its pc, its        *)
(* eligibility and the marker of its event change.                          *)
LEMMA ConsumingGoOn ==
    ASSUME Inv, NEW p \in Processes, NEW l \in Loops, loop[p][l].pc # "idle",
           NEW r \in LoopState, r.event = loop[p][l].event,
           loop' = [loop EXCEPT ![p][l] = r],
           UNCHANGED <<topic, owner, committed>>
    PROVE  /\ Reading'
           /\ loop'[p][l] = r
           /\ \A q \in Processes, m \in Loops : q # p \/ m # l => loop'[q][m] = loop[q][m]
<1>1. /\ loop'[p][l] = r
      /\ \A q \in Processes, m \in Loops : q # p \/ m # l => loop'[q][m] = loop[q][m]
    BY LoopStep, ZenonT(40)
<1>2. ASSUME NEW q \in Processes, NEW m \in Loops PROVE Reads(q, m)'
  <2>1. CASE q = p /\ m = l
      BY <1>1, <2>1, ReadsKept
  <2>2. CASE q # p \/ m # l
      BY <1>1, <2>2, ReadsKept
  <2>3. QED
      BY <2>1, <2>2
<1>3. QED
    BY <1>1, <1>2 DEF Reading

(* Two loops that hold a marker hold the markers of different events.       *)
LEMMA OneHolder ==
    ASSUME Inv, NEW p \in Processes, NEW l \in Loops, NEW q \in Processes, NEW m \in Loops,
           q # p \/ m # l,
           loop[p][l].pc \in {"marked", "checked", "effected"},
           loop[q][m].pc \in {"marked", "checked", "effected"}
    PROVE  loop[q][m].event # loop[p][l].event
<1> SUFFICES ASSUME loop[q][m].event = loop[p][l].event
             PROVE  FALSE
    OBVIOUS
<1>1. marker[loop[p][l].event] = p /\ marker[loop[q][m].event] = q
    BY DEF Inv, Marking, Marks
<1>2. loop[p][l].event.topic \in Subscribed(l) /\ loop[q][m].event.topic \in Subscribed(m)
    BY DEF Inv, Reading, Reads
<1>3. QED
    BY <1>1, <1>2, OneLoopPerTopic

LEMMA ConsumingInsertMarker ==
    ASSUME Inv, NEW p \in Processes, NEW l \in Loops, InsertMarker(p, l)
    PROVE  Consuming'
<1> USE DEF world, consumers, counters
<1> DEFINE e == loop[p][l].event
<1>1. /\ loop[p][l].pc = "fetched" /\ e \in Events
      /\ UNCHANGED <<topic, owner, committed, audited>>
    BY DEF InsertMarker, Inv, Reading, Reads
<1>2. PICK pc \in {"marked", "handled"} :
         /\ loop' = [loop EXCEPT ![p][l].pc = pc]
         /\ pc = "marked" => marker[e] = "none" /\ marker' = [marker EXCEPT ![e] = p]
         /\ pc = "handled" => marker[e] = "done" /\ UNCHANGED marker
    BY DEF InsertMarker
<1>3. PICK r \in LoopState : /\ r.event = e /\ r.pc = pc /\ loop' = [loop EXCEPT ![p][l] = r]
  <2> DEFINE r == [loop[p][l] EXCEPT !.pc = pc]
  <2>1. r \in LoopState /\ r.event = e /\ r.pc = pc
      BY Typed DEF LoopState
  <2>2. loop' = [loop EXCEPT ![p][l] = r]
      BY <1>2
  <2>3. QED
      BY <2>1, <2>2
<1>4. /\ Reading'
      /\ loop'[p][l] = r
      /\ \A q \in Processes, m \in Loops : q # p \/ m # l => loop'[q][m] = loop[q][m]
    BY <1>1, <1>3, ConsumingGoOn
<1>5. \A d \in Events : marker'[d] = IF pc = "marked" /\ d = e THEN p ELSE marker[d]
    BY <1>1, <1>2 DEF Inv, TypeOK
<1>6. \A d \in Events : marker'[d] \in Processed <=> marker[d] \in Processed
    BY <1>2, <1>5, Names DEF Processed
<1>7. ASSUME NEW q \in Processes, NEW m \in Loops PROVE Marks(q, m)'
  <2>1. CASE q = p /\ m = l
      BY <1>1, <1>2, <1>3, <1>4, <1>5, <2>1 DEF Marks, Processed
  <2>2. CASE q # p \/ m # l
    <3>1. loop'[q][m] = loop[q][m] /\ Marks(q, m)
        BY <1>4, <2>2 DEF Inv, Marking
    <3>2. loop[q][m].pc # "idle" => loop[q][m].event \in Events
        BY DEF Inv, Reading, Reads
    <3>3. marker[e] # "none" \/ loop[q][m].event # e \/ loop[q][m].pc \notin {"marked", "checked", "effected"}
        BY <3>1, Names DEF Marks
    <3>4. QED
        BY <1>2, <1>5, <1>6, <3>1, <3>2, <3>3 DEF Marks
  <2>3. QED
      BY <2>1, <2>2
<1>8. Auditing'
    BY <1>1, <1>6 DEF Auditing, Inv
<1>9. NothingSkipped'
    BY <1>1, <1>6, MarkersKept
<1>10. QED
    BY <1>4, <1>7, <1>8, <1>9 DEF Consuming, Marking

(* Check, and the call to Temporal when it does not fail. *)
LEMMA ConsumingCheckOrCall ==
    ASSUME Inv, NEW p \in Processes, NEW l \in Loops, loop[p][l].pc \in {"marked", "checked"},
           NEW r \in LoopState, r.event = loop[p][l].event, r.pc \in {"checked", "effected"},
           loop' = [loop EXCEPT ![p][l] = r],
           UNCHANGED <<topic, owner, committed, marker, audited>>
    PROVE  Consuming'
<1>1. loop[p][l].pc # "idle"
    OBVIOUS
<1>2. /\ Reading'
      /\ loop'[p][l] = r
      /\ \A q \in Processes, m \in Loops : q # p \/ m # l => loop'[q][m] = loop[q][m]
    BY <1>1, ConsumingGoOn
<1>3. Marking'
    BY <1>2 DEF Inv, Marking, Marks
<1>4. Auditing' /\ NothingSkipped'
    BY DEF Inv, Auditing, NothingSkipped
<1>5. QED
    BY <1>2, <1>3, <1>4 DEF Consuming

LEMMA ConsumingCommitMarker ==
    ASSUME Inv, NEW p \in Processes, NEW l \in Loops, CommitMarker(p, l)
    PROVE  Consuming'
<1> USE DEF world, consumers, counters
<1> DEFINE e == loop[p][l].event
<1>1. /\ loop[p][l].pc \in {"marked", "effected"}
      /\ marker' = [marker EXCEPT ![e] = "done"]
      /\ audited' = IF l = "audit" THEN [audited EXCEPT ![e] = @ + 1] ELSE audited
      /\ loop' = [loop EXCEPT ![p][l].pc = "handled"]
      /\ UNCHANGED <<topic, owner, committed>>
    BY DEF CommitMarker
<1>2. /\ e \in Events /\ e.topic \in Subscribed(l) /\ marker[e] = p
      /\ loop[p][l].pc # "idle"
    BY <1>1 DEF Inv, Reading, Reads, Marking, Marks
<1>3. PICK r \in LoopState : /\ r.event = e /\ r.pc = "handled" /\ loop' = [loop EXCEPT ![p][l] = r]
  <2> DEFINE r == [loop[p][l] EXCEPT !.pc = "handled"]
  <2>1. r \in LoopState /\ r.event = e /\ r.pc = "handled"
      BY Typed DEF LoopState
  <2>2. loop' = [loop EXCEPT ![p][l] = r]
      BY <1>1
  <2>3. QED
      BY <2>1, <2>2
<1>4. /\ Reading'
      /\ loop'[p][l] = r
      /\ \A q \in Processes, m \in Loops : q # p \/ m # l => loop'[q][m] = loop[q][m]
  <2>1. /\ loop[p][l].pc # "idle" /\ r.event = loop[p][l].event
        /\ loop' = [loop EXCEPT ![p][l] = r] /\ UNCHANGED <<topic, owner, committed>>
      BY <1>1, <1>2, <1>3
  <2>2. QED
      BY <2>1, ConsumingGoOn
<1>5. \A d \in Events : marker'[d] = IF d = e THEN "done" ELSE marker[d]
    BY <1>1, <1>2 DEF Inv, TypeOK
<1>6. \A d \in Events : marker[d] \in Processed => marker'[d] \in Processed
    BY <1>5 DEF Processed
<1>7. ASSUME NEW q \in Processes, NEW m \in Loops PROVE Marks(q, m)'
  <2>1. CASE q = p /\ m = l
      BY <1>2, <1>3, <1>4, <1>5, <2>1 DEF Marks, Processed
  <2>2. CASE q # p \/ m # l
    <3>1. loop'[q][m] = loop[q][m] /\ Marks(q, m)
        BY <1>4, <2>2 DEF Inv, Marking
    <3>2. loop[q][m].pc # "idle" => loop[q][m].event \in Events
        BY DEF Inv, Reading, Reads
    <3>3. loop[q][m].pc \in {"marked", "checked", "effected"} => loop[q][m].event # e
        BY <1>1, <2>2, OneHolder
    <3>4. QED
        BY <1>5, <1>6, <3>1, <3>2, <3>3 DEF Marks
  <2>3. QED
      BY <2>1, <2>2
<1>8. Auditing'
  <2>1. audited \in [Events -> Nat] /\ \A d \in Events :
           audited[d] = IF d.topic = "audit" /\ marker[d] \in Processed THEN 1 ELSE 0
      BY DEF Inv, TypeOK, Auditing
  <2>2. audited[e] = 0
      BY <1>2, <2>1, Names DEF Processed
  <2>3. \A d \in Events : audited'[d] = IF l = "audit" /\ d = e THEN 1 ELSE audited[d]
      BY <1>1, <1>2, <2>1, <2>2
  <2>4. e.topic = "audit" <=> l = "audit"
      BY <1>2, OneLoopPerTopic
  <2>5. QED
      BY <1>5, <2>1, <2>3, <2>4 DEF Auditing, Processed
<1>9. NothingSkipped'
    BY <1>1, <1>6, MarkersKept
<1>10. QED
    BY <1>4, <1>7, <1>8, <1>9 DEF Consuming, Marking

LEMMA LoopFreed ==
    ASSUME Inv, NEW p \in Processes, NEW l \in Loops,
           loop' = [loop EXCEPT ![p][l] = FreeLoop]
    PROVE  /\ loop'[p][l] = FreeLoop
           /\ \A q \in Processes, m \in Loops : q # p \/ m # l => loop'[q][m] = loop[q][m]
    BY DEF Inv, TypeOK, LoopState

(* The owner moves its offset over the record that it has handled. *)
LEMMA ConsumingCommitOffset ==
    ASSUME Inv, NEW p \in Processes, NEW l \in Loops, loop[p][l].pc = "handled", owner[l] = p,
           committed' = [committed EXCEPT ![loop[p][l].event.topic] = @ + 1],
           loop' = [loop EXCEPT ![p][l] = FreeLoop],
           UNCHANGED <<topic, owner, marker, audited>>
    PROVE  Consuming'
<1> DEFINE e == loop[p][l].event
           t == e.topic
<1>1. /\ e \in Events /\ t \in Subscribed(l) /\ t \in Topics
      /\ committed[t] < Len(topic[t]) /\ topic[t][committed[t] + 1] = e
      /\ marker[e] \in Processed
    BY OneLoopPerTopic DEF Inv, Reading, Reads, Marking, Marks
<1>2. \A u \in Topics : committed'[u] = IF u = t THEN committed[t] + 1 ELSE committed[u]
    BY <1>1 DEF Inv, TypeOK
<1>3. FreeLoop \in LoopState /\ FreeLoop.pc = "idle"
    BY DEF FreeLoop, LoopState
<1>4. /\ loop'[p][l] = FreeLoop
      /\ \A q \in Processes, m \in Loops : q # p \/ m # l => loop'[q][m] = loop[q][m]
    BY LoopFreed
<1>5. ASSUME NEW q \in Processes, NEW m \in Loops PROVE Reads(q, m)' /\ Marks(q, m)'
  <2>1. CASE q = p /\ m = l
      BY <1>3, <1>4, <2>1 DEF Reads, Marks
  <2>2. CASE q # p \/ m # l
    <3>1. loop'[q][m] = loop[q][m] /\ Marks(q, m) /\ Reads(q, m)
        BY <1>4, <2>2 DEF Inv, Marking, Reading
    <3>2. loop[q][m].pc # "idle" /\ owner[m] = q => loop[q][m].event.topic # t
        BY <1>1, <2>2, <3>1, OneLoopPerTopic DEF Reads
    <3>3. loop[q][m].pc # "idle" => loop[q][m].event.topic \in Topics
        BY <3>1, OneLoopPerTopic DEF Reads
    <3>4. Reads(q, m)'
      <4> HIDE DEF t, e
      <4>1. QED
          BY <1>2, <3>1, <3>2, <3>3 DEF Reads, Published
    <3>5. Marks(q, m)'
        BY <3>1 DEF Marks
    <3>6. QED
        BY <3>4, <3>5
  <2>3. QED
      BY <2>1, <2>2
<1>6. NothingSkipped'
  <2> SUFFICES ASSUME NEW u \in Topics, NEW i \in 1 .. committed'[u]
               PROVE  marker[topic[u][i]] \in {"done", "expired"}
      BY DEF NothingSkipped
  <2> HIDE DEF t, e
  <2>1. CASE u = t /\ i = committed[t] + 1
      BY <1>1, <2>1 DEF Processed
  <2>2. CASE ~(u = t /\ i = committed[t] + 1)
    <3>1. i \in 1 .. committed[u]
        BY <1>2, <2>2, Typed
    <3>2. QED
        BY <3>1 DEF Inv, NothingSkipped
  <2>3. QED
      BY <2>1, <2>2
<1>7. Auditing'
    BY DEF Inv, Auditing
<1>8. QED
    BY <1>5, <1>6, <1>7 DEF Consuming, Reading, Marking

LEMMA ConsumingPruneExpired ==
    ASSUME Inv, NEW d \in Events, PruneExpired(d)
    PROVE  Consuming'
<1> USE DEF world, consumers, counters
<1>1. /\ marker[d] = "done" /\ marker' = [marker EXCEPT ![d] = "expired"]
      /\ UNCHANGED <<topic, owner, committed, loop, audited>>
    BY DEF PruneExpired
<1>2. \A e \in Events : marker'[e] = IF e = d THEN "expired" ELSE marker[e]
    BY <1>1 DEF Inv, TypeOK
<1>3. \A e \in Events : marker'[e] \in Processed <=> marker[e] \in Processed
    BY <1>1, <1>2 DEF Processed
<1>4. Reading'
    BY <1>1, ReadsKept DEF Reading
<1>5. ASSUME NEW q \in Processes, NEW m \in Loops PROVE Marks(q, m)'
  <2>1. Marks(q, m) /\ (loop[q][m].pc # "idle" => loop[q][m].event \in Events)
      BY DEF Inv, Marking, Reading, Reads
  <2>2. QED
      BY <1>1, <1>2, <1>3, <2>1, Names DEF Marks
<1>6. Auditing'
    BY <1>1, <1>3 DEF Inv, Auditing
<1>7. NothingSkipped'
    BY <1>1, <1>3, MarkersKept
<1>8. QED
    BY <1>4, <1>5, <1>6, <1>7 DEF Consuming, Marking

LEMMA ConsumingNext ==
    ASSUME Inv, [Next]_vars
    PROVE  Consuming'
<1> USE DEF world, consumers, counters
<1>1. ASSUME UNCHANGED <<topic, owner, committed, loop, marker, audited>> PROVE Consuming'
  <2>1. Reading'
      BY <1>1, ReadsKept DEF Reading
  <2>2. QED
      BY <1>1, <2>1 DEF Inv, Consuming, Marking, Marks, Auditing, NothingSkipped
<1>2. ASSUME NEW o \in Ops, Confirm(o) \/ RequestCancel(o) \/ Workflow(o) PROVE Consuming'
    BY <1>1, <1>2 DEF Confirm, RequestCancel, Workflow, Run, EndOperation, CloseWorkflow
<1>3. ASSUME NEW p \in Processes, SweepLoop(p) \/ Claim(p) \/ Acknowledge(p) PROVE Consuming'
    BY <1>1, <1>3 DEF SweepLoop, SweepList, SweepStart, Claim, Acknowledge
<1>4. ASSUME NEW p \in Processes, Crash(p) PROVE Consuming'
    BY <1>4, ConsumingStop DEF Crash
<1>5. ASSUME NEW p \in Processes, Call(p) PROVE Consuming'
  <2>1. /\ "starter" \in Loops /\ loop[p]["starter"].pc = "checked"
        /\ UNCHANGED <<topic, owner, committed, audited>>
      BY <1>5, OneLoopPerTopic DEF Call
  <2>2. CASE loop' = [loop EXCEPT ![p]["starter"].pc = "effected"] /\ UNCHANGED marker
    <3>1. PICK r \in LoopState : /\ r.event = loop[p]["starter"].event /\ r.pc = "effected"
                                 /\ loop' = [loop EXCEPT ![p]["starter"] = r]
      <4> DEFINE r == [loop[p]["starter"] EXCEPT !.pc = "effected"]
      <4>1. r \in LoopState /\ r.event = loop[p]["starter"].event /\ r.pc = "effected"
          BY <2>1, Typed DEF LoopState
      <4>2. loop' = [loop EXCEPT ![p]["starter"] = r]
          BY <2>2
      <4>3. QED
          BY <4>1, <4>2
    <3> DEFINE l == "starter"
    <3>2. /\ l \in Loops /\ loop[p][l].pc \in {"marked", "checked"}
          /\ r.event = loop[p][l].event /\ r.pc \in {"checked", "effected"}
          /\ loop' = [loop EXCEPT ![p][l] = r]
          /\ UNCHANGED <<topic, owner, committed, marker, audited>>
        BY <2>1, <2>2, <3>1
    <3> HIDE DEF l
    <3>3. QED
        BY <3>2, ConsumingCheckOrCall
  <2>3. CASE Stop(p)
      BY <2>1, <2>3, ConsumingStop
  <2>4. QED
      BY <1>5, <2>2, <2>3 DEF Call
<1>6. ASSUME NEW p \in Processes, NEW l \in Loops, Check(p, l) PROVE Consuming'
  <2> DEFINE r == [loop[p][l] EXCEPT !.pc = "checked", !.eligible = Eligible(loop[p][l].event)]
  <2>1. /\ loop[p][l].pc = "marked" /\ UNCHANGED <<topic, owner, committed, marker, audited>>
        /\ loop' = [loop EXCEPT ![p][l] = r]
      BY <1>6 DEF Check, Inv, TypeOK
  <2>2. Eligible(loop[p][l].event) \in BOOLEAN
      BY DEF Eligible
  <2>3. r \in LoopState /\ r.event = loop[p][l].event /\ r.pc = "checked"
      BY <2>2, Typed DEF LoopState
  <2> HIDE DEF r
  <2>4. QED
      BY <2>1, <2>3, ConsumingCheckOrCall
<1>7. ASSUME NEW p \in Processes, NEW l \in Loops, CommitOffset(p, l) PROVE Consuming'
  <2>1. CASE /\ owner[l] = p
             /\ committed' = [committed EXCEPT ![loop[p][l].event.topic] = @ + 1]
             /\ loop' = [loop EXCEPT ![p][l] = FreeLoop] /\ UNCHANGED marker
    <3>1. loop[p][l].pc = "handled" /\ UNCHANGED <<topic, owner, audited>>
        BY <1>7 DEF CommitOffset
    <3>2. QED
        BY <2>1, <3>1, ConsumingCommitOffset
  <2>2. CASE Stop(p) /\ UNCHANGED <<topic, owner, committed, audited>>
      BY <2>2, ConsumingStop
  <2>3. QED
      BY <1>7, <2>1, <2>2 DEF CommitOffset
<1>8. ASSUME NEW p \in Processes, NEW l \in Loops, Consume(p, l) PROVE Consuming'
    BY <1>6, <1>7, <1>8, ConsumingFetch, ConsumingInsertMarker, ConsumingCommitMarker DEF Consume
<1>9. ASSUME NEW d \in Events, PrunePublished(d) PROVE Consuming'
    BY <1>1, <1>9 DEF PrunePublished
<1>10. CASE UNCHANGED vars
    BY <1>1, <1>10 DEF vars
<1>11. QED
    BY <1>2, <1>3, <1>4, <1>5, <1>8, <1>9, <1>10, ConsumingPublish, ConsumingTakeOver,
       ConsumingPruneExpired
    DEF Next, OutboxLoop

-----------------------------------------------------------------------------
(* Executions. *)
(* Which actions change the rows of the operations, the executions, the     *)
(* lists of the sweep, and the rows of the outbox and of the audit log.     *)
OperationFrame ==
    UNCHANGED operation \/ \E o \in Ops : Confirm(o) \/ Run(o) \/ EndOperation(o)

ExecutionFrame ==
    \/ UNCHANGED <<workflow, starts>>
    \/ \E o \in Ops : CloseWorkflow(o)
    \/ \E p \in Processes : SweepStart(p) \/ Call(p)

ListFrame == UNCHANGED listed \/ \E p \in Processes : SweepLoop(p) \/ Stop(p)

RowFrame ==
    \/ UNCHANGED <<outbox, audited>>
    \/ \E o \in Ops : Confirm(o) \/ RequestCancel(o)
    \/ \E p \in Processes : Acknowledge(p)
    \/ \E p \in Processes, l \in Loops : CommitMarker(p, l)
    \/ \E d \in Events : PrunePublished(d)

LEMMA Frames ==
    ASSUME [Next]_vars
    PROVE  OperationFrame /\ ExecutionFrame /\ ListFrame /\ RowFrame
<1> USE DEF world, consumers, counters
<1> DEFINE Framed == OperationFrame /\ ExecutionFrame /\ ListFrame /\ RowFrame
<1>1. ASSUME NEW o \in Ops, Confirm(o) \/ RequestCancel(o) PROVE Framed
  <2>1. OperationFrame
      BY <1>1 DEF OperationFrame, Confirm, RequestCancel
  <2>2. ExecutionFrame
      BY <1>1 DEF ExecutionFrame, Confirm, RequestCancel
  <2>3. ListFrame
      BY <1>1 DEF ListFrame, Confirm, RequestCancel
  <2>4. RowFrame
      BY <1>1 DEF RowFrame, Confirm, RequestCancel
  <2>5. QED
      BY <2>1, <2>2, <2>3, <2>4
<1>2. ASSUME NEW o \in Ops, Workflow(o) PROVE Framed
  <2>1. OperationFrame
      BY <1>2 DEF OperationFrame, Workflow, Run, EndOperation, CloseWorkflow
  <2>2. ExecutionFrame
      BY <1>2 DEF ExecutionFrame, Workflow, Run, EndOperation, CloseWorkflow
  <2>3. ListFrame
      BY <1>2 DEF ListFrame, Workflow, Run, EndOperation, CloseWorkflow
  <2>4. RowFrame
      BY <1>2 DEF RowFrame, Workflow, Run, EndOperation, CloseWorkflow
  <2>5. QED
      BY <2>1, <2>2, <2>3, <2>4
<1>3. ASSUME NEW p \in Processes, OutboxLoop(p) PROVE Framed
  <2>1. OperationFrame
      BY <1>3 DEF OperationFrame, OutboxLoop, Claim, Publish, Acknowledge
  <2>2. ExecutionFrame
      BY <1>3 DEF ExecutionFrame, OutboxLoop, Claim, Publish, Acknowledge
  <2>3. ListFrame
      BY <1>3 DEF ListFrame, OutboxLoop, Claim, Publish, Acknowledge
  <2>4. RowFrame
      BY <1>3 DEF RowFrame, OutboxLoop, Claim, Publish, Acknowledge
  <2>5. QED
      BY <2>1, <2>2, <2>3, <2>4
<1>4. ASSUME NEW p \in Processes, Call(p) PROVE Framed
  <2>1. OperationFrame
      BY <1>4 DEF OperationFrame, Call
  <2>2. ExecutionFrame
      BY <1>4 DEF ExecutionFrame, Call
  <2>3. ListFrame
      BY <1>4 DEF ListFrame, Call
  <2>4. RowFrame
      BY <1>4 DEF RowFrame, Call
  <2>5. QED
      BY <2>1, <2>2, <2>3, <2>4
<1>5. ASSUME NEW p \in Processes, SweepLoop(p) PROVE Framed
  <2>1. OperationFrame
      BY <1>5 DEF OperationFrame, SweepLoop, SweepList, SweepStart
  <2>2. ExecutionFrame
      BY <1>5 DEF ExecutionFrame, SweepLoop, SweepList, SweepStart
  <2>3. ListFrame
      BY <1>5 DEF ListFrame, SweepLoop, SweepList, SweepStart
  <2>4. RowFrame
      BY <1>5 DEF RowFrame, SweepLoop, SweepList, SweepStart
  <2>5. QED
      BY <2>1, <2>2, <2>3, <2>4
<1>6. ASSUME NEW p \in Processes, Crash(p) PROVE Framed
  <2>1. OperationFrame
      BY <1>6 DEF OperationFrame, Crash
  <2>2. ExecutionFrame
      BY <1>6 DEF ExecutionFrame, Crash
  <2>3. ListFrame
      BY <1>6 DEF ListFrame, Crash
  <2>4. RowFrame
      BY <1>6 DEF RowFrame, Crash
  <2>5. QED
      BY <2>1, <2>2, <2>3, <2>4
<1>7. ASSUME NEW p \in Processes, NEW l \in Loops, Consume(p, l) PROVE Framed
  <2>1. OperationFrame
      BY <1>7 DEF OperationFrame, Consume, Fetch, InsertMarker, Check, CommitMarker, CommitOffset
  <2>2. ExecutionFrame
      BY <1>7 DEF ExecutionFrame, Consume, Fetch, InsertMarker, Check, CommitMarker, CommitOffset
  <2>3. ListFrame
      BY <1>7 DEF ListFrame, Consume, Fetch, InsertMarker, Check, CommitMarker, CommitOffset
  <2>4. RowFrame
      BY <1>7 DEF RowFrame, Consume, Fetch, InsertMarker, Check, CommitMarker, CommitOffset
  <2>5. QED
      BY <2>1, <2>2, <2>3, <2>4
<1>8. ASSUME NEW p \in Processes, NEW l \in Loops, TakeOver(p, l) PROVE Framed
  <2>1. OperationFrame
      BY <1>8 DEF OperationFrame, TakeOver
  <2>2. ExecutionFrame
      BY <1>8 DEF ExecutionFrame, TakeOver
  <2>3. ListFrame
      BY <1>8 DEF ListFrame, TakeOver
  <2>4. RowFrame
      BY <1>8 DEF RowFrame, TakeOver
  <2>5. QED
      BY <2>1, <2>2, <2>3, <2>4
<1>9. ASSUME NEW e \in Events, PrunePublished(e) \/ PruneExpired(e) PROVE Framed
  <2>1. OperationFrame
      BY <1>9 DEF OperationFrame, PrunePublished, PruneExpired
  <2>2. ExecutionFrame
      BY <1>9 DEF ExecutionFrame, PrunePublished, PruneExpired
  <2>3. ListFrame
      BY <1>9 DEF ListFrame, PrunePublished, PruneExpired
  <2>4. RowFrame
      BY <1>9 DEF RowFrame, PrunePublished, PruneExpired
  <2>5. QED
      BY <2>1, <2>2, <2>3, <2>4
<1>10. CASE UNCHANGED vars
  <2>1. OperationFrame
      BY <1>10 DEF OperationFrame, vars
  <2>2. ExecutionFrame
      BY <1>10 DEF ExecutionFrame, vars
  <2>3. ListFrame
      BY <1>10 DEF ListFrame, vars
  <2>4. RowFrame
      BY <1>10 DEF RowFrame, vars
  <2>5. QED
      BY <2>1, <2>2, <2>3, <2>4
<1>11. QED
    BY <1>1, <1>2, <1>3, <1>4, <1>5, <1>6, <1>7, <1>8, <1>9, <1>10, Zenon DEF Next

Executed ==
    \A o \in Ops : /\ starts[o] = IF workflow[o] = "none" THEN 0 ELSE 1
                   /\ workflow[o] # "none" => operation[o] # "quoted"

Listed == \A p \in Processes : \A o \in listed[p] : operation[o] # "quoted"

AboutToStart(r) == r.pc = "checked" /\ r.eligible /\ r.event.topic = "confirmed"

Eligibly ==
    \A p \in Processes :
        AboutToStart(loop[p]["starter"]) => operation[loop[p]["starter"].event.op] # "quoted"

LEMMA StartingParts == Starting <=> Executed /\ Listed /\ Eligibly
    BY Zenon DEF Starting, Executed, Listed, Eligibly, AboutToStart

LEMMA Started ==
    ASSUME Inv, NEW o \in Ops, StartOperation(o), operation[o] # "quoted", UNCHANGED operation
    PROVE  Executed'
<1>1. workflow \in [Ops -> {"none", "open", "closed"}] /\ starts \in [Ops -> Nat] /\ Executed
    BY StartingParts DEF Inv, TypeOK
<1>2. CASE workflow[o] = "none"
  <2>1. workflow' = [workflow EXCEPT ![o] = "open"] /\ starts' = [starts EXCEPT ![o] = @ + 1]
      BY <1>2 DEF StartOperation
  <2>2. QED
      BY <1>1, <1>2, <2>1 DEF Executed
<1>3. CASE workflow[o] # "none"
    BY <1>1, <1>3 DEF StartOperation, Executed
<1>4. QED
    BY <1>2, <1>3

(* Only what moves on from "quoted" matters to what is about to start.      *)
LEMMA AboutToStartKept ==
    ASSUME Inv, \A o \in Ops : operation[o] # "quoted" => operation'[o] # "quoted",
           \A p \in Processes : \/ loop'[p]["starter"] = loop[p]["starter"]
                                \/ loop'[p]["starter"].pc # "checked"
    PROVE  Eligibly'
<1> SUFFICES ASSUME NEW p \in Processes, AboutToStart(loop'[p]["starter"])
             PROVE  operation'[loop'[p]["starter"].event.op] # "quoted"
    BY DEF Eligibly
<1>1. loop'[p]["starter"] = loop[p]["starter"] /\ loop[p]["starter"].pc = "checked"
    BY DEF AboutToStart
<1>2. loop[p]["starter"].event.op \in Ops
    BY <1>1, OneLoopPerTopic, EventTopic DEF Inv, Reading, Reads
<1>3. operation[loop[p]["starter"].event.op] # "quoted"
    BY <1>1, StartingParts DEF Inv, Eligibly
<1>4. QED
    BY <1>1, <1>2, <1>3

LEMMA ListedKept ==
    ASSUME Inv, \A o \in Ops : operation[o] # "quoted" => operation'[o] # "quoted",
           \A p \in Processes : listed'[p] \subseteq listed[p] \cup StaleConfirmed
    PROVE  Listed'
    BY StartingParts DEF Inv, TypeOK, Listed, StaleConfirmed

LEMMA StartingNext ==
    ASSUME Inv, [Next]_vars
    PROVE  Starting'
<1> USE DEF world, consumers, counters
<1>1. \A o \in Ops : operation[o] # "quoted" => operation'[o] # "quoted"
  <2>1. CASE UNCHANGED operation
      BY <2>1
  <2>2. ASSUME NEW o \in Ops, Confirm(o) \/ Run(o) \/ EndOperation(o)
        PROVE  \A n \in Ops : operation[n] # "quoted" => operation'[n] # "quoted"
      BY <2>2 DEF Inv, TypeOK, Confirm, Run, EndOperation
  <2>3. QED
      BY <2>1, <2>2, Frames DEF OperationFrame
<1>2. Executed'
  <2>1. CASE UNCHANGED <<workflow, starts>>
      BY <1>1, <2>1, StartingParts DEF Inv, Executed
  <2>2. ASSUME NEW o \in Ops, CloseWorkflow(o) PROVE Executed'
      BY <2>2, StartingParts DEF Inv, TypeOK, Executed, CloseWorkflow
  <2>3. ASSUME NEW p \in Processes, SweepStart(p) PROVE Executed'
    <3>1. PICK o \in listed[p] : StartOperation(o) /\ UNCHANGED operation
        BY <2>3 DEF SweepStart
    <3>2. o \in Ops /\ operation[o] # "quoted"
        BY <3>1, StartingParts DEF Inv, TypeOK, Listed
    <3>3. QED
        BY <3>1, <3>2, Started
  <2>4. ASSUME NEW p \in Processes, Call(p) PROVE Executed'
    <3> DEFINE r == loop[p]["starter"]
    <3>1. r.pc = "checked" /\ r.event.op \in Ops
        BY <2>4, OneLoopPerTopic, EventTopic DEF Call, Inv, Reading, Reads
    <3>2. CASE StartOperation(r.event.op) /\ UNCHANGED operation /\ AboutToStart(r)
      <4>1. operation[r.event.op] # "quoted"
          BY <3>2, StartingParts DEF Inv, Eligibly
      <4>2. QED
          BY <3>1, <3>2, <4>1, Started
    <3>3. CASE UNCHANGED <<workflow, starts>>
        BY <2>1, <3>3
    <3>4. QED
        BY <2>4, <3>1, <3>2, <3>3 DEF Call, AboutToStart
  <2>5. QED
      BY <2>1, <2>2, <2>3, <2>4, Frames DEF ExecutionFrame
<1>3. Listed'
  <2>1. ASSUME NEW p \in Processes, SweepLoop(p) PROVE Listed'
    <3>1. \A q \in Processes : listed'[q] \subseteq listed[q] \cup StaleConfirmed
        BY <2>1 DEF SweepLoop, SweepList, SweepStart, Inv, TypeOK
    <3>2. QED
        BY <1>1, <3>1, ListedKept
  <2>2. ASSUME NEW p \in Processes, Stop(p) PROVE Listed'
    <3>1. \A q \in Processes : listed'[q] \subseteq listed[q] \cup StaleConfirmed
        BY <2>2, StopEffect
    <3>2. QED
        BY <1>1, <3>1, ListedKept
  <2>3. CASE UNCHANGED listed
      BY <1>1, <2>3, ListedKept
  <2>4. QED
      BY <2>1, <2>2, <2>3, Frames DEF ListFrame
<1>4. Eligibly'
  <2>1. ASSUME NEW p \in Processes, NEW l \in Loops, Check(p, l) PROVE Eligibly'
    <3> SUFFICES ASSUME NEW q \in Processes, AboutToStart(loop'[q]["starter"])
                 PROVE  operation[loop'[q]["starter"].event.op] # "quoted"
        BY <2>1 DEF Eligibly, Check
    <3> DEFINE r == [loop[p][l] EXCEPT !.pc = "checked", !.eligible = Eligible(loop[p][l].event)]
    <3>1. l = "starter" /\ loop' = [loop EXCEPT ![p][l] = r]
        BY <2>1 DEF Check, Inv, TypeOK
    <3>2. CASE q = p
      <4>1. /\ loop[p][l] \in LoopState /\ r.event = loop[p][l].event
            /\ r.eligible = Eligible(loop[p][l].event)
          BY Typed DEF LoopState
      <4>2. loop'[p][l] = r
          BY <3>1 DEF Inv, TypeOK
      <4> HIDE DEF r
      <4>3. Eligible(loop[p][l].event) /\ loop[p][l].event.topic = "confirmed"
          BY <3>1, <3>2, <4>1, <4>2 DEF AboutToStart
      <4>4. operation[loop[p][l].event.op] = "confirmed"
          BY <4>3 DEF Eligible
      <4>5. QED
          BY <3>1, <3>2, <4>1, <4>2, <4>4
    <3>3. CASE q # p
      <4>1. loop'[q] = loop[q]
          BY <3>1, <3>3 DEF Inv, TypeOK
      <4>2. QED
          BY <4>1, StartingParts DEF Inv, Eligibly
    <3>4. QED
        BY <3>2, <3>3
  <2>2. ASSUME NEW p \in Processes, Stop(p) PROVE Eligibly'
    <3>1. \A q \in Processes : \/ loop'[q]["starter"] = loop[q]["starter"]
                               \/ loop'[q]["starter"].pc # "checked"
        BY <2>2, StopEffect, OneLoopPerTopic DEF FreeLoop
    <3>2. QED
        BY <1>1, <3>1, AboutToStartKept
  <2>3. ASSUME NEW p \in Processes, NEW l \in Loops, NEW r \in LoopState, r.pc # "checked",
               loop' = [loop EXCEPT ![p][l] = r]
        PROVE  Eligibly'
    <3>1. \A q \in Processes : \/ loop'[q]["starter"] = loop[q]["starter"]
                               \/ loop'[q]["starter"].pc # "checked"
        BY <2>3, LoopStep, OneLoopPerTopic
    <3>2. QED
        BY <1>1, <3>1, AboutToStartKept
  <2>4. ASSUME NEW p \in Processes, NEW l \in Loops,
               NEW pc \in {"marked", "effected", "handled"},
               loop' = [loop EXCEPT ![p][l].pc = pc]
        PROVE  Eligibly'
    <3> DEFINE r == [loop[p][l] EXCEPT !.pc = pc]
    <3>1. r \in LoopState /\ r.pc # "checked"
        BY Typed DEF LoopState
    <3>2. loop' = [loop EXCEPT ![p][l] = r]
        BY <2>4
    <3> HIDE DEF r
    <3>3. QED
        BY <2>3, <3>1, <3>2
  <2>5. ASSUME NEW p \in Processes, NEW l \in Loops, Fetch(p, l) PROVE Eligibly'
    <3>1. PICK t \in Subscribed(l) :
             /\ committed[t] < Len(topic[t])
             /\ loop' = [loop EXCEPT ![p][l] = [pc |-> "fetched", event |-> topic[t][committed[t] + 1],
                                                eligible |-> FALSE]]
        BY <2>5 DEF Fetch
    <3> DEFINE r == [pc |-> "fetched", event |-> topic[t][committed[t] + 1], eligible |-> FALSE]
    <3>2. topic[t][committed[t] + 1] \in Events
        BY <3>1, Typed, OneLoopPerTopic
    <3>3. r \in LoopState /\ r.pc # "checked" /\ loop' = [loop EXCEPT ![p][l] = r]
        BY <3>1, <3>2 DEF LoopState
    <3> HIDE DEF r
    <3>4. QED
        BY <2>3, <3>3
  <2>6. ASSUME NEW p \in Processes, Call(p) PROVE Eligibly'
    <3>1. CASE Stop(p)
        BY <2>2, <3>1
    <3>2. CASE loop' = [loop EXCEPT ![p]["starter"].pc = "effected"]
        BY <2>4, <3>2, OneLoopPerTopic
    <3>3. QED
        BY <2>6, <3>1, <3>2 DEF Call
  <2>7. ASSUME NEW p \in Processes, NEW l \in Loops, CommitOffset(p, l) PROVE Eligibly'
    <3>1. CASE Stop(p)
        BY <2>2, <3>1
    <3>2. CASE loop' = [loop EXCEPT ![p][l] = FreeLoop]
      <4>1. \A q \in Processes : \/ loop'[q]["starter"] = loop[q]["starter"]
                                 \/ loop'[q]["starter"].pc # "checked"
          BY <3>2, LoopFreed, OneLoopPerTopic DEF FreeLoop
      <4>2. QED
          BY <1>1, <4>1, AboutToStartKept
    <3>3. QED
        BY <2>7, <3>1, <3>2 DEF CommitOffset
  <2>8. ASSUME NEW p \in Processes, NEW l \in Loops, InsertMarker(p, l) \/ CommitMarker(p, l)
        PROVE  Eligibly'
      BY <2>4, <2>8 DEF InsertMarker, CommitMarker
  <2>9. CASE UNCHANGED loop
      BY <1>1, <2>9, AboutToStartKept
  <2>10. \/ UNCHANGED loop
         \/ \E p \in Processes : Stop(p) \/ Call(p)
         \/ \E p \in Processes, l \in Loops : \/ Check(p, l) \/ Fetch(p, l) \/ CommitOffset(p, l)
                                              \/ InsertMarker(p, l) \/ CommitMarker(p, l)
    BY DEF Next, Confirm, RequestCancel, Workflow, Run, EndOperation, CloseWorkflow,
           OutboxLoop, Claim, Publish, Acknowledge, SweepLoop, SweepList, SweepStart, Crash,
           Consume, TakeOver, PrunePublished, PruneExpired, vars
  <2>11. QED
      BY <2>1, <2>2, <2>5, <2>6, <2>7, <2>8, <2>9, <2>10
<1>5. QED
  <2>1. Starting' <=> (Executed /\ Listed /\ Eligibly)'
      BY Zenon DEF Starting, Executed, Listed, Eligibly, AboutToStart
  <2>2. QED
      BY <1>2, <1>3, <1>4, <2>1

-----------------------------------------------------------------------------
LEMMA InvNext == Inv /\ [Next]_vars => Inv'
    BY TypeNext, WrittenNext, ConsumingNext, StartingNext DEF Inv, Consuming

LEMMA Invariance == Spec => []Inv
    BY InvInit, InvNext, PTL DEF Spec

(* Every variable of the outbox, the relays, the broker and the consumers   *)
(* keeps its type; no committed offset is beyond the end of its topic.      *)
THEOREM DeliveryTypeCorrect == Spec => []TypeOK
<1>1. Inv => TypeOK
    BY DEF Inv
<1>2. QED
    BY <1>1, Invariance, PTL

(* Whatever processes crash and whatever partitions change hands, no offset *)
(* is committed over a record whose event has not been processed, and an    *)
(* operation is executed at most once, and only after its confirmation.     *)
THEOREM DeliveryDeliveredOnce == Spec => []DeliveredOnce
<1>1. Inv => StartedOnce
  <2> SUFFICES ASSUME Inv, NEW o \in Ops
               PROVE  starts[o] <= 1 /\ (starts[o] = 1 => operation[o] # "quoted")
      BY DEF StartedOnce
  <2>1. /\ starts[o] = IF workflow[o] = "none" THEN 0 ELSE 1
        /\ workflow[o] # "none" => operation[o] # "quoted"
      BY StartingParts DEF Inv, Executed
  <2>2. QED
      BY <2>1
<1>2. Inv => DeliveredOnce
    BY <1>1 DEF Inv, DeliveredOnce
<1>3. QED
    BY <1>2, Invariance, PTL

(* A row is marked as published, and pruned, only when the broker has its   *)
(* record.                                                                  *)
THEOREM DeliveryNothingLost == Spec => []NothingLost
<1>1. Inv => NothingLost
    BY DEF Inv, Written
<1>2. QED
    BY <1>1, Invariance, PTL

(* The effect of an event in the database takes place at most once, and the *)
(* audit trail refines exactly-once delivery as far as safety goes: it only *)
(* takes the effect of events that a transaction has committed.             *)
THEOREM DeliveryAuditNeverTwice == Spec => EO!Init /\ [][EO!Next]_(EO!vars)
<1> DEFINE sent == {e \in AuditEvents : outbox[e] # "absent"}
           effect == [e \in AuditEvents |-> audited[e]]
<1>1. Init => EO!Init
    BY DEF Init, EO!Init, AuditEvents
<1>2. ASSUME Inv, [Next]_vars PROVE [EO!Next]_(EO!vars)
  <2> USE DEF world, consumers, counters
  <2>1. CASE UNCHANGED <<sent, effect>>
      BY <2>1 DEF EO!vars
  <2>2. ASSUME NEW o \in Ops, Confirm(o) \/ RequestCancel(o) PROVE [EO!Next]_(EO!vars)
    <3>1. UNCHANGED effect
        BY <2>2 DEF Confirm, RequestCancel
    <3>2. CASE Confirm(o)
      <4> DEFINE S == {Event(o, "audit")}
      <4>1. S \subseteq AuditEvents \ sent /\ S # {}
          BY <1>2, <3>2, EventTopic DEF Confirm, Inv, Written, Unwritten, AuditEvents, Topics
      <4>2. sent' = sent \cup S
        <5>1. \A e \in Events : outbox'[e] # "absent" <=>
                  outbox[e] # "absent" \/ e \in {Event(o, "confirmed"), Event(o, "audit")}
            BY <3>2 DEF Confirm, Write
        <5>2. Event(o, "confirmed") \notin AuditEvents /\ Event(o, "audit") \in AuditEvents
            BY EventTopic DEF AuditEvents, Topics
        <5>3. \A e : e \in sent' <=> e \in sent \cup S
            BY <5>1, <5>2 DEF AuditEvents
        <5>4. QED
            BY <5>3
      <4>3. EO!Send(S)
          BY <3>1, <4>1, <4>2 DEF EO!Send
      <4>4. S \in SUBSET AuditEvents
          BY <4>1
      <4>5. QED
          BY <4>3, <4>4, Zenon DEF EO!Next
    <3>3. CASE RequestCancel(o)
      <4>1. \A e \in Events : e.topic # "control" => outbox'[e] = outbox[e]
          BY <3>3, EventTopic DEF RequestCancel, Write, Topics
      <4>2. \A e : e \in sent' <=> e \in sent
          BY <4>1 DEF AuditEvents
      <4>3. QED
          BY <2>1, <3>1, <4>2
    <3>4. QED
        BY <2>2, <3>2, <3>3
  <2>3. ASSUME NEW p \in Processes, NEW l \in Loops, CommitMarker(p, l)
        PROVE  [EO!Next]_(EO!vars)
    <3> DEFINE e == loop[p][l].event
    <3>1. UNCHANGED outbox
        BY <2>3 DEF CommitMarker
    <3>2. UNCHANGED sent
        BY <3>1
    <3>3. CASE l # "audit"
        BY <2>1, <2>3, <3>2, <3>3 DEF CommitMarker
    <3>4. CASE l = "audit"
      <4>1. loop[p][l].pc \in {"marked", "effected"} /\ audited' = [audited EXCEPT ![e] = @ + 1]
          BY <2>3, <3>4 DEF CommitMarker
      <4>2. e \in AuditEvents /\ Published(e) /\ marker[e] = p /\ e.topic \in Topics
          BY <1>2, <3>4, <4>1, OneLoopPerTopic DEF Inv, Reading, Reads, Marking, Marks, AuditEvents
      <4>3. outbox[e] # "absent"
          BY <1>2, <4>2 DEF Inv, Written, Records, Published
      <4>4. audited[e] = 0
          BY <1>2, <4>2, Names DEF Inv, Auditing, AuditEvents, Processed
      <4>5. effect' = [effect EXCEPT ![e] = 1]
        <5>1. audited \in [Events -> Nat] /\ AuditEvents \subseteq Events
            BY <1>2 DEF Inv, TypeOK, AuditEvents
        <5>2. \A d \in AuditEvents : audited'[d] = IF d = e THEN 1 ELSE audited[d]
          <6> HIDE DEF e
          <6>1. QED
              BY <4>1, <4>2, <4>4, <5>1
        <5>3. effect' = [d \in AuditEvents |-> audited'[d]]
            BY DEF AuditEvents
        <5> HIDE DEF e
        <5>4. QED
            BY <4>2, <5>2, <5>3
      <4>6. PICK d \in AuditEvents : d = e
          BY <4>2
      <4>7. EO!Take(d)
        <5> HIDE DEF e
        <5>1. QED
            BY <3>2, <4>3, <4>4, <4>5, <4>6 DEF EO!Take
      <4>8. QED
          BY <4>7, Zenon DEF EO!Next
    <3>5. QED
        BY <3>3, <3>4
  <2>4. ASSUME UNCHANGED audited,
               \A e \in Events : outbox'[e] = "absent" <=> outbox[e] = "absent"
        PROVE  [EO!Next]_(EO!vars)
    <3>1. sent' = sent /\ effect' = effect
        BY <2>4 DEF AuditEvents
    <3>2. QED
        BY <2>1, <3>1
  <2>5. ASSUME NEW p \in Processes, Acknowledge(p) PROVE [EO!Next]_(EO!vars)
    <3>1. outbox[relay[p].event] # "absent" /\ relay[p].event \in Events
        BY <1>2, <2>5 DEF Acknowledge, Inv, Written, Claims
    <3>2. \A e \in Events : outbox'[e] = "absent" <=> outbox[e] = "absent"
        BY <1>2, <2>5, <3>1 DEF Acknowledge, Inv, TypeOK
    <3>3. QED
        BY <2>4, <2>5, <3>2 DEF Acknowledge
  <2>6. ASSUME NEW d \in Events, PrunePublished(d) PROVE [EO!Next]_(EO!vars)
    <3>1. \A e \in Events : outbox'[e] = "absent" <=> outbox[e] = "absent"
        BY <1>2, <2>6 DEF PrunePublished, Prunable, Inv, TypeOK
    <3>2. QED
        BY <2>4, <2>6, <3>1 DEF PrunePublished
  <2>7. CASE UNCHANGED <<outbox, audited>>
      BY <2>4, <2>7
  <2>8. QED
      BY <1>2, <2>2, <2>3, <2>5, <2>6, <2>7, Frames DEF RowFrame
<1>3. QED
    BY <1>1, <1>2, Invariance, PTL DEF Spec
=============================================================================
