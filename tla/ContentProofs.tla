---------------------------- MODULE ContentProofs ---------------------------
(***************************************************************************)
(* Proofs about what is shown whole or not at all.  ScriptSource: its      *)
(* types, that what is published is whole, and that one call at a time     *)
(* writes for a project.  Packages: that a package is published with all   *)
(* its objects and a cancelled one leaves none.  Projects: that nothing    *)
(* works where nobody sees it, and that a request has one answer.          *)
(* ProjectCopy: that a copy is shown whole, one that was cancelled never,  *)
(* and that one worker at a time writes it.                                *)
(***************************************************************************)
EXTENDS ScriptSource, Packages, Projects, ProjectCopy, FiniteSetTheorems, TLAPS

-----------------------------------------------------------------------------
(* The inductive invariant *)

Ref == Keys \cup {None}
Owners == Calls \cup {0}
States == {"none", "started", "confirmed", "removed"}

Asked == [action : {"create", "reorder", "delete"}, source : Ref, expected : Nat, base : Ref]
Writes == [status : {"none", "pending", "completed", "cancelled"}, of : Ref, no : Nat,
           cancel : BOOLEAN, needs : BOOLEAN, io : {"idle", "running", "ended"},
           owner : Owners]
Claimed == {"object", "put", "confirm", "finish", "exit", "lost", "dead"}
CallStates == [pc : {"none", "begin", "claim", "reuse"} \cup Claimed, key : Ref, part : Nat,
               stopped : BOOLEAN, complete : BOOLEAN]
Removing == {"look", "erase", "gone"}
ControlStates == [pc : {"none", "read", "again", "stop", "join", "prove", "finish"} \cup Removing,
                  key : Ref, owner : Owners, part : Nat,
                  seen : {<<>>} \cup [Objects -> States]]

Types ==
    /\ head \in [revision : Nat, draft : Ref]
    /\ version \in [Keys -> [no : Nat, sources : SUBSET Keys]]
    /\ request \in [Keys -> Asked \cup {NoRequest}]
    /\ write \in [Keys -> Writes]
    /\ object \in [Keys -> [Objects -> States]]
    /\ stored \subseteq Keys \X Objects /\ late \subseteq Keys \X Objects
    /\ call \in [Calls -> CallStates]
    /\ control \in [Controls -> ControlStates]
    /\ faults \in 0 .. MaxFaults

(* A request builds on a version that is there, and so does the head; a     *)
(* version's number is no greater than that of the versions.                *)
HeadOK == head.draft \in Versions \cup {None}
RequestOK(k) == request[k] # NoRequest => request[k].base \in Versions \cup {None}
NumberOK(v) == version[v].no <= Cardinality(Versions)

(* A write that was never begun is untouched; one that was names its own    *)
(* version or an earlier one with the same sources; only a cancelled one    *)
(* may lose what it confirmed.                                              *)
WriteOK(k) ==
    /\ write[k].status = "none" => write[k] = NoWrite
    /\ write[k].status # "none" => request[k] # NoRequest /\ write[k].of \in Versions \cup {k}
    /\ write[k].cancel => write[k].status \in {"pending", "cancelled"}
    /\ k \in Versions => write[k].status = "completed"
    /\ write[k].status = "pending" /\ write[k].of = k =>
          \A v \in Versions : version[v].sources # Manifest(k)
    /\ ~write[k].cancel => \A o \in Objects : object[k][o] = "confirmed" => <<k, o>> \in stored

(* A call that has claimed its write is the owner of it until it has said   *)
(* that it ends, and the write is pending until the call has completed it.  *)
CallOK(c) ==
    LET k == call[c].key IN
    /\ call[c].pc # "none" => k \in Keys /\ request[k] # NoRequest
    /\ call[c].pc = "reuse" => write[k].status # "none" /\ write[k].of # k
    /\ call[c].pc \in Claimed \cup {"claim"} => write[k].of = k
    /\ call[c].pc \in Claimed =>
          /\ write[k].owner = c /\ write[k].io = "running"
          /\ ~call[c].complete => write[k].status = "pending"
    /\ call[c].complete => call[c].pc \in {"exit", "lost", "dead"}
    /\ call[c].pc \in {"object", "put", "confirm"} => call[c].part \in Objects
    /\ call[c].pc = "confirm" => Object(c) \in stored

(* A control that removes objects is that of a cancelled write nobody has   *)
(* claimed; one that proves a stop names a call that is over.               *)
Unclaimed(k) == \A c \in Calls : call[c].pc \in Claimed => call[c].key # k
ControlOK(d) ==
    LET k == control[d].key IN
    /\ control[d].pc # "none" => k \in Keys /\ write[k].status # "none"
    /\ control[d].pc \in {"stop", "join", "prove"} => control[d].owner \in Calls
    /\ control[d].pc = "prove" => call[control[d].owner].pc \in {"none", "lost"}
    /\ control[d].pc \in Removing =>
          /\ control[d].part \in Objects
          /\ write[k].cancel /\ write[k].of = k /\ Unclaimed(k)

IInv ==
    /\ Types /\ HeadOK
    /\ \A k \in Keys : RequestOK(k) /\ WriteOK(k)
    /\ \A v \in Versions : NumberOK(v)
    /\ \A c \in Calls : CallOK(c)
    /\ \A d \in Controls : ControlOK(d)
    /\ PublishedWhole /\ PendingCurrent /\ VersionsDiffer

-----------------------------------------------------------------------------
(* What the helpers do to one row of a variable *)

Places == {"none", "begin", "claim", "reuse"} \cup Claimed
Stages == {"none", "read", "again", "stop", "join", "prove", "finish"} \cup Removing

(* A call is at another place. *)
Walks(c, pc, part, complete) ==
    /\ call' \in [Calls -> CallStates]
    /\ \A e \in Calls \ {c} : call'[e] = call[e]
    /\ call'[c].pc = pc /\ call'[c].part = part /\ call'[c].complete = complete
    /\ call'[c].key = call[c].key

LEMMA WalkIs ==
    ASSUME call \in [Calls -> CallStates], NEW c \in Calls, NEW q \in CallStates,
           call' = [call EXCEPT ![c] = q], q.key = call[c].key
    PROVE Walks(c, q.pc, q.part, q.complete)
BY DEF Walks

LEMMA GoWalks ==
    ASSUME call \in [Calls -> CallStates], NEW c \in Calls, NEW to \in Places, Go(c, to)
    PROVE Walks(c, to, call[c].part, call[c].complete)
<1> DEFINE q == [call[c] EXCEPT !.pc = to]
<1>1. call[c] \in CallStates
    OBVIOUS
<1>2. q \in CallStates
    BY <1>1, Zenon DEF CallStates, Places
<1>3. /\ q.pc = to /\ q.key = call[c].key /\ q.part = call[c].part
      /\ q.complete = call[c].complete
    BY <1>1 DEF CallStates
<1>4. call' = [call EXCEPT ![c] = q]
    BY DEF Go
<1> HIDE DEF q
<1>5. Walks(c, q.pc, q.part, q.complete)
    BY <1>2, <1>3, <1>4, WalkIs
<1> QED
    BY <1>3, <1>5

LEMMA PartWalks ==
    ASSUME call \in [Calls -> CallStates], NEW c \in Calls, NEW to \in Places, NEW m \in Nat,
           call' = [call EXCEPT ![c].pc = to, ![c].part = m]
    PROVE Walks(c, to, m, call[c].complete)
<1> DEFINE q == [call[c] EXCEPT !.pc = to, !.part = m]
<1>1. call[c] \in CallStates
    OBVIOUS
<1>2. q \in CallStates
    BY <1>1, Zenon DEF CallStates, Places
<1>3. /\ q.pc = to /\ q.key = call[c].key /\ q.part = m /\ q.complete = call[c].complete
    BY <1>1 DEF CallStates
<1>4. call' = [call EXCEPT ![c] = q]
    BY DEF CallStates
<1> HIDE DEF q
<1>5. Walks(c, q.pc, q.part, q.complete)
    BY <1>2, <1>3, <1>4, WalkIs
<1> QED
    BY <1>3, <1>5

LEMMA CompleteWalks ==
    ASSUME call \in [Calls -> CallStates], NEW c \in Calls,
           call' = [call EXCEPT ![c].pc = "exit", ![c].complete = TRUE]
    PROVE Walks(c, "exit", call[c].part, TRUE)
<1> DEFINE q == [call[c] EXCEPT !.pc = "exit", !.complete = TRUE]
<1>1. call[c] \in CallStates
    OBVIOUS
<1>2. q \in CallStates
    BY <1>1, Zenon DEF CallStates, Claimed
<1>3. q.pc = "exit" /\ q.key = call[c].key /\ q.part = call[c].part /\ q.complete = TRUE
    BY <1>1 DEF CallStates
<1>4. call' = [call EXCEPT ![c] = q]
    BY DEF CallStates
<1> HIDE DEF q
<1>5. Walks(c, q.pc, q.part, q.complete)
    BY <1>2, <1>3, <1>4, WalkIs
<1> QED
    BY <1>3, <1>5

(* A call is over, or has no entry yet. *)
LEMMA Idle ==
    /\ NoCall \in CallStates /\ NoCall.pc = "none" /\ ~NoCall.complete
    /\ NoControl \in ControlStates /\ NoControl.pc = "none" /\ NoControl.owner = 0 /\ NoWrite \in Writes
    /\ NoWrite.status = "none" /\ NoWrite.owner = 0 /\ ~NoWrite.cancel /\ NoWrite.of = None
<1>1. NoCall \in CallStates
    BY Zenon DEF NoCall, CallStates, Ref
<1>2. NoControl \in ControlStates
    BY Zenon DEF NoControl, ControlStates, Ref, Owners
<1>3. NoWrite \in Writes
    BY Zenon DEF NoWrite, Writes, Ref, Owners
<1> QED
    BY <1>1, <1>2, <1>3 DEF NoCall, NoControl, NoWrite

(* The row of one request is another one. *)
Writ(k, w) ==
    /\ write' \in [Keys -> Writes] /\ write'[k] = w
    /\ \A j \in Keys \ {k} : write'[j] = write[j]

LEMMA WritIs ==
    ASSUME write \in [Keys -> Writes], NEW k \in Keys, NEW w \in Writes,
           write' = [write EXCEPT ![k] = w]
    PROVE Writ(k, w)
BY DEF Writ

(* A control is at another stage. *)
Turns(d, q) ==
    /\ control' \in [Controls -> ControlStates] /\ control'[d] = q
    /\ \A e \in Controls \ {d} : control'[e] = control[e]

LEMMA TurnIs ==
    ASSUME control \in [Controls -> ControlStates], NEW d \in Controls,
           NEW q \in ControlStates, control' = [control EXCEPT ![d] = q]
    PROVE Turns(d, q)
BY DEF Turns

LEMMA StepTurns ==
    ASSUME control \in [Controls -> ControlStates], NEW d \in Controls, NEW to \in Stages,
           Step(d, to)
    PROVE \E q \in ControlStates : /\ Turns(d, q) /\ q.pc = to /\ q.key = control[d].key
                                   /\ q.owner = control[d].owner /\ q.part = control[d].part
<1> DEFINE q == [control[d] EXCEPT !.pc = to]
<1>1. control[d] \in ControlStates
    OBVIOUS
<1>2. q \in ControlStates
    BY <1>1, Zenon DEF ControlStates, Stages
<1>3. /\ q.pc = to /\ q.key = control[d].key /\ q.owner = control[d].owner
      /\ q.part = control[d].part
    BY <1>1 DEF ControlStates
<1>4. control' = [control EXCEPT ![d] = q]
    BY DEF Step
<1> HIDE DEF q
<1> QED
    BY <1>2, <1>3, <1>4, TurnIs

(* The state of one object is another one. *)
Sets(k, o, to) ==
    /\ object' \in [Keys -> [Objects -> States]] /\ object'[k][o] = to
    /\ \A j \in Keys, p \in Objects : j # k \/ p # o => object'[j][p] = object[j][p]

LEMMA SetIs ==
    ASSUME object \in [Keys -> [Objects -> States]], NEW k \in Keys, NEW o \in Objects,
           NEW to \in States, object' = [object EXCEPT ![k][o] = to]
    PROVE Sets(k, o, to)
BY DEF Sets

LEMMA VersionsFinite == IsFiniteSet(Versions) /\ Cardinality(Versions) \in Nat
<1>1. Versions \subseteq Keys
    BY DEF Versions
<1> QED
    BY <1>1, SourceAssumption, FS_Subset, FS_CardinalityType

-----------------------------------------------------------------------------
(* What a step leaves true of the rows it does not touch *)

(* What a request was admitted for stays what it is, and a cancellation is  *)
(* never taken back; what a user asked for stays.                           *)
GoesOn(k) ==
    write[k].status # "none" =>
        /\ write'[k].status # "none" /\ write'[k].of = write[k].of
        /\ write[k].cancel => write'[k].cancel
StillAsked == \A k \in Keys : request[k] # NoRequest => request'[k] = request[k]

LEMMA CallKept ==
    ASSUME IInv, NEW e \in Calls,
           /\ call'[e].pc = call[e].pc /\ call'[e].key = call[e].key
           /\ call'[e].part = call[e].part /\ call'[e].complete = call[e].complete,
           StillAsked, \A k \in Keys : GoesOn(k),
           call[e].pc \in Claimed =>
               /\ write'[call[e].key].owner = write[call[e].key].owner
               /\ write'[call[e].key].io = write[call[e].key].io
               /\ write'[call[e].key].status = write[call[e].key].status,
           call[e].pc = "confirm" /\ Object(e) \in stored =>
               <<call[e].key, call[e].part>> \in stored'
    PROVE CallOK(e)'
<1> DEFINE k == call[e].key
<1>1. CallOK(e) /\ Types
    BY DEF IInv
<1>2. CASE call[e].pc = "none"
    BY <1>1, <1>2 DEF CallOK, Claimed
<1>3. CASE call[e].pc # "none"
  <2>1. k \in Keys /\ request[k] # NoRequest /\ GoesOn(k) /\ WriteOK(k) /\ call'[e].key = k
      BY <1>1, <1>3 DEF CallOK, IInv
  <2>2. request'[k] # NoRequest
      BY <2>1 DEF StillAsked
  <2>3. call[e].pc \in Claimed \cup {"claim"} => write[k].status # "none"
      BY <1>1, <2>1, SourceAssumption, Idle DEF CallOK, WriteOK
  <2>4. call[e].pc \in Claimed \cup {"claim"} => write'[k].of = k
      BY <1>1, <2>1, <2>3 DEF CallOK, GoesOn
  <2>5. call[e].pc = "reuse" => write'[k].status # "none" /\ write'[k].of # k
      BY <1>1, <2>1 DEF CallOK, GoesOn
  <2>6. call[e].pc \in Claimed => /\ write'[k].owner = e /\ write'[k].io = "running"
                                  /\ ~call[e].complete => write'[k].status = "pending"
      BY <1>1 DEF CallOK
  <2>7. /\ call[e].complete => call[e].pc \in {"exit", "lost", "dead"}
        /\ call[e].pc \in {"object", "put", "confirm"} => call[e].part \in Objects
        /\ call[e].pc = "confirm" => <<k, call[e].part>> \in stored'
      BY <1>1 DEF CallOK, Object
  <2> HIDE DEF k
  <2> QED
      BY <2>1, <2>2, <2>4, <2>5, <2>6, <2>7 DEF CallOK, Object, Objects
<1> QED
    BY <1>2, <1>3

(* A call claims an unowned write only while nobody cancels it. *)
Enters(c) == call'[c].pc \in Claimed =>
    \/ call[c].pc \in Claimed /\ call'[c].key = call[c].key
    \/ call'[c].key \in Keys /\ ~write[call'[c].key].cancel

LEMMA ControlKept ==
    ASSUME IInv, NEW d \in Controls, control'[d] = control[d], \A k \in Keys : GoesOn(k),
           \A c \in Calls : Enters(c),
           \A c \in Calls : call[c].pc \in {"none", "lost"} /\ control[d].owner = c
                                => call'[c].pc \in {"none", "lost"}
    PROVE ControlOK(d)'
<1> DEFINE k == control[d].key
<1>1. ControlOK(d)
    BY DEF IInv
<1>2. CASE control[d].pc = "none"
    BY <1>2 DEF ControlOK, Removing
<1>3. CASE control[d].pc # "none"
  <2>1. k \in Keys /\ write[k].status # "none" /\ GoesOn(k) /\ control'[d].key = k
      BY <1>1, <1>3 DEF ControlOK
  <2>2. write'[k].status # "none"
      BY <2>1 DEF GoesOn
  <2>3. control[d].pc \in {"stop", "join", "prove"} => control[d].owner \in Calls
      BY <1>1 DEF ControlOK
  <2>4. control[d].pc = "prove" => call'[control[d].owner].pc \in {"none", "lost"}
      BY <1>1, <2>3 DEF ControlOK
  <2>5. ASSUME control[d].pc \in Removing
        PROVE /\ control[d].part \in Objects
              /\ write'[k].cancel /\ write'[k].of = k
              /\ \A c \in Calls : call'[c].pc \in Claimed => call'[c].key # k
    <3>1. control[d].part \in Objects /\ write[k].cancel /\ write[k].of = k /\ Unclaimed(k)
        BY <1>1, <2>5 DEF ControlOK
    <3>2. write'[k].cancel /\ write'[k].of = k
        BY <2>1, <3>1 DEF GoesOn
    <3>3. ASSUME NEW c \in Calls, call'[c].pc \in Claimed PROVE call'[c].key # k
        BY <3>1, <3>3 DEF Enters, Unclaimed
    <3> QED
        BY <3>1, <3>2, <3>3
  <2> HIDE DEF k
  <2> QED
      BY <2>1, <2>2, <2>3, <2>4, <2>5 DEF ControlOK, Unclaimed, Objects
<1> QED
    BY <1>2, <1>3

(* A call moves on, and the controls stay where they are. *)
LEMMA ControlsStay ==
    ASSUME IInv, UNCHANGED control, \A k \in Keys : GoesOn(k), NEW c \in Calls, Enters(c),
           \A e \in Calls \ {c} : call'[e] = call[e],
           \/ call[c].pc \notin {"none", "lost"}
           \/ \A d \in Controls : control[d].owner # c
    PROVE \A d \in Controls : ControlOK(d)'
<1>1. \A e \in Calls : Enters(e)
    BY DEF Enters
<1> QED
    BY <1>1, ControlKept

(* Nothing is published. *)
LEMMA ContentKept ==
    ASSUME IInv, UNCHANGED <<Content, request>>
    PROVE /\ HeadOK' /\ (\A k \in Keys : RequestOK(k)') /\ (\A v \in Versions' : NumberOK(v)')
          /\ VersionsDiffer' /\ Versions' = Versions /\ StillAsked
          /\ \A k \in Keys : Manifest(k)' = Manifest(k) /\ CheckHead(k)' = CheckHead(k)
<1>1. head' = head /\ version' = version /\ request' = request
    BY DEF Content
<1>2. Versions' = Versions
    BY <1>1 DEF Versions
<1> QED
    BY <1>1, <1>2 DEF IInv, HeadOK, RequestOK, NumberOK, VersionsDiffer, StillAsked, Manifest,
                      Sources, CheckHead

(* Nobody learns that a write is another one's, or is over. *)
SameWrite(k) ==
    /\ write'[k].status = write[k].status /\ write'[k].of = write[k].of
    /\ write'[k].cancel = write[k].cancel
    /\ write[k].status = "none" => write'[k] = write[k]

(* Objects are stored, or were those of a cancelled write. *)
Kept(k) == ~write[k].cancel => \A o \in Objects :
    /\ <<k, o>> \in stored => <<k, o>> \in stored'
    /\ object'[k][o] = "confirmed" => object[k][o] = "confirmed" \/ <<k, o>> \in stored'

LEMMA WriteKept ==
    ASSUME IInv, UNCHANGED <<Content, request>>, NEW k \in Keys, SameWrite(k), Kept(k)
    PROVE WriteOK(k)' /\ GoesOn(k)
<1>1. WriteOK(k) /\ Versions' = Versions /\ Manifest(k)' = Manifest(k)
      /\ version' = version /\ request' = request
    BY ContentKept DEF IInv, Content
<1>2. GoesOn(k)
    BY DEF GoesOn, SameWrite
<1>3. /\ write'[k].status = "none" => write'[k] = NoWrite
      /\ write'[k].status # "none" => request'[k] # NoRequest /\ write'[k].of \in Versions' \cup {k}
      /\ write'[k].cancel => write'[k].status \in {"pending", "cancelled"}
      /\ k \in Versions' => write'[k].status = "completed"
    BY <1>1 DEF WriteOK, SameWrite
<1>4. write'[k].status = "pending" /\ write'[k].of = k =>
          \A v \in Versions' : version'[v].sources # Manifest(k)'
    BY <1>1 DEF WriteOK, SameWrite
<1>5. ~write'[k].cancel =>
          \A o \in Objects : object'[k][o] = "confirmed" => <<k, o>> \in stored'
    BY <1>1 DEF WriteOK, SameWrite, Kept
<1> QED
    BY <1>2, <1>3, <1>4, <1>5 DEF WriteOK, Objects

(* What is published stays, and nobody moves the head of a pending write. *)
LEMMA PublishedKept ==
    ASSUME IInv, UNCHANGED <<Content, request>>, \A k \in Keys : Kept(k),
           \A k \in Keys : write'[k].status = "pending" => write[k].status = "pending"
    PROVE PublishedWhole' /\ PendingCurrent'
<1>1. Versions' = Versions /\ Versions \subseteq Keys
      /\ \A k \in Keys : CheckHead(k)' = CheckHead(k)
    BY ContentKept DEF Versions
<1>2. \A k \in Versions : ~write[k].cancel
    BY <1>1 DEF IInv, WriteOK
<1>3. \A k \in Versions, o \in Objects : <<k, o>> \in stored'
    BY <1>1, <1>2 DEF IInv, PublishedWhole, Kept
<1>4. PendingCurrent'
    BY <1>1 DEF IInv, PendingCurrent
<1> QED
    BY <1>1, <1>3, <1>4 DEF PublishedWhole, Objects

(* A claimed write has one owner, and only one write is pending. *)
LEMMA OneOwner ==
    ASSUME IInv, NEW c \in Calls, NEW e \in Calls, call[c].pc \in Claimed,
           call[e].pc \in Claimed, call[c].key = call[e].key
    PROVE c = e
BY DEF IInv, CallOK

LEMMA OneWriter ==
    ASSUME IInv, NEW c \in Calls, NEW e \in Calls, call[c].pc \in Claimed,
           call[e].pc \in Claimed, ~call[c].complete, ~call[e].complete
    PROVE c = e
<1>1. call[c].key \in Keys /\ write[call[c].key].status = "pending"
    BY DEF IInv, CallOK, Claimed
<1>2. call[e].key \in Keys /\ write[call[e].key].status = "pending"
    BY DEF IInv, CallOK, Claimed
<1>3. call[c].key = call[e].key
    BY <1>1, <1>2 DEF IInv, PendingCurrent
<1> QED
    BY <1>3, OneOwner

(* A step of PhysicalWork, or one it does not see. *)
WorkStep == Work!Next \/ UNCHANGED Holders
Held(c) == call[c].pc \in Writing \/ (call[c].pc = "dead" /\ ~call[c].complete)

LEMMA WorkMoves ==
    ASSUME IInv, NEW c \in Calls, \A e \in Calls \ {c} : call'[e] = call[e],
           Held(c)' /\ ~Held(c) => \A e \in Calls : ~Held(e)
    PROVE WorkStep
<1>1. Holders = {e \in Calls : Held(e)} /\ Holders' = {e \in Calls : Held(e)'}
    BY DEF Holders, Held, Calls
<1>2. \A e \in Calls \ {c} : Held(e)' = Held(e)
    BY DEF Held
<1>3. CASE Held(c)' = Held(c)
  <2>1. Holders' = Holders
      BY <1>1, <1>2, <1>3
  <2> QED
      BY <2>1 DEF WorkStep
<1>4. CASE Held(c)' /\ ~Held(c)
  <2>1. Holders = {} /\ Holders' = {c}
      BY <1>1, <1>2, <1>4
  <2> QED
      BY <2>1 DEF WorkStep, Work!Next, Work!Begin
<1>5. CASE ~Held(c)' /\ Held(c)
  <2>1. \A e \in Calls : Held(e) => call[e].pc \in Claimed /\ ~call[e].complete
      BY DEF Held, IInv, CallOK, Claimed, Writing
  <2>2. \A e \in Calls : Held(e) => e = c
      BY <1>5, <2>1, OneWriter
  <2>3. Holders # {} /\ Holders' = {}
      BY <1>1, <1>2, <1>5, <2>2
  <2> QED
      BY <2>3 DEF WorkStep, Work!Next, Work!End
<1> QED
    BY <1>3, <1>4, <1>5 DEF Held

(* A step of one call that publishes nothing. *)
LEMMA CallStep ==
    ASSUME IInv, Types', UNCHANGED <<Content, request>>, NEW c \in Calls,
           \A k \in Keys : SameWrite(k) /\ Kept(k), stored \subseteq stored',
           \A e \in Calls \ {c} : call'[e] = call[e],
           \A e \in Calls \ {c} : call[e].pc \in Claimed =>
               /\ write'[call[e].key].owner = write[call[e].key].owner
               /\ write'[call[e].key].io = write[call[e].key].io,
           CallOK(c)', \A d \in Controls : ControlOK(d)',
           Held(c)' /\ ~Held(c) => \A e \in Calls : ~Held(e)
    PROVE IInv' /\ WorkStep
<1>1. \A k \in Keys : WriteOK(k)' /\ GoesOn(k)
    BY WriteKept
<1>2. \A k \in Keys : write'[k].status = "pending" => write[k].status = "pending"
    BY DEF SameWrite
<1>3. PublishedWhole' /\ PendingCurrent'
    BY <1>2, PublishedKept
<1>4. ASSUME NEW e \in Calls \ {c} PROVE CallOK(e)'
  <2>1. call[e].pc \in Claimed => call[e].key \in Keys
      BY DEF IInv, CallOK, Claimed
  <2>2. call[e].pc \in Claimed => write'[call[e].key].status = write[call[e].key].status
      BY <2>1 DEF SameWrite
  <2>3. call[e].pc = "confirm" /\ Object(e) \in stored =>
               <<call[e].key, call[e].part>> \in stored'
      BY DEF Object
  <2> QED
      BY <1>1, <2>2, <2>3, ContentKept, CallKept
<1>5. \A e \in Calls : CallOK(e)'
    BY <1>4
<1>6. WorkStep
    BY WorkMoves
<1>7. /\ HeadOK' /\ (\A k \in Keys : RequestOK(k)') /\ (\A v \in Versions' : NumberOK(v)')
      /\ VersionsDiffer'
    BY ContentKept
<1> QED
    BY <1>1, <1>3, <1>5, <1>6, <1>7 DEF IInv, Calls, Controls

(* The same, when no row of a request changes. *)
LEMMA CallOnly ==
    ASSUME IInv, Types', UNCHANGED <<Content, request, write, control>>, NEW c \in Calls,
           \A k \in Keys : Kept(k), stored \subseteq stored',
           \A e \in Calls \ {c} : call'[e] = call[e],
           call[c].pc \notin {"none", "lost"}, call'[c].key = call[c].key, CallOK(c)',
           call'[c].pc \in Claimed => call[c].pc \in Claimed,
           Held(c)' /\ ~Held(c) => \A e \in Calls : ~Held(e)
    PROVE IInv' /\ WorkStep
<1>1. \A k \in Keys : SameWrite(k) /\ GoesOn(k)
    BY DEF SameWrite, GoesOn
<1>2. Enters(c)
    BY DEF Enters
<1>3. \A d \in Controls : ControlOK(d)'
    BY <1>1, <1>2, ControlsStay
<1> QED
    BY <1>1, <1>3, CallStep

(* A control that waits for a call hears that it is over. *)
LEMMA Released ==
    ASSUME IInv, NEW c \in Calls, \A k \in Keys : GoesOn(k), Enters(c),
           \A e \in Calls \ {c} : call'[e] = call[e], call'[c].pc \in {"none", "lost"},
           control' = [d \in Controls |-> IF control[d].pc = "join" /\ control[d].owner = c
                                            THEN [control[d] EXCEPT !.pc = "prove"]
                                            ELSE control[d]]
    PROVE control' \in [Controls -> ControlStates] /\ \A d \in Controls : ControlOK(d)'
<1>1. Types /\ control \in [Controls -> ControlStates]
    BY DEF IInv, Types
<1>2. \A e \in Calls : Enters(e)
    BY DEF Enters
<1>3. \A e \in Calls : call[e].pc \in {"none", "lost"} => call'[e].pc \in {"none", "lost"}
    OBVIOUS
<1>4. ASSUME NEW d \in Controls PROVE control'[d] \in ControlStates /\ ControlOK(d)'
  <2>1. CASE control[d].pc = "join" /\ control[d].owner = c
    <3> DEFINE q == [control[d] EXCEPT !.pc = "prove"]
    <3>1. control[d] \in ControlStates /\ ControlOK(d)
        BY <1>1 DEF IInv
    <3>2. q \in ControlStates
        BY <3>1, Zenon DEF ControlStates
    <3>3. q.pc = "prove" /\ q.key = control[d].key /\ q.owner = c
        BY <2>1, <3>1 DEF ControlStates
    <3>4. control'[d] = q
        BY <2>1
    <3> HIDE DEF q
    <3>5. q.key \in Keys /\ write'[q.key].status # "none"
        BY <2>1, <3>1, <3>3 DEF ControlOK, GoesOn
    <3> QED
        BY <3>2, <3>3, <3>4, <3>5 DEF ControlOK, Removing
  <2>2. CASE ~(control[d].pc = "join" /\ control[d].owner = c)
    <3>1. control'[d] = control[d]
        BY <2>2
    <3> QED
        BY <1>1, <1>2, <1>3, <3>1, ControlKept
  <2> QED
      BY <2>1, <2>2
<1> QED
    BY <1>4

(* A call returns. *)
LEMMA Returned ==
    ASSUME IInv, NEW c \in Calls, Return(c), \A k \in Keys : GoesOn(k)
    PROVE /\ call' \in [Calls -> CallStates] /\ control' \in [Controls -> ControlStates]
          /\ call'[c] = NoCall /\ (\A e \in Calls \ {c} : call'[e] = call[e])
          /\ CallOK(c)' /\ ~Held(c)' /\ \A d \in Controls : ControlOK(d)'
<1>1. call' \in [Calls -> CallStates] /\ call'[c] = NoCall
      /\ \A e \in Calls \ {c} : call'[e] = call[e]
    BY Idle DEF Return, IInv, Types
<1>2. CallOK(c)' /\ ~Held(c)' /\ Enters(c)
    BY <1>1, Idle DEF CallOK, Held, Enters, Claimed, Writing
<1>3. control' \in [Controls -> ControlStates] /\ \A d \in Controls : ControlOK(d)'
    BY <1>1, <1>2, Idle, Released DEF Return
<1> QED
    BY <1>1, <1>2, <1>3

-----------------------------------------------------------------------------
(* What a user asks, and the calls that ask it *)

LEMMA SendKeeps ==
    ASSUME IInv, NEW k \in Keys, Send(k) PROVE IInv' /\ WorkStep
<1>1. Types /\ HeadOK /\ WriteOK(k) /\ request[k] = NoRequest
    BY DEF IInv, Send
<1>2. UNCHANGED <<head, version, write, object, stored, late, call, control, faults>>
    BY DEF Send, Content, Bytes
<1>3. PICK q \in Asked : request' = [request EXCEPT ![k] = q] /\ q.base = head.draft
  <2>1. PICK a \in {"create", "reorder", "delete"}, s \in Sources(head.draft) \cup {None} :
            request' = [request EXCEPT ![k] = [action |-> a, source |-> s,
                            expected |-> head.revision, base |-> head.draft]]
      BY DEF Send
  <2>2. head.revision \in Nat /\ head.draft \in Ref
      BY <1>1 DEF Types
  <2>3. s \in Ref
      BY <1>1, <2>2 DEF Sources, Ref, Types
  <2>4. [action |-> a, source |-> s, expected |-> head.revision, base |-> head.draft] \in Asked
      BY <2>2, <2>3 DEF Asked
  <2> QED
      BY <2>1, <2>4
<1>4. /\ request'[k] = q /\ \A j \in Keys \ {k} : request'[j] = request[j]
      /\ request' \in [Keys -> Asked \cup {NoRequest}] /\ Versions' = Versions
    BY <1>1, <1>2, <1>3 DEF Types, Versions
<1>5. Types'
    BY <1>1, <1>2, <1>4 DEF Types
<1>6. HeadOK' /\ \A j \in Keys : RequestOK(j)'
    BY <1>1, <1>2, <1>3, <1>4 DEF HeadOK, RequestOK, IInv
<1>7. (\A v \in Versions' : NumberOK(v)') /\ VersionsDiffer' /\ PublishedWhole'
    BY <1>2, <1>4 DEF IInv, NumberOK, VersionsDiffer, PublishedWhole, Objects
<1>8. \A j \in Keys : write[j].status # "none" => request'[j] = request[j]
    BY <1>1, <1>4 DEF IInv, WriteOK
<1>9. \A j \in Keys : write[j].status # "none" =>
          Manifest(j)' = Manifest(j) /\ CheckHead(j)' = CheckHead(j)
    BY <1>2, <1>8 DEF Manifest, CheckHead, Sources
<1>10. \A j \in Keys : WriteOK(j)'
    BY <1>2, <1>4, <1>8, <1>9 DEF IInv, WriteOK
<1>11. PendingCurrent'
    BY <1>2, <1>9 DEF IInv, PendingCurrent
<1>12. StillAsked /\ \A j \in Keys : GoesOn(j)
    BY <1>1, <1>2, <1>4 DEF StillAsked, GoesOn
<1>13. \A e \in Calls : CallOK(e)'
    BY <1>2, <1>12, CallKept DEF Object
<1>14. \A d \in Controls : ControlOK(d)'
    BY <1>2, <1>12, ControlKept DEF Enters
<1>15. WorkStep
    BY <1>2 DEF WorkStep, Holders, Calls
<1> QED
    BY <1>5, <1>6, <1>7, <1>10, <1>11, <1>13, <1>14, <1>15 DEF IInv, Calls, Controls

LEMMA CallKeeps ==
    ASSUME IInv, NEW c \in Calls, NEW k \in Keys, Call(c, k) PROVE IInv' /\ WorkStep
<1> DEFINE q == [NoCall EXCEPT !.pc = "begin", !.key = k]
<1>1. Types /\ call[c] = NoCall /\ call' = [call EXCEPT ![c] = q] /\ request[k] # NoRequest
    BY DEF IInv, Call
<1>2. UNCHANGED <<head, version, request, write, object, stored, late, control, faults>>
    BY DEF Call, Content, Bytes
<1>3. q \in CallStates
    BY Idle, Zenon DEF CallStates, Ref
<1>4. q.pc = "begin" /\ q.key = k /\ ~q.complete
    BY DEF NoCall
<1> HIDE DEF q
<1>5. call' \in [Calls -> CallStates] /\ call'[c] = q /\ \A e \in Calls \ {c} : call'[e] = call[e]
    BY <1>1, <1>3 DEF Types
<1>6. Types'
    BY <1>1, <1>2, <1>5 DEF Types
<1>7. \A j \in Keys : SameWrite(j) /\ Kept(j) /\ GoesOn(j)
    BY <1>2 DEF SameWrite, Kept, GoesOn
<1>8. CallOK(c)' /\ ~Held(c)' /\ Enters(c)
    BY <1>1, <1>2, <1>4, <1>5 DEF CallOK, Held, Enters, Claimed, Writing
<1>9. \A d \in Controls : ControlOK(d)'
    BY <1>2, <1>5, <1>7, <1>8, ControlsStay DEF Call
<1> QED
    BY <1>2, <1>5, <1>6, <1>7, <1>8, <1>9, CallStep DEF Content

-----------------------------------------------------------------------------
(* A call that has claimed its write *)

LEMMA ClaimedCall ==
    ASSUME IInv, NEW c \in Calls, call[c].pc \in Claimed
    PROVE /\ Types /\ call \in [Calls -> CallStates] /\ call[c] \in CallStates
          /\ call[c].key \in Keys /\ call[c].part \in Nat /\ CallOK(c)
          /\ call[c].pc \in {"object", "put", "confirm"} =>
                call[c].part \in Objects /\ Object(c) \in Keys \X Objects
BY DEF IInv, CallOK, Types, Object, CallStates, Claimed

(* It goes on, stops or is lost, and the rows of the requests stay. *)
LEMMA WalkKeeps ==
    ASSUME IInv, Types', UNCHANGED <<Content, request, write, control>>, NEW c \in Calls,
           call[c].pc \in Claimed \ {"lost"}, NEW to \in Claimed, NEW m,
           Walks(c, to, m, call[c].complete),
           \A k \in Keys : Kept(k), stored \subseteq stored',
           to \in Writing => call[c].pc \in Writing,
           to \in {"object", "put", "confirm"} => m \in Objects,
           to = "confirm" => <<call[c].key, m>> \in stored'
    PROVE IInv' /\ WorkStep
<1>1. CallOK(c) /\ call[c].key \in Keys
    BY ClaimedCall
<1>2. /\ call'[c].pc = to /\ call'[c].part = m /\ call'[c].complete = call[c].complete
      /\ call'[c].key = call[c].key /\ \A e \in Calls \ {c} : call'[e] = call[e]
    BY DEF Walks
<1>3. CallOK(c)'
  <2>1. request[call[c].key] # NoRequest
      BY <1>1 DEF CallOK, Claimed
  <2>2. call[c].complete => to \in {"exit", "lost", "dead"}
      BY <1>1 DEF CallOK, Claimed, Writing
  <2>3. to # "reuse" /\ to # "none"
      BY DEF Claimed
  <2> QED
      BY <1>1, <1>2, <2>1, <2>2, <2>3 DEF CallOK, Object, Objects
<1>4. ASSUME Held(c)', ~Held(c), NEW e \in Calls, Held(e) PROVE FALSE
  <2>1. to = "dead" /\ ~call[c].complete
      BY <1>2, <1>4 DEF Held
  <2>2. call[e].pc \in Claimed /\ ~call[e].complete
      BY <1>4 DEF Held, IInv, CallOK, Claimed, Writing
  <2> QED
      BY <1>4, <2>1, <2>2, OneWriter
<1>5. call[c].pc \notin {"none", "lost"}
    BY DEF Claimed
<1> QED
    BY <1>2, <1>3, <1>4, <1>5, CallOnly

LEMMA ObjectStates ==
    ASSUME IInv, NEW c \in Calls, call[c].pc \in {"object", "put", "confirm"}, NEW to \in States,
           Set(c, to), stored \subseteq stored',
           to = "confirmed" => State(c) = "confirmed" \/ Object(c) \in stored
    PROVE object' \in [Keys -> [Objects -> States]] /\ \A k \in Keys : Kept(k)
<1>1. Types /\ call[c].key \in Keys /\ call[c].part \in Objects
    BY ClaimedCall DEF Claimed
<1>2. Sets(call[c].key, call[c].part, to)
    BY <1>1, SetIs DEF Types, Set
<1> QED
    BY <1>1, <1>2 DEF Sets, Kept, State, Object

LEMMA BeginSourceObjectKeeps ==
    ASSUME IInv, NEW c \in Calls, BeginSourceObject(c) PROVE IInv' /\ WorkStep
<1>1. call[c].pc = "object" /\ call[c].pc \in Claimed \ {"lost"}
    BY DEF BeginSourceObject, Claimed
<1>2. UNCHANGED <<head, version, request, write, stored, late, control, faults>>
    BY DEF BeginSourceObject, Content, Bytes
<1>3. Types /\ call \in [Calls -> CallStates] /\ call[c].part \in Objects
      /\ call[c].key \in Keys
    BY <1>1, ClaimedCall
<1>4. CASE State(c) # "removed" /\ Go(c, "put")
           /\ Set(c, IF State(c) = "none" THEN "started" ELSE State(c))
  <2> DEFINE to == IF State(c) = "none" THEN "started" ELSE State(c)
  <2>1. to \in States /\ (to = "confirmed" => State(c) = "confirmed")
      BY <1>3 DEF States, State, Types
  <2>2. Set(c, to)
      BY <1>4
  <2> HIDE DEF to
  <2>3. object' \in [Keys -> [Objects -> States]] /\ \A k \in Keys : Kept(k)
      BY <1>1, <1>2, <2>1, <2>2, ObjectStates
  <2>4. Walks(c, "put", call[c].part, call[c].complete)
      BY <1>3, <1>4, GoWalks DEF Places, Claimed
  <2>5. Types'
      BY <1>2, <1>3, <2>3, <2>4 DEF Types, Walks
  <2>6. "put" \in Claimed /\ call[c].pc \in Writing
      BY <1>1 DEF Claimed, Writing
  <2> QED
      BY <1>1, <1>2, <1>3, <2>3, <2>4, <2>5, <2>6, WalkKeeps DEF Content
<1>5. CASE UNCHANGED object /\ Go(c, "exit")
  <2>1. Walks(c, "exit", call[c].part, call[c].complete)
      BY <1>3, <1>5, GoWalks DEF Places, Claimed
  <2>2. Types'
      BY <1>2, <1>3, <1>5, <2>1 DEF Types, Walks
  <2>3. "exit" \in Claimed /\ "exit" \notin Writing
      BY DEF Claimed, Writing
  <2>4. \A k \in Keys : Kept(k)
      BY <1>2, <1>5 DEF Kept
  <2> QED
      BY <1>1, <1>2, <2>1, <2>2, <2>3, <2>4, WalkKeeps DEF Content
<1> QED
    BY <1>4, <1>5 DEF BeginSourceObject

LEMMA PutKeeps ==
    ASSUME IInv, NEW c \in Calls, Put(c) PROVE IInv' /\ WorkStep
<1>1. call[c].pc = "put" /\ call[c].pc \in Claimed \ {"lost"} /\ call[c].pc \in Writing
    BY DEF Put, Claimed, Writing
<1>2. /\ UNCHANGED <<head, version, request, write, object, late, control, faults>>
      /\ stored' = stored \cup {Object(c)} /\ Go(c, "confirm")
    BY DEF Put, Content
<1>3. Types /\ call \in [Calls -> CallStates] /\ call[c].part \in Objects
      /\ Object(c) \in Keys \X Objects
    BY <1>1, ClaimedCall
<1>4. Walks(c, "confirm", call[c].part, call[c].complete)
    BY <1>2, <1>3, GoWalks DEF Places, Claimed
<1>5. Types'
    BY <1>2, <1>3, <1>4 DEF Types, Walks
<1>6. \A k \in Keys : Kept(k)
    BY <1>2 DEF Kept
<1>7. "confirm" \in Claimed /\ <<call[c].key, call[c].part>> \in stored'
    BY <1>2 DEF Claimed, Object
<1> QED
    BY <1>1, <1>2, <1>3, <1>4, <1>5, <1>6, <1>7, WalkKeeps DEF Content

(* It stops, and what it wrote or may have written stays where it is. *)
LEMMA Stops ==
    ASSUME IInv, NEW c \in Calls, call[c].pc \in Claimed \ {"lost"},
           NEW to \in {"exit", "dead"}, Go(c, to),
           UNCHANGED <<Content, request, write, object, stored, control>>,
           late' \subseteq Keys \X Objects, faults' \in 0 .. MaxFaults
    PROVE IInv' /\ WorkStep
<1>1. Types /\ call \in [Calls -> CallStates]
    BY ClaimedCall
<1>2. Walks(c, to, call[c].part, call[c].complete)
    BY <1>1, GoWalks DEF Places, Claimed
<1>3. Types'
    BY <1>1, <1>2 DEF Types, Walks, Content
<1>4. \A k \in Keys : Kept(k)
    BY DEF Kept
<1>5. to \in Claimed /\ to \notin Writing /\ to \notin {"object", "put", "confirm"}
    BY DEF Claimed, Writing
<1> QED
    BY <1>2, <1>3, <1>4, <1>5, WalkKeeps

LEMMA FaultBound == ASSUME IInv, Fault \/ UNCHANGED faults PROVE faults' \in 0 .. MaxFaults
BY SourceAssumption DEF IInv, Types, Fault

LEMMA PutUnknownKeeps ==
    ASSUME IInv, NEW c \in Calls, PutUnknown(c) PROVE IInv' /\ WorkStep
<1>1. call[c].pc = "put" /\ call[c].pc \in Claimed \ {"lost"} /\ Go(c, "exit")
    BY DEF PutUnknown, Claimed
<1>2. Types /\ Object(c) \in Keys \X Objects
    BY <1>1, ClaimedCall
<1>3. late' \subseteq Keys \X Objects
    BY <1>2 DEF PutUnknown, Types
<1>4. faults' \in 0 .. MaxFaults
    BY FaultBound DEF PutUnknown
<1> QED
    BY <1>1, <1>3, <1>4, Stops DEF PutUnknown

LEMMA CallFailsKeeps ==
    ASSUME IInv, NEW c \in Calls, CallFails(c) PROVE IInv' /\ WorkStep
<1>1. call[c].pc \in Claimed \ {"lost"} /\ Go(c, "exit")
    BY DEF CallFails, Claimed
<1>2. late' \subseteq Keys \X Objects
    BY DEF CallFails, Bytes, IInv, Types
<1>3. faults' \in 0 .. MaxFaults
    BY FaultBound DEF CallFails
<1> QED
    BY <1>1, <1>2, <1>3, Stops DEF CallFails, Bytes

LEMMA CrashKeeps ==
    ASSUME IInv, NEW c \in Calls, Crash(c) PROVE IInv' /\ WorkStep
<1>1. call[c].pc \in Claimed \ {"lost"} /\ Go(c, "dead")
    BY DEF Crash, Claimed
<1>2. call[c].pc = "put" => Object(c) \in Keys \X Objects
    BY <1>1, ClaimedCall
<1>3. late' \subseteq Keys \X Objects
    BY <1>2 DEF Crash, IInv, Types
<1>4. faults' \in 0 .. MaxFaults
    BY FaultBound DEF Crash
<1> QED
    BY <1>1, <1>3, <1>4, Stops DEF Crash

LEMMA ConfirmSourceObjectKeeps ==
    ASSUME IInv, NEW c \in Calls, ConfirmSourceObject(c) PROVE IInv' /\ WorkStep
<1>1. call[c].pc = "confirm" /\ call[c].pc \in Claimed \ {"lost"} /\ call[c].pc \in Writing
    BY DEF ConfirmSourceObject, Claimed, Writing
<1>2. UNCHANGED <<head, version, request, write, stored, late, control, faults>>
    BY DEF ConfirmSourceObject, Content, Bytes
<1>3. /\ Types /\ call \in [Calls -> CallStates] /\ call[c].part \in Objects
      /\ call[c].part \in Nat /\ Object(c) \in stored
    BY <1>1, ClaimedCall DEF CallOK
<1>4. CASE Set(c, "confirmed") /\
           call' = [call EXCEPT ![c].pc = IF call[c].part = Parts THEN "finish" ELSE "object",
                                ![c].part = @ + 1]
  <2> DEFINE to == IF call[c].part = Parts THEN "finish" ELSE "object"
             m == call[c].part + 1
  <2>1. to \in Places /\ to \in Claimed /\ m \in Nat /\ to # "confirm"
      BY <1>3 DEF Places, Claimed
  <2>2. to \in {"object", "put", "confirm"} => m \in Objects
      BY <1>3, SourceAssumption DEF Objects
  <2>3. call' = [call EXCEPT ![c].pc = to, ![c].part = m]
      BY <1>3, <1>4 DEF CallStates
  <2> HIDE DEF to, m
  <2>4. Walks(c, to, m, call[c].complete)
      BY <1>3, <2>1, <2>3, PartWalks
  <2>5. object' \in [Keys -> [Objects -> States]] /\ \A k \in Keys : Kept(k)
      BY <1>1, <1>2, <1>3, <1>4, ObjectStates DEF States
  <2>6. Types'
      BY <1>2, <1>3, <2>4, <2>5 DEF Types, Walks
  <2> QED
      BY <1>1, <1>2, <2>1, <2>2, <2>4, <2>5, <2>6, WalkKeeps DEF Content
<1>5. CASE UNCHANGED object /\ Go(c, "exit")
  <2>1. faults' \in 0 .. MaxFaults /\ late' \subseteq Keys \X Objects
      BY <1>2, <1>3 DEF Types
  <2> QED
      BY <1>1, <1>2, <1>5, <2>1, Stops DEF Content
<1> QED
    BY <1>4, <1>5 DEF ConfirmSourceObject

LEMMA ExitLostKeeps ==
    ASSUME IInv, NEW c \in Calls, ExitLost(c) PROVE IInv' /\ WorkStep
<1>1. call[c].pc = "exit" /\ call[c].pc \in Claimed /\ Go(c, "lost")
    BY DEF ExitLost, Claimed
<1>2. UNCHANGED <<head, version, request, write, object, stored, late>>
    BY DEF ExitLost, Content, Bytes
<1>3. Types /\ call \in [Calls -> CallStates] /\ call[c].key \in Keys /\ CallOK(c)
    BY <1>1, ClaimedCall
<1>4. Walks(c, "lost", call[c].part, call[c].complete)
    BY <1>1, <1>3, GoWalks DEF Places, Claimed
<1>5. \A k \in Keys : SameWrite(k) /\ Kept(k) /\ GoesOn(k)
    BY <1>2 DEF SameWrite, Kept, GoesOn
<1>6. Enters(c) /\ ~Held(c)'
    BY <1>1, <1>4 DEF Enters, Held, Walks, Writing
<1>7. control' \in [Controls -> ControlStates] /\ \A d \in Controls : ControlOK(d)'
    BY <1>4, <1>5, <1>6, Released DEF ExitLost, Walks
<1>8. faults' \in 0 .. MaxFaults
    BY FaultBound DEF ExitLost
<1>9. Types'
    BY <1>2, <1>3, <1>4, <1>7, <1>8 DEF Types, Walks
<1>10. CallOK(c)'
    BY <1>1, <1>2, <1>3, <1>4 DEF CallOK, Walks, Claimed
<1> QED
    BY <1>2, <1>4, <1>5, <1>6, <1>7, <1>9, <1>10, CallStep DEF Walks, Content

(* The row of one request is no longer that of a running call. *)
LEMMA EndSourceIOKeeps ==
    ASSUME IInv, NEW c \in Calls, EndSourceIO(c) PROVE IInv' /\ WorkStep
<1> DEFINE k == call[c].key
           w == [write[k] EXCEPT !.owner = 0, !.io = "ended",
                                 !.needs = write[k].needs \/ ~call[c].complete]
<1>1. call[c].pc = "exit" /\ call[c].pc \in Claimed /\ Return(c)
    BY DEF EndSourceIO, Claimed
<1>2. UNCHANGED <<head, version, request, object, stored, late, faults>>
    BY DEF EndSourceIO, Content, Bytes
<1>3. Types /\ k \in Keys /\ CallOK(c) /\ write[k] \in Writes /\ call[c] \in CallStates
    BY <1>1, ClaimedCall DEF Types
<1>4. write' = [write EXCEPT ![k] = w]
    BY <1>3 DEF EndSourceIO, Types, Writes
<1>5. w \in Writes
  <2>1. (write[k].needs \/ ~call[c].complete) \in BOOLEAN
      OBVIOUS
  <2> QED
      BY <1>3, <2>1, Zenon DEF Writes, Owners
<1>6. w.status = write[k].status /\ w.of = write[k].of /\ w.cancel = write[k].cancel
    BY <1>3 DEF Writes
<1>7. write[k].status # "none"
    BY <1>1, <1>3, SourceAssumption, Idle DEF CallOK, IInv, WriteOK
<1> HIDE DEF w
<1>8. Writ(k, w)
    BY <1>3, <1>4, <1>5, WritIs DEF Types
<1> HIDE DEF k
<1>9. \A j \in Keys : SameWrite(j) /\ Kept(j) /\ GoesOn(j)
  <2> SUFFICES ASSUME NEW j \in Keys PROVE SameWrite(j) /\ Kept(j) /\ GoesOn(j)
      OBVIOUS
  <2>1. CASE j = k
      BY <1>2, <1>6, <1>7, <1>8, <2>1 DEF Writ, SameWrite, Kept, GoesOn
  <2>2. CASE j # k
      BY <1>2, <1>8, <2>2 DEF Writ, SameWrite, Kept, GoesOn
  <2> QED
      BY <2>1, <2>2
<1>10. /\ call' \in [Calls -> CallStates] /\ control' \in [Controls -> ControlStates]
       /\ (\A e \in Calls \ {c} : call'[e] = call[e])
       /\ CallOK(c)' /\ ~Held(c)' /\ \A d \in Controls : ControlOK(d)'
    BY <1>1, <1>9, Returned
<1>11. Types'
    BY <1>2, <1>3, <1>8, <1>10 DEF Types, Writ
<1>12. ASSUME NEW e \in Calls \ {c}, call[e].pc \in Claimed
       PROVE /\ write'[call[e].key].owner = write[call[e].key].owner
             /\ write'[call[e].key].io = write[call[e].key].io
  <2>1. call[e].key # k /\ call[e].key \in Keys
      BY <1>1, <1>12, OneOwner, ClaimedCall DEF k
  <2> QED
      BY <1>8, <2>1 DEF Writ
<1> QED
    BY <1>2, <1>9, <1>10, <1>11, <1>12, CallStep DEF Content

(* A call that is not admitted has changed nothing. *)
LEMMA QuietReturn ==
    ASSUME IInv, NEW c \in Calls, Return(c),
           UNCHANGED <<Content, request, write, object, Bytes, faults>>
    PROVE IInv' /\ WorkStep
<1>1. \A j \in Keys : SameWrite(j) /\ Kept(j) /\ GoesOn(j)
    BY DEF SameWrite, Kept, GoesOn, Bytes
<1>2. /\ call' \in [Calls -> CallStates] /\ control' \in [Controls -> ControlStates]
      /\ (\A e \in Calls \ {c} : call'[e] = call[e])
      /\ CallOK(c)' /\ ~Held(c)' /\ \A d \in Controls : ControlOK(d)'
    BY <1>1, Returned
<1>3. Types'
    BY <1>2 DEF IInv, Types, Content, Bytes
<1> QED
    BY <1>1, <1>2, <1>3, CallStep DEF Bytes

(* A call takes the write nobody has claimed. *)
LEMMA ClaimSourceIOKeeps ==
    ASSUME IInv, NEW c \in Calls, ClaimSourceIO(c) PROVE IInv' /\ WorkStep
<1> DEFINE k == call[c].key
<1>1. call[c].pc = "claim" /\ Types /\ CallOK(c) /\ call[c] \in CallStates
    BY DEF ClaimSourceIO, IInv, Types
<1>2. UNCHANGED <<head, version, request, object, stored, late, faults>>
    BY DEF ClaimSourceIO, Content, Bytes
<1>3. k \in Keys /\ write[k] \in Writes /\ ~call[c].complete /\ write[k].of = k
      /\ request[k] # NoRequest
    BY <1>1 DEF CallOK, Types
<1>4. CASE /\ Pending(k) /\ write[k].owner = 0 /\ write' = Taken(c) /\ UNCHANGED control
           /\ call' = [call EXCEPT ![c].pc = "object", ![c].part = 1]
  <2> DEFINE w == [write[k] EXCEPT !.io = "running", !.owner = c]
  <2>1. write' = [write EXCEPT ![k] = w]
      BY <1>1, <1>3, <1>4 DEF Taken, Types, Writes
  <2>2. w \in Writes
      BY <1>3, Zenon DEF Writes, Owners
  <2>3. /\ w.status = "pending" /\ w.of = k /\ w.cancel = write[k].cancel
        /\ w.owner = c /\ w.io = "running"
      BY <1>3, <1>4 DEF Writes, Pending
  <2> HIDE DEF w
  <2>4. Writ(k, w)
      BY <1>1, <1>3, <2>1, <2>2, WritIs DEF Types
  <2>5. Walks(c, "object", 1, call[c].complete)
      BY <1>1, <1>4, PartWalks DEF Types, Places, Claimed
  <2>6. write[k].status = "pending" /\ ~write[k].cancel
      BY <1>4 DEF Pending
  <2> HIDE DEF k
  <2>7. \A j \in Keys : SameWrite(j) /\ Kept(j) /\ GoesOn(j)
    <3> SUFFICES ASSUME NEW j \in Keys PROVE SameWrite(j) /\ Kept(j) /\ GoesOn(j)
        OBVIOUS
    <3>1. CASE j = k
        BY <1>2, <1>3, <2>3, <2>4, <2>6, <3>1 DEF Writ, SameWrite, Kept, GoesOn
    <3>2. CASE j # k
        BY <1>2, <2>4, <3>2 DEF Writ, SameWrite, Kept, GoesOn
    <3> QED
        BY <3>1, <3>2
  <2>8. Types'
      BY <1>1, <1>2, <1>4, <2>4, <2>5 DEF Types, Writ, Walks
  <2>9. 1 \in Objects
      BY SourceAssumption DEF Objects
  <2>10. CallOK(c)'
    <3>1. /\ call'[c].pc = "object" /\ call'[c].key = k /\ call'[c].part = 1
          /\ ~call'[c].complete /\ write'[k] = w /\ request' = request
        BY <1>2, <1>3, <2>4, <2>5 DEF Walks, Writ, k
    <3> QED
        BY <1>3, <2>3, <2>9, <3>1 DEF CallOK, Objects
  <2>11. Enters(c)
      BY <1>3, <2>5, <2>6 DEF Enters, Walks, k
  <2>12. \A d \in Controls : ControlOK(d)'
      BY <1>1, <1>4, <2>5, <2>7, <2>11, ControlsStay DEF Walks
  <2>13. \A e \in Calls : call[e].pc \in Claimed => call[e].key \in Keys \ {k}
    <3> SUFFICES ASSUME NEW e \in Calls, call[e].pc \in Claimed PROVE call[e].key \in Keys \ {k}
        OBVIOUS
    <3>1. call[e].key \in Keys /\ write[call[e].key].owner = e /\ e # 0
        BY ClaimedCall DEF CallOK, Calls
    <3> QED
        BY <1>4, <3>1 DEF k
  <2>14. \A e \in Calls : ~Held(e)
    <3> SUFFICES ASSUME NEW e \in Calls, Held(e) PROVE FALSE
        OBVIOUS
    <3>1. call[e].pc \in Claimed /\ ~call[e].complete
        BY DEF Held, IInv, CallOK, Claimed, Writing
    <3>2. write[call[e].key].status = "pending" /\ call[e].key \in Keys \ {k}
        BY <2>13, <3>1, ClaimedCall DEF CallOK
    <3> QED
        BY <1>3, <2>6, <3>2 DEF IInv, PendingCurrent
  <2>15. \A e \in Calls \ {c} : call[e].pc \in Claimed =>
             /\ write'[call[e].key].owner = write[call[e].key].owner
             /\ write'[call[e].key].io = write[call[e].key].io
      BY <2>4, <2>13 DEF Writ
  <2> QED
      BY <1>2, <2>5, <2>7, <2>8, <2>10, <2>12, <2>14, <2>15, CallStep DEF Walks, Content
<1>5. CASE Return(c) /\ UNCHANGED write
    BY <1>2, <1>5, QuietReturn DEF Content, Bytes
<1> QED
    BY <1>4, <1>5 DEF ClaimSourceIO

-----------------------------------------------------------------------------
(* The beginning and the end of a write *)

LEMMA VersionOfIs ==
    ASSUME NEW k \in Keys
    PROVE /\ VersionOf(k) \in Versions \cup {k}
          /\ VersionOf(k) = k /\ k \notin Versions =>
                \A v \in Versions : version[v].sources # Manifest(k)
BY DEF VersionOf

(* The only pending write becomes another one's, or completed; the calls    *)
(* that have claimed other writes do not see it.                            *)
LEMMA OthersKept ==
    ASSUME IInv, StillAsked, \A j \in Keys : GoesOn(j), stored' = stored,
           NEW c \in Calls, NEW k \in Keys,
           \A e \in Calls \ {c} : call'[e] = call[e], \A j \in Keys \ {k} : write'[j] = write[j],
           \A e \in Calls \ {c} : call[e].pc \in Claimed => call[e].key # k
    PROVE \A e \in Calls \ {c} : CallOK(e)'
<1> SUFFICES ASSUME NEW e \in Calls \ {c} PROVE CallOK(e)'
    OBVIOUS
<1>1. call[e].pc \in Claimed => write'[call[e].key] = write[call[e].key]
    BY ClaimedCall
<1> QED
    BY <1>1, CallKept DEF Object

LEMMA BeginWriteKeeps ==
    ASSUME IInv, NEW c \in Calls, BeginWrite(c) PROVE IInv' /\ WorkStep
<1> PICK k : k = call[c].key
    OBVIOUS
<1>1. call[c].pc = "begin" /\ Types /\ CallOK(c) /\ call[c] \in CallStates
    BY DEF BeginWrite, IInv, Types
<1>2. /\ UNCHANGED <<head, version, request, object, stored, late, faults>>
      /\ UNCHANGED <<Content, request, object, Bytes, faults>>
    BY DEF BeginWrite, Content, Bytes
<1>3. k \in Keys /\ write[k] \in Writes /\ ~call[c].complete /\ request[k] # NoRequest
      /\ WriteOK(k)
    BY <1>1 DEF CallOK, Types, IInv
<1>4. ~Held(c)
    BY <1>1 DEF Held, Writing
<1>5. CASE /\ write[k].status = "none" /\ CheckHead(k) /\ RejectPending /\ UNCHANGED control
           /\ write' = [write EXCEPT ![k] = [NoWrite EXCEPT !.status = "pending",
                                 !.of = VersionOf(k), !.no = Cardinality(Versions) + 1]]
           /\ Go(c, IF VersionOf(k) = k THEN "claim" ELSE "reuse")
  <2> DEFINE v == VersionOf(k)
             n == Cardinality(Versions) + 1
             w == [NoWrite EXCEPT !.status = "pending", !.of = v, !.no = n]
             to == IF v = k THEN "claim" ELSE "reuse"
  <2>1. n \in Nat /\ v \in Ref /\ v \in Versions \cup {k} /\ to \in Places
      BY <1>3, VersionsFinite, VersionOfIs DEF Ref, Versions, Places
  <2>2. v = k /\ k \notin Versions => \A u \in Versions : version[u].sources # Manifest(k)
      BY <1>3, VersionOfIs
  <2>3. Go(c, to) /\ write' = [write EXCEPT ![k] = w]
      BY <1>5
  <2>4. (to = "claim" /\ v = k) \/ (to = "reuse" /\ v # k)
      OBVIOUS
  <2> HIDE DEF v, n, to
  <2>5. w \in Writes
      BY <2>1, Idle, Zenon DEF Writes
  <2>6. w.status = "pending" /\ w.of = v /\ ~w.cancel
      BY DEF NoWrite
  <2> HIDE DEF w
  <2>7. Writ(k, w)
      BY <1>1, <1>3, <2>3, <2>5, WritIs DEF Types
  <2>8. Walks(c, to, call[c].part, call[c].complete)
      BY <1>1, <2>1, <2>3, GoWalks DEF Types
  <2>9. Types'
      BY <1>1, <1>2, <1>5, <2>7, <2>8 DEF Types, Writ, Walks
  <2>10. k \notin Versions /\ write[k] = NoWrite
      BY <1>3, <1>5 DEF WriteOK
  <2>11. /\ HeadOK' /\ (\A j \in Keys : RequestOK(j)') /\ (\A u \in Versions' : NumberOK(u)')
         /\ VersionsDiffer' /\ Versions' = Versions /\ StillAsked
         /\ \A j \in Keys : Manifest(j)' = Manifest(j) /\ CheckHead(j)' = CheckHead(j)
      BY <1>2, ContentKept
  <2>12. \A j \in Keys : GoesOn(j)
      BY <1>5, <2>7 DEF GoesOn, Writ
  <2>13. WriteOK(k)'
    <3>1. /\ write'[k] = w /\ w.status = "pending" /\ w.of = v /\ ~w.cancel
          /\ request'[k] # NoRequest /\ k \notin Versions'
        BY <1>2, <1>3, <2>6, <2>7, <2>10, <2>11 DEF Writ
    <3>2. v = k => \A u \in Versions' : version'[u].sources # Manifest(k)'
        BY <1>2, <1>3, <2>2, <2>10, <2>11
    <3>3. \A o \in Objects : object'[k][o] = "confirmed" => <<k, o>> \in stored'
        BY <1>2, <1>3, <2>10, Idle DEF WriteOK
    <3> QED
        BY <2>1, <2>11, <3>1, <3>2, <3>3 DEF WriteOK, Objects
  <2>14. ASSUME NEW j \in Keys \ {k} PROVE WriteOK(j)'
    <3>1. WriteOK(j) /\ write'[j] = write[j] /\ Manifest(j)' = Manifest(j)
        BY <2>7, <2>11 DEF IInv, Writ
    <3> QED
        BY <1>2, <2>11, <3>1 DEF WriteOK, Objects
  <2>15. PublishedWhole'
      BY <1>2, <2>11 DEF IInv, PublishedWhole, Objects
  <2>16. PendingCurrent'
      BY <1>3, <1>5, <2>7, <2>11 DEF PendingCurrent, RejectPending, Writ
  <2>17. CallOK(c)'
    <3>1. /\ call'[c].pc = to /\ call'[c].key = k /\ ~call'[c].complete
          /\ write'[k] = w /\ request' = request
        BY <1>2, <1>3, <2>7, <2>8 DEF Walks, Writ
    <3> QED
        BY <1>3, <2>4, <2>6, <3>1 DEF CallOK, Claimed
  <2>18. \A e \in Calls : call[e].pc \in Claimed => call[e].key # k
      BY <2>10, Idle DEF IInv, CallOK, Calls
  <2>19. \A e \in Calls \ {c} : CallOK(e)'
      BY <1>2, <1>3, <2>7, <2>8, <2>11, <2>12, <2>18, OthersKept DEF Walks, Writ
  <2>20. Enters(c) /\ ~Held(c)'
      BY <2>4, <2>8 DEF Enters, Held, Walks, Claimed, Writing
  <2>21. \A d \in Controls : ControlOK(d)'
      BY <1>1, <1>5, <2>8, <2>12, <2>20, ControlsStay DEF Walks
  <2>22. WorkStep
      BY <2>8, <2>20, WorkMoves DEF Walks
  <2>23. (\A j \in Keys : RequestOK(j)' /\ WriteOK(j)') /\ \A e \in Calls : CallOK(e)'
      BY <2>11, <2>13, <2>14, <2>17, <2>19
  <2> QED
      BY <2>9, <2>11, <2>15, <2>16, <2>21, <2>22, <2>23 DEF IInv, Calls, Controls
<1>6. CASE Return(c) /\ UNCHANGED write
    BY <1>2, <1>6, QuietReturn
<1>7. CASE /\ write[k].status \notin {"none", "completed"} /\ UNCHANGED <<write, control>>
           /\ Go(c, IF write[k].of = k THEN "claim" ELSE "reuse")
  <2> DEFINE to == IF write[k].of = k THEN "claim" ELSE "reuse"
  <2>1. Go(c, to) /\ to \in Places
      BY <1>7 DEF Places
  <2>2. (to = "claim" /\ write[k].of = k) \/ (to = "reuse" /\ write[k].of # k)
      OBVIOUS
  <2> HIDE DEF to
  <2>3. Walks(c, to, call[c].part, call[c].complete)
      BY <1>1, <2>1, GoWalks DEF Types
  <2>4. Types'
      BY <1>1, <1>2, <1>7, <2>3 DEF Types, Walks
  <2>5. \A j \in Keys : Kept(j)
      BY <1>2 DEF Kept
  <2>6. CallOK(c)'
    <3>1. /\ call'[c].pc = to /\ call'[c].key = k /\ ~call'[c].complete
          /\ write' = write /\ request' = request
        BY <1>2, <1>3, <1>7, <2>3 DEF Walks
    <3> QED
        BY <1>3, <1>7, <2>2, <3>1 DEF CallOK, Claimed
  <2>7. call'[c].pc \notin Claimed /\ ~Held(c)' /\ call'[c].key = k
      BY <2>2, <2>3 DEF Walks, Claimed, Held, Writing
  <2> QED
      BY <1>1, <1>2, <1>7, <2>3, <2>4, <2>5, <2>6, <2>7, CallOnly DEF Walks
<1> QED
    BY <1>5, <1>6, <1>7 DEF BeginWrite, Admit

(* A request that was completed leaves none that is pending. *)
LEMMA Completed ==
    ASSUME IInv, NEW k \in Keys, write[k].status = "pending", write'[k].status = "completed",
           \A j \in Keys \ {k} : write'[j] = write[j]
    PROVE \A j \in Keys : write'[j].status # "pending"
BY DEF IInv, PendingCurrent

LEMMA FinishReusedKeeps ==
    ASSUME IInv, NEW c \in Calls, FinishReused(c) PROVE IInv' /\ WorkStep
<1> PICK k : k = call[c].key
    OBVIOUS
<1>1. call[c].pc = "reuse" /\ Types /\ CallOK(c) /\ Return(c)
    BY DEF FinishReused, IInv
<1>2. UNCHANGED <<version, request, object, stored, late, faults>>
    BY DEF FinishReused, Bytes
<1>3. k \in Keys /\ write[k] \in Writes /\ write[k].of # k /\ WriteOK(k)
    BY <1>1 DEF CallOK, Types, IInv
<1>4. CASE /\ Pending(k) /\ write[k].io = "idle"
           /\ head' = IF head.draft = write[k].of THEN head ELSE Moved(write[k].of)
           /\ write' = [write EXCEPT ![k].status = "completed"]
  <2> DEFINE w == [write[k] EXCEPT !.status = "completed"]
  <2>1. write' = [write EXCEPT ![k] = w]
      BY <1>4
  <2>2. w \in Writes
      BY <1>3, Zenon DEF Writes
  <2>3. w.status = "completed" /\ w.of = write[k].of /\ w.cancel = write[k].cancel
      BY <1>3 DEF Writes
  <2> HIDE DEF w
  <2>4. Writ(k, w)
      BY <1>1, <1>3, <2>1, <2>2, WritIs DEF Types
  <2>5. write[k].status = "pending" /\ ~write[k].cancel /\ write[k].of \in Versions
        /\ request[k] # NoRequest
      BY <1>3, <1>4 DEF Pending, WriteOK
  <2>6. head' \in [revision : Nat, draft : Ref] /\ head'.draft \in Versions \cup {None}
    <3>1. write[k].of \in Ref /\ head.revision + 1 \in Nat
        BY <1>1, <1>3 DEF Types, Writes
    <3>2. Moved(write[k].of) \in [revision : Nat, draft : Ref]
          /\ Moved(write[k].of).draft = write[k].of
        BY <3>1 DEF Moved
    <3> QED
        BY <1>1, <1>4, <2>5, <3>2 DEF Types, IInv, HeadOK
  <2>7. Versions' = Versions
      BY <1>2 DEF Versions
  <2>8. /\ HeadOK' /\ (\A j \in Keys : RequestOK(j)') /\ (\A u \in Versions' : NumberOK(u)')
        /\ VersionsDiffer' /\ PublishedWhole'
      BY <1>2, <2>6, <2>7
         DEF IInv, HeadOK, RequestOK, NumberOK, VersionsDiffer, PublishedWhole, Objects
  <2>9. StillAsked /\ \A j \in Keys : GoesOn(j)
      BY <1>2, <2>3, <2>4, <2>5 DEF StillAsked, GoesOn, Writ
  <2>10. \A j \in Keys : write'[j].status # "pending"
      BY <1>3, <2>3, <2>4, <2>5, Completed DEF Writ
  <2>11. ASSUME NEW j \in Keys PROVE WriteOK(j)'
    <3>1. CASE j = k
        BY <1>2, <1>3, <2>3, <2>4, <2>5, <2>7, <3>1 DEF WriteOK, Writ, Objects
    <3>2. CASE j # k
      <4>1. WriteOK(j) /\ write'[j] = write[j] /\ write[j].status # "pending"
          BY <2>4, <2>10, <3>2 DEF IInv, Writ
      <4> QED
          BY <1>2, <2>7, <4>1 DEF WriteOK, Objects
    <3> QED
        BY <3>1, <3>2
  <2>12. PendingCurrent'
      BY <2>10 DEF PendingCurrent
  <2>13. /\ call' \in [Calls -> CallStates] /\ control' \in [Controls -> ControlStates]
         /\ (\A e \in Calls \ {c} : call'[e] = call[e])
         /\ CallOK(c)' /\ ~Held(c)' /\ \A d \in Controls : ControlOK(d)'
      BY <1>1, <2>9, Returned
  <2>14. \A e \in Calls : call[e].pc \in Claimed => call[e].key # k
      BY <1>3 DEF IInv, CallOK
  <2>15. \A e \in Calls \ {c} : CallOK(e)'
      BY <1>2, <1>3, <2>4, <2>9, <2>13, <2>14, OthersKept DEF Writ
  <2>16. Types'
      BY <1>1, <1>2, <2>4, <2>6, <2>13 DEF Types, Writ
  <2>17. WorkStep
      BY <2>13, WorkMoves
  <2>18. \A e \in Calls : CallOK(e)'
      BY <2>13, <2>15
  <2> QED
      BY <2>8, <2>11, <2>12, <2>13, <2>16, <2>17, <2>18 DEF IInv, Calls, Controls
<1>5. CASE UNCHANGED <<head, write>>
    BY <1>1, <1>2, <1>5, QuietReturn DEF Content, Bytes
<1> QED
    BY <1>4, <1>5 DEF FinishReused

(* A new version is published: it has a number and sources of its own. *)
LEMMA Publishes ==
    ASSUME IInv, NEW k \in Keys, Pending(k), write[k].of = k,
           write[k].no = Cardinality(Versions) + 1,
           version' = [version EXCEPT ![k] = [no |-> write[k].no, sources |-> Manifest(k)]]
    PROVE /\ version' \in [Keys -> [no : Nat, sources : SUBSET Keys]]
          /\ \A j \in Keys \ {k} : version'[j] = version[j]
          /\ Versions' = Versions \cup {k} /\ k \notin Versions
          /\ (\A v \in Versions' : NumberOK(v)') /\ VersionsDiffer'
<1>1. Types /\ WriteOK(k) /\ RequestOK(k) /\ Cardinality(Versions) \in Nat
    BY VersionsFinite DEF IInv
<1>2. k \notin Versions /\ \A v \in Versions : version[v].sources # Manifest(k)
    BY <1>1 DEF Pending, WriteOK
<1>3. Manifest(k) \in SUBSET Keys
  <2>1. request[k] # NoRequest
      BY <1>1 DEF Pending, WriteOK
  <2>2. request[k].base \in Ref
      BY <1>1, <2>1 DEF RequestOK, Versions, Ref
  <2>3. Sources(request[k].base) \in SUBSET Keys
      BY <1>1, <2>2 DEF Sources, Types, Ref
  <2> QED
      BY <2>3 DEF Manifest
<1> DEFINE v == [no |-> write[k].no, sources |-> Manifest(k)]
<1>4. /\ version'[k] = v /\ (\A j \in Keys \ {k} : version'[j] = version[j])
      /\ version' \in [Keys -> [no : Nat, sources : SUBSET Keys]]
    BY <1>1, <1>3 DEF Types
<1>5. v.no = Cardinality(Versions) + 1 /\ v.sources = Manifest(k)
    OBVIOUS
<1> HIDE DEF v
<1>6. Versions' = Versions \cup {k}
  <2>1. version'[k].no > 0
      BY <1>1, <1>4, <1>5
  <2>2. \A j \in Keys : version'[j].no > 0 <=> version[j].no > 0 \/ j = k
      BY <1>4, <2>1
  <2> QED
      BY <2>2 DEF Versions
<1>7. Cardinality(Versions') = Cardinality(Versions) + 1
    BY <1>2, <1>6, VersionsFinite, FS_AddElement
<1>8. \A u \in Versions : u \in Keys /\ u # k /\ version'[u] = version[u]
          /\ version[u].no \in Nat /\ version[u].no <= Cardinality(Versions)
    BY <1>1, <1>2, <1>4 DEF Versions, IInv, NumberOK, Types
<1>9. \A u \in Versions' : NumberOK(u)'
    BY <1>1, <1>4, <1>5, <1>6, <1>7, <1>8 DEF NumberOK
<1>10. VersionsDiffer'
  <2>1. \A u \in Versions : version'[u].no # v.no /\ version'[u].sources # v.sources
      BY <1>1, <1>2, <1>5, <1>8
  <2>2. VersionsDiffer
      BY DEF IInv
  <2> QED
      BY <1>4, <1>6, <1>8, <2>1, <2>2 DEF VersionsDiffer
<1> QED
    BY <1>2, <1>4, <1>6, <1>9, <1>10

LEMMA FinishWriteKeeps ==
    ASSUME IInv, NEW c \in Calls, FinishWrite(c) PROVE IInv' /\ WorkStep
<1> PICK k : k = call[c].key
    OBVIOUS
<1>1. call[c].pc = "finish" /\ call[c].pc \in Claimed \ {"lost"}
    BY DEF FinishWrite, Claimed
<1>2. UNCHANGED <<request, object, stored, late, control, faults>>
    BY DEF FinishWrite, Bytes
<1>3. /\ Types /\ CallOK(c) /\ k \in Keys /\ write[k] \in Writes /\ write[k].of = k
      /\ write[k].owner = c /\ WriteOK(k) /\ call[c] \in CallStates
    BY <1>1, ClaimedCall DEF CallOK, Types, IInv
<1>4. CASE /\ Pending(k) /\ Confirmed(k) /\ write[k].no = Cardinality(Versions) + 1
           /\ version' = [version EXCEPT ![k] = [no |-> write[k].no, sources |-> Manifest(k)]]
           /\ head' = Moved(k)
           /\ write' = [write EXCEPT ![k].status = "completed", ![k].needs = FALSE]
           /\ call' = [call EXCEPT ![c].pc = "exit", ![c].complete = TRUE]
  <2> DEFINE w == [write[k] EXCEPT !.status = "completed", !.needs = FALSE]
  <2>1. write' = [write EXCEPT ![k] = w]
      BY <1>3, <1>4 DEF Types, Writes
  <2>2. w \in Writes
      BY <1>3, Zenon DEF Writes
  <2>3. /\ w.status = "completed" /\ w.of = k /\ w.cancel = write[k].cancel
        /\ w.owner = c /\ w.io = write[k].io
      BY <1>3 DEF Writes
  <2> HIDE DEF w
  <2>4. Writ(k, w)
      BY <1>3, <2>1, <2>2, WritIs DEF Types
  <2>5. write[k].status = "pending" /\ ~write[k].cancel /\ request[k] # NoRequest
        /\ write[k].io = "running"
      BY <1>1, <1>3, <1>4 DEF Pending, WriteOK, CallOK
  <2>6. /\ version' \in [Keys -> [no : Nat, sources : SUBSET Keys]]
        /\ \A j \in Keys \ {k} : version'[j] = version[j]
        /\ Versions' = Versions \cup {k} /\ k \notin Versions
        /\ (\A v \in Versions' : NumberOK(v)') /\ VersionsDiffer'
      BY <1>3, <1>4, Publishes
  <2>7. head' \in [revision : Nat, draft : Ref] /\ head'.draft = k
    <3>1. head.revision + 1 \in Nat /\ k \in Ref
        BY <1>3 DEF Types, Ref
    <3> QED
        BY <1>4, <3>1 DEF Moved
  <2>8. HeadOK' /\ \A j \in Keys : RequestOK(j)'
      BY <1>2, <2>6, <2>7 DEF IInv, HeadOK, RequestOK
  <2>9. Walks(c, "exit", call[c].part, TRUE)
      BY <1>3, <1>4, CompleteWalks DEF Types
  <2>10. StillAsked /\ \A j \in Keys : GoesOn(j)
      BY <1>2, <1>3, <2>3, <2>4, <2>5 DEF StillAsked, GoesOn, Writ
  <2>11. \A j \in Keys : write'[j].status # "pending"
      BY <1>3, <2>3, <2>4, <2>5, Completed DEF Writ
  <2>12. \A o \in Objects : <<k, o>> \in stored
      BY <1>3, <1>4, <2>5 DEF Confirmed, WriteOK
  <2>13. PublishedWhole'
      BY <1>2, <2>6, <2>12 DEF IInv, PublishedWhole, Objects
  <2>14. PendingCurrent'
      BY <2>11 DEF PendingCurrent
  <2>15. ASSUME NEW j \in Keys PROVE WriteOK(j)'
    <3>1. CASE j = k
        BY <1>2, <1>3, <2>3, <2>4, <2>5, <2>6, <2>12, <3>1 DEF WriteOK, Writ, Objects
    <3>2. CASE j # k
      <4>1. WriteOK(j) /\ write'[j] = write[j] /\ write[j].status # "pending"
          BY <2>4, <2>11, <3>2 DEF IInv, Writ
      <4> QED
          BY <1>2, <2>6, <3>2, <4>1 DEF WriteOK, Objects
    <3> QED
        BY <3>1, <3>2
  <2>16. CallOK(c)'
    <3>1. /\ call'[c].pc = "exit" /\ call'[c].key = k /\ call'[c].complete
          /\ write'[k] = w /\ request' = request
        BY <1>2, <2>4, <2>9 DEF Walks, Writ
    <3> QED
        BY <1>3, <2>3, <2>5, <3>1 DEF CallOK
  <2>17. \A e \in Calls \ {c} : call[e].pc \in Claimed => call[e].key # k
      BY <1>1, OneOwner
  <2>18. \A e \in Calls \ {c} : CallOK(e)'
      BY <1>2, <1>3, <2>4, <2>9, <2>10, <2>17, OthersKept DEF Writ, Walks
  <2>19. Enters(c) /\ ~Held(c)'
      BY <1>1, <2>9 DEF Enters, Held, Walks, Writing
  <2>20. \A d \in Controls : ControlOK(d)'
      BY <1>1, <1>2, <2>9, <2>10, <2>19, ControlsStay DEF Walks
  <2>21. Types'
      BY <1>2, <1>3, <2>4, <2>6, <2>7, <2>9 DEF Types, Writ, Walks
  <2>22. WorkStep
      BY <2>9, <2>19, WorkMoves DEF Walks
  <2>23. \A e \in Calls : CallOK(e)'
      BY <2>16, <2>18
  <2> QED
      BY <2>6, <2>8, <2>13, <2>14, <2>15, <2>20, <2>21, <2>22, <2>23 DEF IInv, Calls, Controls
<1>5. CASE UNCHANGED <<Content, write>> /\ Go(c, "exit")
  <2>1. late' \subseteq Keys \X Objects /\ faults' \in 0 .. MaxFaults
      BY <1>2, <1>3 DEF Types
  <2> QED
      BY <1>1, <1>2, <1>5, <2>1, Stops
<1> QED
    BY <1>4, <1>5 DEF FinishWrite

-----------------------------------------------------------------------------
(* Controls *)

SameCall(c) ==
    /\ call'[c].pc = call[c].pc /\ call'[c].key = call[c].key
    /\ call'[c].part = call[c].part /\ call'[c].complete = call[c].complete
SameClaim(k) == write'[k].owner = write[k].owner /\ write'[k].io = write[k].io

(* A step of one control, which may forget a call that is over. *)
LEMMA ControlStep ==
    ASSUME IInv, Types', UNCHANGED <<Content, request>>, NEW d \in Controls,
           \A e \in Controls \ {d} : control'[e] = control[e], ControlOK(d)',
           \A k \in Keys : WriteOK(k)' /\ GoesOn(k) /\ Kept(k),
           \A k \in Keys : write'[k].status = "pending" => write[k].status = "pending",
           \A c \in Calls : SameCall(c) \/ (call[c].pc = "lost" /\ call'[c] = NoCall),
           \A c \in Calls : CallOK(c)'
    PROVE IInv' /\ WorkStep
<1>1. PublishedWhole' /\ PendingCurrent'
    BY PublishedKept
<1>2. \A c \in Calls : Enters(c)
    BY Idle DEF SameCall, Enters, Claimed
<1>3. \A c \in Calls : call[c].pc \in {"none", "lost"} => call'[c].pc \in {"none", "lost"}
    BY Idle DEF SameCall
<1>4. \A e \in Controls : ControlOK(e)'
    BY <1>2, <1>3, ControlKept
<1>5. Holders' = Holders
  <2>1. \A c \in Calls : Held(c)' = Held(c)
      BY Idle DEF SameCall, Held, Writing
  <2> QED
      BY <2>1 DEF Holders, Held, Calls
<1>6. WorkStep
    BY <1>5 DEF WorkStep
<1>7. /\ HeadOK' /\ (\A k \in Keys : RequestOK(k)') /\ (\A v \in Versions' : NumberOK(v)')
      /\ VersionsDiffer'
    BY ContentKept
<1> QED
    BY <1>1, <1>4, <1>6, <1>7 DEF IInv, Calls, Controls

(* A step after which a write is still what it was. *)
LEMMA Neutral ==
    ASSUME IInv, Types', UNCHANGED <<Content, request>>, NEW d \in Controls,
           \A e \in Controls \ {d} : control'[e] = control[e], ControlOK(d)',
           \A k \in Keys : SameWrite(k) /\ SameClaim(k) /\ Kept(k),
           \A c \in Calls : SameCall(c),
           \A c \in Calls : call[c].pc = "confirm" /\ Object(c) \in stored =>
               <<call[c].key, call[c].part>> \in stored'
    PROVE IInv' /\ WorkStep
<1>1. \A k \in Keys : WriteOK(k)' /\ GoesOn(k)
    BY WriteKept
<1>2. StillAsked
    BY ContentKept
<1>3. ASSUME NEW c \in Calls PROVE CallOK(c)'
  <2>1. call[c].pc \in Claimed => SameWrite(call[c].key) /\ SameClaim(call[c].key)
      BY ClaimedCall
  <2>2. call[c].pc \in Claimed =>
               /\ write'[call[c].key].owner = write[call[c].key].owner
               /\ write'[call[c].key].io = write[call[c].key].io
               /\ write'[call[c].key].status = write[call[c].key].status
      BY <2>1 DEF SameWrite, SameClaim
  <2>3. SameCall(c)
      OBVIOUS
  <2> QED
      BY <1>1, <1>2, <2>2, <2>3, CallKept DEF SameCall
<1>4. \A k \in Keys : write'[k].status = "pending" => write[k].status = "pending"
    BY DEF SameWrite
<1> QED
    BY <1>1, <1>3, <1>4, ControlStep

(* The same with no change to what the calls do and write. *)
LEMMA Turned ==
    ASSUME IInv, UNCHANGED <<Content, request, late, write, object, stored, call>>,
           faults' \in 0 .. MaxFaults, NEW d \in Controls, NEW q, Turns(d, q), ControlOK(d)'
    PROVE IInv' /\ WorkStep
<1>1. \A k \in Keys : SameWrite(k) /\ SameClaim(k) /\ Kept(k)
    BY DEF SameWrite, SameClaim, Kept
<1>2. Types'
    BY DEF IInv, Types, Content, Turns
<1>3. \A c \in Calls : SameCall(c)
    BY DEF SameCall
<1> QED
    BY <1>1, <1>2, <1>3, Neutral DEF Turns, Object

LEMMA RestingOK ==
    ASSUME NEW d \in Controls, control'[d].pc = "none" PROVE ControlOK(d)'
BY DEF ControlOK, Removing

(* A mark on the request that is not looked at by anyone. *)
LEMMA NeedsMarked ==
    ASSUME IInv, NEW k \in Keys, NEW b \in BOOLEAN, write[k].status # "none",
           write' = [write EXCEPT ![k].needs = b]
    PROVE write' \in [Keys -> Writes] /\ \A j \in Keys : SameWrite(j) /\ SameClaim(j)
<1> DEFINE w == [write[k] EXCEPT !.needs = b]
<1>1. write \in [Keys -> Writes] /\ write[k] \in Writes
    BY DEF IInv, Types
<1>2. w \in Writes
    BY <1>1, Zenon DEF Writes
<1>3. /\ w.status = write[k].status /\ w.of = write[k].of /\ w.cancel = write[k].cancel
      /\ w.owner = write[k].owner /\ w.io = write[k].io
    BY <1>1 DEF Writes
<1>4. write' = [write EXCEPT ![k] = w]
    OBVIOUS
<1> HIDE DEF w
<1>5. Writ(k, w)
    BY <1>1, <1>2, <1>4, WritIs
<1>6. ASSUME NEW j \in Keys PROVE SameWrite(j) /\ SameClaim(j)
  <2>1. CASE j = k
      BY <1>3, <1>5, <2>1 DEF Writ, SameWrite, SameClaim
  <2>2. CASE j # k
      BY <1>5, <2>2 DEF Writ, SameWrite, SameClaim
  <2> QED
      BY <2>1, <2>2
<1> QED
    BY <1>5, <1>6 DEF Writ

LEMMA UncertainKeeps ==
    ASSUME IInv, NEW d \in Controls, control[d].pc # "none", Uncertain(d),
           UNCHANGED <<Content, request, late, object, stored, call>>,
           faults' \in 0 .. MaxFaults
    PROVE IInv' /\ WorkStep
<1>1. Types /\ control[d].key \in Keys
    BY DEF IInv, ControlOK
<1>2. write' \in [Keys -> Writes] /\ \A j \in Keys : SameWrite(j) /\ SameClaim(j)
  <2>1. CASE write[control[d].key].status = "pending"
      BY <1>1, <2>1, NeedsMarked DEF Uncertain
  <2>2. CASE write[control[d].key].status # "pending"
      BY <1>1, <2>2 DEF Uncertain, Types, SameWrite, SameClaim
  <2> QED
      BY <2>1, <2>2
<1>3. Turns(d, NoControl)
    BY <1>1, Idle, TurnIs DEF Uncertain, Types
<1>4. Types'
    BY <1>1, <1>2, <1>3 DEF Types, Content, Turns
<1>5. ControlOK(d)'
    BY <1>3, Idle, RestingOK DEF Turns
<1>6. (\A k \in Keys : Kept(k)) /\ (\A c \in Calls : SameCall(c))
    BY DEF Kept, SameCall
<1> QED
    BY <1>2, <1>3, <1>4, <1>5, <1>6, Neutral DEF Turns, Object

LEMMA ControlKnown ==
    ASSUME IInv, NEW d \in Controls, control[d].pc # "none"
    PROVE /\ Types /\ control \in [Controls -> ControlStates] /\ ControlOK(d)
          /\ control[d] \in ControlStates /\ control[d].key \in Keys
          /\ write[control[d].key] \in Writes /\ WriteOK(control[d].key)
          /\ write[control[d].key].status # "none"
BY DEF IInv, ControlOK, Types

LEMMA ControlKeeps ==
    ASSUME IInv, NEW d \in Controls, NEW k \in Keys, Control(d, k) PROVE IInv' /\ WorkStep
<1> DEFINE q == [NoControl EXCEPT !.pc = "read", !.key = k]
<1>1. Types /\ WriteOK(k) /\ write[k] \in Writes /\ write[k].status = "pending"
    BY DEF IInv, Types, Control
<1>2. UNCHANGED <<head, version, request, late, object, stored, call, faults>>
    BY DEF Control, Keep, Content
<1>3. q \in ControlStates /\ q.pc = "read" /\ q.key = k
  <2>1. q \in ControlStates
      BY Idle, Zenon DEF ControlStates, Ref
  <2> QED
      BY <2>1 DEF NoControl
<1>4. control' = [control EXCEPT ![d] = q]
    BY DEF Control
<1> HIDE DEF q
<1>5. Turns(d, q)
    BY <1>1, <1>3, <1>4, TurnIs DEF Types
<1>6. (\A j \in Keys : Kept(j)) /\ (\A c \in Calls : SameCall(c)) /\ StillAsked
    BY <1>2 DEF Kept, SameCall, StillAsked
<1>7. CASE write' = [write EXCEPT ![k].cancel = TRUE]
  <2> DEFINE w == [write[k] EXCEPT !.cancel = TRUE]
  <2>1. w \in Writes
      BY <1>1, Zenon DEF Writes
  <2>2. /\ w.status = "pending" /\ w.of = write[k].of /\ w.cancel
        /\ w.owner = write[k].owner /\ w.io = write[k].io
      BY <1>1 DEF Writes
  <2>3. write' = [write EXCEPT ![k] = w]
      BY <1>7
  <2> HIDE DEF w
  <2>4. Writ(k, w)
      BY <1>1, <2>1, <2>3, WritIs DEF Types
  <2>5. Types'
      BY <1>1, <1>2, <1>5, <2>4 DEF Types, Turns, Writ
  <2>6. \A j \in Keys : GoesOn(j) /\ SameClaim(j) /\ write'[j].status = write[j].status
    <3> SUFFICES ASSUME NEW j \in Keys
                 PROVE GoesOn(j) /\ SameClaim(j) /\ write'[j].status = write[j].status
        OBVIOUS
    <3>1. CASE j = k
        BY <1>1, <2>2, <2>4, <3>1 DEF Writ, GoesOn, SameClaim
    <3>2. CASE j # k
        BY <2>4, <3>2 DEF Writ, GoesOn, SameClaim
    <3> QED
        BY <3>1, <3>2
  <2>7. /\ Versions' = Versions /\ \A j \in Keys : Manifest(j)' = Manifest(j)
      BY <1>2, ContentKept DEF Content
  <2>8. ASSUME NEW j \in Keys PROVE WriteOK(j)'
    <3>1. CASE j = k
        BY <1>1, <1>2, <2>2, <2>4, <2>7, <3>1 DEF WriteOK, Writ, Objects
    <3>2. CASE j # k
      <4>1. WriteOK(j) /\ write'[j] = write[j]
          BY <2>4, <3>2 DEF IInv, Writ
      <4> QED
          BY <1>2, <2>7, <4>1 DEF WriteOK, Objects
    <3> QED
        BY <3>1, <3>2
  <2>9. ASSUME NEW c \in Calls PROVE CallOK(c)'
    <3>1. call[c].pc \in Claimed => call[c].key \in Keys
        BY ClaimedCall
    <3>2. call[c].pc \in Claimed =>
               /\ write'[call[c].key].owner = write[call[c].key].owner
               /\ write'[call[c].key].io = write[call[c].key].io
               /\ write'[call[c].key].status = write[call[c].key].status
        BY <2>6, <3>1 DEF SameClaim
    <3> QED
        BY <1>2, <1>6, <2>6, <3>2, CallKept DEF Object
  <2>10. ControlOK(d)'
    <3>1. control'[d].pc = "read" /\ control'[d].key = k /\ write'[k].status # "none"
        BY <1>1, <1>3, <1>5, <2>6 DEF Turns
    <3> QED
        BY <3>1 DEF ControlOK, Removing
  <2> QED
      BY <1>2, <1>5, <1>6, <2>5, <2>6, <2>8, <2>9, <2>10, ControlStep DEF Turns, Content
<1>8. CASE write' = [write EXCEPT ![k].needs = TRUE]
  <2>1. write' \in [Keys -> Writes] /\ \A j \in Keys : SameWrite(j) /\ SameClaim(j)
      BY <1>1, <1>8, NeedsMarked
  <2>2. Types'
      BY <1>1, <1>2, <1>5, <2>1 DEF Types, Turns
  <2>3. ControlOK(d)'
    <3>1. control'[d].pc = "read" /\ control'[d].key = k /\ write'[k].status # "none"
        BY <1>1, <1>3, <1>5, <2>1 DEF Turns, SameWrite
    <3> QED
        BY <3>1 DEF ControlOK, Removing
  <2> QED
      BY <1>2, <1>5, <1>6, <2>1, <2>2, <2>3, Neutral DEF Turns, Content, Object
<1> QED
    BY <1>7, <1>8 DEF Control

(* What a control does after it has read the request. *)
LEMMA DecideTurns ==
    ASSUME IInv, NEW d \in Controls, control[d].pc # "none", Decide(d),
           write[control[d].key].io # "running", UNCHANGED <<write, call>>
    PROVE \E q \in ControlStates : Turns(d, q) /\ ControlOK(d)'
<1> PICK k : k = control[d].key
    OBVIOUS
<1>1. Types /\ k \in Keys /\ write[k].status # "none"
    BY ControlKnown
<1>2. CASE write[k].cancel /\ write[k].of = k
  <2> DEFINE q == [NoControl EXCEPT !.pc = "look", !.key = k, !.part = 1, !.seen = object[k]]
  <2>1. object[k] \in [Objects -> States]
      BY <1>1 DEF Types
  <2>2. q \in ControlStates
      BY <1>1, <2>1, Idle, Zenon DEF ControlStates, Ref, Removing
  <2>3. q.pc = "look" /\ q.key = k /\ q.part = 1
      BY DEF NoControl
  <2>4. control' = [control EXCEPT ![d] = q]
      BY <1>2 DEF Decide
  <2> HIDE DEF q
  <2>5. Turns(d, q)
      BY <1>1, <2>2, <2>4, TurnIs DEF Types
  <2>6. 1 \in Objects
      BY SourceAssumption DEF Objects
  <2>7. \A c \in Calls : call[c].pc \in Claimed => call[c].key # k
      BY DEF IInv, CallOK
  <2>8. ControlOK(d)'
      BY <1>1, <1>2, <2>3, <2>5, <2>6, <2>7 DEF ControlOK, Turns, Unclaimed, Objects
  <2> QED
      BY <2>2, <2>5, <2>8
<1>3. CASE ~(write[k].cancel /\ write[k].of = k)
  <2> DEFINE q == [NoControl EXCEPT !.pc = "finish", !.key = k]
  <2>1. q \in ControlStates
      BY <1>1, Idle, Zenon DEF ControlStates, Ref
  <2>2. q.pc = "finish" /\ q.key = k
      BY DEF NoControl
  <2>3. control' = [control EXCEPT ![d] = q]
      BY <1>3 DEF Decide
  <2> HIDE DEF q
  <2>4. Turns(d, q)
      BY <1>1, <2>1, <2>3, TurnIs DEF Types
  <2>5. ControlOK(d)'
      BY <1>1, <2>2, <2>4 DEF ControlOK, Turns, Removing
  <2> QED
      BY <2>1, <2>4, <2>5
<1> QED
    BY <1>2, <1>3

LEMMA ReadWriteKeeps ==
    ASSUME IInv, NEW d \in Controls, ReadWrite(d) PROVE IInv' /\ WorkStep
<1> DEFINE k == control[d].key
<1>1. control[d].pc # "none"
    BY DEF ReadWrite
<1>2. /\ UNCHANGED <<Content, request, late, object, stored, call, faults>>
    BY DEF ReadWrite, Keep
<1>3. Types /\ control \in [Controls -> ControlStates] /\ control[d] \in ControlStates
      /\ k \in Keys /\ write[k] \in Writes /\ write[k].status # "none"
    BY <1>1, ControlKnown
<1>4. faults' \in 0 .. MaxFaults
    BY <1>2, <1>3 DEF Types
<1>5. CASE control' = [control EXCEPT ![d] = NoControl] /\ UNCHANGED write
  <2>1. Turns(d, NoControl)
      BY <1>3, <1>5, Idle, TurnIs
  <2> QED
      BY <1>2, <1>4, <1>5, <2>1, Idle, RestingOK, Turned DEF Turns
<1>6. CASE /\ write[k].owner # 0 /\ UNCHANGED write
           /\ control' = [control EXCEPT ![d].pc = "stop", ![d].owner = write[k].owner]
  <2> DEFINE q == [control[d] EXCEPT !.pc = "stop", !.owner = write[k].owner]
  <2>1. write[k].owner \in Calls
      BY <1>3, <1>6 DEF Writes, Owners
  <2>2. q \in ControlStates
    <3>1. write[k].owner \in Owners
        BY <2>1 DEF Owners
    <3> QED
        BY <1>3, <3>1, Zenon DEF ControlStates
  <2>3. q.pc = "stop" /\ q.key = k /\ q.owner = write[k].owner
      BY <1>3 DEF ControlStates
  <2>4. control' = [control EXCEPT ![d] = q]
      BY <1>3, <1>6 DEF ControlStates
  <2> HIDE DEF q, k
  <2>5. Turns(d, q)
      BY <1>3, <2>2, <2>4, TurnIs
  <2>6. ControlOK(d)'
      BY <1>3, <1>6, <2>1, <2>3, <2>5 DEF ControlOK, Turns, Removing
  <2> QED
      BY <1>2, <1>4, <1>6, <2>5, <2>6, Turned
<1>7. CASE Uncertain(d)
    BY <1>1, <1>2, <1>4, <1>7, UncertainKeeps
<1>8. CASE write[k].io # "running" /\ Decide(d) /\ UNCHANGED write
  <2>1. PICK q \in ControlStates : Turns(d, q) /\ ControlOK(d)'
      BY <1>1, <1>2, <1>8, DecideTurns
  <2> QED
      BY <1>2, <1>4, <1>8, <2>1, Turned
<1> QED
    BY <1>5, <1>6, <1>7, <1>8 DEF ReadWrite

LEMMA StopKeeps ==
    ASSUME IInv, NEW d \in Controls, Stop(d) PROVE IInv' /\ WorkStep
<1> DEFINE o == control[d].owner
<1>1. control[d].pc = "stop" /\ control[d].pc # "none"
    BY DEF Stop
<1>2. UNCHANGED <<head, version, request, late, object, stored, faults>>
    BY DEF Stop, Keep, Content
<1>3. /\ Types /\ control \in [Controls -> ControlStates] /\ ControlOK(d) /\ o \in Calls
      /\ control[d].key \in Keys /\ write[control[d].key].status # "none"
      /\ call[o] \in CallStates
    BY <1>1, ControlKnown DEF ControlOK, Types
<1>4. faults' \in 0 .. MaxFaults
    BY <1>2, <1>3 DEF Types
<1>5. CASE Uncertain(d) /\ UNCHANGED call
    BY <1>1, <1>2, <1>4, <1>5, UncertainKeeps DEF Content
<1>6. CASE call[o].pc = "lost" /\ Step(d, "prove") /\ UNCHANGED <<write, call>>
  <2>1. PICK q \in ControlStates : /\ Turns(d, q) /\ q.pc = "prove"
                                   /\ q.key = control[d].key /\ q.owner = o
      BY <1>3, <1>6, StepTurns DEF Stages
  <2>2. ControlOK(d)'
    <3>1. control'[d] = q /\ call' = call /\ write' = write
        BY <1>6, <2>1 DEF Turns
    <3> QED
        BY <1>3, <1>6, <2>1, <3>1 DEF ControlOK, Removing
  <2> QED
      BY <1>2, <1>4, <1>6, <2>1, <2>2, Turned DEF Content
<1>7. CASE /\ call' = [call EXCEPT ![o].stopped = TRUE] /\ Step(d, "join") /\ UNCHANGED write
  <2>1. PICK q \in ControlStates : /\ Turns(d, q) /\ q.pc = "join"
                                   /\ q.key = control[d].key /\ q.owner = o
      BY <1>3, <1>7, StepTurns DEF Stages
  <2>2. call' \in [Calls -> CallStates] /\ \A c \in Calls : SameCall(c)
    <3> DEFINE p == [call[o] EXCEPT !.stopped = TRUE]
    <3>1. p \in CallStates
        BY <1>3, Zenon DEF CallStates
    <3>2. /\ p.pc = call[o].pc /\ p.key = call[o].key /\ p.part = call[o].part
          /\ p.complete = call[o].complete
        BY <1>3 DEF CallStates
    <3>3. call' = [call EXCEPT ![o] = p]
        BY <1>7
    <3> HIDE DEF p, o
    <3>4. call' \in [Calls -> CallStates]
        BY <1>3, <3>1, <3>3 DEF Types
    <3>5. ASSUME NEW c \in Calls PROVE SameCall(c)
      <4>1. CASE c = o
          BY <1>3, <3>2, <3>3, <4>1 DEF SameCall, Types
      <4>2. CASE c # o
          BY <1>3, <3>3, <4>2 DEF SameCall, Types
      <4> QED
          BY <4>1, <4>2
    <3> QED
        BY <3>4, <3>5
  <2>3. Types'
      BY <1>2, <1>3, <1>7, <2>1, <2>2 DEF Types, Turns
  <2>4. ControlOK(d)'
    <3>1. control'[d] = q /\ write' = write
        BY <1>7, <2>1 DEF Turns
    <3> QED
        BY <1>3, <2>1, <3>1 DEF ControlOK, Removing
  <2>5. \A k \in Keys : SameWrite(k) /\ SameClaim(k) /\ Kept(k)
      BY <1>2, <1>7 DEF SameWrite, SameClaim, Kept
  <2> QED
      BY <1>2, <2>1, <2>2, <2>3, <2>4, <2>5, Neutral DEF Content, Turns, Object
<1> QED
    BY <1>5, <1>6, <1>7 DEF Stop

LEMMA JoinEndsKeeps ==
    ASSUME IInv, NEW d \in Controls, JoinEnds(d) PROVE IInv' /\ WorkStep
<1>1. control[d].pc # "none" /\ Uncertain(d)
    BY DEF JoinEnds
<1>2. faults' \in 0 .. MaxFaults
    BY FaultBound DEF JoinEnds
<1> QED
    BY <1>1, <1>2, UncertainKeeps DEF JoinEnds, Keep

(* Whoever waited for the call that had claimed the write is told the       *)
(* truth: no call has it any more.                                          *)
LEMMA ProveSourceStopKeeps ==
    ASSUME IInv, NEW d \in Controls, ProveSourceStop(d) PROVE IInv' /\ WorkStep
<1> PICK k, o : k = control[d].key /\ o = control[d].owner
    OBVIOUS
<1>1. control[d].pc = "prove" /\ control[d].pc # "none"
    BY DEF ProveSourceStop
<1>2. UNCHANGED <<head, version, request, late, object, stored, faults>>
    BY DEF ProveSourceStop, Keep, Content
<1>3. /\ Types /\ control \in [Controls -> ControlStates] /\ ControlOK(d) /\ o \in Calls
      /\ k \in Keys /\ write[k] \in Writes /\ WriteOK(k) /\ call[o].pc \in {"none", "lost"}
    BY <1>1, ControlKnown DEF ControlOK
<1>4. CASE /\ write[k].status = "pending" /\ (write[k].owner = o \/ write[k].owner = 0)
           /\ write' = [write EXCEPT ![k].owner = 0, ![k].io = "ended"] /\ Step(d, "again")
           /\ call' = IF call[o].pc = "lost" THEN [call EXCEPT ![o] = NoCall] ELSE call
  <2> DEFINE w == [write[k] EXCEPT !.owner = 0, !.io = "ended"]
  <2>1. write' = [write EXCEPT ![k] = w]
      BY <1>3, <1>4 DEF Types, Writes
  <2>2. w \in Writes
      BY <1>3, Zenon DEF Writes, Owners
  <2>3. w.status = "pending" /\ w.of = write[k].of /\ w.cancel = write[k].cancel
      BY <1>3, <1>4 DEF Writes
  <2> HIDE DEF w
  <2>4. Writ(k, w)
      BY <1>3, <2>1, <2>2, WritIs DEF Types
  <2>5. PICK q \in ControlStates : Turns(d, q) /\ q.pc = "again" /\ q.key = k
      BY <1>3, <1>4, StepTurns DEF Stages
  <2>6. /\ call' \in [Calls -> CallStates]
        /\ \A c \in Calls \ {o} : call'[c] = call[c]
        /\ call'[o] = call[o] \/ (call[o].pc = "lost" /\ call'[o] = NoCall)
        /\ call[o].pc = "lost" => call'[o] = NoCall
      BY <1>3, <1>4, Idle DEF Types
  <2>7. Types'
      BY <1>2, <1>3, <2>4, <2>5, <2>6 DEF Types, Writ, Turns
  <2>8. ASSUME NEW j \in Keys PROVE SameWrite(j) /\ Kept(j)
    <3>1. CASE j = k
        BY <1>2, <1>4, <2>3, <2>4, <3>1 DEF Writ, SameWrite, Kept
    <3>2. CASE j # k
        BY <1>2, <2>4, <3>2 DEF Writ, SameWrite, Kept
    <3> QED
        BY <3>1, <3>2
  <2>9. \A j \in Keys : WriteOK(j)' /\ GoesOn(j)
      BY <1>2, <2>8, WriteKept DEF Content
  <2>10. \A c \in Calls : call[c].pc \in Claimed /\ call[c].key = k => c = o
      BY <1>3, <1>4 DEF IInv, CallOK, Calls
  <2>11. ASSUME NEW c \in Calls
         PROVE /\ CallOK(c)'
               /\ SameCall(c) \/ (call[c].pc = "lost" /\ call'[c] = NoCall)
    <3>1. CASE call'[c] = NoCall
      <4>1. CallOK(c)'
          BY <3>1, Idle DEF CallOK, Claimed
      <4> QED
          BY <2>6, <3>1, <4>1 DEF SameCall
    <3>2. CASE call'[c] # NoCall
      <4>1. call'[c] = call[c] /\ SameCall(c)
          BY <2>6, <3>2 DEF SameCall
      <4>2. call[c].pc \in Claimed => call[c].key \in Keys \ {k}
          BY <1>3, <2>6, <2>10, <3>2, ClaimedCall DEF Claimed
      <4>3. call[c].pc \in Claimed => write'[call[c].key] = write[call[c].key]
          BY <2>4, <4>2 DEF Writ
      <4>4. StillAsked
          BY <1>2 DEF StillAsked
      <4> QED
          BY <1>2, <2>9, <4>1, <4>3, <4>4, CallKept DEF Object
    <3> QED
        BY <3>1, <3>2
  <2>12. ControlOK(d)'
    <3>1. control'[d] = q /\ write'[k].status # "none"
        BY <2>3, <2>4, <2>5 DEF Turns, Writ
    <3> QED
        BY <1>3, <2>5, <3>1 DEF ControlOK, Removing
  <2>13. \A j \in Keys : write'[j].status = "pending" => write[j].status = "pending"
      BY <2>8 DEF SameWrite
  <2> QED
      BY <1>2, <2>5, <2>7, <2>8, <2>9, <2>11, <2>12, <2>13, ControlStep DEF Turns, Content
<1>5. CASE Uncertain(d) /\ UNCHANGED call
  <2>1. faults' \in 0 .. MaxFaults
      BY <1>2, <1>3 DEF Types
  <2> QED
      BY <1>1, <1>2, <1>5, <2>1, UncertainKeeps DEF Content
<1> QED
    BY <1>4, <1>5 DEF ProveSourceStop

-----------------------------------------------------------------------------
(* The removal of what a cancelled write has stored *)

LEMMA RemovingKnown ==
    ASSUME IInv, NEW d \in Controls, control[d].pc \in Removing
    PROVE /\ Types /\ control \in [Controls -> ControlStates] /\ control[d] \in ControlStates
          /\ control[d].pc # "none" /\ control[d].key \in Keys /\ control[d].part \in Objects
          /\ write[control[d].key].cancel /\ write[control[d].key].of = control[d].key
          /\ write[control[d].key].status # "none" /\ Unclaimed(control[d].key)
          /\ ControlOK(d)
BY ControlKnown DEF ControlOK, Removing

(* Only the objects of a cancelled write change, which no call has claimed. *)
LEMMA RemovalKeeps ==
    ASSUME IInv, UNCHANGED <<Content, request, late, write, call, faults>>,
           NEW d \in Controls, control[d].pc \in Removing, NEW q, Turns(d, q), ControlOK(d)',
           object' \in [Keys -> [Objects -> States]], stored' \subseteq Keys \X Objects,
           \A k \in Keys \ {control[d].key}, o \in Objects :
               object'[k][o] = object[k][o] /\ (<<k, o>> \in stored => <<k, o>> \in stored')
    PROVE IInv' /\ WorkStep
<1>1. Types'
    BY DEF IInv, Types, Content, Turns
<1>2. write[control[d].key].cancel /\ Unclaimed(control[d].key)
    BY RemovingKnown
<1>3. \A k \in Keys : SameWrite(k) /\ SameClaim(k)
    BY DEF SameWrite, SameClaim
<1>4. \A k \in Keys : Kept(k)
    BY <1>2 DEF Kept
<1>5. \A c \in Calls : SameCall(c)
    BY DEF SameCall
<1>6. ASSUME NEW c \in Calls, call[c].pc = "confirm", Object(c) \in stored
      PROVE <<call[c].key, call[c].part>> \in stored'
  <2>1. call[c].pc \in Claimed /\ call[c].key # control[d].key
      BY <1>2, <1>6 DEF Unclaimed, Claimed
  <2>2. call[c].key \in Keys /\ call[c].part \in Objects
      BY <1>6, <2>1, ClaimedCall
  <2> QED
      BY <1>6, <2>1, <2>2 DEF Object
<1> QED
    BY <1>1, <1>3, <1>4, <1>5, <1>6, Neutral DEF Turns

(* It turns to the next object, or has none left. *)
LEMMA OnwardTurns ==
    ASSUME IInv, NEW d \in Controls, control[d].pc \in Removing, Onward(d),
           UNCHANGED <<write, call>>
    PROVE \E q \in ControlStates : Turns(d, q) /\ ControlOK(d)'
<1> DEFINE to == IF control[d].part = Parts THEN "finish" ELSE "look"
           m == control[d].part + 1
           q == [control[d] EXCEPT !.part = m, !.pc = to]
<1>1. control[d] \in ControlStates /\ control[d].part \in Objects /\ ControlOK(d)
      /\ control \in [Controls -> ControlStates]
    BY RemovingKnown
<1>2. to \in Stages /\ m \in Nat /\ (to = "look" => m \in Objects) /\ to \in {"look", "finish"}
    BY <1>1, SourceAssumption DEF Stages, Removing, Objects
<1>3. control' = [control EXCEPT ![d] = q]
    BY <1>1 DEF Onward, ControlStates
<1> HIDE DEF to, m
<1>4. q \in ControlStates
    BY <1>1, <1>2, Zenon DEF ControlStates, Stages
<1>5. q.pc = to /\ q.part = m /\ q.key = control[d].key
    BY <1>1 DEF ControlStates
<1> HIDE DEF q
<1>6. Turns(d, q)
    BY <1>1, <1>3, <1>4, TurnIs
<1>7. ControlOK(d)'
  <2>1. control'[d] = q /\ write' = write /\ call' = call
      BY <1>6 DEF Turns
  <2>2. /\ control[d].key \in Keys /\ write[control[d].key].status # "none"
        /\ write[control[d].key].cancel /\ write[control[d].key].of = control[d].key
        /\ Unclaimed(control[d].key)
      BY RemovingKnown
  <2> QED
      BY <1>2, <1>5, <2>1, <2>2 DEF ControlOK, Unclaimed, Objects, Removing
<1> QED
    BY <1>4, <1>6, <1>7

(* It is at another step with the same object. *)
LEMMA RemovingTurns ==
    ASSUME IInv, NEW d \in Controls, control[d].pc \in Removing, NEW to \in Removing,
           Step(d, to), UNCHANGED <<write, call>>
    PROVE \E q \in ControlStates : Turns(d, q) /\ ControlOK(d)'
<1>1. /\ control \in [Controls -> ControlStates]
      /\ control[d].key \in Keys /\ control[d].part \in Objects
      /\ write[control[d].key].cancel /\ write[control[d].key].of = control[d].key
      /\ write[control[d].key].status # "none" /\ Unclaimed(control[d].key)
    BY RemovingKnown
<1> to \in Stages
    BY DEF Stages
<1>2. PICK q \in ControlStates : /\ Turns(d, q) /\ q.pc = to /\ q.key = control[d].key
                                 /\ q.part = control[d].part
  <2>1. \E q \in ControlStates : /\ Turns(d, q) /\ q.pc = to /\ q.key = control[d].key
                                 /\ q.owner = control[d].owner /\ q.part = control[d].part
      BY <1>1, StepTurns
  <2> QED
      BY <2>1
<1>3. control'[d] = q /\ write' = write /\ call' = call
    BY <1>2 DEF Turns
<1>4. to # "prove" /\ to # "none" /\ to # "stop" /\ to # "join"
    BY DEF Removing
<1>5. ControlOK(d)'
    BY <1>1, <1>2, <1>3, <1>4 DEF ControlOK, Unclaimed, Objects
<1> QED
    BY <1>2, <1>5

LEMMA MarkIs ==
    ASSUME IInv, NEW d \in Controls, control[d].pc \in Removing, NEW to \in States, Mark(d, to)
    PROVE /\ object' \in [Keys -> [Objects -> States]]
          /\ \A k \in Keys \ {control[d].key}, o \in Objects : object'[k][o] = object[k][o]
<1>1. Sets(control[d].key, control[d].part, to)
    BY RemovingKnown, SetIs DEF Mark, Types
<1> QED
    BY <1>1 DEF Sets

LEMMA BeginSourceRemovalKeeps ==
    ASSUME IInv, NEW d \in Controls, BeginSourceRemoval(d) PROVE IInv' /\ WorkStep
<1>1. control[d].pc \in Removing /\ control[d].pc # "none"
    BY DEF BeginSourceRemoval, Removing
<1>2. UNCHANGED <<Content, request, late, stored, call, faults>>
    BY DEF BeginSourceRemoval, Keep
<1>3. Types /\ stored \subseteq Keys \X Objects /\ faults' \in 0 .. MaxFaults
    BY <1>2 DEF IInv, Types
<1>4. CASE Onward(d) /\ UNCHANGED <<write, object>>
  <2>1. PICK q \in ControlStates : Turns(d, q) /\ ControlOK(d)'
      BY <1>1, <1>2, <1>4, OnwardTurns
  <2> QED
      BY <1>2, <1>3, <1>4, <2>1, Turned
<1>5. CASE Uncertain(d) /\ UNCHANGED object
    BY <1>1, <1>2, <1>3, <1>5, UncertainKeeps
<1>6. CASE Step(d, "gone") /\ UNCHANGED <<write, object>>
  <2>1. PICK q \in ControlStates : Turns(d, q) /\ ControlOK(d)'
      BY <1>1, <1>2, <1>6, RemovingTurns DEF Removing
  <2> QED
      BY <1>2, <1>3, <1>6, <2>1, Turned
<1>7. CASE Mark(d, "confirmed") /\ Step(d, "erase") /\ UNCHANGED write
  <2>1. PICK q \in ControlStates : Turns(d, q) /\ ControlOK(d)'
      BY <1>1, <1>2, <1>7, RemovingTurns DEF Removing
  <2>2. /\ object' \in [Keys -> [Objects -> States]]
        /\ \A k \in Keys \ {control[d].key}, o \in Objects : object'[k][o] = object[k][o]
      BY <1>1, <1>7, MarkIs DEF States
  <2> QED
      BY <1>1, <1>2, <1>3, <1>7, <2>1, <2>2, RemovalKeeps
<1> QED
    BY <1>4, <1>5, <1>6, <1>7 DEF BeginSourceRemoval

LEMMA EraseKeeps ==
    ASSUME IInv, NEW d \in Controls, Erase(d) PROVE IInv' /\ WorkStep
<1>1. control[d].pc \in Removing
    BY DEF Erase, Removing
<1>2. UNCHANGED <<Content, request, late, write, object, call, faults>>
    BY DEF Erase, Keep
<1>3. /\ stored' \subseteq Keys \X Objects /\ object' \in [Keys -> [Objects -> States]]
      /\ \A k \in Keys \ {control[d].key}, o \in Objects :
             object'[k][o] = object[k][o] /\ (<<k, o>> \in stored => <<k, o>> \in stored')
    BY <1>2 DEF IInv, Types, Erase, Target
<1>4. PICK q \in ControlStates : Turns(d, q) /\ ControlOK(d)'
    BY <1>1, <1>2, RemovingTurns DEF Removing, Erase
<1> QED
    BY <1>1, <1>2, <1>3, <1>4, RemovalKeeps

LEMMA ConfirmSourceRemovalKeeps ==
    ASSUME IInv, NEW d \in Controls, ConfirmSourceRemoval(d) PROVE IInv' /\ WorkStep
<1>1. control[d].pc \in Removing /\ control[d].pc # "none"
    BY DEF ConfirmSourceRemoval, Removing
<1>2. UNCHANGED <<Content, request, late, stored, call, faults>>
    BY DEF ConfirmSourceRemoval, Keep
<1>3. Types /\ stored \subseteq Keys \X Objects /\ faults' \in 0 .. MaxFaults
    BY <1>2 DEF IInv, Types
<1>4. CASE Mark(d, "removed") /\ Onward(d) /\ UNCHANGED write
  <2>1. PICK q \in ControlStates : Turns(d, q) /\ ControlOK(d)'
      BY <1>1, <1>2, <1>4, OnwardTurns
  <2>2. /\ object' \in [Keys -> [Objects -> States]]
        /\ \A k \in Keys \ {control[d].key}, o \in Objects : object'[k][o] = object[k][o]
      BY <1>1, <1>4, MarkIs DEF States
  <2> QED
      BY <1>1, <1>2, <1>3, <1>4, <2>1, <2>2, RemovalKeeps
<1>5. CASE Uncertain(d) /\ UNCHANGED object
    BY <1>1, <1>2, <1>3, <1>5, UncertainKeeps
<1> QED
    BY <1>4, <1>5 DEF ConfirmSourceRemoval

LEMMA FinishSourceControlKeeps ==
    ASSUME IInv, NEW d \in Controls, FinishSourceControl(d) PROVE IInv' /\ WorkStep
<1> PICK k : k = control[d].key
    OBVIOUS
<1>1. control[d].pc # "none"
    BY DEF FinishSourceControl
<1>2. /\ UNCHANGED <<head, version, request, late, object, stored, call, faults>>
      /\ UNCHANGED <<Content, request, late, object, stored, call, faults>>
    BY DEF FinishSourceControl, Keep, Content
<1>3. /\ Types /\ control \in [Controls -> ControlStates] /\ k \in Keys
      /\ write[k] \in Writes /\ WriteOK(k)
    BY <1>1, ControlKnown
<1>4. CASE /\ write[k].status = "pending" /\ (write[k].of # k \/ Settled(k))
           /\ write' = [write EXCEPT ![k].needs = FALSE,
                                     ![k].status = IF write[k].cancel THEN "cancelled" ELSE @]
           /\ control' = [control EXCEPT ![d] = NoControl]
  <2> DEFINE s == IF write[k].cancel THEN "cancelled" ELSE write[k].status
             w == [write[k] EXCEPT !.needs = FALSE, !.status = s]
  <2>1. s \in {"none", "pending", "completed", "cancelled"}
        /\ (IF write[k].cancel THEN s = "cancelled" ELSE s = "pending")
      BY <1>4
  <2>2. write' = [write EXCEPT ![k] = w]
      BY <1>3, <1>4 DEF Types, Writes
  <2> HIDE DEF s
  <2>3. w \in Writes
      BY <1>3, <2>1, Zenon DEF Writes
  <2>4. /\ w.status = s /\ w.of = write[k].of /\ w.cancel = write[k].cancel
        /\ w.owner = write[k].owner /\ w.io = write[k].io
      BY <1>3 DEF Writes
  <2> HIDE DEF w
  <2>5. Writ(k, w)
      BY <1>3, <2>2, <2>3, WritIs DEF Types
  <2>6. Turns(d, NoControl)
      BY <1>3, <1>4, Idle, TurnIs
  <2>7. Types'
      BY <1>2, <1>3, <2>5, <2>6 DEF Types, Writ, Turns
  <2>8. \A j \in Keys \ {k} : write'[j] = write[j]
      BY <2>5 DEF Writ
  <2>9. \A j \in Keys : GoesOn(j) /\ SameClaim(j)
    <3> SUFFICES ASSUME NEW j \in Keys PROVE GoesOn(j) /\ SameClaim(j)
        OBVIOUS
    <3>1. CASE j = k
        BY <1>4, <2>1, <2>4, <2>5, <3>1 DEF Writ, GoesOn, SameClaim
    <3>2. CASE j # k
        BY <2>8, <3>2 DEF GoesOn, SameClaim
    <3> QED
        BY <3>1, <3>2
  <2>10. Versions' = Versions /\ StillAsked /\ \A j \in Keys : Manifest(j)' = Manifest(j)
      BY <1>2, ContentKept
  <2>11. ASSUME NEW j \in Keys PROVE WriteOK(j)'
    <3>1. CASE j = k
      <4>1. /\ write'[k] = w /\ request' = request /\ object' = object /\ stored' = stored
            /\ version' = version
          BY <1>2, <2>5 DEF Writ
      <4>2. Manifest(k)' = Manifest(k)
          BY <1>3, <2>10
      <4> QED
          BY <1>3, <1>4, <2>1, <2>4, <2>10, <3>1, <4>1, <4>2 DEF WriteOK, Objects
    <3>2. CASE j # k
      <4>1. WriteOK(j) /\ write'[j] = write[j] /\ Manifest(j)' = Manifest(j)
          BY <2>8, <2>10, <3>2 DEF IInv
      <4> QED
          BY <1>2, <2>10, <4>1 DEF WriteOK, Objects
    <3> QED
        BY <3>1, <3>2
  <2>12. ASSUME NEW c \in Calls PROVE CallOK(c)'
    <3>1. call[c].pc \in Claimed => call[c].key \in Keys
        BY ClaimedCall
    <3>2. call[c].pc \in Claimed => write'[call[c].key].status = write[call[c].key].status
      <4> SUFFICES ASSUME call[c].pc \in Claimed
                   PROVE write'[call[c].key].status = write[call[c].key].status
          OBVIOUS
      <4>1. CASE call[c].key = k
        <5>1. write[k].of = k /\ write[k].owner = c /\ c # 0
            BY <4>1 DEF IInv, CallOK, Calls
        <5>2. ~write[k].cancel
            BY <1>4, <5>1 DEF Settled
        <5> QED
            BY <1>4, <2>1, <2>4, <2>5, <4>1, <5>2 DEF Writ
      <4>2. CASE call[c].key # k
          BY <2>8, <3>1, <4>2
      <4> QED
          BY <4>1, <4>2
    <3>3. call[c].pc \in Claimed =>
               /\ write'[call[c].key].owner = write[call[c].key].owner
               /\ write'[call[c].key].io = write[call[c].key].io
        BY <2>9, <3>1 DEF SameClaim
    <3> QED
        BY <1>2, <2>9, <2>10, <3>2, <3>3, CallKept DEF Object
  <2>13. \A j \in Keys : write'[j].status = "pending" => write[j].status = "pending"
      BY <1>4, <2>8
  <2>14. (\A j \in Keys : Kept(j)) /\ (\A c \in Calls : SameCall(c))
      BY <1>2 DEF Kept, SameCall
  <2>15. ControlOK(d)'
      BY <2>6, Idle, RestingOK DEF Turns
  <2> QED
      BY <1>2, <2>6, <2>7, <2>9, <2>11, <2>12, <2>13, <2>14, <2>15, ControlStep DEF Turns
<1>5. CASE Uncertain(d)
  <2>1. faults' \in 0 .. MaxFaults
      BY <1>2, <1>3 DEF Types
  <2> QED
      BY <1>1, <1>2, <1>5, <2>1, UncertainKeeps
<1> QED
    BY <1>4, <1>5 DEF FinishSourceControl

LEMMA ControlFailsKeeps ==
    ASSUME IInv, NEW d \in Controls, ControlFails(d) PROVE IInv' /\ WorkStep
<1>1. Turns(d, NoControl)
    BY Idle, TurnIs DEF IInv, Types, ControlFails
<1>2. ControlOK(d)'
    BY <1>1, Idle, RestingOK DEF Turns
<1>3. faults' \in 0 .. MaxFaults
    BY FaultBound DEF ControlFails
<1> QED
    BY <1>1, <1>2, <1>3, Turned DEF ControlFails, Keep

-----------------------------------------------------------------------------
(* The specification *)

(* A write that was not answered takes effect, or nothing happens at all. *)
LEMMA StoreGrows ==
    ASSUME IInv, UNCHANGED <<Content, request, write, object, call, control, faults>>,
           stored \subseteq stored', stored' \subseteq Keys \X Objects,
           late' \subseteq Keys \X Objects
    PROVE IInv' /\ WorkStep
<1>1. Types'
    BY DEF IInv, Types, Content
<1>2. \A k \in Keys : SameWrite(k) /\ Kept(k) /\ GoesOn(k)
    BY DEF SameWrite, Kept, GoesOn
<1>3. \A k \in Keys : WriteOK(k)'
    BY <1>2, WriteKept
<1>4. /\ HeadOK' /\ (\A k \in Keys : RequestOK(k)') /\ (\A v \in Versions' : NumberOK(v)')
      /\ VersionsDiffer' /\ StillAsked
    BY ContentKept
<1>5. PublishedWhole' /\ PendingCurrent'
    BY <1>2, PublishedKept
<1>6. ASSUME NEW c \in Calls PROVE CallOK(c)'
    BY <1>2, <1>4, CallKept DEF Object
<1>7. \A d \in Controls : ControlOK(d)'
    BY <1>2, ControlKept DEF Enters
<1>8. WorkStep
    BY DEF WorkStep, Holders, Calls
<1> QED
    BY <1>1, <1>3, <1>4, <1>5, <1>6, <1>7, <1>8 DEF IInv, Calls, Controls

LEMMA InitHolds == Init => IInv /\ Holders = {}
<1> SUFFICES ASSUME Init PROVE IInv /\ Holders = {}
    OBVIOUS
<1>1. Versions = {}
    BY DEF Init, Versions, NoVersion
<1>2. NoVersion \in [no : Nat, sources : SUBSET Keys]
    BY DEF NoVersion
<1>3. /\ head \in [revision : Nat, draft : Ref] /\ faults \in 0 .. MaxFaults
      /\ object \in [Keys -> [Objects -> States]]
    BY SourceAssumption DEF Init, Ref, States
<1>4. Types
    BY <1>2, <1>3, Idle, Zenon DEF Init, Types
<1>5. HeadOK /\ \A k \in Keys : RequestOK(k)
    BY DEF Init, HeadOK, RequestOK
<1>6. \A k \in Keys : WriteOK(k)
    BY <1>1, Idle DEF Init, WriteOK
<1>7. (\A v \in Versions : NumberOK(v)) /\ PublishedWhole /\ VersionsDiffer
    BY <1>1 DEF PublishedWhole, VersionsDiffer
<1>8. PendingCurrent
    BY Idle DEF Init, PendingCurrent
<1>9. \A c \in Calls : CallOK(c) /\ ~Held(c)
    BY Idle DEF Init, CallOK, Claimed, Held, Writing
<1>10. \A d \in Controls : ControlOK(d)
    BY Idle DEF Init, ControlOK, Removing
<1>11. Holders = {}
    BY <1>9 DEF Holders, Held
<1> QED
    BY <1>4, <1>5, <1>6, <1>7, <1>8, <1>9, <1>10, <1>11 DEF IInv

LEMMA NextHolds == IInv /\ [Next]_vars => IInv' /\ WorkStep
<1> SUFFICES ASSUME IInv, [Next]_vars PROVE IInv' /\ WorkStep
    OBVIOUS
<1>1. ASSUME NEW k \in Keys, Send(k) PROVE IInv' /\ WorkStep
    BY <1>1, SendKeeps
<1>2. ASSUME NEW c \in Calls, NEW k \in Keys, Call(c, k) PROVE IInv' /\ WorkStep
    BY <1>2, CallKeeps
<1>3. ASSUME NEW c \in Calls,
             \/ BeginWrite(c) \/ FinishReused(c) \/ ClaimSourceIO(c)
             \/ BeginSourceObject(c) \/ Put(c) \/ PutUnknown(c)
             \/ ConfirmSourceObject(c) \/ FinishWrite(c) \/ EndSourceIO(c)
             \/ ExitLost(c) \/ CallFails(c) \/ Crash(c)
      PROVE IInv' /\ WorkStep
    BY <1>3, BeginWriteKeeps, FinishReusedKeeps, ClaimSourceIOKeeps, BeginSourceObjectKeeps,
       PutKeeps, PutUnknownKeeps, ConfirmSourceObjectKeeps, FinishWriteKeeps, EndSourceIOKeeps,
       ExitLostKeeps, CallFailsKeeps, CrashKeeps
<1>4. ASSUME NEW d \in Controls, NEW k \in Keys, Control(d, k) PROVE IInv' /\ WorkStep
    BY <1>4, ControlKeeps
<1>5. ASSUME NEW d \in Controls,
             \/ ReadWrite(d) \/ Stop(d) \/ JoinEnds(d) \/ ProveSourceStop(d)
             \/ BeginSourceRemoval(d) \/ Erase(d) \/ ConfirmSourceRemoval(d)
             \/ FinishSourceControl(d) \/ ControlFails(d)
      PROVE IInv' /\ WorkStep
    BY <1>5, ReadWriteKeeps, StopKeeps, JoinEndsKeeps, ProveSourceStopKeeps,
       BeginSourceRemovalKeeps, EraseKeeps, ConfirmSourceRemovalKeeps, FinishSourceControlKeeps,
       ControlFailsKeeps
<1>6. CASE Land
  <2>1. UNCHANGED <<Content, request, write, object, call, control, faults>>
      BY <1>6 DEF Land
  <2>2. /\ stored \subseteq stored' /\ stored' \subseteq Keys \X Objects
        /\ late' \subseteq Keys \X Objects
      BY <1>6 DEF Land, IInv, Types
  <2> QED
      BY <2>1, <2>2, StoreGrows
<1>7. CASE UNCHANGED vars
  <2>1. /\ UNCHANGED <<Content, request, write, object, call, control, faults>>
        /\ stored' = stored /\ late' = late
      BY <1>7 DEF vars, Content
  <2>2. stored \subseteq Keys \X Objects /\ late \subseteq Keys \X Objects
      BY DEF IInv, Types
  <2> QED
      BY <2>1, <2>2, StoreGrows
<1> QED
    BY <1>1, <1>2, <1>3, <1>4, <1>5, <1>6, <1>7 DEF Next

LEMMA Invariance == Spec => []IInv
<1>1. Init => IInv
    BY InitHolds
<1>2. IInv /\ [Next]_vars => IInv'
    BY NextHolds
<1> QED
    BY <1>1, <1>2, PTL DEF Spec

-----------------------------------------------------------------------------
(* What the module promises *)

(* The rows keep to their states, an owner is a call, and a number, a base  *)
(* and a head are those of versions and requests that can exist.            *)
THEOREM SourceTypeCorrect == Spec => []Types
<1>1. IInv => Types
    BY DEF IInv
<1> QED
    BY <1>1, Invariance, PTL

(* The drafts of a script are honest (FinishWrite, AuthorizeSourceRemoval,  *)
(* requireNoPending, sourceManifestVersion): a published version has all of *)
(* its bytes, nothing is removed beside a call that still writes it, a      *)
(* pending request can still be published, and no two versions have one     *)
(* number or the same sources.                                              *)
THEOREM SourceIsHonest == Spec => []SourceHonest
<1>1. IInv => SourceHonest
  <2> SUFFICES ASSUME IInv PROVE SourceHonest
      OBVIOUS
  <2>1. PublishedWhole /\ PendingCurrent /\ VersionsDiffer
      BY DEF IInv
  <2>2. RemovedAfterwards
    <3> SUFFICES ASSUME NEW c \in Calls, NEW d \in Controls, call[c].pc \in Writing,
                        control[d].pc \in {"erase", "gone"}, call[c].key = control[d].key
                 PROVE FALSE
        BY DEF RemovedAfterwards
    <3>1. call[c].pc \in Claimed /\ control[d].pc \in Removing
        BY DEF Writing, Claimed, Removing
    <3> QED
        BY <3>1, RemovingKnown DEF Unclaimed
  <2> QED
      BY <2>1, <2>2 DEF SourceHonest
<1> QED
    BY <1>1, Invariance, PTL

(* The calls that write for a project are those of PhysicalWork             *)
(* (ClaimSourceIO, EndSourceIO, ProveSourceStop): one at a time, whichever  *)
(* requests are sent again, stopped, lost or cancelled, and one that is     *)
(* gone without a word keeps its place.                                     *)
THEOREM SourceOneWriterAtATime == Spec => OneWriterAtATime
<1>1. Init => Work!Init
    BY InitHolds DEF Work!Init
<1>2. IInv /\ [Next]_vars => [Work!Next]_<<Holders, FALSE>>
    BY NextHolds DEF WorkStep
<1> QED
    BY <1>1, <1>2, Invariance, PTL DEF Spec, OneWriterAtATime, Work!Spec

-----------------------------------------------------------------------------
(* The inductive invariant of the packages of a library *)

Effects == {"write", "remove"}
PackageRow == [status : {"none", "open", "succeeded", "cancelled"}, revision : Nat]
ServiceRow == [kind : {"import", "reconcile", "cancel"}, key : Imports, seen : Nat, held : BOOLEAN,
               stage : {"admit", "lock", "work"}, next : Nat]
LateRow == [key : Imports, number : AllObjects, effect : Effects]

PackagesTypeOK ==
    /\ library \in [revision : Nat, shown : SUBSET Imports] /\ expected \in [Imports -> Nat]
    /\ package \in [Imports -> PackageRow] /\ packed \in [Imports -> SUBSET AllObjects]
    /\ server \in [Services -> {Free} \cup ServiceRow] /\ lateIO \subseteq LateRow
    /\ doubted \in [Imports -> SUBSET Effects]
    /\ requests \in Nat /\ mishaps \in Nat

(* A job is shown when it succeeded; a published package keeps its objects  *)
(* and a cancelled one none unless an operation outlived the locks; every   *)
(* object belongs to a job.                                                 *)
PackageOK(k) ==
    /\ package[k].status = "none" => package[k] = NoPackage
    /\ k \in library.shown <=> package[k].status = "succeeded"
    /\ package[k].status = "succeeded" /\ "remove" \notin doubted[k] => packed[k] = AllObjects
    /\ package[k].status = "cancelled" /\ "write" \notin doubted[k] => packed[k] = {}
    /\ packed[k] # {} => package[k] # NoPackage

(* A request that is past its admission works for a job on record, and for  *)
(* an open one while it has the locks; what it has done so far is done.     *)
ServiceOK(c) ==
    LET row == server[c]
        done == 1 .. (row.next - 1) IN
    row # Free =>
    /\ row.next > 0 /\ row.next <= Size + 1
    /\ row.stage = "admit" => row.kind = "import"
    /\ row.stage # "work" => row.next = 1
    /\ row.stage # "admit" => package[row.key] # NoPackage
    /\ row.held => row.stage = "work" /\ package[row.key].status = "open"
    /\ row.held /\ row.kind # "cancel" /\ "remove" \notin doubted[row.key] => done \subseteq packed[row.key]
    /\ row.held /\ row.kind = "cancel" /\ "write" \notin doubted[row.key] => packed[row.key] \cap done = {}

LateOK(o) == o.effect \in doubted[o.key] /\ package[o.key] # NoPackage

OneHolder == \A b, c \in Services :
    server[b] # Free /\ server[c] # Free /\ server[b].held /\ server[c].held => b = c
OneJob == \A j, k \in OpenPackages : j = k

PackagesInv ==
    /\ PackagesTypeOK /\ OneHolder /\ OneJob
    /\ \A k \in Imports : PackageOK(k)
    /\ \A c \in Services : ServiceOK(c)
    /\ \A o \in lateIO : LateOK(o)

PackagesStep == PackagesInv' /\ OutcomeKept

(* A request that is served has all its fields.                               *)
LEMMA ServiceIsRow ==
    ASSUME PackagesTypeOK, NEW c \in Services
    PROVE /\ server[c] = Free => server[c].kind = "none"
          /\ server[c].kind # "none" => server[c] # Free
          /\ server[c] # Free => server[c] \in ServiceRow /\ server[c].kind # "none"
BY DEF PackagesTypeOK, ServiceRow, Free

LEMMA NobodyHolds ==
    ASSUME PackagesInv, \A b \in Services : server[b].kind # "none" => ~server[b].held
    PROVE \A b \in Services : server[b] # Free => ~server[b].held
BY ServiceIsRow DEF PackagesInv

(* Steps of one request that touch no object and no job.                      *)
LEMMA ServiceMoves ==
    ASSUME PackagesInv, NEW c \in Services, NEW row \in {Free} \cup ServiceRow,
           server' = [server EXCEPT ![c] = row], ServiceOK(c)',
           row # Free /\ row.held => \A b \in Services \ {c} : server[b] # Free => ~server[b].held,
           UNCHANGED <<library, package, packed, lateIO, doubted>>,
           expected' \in [Imports -> Nat], requests' \in Nat, mishaps' \in Nat
    PROVE PackagesStep
<1> USE DEF PackagesInv
<1>1. /\ server' \in [Services -> {Free} \cup ServiceRow] /\ server'[c] = row
      /\ \A b \in Services \ {c} : server'[b] = server[b]
    BY DEF PackagesTypeOK
<1>2. PackagesTypeOK'
    BY <1>1 DEF PackagesTypeOK
<1>3. OneHolder'
    BY <1>1 DEF OneHolder
<1>4. OneJob' /\ (\A k \in Imports : PackageOK(k)') /\ (\A o \in lateIO' : LateOK(o)')
    BY DEF OneJob, OpenPackages, PackageOK, LateOK
<1>5. ASSUME NEW b \in Services PROVE ServiceOK(b)'
  <2>1. CASE b = c
      BY <2>1
  <2>2. CASE b # c
      BY <1>1, <2>2 DEF ServiceOK
  <2> QED
      BY <2>1, <2>2
<1>6. OutcomeKept
    BY DEF OutcomeKept
<1> QED
    BY <1>2, <1>3, <1>4, <1>5, <1>6 DEF PackagesStep

(* A request ends.                                                            *)
LEMMA ServiceEnds ==
    ASSUME PackagesInv, NEW c \in Services, EndService(c),
           UNCHANGED <<library, expected, package, packed, lateIO, doubted, requests>>,
           mishaps' \in Nat
    PROVE PackagesStep
<1>1. server' = [server EXCEPT ![c] = Free] /\ server'[c] = Free
    BY DEF EndService, PackagesInv, PackagesTypeOK
<1>2. ServiceOK(c)'
    BY <1>1 DEF ServiceOK
<1> QED
    BY <1>1, <1>2, ServiceMoves DEF PackagesInv, PackagesTypeOK

LEMMA ImportPackageKeeps ==
    ASSUME PackagesInv, NEW c \in Services, NEW k \in Imports, ImportPackage(c, k)
    PROVE PackagesStep
<1>1. PICK stage \in {"admit", "lock"} :
         stage = (IF package[k] = NoPackage THEN "admit" ELSE "lock")
    OBVIOUS
<1> DEFINE row == [kind |-> "import", key |-> k, seen |-> package[k].revision, held |-> FALSE,
                   stage |-> stage, next |-> 1]
<1>2. /\ server' = [server EXCEPT ![c] = row] /\ requests' = requests + 1
      /\ UNCHANGED <<library, package, packed, lateIO, doubted, mishaps>>
    BY <1>1, Zenon DEF ImportPackage, BeginService
<1>3. row \in ServiceRow
    BY DEF ServiceRow, PackagesInv, PackagesTypeOK, PackageRow
<1>4. expected' \in [Imports -> Nat] /\ requests' \in Nat
  <2>1. library.revision \in Nat /\ expected[k] \in Nat
      BY DEF PackagesInv, PackagesTypeOK
  <2>2. PICK n \in Nat : n = IF expected[k] = 0 THEN library.revision ELSE expected[k]
      BY <2>1
  <2>3. expected' = [expected EXCEPT ![k] = n]
      BY <2>2, Zenon DEF ImportPackage
  <2> QED
      BY <1>2, <2>3 DEF PackagesInv, PackagesTypeOK
<1>5. ServiceOK(c)'
  <2>1. server'[c] = row
      BY <1>2 DEF PackagesInv, PackagesTypeOK
  <2>2. 1 <= Size + 1
      BY PackagesAssumption
  <2> QED
      BY <1>1, <1>2, <2>1, <2>2 DEF ServiceOK
<1>6. ~row.held
    OBVIOUS
<1> HIDE DEF row
<1> QED
    BY <1>2, <1>3, <1>4, <1>5, <1>6, ServiceMoves DEF PackagesInv, PackagesTypeOK

LEMMA PackageControlKeeps ==
    ASSUME PackagesInv, NEW c \in Services, NEW k \in Imports, NEW kind \in {"reconcile", "cancel"},
           PackageControl(c, k, kind)
    PROVE PackagesStep
<1> DEFINE row == [kind |-> kind, key |-> k, seen |-> package[k].revision, held |-> FALSE,
                   stage |-> "lock", next |-> 1]
<1>1. /\ server' = [server EXCEPT ![c] = row] /\ requests' = requests + 1 /\ package[k] # NoPackage
      /\ UNCHANGED <<library, expected, package, packed, lateIO, doubted, mishaps>>
    BY DEF PackageControl, BeginService
<1>2. row \in ServiceRow
    BY DEF ServiceRow, PackagesInv, PackagesTypeOK, PackageRow
<1>3. ServiceOK(c)'
  <2>1. server'[c] = row
      BY <1>1 DEF PackagesInv, PackagesTypeOK
  <2>2. 1 <= Size + 1
      BY PackagesAssumption
  <2> QED
      BY <1>1, <2>1, <2>2 DEF ServiceOK
<1>4. ~row.held /\ requests' \in Nat
    BY <1>1 DEF PackagesInv, PackagesTypeOK
<1> HIDE DEF row
<1> QED
    BY <1>1, <1>2, <1>3, <1>4, ServiceMoves DEF PackagesInv, PackagesTypeOK

(* The locks are taken for an open job only, while nobody else has them.      *)
LEMMA LockPackageKeeps ==
    ASSUME PackagesInv, NEW c \in Services, LockPackage(c)
    PROVE PackagesStep
<1>1. server[c] \in ServiceRow /\ server[c] # Free /\ \A b \in Services : server[b] # Free => ~server[b].held
    BY ServiceIsRow, NobodyHolds DEF LockPackage, PackagesInv
<1>2. CASE EndService(c)
    BY <1>2, ServiceEnds DEF LockPackage, packageBounds, PackagesInv, PackagesTypeOK
<1>3. CASE Unchanged(c) /\ server' = [server EXCEPT ![c].stage = "work", ![c].held = TRUE]
  <2>1. PICK row : row = [server[c] EXCEPT !.stage = "work", !.held = TRUE]
      OBVIOUS
  <2>2. row \in ServiceRow
      BY <1>1, <2>1 DEF ServiceRow
  <2>3. /\ row.key = server[c].key /\ row.kind = server[c].kind /\ row.next = server[c].next
        /\ row.held /\ row.stage = "work" /\ row # Free
      BY <1>1, <2>1 DEF ServiceRow, Free
  <2>4. server' = [server EXCEPT ![c] = row] /\ server'[c] = row
      BY <1>3, <2>1 DEF PackagesInv, PackagesTypeOK
  <2>5. /\ server[c].stage = "lock" /\ UNCHANGED <<library, expected, package, packed, lateIO, doubted, requests, mishaps>>
        /\ package[server[c].key].status = "open"
      BY <1>3 DEF LockPackage, packageBounds, Unchanged
  <2>6. server[c].next = 1 /\ 1 <= Size + 1 /\ 1 .. (1 - 1) = {} /\ package[server[c].key] # NoPackage
      BY <1>1, <2>5, PackagesAssumption DEF PackagesInv, ServiceOK
  <2>7. 1 .. (row.next - 1) = {}
      BY <2>3, <2>6
  <2>8. ServiceOK(c)'
      BY <2>3, <2>4, <2>5, <2>6, <2>7 DEF ServiceOK
  <2> QED
      BY <1>1, <2>2, <2>4, <2>5, <2>8, ServiceMoves DEF PackagesInv, PackagesTypeOK
<1> QED
    BY <1>2, <1>3 DEF LockPackage

LEMMA DisconnectKeeps ==
    ASSUME PackagesInv, NEW c \in Services, Disconnect(c)
    PROVE PackagesStep
<1>1. server[c] \in ServiceRow /\ server[c] # Free /\ server[c].stage = "work"
    BY ServiceIsRow DEF Disconnect, Working, PackagesInv
<1>2. PICK row : row = [server[c] EXCEPT !.held = FALSE]
    OBVIOUS
<1>3. /\ row \in ServiceRow /\ row.key = server[c].key /\ row.kind = server[c].kind
      /\ row.next = server[c].next /\ row.stage = server[c].stage /\ ~row.held
    BY <1>1, <1>2 DEF ServiceRow
<1>4. server' = [server EXCEPT ![c] = row] /\ server'[c] = row
    BY <1>2 DEF Disconnect, PackagesInv, PackagesTypeOK
<1>5. /\ UNCHANGED <<library, expected, package, packed, lateIO, doubted, requests>> /\ mishaps' \in Nat
    BY DEF Disconnect, PackagesInv, PackagesTypeOK
<1>6. ServiceOK(c)'
    BY <1>1, <1>3, <1>4, <1>5 DEF PackagesInv, ServiceOK
<1> QED
    BY <1>3, <1>4, <1>5, <1>6, ServiceMoves DEF PackagesInv, PackagesTypeOK

LEMMA MismatchKeeps ==
    ASSUME PackagesInv, NEW c \in Services, Mismatch(c) \/ ServiceDies(c)
    PROVE PackagesStep
BY ServiceEnds DEF Mismatch, ServiceDies, PackagesInv, PackagesTypeOK

(* A job is admitted when no other one is open and nobody has the locks.      *)
LEMMA AdmitPackageKeeps ==
    ASSUME PackagesInv, NEW c \in Services, AdmitPackageImport(c)
    PROVE PackagesStep
<1> DEFINE k == server[c].key
<1>1. /\ server[c] \in ServiceRow /\ server[c] # Free /\ server[c].stage = "admit" /\ k \in Imports
      /\ server[c].next = 1 /\ ~server[c].held
      /\ UNCHANGED <<library, expected, packed, lateIO, doubted, requests, mishaps>>
      /\ \A b \in Services : server[b] # Free => ~server[b].held
    BY ServiceIsRow, NobodyHolds DEF AdmitPackageImport, packageBounds, PackagesInv, ServiceOK, ServiceRow
<1>2. PICK row : row = [server[c] EXCEPT !.stage = "lock"]
    OBVIOUS
<1>3. /\ row \in ServiceRow /\ row.key = k /\ row.kind = server[c].kind
      /\ row.next = 1 /\ row.stage = "lock" /\ ~row.held
    BY <1>1, <1>2 DEF ServiceRow
<1>4. ASSUME server' = [server EXCEPT ![c].stage = "lock"], package'[k] # NoPackage
      PROVE server' = [server EXCEPT ![c] = row] /\ server'[c] = row /\ ServiceOK(c)'
  <2>1. server' = [server EXCEPT ![c] = row] /\ server'[c] = row
      BY <1>2, <1>4 DEF PackagesInv, PackagesTypeOK
  <2>2. 1 <= Size + 1
      BY PackagesAssumption
  <2>3. /\ server'[c].next = 1 /\ server'[c].stage = "lock" /\ ~server'[c].held
        /\ package'[server'[c].key] # NoPackage
      BY <1>3, <1>4, <2>1
  <2>4. ServiceOK(c)'
      BY <2>2, <2>3 DEF ServiceOK
  <2> QED
      BY <2>1, <2>4
<1>5. CASE package[k] # NoPackage
    BY <1>1, <1>3, <1>4, <1>5, ServiceMoves DEF AdmitPackageImport, PackagesInv, PackagesTypeOK
<1>6. CASE package[k] = NoPackage /\ ~MayAdmit(k)
    BY <1>1, <1>6, ServiceEnds DEF AdmitPackageImport, PackagesInv, PackagesTypeOK
<1>7. CASE package[k] = NoPackage /\ MayAdmit(k)
  <2> DEFINE opened == [status |-> "open", revision |-> 1]
  <2>1. package' = [package EXCEPT ![k] = opened] /\ server' = [server EXCEPT ![c].stage = "lock"]
      BY <1>7 DEF AdmitPackageImport
  <2>2. opened \in PackageRow /\ opened # NoPackage /\ opened.status = "open"
      BY DEF PackageRow, NoPackage
  <2> HIDE DEF opened
  <2>3. /\ package' \in [Imports -> PackageRow] /\ package'[k] = opened
        /\ \A j \in Imports \ {k} : package'[j] = package[j]
      BY <1>1, <2>1, <2>2 DEF PackagesInv, PackagesTypeOK
  <2>4. server' = [server EXCEPT ![c] = row] /\ server'[c] = row /\ ServiceOK(c)'
      BY <1>4, <2>1, <2>2, <2>3
  <2>5. /\ server' \in [Services -> {Free} \cup ServiceRow]
        /\ \A b \in Services \ {c} : server'[b] = server[b]
      BY <1>3, <2>4 DEF PackagesInv, PackagesTypeOK
  <2>6. PackagesTypeOK'
      BY <1>1, <2>3, <2>5 DEF PackagesInv, PackagesTypeOK
  <2>7. OneHolder'
      BY <1>1, <1>3, <2>4, <2>5 DEF OneHolder
  <2>8. OneJob'
    <3>1. OpenPackages = {}
        BY <1>7 DEF MayAdmit
    <3>2. ASSUME NEW j \in OpenPackages' PROVE j = k
        BY <2>3, <3>1, <3>2 DEF OpenPackages
    <3> QED
        BY <3>2 DEF OneJob
  <2>9. ASSUME NEW j \in Imports PROVE PackageOK(j)'
    <3>1. CASE j = k
        BY <1>1, <1>7, <2>2, <2>3, <3>1 DEF PackagesInv, PackageOK, NoPackage
    <3>2. CASE j # k
        BY <1>1, <2>3, <3>2 DEF PackagesInv, PackageOK
    <3> QED
        BY <3>1, <3>2
  <2>10. ASSUME NEW b \in Services PROVE ServiceOK(b)'
    <3>1. CASE b = c
        BY <2>4, <3>1
    <3>2. CASE b # c /\ server[b] # Free
      <4>1. server'[b] = server[b] /\ server[b] \in ServiceRow /\ ~server[b].held
          BY <1>1, <2>5, <3>2, ServiceIsRow DEF PackagesInv
      <4>2. package'[server[b].key] = package[server[b].key] \/ package'[server[b].key] # NoPackage
          BY <2>2, <2>3, <4>1 DEF ServiceRow
      <4> QED
          BY <3>2, <4>1, <4>2 DEF PackagesInv, ServiceOK
    <3>3. CASE b # c /\ server[b] = Free
        BY <2>5, <3>3 DEF ServiceOK
    <3> QED
        BY <3>1, <3>2, <3>3
  <2>11. ASSUME NEW o \in lateIO' PROVE LateOK(o)'
    <3>1. o \in lateIO /\ o.key \in Imports /\ LateOK(o)
        BY <1>1 DEF PackagesInv, PackagesTypeOK, LateRow
    <3> QED
        BY <1>1, <2>2, <2>3, <3>1 DEF LateOK
  <2>12. OutcomeKept
      BY <1>7, <2>3 DEF OutcomeKept, NoPackage
  <2> QED
      BY <2>6, <2>7, <2>8, <2>9, <2>10, <2>11, <2>12 DEF PackagesStep, PackagesInv
<1> QED
    BY <1>5, <1>6, <1>7

(* An object that is written or removed belongs to an open job, whose locks   *)
(* are held, or leaves a doubt that says so.                                  *)
PackedAfter(k, effect, n) == IF effect = "remove" THEN packed[k] \ {n} ELSE packed[k] \cup {n}

LEMMA ObjectsMove ==
    ASSUME PackagesInv, NEW k \in Imports, package[k] # NoPackage, NEW effect \in Effects,
           NEW n \in AllObjects, packed' = [packed EXCEPT ![k] = PackedAfter(k, effect, n)],
           doubted' \in [Imports -> SUBSET Effects], \A j \in Imports : doubted[j] \subseteq doubted'[j],
           effect \in doubted'[k] \/ package[k].status = "open", UNCHANGED <<library, package>>
    PROVE /\ packed' \in [Imports -> SUBSET AllObjects]
          /\ \A j \in Imports : PackageOK(j)'
          /\ \A b \in Services :
                server'[b] = server[b] /\ (server[b] # Free =>
                   effect \in doubted'[k] \/ ~server[b].held \/ server[b].key # k) => ServiceOK(b)'
<1> USE DEF PackagesInv
<1>1. /\ packed' \in [Imports -> SUBSET AllObjects] /\ packed'[k] = PackedAfter(k, effect, n)
      /\ \A j \in Imports \ {k} : packed'[j] = packed[j]
    BY DEF PackagesTypeOK, PackedAfter
<1>2. \A j \in Imports : doubted[j] \subseteq Effects /\ packed[j] \subseteq AllObjects
    BY DEF PackagesTypeOK
<1>3. ASSUME NEW j \in Imports PROVE PackageOK(j)'
  <2>1. CASE j # k
      BY <1>1, <2>1 DEF PackageOK
  <2>2. CASE j = k
    <3>1. /\ package[k].status = "succeeded" /\ "remove" \notin doubted'[k] => packed'[k] = AllObjects
          /\ package[k].status = "cancelled" /\ "write" \notin doubted'[k] => packed'[k] = {}
      <4>1. CASE package[k].status = "open"
          BY <4>1
      <4>2. CASE effect = "remove" /\ "remove" \in doubted'[k]
        <5>1. package[k].status = "cancelled" /\ "write" \notin doubted'[k] => packed[k] = {}
            BY DEF PackageOK
        <5> QED
            BY <1>1, <4>2, <5>1 DEF PackedAfter
      <4>3. CASE effect = "write" /\ "write" \in doubted'[k]
        <5>1. package[k].status = "succeeded" /\ "remove" \notin doubted'[k] => packed[k] = AllObjects
            BY DEF PackageOK
        <5> QED
            BY <1>1, <4>3, <5>1 DEF PackedAfter
      <4> QED
          BY <4>1, <4>2, <4>3 DEF Effects
    <3> QED
        BY <2>2, <3>1 DEF PackageOK
  <2> QED
      BY <2>1, <2>2
<1>4. ASSUME NEW b \in Services, server'[b] = server[b], server[b] # Free,
             effect \in doubted'[k] \/ ~server[b].held \/ server[b].key # k
      PROVE ServiceOK(b)'
  <2>1. ServiceOK(b) /\ server[b].key \in Imports
      BY <1>4, ServiceIsRow DEF ServiceRow
  <2>2. CASE server[b].key # k \/ ~server[b].held
      BY <1>1, <1>4, <2>1, <2>2 DEF ServiceOK
  <2>3. CASE server[b].key = k /\ effect = "remove" /\ "remove" \in doubted'[k]
    <3>1. packed'[k] \subseteq packed[k]
        BY <1>1, <2>3 DEF PackedAfter
    <3> QED
        BY <1>4, <2>1, <2>3, <3>1 DEF ServiceOK
  <2>4. CASE server[b].key = k /\ effect = "write" /\ "write" \in doubted'[k]
    <3>1. packed[k] \subseteq packed'[k]
        BY <1>1, <2>4 DEF PackedAfter
    <3> QED
        BY <1>4, <2>1, <2>4, <3>1 DEF ServiceOK
  <2> QED
      BY <1>4, <2>2, <2>3, <2>4 DEF Effects
<1>5. ASSUME NEW b \in Services, server'[b] = server[b], server[b] = Free
      PROVE ServiceOK(b)'
    BY <1>5 DEF ServiceOK
<1> QED
    BY <1>1, <1>3, <1>4, <1>5

(* What the effect of a request is on the objects and on what is doubted.     *)
LEMMA AfterIs ==
    ASSUME PackagesInv, NEW c \in Services, server[c] # Free, Working(c), server[c].next <= Size
    PROVE /\ Effect(c) \in Effects /\ server[c].next \in AllObjects /\ server[c].key \in Imports
          /\ package[server[c].key] # NoPackage
          /\ After(c) = [packed EXCEPT ![server[c].key] = PackedAfter(server[c].key, Effect(c), server[c].next)]
          /\ Doubt(c) \in [Imports -> SUBSET Effects]
          /\ \A j \in Imports : doubted[j] \subseteq Doubt(c)[j]
          /\ Effect(c) \in Doubt(c)[server[c].key] \/ (server[c].held /\ package[server[c].key].status = "open")
<1> USE DEF PackagesInv
<1>1. /\ server[c].key \in Imports /\ server[c].next \in Nat /\ ServiceOK(c)
    BY ServiceIsRow DEF ServiceRow
<1>2. Effect(c) \in Effects
    BY DEF Effect, Effects
<1>3. server[c].next \in AllObjects /\ package[server[c].key] # NoPackage
    BY <1>1, PackagesAssumption DEF ServiceOK, Working, AllObjects
<1>4. After(c) = [packed EXCEPT ![server[c].key] = PackedAfter(server[c].key, Effect(c), server[c].next)]
    BY DEF After, Erased, Written, Effect, PackedAfter
<1>5. CASE server[c].held
    BY <1>1, <1>2, <1>3, <1>4, <1>5 DEF Doubt, PackagesTypeOK, ServiceOK
<1>6. CASE ~server[c].held
  <2>1. Doubt(c) = [doubted EXCEPT ![server[c].key] = doubted[server[c].key] \cup {Effect(c)}]
      BY <1>6 DEF Doubt
  <2> QED
      BY <1>1, <1>2, <1>3, <1>4, <2>1 DEF PackagesTypeOK
<1> QED
    BY <1>5, <1>6

LEMMA ObjectStepKeeps ==
    ASSUME PackagesInv, NEW c \in Services, ObjectStep(c)
    PROVE PackagesStep
<1> DEFINE k == server[c].key
<1> USE DEF PackagesInv
<1>1. /\ server[c] \in ServiceRow /\ server[c] # Free /\ server[c].next \in Nat /\ ServiceOK(c)
      /\ Working(c) /\ server[c].next <= Size /\ packed' = After(c) /\ doubted' = Doubt(c)
      /\ UNCHANGED <<library, expected, package, lateIO, requests, mishaps>>
    BY ServiceIsRow DEF ObjectStep, Working, ServiceRow, packageBounds
<1>2. PICK n \in Nat : n = server[c].next + 1
    BY <1>1
<1>3. PICK row : row = [server[c] EXCEPT !.next = n]
    OBVIOUS
<1>4. /\ row \in ServiceRow /\ row.key = k /\ row.kind = server[c].kind /\ row.held = server[c].held
      /\ row.next = n /\ row.stage = server[c].stage
    BY <1>1, <1>3 DEF ServiceRow
<1>5. server' = [server EXCEPT ![c] = row]
  <2>1. server' = [server EXCEPT ![c] = [server[c] EXCEPT !.next = server[c].next + 1]]
      BY DEF ObjectStep, PackagesTypeOK
  <2> QED
      BY <1>2, <1>3, <2>1, Zenon
<1>6. /\ server' \in [Services -> {Free} \cup ServiceRow] /\ server'[c] = row
      /\ \A b \in Services \ {c} : server'[b] = server[b]
    BY <1>4, <1>5 DEF PackagesTypeOK
<1>7. /\ packed' \in [Imports -> SUBSET AllObjects] /\ (\A j \in Imports : PackageOK(j)')
      /\ \A b \in Services \ {c} : ServiceOK(b)'
  <2>1. Effect(c) \in doubted'[k] \/ (server[c].held /\ package[k].status = "open")
      BY <1>1, AfterIs
  <2>2. ASSUME NEW b \in Services \ {c}, server[b] # Free
        PROVE Effect(c) \in doubted'[k] \/ ~server[b].held
      BY <1>1, <2>1, <2>2 DEF OneHolder
  <2> QED
      BY <1>1, <1>6, <2>1, <2>2, AfterIs, ObjectsMove
<1>8. PackagesTypeOK'
    BY <1>1, <1>6, <1>7, AfterIs DEF PackagesTypeOK
<1>9. OneHolder'
    BY <1>1, <1>4, <1>6 DEF OneHolder
<1>10. OneJob' /\ OutcomeKept
    BY <1>1 DEF OneJob, OpenPackages, OutcomeKept
<1>11. ASSUME NEW o \in lateIO' PROVE LateOK(o)'
  <2>1. o \in lateIO /\ LateOK(o) /\ o.key \in Imports
      BY <1>1 DEF PackagesTypeOK, LateRow
  <2> QED
      BY <1>1, <2>1, AfterIs DEF LateOK
<1>12. ServiceOK(c)'
  <2>1. packed'[k] = PackedAfter(k, Effect(c), server[c].next) /\ doubted[k] \subseteq doubted'[k]
      BY <1>1, AfterIs DEF PackagesTypeOK
  <2>2. 1 .. (n - 1) = (1 .. (server[c].next - 1)) \cup {server[c].next}
      BY <1>1, <1>2 DEF ServiceOK
  <2>3. n > 0 /\ n <= Size + 1
      BY <1>1, <1>2, PackagesAssumption
  <2>4. server[c].held /\ server[c].kind # "cancel" /\ "remove" \notin doubted'[k] => 1 .. (n - 1) \subseteq packed'[k]
      BY <1>1, <2>1, <2>2 DEF ServiceOK, PackedAfter, Effect, Cancels
  <2>5. server[c].held /\ server[c].kind = "cancel" /\ "write" \notin doubted'[k] => packed'[k] \cap (1 .. (n - 1)) = {}
      BY <1>1, <2>1, <2>2 DEF ServiceOK, PackedAfter, Effect, Cancels
  <2> HIDE DEF k
  <2>6. /\ server'[c].next = n /\ server'[c].key = k /\ server'[c].stage = "work"
        /\ server'[c].kind = server[c].kind /\ server'[c].held = server[c].held
      BY <1>1, <1>4, <1>6 DEF Working
  <2>7. package'[k] # NoPackage /\ (server[c].held => package'[k].status = "open")
      BY <1>1 DEF ServiceOK, Working, k
  <2> QED
      BY <2>3, <2>4, <2>5, <2>6, <2>7 DEF ServiceOK
<1>13. \A b \in Services : ServiceOK(b)'
    BY <1>7, <1>12
<1> QED
    BY <1>7, <1>8, <1>9, <1>10, <1>11, <1>13 DEF PackagesStep

(* What was given up may still happen, and is doubted from then on.           *)
LEMMA UnansweredKeeps ==
    ASSUME PackagesInv, NEW c \in Services, Unanswered(c)
    PROVE PackagesStep
<1> DEFINE k == server[c].key
<1> USE DEF PackagesInv
<1>1. /\ server[c] \in ServiceRow /\ server[c] # Free /\ ServiceOK(c) /\ k \in Imports
      /\ Working(c) /\ server[c].next <= Size /\ mishaps' \in Nat
      /\ UNCHANGED <<library, expected, package, requests>>
    BY ServiceIsRow DEF Unanswered, Working, ServiceRow, PackagesTypeOK
<1>2. /\ server' \in [Services -> {Free} \cup ServiceRow] /\ server'[c] = Free
      /\ \A b \in Services \ {c} : server'[b] = server[b]
    BY DEF Unanswered, EndService, PackagesTypeOK
<1>3. OneHolder' /\ OneJob' /\ OutcomeKept /\ ServiceOK(c)'
    BY <1>1, <1>2 DEF OneHolder, OneJob, OpenPackages, OutcomeKept, ServiceOK
<1>4. CASE packed' = After(c) /\ doubted' = Doubt(c) /\ UNCHANGED lateIO
  <2>1. Effect(c) \in doubted'[k] \/ (server[c].held /\ package[k].status = "open")
      BY <1>1, <1>4, AfterIs
  <2>2. ASSUME NEW b \in Services \ {c}, server[b] # Free
        PROVE Effect(c) \in doubted'[k] \/ ~server[b].held
      BY <1>1, <2>1, <2>2 DEF OneHolder
  <2>3. /\ packed' \in [Imports -> SUBSET AllObjects] /\ (\A j \in Imports : PackageOK(j)')
        /\ \A b \in Services \ {c} : ServiceOK(b)'
      BY <1>1, <1>2, <1>4, <2>1, <2>2, AfterIs, ObjectsMove
  <2>4. PackagesTypeOK'
      BY <1>1, <1>2, <1>4, <2>3, AfterIs DEF PackagesTypeOK
  <2>5. ASSUME NEW o \in lateIO' PROVE LateOK(o)'
    <3>1. o \in lateIO /\ LateOK(o) /\ o.key \in Imports
        BY <1>4 DEF PackagesTypeOK, LateRow
    <3> QED
        BY <1>1, <1>4, <3>1, AfterIs DEF LateOK
  <2>6. \A b \in Services : ServiceOK(b)'
      BY <1>3, <2>3
  <2> QED
      BY <1>3, <2>3, <2>4, <2>5, <2>6 DEF PackagesStep
<1>5. CASE /\ lateIO' = lateIO \cup {[key |-> k, number |-> server[c].next, effect |-> Effect(c)]}
           /\ doubted' = [doubted EXCEPT ![k] = @ \cup {Effect(c)}] /\ UNCHANGED packed
  <2>1. Effect(c) \in Effects /\ server[c].next \in AllObjects /\ package[k] # NoPackage
      BY <1>1, AfterIs
  <2>2. PICK o : o = [key |-> k, number |-> server[c].next, effect |-> Effect(c)]
      OBVIOUS
  <2>3. o \in LateRow /\ o.key = k /\ o.effect = Effect(c) /\ lateIO' = lateIO \cup {o}
      BY <1>1, <1>5, <2>1, <2>2 DEF LateRow
  <2>4. /\ doubted' \in [Imports -> SUBSET Effects] /\ Effect(c) \in doubted'[k]
        /\ \A j \in Imports : doubted[j] \subseteq doubted'[j]
      BY <1>1, <1>5, <2>1 DEF PackagesTypeOK
  <2>5. PackagesTypeOK'
      BY <1>1, <1>2, <1>5, <2>3, <2>4 DEF PackagesTypeOK
  <2>6. \A j \in Imports : PackageOK(j)'
      BY <1>1, <1>5, <2>4 DEF PackageOK
  <2>7. ASSUME NEW b \in Services \ {c} PROVE ServiceOK(b)'
    <3>1. server[b] # Free => server[b].key \in Imports
        BY ServiceIsRow DEF ServiceRow
    <3> QED
        BY <1>1, <1>2, <1>5, <2>4, <3>1 DEF ServiceOK
  <2>8. ASSUME NEW p \in lateIO' PROVE LateOK(p)'
    <3>1. CASE p = o
        BY <1>1, <2>1, <2>3, <2>4, <3>1 DEF LateOK
    <3>2. CASE p \in lateIO
        BY <1>1, <2>4, <3>2 DEF LateOK, PackagesTypeOK, LateRow
    <3> QED
        BY <2>3, <3>1, <3>2
  <2>9. \A b \in Services : ServiceOK(b)'
      BY <1>3, <2>7
  <2> QED
      BY <1>3, <2>5, <2>6, <2>8, <2>9 DEF PackagesStep
<1>6. CASE UNCHANGED <<packed, lateIO, doubted>>
    BY <1>1, <1>6, ServiceEnds DEF Unanswered
<1> QED
    BY <1>4, <1>5, <1>6 DEF Unanswered

LEMMA LateLandsKeeps ==
    ASSUME PackagesInv, LateLands
    PROVE PackagesStep
<1> USE DEF PackagesInv
<1>1. PICK o \in lateIO :
         /\ packed' = [packed EXCEPT ![o.key] = PackedAfter(o.key, o.effect, o.number)]
         /\ lateIO' = lateIO \ {o}
         /\ UNCHANGED <<library, expected, package, server, doubted, requests, mishaps>>
    BY DEF LateLands, PackedAfter, packageBounds
<1>2. /\ o.key \in Imports /\ o.effect \in Effects /\ o.number \in AllObjects
      /\ package[o.key] # NoPackage /\ o.effect \in doubted'[o.key]
      /\ doubted' \in [Imports -> SUBSET Effects]
    BY <1>1 DEF PackagesTypeOK, LateRow, LateOK
<1>3. /\ packed' \in [Imports -> SUBSET AllObjects] /\ (\A j \in Imports : PackageOK(j)')
      /\ \A b \in Services : ServiceOK(b)'
    BY <1>1, <1>2, ObjectsMove
<1>4. PackagesTypeOK'
    BY <1>1, <1>3 DEF PackagesTypeOK
<1>5. OneHolder' /\ OneJob' /\ OutcomeKept /\ \A p \in lateIO' : LateOK(p)'
    BY <1>1 DEF OneHolder, OneJob, OpenPackages, OutcomeKept, LateOK
<1> QED
    BY <1>3, <1>4, <1>5 DEF PackagesStep

(* A job ends by the request that has its locks, when all was done.           *)
LEMMA FinishKeeps ==
    ASSUME PackagesInv, NEW c \in Services, Finish(c)
    PROVE PackagesStep
<1> DEFINE k == server[c].key
<1> USE DEF PackagesInv
<1>1. /\ server[c] \in ServiceRow /\ server[c] # Free /\ ServiceOK(c) /\ k \in Imports
      /\ Working(c) /\ AllWritten(c) /\ EndService(c)
      /\ UNCHANGED <<expected, packed, lateIO, doubted, requests, mishaps>>
    BY ServiceIsRow DEF Finish, Working, ServiceRow, packageBounds
<1>2. /\ server' \in [Services -> {Free} \cup ServiceRow] /\ server'[c] = Free
      /\ \A b \in Services \ {c} : server'[b] = server[b]
    BY <1>1 DEF EndService, PackagesTypeOK
<1>3. CASE ~server[c].held
    BY <1>1, <1>3, ServiceEnds DEF Finish, PackagesTypeOK
<1>4. CASE server[c].held
  <2>1. PICK final \in {"succeeded", "cancelled"} : final = IF Cancels(c) THEN "cancelled" ELSE "succeeded"
      OBVIOUS
  <2>2. package[k] \in PackageRow /\ library.revision \in Nat /\ package[k].status = "open"
      BY <1>1, <1>4 DEF PackagesTypeOK, ServiceOK
  <2>3. PICK row \in PackageRow : row = [status |-> final, revision |-> package[k].revision + 1]
    <3>1. PICK n \in Nat : n = package[k].revision + 1
        BY <2>2 DEF PackageRow
    <3>2. [status |-> final, revision |-> n] \in PackageRow
        BY <2>1 DEF PackageRow
    <3> QED
        BY <3>1, <3>2
  <2>4. row.status = final
      BY <2>3
  <2>5. package' = [package EXCEPT ![k] = row]
      BY <1>4, <2>1, <2>3 DEF Finish, Cancelled, PublishPackage
  <2>6. /\ package' \in [Imports -> PackageRow] /\ package'[k] = row
        /\ \A j \in Imports \ {k} : package'[j] = package[j]
      BY <1>1, <2>5 DEF PackagesTypeOK
  <2>7. library' \in [revision : Nat, shown : SUBSET Imports]
        /\ library'.shown = IF final = "succeeded" THEN library.shown \cup {k} ELSE library.shown
    <3>1. CASE Cancels(c)
        BY <1>4, <2>1, <3>1 DEF Finish, Cancelled, PackagesTypeOK
    <3>2. CASE ~Cancels(c)
      <4>1. library' = [revision |-> library.revision + 1, shown |-> library.shown \cup {k}]
          BY <1>4, <3>2 DEF Finish, PublishPackage
      <4>2. library.revision + 1 \in Nat /\ library.shown \cup {k} \subseteq Imports
          BY <1>1, <2>2 DEF PackagesTypeOK
      <4> QED
          BY <2>1, <3>2, <4>1, <4>2
    <3> QED
        BY <3>1, <3>2
  <2>8. PackagesTypeOK'
      BY <1>1, <1>2, <2>6, <2>7 DEF PackagesTypeOK
  <2>9. OneHolder' /\ OneJob' /\ OutcomeKept
      BY <1>2, <2>2, <2>4, <2>6 DEF OneHolder, OneJob, OpenPackages, OutcomeKept
  <2>10. row # NoPackage
      BY <2>4, <2>1 DEF NoPackage
  <2>11. /\ final = "succeeded" /\ "remove" \notin doubted[k] => packed[k] = AllObjects
         /\ final = "cancelled" /\ "write" \notin doubted[k] => packed[k] = {}
    <3>1. packed[k] \subseteq AllObjects /\ server[c].next = Size + 1
        BY <1>1, PackagesAssumption DEF PackagesTypeOK, ServiceOK, AllWritten, ServiceRow
    <3>2. 1 .. (server[c].next - 1) = AllObjects
        BY <3>1, PackagesAssumption DEF AllObjects
    <3> QED
        BY <1>1, <1>4, <2>1, <3>1, <3>2 DEF ServiceOK, Cancels
  <2>12. ASSUME NEW j \in Imports PROVE PackageOK(j)'
    <3>1. CASE j = k
        BY <1>1, <2>1, <2>2, <2>4, <2>6, <2>7, <2>10, <2>11, <3>1 DEF PackageOK
    <3>2. CASE j # k
        BY <1>1, <2>6, <2>7, <3>2 DEF PackageOK
    <3> QED
        BY <3>1, <3>2
  <2>13. ASSUME NEW b \in Services PROVE ServiceOK(b)'
    <3>1. CASE b = c
        BY <1>2, <3>1 DEF ServiceOK
    <3>2. CASE b # c /\ server[b] = Free
        BY <1>2, <3>2 DEF ServiceOK
    <3>3. CASE b # c /\ server[b] # Free
      <4>1. server'[b] = server[b] /\ server[b].key \in Imports /\ ~server[b].held /\ ServiceOK(b)
          BY <1>1, <1>2, <1>4, <3>3, ServiceIsRow DEF OneHolder, ServiceRow
      <4>2. package'[server[b].key] = package[server[b].key] \/ package'[server[b].key] # NoPackage
          BY <2>6, <2>10, <4>1
      <4> QED
          BY <3>3, <4>1, <4>2 DEF ServiceOK
    <3> QED
        BY <3>1, <3>2, <3>3
  <2>14. ASSUME NEW o \in lateIO' PROVE LateOK(o)'
    <3>1. o \in lateIO /\ o.key \in Imports /\ LateOK(o)
        BY <1>1 DEF PackagesTypeOK, LateRow
    <3> QED
        BY <1>1, <2>6, <2>10, <3>1 DEF LateOK
  <2> QED
      BY <2>8, <2>9, <2>12, <2>13, <2>14 DEF PackagesStep
<1> QED
    BY <1>3, <1>4

LEMMA EditKeeps ==
    ASSUME PackagesInv, Edit
    PROVE PackagesStep
<1> USE DEF PackagesInv
<1>1. /\ library' \in [revision : Nat, shown : SUBSET Imports] /\ library'.shown = library.shown
      /\ UNCHANGED <<expected, package, packed, server, lateIO, doubted, requests, mishaps>>
  <2>1. PICK n \in Nat : n = library.revision + 1
      BY DEF PackagesTypeOK
  <2>2. library' = [library EXCEPT !.revision = n]
      BY <2>1, Zenon DEF Edit
  <2> QED
      BY <2>2 DEF Edit, packageBounds, PackagesTypeOK
<1>2. PackagesTypeOK'
    BY <1>1 DEF PackagesTypeOK
<1>3. /\ OneHolder' /\ OneJob' /\ OutcomeKept
      /\ (\A k \in Imports : PackageOK(k)') /\ (\A c \in Services : ServiceOK(c)') /\ \A o \in lateIO' : LateOK(o)'
    BY <1>1 DEF OneHolder, OneJob, OpenPackages, OutcomeKept, PackageOK, ServiceOK, LateOK
<1> QED
    BY <1>2, <1>3 DEF PackagesStep

LEMMA PackagesStart ==
    ASSUME PackageInit
    PROVE PackagesInv
<1> USE DEF PackageInit
<1>1. PackagesTypeOK
    BY DEF PackagesTypeOK, PackageRow, NoPackage
<1>2. OneHolder /\ OneJob
    BY DEF OneHolder, OneJob, OpenPackages, NoPackage
<1>3. /\ (\A k \in Imports : PackageOK(k)) /\ (\A c \in Services : ServiceOK(c)) /\ \A o \in lateIO : LateOK(o)
    BY DEF PackageOK, ServiceOK, LateOK, NoPackage
<1> QED
    BY <1>1, <1>2, <1>3 DEF PackagesInv

LEMMA PackagesStutter ==
    ASSUME PackagesInv, UNCHANGED packageVars
    PROVE PackagesInv'
BY DEF PackagesInv, packageVars, PackagesTypeOK, OneHolder, OneJob, OpenPackages, PackageOK, ServiceOK, LateOK

LEMMA PackagesKeep ==
    ASSUME PackagesInv, PackageNext
    PROVE PackagesStep
<1>1. ASSUME NEW c \in Services, NEW k \in Imports,
             ImportPackage(c, k) \/ PackageControl(c, k, "reconcile") \/ PackageControl(c, k, "cancel")
      PROVE PackagesStep
    BY <1>1, ImportPackageKeeps, PackageControlKeeps
<1>2. ASSUME NEW c \in Services,
             \/ AdmitPackageImport(c) \/ LockPackage(c) \/ ObjectStep(c) \/ Unanswered(c) \/ Mismatch(c)
             \/ Disconnect(c) \/ ServiceDies(c) \/ Finish(c)
      PROVE PackagesStep
    BY <1>2, AdmitPackageKeeps, LockPackageKeeps, ObjectStepKeeps, UnansweredKeeps, MismatchKeeps,
       DisconnectKeeps, FinishKeeps
<1>3. CASE LateLands \/ Edit
    BY <1>3, LateLandsKeeps, EditKeeps
<1> QED
    BY <1>1, <1>2, <1>3 DEF PackageNext

LEMMA OneJobCounts ==
    ASSUME OneJob
    PROVE OneOpen
<1>1. CASE OpenPackages = {}
    BY <1>1, FS_EmptySet DEF OneOpen
<1>2. CASE OpenPackages # {}
  <2>1. PICK k \in OpenPackages : OpenPackages = {k}
      BY <1>2 DEF OneJob
  <2> QED
      BY <2>1, FS_Singleton DEF OneOpen
<1> QED
    BY <1>1, <1>2

(* Rows are well formed, one request has the locks and one job is open, a     *)
(* request that has the locks has done what it went through, and whatever may *)
(* have outlived the locks is doubted, in every state.                        *)
THEOREM PackagesTypeCorrect == PackageSpec => []PackagesInv
<1>1. PackageInit => PackagesInv
    BY PackagesStart
<1>2. PackagesInv /\ [PackageNext]_packageVars => PackagesInv'
    BY PackagesKeep, PackagesStutter DEF PackagesStep
<1> QED
    BY <1>1, <1>2, PTL DEF PackageSpec

(* A package is shown with all of its objects or not at all and leaves none   *)
(* when it is cancelled, unless an operation outlived the locks; every object *)
(* belongs to a job on record, one job is open at a time, and an outcome is   *)
(* for ever.                                                                  *)
THEOREM PackagesAreHonest == PackageSpec => PackageHonest
<1>1. PackagesInv => ShownWhole /\ CancelledClean /\ ObjectsReserved /\ OneOpen
    BY OneJobCounts DEF PackagesInv, PackagesTypeOK, PackageOK, ShownWhole, CancelledClean, ObjectsReserved
<1>2. PackagesInv /\ [PackageNext]_packageVars => [OutcomeKept]_packageVars
    BY PackagesKeep DEF PackagesStep
<1> QED
    BY <1>1, <1>2, PackagesTypeCorrect, PTL DEF PackageSpec, PackageHonest

-----------------------------------------------------------------------------
(* The inductive invariant of the library of projects *)

Filings == Folders \cup {Root}
ProjectRow == [status : {"none", "active", "archived", "copying"}, deleted : BOOLEAN,
               revision : Nat, purge : Nat]
CopyRow == [source : Projects, target : Projects, folder : Filings, cancel : BOOLEAN]
AskedRow ==
    [action : Changes \cup {"defaults"}, project : Projects, revision : Nat]
    \cup [action : {"create"}]
    \cup [action : {"move"}, project : Projects, revision : Nat, folder : Filings, placed : Nat,
          filed : Nat]
    \cup [action : {"recycle"}, folder : Folders, filed : Nat]

ProjectsTypeOK ==
    /\ project \in [Projects -> ProjectRow]
    /\ place \in [Projects -> [folder : Filings, revision : Nat]]
    /\ folder \in [Folders -> [live : BOOLEAN, revision : Nat]]
    /\ work \in [Projects -> {"none", "running"}]
    /\ copy \in CopyRow \cup {NoCopy}
    /\ asked \in [LibraryKeys -> AskedRow \cup {NothingAsked}]
    /\ sent \subseteq [key : LibraryKeys, at : Nat]
    /\ DOMAIN receipt = LibraryKeys /\ DOMAIN answers = LibraryKeys
    /\ clock \in 1 .. MaxTime

(* A project that never was has nothing; work runs in projects that may be  *)
(* written; who is filed keeps the folder.                                  *)
ProjectOK(p) ==
    /\ project[p].status = "none" => project[p] = NoProject /\ place[p].folder = Root
    /\ work[p] = "running" => CanWrite(p)
    /\ place[p].folder \in Folders => folder[place[p].folder].live

(* A copy under way has its source, and its target where it was put.        *)
CopyOK ==
    copy # NoCopy =>
        /\ copy.source # copy.target
        /\ project[copy.source].status # "none" /\ ~project[copy.source].deleted
        /\ project[copy.target].status = "copying" /\ ~project[copy.target].deleted
        /\ place[copy.target] = [folder |-> copy.folder, revision |-> 1]

(* What was answered to a lasting change is what is on record for ever.     *)
Lasting == Changes \cup {"move", "recycle"}
RecordOK(k) ==
    /\ asked[k] = NothingAsked => \A s \in sent : s.key # k
    /\ asked[k] = NothingAsked => answers[k] = {} /\ receipt[k] = NoReceipt
    /\ asked[k].action \in Lasting /\ answers[k] # {} =>
          /\ receipt[k].until = Forever /\ receipt[k] # NoReceipt
          /\ answers[k] = {receipt[k].answer}
    /\ asked[k].action \in Lasting /\ receipt[k] # NoReceipt => answers[k] # {}

RowsOK ==
    /\ project \in [Projects -> ProjectRow]
    /\ place \in [Projects -> [folder : Filings, revision : Nat]]
    /\ folder \in [Folders -> [live : BOOLEAN, revision : Nat]]
    /\ work \in [Projects -> {"none", "running"}]
    /\ copy \in CopyRow \cup {NoCopy}
    /\ CopyOK
    /\ \A p \in Projects : ProjectOK(p)

TrafficOK ==
    /\ asked \in [LibraryKeys -> AskedRow \cup {NothingAsked}]
    /\ sent \subseteq [key : LibraryKeys, at : Nat]
    /\ DOMAIN receipt = LibraryKeys /\ DOMAIN answers = LibraryKeys
    /\ clock \in 1 .. MaxTime
    /\ \A k \in LibraryKeys : RecordOK(k)

LibraryInv == RowsOK /\ TrafficOK

LibraryStep == LibraryInv' /\ RestoredInTime

-----------------------------------------------------------------------------
(* What becomes of a request *)

LEMMA AnswerKeeps ==
    ASSUME TrafficOK, NEW s \in sent, NEW answer, Answer(s, answer), UNCHANGED <<asked, receipt, clock>>,
           asked[s.key].action \in Lasting => answers[s.key] # {} /\ answer = receipt[s.key].answer
    PROVE TrafficOK'
<1>1. s.key \in LibraryKeys /\ sent' \subseteq sent
    BY DEF TrafficOK, Answer
<1>2. /\ DOMAIN answers' = LibraryKeys /\ answers'[s.key] = answers[s.key] \cup {answer}
      /\ \A k \in LibraryKeys \ {s.key} : answers'[k] = answers[k]
    BY <1>1 DEF TrafficOK, Answer
<1>3. asked[s.key] # NothingAsked
    BY <1>1 DEF TrafficOK, RecordOK
<1>4. ASSUME NEW k \in LibraryKeys PROVE RecordOK(k)'
  <2>1. CASE k = s.key
      BY <1>1, <1>2, <1>3, <2>1 DEF TrafficOK, RecordOK
  <2>2. CASE k # s.key
      BY <1>1, <1>2, <2>2 DEF TrafficOK, RecordOK
  <2> QED
      BY <2>1, <2>2
<1> QED
    BY <1>1, <1>2, <1>4 DEF TrafficOK

LEMMA RefuseKeeps ==
    ASSUME TrafficOK, NEW s \in sent, Refuse(s), UNCHANGED <<asked, clock>>
    PROVE TrafficOK'
BY DEF TrafficOK, Refuse, RecordOK

(* A lasting answer that is on record has been given before.                  *)
LEMMA ReplayKeeps ==
    ASSUME TrafficOK, NEW s \in sent, OnRecord(s.key), Replay(s), UNCHANGED <<asked, clock>>
    PROVE TrafficOK'
<1>1. s.key \in LibraryKeys /\ receipt[s.key] # NoReceipt
    BY DEF TrafficOK, OnRecord
<1>2. asked[s.key].action \in Lasting => answers[s.key] # {}
    BY <1>1 DEF TrafficOK, RecordOK
<1> QED
    BY <1>2, AnswerKeeps DEF Replay

(* One that is not on record was never given: it would be kept for ever.      *)
LEMMA NotOnRecord ==
    ASSUME TrafficOK, NEW k \in LibraryKeys, ~OnRecord(k), asked[k].action \in Lasting
    PROVE answers[k] = {}
<1>1. clock < Forever
    BY ProjectsAssumption DEF TrafficOK, Forever
<1> QED
    BY <1>1 DEF TrafficOK, OnRecord, RecordOK

LEMMA RecordKeeps ==
    ASSUME TrafficOK, NEW s \in sent, NEW answer, NEW until, ~OnRecord(s.key),
           Record(s, answer, until), UNCHANGED <<asked, clock>>,
           asked[s.key].action \in Lasting => until = Forever
    PROVE TrafficOK'
<1>1. s.key \in LibraryKeys /\ sent' \subseteq sent
    BY DEF TrafficOK, Record, Answer
<1>2. /\ DOMAIN answers' = LibraryKeys /\ answers'[s.key] = answers[s.key] \cup {answer}
      /\ \A k \in LibraryKeys \ {s.key} : answers'[k] = answers[k]
    BY <1>1 DEF TrafficOK, Record, Answer
<1>3. /\ DOMAIN receipt' = LibraryKeys /\ receipt'[s.key] = [answer |-> answer, until |-> until]
      /\ \A k \in LibraryKeys \ {s.key} : receipt'[k] = receipt[k]
    BY <1>1 DEF TrafficOK, Record
<1>4. asked[s.key] # NothingAsked
    BY <1>1 DEF TrafficOK, RecordOK
<1>5. Forever # 0
    BY ProjectsAssumption DEF Forever
<1>6. ASSUME NEW k \in LibraryKeys PROVE RecordOK(k)'
  <2>1. CASE k = s.key
    <3>1. CASE asked[s.key].action \in Lasting
      <4>1. receipt'[s.key] = [answer |-> answer, until |-> Forever]
          BY <1>3, <3>1
      <4>2. receipt'[s.key] # NoReceipt
          BY <4>1, <1>5 DEF NoReceipt
      <4>3. answers'[s.key] = {answer}
          BY <1>1, <1>2, <3>1, NotOnRecord
      <4> QED
          BY <1>1, <1>4, <2>1, <4>1, <4>2, <4>3 DEF RecordOK
    <3>2. CASE asked[s.key].action \notin Lasting
        BY <1>1, <1>4, <2>1, <3>2 DEF RecordOK
    <3> QED
        BY <3>1, <3>2
  <2>2. CASE k # s.key
      BY <1>1, <1>2, <1>3, <2>2 DEF TrafficOK, RecordOK
  <2> QED
      BY <2>1, <2>2
<1> QED
    BY <1>1, <1>2, <1>3, <1>6 DEF TrafficOK

LEMMA RowsStay ==
    ASSUME RowsOK, UNCHANGED <<project, Filing, Busy>>
    PROVE RowsOK' /\ RestoredInTime
BY DEF RowsOK, CopyOK, ProjectOK, CanWrite, Filing, Busy, RestoredInTime

LEMMA KeyOfSent ==
    ASSUME TrafficOK, NEW s \in sent
    PROVE s.key \in LibraryKeys /\ asked[s.key] \in AskedRow
BY DEF TrafficOK, RecordOK

-----------------------------------------------------------------------------
(* What becomes of a project *)

(* What a project may become while work and copies go on: a row that keeps   *)
(* what they need.                                                           *)
Allowed(p, row) ==
    /\ row \in ProjectRow /\ row.status # "none"
    /\ project[p].status # "none" => row.status = "copying" <=> project[p].status = "copying"
    /\ work[p] = "running" => row.status = "active" /\ ~row.deleted
    /\ copy # NoCopy /\ p \in {copy.source, copy.target} => ~row.deleted
    /\ project[p].deleted /\ ~row.deleted => clock < project[p].purge

LEMMA RowsChange ==
    ASSUME RowsOK, UNCHANGED <<Filing, Busy>>, NEW S \in SUBSET Projects, NEW f \in [S -> ProjectRow],
           \A p \in S : Allowed(p, f[p]) /\ project[p].status # "none",
           project' = [p \in Projects |-> IF p \in S THEN f[p] ELSE project[p]]
    PROVE RowsOK' /\ RestoredInTime
<1>1. project' \in [Projects -> ProjectRow]
    BY DEF RowsOK
<1>2. CopyOK'
    BY <1>1 DEF RowsOK, CopyOK, Allowed, Busy, Filing, CopyRow
<1>3. ASSUME NEW p \in Projects PROVE ProjectOK(p)'
    BY <1>1 DEF RowsOK, ProjectOK, Allowed, Busy, Filing, CanWrite
<1>4. RestoredInTime
    BY DEF RestoredInTime, Allowed
<1> QED
    BY <1>1, <1>2, <1>3, <1>4 DEF RowsOK, Busy, Filing

LEMMA RowChanges ==
    ASSUME RowsOK, UNCHANGED <<Filing, Busy>>, NEW p \in Projects, NEW row \in ProjectRow,
           Allowed(p, row), project[p].status # "none", project' = [project EXCEPT ![p] = row]
    PROVE RowsOK' /\ RestoredInTime
<1>1. [q \in {p} |-> row] \in [{p} -> ProjectRow]
    OBVIOUS
<1>2. project' = [q \in Projects |-> IF q \in {p} THEN [r \in {p} |-> row][q] ELSE project[q]]
    BY DEF RowsOK
<1>3. {p} \in SUBSET Projects
    OBVIOUS
<1>4. \A q \in {p} : Allowed(q, [r \in {p} |-> row][q]) /\ project[q].status # "none"
    OBVIOUS
<1> QED
    BY <1>1, <1>2, <1>3, <1>4, RowsChange

(* A change of a project never touches a copy's target, nor recycles or      *)
(* archives what somebody works on.                                          *)
LEMMA PreparedIsAllowed ==
    ASSUME RowsOK, clock \in Nat, NEW p \in Projects, NEW a, NEW row \in Prepare(a, p, clock)
    PROVE Allowed(p, row) /\ project[p].status # "none"
<1>1. project[p] \in ProjectRow /\ ProjectOK(p) /\ copy \in CopyRow \cup {NoCopy}
    BY DEF RowsOK
<1>2. CASE row \in {[project[p] EXCEPT !.revision = @ + 1], project[p]} /\ CanWrite(p)
    BY <1>1, <1>2 DEF Allowed, ProjectRow, CanWrite, RowsOK, CopyOK
<1>3. CASE row = Archive(p) /\ CanWrite(p) /\ ~Inflight(p)
  <2>1. PICK n \in Nat : n = project[p].revision + 1
      BY <1>1 DEF ProjectRow
  <2>2. row = [project[p] EXCEPT !.status = "archived", !.revision = n]
      BY <1>3, <2>1 DEF Archive
  <2>3. Allowed(p, row)
      BY <1>1, <1>3, <2>2 DEF Allowed, ProjectRow, CanWrite, Live, RowsOK, CopyOK, Inflight, ProjectOK, NoProject
  <2> QED
      BY <1>3, <2>3 DEF CanWrite, Live
<1>4. CASE row = Unarchive(p) /\ Live(p) /\ project[p].status = "archived" /\ ~Inflight(p)
  <2>1. PICK n \in Nat : n = project[p].revision + 1
      BY <1>1 DEF ProjectRow
  <2>2. row = [project[p] EXCEPT !.status = "active", !.revision = n]
      BY <1>4, <2>1 DEF Unarchive
  <2>3. Allowed(p, row)
      BY <1>1, <1>4, <2>2 DEF Allowed, ProjectRow, CanWrite, Live, RowsOK, CopyOK, Inflight, ProjectOK, NoProject
  <2> QED
      BY <1>4, <2>3 DEF CanWrite, Live
<1>5. CASE row = Delete(p, clock) /\ Live(p) /\ ~Inflight(p)
  <2>1. PICK n \in Nat : n = project[p].revision + 1
      BY <1>1 DEF ProjectRow
  <2>2. PICK t \in Nat : t = clock + 1
      OBVIOUS
  <2>3. row = [project[p] EXCEPT !.deleted = TRUE, !.purge = t, !.revision = n]
      BY <1>5, <2>1, <2>2 DEF Delete
  <2>4. row \in ProjectRow /\ row.status = project[p].status /\ row.deleted
      BY <1>1, <2>3 DEF ProjectRow
  <2>5. Allowed(p, row)
      BY <1>1, <1>5, <2>4 DEF Allowed, Live, Inflight
  <2> QED
      BY <1>5, <2>5 DEF Live
<1>6. CASE row = Restore(p) /\ project[p].deleted /\ project[p].status # "copying"
           /\ clock < project[p].purge /\ ~Inflight(p)
  <2>1. PICK n \in Nat : n = project[p].revision + 1
      BY <1>1 DEF ProjectRow
  <2>2. row = [project[p] EXCEPT !.deleted = FALSE, !.purge = 0, !.revision = n]
      BY <1>6, <2>1 DEF Restore
  <2>3. row \in ProjectRow /\ row.status = project[p].status /\ ~row.deleted
      BY <1>1, <2>2 DEF ProjectRow
  <2>4. project[p].status # "none"
      BY <1>1, <1>6 DEF ProjectOK, NoProject
  <2>5. Allowed(p, row)
      BY <1>1, <1>6, <2>3, <2>4 DEF Allowed, Inflight
  <2> QED
      BY <2>4, <2>5
<1> QED
    BY <1>2, <1>3, <1>4, <1>5, <1>6 DEF Prepare

LEMMA ApplyProjectChangeKeeps ==
    ASSUME LibraryInv, NEW s \in sent, ApplyProjectChange(s)
    PROVE LibraryStep
<1> USE DEF LibraryInv, LibraryStep
<1>0. s.key \in LibraryKeys /\ asked[s.key] \in AskedRow /\ asked[s.key].action \in Changes
      /\ UNCHANGED <<Filing, Busy, asked, clock>>
    BY KeyOfSent DEF ApplyProjectChange
<1>1. asked[s.key].project \in Projects
    BY <1>0 DEF AskedRow, Changes
<1>2. CASE OnRecord(s.key)
    BY <1>0, <1>2, RowsStay, ReplayKeeps DEF ApplyProjectChange
<1>3. CASE ~OnRecord(s.key) /\ Refuse(s) /\ UNCHANGED project
    BY <1>0, <1>3, RowsStay, RefuseKeeps
<1>4. ASSUME ~OnRecord(s.key),
             NEW row \in Prepare(asked[s.key].action, asked[s.key].project, clock),
             project' = [project EXCEPT ![asked[s.key].project] = row], Record(s, row, Forever)
      PROVE RowsOK' /\ TrafficOK' /\ RestoredInTime
  <2>1. Allowed(asked[s.key].project, row) /\ project[asked[s.key].project].status # "none"
      BY <1>1, <1>4, PreparedIsAllowed DEF TrafficOK
  <2>2. row \in ProjectRow
      BY <2>1 DEF Allowed
  <2> QED
      BY <1>0, <1>1, <1>4, <2>1, <2>2, RowChanges, RecordKeeps
<1>5. ~OnRecord(s.key) => (Refuse(s) /\ UNCHANGED project)
      \/ \E row \in Prepare(asked[s.key].action, asked[s.key].project, clock) :
            project' = [project EXCEPT ![asked[s.key].project] = row] /\ Record(s, row, Forever)
    BY DEF ApplyProjectChange, LockedAt
<1> QED
    BY <1>2, <1>3, <1>4, <1>5

LEMMA SaveModelDefaultsKeeps ==
    ASSUME LibraryInv, NEW s \in sent, SaveModelDefaults(s)
    PROVE LibraryStep
<1> USE DEF LibraryInv, LibraryStep
<1>0. s.key \in LibraryKeys /\ asked[s.key] \in AskedRow /\ asked[s.key].action = "defaults"
      /\ UNCHANGED <<Filing, Busy, asked, clock>>
    BY KeyOfSent DEF SaveModelDefaults
<1>1. asked[s.key].project \in Projects /\ asked[s.key].action \notin Lasting
    BY <1>0 DEF AskedRow, Changes, Lasting
<1>2. CASE Refuse(s) /\ UNCHANGED project
    BY <1>0, <1>2, RowsStay, RefuseKeeps
<1>3. CASE OnRecord(s.key) /\ Replay(s) /\ UNCHANGED project
    BY <1>0, <1>3, RowsStay, ReplayKeeps
<1>4. ASSUME ~OnRecord(s.key), CanWrite(asked[s.key].project),
             NEW row, row = [project[asked[s.key].project] EXCEPT !.revision = @ + 1],
             project' = [project EXCEPT ![asked[s.key].project] = row],
             Record(s, [row EXCEPT !.status = "defaults"], Retention)
      PROVE RowsOK' /\ TrafficOK' /\ RestoredInTime
  <2>1. row \in Prepare("patch", asked[s.key].project, clock)
      BY <1>4 DEF Prepare
  <2>2. Allowed(asked[s.key].project, row) /\ project[asked[s.key].project].status # "none"
      BY <1>1, <2>1, PreparedIsAllowed DEF TrafficOK
  <2>3. row \in ProjectRow
      BY <2>2 DEF Allowed
  <2> QED
      BY <1>0, <1>1, <1>4, <2>2, <2>3, RowChanges, RecordKeeps
<1> QED
    BY <1>2, <1>3, <1>4 DEF SaveModelDefaults

LEMMA CreateProjectKeeps ==
    ASSUME LibraryInv, NEW s \in sent, CreateProject(s)
    PROVE LibraryStep
<1> USE DEF LibraryInv, LibraryStep
<1>0. s.key \in LibraryKeys /\ asked[s.key].action \notin Lasting
      /\ UNCHANGED <<Filing, Busy, asked, clock>>
    BY KeyOfSent DEF CreateProject, Changes, Lasting
<1>1. CASE OnRecord(s.key)
    BY <1>0, <1>1, RowsStay, RefuseKeeps, ReplayKeeps DEF CreateProject
<1>2. ASSUME ~OnRecord(s.key), NEW p \in Projects, project[p].status = "none",
             project' = [project EXCEPT ![p] = [NoProject EXCEPT !.status = "active",
                                                                 !.revision = 1]],
             Record(s, [of |-> p], Retention)
      PROVE RowsOK' /\ TrafficOK' /\ RestoredInTime
  <2>1. /\ project'[p] = [status |-> "active", deleted |-> FALSE, revision |-> 1, purge |-> 0]
        /\ project' \in [Projects -> ProjectRow] /\ \A q \in Projects \ {p} : project'[q] = project[q]
      BY <1>2 DEF RowsOK, ProjectRow, NoProject
  <2>2. CopyOK'
      BY <1>0, <1>2, <2>1 DEF RowsOK, CopyOK, Filing, Busy, CopyRow
  <2>3. ASSUME NEW q \in Projects PROVE ProjectOK(q)'
      BY <1>0, <1>2, <2>1 DEF RowsOK, ProjectOK, CanWrite, Filing, Busy, NoProject
  <2>4. RestoredInTime
      BY <1>2, <2>1 DEF RestoredInTime, RowsOK, ProjectOK, NoProject
  <2> QED
      BY <1>0, <1>2, <2>1, <2>2, <2>3, <2>4, RecordKeeps DEF RowsOK, Filing, Busy
<1> QED
    BY <1>1, <1>2 DEF CreateProject

-----------------------------------------------------------------------------
(* What becomes of a folder *)

LEMMA BumpKeeps ==
    ASSUME RowsOK, NEW f, NEW g
    PROVE /\ Bump(f, g) \in [Folders -> [live : BOOLEAN, revision : Nat]]
          /\ \A h \in Folders : Bump(f, g)[h].live = folder[h].live
<1>1. ASSUME NEW h \in Folders
      PROVE /\ Bump(f, g)[h] \in [live : BOOLEAN, revision : Nat]
            /\ Bump(f, g)[h].live = folder[h].live
  <2>1. folder[h] \in [live : BOOLEAN, revision : Nat]
      BY DEF RowsOK
  <2>2. PICK n \in Nat : n = folder[h].revision + 1
      BY <2>1
  <2>3. Bump(f, g)[h] \in {folder[h], [folder[h] EXCEPT !.revision = n]}
      BY <2>2 DEF Bump
  <2> QED
      BY <2>1, <2>3
<1> QED
    BY <1>1 DEF Bump

(* A project is filed elsewhere, in a folder that is live.                    *)
LEMMA FilingKeeps ==
    ASSUME RowsOK, UNCHANGED <<project, Busy>>, NEW p \in Projects, CanWrite(p),
           NEW f \in Filings, f = Root \/ folder[f].live, NEW n \in Nat, NEW g,
           folder' = Bump(g, f), place' = [place EXCEPT ![p] = [folder |-> f, revision |-> n]]
    PROVE RowsOK' /\ RestoredInTime
<1>1. /\ folder' \in [Folders -> [live : BOOLEAN, revision : Nat]]
      /\ \A h \in Folders : folder'[h].live = folder[h].live
    BY BumpKeeps
<1>2. /\ place' \in [Projects -> [folder : Filings, revision : Nat]]
      /\ place'[p] = [folder |-> f, revision |-> n] /\ \A q \in Projects \ {p} : place'[q] = place[q]
    BY DEF RowsOK
<1>3. CopyOK'
    BY <1>2 DEF RowsOK, CopyOK, Busy, CanWrite, CopyRow
<1>4. ASSUME NEW q \in Projects PROVE ProjectOK(q)'
  <2>1. CASE q = p
    <3>1. f \in Folders => folder[f].live
        BY ProjectsAssumption DEF Root
    <3> QED
        BY <1>1, <1>2, <2>1, <3>1 DEF RowsOK, ProjectOK, Busy, CanWrite
  <2>2. CASE q # p
      BY <1>1, <1>2, <2>2 DEF RowsOK, ProjectOK, Busy, CanWrite
  <2> QED
      BY <2>1, <2>2
<1>5. RestoredInTime
    BY DEF RestoredInTime
<1> QED
    BY <1>1, <1>2, <1>3, <1>4, <1>5 DEF RowsOK, Busy

LEMMA MoveProjectKeeps ==
    ASSUME LibraryInv, NEW s \in sent, MoveProject(s), ~OnRecord(s.key), UNCHANGED <<Busy, asked, clock>>
    PROVE LibraryStep
<1> USE DEF LibraryInv, LibraryStep
<1>0. s.key \in LibraryKeys /\ asked[s.key] \in AskedRow /\ asked[s.key].action = "move"
      /\ UNCHANGED <<project, Busy, asked, clock>>
    BY KeyOfSent DEF MoveProject
<1>1. asked[s.key].project \in Projects /\ asked[s.key].folder \in Filings /\ asked[s.key].placed \in Nat
    BY <1>0 DEF AskedRow, Changes
<1>3. CASE Refuse(s) /\ UNCHANGED Filing
    BY <1>0, <1>3, RowsStay, RefuseKeeps
<1>4. ASSUME UNCHANGED Filing, NEW answer, Record(s, answer, Forever)
      PROVE RowsOK' /\ TrafficOK' /\ RestoredInTime
    BY <1>0, <1>4, RowsStay, RecordKeeps
<1>5. ASSUME CanWrite(asked[s.key].project),
             asked[s.key].folder = Root \/ Folder(asked[s.key]),
             folder' = Bump(place[asked[s.key].project].folder, asked[s.key].folder),
             place' = [place EXCEPT ![asked[s.key].project] =
                          [folder |-> asked[s.key].folder, revision |-> asked[s.key].placed + 1]],
             NEW answer, Record(s, answer, Forever)
      PROVE RowsOK' /\ TrafficOK' /\ RestoredInTime
  <2>1. PICK n \in Nat : n = asked[s.key].placed + 1
      BY <1>1
  <2>2. place' = [place EXCEPT ![asked[s.key].project] =
                     [folder |-> asked[s.key].folder, revision |-> n]]
      BY <1>5, <2>1
  <2>3. asked[s.key].folder = Root \/ folder[asked[s.key].folder].live
      BY <1>5 DEF Folder
  <2>4. RowsOK' /\ RestoredInTime
      BY <1>0, <1>1, <1>5, <2>2, <2>3, FilingKeeps
  <2> QED
      BY <1>0, <1>5, <2>4, RecordKeeps
<1> QED
    BY <1>3, <1>4, <1>5 DEF MoveProject

(* Recycling a folder closes its projects, none of which is in use.           *)
LEMMA RecycleFolderKeeps ==
    ASSUME LibraryInv, NEW s \in sent, RecycleFolder(s), ~OnRecord(s.key), UNCHANGED <<Busy, asked, clock>>
    PROVE LibraryStep
<1> USE DEF LibraryInv, LibraryStep
<1>0. s.key \in LibraryKeys /\ asked[s.key] \in AskedRow /\ asked[s.key].action = "recycle"
      /\ UNCHANGED <<Busy, asked, clock>>
    BY KeyOfSent DEF RecycleFolder
<1>1. PICK f \in Folders : f = asked[s.key].folder
    BY <1>0 DEF AskedRow, Changes
<1>3. CASE Refuse(s) /\ UNCHANGED <<project, Filing>>
    BY <1>0, <1>3, RowsStay, RefuseKeeps
<1>4. ASSUME MayRecycle(f),
             project' = [p \in Projects |-> IF p \in Members(f) /\ ~project[p].deleted
                                              THEN Delete(p, clock) ELSE project[p]],
             place' = [p \in Projects |-> IF p \in Members(f)
                         THEN [folder |-> Root, revision |-> place[p].revision + 1]
                         ELSE place[p]],
             folder' = [folder EXCEPT ![f] = [live |-> FALSE, revision |-> @.revision + 1]],
             NEW answer, Record(s, answer, Forever)
      PROVE RowsOK' /\ TrafficOK' /\ RestoredInTime
  <2>1. ASSUME NEW p \in Projects
        PROVE /\ project'[p] \in ProjectRow /\ project'[p].status = project[p].status
              /\ project[p].deleted => project'[p] = project[p]
              /\ p \notin Members(f) => project'[p] = project[p]
    <3>1. project[p] \in ProjectRow
        BY DEF RowsOK
    <3>2. PICK n \in Nat : n = project[p].revision + 1
        BY <3>1 DEF ProjectRow
    <3>3. PICK t \in Nat : t = clock + 1
        BY DEF TrafficOK
    <3>4. Delete(p, clock) = [project[p] EXCEPT !.deleted = TRUE, !.purge = t, !.revision = n]
        BY <3>2, <3>3 DEF Delete
    <3>5. Delete(p, clock) \in ProjectRow /\ Delete(p, clock).status = project[p].status
        BY <3>1, <3>4 DEF ProjectRow
    <3> QED
        BY <1>4, <3>1, <3>5
  <2>2. ASSUME NEW p \in Projects
        PROVE /\ place'[p] \in [folder : Filings, revision : Nat]
              /\ p \in Members(f) => place'[p].folder = Root
              /\ p \notin Members(f) => place'[p] = place[p]
    <3>1. place[p] \in [folder : Filings, revision : Nat]
        BY DEF RowsOK
    <3>2. PICK n \in Nat : n = place[p].revision + 1
        BY <3>1
    <3>3. place'[p] = IF p \in Members(f) THEN [folder |-> Root, revision |-> n] ELSE place[p]
        BY <1>4, <3>2
    <3> QED
        BY <3>1, <3>3 DEF Filings
  <2>3. /\ folder' \in [Folders -> [live : BOOLEAN, revision : Nat]]
        /\ \A h \in Folders \ {f} : folder'[h] = folder[h]
    <3>1. folder[f] \in [live : BOOLEAN, revision : Nat] /\ folder \in [Folders -> [live : BOOLEAN, revision : Nat]]
        BY DEF RowsOK
    <3>2. PICK n \in Nat : n = folder[f].revision + 1
        BY <3>1
    <3>3. folder' = [folder EXCEPT ![f] = [live |-> FALSE, revision |-> n]]
        BY <1>4, <3>2
    <3> QED
        BY <3>1, <3>3
  <2>4. ASSUME NEW p \in Members(f)
        PROVE work[p] # "running" /\ copy.source # p /\ copy.target # p
      BY <1>4 DEF MayRecycle, Inflight
  <2>5. project' \in [Projects -> ProjectRow] /\ place' \in [Projects -> [folder : Filings, revision : Nat]]
      BY <1>4, <2>1, <2>2
  <2>6. CopyOK'
      BY <1>0, <2>1, <2>2, <2>4 DEF RowsOK, CopyOK, Busy, CopyRow
  <2>7. ASSUME NEW p \in Projects PROVE ProjectOK(p)'
    <3>1. project'[p].status = "none" => project'[p] = NoProject /\ place'[p].folder = Root
      <4>1. project[p].status = "none" => place[p].folder = Root
          BY DEF RowsOK, ProjectOK
      <4>2. CASE p \in Members(f)
          BY <2>1, <4>1, <4>2, ProjectsAssumption DEF Members, Root
      <4>3. CASE p \notin Members(f)
          BY <2>1, <2>2, <4>3 DEF RowsOK, ProjectOK
      <4> QED
          BY <4>2, <4>3
    <3>2. work'[p] = "running" => CanWrite(p)'
        BY <1>0, <2>1, <2>4 DEF RowsOK, ProjectOK, CanWrite, Busy
    <3>3. place'[p].folder \in Folders => folder'[place'[p].folder].live
      <4>1. CASE p \in Members(f)
          BY <2>2, <4>1, ProjectsAssumption DEF Root
      <4>2. CASE p \notin Members(f)
          BY <2>2, <2>3, <4>2 DEF RowsOK, ProjectOK, Members
      <4> QED
          BY <4>1, <4>2
    <3> QED
        BY <3>1, <3>2, <3>3 DEF ProjectOK
  <2>8. RestoredInTime
      BY <2>1 DEF RestoredInTime
  <2> QED
      BY <1>0, <1>4, <2>3, <2>5, <2>6, <2>7, <2>8, RecordKeeps DEF RowsOK, Busy
<1> QED
    BY <1>1, <1>3, <1>4 DEF RecycleFolder, LockedAt

LEMMA ChangeFolderKeeps ==
    ASSUME LibraryInv, NEW s \in sent, ChangeFolder(s)
    PROVE LibraryStep
<1>0. s.key \in LibraryKeys /\ UNCHANGED <<Busy, asked, clock>>
    BY KeyOfSent DEF ChangeFolder, LibraryInv
<1>1. CASE OnRecord(s.key)
    BY <1>0, <1>1, RowsStay, ReplayKeeps DEF ChangeFolder, LibraryInv, LibraryStep
<1>2. CASE ~OnRecord(s.key)
    BY <1>0, <1>2, MoveProjectKeeps, RecycleFolderKeeps DEF ChangeFolder
<1> QED
    BY <1>1, <1>2

-----------------------------------------------------------------------------
(* Requests that are sent, work that comes and goes, and copies *)

LEMMA SendChangeKeeps ==
    ASSUME LibraryInv, NEW k \in LibraryKeys, SendChange(k)
    PROVE LibraryStep
<1> USE DEF LibraryInv, LibraryStep
<1>1. RowsOK' /\ RestoredInTime
    BY RowsStay DEF SendChange
<1>2. sent' = sent \cup {[key |-> k, at |-> clock]} /\ UNCHANGED <<receipt, answers, clock>>
    BY DEF SendChange
<1>3. PICK a \in AskedRow : asked' = [asked EXCEPT ![k] = a] /\ (asked[k] # NothingAsked => a = asked[k])
  <2>1. CASE asked[k] # NothingAsked
      BY <2>1 DEF SendChange, TrafficOK
  <2>2. CASE asked[k] = NothingAsked
    <3>1. AskProject(k)
        BY <2>2 DEF SendChange
    <3>2. ASSUME NEW p \in Projects, NEW x \in Changes \cup {"defaults"},
                 asked' = [asked EXCEPT ![k] = [action |-> x, project |-> p, revision |-> project[p].revision]]
          PROVE \E a \in AskedRow : asked' = [asked EXCEPT ![k] = a]
        BY <3>2 DEF AskedRow, RowsOK, ProjectRow
    <3>3. ASSUME asked' = [asked EXCEPT ![k] = [action |-> "create"]]
          PROVE \E a \in AskedRow : asked' = [asked EXCEPT ![k] = a]
      <4>1. [action |-> "create"] \in AskedRow
          BY DEF AskedRow
      <4> QED
          BY <3>3, <4>1
    <3>4. ASSUME NEW p \in Projects, NEW f \in Filings,
                 asked' = [asked EXCEPT ![k] =
                    [action |-> "move", project |-> p, revision |-> project[p].revision, folder |-> f,
                     placed |-> place[p].revision, filed |-> IF f = Root THEN 0 ELSE folder[f].revision]]
          PROVE \E a \in AskedRow : asked' = [asked EXCEPT ![k] = a]
      <4>1. PICK n \in Nat : n = IF f = Root THEN 0 ELSE folder[f].revision
          BY DEF RowsOK, Filings
      <4> QED
          BY <3>4, <4>1 DEF AskedRow, RowsOK, ProjectRow
    <3>5. ASSUME NEW f \in Folders,
                 asked' = [asked EXCEPT ![k] = [action |-> "recycle", folder |-> f,
                                                filed |-> folder[f].revision]]
          PROVE \E a \in AskedRow : asked' = [asked EXCEPT ![k] = a]
        BY <3>5 DEF AskedRow, RowsOK
    <3> QED
        BY <2>2, <3>1, <3>2, <3>3, <3>4, <3>5 DEF AskProject, AskChange, AskFolder, Filings
  <2> QED
      BY <2>1, <2>2
<1>4. a # NothingAsked
    BY DEF AskedRow, NothingAsked, Changes
<1>5. asked' \in [LibraryKeys -> AskedRow \cup {NothingAsked}] /\ asked'[k] = a
      /\ \A j \in LibraryKeys \ {k} : asked'[j] = asked[j]
    BY <1>3 DEF TrafficOK
<1>6. ASSUME NEW j \in LibraryKeys PROVE RecordOK(j)'
  <2>1. CASE j # k
      BY <1>2, <1>5, <2>1 DEF TrafficOK, RecordOK
  <2>2. CASE j = k /\ asked[k] # NothingAsked
      BY <1>2, <1>3, <1>4, <1>5, <2>2 DEF TrafficOK, RecordOK
  <2>3. CASE j = k /\ asked[k] = NothingAsked
    <3>1. answers'[k] = {} /\ asked'[k] # NothingAsked
        BY <1>2, <1>4, <1>5, <2>3 DEF TrafficOK, RecordOK
    <3>2. receipt'[k] = NoReceipt
        BY <1>2, <2>3 DEF TrafficOK, RecordOK
    <3> QED
        BY <2>3, <3>1, <3>2 DEF RecordOK
  <2> QED
      BY <2>1, <2>2, <2>3
<1> QED
    BY <1>1, <1>2, <1>5, <1>6 DEF TrafficOK

LEMMA TrafficStays ==
    ASSUME TrafficOK, UNCHANGED Traffic, clock' \in clock .. MaxTime
    PROVE TrafficOK'
BY DEF TrafficOK, Traffic, RecordOK

LEMMA WorkKeeps ==
    ASSUME LibraryInv, NEW p \in Projects, StartWork(p) \/ EndWork(p)
    PROVE LibraryStep
<1>1. TrafficOK'
    BY TrafficStays DEF StartWork, EndWork, LibraryInv, TrafficOK
<1>2. PICK w \in {"none", "running"} :
          work' = [work EXCEPT ![p] = w] /\ (w = "running" => CanWrite(p))
    BY DEF StartWork, EndWork, Authorize
<1>3. UNCHANGED <<project, Filing, copy>>
    BY DEF StartWork, EndWork
<1>4. CopyOK' /\ RestoredInTime
    BY <1>3 DEF LibraryInv, RowsOK, CopyOK, Filing, RestoredInTime
<1>5. ASSUME NEW q \in Projects PROVE ProjectOK(q)'
    BY <1>2, <1>3 DEF LibraryInv, RowsOK, ProjectOK, CanWrite, Filing
<1> QED
    BY <1>1, <1>2, <1>3, <1>4, <1>5 DEF LibraryInv, LibraryStep, RowsOK, Filing

LEMMA TouchContentKeeps ==
    ASSUME LibraryInv, NEW p \in Projects, TouchContent(p)
    PROVE LibraryStep
<1>1. TrafficOK'
    BY TrafficStays DEF TouchContent, LibraryInv, TrafficOK
<1>2. project[p] \in ProjectRow
    BY DEF LibraryInv, RowsOK
<1>3. PICK row : row = [project[p] EXCEPT !.revision = @ + 1]
    OBVIOUS
<1>4. row \in Prepare("patch", p, clock) /\ project' = [project EXCEPT ![p] = row]
    BY <1>3 DEF Prepare, TouchContent
<1>5. Allowed(p, row) /\ project[p].status # "none" /\ row \in ProjectRow
    BY <1>4, PreparedIsAllowed DEF LibraryInv, TrafficOK, Allowed
<1> QED
    BY <1>1, <1>4, <1>5, RowChanges DEF LibraryInv, LibraryStep, TouchContent

LEMMA StartCopyKeeps ==
    ASSUME LibraryInv, NEW p \in Projects, NEW q \in Projects, StartCopy(p, q)
    PROVE LibraryStep
<1>1. TrafficOK'
    BY TrafficStays DEF StartCopy, LibraryInv, TrafficOK
<1>2. PICK f \in Filings : f = place[p].folder
    BY DEF LibraryInv, RowsOK
<1>3. /\ copy' = [source |-> p, target |-> q, folder |-> f, cancel |-> FALSE] /\ copy' \in CopyRow
    BY <1>2 DEF StartCopy, NoCopy, CopyRow
<1>4. /\ project' \in [Projects -> ProjectRow]
      /\ project'[q] = [status |-> "copying", deleted |-> FALSE, revision |-> 1, purge |-> 0]
      /\ \A r \in Projects \ {q} : project'[r] = project[r]
    BY DEF StartCopy, LibraryInv, RowsOK, ProjectRow, NoProject
<1>5. /\ place' \in [Projects -> [folder : Filings, revision : Nat]]
      /\ place'[q] = [folder |-> f, revision |-> 1]
      /\ \A r \in Projects \ {q} : place'[r] = place[r]
    BY <1>2 DEF StartCopy, LibraryInv, RowsOK
<1>6. /\ folder' \in [Folders -> [live : BOOLEAN, revision : Nat]]
      /\ \A h \in Folders : folder'[h].live = folder[h].live
    BY BumpKeeps DEF StartCopy, LibraryInv
<1>7. p # q /\ project[q].status = "none" /\ Live(p) /\ UNCHANGED work
    BY DEF StartCopy, Live
<1>8. CopyOK'
    BY <1>3, <1>4, <1>5, <1>7 DEF CopyOK, Live
<1>9. ASSUME NEW r \in Projects PROVE ProjectOK(r)'
  <2>1. CASE r = q
      BY <1>2, <1>4, <1>5, <1>6, <1>7, <2>1 DEF LibraryInv, RowsOK, ProjectOK, CanWrite
  <2>2. CASE r # q
      BY <1>4, <1>5, <1>6, <1>7, <2>2 DEF LibraryInv, RowsOK, ProjectOK, CanWrite
  <2> QED
      BY <2>1, <2>2
<1>10. RestoredInTime
    BY <1>4, <1>7 DEF LibraryInv, RowsOK, ProjectOK, NoProject, RestoredInTime
<1> QED
    BY <1>1, <1>3, <1>4, <1>5, <1>6, <1>7, <1>8, <1>9, <1>10 DEF LibraryInv, LibraryStep, RowsOK

(* A copy ends: its target is shown, or recycled where nobody worked yet.     *)
LEMMA CopyEnds ==
    ASSUME LibraryInv, PublishCopy \/ RetireTarget
    PROVE LibraryStep
<1>1. TrafficOK'
    BY TrafficStays DEF PublishCopy, RetireTarget, LibraryInv, TrafficOK
<1>2. copy # NoCopy /\ copy' = NoCopy /\ UNCHANGED <<Filing, work>>
    BY DEF PublishCopy, RetireTarget
<1>3. PICK q \in Projects : q = copy.target
    BY <1>2 DEF LibraryInv, RowsOK, CopyRow
<1>4. project[q] \in ProjectRow /\ project[q].status = "copying" /\ ~project[q].deleted
    BY <1>2, <1>3 DEF LibraryInv, RowsOK, CopyOK
<1>5. /\ project' \in [Projects -> ProjectRow] /\ project'[q].status # "none"
      /\ \A r \in Projects \ {q} : project'[r] = project[r]
  <2>1. CASE PublishCopy
    <3>1. project' = [project EXCEPT ![q] = [project[q] EXCEPT !.status = "active"]]
        BY <1>3, <2>1 DEF PublishCopy
    <3>2. [project[q] EXCEPT !.status = "active"] \in ProjectRow
        BY <1>4 DEF ProjectRow
    <3> QED
        BY <1>4, <3>1, <3>2 DEF LibraryInv, RowsOK, ProjectRow
  <2>2. CASE RetireTarget
    <3>1. PICK t \in Nat : t = clock + 1
        BY DEF LibraryInv, TrafficOK
    <3>2. project' = [project EXCEPT ![q] = [project[q] EXCEPT !.deleted = TRUE, !.purge = t]]
        BY <1>3, <2>2, <3>1 DEF RetireTarget, LibraryInv, RowsOK
    <3>3. [project[q] EXCEPT !.deleted = TRUE, !.purge = t] \in ProjectRow
        BY <1>4 DEF ProjectRow
    <3> QED
        BY <1>4, <3>2, <3>3 DEF LibraryInv, RowsOK, ProjectRow
  <2> QED
      BY <2>1, <2>2
<1>6. work[q] # "running"
    BY <1>4 DEF LibraryInv, RowsOK, ProjectOK, CanWrite
<1>7. CopyOK'
    BY <1>2 DEF CopyOK
<1>8. ASSUME NEW r \in Projects PROVE ProjectOK(r)'
    BY <1>2, <1>5, <1>6 DEF LibraryInv, RowsOK, ProjectOK, CanWrite, Filing
<1>9. RestoredInTime
    BY <1>4, <1>5 DEF RestoredInTime
<1> QED
    BY <1>1, <1>2, <1>5, <1>7, <1>8, <1>9 DEF LibraryInv, LibraryStep, RowsOK, Filing

LEMMA TickKeeps ==
    ASSUME LibraryInv, Tick
    PROVE LibraryStep
<1>1. clock' \in clock .. MaxTime
    BY ProjectsAssumption DEF Tick, LibraryInv, TrafficOK
<1> QED
    BY <1>1, TrafficStays, RowsStay DEF Tick, LibraryInv, LibraryStep

-----------------------------------------------------------------------------
(* Theorems about the library of projects *)

LEMMA LibraryBegins == ProjectsInit => LibraryInv
<1> SUFFICES ASSUME ProjectsInit PROVE LibraryInv
    OBVIOUS
<1>1. PICK p \in Projects : project = [q \in Projects |->
          IF q = p THEN [NoProject EXCEPT !.status = "active", !.revision = 1] ELSE NoProject]
    BY DEF ProjectsInit
<1>2. /\ project \in [Projects -> ProjectRow]
      /\ \A q \in Projects : project[q].status = "none" => project[q] = NoProject
    BY <1>1 DEF NoProject, ProjectRow
<1>3. \A q \in Projects : ProjectOK(q)
    BY <1>2, ProjectsAssumption DEF ProjectsInit, ProjectOK, Root
<1>4. RowsOK
    BY <1>2, <1>3 DEF ProjectsInit, RowsOK, Filings, CopyOK
<1>5. clock \in 1 .. MaxTime
    BY ProjectsAssumption DEF ProjectsInit
<1>6. TrafficOK
    BY <1>5 DEF ProjectsInit, TrafficOK, RecordOK
<1> QED
    BY <1>4, <1>6 DEF LibraryInv

LEMMA LibraryMoves == LibraryInv /\ [ProjectsNext]_projectsVars => LibraryInv' /\ [RestoredInTime]_projectsVars
<1> SUFFICES ASSUME LibraryInv, [ProjectsNext]_projectsVars
             PROVE LibraryInv' /\ [RestoredInTime]_projectsVars
    OBVIOUS
<1>1. CASE ProjectsNext
  <2>1. LibraryStep
      BY <1>1, SendChangeKeeps, ApplyProjectChangeKeeps, SaveModelDefaultsKeeps, CreateProjectKeeps,
         ChangeFolderKeeps, WorkKeeps, TouchContentKeeps, StartCopyKeeps, CopyEnds,
         TickKeeps DEF ProjectsNext
  <2> QED
      BY <2>1 DEF LibraryStep
<1>2. CASE UNCHANGED projectsVars
  <2>1. RowsOK'
      BY <1>2, RowsStay DEF LibraryInv, projectsVars, Filing, Busy
  <2>2. TrafficOK'
      BY <1>2 DEF LibraryInv, projectsVars, TrafficOK, RecordOK
  <2> QED
      BY <1>2, <2>1, <2>2 DEF LibraryInv
<1> QED
    BY <1>1, <1>2

LibrarySound == QuietWhenClosed /\ CopyPublishable /\ FiledInLiveFolders /\ OneAnswer

LEMMA InvIsSound == LibraryInv => LibrarySound
<1> SUFFICES ASSUME LibraryInv PROVE LibrarySound
    OBVIOUS
<1>1. QuietWhenClosed
  <2> SUFFICES ASSUME NEW p \in Projects
               PROVE /\ project[p].deleted \/ project[p].status = "archived" => work[p] # "running"
                     /\ project[p].deleted => copy.source # p /\ copy.target # p
      BY DEF QuietWhenClosed
  <2>1. project[p].deleted \/ project[p].status = "archived" => work[p] # "running"
      BY DEF LibraryInv, RowsOK, ProjectOK, CanWrite
  <2>2. CASE copy = NoCopy
      BY <2>1, <2>2, ProjectsAssumption DEF NoCopy
  <2>3. CASE copy # NoCopy
      BY <2>1, <2>3 DEF LibraryInv, RowsOK, CopyOK
  <2> QED
      BY <2>2, <2>3
<1>2. CopyPublishable
    BY DEF LibraryInv, RowsOK, ProjectOK, CopyOK, CopyRow, Filings, CopyPublishable, PlacedAsFrozen
<1>3. FiledInLiveFolders
    BY DEF LibraryInv, RowsOK, ProjectOK, FiledInLiveFolders, Members
<1>4. OneAnswer
  <2> SUFFICES ASSUME NEW k \in LibraryKeys, asked[k].action \in Lasting
               PROVE Cardinality(answers[k]) <= 1
      BY DEF OneAnswer, Lasting
  <2>1. answers[k] = {} \/ answers[k] = {receipt[k].answer}
      BY DEF LibraryInv, TrafficOK, RecordOK
  <2>2. Cardinality({}) = 0 /\ Cardinality({receipt[k].answer}) = 1
      BY FS_EmptySet, FS_Singleton
  <2> QED
      BY <2>1, <2>2
<1> QED
    BY <1>1, <1>2, <1>3, <1>4 DEF LibrarySound

(* Types of the projects, folders, requests and answers of a library; work    *)
(* runs only in projects that may be written; a copy keeps its source and its *)
(* place; what was answered to a lasting change is on record.                 *)
THEOREM ProjectsTypeCorrect == ProjectsSpec => []LibraryInv
BY LibraryBegins, LibraryMoves, PTL DEF ProjectsSpec

(* Nothing works in a project that is closed, a copy can always be published  *)
(* where it was put, no project is in a folder that is gone, a request has    *)
(* one answer, and nothing is restored after its time (project_lifecycle.go,  *)
(* project_folder*.go): LibraryHonest.                                        *)
THEOREM LibraryIsHonest == ProjectsSpec => LibraryHonest
<1>1. LibraryInv => LibrarySound
    BY InvIsSound
<1> QED
    BY <1>1, LibraryBegins, LibraryMoves, PTL DEF ProjectsSpec, LibraryHonest, LibrarySound

-----------------------------------------------------------------------------
(* The inductive invariant of the copy of a project *)

CopyStages == {"media", "bible", "script", "canvases", "finalizing", "cleanup", "complete"}
CopyPlaces == AtWork \cup {"none", "find", "claim", "dead", "closed"}
CopyJob ==
    [status : Terminal \cup {"none", "queued", "running", "cancel_requested", "failed"},
     stage : CopyStages, worker : Workers \cup {0}, actor : Users \cup {"none"},
     receipts : SUBSET CopyStages, retryable : BOOLEAN, needs : BOOLEAN, cancel : BOOLEAN,
     asked : BOOLEAN, unconfirmed : BOOLEAN]
CopyRun == [pc : CopyPlaces, actor : Users \cup {"none"}, asked : BOOLEAN, k : Nat,
            code : {"none", "known", "unknown"}, steps : Nat, stopped : BOOLEAN]
CopyFlow == [pc : {"none", "activity", "interrupt", "next", "failed", "wait", "ended"},
             worker : Workers \cup {0}, pending : BOOLEAN]

CopyTypes ==
    /\ CopyTypeOK
    /\ job \in CopyJob /\ run \in [Workers -> CopyRun]

CopyTraffic ==
    /\ flow \in CopyFlow /\ events \in Nat
    /\ commands \in 0 .. MaxCommands /\ copyFaults \in 0 .. MaxCopyFaults

(* Only a job that has no final result has a worker, the target is what the *)
(* job's status says, a cancelled job only cleans up, and the bible is      *)
(* registered after the media and before the script.                        *)
JobOK ==
    /\ job.worker # 0 => job.status \notin Terminal \cup {"none"}
    /\ target = "none" <=> job.status = "none"
    /\ target = "active" <=> job.status = "succeeded"
    /\ target = "deleted" <=> job.status = "cancelled"
    /\ job.status = "succeeded" => ~job.cancel
    /\ job.stage = "cleanup" \/ job.status = "cancel_requested" => job.cancel
    /\ job.stage = "media" => "bible" \notin job.receipts
    /\ job.stage = "script" => "bible" \in job.receipts

(* The objects the present stage writes *)
Current == IF "bible" \in job.receipts THEN Script ELSE Media

(* Who works is the worker of the job; what is being written for the media  *)
(* is not there yet and nothing else will bring it; what is confirmed is.   *)
WorkerOK(w) ==
    LET r == run[w] IN
    /\ r.pc \in AtWork => job.worker = w
    /\ job.worker = w => r.pc \in AtWork \cup {"dead", "closed"}
    /\ r.pc \in {"media", "script", "cleanup"} => r.k # 0
    /\ r.pc \in {"put", "confirm"} => r.k \in DOMAIN Current
    /\ r.pc = "put" /\ "bible" \notin job.receipts =>
          /\ copied[Media[r.k]] = "begun" /\ Media[r.k] \notin written \cup writing
    /\ r.pc = "confirm" /\ ~job.cancel => Current[r.k] \in written

(* What is recorded as verified is there until the copy is cancelled.  A    *)
(* write of the media that is still unanswered is on record, and may not    *)
(* come after another one.                                                  *)
OnRecordOK(o) ==
    /\ ~job.cancel /\ copied[o] = "verified" => o \in written
    /\ o \in Elements(Media) =>
          /\ o \in writing => copied[o] = "begun" /\ o \notin written
          /\ o \in written => copied[o] \in {"begun", "verified"}

CopiedOK(o) ==
    /\ OnRecordOK(o)
    /\ job.status = "none" => copied[o] = "none"
    /\ job.status = "succeeded" => copied[o] = "verified"
    /\ job.status = "cancelled" => copied[o] = "removed"

CopyCore ==
    /\ CopyTypes /\ JobOK
    /\ \A w \in Workers : WorkerOK(w)
    /\ \A o \in CopyObjects : CopiedOK(o)

CopyInv == CopyCore /\ CopyTraffic

(* Who holds the copy changes as PhysicalWork says, and a cancellation is   *)
(* never taken back.                                                        *)
CopyFollows == CopyWork!Next \/ UNCHANGED <<CopyHolders, CopyEnded>>
CopyStep == CopyCore' /\ (job.cancel => job'.cancel) /\ CopyFollows

-----------------------------------------------------------------------------
(* Who works for the copy *)

LEMMA ZeroIsNoWorker == 0 \notin Workers
BY CopyAssumption DEF Workers

Fencing == {w \in Workers : job.worker = w /\ run[w].pc # "closed"}

LEMMA HoldersAre == CopyCore => CopyHolders = Fencing
<1> SUFFICES ASSUME CopyCore PROVE CopyHolders = Fencing
    OBVIOUS
<1>1. ASSUME NEW w \in Workers
      PROVE run[w].pc \in AtWork \/ (run[w].pc = "dead" /\ job.worker = w)
              <=> job.worker = w /\ run[w].pc # "closed"
    BY DEF CopyCore, WorkerOK, AtWork
<1> QED
    BY <1>1 DEF CopyHolders, Fencing

LEMMA SameHolders ==
    ASSUME CopyCore, CopyCore', job'.worker = job.worker, CopyEnded' = CopyEnded,
           \A w \in Workers : job.worker = w => run'[w].pc = "closed" <=> run[w].pc = "closed"
    PROVE CopyFollows
<1>1. CopyHolders = Fencing
    BY HoldersAre
<1>2. (CopyHolders = Fencing)'
    BY HoldersAre, PTL
<1>3. CopyHolders' = CopyHolders
    BY <1>1, <1>2 DEF Fencing
<1> QED
    BY <1>3 DEF CopyFollows

LEMMA NobodyHoldsOn ==
    ASSUME CopyCore, CopyCore', NEW w \in Workers, run[w].pc \in AtWork,
           job'.worker = 0 \/ (job'.worker = w /\ run'[w].pc = "closed")
    PROVE CopyFollows
<1>1. (CopyHolders = Fencing)'
    BY HoldersAre, PTL
<1>2. CopyHolders' = {}
    BY <1>1, ZeroIsNoWorker DEF Fencing
<1>3. w \in CopyHolders
    BY DEF CopyHolders
<1>4. ~CopyEnded
    BY ZeroIsNoWorker DEF CopyCore, WorkerOK, JobOK, CopyEnded
<1>5. CopyWork!End
    BY <1>2, <1>3, <1>4 DEF CopyWork!End, CopyEnded
<1> QED
    BY <1>5 DEF CopyFollows, CopyWork!Next

(* The others are not at work. *)
LEMMA OthersRest ==
    ASSUME CopyCore, NEW w \in Workers, job.worker = w \/ job.worker = 0,
           \A v \in Workers \ {w} : run'[v] = run[v], job'.worker \in {w, 0}
    PROVE \A v \in Workers \ {w} : WorkerOK(v)'
<1> SUFFICES ASSUME NEW v \in Workers \ {w} PROVE WorkerOK(v)'
    OBVIOUS
<1>1. run[v].pc \notin AtWork
    BY ZeroIsNoWorker DEF CopyCore, WorkerOK
<1>2. job'.worker # v
    BY ZeroIsNoWorker
<1> QED
    BY <1>1, <1>2 DEF WorkerOK, AtWork

(* A worker goes on: nothing else than what it writes changes. *)
WorkerGoes(w) ==
    /\ run' \in [Workers -> CopyRun]
    /\ \A v \in Workers \ {w} : run'[v] = run[v]

LEMMA WorkerMoves ==
    ASSUME CopyCore, NEW w \in Workers, run[w].pc \in AtWork, WorkerGoes(w),
           run'[w].pc \in AtWork \cup {"dead"}, job' = job, target' = target,
           copied' \in [CopyObjects -> {"none", "pending", "begun", "verified", "removed"}],
           written' \subseteq CopyObjects, writing' \subseteq CopyObjects,
           WorkerOK(w)', \A o \in CopyObjects : CopiedOK(o)'
    PROVE CopyStep
<1>1. job.worker = w
    BY DEF CopyCore, WorkerOK
<1>2. \A v \in Workers \ {w} : WorkerOK(v)'
    BY <1>1, OthersRest DEF WorkerGoes
<1>3. CopyTypes'
    BY DEF CopyCore, CopyTypes, CopyTypeOK, WorkerGoes
<1>4. JobOK'
    BY DEF CopyCore, JobOK
<1>5. CopyCore'
    BY <1>2, <1>3, <1>4 DEF CopyCore
<1>6. CopyEnded' = CopyEnded
    BY DEF CopyEnded
<1>7. \A v \in Workers : job.worker = v => run'[v].pc = "closed" <=> run[v].pc = "closed"
    BY <1>1 DEF AtWork
<1> QED
    BY <1>5, <1>6, <1>7, SameHolders DEF CopyStep

LEMMA PutsRow ==
    ASSUME CopyCore, NEW w \in Workers, NEW row \in CopyRun, run' = [run EXCEPT ![w] = row]
    PROVE WorkerGoes(w) /\ run'[w] = row
BY DEF CopyCore, CopyTypes, WorkerGoes

LEMMA RunIs == CopyCore => \A w \in Workers : run[w] \in CopyRun
BY DEF CopyCore, CopyTypes

LEMMA GoesIs ==
    ASSUME CopyCore, NEW w \in Workers, NEW to \in CopyPlaces, GoesTo(w, to)
    PROVE WorkerGoes(w) /\ run'[w].pc = to /\ run'[w].k = run[w].k
<1>1. PICK row : row = [run[w] EXCEPT !.pc = to]
    OBVIOUS
<1>2. row \in CopyRun /\ row.pc = to /\ row.k = run[w].k
    BY <1>1, RunIs DEF CopyRun
<1>3. run' = [run EXCEPT ![w] = row]
    BY <1>1 DEF GoesTo
<1> QED
    BY <1>2, <1>3, PutsRow

LEMMA FailsIs ==
    ASSUME CopyCore, NEW w \in Workers, Fails(w)
    PROVE WorkerGoes(w) /\ run'[w].pc = "failing"
<1>1. GoesTo(w, "failing")
    BY DEF Fails, GoesTo
<1> QED
    BY <1>1, GoesIs DEF CopyPlaces, AtWork

LEMMA StopsWith ==
    ASSUME CopyCore, NEW w \in Workers, NEW c \in {"known", "unknown"},
           run' = [run EXCEPT ![w].pc = "stop", ![w].code = c]
    PROVE WorkerGoes(w) /\ run'[w].pc = "stop"
<1>1. PICK row : row = [run[w] EXCEPT !.pc = "stop", !.code = c]
    OBVIOUS
<1>2. row \in CopyRun /\ row.pc = "stop"
    BY <1>1, RunIs DEF CopyRun, CopyPlaces, AtWork
<1>3. run' = [run EXCEPT ![w] = row]
    BY <1>1, RunIs DEF CopyRun
<1> QED
    BY <1>2, <1>3, PutsRow

LEMMA UnknownIs ==
    ASSUME CopyCore, NEW w \in Workers, Unknown(w)
    PROVE WorkerGoes(w) /\ run'[w].pc = "stop"
BY StopsWith DEF Unknown

LEMMA FollowingIs ==
    ASSUME CopyCore, NEW w \in Workers, NEW to \in CopyPlaces, Following(w, to)
    PROVE WorkerGoes(w) /\ run'[w].pc = to /\ run'[w].k # 0
<1>1. PICK n \in Nat : n = run[w].k + 1
    BY RunIs DEF CopyRun
<1>2. n # 0
    BY <1>1, RunIs DEF CopyRun
<1>3. PICK row : row = [run[w] EXCEPT !.pc = to, !.k = n]
    OBVIOUS
<1>4. row \in CopyRun /\ row.pc = to /\ row.k = n
    BY <1>3, RunIs DEF CopyRun
<1>5. run' = [run EXCEPT ![w] = row]
    BY <1>1, <1>3, RunIs DEF Following, CopyRun
<1> QED
    BY <1>2, <1>4, <1>5, PutsRow

LEMMA ReturnsIs ==
    ASSUME CopyCore, NEW w \in Workers, NEW to, Returns(w, to)
    PROVE WorkerGoes(w) /\ run'[w].pc = "closed"
<1>1. PICK row : row = [NoRun EXCEPT !.pc = "closed"]
    OBVIOUS
<1>2. row \in CopyRun /\ row.pc = "closed"
    BY <1>1 DEF NoRun, CopyRun, CopyPlaces
<1>3. run' = [run EXCEPT ![w] = row]
    BY <1>1 DEF Returns
<1> QED
    BY <1>2, <1>3, PutsRow

(* A worker goes on without having written or recorded anything. *)
LEMMA PlainMoves ==
    ASSUME CopyCore, NEW w \in Workers, run[w].pc \in AtWork, WorkerGoes(w),
           run'[w].pc \in {"step", "failing", "stop", "bible", "canvases", "finalizing", "dead"},
           UNCHANGED <<job, copied, target, written, writing>>
    PROVE CopyStep
<1>1. WorkerOK(w)'
    BY DEF CopyCore, WorkerOK, AtWork
<1>2. \A o \in CopyObjects : CopiedOK(o)'
    BY DEF CopyCore, CopiedOK, OnRecordOK
<1>3. /\ copied' \in [CopyObjects -> {"none", "pending", "begun", "verified", "removed"}]
      /\ written' \subseteq CopyObjects /\ writing' \subseteq CopyObjects
    BY DEF CopyCore, CopyTypes, CopyTypeOK
<1>4. run'[w].pc \in AtWork \cup {"dead"}
    BY DEF AtWork
<1> QED
    BY <1>1, <1>2, <1>3, <1>4, WorkerMoves

(* One that is not at work does not change who is. *)
LEMMA RestMoves ==
    ASSUME CopyCore, NEW w \in Workers, job.worker # w, WorkerGoes(w),
           run'[w].pc \in CopyPlaces \ AtWork, UNCHANGED <<job, copied, target, written, writing>>
    PROVE CopyStep
<1>1. WorkerOK(w)'
    BY DEF WorkerOK, AtWork, CopyPlaces
<1>2. \A v \in Workers \ {w} : WorkerOK(v)'
    BY DEF CopyCore, WorkerOK, WorkerGoes, Current
<1>3. \A o \in CopyObjects : CopiedOK(o)'
    BY DEF CopyCore, CopiedOK, OnRecordOK
<1>4. CopyTypes' /\ JobOK'
    BY DEF CopyCore, CopyTypes, CopyTypeOK, WorkerGoes, JobOK
<1>5. CopyCore'
    BY <1>1, <1>2, <1>3, <1>4 DEF CopyCore
<1>6. \A v \in Workers : job.worker = v => run'[v].pc = "closed" <=> run[v].pc = "closed"
    BY DEF WorkerGoes
<1>7. CopyEnded' = CopyEnded
    BY DEF CopyEnded
<1> QED
    BY <1>5, <1>6, <1>7, SameHolders DEF CopyStep

LEMMA NotTheWorker ==
    ASSUME CopyCore, NEW w \in Workers, run[w].pc \in CopyPlaces \ (AtWork \cup {"dead", "closed"})
    PROVE job.worker # w
BY DEF CopyCore, WorkerOK, CopyPlaces, AtWork

LEMMA FindKeeps == ASSUME CopyCore, NEW w \in Workers, Find(w) PROVE CopyStep
<1>1. UNCHANGED <<job, copied, target, written, writing>>
    BY DEF Find, Rest
<1>2. job.worker # w
    BY NotTheWorker DEF Find, CopyPlaces, AtWork
<1>3. CASE \E to \in {"next", "interrupt"} : Returns(w, to)
    BY <1>1, <1>2, <1>3, ReturnsIs, RestMoves DEF CopyPlaces, AtWork
<1>4. CASE run' = [run EXCEPT ![w].pc = "claim", ![w].actor = job.actor, ![w].asked = job.asked]
  <2>1. PICK row : row = [run[w] EXCEPT !.pc = "claim", !.actor = job.actor, !.asked = job.asked]
      OBVIOUS
  <2>2. job \in CopyJob /\ run[w] \in CopyRun
      BY DEF CopyCore, CopyTypes
  <2>3. row \in CopyRun /\ row.pc = "claim"
      BY <2>1, <2>2 DEF CopyRun, CopyJob, CopyPlaces
  <2>4. run' = [run EXCEPT ![w] = row]
      BY <1>4, <2>1, <2>2 DEF CopyRun
  <2> QED
      BY <1>1, <1>2, <2>3, <2>4, PutsRow, RestMoves DEF CopyPlaces, AtWork
<1> QED
    BY <1>3, <1>4 DEF Find

LEMMA NextStepKeeps == ASSUME CopyCore, NEW w \in Workers, NextStep(w) PROVE CopyStep
<1>1. UNCHANGED <<job, copied, target, written, writing>> /\ run[w].pc \in AtWork
    BY DEF NextStep, Rest, AtWork
<1>2. CASE run' = [run EXCEPT ![w].pc = "stop", ![w].code = "known"]
    BY <1>1, <1>2, StopsWith, PlainMoves
<1>3. CASE /\ job.stage # "complete"
           /\ run' = [run EXCEPT ![w].pc = job.stage, ![w].k = 1, ![w].steps = @ + 1]
  <2>1. PICK n \in Nat : n = run[w].steps + 1
      BY RunIs DEF CopyRun
  <2>2. PICK row : row = [run[w] EXCEPT !.pc = job.stage, !.k = 1, !.steps = n]
      OBVIOUS
  <2>3. job.stage \in CopyStages \ {"complete"}
      BY <1>3 DEF CopyCore, CopyTypes, CopyJob
  <2>4. job.stage \in AtWork \ {"put", "confirm"}
      BY <2>3 DEF CopyStages, AtWork
  <2>5. row \in CopyRun /\ row.pc = job.stage /\ row.k = 1
      BY <2>2, <2>4, RunIs DEF CopyRun, CopyPlaces
  <2>6. run' = [run EXCEPT ![w] = row]
      BY <1>3, <2>1, <2>2, RunIs DEF CopyRun
  <2>7. WorkerGoes(w) /\ run'[w] = row
      BY <2>5, <2>6, PutsRow
  <2>8. WorkerOK(w)'
      BY <1>1, <2>4, <2>5, <2>7 DEF CopyCore, WorkerOK
  <2>9. \A o \in CopyObjects : CopiedOK(o)'
      BY <1>1 DEF CopyCore, CopiedOK, OnRecordOK
  <2> QED
      BY <1>1, <2>4, <2>5, <2>7, <2>8, <2>9, WorkerMoves DEF CopyCore, CopyTypes, CopyTypeOK
<1> QED
    BY <1>2, <1>3 DEF NextStep

LEMMA FailingKeeps == ASSUME CopyCore, NEW w \in Workers, Failing(w) PROVE CopyStep
<1>1. UNCHANGED <<job, copied, target, written, writing>> /\ run[w].pc \in AtWork
    BY DEF Failing, Rest, AtWork
<1>2. CASE GoesTo(w, "step")
    BY <1>1, <1>2, GoesIs, PlainMoves DEF CopyPlaces, AtWork
<1>3. CASE run' = [run EXCEPT ![w].pc = "stop",
                              ![w].code = IF run[w].stopped THEN "unknown" ELSE "known"]
    BY <1>1, <1>3, StopsWith, PlainMoves
<1> QED
    BY <1>2, <1>3 DEF Failing

LEMMA WorkerFailsKeeps == ASSUME CopyCore, NEW w \in Workers, WorkerFails(w) PROVE CopyStep
<1>1. UNCHANGED <<job, copied, target, written, writing>> /\ run[w].pc \in AtWork
    BY DEF WorkerFails, ByWorker, AtWork
<1> QED
    BY <1>1, FailsIs, UnknownIs, PlainMoves DEF WorkerFails

(* The worker stays where it is. *)
LEMMA StandsStill ==
    ASSUME CopyCore, NEW w \in Workers, run[w].pc \in AtWork, WorkerGoes(w),
           run'[w].pc = run[w].pc, run'[w].k = run[w].k,
           UNCHANGED <<job, copied, target, written, writing>>
    PROVE CopyStep
<1>1. WorkerOK(w)'
    BY DEF CopyCore, WorkerOK, Current
<1>2. \A o \in CopyObjects : CopiedOK(o)'
    BY DEF CopyCore, CopiedOK, OnRecordOK
<1> QED
    BY <1>1, <1>2, WorkerMoves DEF CopyCore, CopyTypes, CopyTypeOK

LEMMA StoppedKeeps == ASSUME CopyCore, NEW w \in Workers, Stopped(w) PROVE CopyStep
<1>1. UNCHANGED <<job, copied, target, written, writing>> /\ run[w].pc \in AtWork
    BY DEF Stopped, Rest
<1>2. CASE run' = [run EXCEPT ![w].stopped = TRUE]
  <2>1. PICK row : row = [run[w] EXCEPT !.stopped = TRUE]
      OBVIOUS
  <2>2. row \in CopyRun /\ row.pc = run[w].pc /\ row.k = run[w].k
      BY <2>1, RunIs DEF CopyRun
  <2>3. run' = [run EXCEPT ![w] = row]
      BY <1>2, <2>1
  <2> QED
      BY <1>1, <2>2, <2>3, PutsRow, StandsStill
<1>3. CASE run' = [run EXCEPT ![w].stopped = TRUE, ![w].pc = "failing"]
  <2>1. PICK row : row = [run[w] EXCEPT !.stopped = TRUE, !.pc = "failing"]
      OBVIOUS
  <2>2. row \in CopyRun /\ row.pc = "failing"
      BY <2>1, RunIs DEF CopyRun, CopyPlaces, AtWork
  <2>3. run' = [run EXCEPT ![w] = row]
      BY <1>3, <2>1, RunIs DEF CopyRun
  <2> QED
      BY <1>1, <2>2, <2>3, PutsRow, PlainMoves
<1> QED
    BY <1>2, <1>3 DEF Stopped

(* The object in hand *)
LEMMA SequencesAre ==
    /\ Media \in Seq(Elements(Media)) /\ Len(Media) \in Nat /\ DOMAIN Media = 1 .. Len(Media)
    /\ Script \in Seq(Elements(Script)) /\ Len(Script) \in Nat /\ DOMAIN Script = 1 .. Len(Script)
    /\ Elements(Media) \cap Elements(Script) = {}
<1>1. /\ Elements(Media) = {Media[k] : k \in DOMAIN Media}
      /\ Elements(Script) = {Script[k] : k \in DOMAIN Script}
    BY DEF Elements
<1>2. Media \in Seq(Elements(Media)) /\ Script \in Seq(Elements(Script))
    BY <1>1, CopyAssumption, Zenon
<1>3. Elements(Media) \cap Elements(Script) = {}
    BY <1>1, CopyAssumption, Zenon
<1> QED
    BY <1>2, <1>3

LEMMA WritingIs ==
    ASSUME CopyCore, NEW w \in Workers, run[w].pc \in {"put", "confirm"}
    PROVE /\ WritesObject(w) = Current[run[w].k] /\ run[w].k \in DOMAIN Current
          /\ WritesObject(w) \in Elements(Current) /\ WritesObject(w) \in CopyObjects
          /\ job.worker = w
<1>1. (job.stage = "script" \/ "bible" \in job.receipts) <=> "bible" \in job.receipts
    BY DEF CopyCore, JobOK
<1>2. WritesObject(w) = Current[run[w].k]
    BY <1>1 DEF WritesObject, Part, Current
<1>3. run[w].k \in DOMAIN Current /\ job.worker = w
    BY DEF CopyCore, WorkerOK, AtWork
<1>4. WritesObject(w) \in Elements(Current)
    BY <1>2, <1>3 DEF Elements
<1> QED
    BY <1>2, <1>3, <1>4 DEF CopyObjects, Current

LEMMA OneObject ==
    ASSUME CopyCore, NEW w \in Workers, job.worker = w, job' = job, NEW o \in CopyObjects,
           \A p \in CopyObjects \ {o} : /\ copied'[p] = copied[p]
                                        /\ p \in written' <=> p \in written
                                        /\ p \in writing' <=> p \in writing,
           OnRecordOK(o)'
    PROVE \A p \in CopyObjects : CopiedOK(p)'
<1>1. job.status \notin Terminal \cup {"none"}
    BY ZeroIsNoWorker DEF CopyCore, JobOK
<1>2. CopiedOK(o)'
    BY <1>1 DEF CopiedOK, Terminal
<1>3. ASSUME NEW p \in CopyObjects \ {o} PROVE CopiedOK(p)'
    BY <1>3 DEF CopyCore, CopiedOK, OnRecordOK
<1> QED
    BY <1>2, <1>3

(* What the object of a step may become *)
CopyMarks == {"none", "pending", "begun", "verified", "removed"}

LEMMA Marks ==
    ASSUME CopyCore, NEW o \in CopyObjects, NEW m \in CopyMarks,
           copied' = [copied EXCEPT ![o] = m]
    PROVE /\ copied' \in [CopyObjects -> CopyMarks] /\ copied'[o] = m
          /\ \A p \in CopyObjects \ {o} : copied'[p] = copied[p]
BY DEF CopyCore, CopyTypes, CopyTypeOK, CopyMarks

LEMMA StoreIs ==
    ASSUME CopyCore
    PROVE /\ copied \in [CopyObjects -> CopyMarks]
          /\ written \subseteq CopyObjects /\ writing \subseteq CopyObjects
          /\ job \in CopyJob
BY DEF CopyCore, CopyTypes, CopyTypeOK, CopyMarks

LEMMA FencedIs ==
    ASSUME CopyCore, NEW w \in Workers, NEW stage, Fenced(w, stage)
    PROVE /\ job.worker = w /\ job.stage = stage
          /\ stage # "cleanup" => ~job.cancel /\ job.status = "running"
          /\ stage = "cleanup" => job.cancel /\ job.status = "cancel_requested"
BY DEF Fenced, Authorized, Mine, CopyCore, JobOK

LEMMA MediaPart ==
    ASSUME CopyCore, NEW w \in Workers, More(w, "media", Media)
    PROVE /\ run[w].k \in DOMAIN Media /\ run[w].pc = "media"
          /\ Part(w, Media) = Media[run[w].k]
          /\ Part(w, Media) \in Elements(Media) /\ Part(w, Media) \in CopyObjects
<1>1. run[w].k \in Nat /\ run[w].k # 0 /\ run[w].k <= Len(Media)
    BY RunIs DEF More, CopyCore, WorkerOK, CopyRun
<1>2. run[w].k \in DOMAIN Media
    BY <1>1, SequencesAre
<1> QED
    BY <1>2 DEF More, Part, Elements, CopyObjects

LEMMA ScriptPart ==
    ASSUME CopyCore, NEW w \in Workers, More(w, "script", Script)
    PROVE /\ run[w].k \in DOMAIN Script /\ run[w].pc = "script"
          /\ Part(w, Script) = Script[run[w].k]
          /\ Part(w, Script) \in Elements(Script) /\ Part(w, Script) \in CopyObjects
<1>1. run[w].k \in Nat /\ run[w].k # 0 /\ run[w].k <= Len(Script)
    BY RunIs DEF More, CopyCore, WorkerOK, CopyRun
<1>2. run[w].k \in DOMAIN Script
    BY <1>1, SequencesAre
<1> QED
    BY <1>2 DEF More, Part, Elements, CopyObjects

LEMMA TransferObjectKeeps == ASSUME CopyCore, NEW w \in Workers, TransferObject(w) PROVE CopyStep
<1>1. UNCHANGED <<job, target, written, writing>> /\ run[w].pc \in AtWork
    BY DEF TransferObject, Rest, More, AtWork
<1>2. PICK o \in Elements(Media) : o = Part(w, Media)
    BY MediaPart DEF TransferObject
<1>3. /\ o \in CopyObjects /\ run[w].k \in DOMAIN Media /\ run[w].pc = "media"
      /\ o = Media[run[w].k]
    BY <1>2, MediaPart DEF TransferObject
<1>4. ASSUME Fenced(w, "media") PROVE Current = Media /\ job.worker = w /\ ~job.cancel
    BY <1>4, FencedIs DEF Current, CopyCore, JobOK
<1>5. OnRecordOK(o)
    BY <1>3 DEF CopyCore, CopiedOK
<1>6. CASE /\ Fenced(w, "media") /\ copied[o] = "pending"
           /\ copied' = [copied EXCEPT ![o] = "begun"] /\ GoesTo(w, "put")
  <2>1. WorkerGoes(w) /\ run'[w].pc = "put" /\ run'[w].k = run[w].k
      BY <1>6, GoesIs DEF CopyPlaces, AtWork
  <2>2. /\ copied' \in [CopyObjects -> CopyMarks] /\ copied'[o] = "begun"
        /\ \A p \in CopyObjects \ {o} : copied'[p] = copied[p]
      BY <1>3, <1>6, Marks DEF CopyMarks
  <2>3. o \notin written \cup writing
      BY <1>5, <1>6 DEF OnRecordOK
  <2>4. Current' = Media /\ job.worker = w
      BY <1>1, <1>4, <1>6 DEF Current
  <2>5. WorkerOK(w)'
      BY <1>1, <1>3, <2>1, <2>2, <2>3, <2>4 DEF WorkerOK, AtWork
  <2>6. OnRecordOK(o)'
      BY <1>1, <2>2, <2>3 DEF OnRecordOK
  <2>7. \A p \in CopyObjects : CopiedOK(p)'
      BY <1>1, <1>3, <2>2, <2>4, <2>6, OneObject
  <2> QED
      BY <1>1, <2>1, <2>2, <2>5, <2>7, StoreIs, WorkerMoves DEF CopyMarks, AtWork
<1>7. CASE copied' = copied /\ (Fails(w) \/ Unknown(w))
    BY <1>1, <1>7, FailsIs, UnknownIs, PlainMoves
<1>8. CASE copied' = copied /\ Fenced(w, "media") /\ o \in written
            /\ (Following(w, "media") \/ GoesTo(w, "confirm"))
  <2>1. /\ WorkerGoes(w)
        /\ \/ run'[w].pc = "media" /\ run'[w].k # 0
           \/ run'[w].pc = "confirm" /\ run'[w].k = run[w].k
      BY <1>8, FollowingIs, GoesIs DEF CopyPlaces, AtWork
  <2>2. Current' = Media /\ job.worker = w
      BY <1>1, <1>4, <1>8 DEF Current
  <2>3. WorkerOK(w)'
      BY <1>1, <1>3, <1>8, <2>1, <2>2 DEF WorkerOK, AtWork
  <2>4. \A p \in CopyObjects : CopiedOK(p)'
      BY <1>1, <1>8 DEF CopyCore, CopiedOK, OnRecordOK
  <2> QED
      BY <1>1, <1>8, <2>1, <2>3, <2>4, StoreIs, WorkerMoves DEF CopyMarks, AtWork
<1> QED
    BY <1>2, <1>6, <1>7, <1>8 DEF TransferObject

LEMMA BeginObjectKeeps == ASSUME CopyCore, NEW w \in Workers, BeginObject(w) PROVE CopyStep
<1>1. UNCHANGED <<job, target, written, writing>> /\ run[w].pc \in AtWork
    BY DEF BeginObject, Rest, More, AtWork
<1>2. PICK o \in Elements(Script) : o = Part(w, Script)
    BY ScriptPart DEF BeginObject
<1>3. /\ o \in CopyObjects /\ run[w].k \in DOMAIN Script /\ run[w].pc = "script"
      /\ o = Script[run[w].k] /\ o \notin Elements(Media)
    BY <1>2, ScriptPart, SequencesAre DEF BeginObject
<1>4. CASE UNCHANGED copied /\ Fails(w)
    BY <1>1, <1>4, FailsIs, PlainMoves
<1>5. CASE /\ Fenced(w, "script")
           /\ copied' = [copied EXCEPT ![o] = IF @ = "verified" THEN @ ELSE "begun"]
           /\ GoesTo(w, IF o \in written THEN "confirm" ELSE "put")
  <2>1. /\ WorkerGoes(w) /\ run'[w].k = run[w].k
        /\ \/ run'[w].pc = "confirm" /\ o \in written
           \/ run'[w].pc = "put" /\ o \notin written
      BY <1>5, GoesIs DEF CopyPlaces, AtWork
  <2>2. PICK m \in {"verified", "begun"} : m = IF copied[o] = "verified" THEN copied[o] ELSE "begun"
      OBVIOUS
  <2>3. copied' = [copied EXCEPT ![o] = m]
      BY <1>3, <1>5, <2>2, StoreIs
  <2>4. /\ copied' \in [CopyObjects -> CopyMarks] /\ copied'[o] = m
        /\ \A p \in CopyObjects \ {o} : copied'[p] = copied[p]
      BY <1>3, <2>3, Marks DEF CopyMarks
  <2>5. "bible" \in job.receipts /\ Current' = Script /\ job.worker = w
      BY <1>1, <1>5, FencedIs DEF Current, CopyCore, JobOK
  <2>6. WorkerOK(w)'
      BY <1>1, <1>3, <2>1, <2>5 DEF WorkerOK, AtWork
  <2>7. OnRecordOK(o)
      BY <1>3 DEF CopyCore, CopiedOK
  <2>8. OnRecordOK(o)'
      BY <1>1, <1>3, <2>2, <2>4, <2>7 DEF OnRecordOK
  <2>9. \A p \in CopyObjects : CopiedOK(p)'
      BY <1>1, <1>3, <2>4, <2>5, <2>8, OneObject
  <2> QED
      BY <1>1, <2>1, <2>4, <2>6, <2>9, StoreIs, WorkerMoves DEF CopyMarks, AtWork
<1> QED
    BY <1>2, <1>4, <1>5 DEF BeginObject

(* What is being written is on record as begun, of the media nothing else   *)
(* has written it or may write it.                                          *)
LEMMA WrittenNow ==
    ASSUME CopyCore, NEW w \in Workers, run[w].pc = "put"
    PROVE LET o == WritesObject(w) IN
          /\ o \in CopyObjects
          /\ o \in Elements(Media) => copied[o] = "begun" /\ o \notin written /\ o \notin writing
<1>1. WritesObject(w) = Current[run[w].k] /\ WritesObject(w) \in Elements(Current)
    BY WritingIs
<1>2. WritesObject(w) \in CopyObjects
    BY WritingIs
<1>3. WritesObject(w) \in Elements(Media) => "bible" \notin job.receipts
    BY <1>1, SequencesAre DEF Current
<1>4. "bible" \notin job.receipts => WritesObject(w) = Media[run[w].k]
    BY <1>1 DEF Current
<1> QED
    BY <1>2, <1>3, <1>4 DEF CopyCore, WorkerOK

LEMMA PutObjectKeeps == ASSUME CopyCore, NEW w \in Workers, PutObject(w) PROVE CopyStep
<1>1. PICK o \in CopyObjects : o = WritesObject(w)
    BY WrittenNow DEF PutObject
<1>2. UNCHANGED <<job, copied, target, writing>> /\ run[w].pc = "put" /\ run[w].pc \in AtWork
    BY DEF PutObject, ByWorker, AtWork
<1>3. written' = written \cup {o}
    BY <1>1 DEF PutObject
<1>4. o \in Elements(Media) => copied[o] = "begun" /\ o \notin writing
    BY <1>1, <1>2, WrittenNow
<1>5. /\ job.worker = w /\ run[w].k \in DOMAIN Current /\ o = Current[run[w].k]
    BY <1>1, <1>2, WritingIs
<1>6. WorkerGoes(w) /\ run'[w].pc = "confirm" /\ run'[w].k = run[w].k
    BY GoesIs DEF PutObject, CopyPlaces, AtWork
<1>7. Current' = Current
    BY <1>2 DEF Current
<1>8. WorkerOK(w)'
    BY <1>2, <1>3, <1>5, <1>6, <1>7 DEF WorkerOK, AtWork
<1>9. OnRecordOK(o)'
    BY <1>2, <1>3, <1>4 DEF OnRecordOK
<1>10. \A p \in CopyObjects : CopiedOK(p)'
    BY <1>2, <1>3, <1>5, <1>9, OneObject
<1> QED
    BY <1>2, <1>3, <1>6, <1>8, <1>10, StoreIs, WorkerMoves DEF CopyMarks, AtWork

(* A write of which nobody knows whether it took effect *)
LEMMA Unsettled ==
    ASSUME CopyCore, NEW w \in Workers, run[w].pc = "put", WorkerGoes(w),
           run'[w].pc \in {"stop", "dead"}, writing' = writing \cup {WritesObject(w)},
           UNCHANGED <<job, copied, target, written>>
    PROVE CopyStep
<1>1. PICK o \in CopyObjects : o = WritesObject(w)
    BY WrittenNow
<1>2. OnRecordOK(o) /\ (o \in Elements(Media) => copied[o] = "begun" /\ o \notin written)
    BY <1>1, WrittenNow DEF CopyCore, CopiedOK
<1>3. OnRecordOK(o)'
    BY <1>1, <1>2 DEF OnRecordOK
<1>4. job.worker = w
    BY WritingIs
<1>5. \A p \in CopyObjects : CopiedOK(p)'
    BY <1>1, <1>3, <1>4, OneObject
<1>6. WorkerOK(w)'
    BY <1>4 DEF WorkerOK, AtWork
<1> QED
    BY <1>1, <1>5, <1>6, StoreIs, WorkerMoves DEF CopyMarks, AtWork

LEMMA PutUnansweredKeeps == ASSUME CopyCore, NEW w \in Workers, PutUnanswered(w) PROVE CopyStep
BY UnknownIs, Unsettled DEF PutUnanswered, ByWorker

LEMMA WorkerDiesKeeps == ASSUME CopyCore, NEW w \in Workers, WorkerDies(w) PROVE CopyStep
<1>1. PICK row : row = [NoRun EXCEPT !.pc = "dead"]
    OBVIOUS
<1>2. row \in CopyRun /\ row.pc = "dead"
    BY <1>1 DEF NoRun, CopyRun, CopyPlaces
<1>3. WorkerGoes(w) /\ run'[w].pc = "dead" /\ UNCHANGED <<job, copied, target, written>>
    BY <1>1, <1>2, PutsRow DEF WorkerDies, ByWorker
<1>4. CASE run[w].pc = "put"
    BY <1>3, <1>4, Unsettled DEF WorkerDies
<1>5. CASE run[w].pc \in AtWork \ {"put"}
    BY <1>3, <1>5, PlainMoves DEF WorkerDies
<1>6. CASE run[w].pc \in {"find", "claim"}
    BY <1>3, <1>6, NotTheWorker, RestMoves DEF WorkerDies, CopyPlaces, AtWork
<1> QED
    BY <1>4, <1>5, <1>6 DEF WorkerDies

LEMMA ConfirmObjectKeeps == ASSUME CopyCore, NEW w \in Workers, ConfirmObject(w) PROVE CopyStep
<1>1. PICK o \in CopyObjects : o = WritesObject(w)
    BY WritingIs DEF ConfirmObject
<1>2. UNCHANGED <<job, target, written, writing>> /\ run[w].pc = "confirm" /\ run[w].pc \in AtWork
    BY DEF ConfirmObject, Rest, AtWork
<1>3. PICK stage \in {"script", "media"} : stage = IF o \in Elements(Script) THEN "script" ELSE "media"
    OBVIOUS
<1>4. CASE copied' = copied /\ Unknown(w)
    BY <1>2, <1>4, UnknownIs, PlainMoves
<1>5. CASE /\ Fenced(w, stage) /\ copied' = [copied EXCEPT ![o] = "verified"]
           /\ Following(w, stage)
  <2>1. WorkerGoes(w) /\ run'[w].pc = stage /\ run'[w].k # 0
      BY <1>5, FollowingIs DEF CopyPlaces, AtWork
  <2>2. /\ copied' \in [CopyObjects -> CopyMarks] /\ copied'[o] = "verified"
        /\ \A p \in CopyObjects \ {o} : copied'[p] = copied[p]
      BY <1>5, Marks DEF CopyMarks
  <2>3. job.worker = w /\ ~job.cancel
      BY <1>3, <1>5, FencedIs
  <2>4. o \in written
      BY <1>1, <1>2, <2>3, WritingIs DEF CopyCore, WorkerOK
  <2>5. OnRecordOK(o)
      BY DEF CopyCore, CopiedOK
  <2>6. OnRecordOK(o)'
      BY <1>2, <2>2, <2>4, <2>5 DEF OnRecordOK
  <2>7. \A p \in CopyObjects : CopiedOK(p)'
      BY <1>2, <2>2, <2>3, <2>6, OneObject
  <2>8. WorkerOK(w)'
      BY <1>2, <2>1, <2>3 DEF WorkerOK, AtWork
  <2> QED
      BY <1>2, <2>1, <2>2, <2>7, <2>8, StoreIs, WorkerMoves DEF CopyMarks, AtWork
<1> QED
    BY <1>1, <1>3, <1>4, <1>5 DEF ConfirmObject

(* A worker whose job goes on with another stage *)
LEMMA AdvanceKeeps ==
    ASSUME CopyCore, NEW w \in Workers, run[w].pc \in AtWork, NEW stage \in CopyStages,
           NEW next \in {"bible", "script", "canvases", "finalizing"},
           stage = "bible" <=> next = "script", stage # "cleanup",
           NEW ok, Advance(w, stage, next, ok)
    PROVE CopyStep
<1>1. UNCHANGED <<target, copied, written, writing>>
    BY DEF Advance, ByWorker
<1>2. CASE UNCHANGED job /\ Fails(w)
    BY <1>1, <1>2, FailsIs, PlainMoves
<1>3. CASE /\ Fenced(w, stage) /\ GoesTo(w, "step")
           /\ job' = [job EXCEPT !.stage = next, !.receipts = @ \cup {stage}]
  <2>1. WorkerGoes(w) /\ run'[w].pc = "step"
      BY <1>3, GoesIs DEF CopyPlaces, AtWork
  <2>2. job.worker = w /\ job.stage = stage
      BY <1>3, FencedIs
  <2>3. next \in CopyStages /\ job \in CopyJob
      BY StoreIs DEF CopyStages
  <2>4. job' \in CopyJob
      BY <1>3, <2>3 DEF CopyJob
  <2>5. /\ job'.stage = next /\ job'.receipts = job.receipts \cup {stage}
        /\ job'.worker = job.worker /\ job'.status = job.status /\ job'.cancel = job.cancel
      BY <1>3, <2>3 DEF CopyJob
  <2>6. JobOK'
      BY <1>1, <2>2, <2>5 DEF CopyCore, JobOK
  <2>7. \A o \in CopyObjects : CopiedOK(o)'
      BY <1>1, <2>5 DEF CopyCore, CopiedOK, OnRecordOK
  <2>8. WorkerOK(w)'
      BY <2>1, <2>2, <2>5 DEF WorkerOK, AtWork
  <2>9. \A v \in Workers \ {w} : WorkerOK(v)'
      BY <2>1, <2>2, <2>5, OthersRest DEF WorkerGoes
  <2>10. CopyCore'
      BY <1>1, <2>1, <2>4, <2>5, <2>6, <2>7, <2>8, <2>9
      DEF CopyCore, CopyTypes, CopyTypeOK, WorkerGoes
  <2>11. CopyEnded' = CopyEnded
      BY <2>5 DEF CopyEnded
  <2>12. \A v \in Workers : job.worker = v => run'[v].pc = "closed" <=> run[v].pc = "closed"
      BY <2>1, <2>2 DEF AtWork
  <2> QED
      BY <2>5, <2>10, <2>11, <2>12, SameHolders DEF CopyStep
<1> QED
    BY <1>2, <1>3 DEF Advance

LEMMA CompleteKeeps ==
    ASSUME CopyCore, NEW w \in Workers,
           CompleteMedia(w) \/ CompleteBible(w) \/ CompleteScript(w) \/ CompleteCanvases(w)
    PROVE CopyStep
<1>1. CASE CompleteMedia(w)
  <2>1. run[w].pc \in AtWork
      BY <1>1 DEF CompleteMedia, Done, AtWork
  <2> QED
      BY <1>1, <2>1, AdvanceKeeps DEF CompleteMedia, CopyStages
<1>2. CASE CompleteBible(w)
  <2>1. run[w].pc \in AtWork
      BY <1>2 DEF CompleteBible, AtWork
  <2>2. CASE Unknown(w) /\ UNCHANGED <<job, copied, written, writing, ByWorker, copyFaults>>
      BY <2>1, <2>2, UnknownIs, PlainMoves DEF ByWorker
  <2>3. CASE Advance(w, "bible", "script", TRUE)
      BY <2>1, <2>3, AdvanceKeeps DEF CopyStages
  <2> QED
      BY <1>2, <2>2, <2>3 DEF CompleteBible
<1>3. CASE CompleteScript(w)
  <2>1. run[w].pc \in AtWork
      BY <1>3 DEF CompleteScript, Done, AtWork
  <2> QED
      BY <1>3, <2>1, AdvanceKeeps DEF CompleteScript, CopyStages
<1>4. CASE CompleteCanvases(w)
  <2>1. run[w].pc \in AtWork
      BY <1>4 DEF CompleteCanvases, AtWork
  <2> QED
      BY <1>4, <2>1, AdvanceKeeps DEF CompleteCanvases, CopyStages
<1> QED
    BY <1>1, <1>2, <1>3, <1>4

(* A worker ends, and the job with it or not. *)
LEMMA WorkerEnds ==
    ASSUME CopyCore, NEW w \in Workers, run[w].pc \in AtWork, WorkerGoes(w),
           run'[w].pc = "closed", UNCHANGED <<copied, written, writing>>,
           target' \in {"none", "copying", "active", "deleted"},
           job' \in CopyJob, job'.worker \in {w, 0}, job'.cancel = job.cancel, JobOK',
           \A o \in CopyObjects : CopiedOK(o)'
    PROVE CopyStep
<1>1. job.worker = w
    BY DEF CopyCore, WorkerOK
<1>2. WorkerOK(w)'
    BY ZeroIsNoWorker DEF WorkerOK, AtWork
<1>3. \A v \in Workers \ {w} : WorkerOK(v)'
    BY <1>1, OthersRest DEF WorkerGoes
<1>4. job'.worker \in 0 .. MaxWorkers
    BY CopyAssumption DEF Workers
<1>5. CopyCore'
    BY <1>2, <1>3, <1>4 DEF CopyCore, CopyTypes, CopyTypeOK, WorkerGoes
<1> QED
    BY <1>5, NobodyHoldsOn DEF CopyStep

LEMMA PublishKeeps == ASSUME CopyCore, NEW w \in Workers, Publish(w) PROVE CopyStep
<1>1. UNCHANGED <<copied, written, writing>> /\ run[w].pc \in AtWork
    BY DEF Publish, AtWork
<1>2. CASE UNCHANGED <<job, target, flow>> /\ Fails(w)
    BY <1>1, <1>2, FailsIs, PlainMoves
<1>3. CASE /\ Fenced(w, "finalizing") /\ VerifyMedia /\ VerifyScript
           /\ job' = [job EXCEPT !.status = "succeeded", !.stage = "complete", !.worker = 0]
           /\ target' = "active" /\ Returns(w, "next")
  <2>1. WorkerGoes(w) /\ run'[w].pc = "closed"
      BY <1>3, ReturnsIs
  <2>2. job \in CopyJob /\ ~job.cancel
      BY <1>3, StoreIs, FencedIs
  <2>3. job' \in CopyJob
      BY <1>3, <2>2 DEF CopyJob, Terminal, CopyStages
  <2>4. /\ job'.worker = 0 /\ job'.cancel = job.cancel /\ job'.status = "succeeded"
        /\ job'.stage = "complete"
      BY <1>3, <2>2 DEF CopyJob
  <2>5. JobOK'
      BY <1>3, <2>2, <2>4 DEF JobOK
  <2>6. \A o \in CopyObjects : copied[o] = "verified"
      BY <1>3 DEF VerifyMedia, VerifyScript, Register, CopyObjects
  <2>7. \A o \in CopyObjects : CopiedOK(o)'
      BY <1>1, <2>4, <2>6 DEF CopyCore, CopiedOK, OnRecordOK
  <2> QED
      BY <1>1, <1>3, <2>1, <2>3, <2>4, <2>5, <2>7, WorkerEnds
<1> QED
    BY <1>2, <1>3 DEF Publish

LEMMA FinishCancelledKeeps == ASSUME CopyCore, NEW w \in Workers, FinishCancelled(w) PROVE CopyStep
<1>1. UNCHANGED <<copied, written, writing>> /\ run[w].pc \in AtWork
    BY DEF FinishCancelled, Done, AtWork
<1>2. CASE UNCHANGED <<job, target, flow>> /\ Fails(w)
    BY <1>1, <1>2, FailsIs, PlainMoves
<1>3. CASE /\ Fenced(w, "cleanup") /\ Removed(Media) /\ Removed(Script)
           /\ job' = [job EXCEPT !.status = "cancelled", !.stage = "complete", !.worker = 0]
           /\ RetireCopy /\ Returns(w, "next")
  <2>1. WorkerGoes(w) /\ run'[w].pc = "closed"
      BY <1>3, ReturnsIs
  <2>2. job \in CopyJob /\ job.cancel
      BY <1>3, StoreIs, FencedIs
  <2>3. job' \in CopyJob
      BY <1>3, <2>2 DEF CopyJob, Terminal, CopyStages
  <2>4. /\ job'.worker = 0 /\ job'.cancel = job.cancel /\ job'.status = "cancelled"
        /\ job'.stage = "complete" /\ target' = "deleted"
      BY <1>3, <2>2 DEF CopyJob, RetireCopy
  <2>5. JobOK'
      BY <2>2, <2>4 DEF JobOK
  <2>6. \A o \in CopyObjects : copied[o] = "removed"
      BY <1>3 DEF Removed, CopyObjects
  <2>7. \A o \in CopyObjects : CopiedOK(o)'
      BY <1>1, <2>4, <2>6 DEF CopyCore, CopiedOK, OnRecordOK
  <2> QED
      BY <1>1, <2>1, <2>3, <2>4, <2>5, <2>7, WorkerEnds
<1> QED
    BY <1>2, <1>3 DEF FinishCancelled

LEMMA StopAttemptKeeps == ASSUME CopyCore, NEW w \in Workers, StopAttempt(w) PROVE CopyStep
<1>1. UNCHANGED <<copied, written, writing, target>> /\ run[w].pc \in AtWork
    BY DEF StopAttempt, Rest, AtWork
<1>2. job.worker = w /\ job \in CopyJob /\ WorkerGoes(w) /\ run'[w].pc = "closed"
    BY <1>1, StoreIs, ReturnsIs DEF StopAttempt, CopyCore, WorkerOK
<1>3. PICK b \in BOOLEAN :
         job' = [job EXCEPT !.status = "failed", !.retryable = ~b, !.needs = b,
                            !.worker = 0, !.unconfirmed = FALSE, !.asked = FALSE]
  <2>1. PICK b : b = (job.unconfirmed \/ job.cancel \/ run[w].code = "unknown")
      OBVIOUS
  <2>2. job' = [job EXCEPT !.status = "failed", !.retryable = ~b, !.needs = b,
                           !.worker = 0, !.unconfirmed = FALSE, !.asked = FALSE]
      BY <1>2, <2>1 DEF StopAttempt, Mine
  <2> QED
      BY <2>1, <2>2
<1>4. job' \in CopyJob
    BY <1>2, <1>3 DEF CopyJob
<1>5. /\ job'.worker = 0 /\ job'.cancel = job.cancel /\ job'.status = "failed"
      /\ job'.stage = job.stage /\ job'.receipts = job.receipts
    BY <1>2, <1>3 DEF CopyJob
<1>6. job.status \notin Terminal \cup {"none"}
    BY <1>2, ZeroIsNoWorker DEF CopyCore, JobOK
<1>7. JobOK'
    BY <1>1, <1>5, <1>6 DEF CopyCore, JobOK, Terminal
<1>8. \A o \in CopyObjects : CopiedOK(o)'
    BY <1>1, <1>5 DEF CopyCore, CopiedOK, OnRecordOK
<1>9. target' \in {"none", "copying", "active", "deleted"}
    BY <1>1 DEF CopyCore, CopyTypes, CopyTypeOK
<1> QED
    BY <1>1, <1>2, <1>4, <1>5, <1>7, <1>8, <1>9, WorkerEnds

LEMMA StopFailsKeeps == ASSUME CopyCore, NEW w \in Workers, StopFails(w) PROVE CopyStep
<1>1. UNCHANGED <<job, copied, written, writing, target>> /\ run[w].pc \in AtWork
    BY DEF StopFails, AtWork
<1>2. job.worker = w /\ job \in CopyJob /\ WorkerGoes(w) /\ run'[w].pc = "closed"
    BY <1>1, StoreIs, ReturnsIs DEF StopFails, CopyCore, WorkerOK
<1>3. JobOK' /\ (\A o \in CopyObjects : CopiedOK(o)')
    BY <1>1 DEF CopyCore, JobOK, CopiedOK, OnRecordOK
<1>4. target' \in {"none", "copying", "active", "deleted"}
    BY <1>1 DEF CopyCore, CopyTypes, CopyTypeOK
<1> QED
    BY <1>1, <1>2, <1>3, <1>4, WorkerEnds

(* A worker gets the job. *)
LEMMA ClaimKeeps == ASSUME CopyCore, NEW w \in Workers, Claim(w) PROVE CopyStep
<1>1. UNCHANGED <<copied, written, writing, target>> /\ run[w].pc = "claim"
    BY DEF Claim, Rest
<1>2. job.worker # w
    BY <1>1, NotTheWorker DEF CopyPlaces, AtWork
<1>3. CASE UNCHANGED job /\ Returns(w, "interrupt")
    BY <1>1, <1>2, <1>3, ReturnsIs, RestMoves DEF CopyPlaces, AtWork
<1>4. CASE /\ MayResume(w) \/ MayStart(w)
           /\ job' = [job EXCEPT !.worker = w, !.needs = FALSE, !.asked = FALSE,
                                 !.unconfirmed = FALSE,
                                 !.status = IF job.cancel THEN "cancel_requested" ELSE "running",
                                 !.stage = IF job.cancel THEN "cleanup" ELSE @]
           /\ GoesTo(w, "step")
  <2>1. job.worker = 0 /\ job.status \in {"queued", "cancel_requested", "failed"}
      BY <1>4 DEF MayResume, MayStart
  <2>2. WorkerGoes(w) /\ run'[w].pc = "step"
      BY <1>4, GoesIs DEF CopyPlaces, AtWork
  <2>3. job \in CopyJob
      BY StoreIs
  <2>4. PICK s \in {"cancel_requested", "running"} :
           s = IF job.cancel THEN "cancel_requested" ELSE "running"
      OBVIOUS
  <2>5. PICK g \in CopyStages : g = IF job.cancel THEN "cleanup" ELSE job.stage
      BY <2>3 DEF CopyJob, CopyStages
  <2>6. job' = [job EXCEPT !.worker = w, !.needs = FALSE, !.asked = FALSE,
                           !.unconfirmed = FALSE, !.status = s, !.stage = g]
      BY <1>4, <2>3, <2>4, <2>5 DEF CopyJob
  <2>7. job' \in CopyJob
      BY <2>3, <2>6 DEF CopyJob
  <2>8. /\ job'.worker = w /\ job'.cancel = job.cancel /\ job'.status = s
        /\ job'.stage = g /\ job'.receipts = job.receipts
      BY <2>3, <2>6 DEF CopyJob
  <2>9. JobOK'
      BY <1>1, <2>1, <2>4, <2>5, <2>8 DEF CopyCore, JobOK, Terminal
  <2>10. \A o \in CopyObjects : CopiedOK(o)'
      BY <1>1, <2>4, <2>8 DEF CopyCore, CopiedOK, OnRecordOK
  <2>11. WorkerOK(w)'
      BY <2>2, <2>8 DEF WorkerOK, AtWork
  <2>12. \A v \in Workers \ {w} : WorkerOK(v)'
      <3>1. ASSUME NEW v \in Workers \ {w} PROVE run[v].pc \notin AtWork
          BY <2>1, ZeroIsNoWorker DEF CopyCore, WorkerOK
      <3> QED
          BY <2>2, <2>8, <3>1 DEF WorkerOK, WorkerGoes, AtWork
  <2>13. job'.worker \in 0 .. MaxWorkers
      BY <2>8, CopyAssumption DEF Workers
  <2>14. CopyCore'
      BY <1>1, <2>2, <2>7, <2>9, <2>10, <2>11, <2>12, <2>13
      DEF CopyCore, CopyTypes, CopyTypeOK, WorkerGoes
  <2>15. CopyHolders = {}
      BY <2>1, ZeroIsNoWorker, HoldersAre DEF Fencing
  <2>16. (CopyHolders = Fencing)'
      BY <2>14, HoldersAre, PTL
  <2>17. CopyHolders' = {w}
      BY <2>2, <2>8, <2>16 DEF Fencing
  <2>18. ~CopyEnded /\ CopyEnded' = CopyEnded
      BY <2>1, <2>4, <2>8 DEF CopyEnded, Terminal
  <2>19. CopyWork!Begin
      BY <2>15, <2>17, <2>18 DEF CopyWork!Begin
  <2> QED
      BY <2>8, <2>14, <2>19 DEF CopyStep, CopyFollows, CopyWork!Next
<1> QED
    BY <1>3, <1>4 DEF Claim

LEMMA RemoveUnlessKeeps ==
    ASSUME CopyCore, NEW w \in Workers, NEW s \in {Media, Script}, RemoveUnless(w, s, Absent)
    PROVE CopyStep
<1>1. UNCHANGED <<job, target, writing>> /\ run[w].pc \in AtWork
    BY DEF RemoveUnless, ByWorker, More, AtWork
<1>2. PICK o \in CopyObjects : o = Part(w, Owned)
    BY DEF RemoveUnless, CopyObjects
<1>3. CASE (Fails(w) \/ Unknown(w)) /\ UNCHANGED <<copied, written>>
    BY <1>1, <1>3, FailsIs, UnknownIs, PlainMoves
<1>4. CASE /\ Fenced(w, "cleanup") /\ o \notin Absent
           /\ written' = written \ {o} /\ copied' = [copied EXCEPT ![o] = "removed"]
           /\ Following(w, "cleanup")
  <2>1. WorkerGoes(w) /\ run'[w].pc = "cleanup" /\ run'[w].k # 0
      BY <1>4, FollowingIs DEF CopyPlaces, AtWork
  <2>2. /\ copied' \in [CopyObjects -> CopyMarks] /\ copied'[o] = "removed"
        /\ \A p \in CopyObjects \ {o} : copied'[p] = copied[p]
      BY <1>4, Marks DEF CopyMarks
  <2>3. job.worker = w /\ job.cancel
      BY <1>4, FencedIs
  <2>4. OnRecordOK(o)
      BY DEF CopyCore, CopiedOK
  <2>5. o \in Elements(Media) => o \notin writing
      BY <1>4, <2>4 DEF OnRecordOK, Absent
  <2>6. OnRecordOK(o)'
      BY <1>1, <1>4, <2>2, <2>5 DEF OnRecordOK
  <2>7. \A p \in CopyObjects : CopiedOK(p)'
      BY <1>1, <1>4, <2>2, <2>3, <2>6, OneObject
  <2>8. WorkerOK(w)'
      BY <1>1, <2>1, <2>3 DEF WorkerOK, AtWork
  <2> QED
      BY <1>1, <1>4, <2>1, <2>2, <2>7, <2>8, StoreIs, WorkerMoves DEF CopyMarks, AtWork
<1> QED
    BY <1>2, <1>3, <1>4 DEF RemoveUnless

LEMMA RemovalsKeep ==
    ASSUME CopyCore, NEW w \in Workers, RemoveMedia(w) \/ RemoveScript(w) PROVE CopyStep
BY RemoveUnlessKeeps DEF RemoveMedia, RemoveScript

LEMMA ReceiptLostKeeps == ASSUME CopyCore, NEW w \in Workers, ReceiptLost(w) PROVE CopyStep
<1>1. UNCHANGED <<job, target, writing>> /\ run[w].pc \in AtWork /\ Fenced(w, "cleanup")
    BY DEF ReceiptLost, ByWorker, More, AtWork
<1>2. PICK o \in CopyObjects : o = Part(w, Owned) /\ o \in written
    BY StoreIs DEF ReceiptLost
<1>3. WorkerGoes(w) /\ run'[w].pc = "failing"
    BY FailsIs DEF ReceiptLost
<1>4. PICK m \in CopyMarks :
         m = IF o \in Elements(Script) /\ copied[o] # "removed" THEN "verified" ELSE copied[o]
    BY StoreIs DEF CopyMarks
<1>5. written' = written \ {o} /\ copied' = [copied EXCEPT ![o] = m]
    BY <1>2, <1>4, StoreIs DEF ReceiptLost
<1>6. /\ copied' \in [CopyObjects -> CopyMarks] /\ copied'[o] = m
      /\ \A p \in CopyObjects \ {o} : copied'[p] = copied[p]
    BY <1>5, Marks
<1>7. job.worker = w /\ job.cancel
    BY <1>1, FencedIs
<1>8. OnRecordOK(o)
    BY DEF CopyCore, CopiedOK
<1>9. OnRecordOK(o)'
    BY <1>1, <1>2, <1>5, <1>7, <1>8 DEF OnRecordOK
<1>10. \A p \in CopyObjects : CopiedOK(p)'
    BY <1>1, <1>5, <1>6, <1>7, <1>9, OneObject
<1>11. WorkerOK(w)'
    BY <1>1, <1>3, <1>7 DEF WorkerOK, AtWork
<1> QED
    BY <1>1, <1>3, <1>5, <1>6, <1>10, <1>11, StoreIs, WorkerMoves DEF CopyMarks, AtWork

(* An unanswered write takes effect, or never will. *)
LEMMA WriteLandsKeeps == ASSUME CopyCore, NEW o \in CopyObjects, WriteLands(o) PROVE CopyStep
<1>1. UNCHANGED <<job, target, run, copied>> /\ o \in writing /\ writing' = writing \ {o}
    BY DEF WriteLands
<1>2. written' = written \/ written' = written \cup {o}
    BY DEF WriteLands
<1>3. ASSUME NEW p \in CopyObjects PROVE CopiedOK(p)'
    BY <1>1, <1>2, <1>3 DEF CopyCore, CopiedOK, OnRecordOK
<1>4. ASSUME NEW w \in Workers PROVE WorkerOK(w)'
  <2>1. WorkerOK(w)
      BY DEF CopyCore
  <2>2. Current' = Current
      BY <1>1 DEF Current
  <2>3. written \subseteq written' /\ written' \cup writing' \subseteq written \cup writing
      BY <1>1, <1>2
  <2> QED
      BY <1>1, <2>1, <2>2, <2>3 DEF WorkerOK
<1>5. CopyTypes' /\ JobOK'
    BY <1>1, <1>2 DEF CopyCore, CopyTypes, CopyTypeOK, JobOK
<1>6. CopyCore'
    BY <1>3, <1>4, <1>5 DEF CopyCore
<1>7. CopyEnded' = CopyEnded
    BY <1>1 DEF CopyEnded
<1> QED
    BY <1>1, <1>6, <1>7, SameHolders DEF CopyStep

(* What a user or the workflow does to the job leaves its worker alone. *)
LEMMA JobMoves ==
    ASSUME CopyCore, UNCHANGED <<written, writing, run>>,
           copied' = copied \/ job.worker = 0, copied' \in [CopyObjects -> CopyMarks],
           target' \in {"none", "copying", "active", "deleted"},
           job' \in CopyJob, job'.worker = job.worker, job'.receipts = job.receipts,
           job.cancel => job'.cancel, CopyEnded' = CopyEnded, JobOK',
           \A o \in CopyObjects : CopiedOK(o)'
    PROVE CopyStep
<1>1. Current' = Current
    BY DEF Current
<1>2. ASSUME NEW w \in Workers PROVE WorkerOK(w)'
  <2>1. WorkerOK(w)
      BY DEF CopyCore
  <2>2. CASE copied' = copied
      BY <1>1, <2>1, <2>2 DEF WorkerOK
  <2>3. CASE job.worker = 0
      BY <2>1, <2>3, ZeroIsNoWorker DEF WorkerOK, AtWork
  <2> QED
      BY <2>2, <2>3
<1>3. CopyCore'
    BY <1>2 DEF CopyCore, CopyTypes, CopyTypeOK, CopyMarks
<1> QED
    BY <1>3, SameHolders DEF CopyStep

LEMMA CreateCopyKeeps == ASSUME CopyCore, NEW u \in Users, CreateCopy(u) PROVE CopyStep
<1>1. UNCHANGED <<written, writing, run>> /\ job.status = "none" /\ target' = "copying"
    BY DEF CreateCopy
<1>2. job.worker = 0
    BY <1>1 DEF CopyCore, JobOK
<1>3. job \in CopyJob /\ job' = [job EXCEPT !.status = "queued", !.actor = u]
    BY StoreIs DEF CreateCopy
<1>4. /\ job' \in CopyJob /\ job'.status = "queued" /\ job'.stage = job.stage
      /\ job'.worker = job.worker /\ job'.cancel = job.cancel /\ job'.receipts = job.receipts
    BY <1>3 DEF CopyJob
<1>5. CopyObjects = FreezeMedia \cup FreezeScript
    BY DEF CopyObjects, FreezeMedia, FreezeScript
<1>6. copied' = [o \in CopyObjects |-> "pending"]
    BY <1>5 DEF CreateCopy
<1>7. ASSUME NEW o \in CopyObjects PROVE CopiedOK(o)'
  <2>1. CopiedOK(o)
      BY DEF CopyCore
  <2>2. o \in Elements(Media) => o \notin written \cup writing
      BY <1>1, <2>1 DEF CopiedOK, OnRecordOK
  <2> QED
      BY <1>1, <1>4, <1>6, <2>2 DEF CopiedOK, OnRecordOK
<1>8. JobOK'
    BY <1>1, <1>2, <1>4 DEF CopyCore, JobOK
<1>9. CopyEnded' = CopyEnded
    BY <1>1, <1>4 DEF CopyEnded, Terminal
<1>10. copied' \in [CopyObjects -> CopyMarks]
    BY <1>6 DEF CopyMarks
<1> QED
    BY <1>1, <1>2, <1>4, <1>7, <1>8, <1>9, <1>10, JobMoves

(* The same, when nothing but the job changes. *)
LEMMA JobOnly ==
    ASSUME CopyCore, UNCHANGED <<copied, target, written, writing, run>>,
           job' \in CopyJob, job'.worker = job.worker, job'.receipts = job.receipts,
           job.cancel => job'.cancel, JobOK', job'.status \notin {"none", "succeeded", "cancelled"},
           job.status \notin {"none", "succeeded", "cancelled"}
    PROVE CopyStep
<1>1. CopyEnded' = CopyEnded
    BY DEF CopyEnded, Terminal
<1>2. \A o \in CopyObjects : CopiedOK(o)'
    BY DEF CopyCore, CopiedOK, OnRecordOK
<1>3. target' \in {"none", "copying", "active", "deleted"} /\ copied' \in [CopyObjects -> CopyMarks]
    BY StoreIs DEF CopyCore, CopyTypes, CopyTypeOK
<1> QED
    BY <1>1, <1>2, <1>3, JobMoves

LEMMA RequestCancelByKeeps == ASSUME CopyCore, NEW u \in Users, RequestCancelBy(u) PROVE CopyStep
<1>1. /\ UNCHANGED <<copied, target, written, writing, run>>
      /\ job.status \notin {"none", "succeeded", "cancelled"}
    BY DEF RequestCancelBy, ByUser, Terminal
<1>2. job \in CopyJob
    BY StoreIs
<1>3. CASE job' = [job EXCEPT !.actor = u]
  <2>1. /\ job' \in CopyJob /\ job'.status = job.status /\ job'.stage = job.stage
        /\ job'.worker = job.worker /\ job'.cancel = job.cancel /\ job'.receipts = job.receipts
      BY <1>2, <1>3 DEF CopyJob
  <2>2. JobOK'
      BY <1>1, <2>1 DEF CopyCore, JobOK
  <2> QED
      BY <1>1, <2>1, <2>2, JobOnly
<1>4. CASE job' = CancelledBy(u)
  <2>1. PICK s : s = IF job.needs THEN job.status ELSE "cancel_requested"
      OBVIOUS
  <2>2. job' = [job EXCEPT !.cancel = TRUE, !.stage = "cleanup", !.retryable = FALSE,
                           !.status = s, !.actor = u]
      BY <1>2, <1>4, <2>1 DEF CancelledBy, CopyJob
  <2>3. /\ s \in Terminal \cup {"none", "queued", "running", "cancel_requested", "failed"}
        /\ s \notin {"none", "succeeded", "cancelled"}
      BY <1>1, <1>2, <2>1 DEF CopyJob
  <2>4. job' \in CopyJob
      BY <1>2, <2>2, <2>3 DEF CopyJob, CopyStages
  <2>5. /\ job'.status = s /\ job'.stage = "cleanup" /\ job'.worker = job.worker
        /\ job'.cancel = TRUE /\ job'.receipts = job.receipts
      BY <1>2, <2>2 DEF CopyJob
  <2>6. JobOK'
      BY <1>1, <2>3, <2>5 DEF CopyCore, JobOK, Terminal
  <2> QED
      BY <1>1, <2>3, <2>4, <2>5, <2>6, JobOnly
<1> QED
    BY <1>3, <1>4 DEF RequestCancelBy

LEMMA RetryKeeps == ASSUME CopyCore, NEW u \in Users, Retry(u) PROVE CopyStep
<1>1. /\ UNCHANGED <<copied, target, written, writing, run>> /\ job.status = "failed"
      /\ job' = [job EXCEPT !.status = "queued", !.retryable = FALSE] /\ job \in CopyJob
    BY StoreIs DEF Retry, ByUser
<1>2. /\ job' \in CopyJob /\ job'.status = "queued" /\ job'.stage = job.stage
      /\ job'.worker = job.worker /\ job'.cancel = job.cancel /\ job'.receipts = job.receipts
    BY <1>1 DEF CopyJob
<1>3. JobOK'
    BY <1>1, <1>2 DEF CopyCore, JobOK, Terminal
<1> QED
    BY <1>1, <1>2, <1>3, JobOnly

LEMMA RequestReconciliationKeeps ==
    ASSUME CopyCore, NEW u \in Users, RequestReconciliation(u) PROVE CopyStep
<1>1. /\ UNCHANGED <<copied, target, written, writing, run>> /\ job.status = "failed"
      /\ job' = [job EXCEPT !.asked = TRUE, !.actor = u] /\ job \in CopyJob
    BY StoreIs DEF RequestReconciliation, ByUser
<1>2. /\ job' \in CopyJob /\ job'.status = "failed" /\ job'.stage = job.stage
      /\ job'.worker = job.worker /\ job'.cancel = job.cancel /\ job'.receipts = job.receipts
    BY <1>1 DEF CopyJob
<1>3. JobOK'
    BY <1>1, <1>2 DEF CopyCore, JobOK, Terminal
<1> QED
    BY <1>1, <1>2, <1>3, JobOnly

(* Steps that touch neither job nor worker *)
LEMMA CopyStays ==
    ASSUME CopyCore, UNCHANGED <<job, copied, target, written, writing, run>> PROVE CopyStep
<1>1. JobOK' /\ (\A o \in CopyObjects : CopiedOK(o)') /\ CopyEnded' = CopyEnded
    BY DEF CopyCore, JobOK, CopiedOK, OnRecordOK, CopyEnded
<1>2. target' \in {"none", "copying", "active", "deleted"}
    BY DEF CopyCore, CopyTypes, CopyTypeOK
<1> QED
    BY <1>1, <1>2, StoreIs, JobMoves

LEMMA ExecuteKeeps ==
    ASSUME CopyCore, UNCHANGED <<job, copied, target, written, writing>>, Execute
    PROVE CopyStep
<1>1. PICK w \in Workers : Unused(w) /\ run' = [run EXCEPT ![w].pc = "find"]
    BY DEF Execute
<1>2. job.worker # w
    BY <1>1, NotTheWorker DEF Unused, CopyPlaces, AtWork
<1>3. WorkerGoes(w) /\ run'[w].pc = "find"
    BY <1>1, GoesIs DEF GoesTo, CopyPlaces
<1> QED
    BY <1>2, <1>3, RestMoves DEF CopyPlaces, AtWork

LEMMA InterruptKeeps == ASSUME CopyCore, Interrupt PROVE CopyStep
<1>1. UNCHANGED <<copied, target, written, writing, run>> /\ job \in CopyJob
    BY StoreIs DEF Interrupt
<1>2. CASE job' = job
    BY <1>1, <1>2, CopyStays
<1>3. CASE /\ job.status \in {"running", "cancel_requested"}
           /\ job' = [job EXCEPT !.status = "failed", !.retryable = FALSE, !.needs = TRUE,
                                 !.unconfirmed = TRUE]
  <2>1. /\ job' \in CopyJob /\ job'.status = "failed" /\ job'.stage = job.stage
        /\ job'.worker = job.worker /\ job'.cancel = job.cancel /\ job'.receipts = job.receipts
      BY <1>1, <1>3 DEF CopyJob
  <2>2. JobOK'
      BY <1>1, <1>3, <2>1 DEF CopyCore, JobOK, Terminal
  <2> QED
      BY <1>1, <1>3, <2>1, <2>2, JobOnly
<1> QED
    BY <1>2, <1>3 DEF Interrupt

LEMMA FlowKeeps ==
    ASSUME CopyCore, Deliver \/ Continue \/ Timeout \/ Interrupt \/ InterruptFails PROVE CopyStep
<1>1. CASE Deliver
    BY <1>1, ExecuteKeeps, CopyStays DEF Deliver, ByFlow
<1>2. CASE Continue
    BY <1>2, ExecuteKeeps, CopyStays DEF Continue, ByFlow
<1>3. CASE Timeout \/ InterruptFails
    BY <1>3, CopyStays DEF Timeout, InterruptFails, ByFlow
<1> QED
    BY <1>1, <1>2, <1>3, InterruptKeeps

LEMMA WorkerKeeps ==
    ASSUME CopyCore, NEW w \in Workers,
           \/ WorkerStep(w) \/ PutUnanswered(w) \/ ReceiptLost(w) \/ StopFails(w)
           \/ WorkerFails(w) \/ Stopped(w) \/ WorkerDies(w)
    PROVE CopyStep
<1>1. CASE Find(w) \/ Claim(w) \/ NextStep(w) \/ Failing(w) \/ WorkerFails(w) \/ Stopped(w)
    BY <1>1, FindKeeps, ClaimKeeps, NextStepKeeps, FailingKeeps, WorkerFailsKeeps, StoppedKeeps
<1>2. CASE TransferObject(w) \/ BeginObject(w) \/ PutObject(w) \/ PutUnanswered(w) \/ ConfirmObject(w)
    BY <1>2, TransferObjectKeeps, BeginObjectKeeps, PutObjectKeeps, PutUnansweredKeeps,
       ConfirmObjectKeeps
<1>3. CASE CompleteMedia(w) \/ CompleteBible(w) \/ CompleteScript(w) \/ CompleteCanvases(w)
    BY <1>3, CompleteKeeps
<1>4. CASE RemoveMedia(w) \/ RemoveScript(w) \/ ReceiptLost(w)
    BY <1>4, RemovalsKeep, ReceiptLostKeeps
<1>5. CASE Publish(w) \/ FinishCancelled(w) \/ StopAttempt(w) \/ StopFails(w) \/ WorkerDies(w)
    BY <1>5, PublishKeeps, FinishCancelledKeeps, StopAttemptKeeps, StopFailsKeeps, WorkerDiesKeeps
<1> QED
    BY <1>1, <1>2, <1>3, <1>4, <1>5 DEF WorkerStep

LEMMA CopyMoves == ASSUME CopyCore, [CopyNext]_copyVars PROVE CopyStep
<1>1. ASSUME NEW u \in Users, Command(u) PROVE CopyStep
    BY <1>1, CreateCopyKeeps, RequestCancelByKeeps, RetryKeeps, RequestReconciliationKeeps
    DEF Command
<1>2. CASE UNCHANGED copyVars
    BY <1>2, CopyStays DEF copyVars
<1> QED
    BY <1>1, <1>2, FlowKeeps, WorkerKeeps, WriteLandsKeeps DEF CopyNext

-----------------------------------------------------------------------------
(* The workflow and the counters *)

LEMMA FaultCounts == ASSUME CopyTraffic, CopyFault PROVE copyFaults' \in 0 .. MaxCopyFaults
<1>1. PICK n \in Nat : n = copyFaults /\ n < MaxCopyFaults
    BY DEF CopyTraffic, CopyFault
<1>2. copyFaults' = n + 1
    BY <1>1 DEF CopyFault
<1> QED
    BY <1>1, <1>2, CopyAssumption

LEMMA AcceptCounts == ASSUME CopyTraffic, Accept PROVE commands' \in 0 .. MaxCommands
<1>1. PICK n \in Nat : n = commands /\ n < MaxCommands
    BY DEF CopyTraffic, Accept
<1>2. commands' = n + 1
    BY <1>1 DEF Accept
<1> QED
    BY <1>1, <1>2, CopyAssumption

LEMMA ReturnsFlow ==
    ASSUME flow \in CopyFlow, NEW w \in Workers, NEW to \in {"next", "interrupt"}, Returns(w, to)
    PROVE flow' \in CopyFlow
BY DEF Returns, CopyFlow

LEMMA ExecuteFlow == ASSUME Execute PROVE flow' \in CopyFlow
BY DEF Execute, CopyFlow

LEMMA CommandTraffic == ASSUME CopyTraffic, NEW u \in Users, Command(u) PROVE CopyTraffic'
<1>1. Accept /\ Request /\ UNCHANGED <<flow, copyFaults>>
    BY DEF Command, CreateCopy, RequestCancelBy, Retry, RequestReconciliation, ByUser
<1>2. events' \in Nat
    BY <1>1 DEF CopyTraffic, Request
<1> QED
    BY <1>1, <1>2, AcceptCounts DEF CopyTraffic

LEMMA FlowTraffic ==
    ASSUME CopyTraffic, Deliver \/ Continue \/ Timeout \/ Interrupt \/ InterruptFails
    PROVE CopyTraffic'
<1>1. commands' = commands
    BY DEF Deliver, Continue, Timeout, Interrupt, InterruptFails, ByFlow
<1>2. copyFaults' \in 0 .. MaxCopyFaults
    BY FaultCounts DEF Deliver, Continue, Timeout, Interrupt, InterruptFails, CopyTraffic
<1>3. events' \in Nat
  <2>1. events' = events \/ (events > 0 /\ events' = events - 1)
      BY DEF Deliver, Continue, Timeout, Interrupt, InterruptFails
  <2> QED
      BY <2>1 DEF CopyTraffic
<1>4. flow' \in CopyFlow
  <2>1. flow \in CopyFlow
      BY DEF CopyTraffic
  <2>2. CASE Deliver
      BY <2>1, <2>2, ExecuteFlow DEF Deliver, CopyFlow
  <2>3. CASE Continue
    <3>1. CASE flow' = [pc |-> "ended", worker |-> 0, pending |-> FALSE]
        BY <3>1 DEF CopyFlow
    <3>2. CASE flow' = [pc |-> "wait", worker |-> 0, pending |-> FALSE]
        BY <3>2 DEF CopyFlow
    <3> QED
        BY <2>3, <3>1, <3>2, ExecuteFlow DEF Continue
  <2>4. CASE Timeout
      BY <2>1, <2>4 DEF Timeout, CopyFlow
  <2>5. CASE Interrupt
      BY <2>1, <2>5 DEF Interrupt, CopyFlow
  <2>6. CASE InterruptFails
      BY <2>6 DEF InterruptFails, CopyFlow
  <2> QED
      BY <2>2, <2>3, <2>4, <2>5, <2>6
<1> QED
    BY <1>1, <1>2, <1>3, <1>4 DEF CopyTraffic

(* The steps of a worker, by what they do to the workflow and the counters *)
LEMMA QuietTraffic ==
    ASSUME CopyTraffic, UNCHANGED <<events, commands>>,
           UNCHANGED flow \/ (\E w \in Workers, to \in {"next", "interrupt"} : Returns(w, to)),
           UNCHANGED copyFaults \/ CopyFault
    PROVE CopyTraffic'
<1>1. flow' \in CopyFlow
    BY ReturnsFlow DEF CopyTraffic
<1>2. copyFaults' \in 0 .. MaxCopyFaults
    BY FaultCounts DEF CopyTraffic
<1> QED
    BY <1>1, <1>2 DEF CopyTraffic

LEMMA WorkerTraffic ==
    ASSUME CopyTraffic, NEW w \in Workers,
           \/ WorkerStep(w) \/ PutUnanswered(w) \/ ReceiptLost(w) \/ StopFails(w)
           \/ WorkerFails(w) \/ Stopped(w) \/ WorkerDies(w)
    PROVE CopyTraffic'
<1>1. CASE Find(w) \/ Claim(w) \/ NextStep(w) \/ Failing(w) \/ Stopped(w)
    BY <1>1, QuietTraffic DEF Find, Claim, NextStep, Failing, Stopped, Rest
<1>2. CASE TransferObject(w) \/ BeginObject(w) \/ PutObject(w) \/ ConfirmObject(w)
    BY <1>2, QuietTraffic DEF TransferObject, BeginObject, PutObject, ConfirmObject, Rest, ByWorker
<1>3. CASE CompleteMedia(w) \/ CompleteBible(w) \/ CompleteScript(w) \/ CompleteCanvases(w)
    BY <1>3, QuietTraffic
    DEF CompleteMedia, CompleteBible, CompleteScript, CompleteCanvases, Advance, ByWorker
<1>4. CASE RemoveMedia(w) \/ RemoveScript(w)
    BY <1>4, QuietTraffic DEF RemoveMedia, RemoveScript, RemoveUnless, ByWorker
<1>5. CASE Publish(w) \/ FinishCancelled(w) \/ StopAttempt(w) \/ StopFails(w)
    BY <1>5, QuietTraffic DEF Publish, FinishCancelled, StopAttempt, StopFails, Rest
<1>6. CASE PutUnanswered(w) \/ ReceiptLost(w) \/ WorkerFails(w) \/ WorkerDies(w)
    BY <1>6, QuietTraffic DEF PutUnanswered, ReceiptLost, WorkerFails, WorkerDies, ByWorker
<1> QED
    BY <1>1, <1>2, <1>3, <1>4, <1>5, <1>6 DEF WorkerStep

LEMMA TrafficMoves == ASSUME CopyTraffic, [CopyNext]_copyVars PROVE CopyTraffic'
<1>1. CASE UNCHANGED copyVars
    BY <1>1 DEF copyVars, CopyTraffic
<1>2. ASSUME NEW o \in CopyObjects, WriteLands(o) PROVE CopyTraffic'
    BY <1>2, QuietTraffic DEF WriteLands
<1> QED
    BY <1>1, <1>2, CommandTraffic, FlowTraffic, WorkerTraffic DEF CopyNext

-----------------------------------------------------------------------------
(* What the copy of a project promises *)

LEMMA CopyBegins == CopyInit => CopyInv /\ CopyWork!Init
<1> SUFFICES ASSUME CopyInit PROVE CopyInv /\ CopyWork!Init
    OBVIOUS
<1>1. run = [w \in Workers |-> NoRun] /\ NoRun \in CopyRun
    BY DEF CopyInit, NoRun, CopyRun, CopyPlaces
<1>2. run \in [Workers -> CopyRun] /\ \A w \in Workers : run[w].pc = "none"
    BY <1>1 DEF NoRun
<1>3. job \in CopyJob
    BY DEF CopyInit, CopyJob, CopyStages
<1>4. /\ job.status = "none" /\ job.worker = 0 /\ job.stage = "media" /\ ~job.cancel
      /\ job.receipts = {} /\ target = "none"
    BY DEF CopyInit
<1>5. CopyTypes
    BY <1>2, <1>3, <1>4, CopyAssumption DEF CopyInit, CopyTypes, CopyTypeOK
<1>6. JobOK
    BY <1>4 DEF JobOK
<1>7. \A w \in Workers : WorkerOK(w)
    BY <1>2, <1>4, ZeroIsNoWorker DEF WorkerOK, AtWork
<1>8. \A o \in CopyObjects : CopiedOK(o)
    BY <1>4 DEF CopyInit, CopiedOK, OnRecordOK
<1>9. CopyTraffic
    BY CopyAssumption DEF CopyInit, CopyTraffic, CopyFlow
<1>10. CopyHolders = {}
    BY <1>2 DEF CopyHolders, AtWork
<1>11. CopyEnded = FALSE
    BY <1>4 DEF CopyEnded, Terminal
<1> QED
    BY <1>5, <1>6, <1>7, <1>8, <1>9, <1>10, <1>11 DEF CopyInv, CopyCore, CopyWork!Init

LEMMA CopyGoesOn ==
    CopyInv /\ [CopyNext]_copyVars
      => CopyInv' /\ [CancelKept]_copyVars /\ [CopyWork!Next]_<<CopyHolders, CopyEnded>>
<1> SUFFICES ASSUME CopyInv, [CopyNext]_copyVars
             PROVE CopyInv' /\ CancelKept /\ CopyFollows
    BY DEF CopyFollows
<1>1. CopyStep
    BY CopyMoves DEF CopyInv
<1>2. CopyInv'
    BY <1>1, TrafficMoves DEF CopyInv, CopyStep
<1>3. CancelKept
    BY <1>1 DEF CopyStep, CopyCore, JobOK, CancelKept
<1> QED
    BY <1>1, <1>2, <1>3 DEF CopyStep

LEMMA CopyIsSound == CopyInv => CopyShownWhole /\ CopyCancelledClean
<1> SUFFICES ASSUME CopyInv PROVE CopyShownWhole /\ CopyCancelledClean
    OBVIOUS
<1>1. JobOK /\ \A o \in CopyObjects : CopiedOK(o)
    BY DEF CopyInv, CopyCore
<1>2. CopyShownWhole
    BY <1>1 DEF CopyShownWhole, JobOK, CopiedOK, OnRecordOK
<1>3. CopyCancelledClean
  <2> SUFFICES ASSUME target = "deleted"
               PROVE job.status = "cancelled" /\ (written \cup writing) \cap Elements(Media) = {}
      BY DEF CopyCancelledClean
  <2>1. job.status = "cancelled"
      BY <1>1 DEF JobOK
  <2>2. ASSUME NEW o \in Elements(Media) PROVE o \notin written \cup writing
      BY <1>1, <2>1 DEF CopiedOK, OnRecordOK, CopyObjects
  <2> QED
      BY <2>1, <2>2
<1> QED
    BY <1>2, <1>3

(* Types of the job, its objects, its workers and its workflow; a job that   *)
(* has its final result has no worker, only the job's worker is at work, the *)
(* target is what the job's status says, and what a record says of an object *)
(* is true of the storage.                                                   *)
THEOREM CopyTypeCorrect == CopySpec => []CopyInv
BY CopyBegins, CopyGoesOn, PTL DEF CopySpec

(* A copy that is shown is whole; one that was cancelled is never shown and  *)
(* leaves no media behind, not even in a write that is still unanswered      *)
(* (project_copy*.go): CopyHonest.                                           *)
THEOREM CopyIsHonest == CopySpec => CopyHonest
BY CopyBegins, CopyGoesOn, CopyIsSound, PTL DEF CopySpec, CopyHonest

(* The executions of a copy's activity are the processes of PhysicalWork     *)
(* (Claim, StopAttempt, Interrupt): the next works only when the last is     *)
(* known to have stopped, none after the final result.                       *)
THEOREM CopyOneWorkerAtATime == CopySpec => OneCopierAtATime
<1>1. CopyInv /\ [CopyNext]_copyVars => CopyInv' /\ [CopyWork!Next]_<<CopyHolders, CopyEnded>>
    BY CopyGoesOn
<1> QED
    BY <1>1, CopyBegins, PTL DEF CopySpec, OneCopierAtATime, CopyWork!Spec

=============================================================================
