---------------------------- MODULE ScriptSource ----------------------------
(***************************************************************************)
(* The drafts of a project's script.  A request to change the sources is   *)
(* frozen under its key, its objects are written outside any transaction,  *)
(* and one more transaction publishes the new version and moves the head.  *)
(* A request whose outcome is unknown stays pending and keeps the project  *)
(* to itself: the same request may be sent again, or a control cancels it  *)
(* and removes what it wrote, once the call that wrote it has returned.    *)
(***************************************************************************)
EXTENDS Naturals, FiniteSets

CONSTANTS
    Keys,           \* requests; a request also names the source and version it makes
    Parts,          \* number of objects of a new version
    MaxCalls,       \* bound: calls at the same time
    MaxControls,    \* bound: controls at the same time
    MaxFaults       \* bound: lost calls and crashes

VARIABLES
    head,       \* script.project_state
    version,    \* [Keys -> row of script.script_version]
    request,    \* [Keys -> what the user asks for, as of what the user has read]
    write,      \* [Keys -> script.command_state]
    object,     \* [Keys -> [parts -> script.object_state]]
    stored,     \* objects whose bytes are in object storage
    late,       \* unanswered writes that may still take effect
    call,       \* [calls -> execution of SourceService.Write]
    control,    \* [controls -> execution of SourceRecovery.Control]
    faults      \* number of faults so far

vars == <<head, version, request, write, object, stored, late, call, control, faults>>

Calls == 1 .. MaxCalls
Controls == 1 .. MaxControls
Objects == 1 .. Parts
None == "none"

(* "none" is the mark of what is not there; a version has an object.        *)
ASSUME SourceAssumption ==
    /\ IsFiniteSet(Keys) /\ None \notin Keys
    /\ Parts \in Nat \ {0}
    /\ MaxCalls \in Nat /\ MaxControls \in Nat /\ MaxFaults \in Nat

NoVersion == [no |-> 0, sources |-> {}]
NoRequest == [action |-> "none"]
NoWrite == [status |-> "none", of |-> None, no |-> 0, cancel |-> FALSE, needs |-> FALSE,
            io |-> "idle", owner |-> 0]
NoCall == [pc |-> "none", key |-> None, part |-> 0, stopped |-> FALSE, complete |-> FALSE]
NoControl == [pc |-> "none", key |-> None, owner |-> 0, part |-> 0, seen |-> <<>>]

Init ==
    /\ head = [revision |-> 0, draft |-> None]
    /\ version = [k \in Keys |-> NoVersion]
    /\ request = [k \in Keys |-> NoRequest]
    /\ write = [k \in Keys |-> NoWrite]
    /\ object = [k \in Keys |-> [o \in Objects |-> "none"]]
    /\ stored = {} /\ late = {}
    /\ call = [c \in Calls |-> NoCall]
    /\ control = [d \in Controls |-> NoControl]
    /\ faults = 0

Fault == faults < MaxFaults /\ faults' = faults + 1
Content == <<head, version>>
Bytes == <<stored, late>>

-----------------------------------------------------------------------------
(* The user's requests *)

Sources(v) == IF v = None THEN {} ELSE version[v].sources

Send(k) ==
    /\ request[k] = NoRequest
    /\ \E a \in {"create", "reorder", "delete"}, s \in Sources(head.draft) \cup {None} :
          /\ (a = "delete") <=> (s # None)
          /\ request' = [request EXCEPT ![k] = [action |-> a, source |-> s,
                            expected |-> head.revision, base |-> head.draft]]
    /\ UNCHANGED <<Content, write, object, Bytes, call, control, faults>>

(* The sources of the new version; what is only put in another order here   *)
(* is in the order it had.                                                  *)
Manifest(k) ==
    LET b == Sources(request[k].base) IN
    IF request[k].action = "create" THEN b \cup {k} ELSE b \ {request[k].source}

(* A request may be sent while an earlier call for it still runs.  Each call *)
(* owns its claim under an identity of its own.                             *)
Call(c, k) ==
    /\ call[c] = NoCall /\ \A d \in Controls : control[d].owner # c
    /\ request[k] # NoRequest
    /\ call' = [call EXCEPT ![c] = [NoCall EXCEPT !.pc = "begin", !.key = k]]
    /\ UNCHANGED <<Content, request, write, object, Bytes, control, faults>>

-----------------------------------------------------------------------------
(* A call *)

Go(c, to) == call' = [call EXCEPT ![c].pc = to]

(* The call returns, and whoever waited for it goes on. *)
Return(c) ==
    /\ call' = [call EXCEPT ![c] = NoCall]
    /\ control' = [d \in Controls |-> IF control[d].pc = "join" /\ control[d].owner = c
                                        THEN [control[d] EXCEPT !.pc = "prove"] ELSE control[d]]

CheckHead(k) == head.revision = request[k].expected /\ head.draft = request[k].base
RejectPending == \A j \in Keys : write[j].status # "pending"
Versions == {v \in Keys : version[v].no > 0}

(* A version that has the same sources is taken again. *)
VersionOf(k) == IF \E v \in Versions : version[v].sources = Manifest(k)
                  THEN CHOOSE v \in Versions : version[v].sources = Manifest(k)
                  ELSE k

Admit(c, k, free) ==
    IF write[k].status = "none" /\ CheckHead(k) /\ free
      THEN /\ write' = [write EXCEPT ![k] = [NoWrite EXCEPT !.status = "pending",
                                 !.of = VersionOf(k), !.no = Cardinality(Versions) + 1]]
           /\ Go(c, IF VersionOf(k) = k THEN "claim" ELSE "reuse") /\ UNCHANGED control
    ELSE IF write[k].status \in {"none", "completed"}
      THEN Return(c) /\ UNCHANGED write
    ELSE Go(c, IF write[k].of = k THEN "claim" ELSE "reuse") /\ UNCHANGED <<write, control>>

BeginBeside(c) ==
    /\ call[c].pc = "begin" /\ Admit(c, call[c].key, TRUE)
    /\ UNCHANGED <<Content, request, object, Bytes, faults>>
BeginWrite(c) ==
    /\ call[c].pc = "begin" /\ Admit(c, call[c].key, RejectPending)
    /\ UNCHANGED <<Content, request, object, Bytes, faults>>

Pending(k) == write[k].status = "pending" /\ ~write[k].cancel
Moved(v) == [revision |-> head.revision + 1, draft |-> v]

FinishReused(c) ==
    /\ call[c].pc = "reuse"
    /\ LET k == call[c].key IN
       IF Pending(k) /\ write[k].io = "idle" /\ CheckHead(k)
         THEN /\ head' = IF head.draft = write[k].of THEN head ELSE Moved(write[k].of)
              /\ write' = [write EXCEPT ![k].status = "completed"]
         ELSE UNCHANGED <<head, write>>
    /\ Return(c)
    /\ UNCHANGED <<version, request, object, Bytes, faults>>

Taken(c) == [write EXCEPT ![call[c].key].io = "running", ![call[c].key].owner = c]
ClaimRunning(c) ==
    /\ call[c].pc = "claim"
    /\ IF Pending(call[c].key)
         THEN write' = Taken(c) /\ call' = [call EXCEPT ![c].pc = "object", ![c].part = 1]
              /\ UNCHANGED control
         ELSE Return(c) /\ UNCHANGED write
    /\ UNCHANGED <<Content, request, object, Bytes, faults>>
ClaimSourceIO(c) ==
    /\ call[c].pc = "claim"
    /\ IF Pending(call[c].key) /\ write[call[c].key].owner = 0
         THEN write' = Taken(c) /\ call' = [call EXCEPT ![c].pc = "object", ![c].part = 1]
              /\ UNCHANGED control
         ELSE Return(c) /\ UNCHANGED write
    /\ UNCHANGED <<Content, request, object, Bytes, faults>>

(* requireSourceIO *)
Owns(c) == Pending(call[c].key) /\ write[call[c].key].owner = c
State(c) == object[call[c].key][call[c].part]
Set(c, to) == object' = [object EXCEPT ![call[c].key][call[c].part] = to]
Object(c) == <<call[c].key, call[c].part>>

BeginSourceObject(c) ==
    /\ call[c].pc = "object"
    /\ IF Owns(c) /\ State(c) # "removed"
         THEN Set(c, IF State(c) = "none" THEN "started" ELSE State(c)) /\ Go(c, "put")
         ELSE UNCHANGED object /\ Go(c, "exit")
    /\ UNCHANGED <<Content, request, write, Bytes, control, faults>>

Put(c) ==
    /\ call[c].pc = "put"
    /\ stored' = stored \cup {Object(c)}
    /\ Go(c, "confirm")
    /\ UNCHANGED <<Content, request, write, object, late, control, faults>>

(* No answer to the write: it takes effect at any later time, or never. *)
PutUnknown(c) ==
    /\ call[c].pc = "put" /\ Object(c) \notin stored
    /\ IF call[c].stopped THEN UNCHANGED faults ELSE Fault
    /\ late' = late \cup {Object(c)}
    /\ Go(c, "exit")
    /\ UNCHANGED <<Content, request, write, object, stored, control>>

ConfirmSourceObject(c) ==
    /\ call[c].pc = "confirm"
    /\ IF Owns(c) /\ State(c) # "removed"
         THEN /\ Set(c, "confirmed")
              /\ call' = [call EXCEPT ![c].pc = IF call[c].part = Parts THEN "finish" ELSE "object",
                                      ![c].part = @ + 1]
         ELSE UNCHANGED object /\ Go(c, "exit")
    /\ UNCHANGED <<Content, request, write, Bytes, control, faults>>

Confirmed(k) == \A o \in Objects : object[k][o] = "confirmed"

FinishWrite(c) ==
    /\ call[c].pc = "finish"
    /\ LET k == call[c].key IN
       IF /\ Pending(k) /\ write[k].io = "running" /\ Confirmed(k)
          /\ CheckHead(k) /\ write[k].no = Cardinality(Versions) + 1
         THEN /\ version' = [version EXCEPT ![k] = [no |-> write[k].no, sources |-> Manifest(k)]]
              /\ head' = Moved(k)
              /\ write' = [write EXCEPT ![k].status = "completed", ![k].needs = FALSE]
              /\ call' = [call EXCEPT ![c].pc = "exit", ![c].complete = TRUE]
         ELSE UNCHANGED <<Content, write>> /\ Go(c, "exit")
    /\ UNCHANGED <<request, object, Bytes, control, faults>>

(* EndSourceIO: the call's own last word, whatever it is still allowed to.  *)
EndSourceIO(c) ==
    /\ call[c].pc = "exit"
    /\ write' = [write EXCEPT ![call[c].key].owner = 0, ![call[c].key].io = "ended",
                              ![call[c].key].needs = @ \/ ~call[c].complete]
    /\ Return(c)
    /\ UNCHANGED <<Content, request, object, Bytes, faults>>

(* The exit is not recorded, but the process still knows of it. *)
ExitLost(c) ==
    /\ call[c].pc = "exit" /\ Fault
    /\ Go(c, "lost")
    /\ control' = [d \in Controls |-> IF control[d].pc = "join" /\ control[d].owner = c
                                        THEN [control[d] EXCEPT !.pc = "prove"] ELSE control[d]]
    /\ UNCHANGED <<Content, request, write, object, Bytes>>

-----------------------------------------------------------------------------
(* Controls: cancel or reconcile a pending request *)

Keep == UNCHANGED <<Content, request, late>>
Step(d, to) == control' = [control EXCEPT ![d].pc = to]

Control(d, k) ==
    /\ control[d] = NoControl /\ \A e \in Controls : e < d => control[e] # NoControl
    /\ write[k].status = "pending"
    /\ \/ write' = [write EXCEPT ![k].cancel = TRUE]
       \/ write' = [write EXCEPT ![k].needs = TRUE]
    /\ control' = [control EXCEPT ![d] = [NoControl EXCEPT !.pc = "read", !.key = k]]
    /\ Keep /\ UNCHANGED <<object, stored, call, faults>>

(* FinishSourceControl, when the outcome is not certain. *)
Uncertain(d) ==
    /\ write' = IF write[control[d].key].status = "pending"
                  THEN [write EXCEPT ![control[d].key].needs = TRUE] ELSE write
    /\ control' = [control EXCEPT ![d] = NoControl]

Decide(d) ==
    LET k == control[d].key IN
    control' = [control EXCEPT ![d] =
        IF write[k].cancel /\ write[k].of = k
          THEN [NoControl EXCEPT !.pc = "look", !.key = k, !.part = 1, !.seen = object[k]]
          ELSE [NoControl EXCEPT !.pc = "finish", !.key = k]]

ReadWrite(d) ==
    /\ control[d].pc \in {"read", "again"}
    /\ LET w == write[control[d].key] IN
       IF control[d].pc = "read" /\ w.status # "pending"
         THEN control' = [control EXCEPT ![d] = NoControl] /\ UNCHANGED write
       ELSE IF control[d].pc = "read" /\ w.owner # 0
         THEN control' = [control EXCEPT ![d].pc = "stop", ![d].owner = w.owner]
              /\ UNCHANGED write
       ELSE IF w.io = "running" THEN Uncertain(d)
       ELSE Decide(d) /\ UNCHANGED write
    /\ Keep /\ UNCHANGED <<object, stored, call, faults>>

(* The registry of the calls of this process: the one that is told to stop  *)
(* has returned when it is joined.  A call that left no entry is unknown.   *)
Known(d) == /\ call[control[d].owner].key = control[d].key
            /\ call[control[d].owner].pc # "dead"
StopUnjoined(d) ==
    /\ control[d].pc = "stop"
    /\ Step(d, "prove")
    /\ Keep /\ UNCHANGED <<object, stored, write, call, faults>>
Stop(d) ==
    /\ control[d].pc = "stop"
    /\ IF ~Known(d) THEN Uncertain(d) /\ UNCHANGED call
       ELSE IF call[control[d].owner].pc = "lost"
         THEN Step(d, "prove") /\ UNCHANGED <<write, call>>
       ELSE /\ call' = [call EXCEPT ![control[d].owner].stopped = TRUE]
            /\ Step(d, "join") /\ UNCHANGED write
    /\ Keep /\ UNCHANGED <<object, stored, faults>>

(* The wait ends after thirty seconds, or with the process. *)
JoinEnds(d) ==
    /\ control[d].pc = "join"
    /\ IF call[control[d].owner].pc = "dead" THEN UNCHANGED faults ELSE Fault
    /\ Uncertain(d)
    /\ Keep /\ UNCHANGED <<object, stored, call>>

ProveSourceStop(d) ==
    /\ control[d].pc = "prove"
    /\ LET k == control[d].key
           o == control[d].owner IN
       IF write[k].status = "pending" /\ (write[k].owner = o \/ write[k].owner = 0)
         THEN /\ write' = [write EXCEPT ![k].owner = 0, ![k].io = "ended"]
              /\ Step(d, "again")
              /\ call' = IF call[o].pc = "lost" THEN [call EXCEPT ![o] = NoCall] ELSE call
         ELSE Uncertain(d) /\ UNCHANGED call
    /\ Keep /\ UNCHANGED <<object, stored, faults>>

(* AuthorizeSourceRemoval, again with each step. *)
MayRemove(d) == LET w == write[control[d].key] IN
                w.status = "pending" /\ w.cancel /\ w.owner = 0
Target(d) == <<control[d].key, control[d].part>>
Seen(d) == control[d].seen[control[d].part]
Mark(d, to) == object' = [object EXCEPT ![control[d].key][control[d].part] = to]
Onward(d) == control' = [control EXCEPT ![d].part = @ + 1,
                                        ![d].pc = IF control[d].part = Parts THEN "finish"
                                                                             ELSE "look"]

(* An object that was begun and is not there may still arrive. *)
BeginSourceRemoval(d) ==
    /\ control[d].pc = "look"
    /\ IF Seen(d) = "removed" THEN Onward(d) /\ UNCHANGED <<write, object>>
       ELSE IF ~MayRemove(d) \/ (Target(d) \notin stored /\ Seen(d) = "started")
         THEN Uncertain(d) /\ UNCHANGED object
       ELSE IF Target(d) \notin stored THEN Step(d, "gone") /\ UNCHANGED <<write, object>>
       ELSE IF object[control[d].key][control[d].part] = "removed"
         THEN Uncertain(d) /\ UNCHANGED object
       ELSE Mark(d, "confirmed") /\ Step(d, "erase") /\ UNCHANGED write
    /\ Keep /\ UNCHANGED <<stored, call, faults>>

Erase(d) ==
    /\ control[d].pc = "erase"
    /\ stored' = stored \ {Target(d)}
    /\ Step(d, "gone")
    /\ Keep /\ UNCHANGED <<write, object, call, faults>>

ConfirmSourceRemoval(d) ==
    /\ control[d].pc = "gone"
    /\ IF MayRemove(d) THEN Mark(d, "removed") /\ Onward(d) /\ UNCHANGED write
                       ELSE Uncertain(d) /\ UNCHANGED object
    /\ Keep /\ UNCHANGED <<stored, call, faults>>

Settled(k) == IF write[k].cancel
                THEN write[k].owner = 0 /\ \A o \in Objects : object[k][o] = "removed"
                ELSE Confirmed(k)

FinishSourceControl(d) ==
    /\ control[d].pc = "finish"
    /\ LET k == control[d].key IN
       IF write[k].status = "pending" /\ (write[k].of # k \/ Settled(k))
         THEN /\ write' = [write EXCEPT ![k].needs = FALSE,
                                        ![k].status = IF write[k].cancel THEN "cancelled" ELSE @]
              /\ control' = [control EXCEPT ![d] = NoControl]
         ELSE Uncertain(d)
    /\ Keep /\ UNCHANGED <<object, stored, call, faults>>

-----------------------------------------------------------------------------
(* Faults *)

Land ==
    /\ \E o \in late : late' = late \ {o} /\ stored' = stored \cup {o}
    /\ UNCHANGED <<Content, request, write, object, call, control, faults>>

(* A transaction or a read fails, or the call was told to stop. *)
CallFails(c) ==
    /\ call[c].pc \in {"object", "confirm", "finish"}
    /\ IF call[c].stopped THEN UNCHANGED faults ELSE Fault
    /\ Go(c, "exit")
    /\ UNCHANGED <<Content, request, write, object, Bytes, control>>

(* A process that held the write leaves its claim behind. *)
Crash(c) ==
    /\ call[c].pc \in {"object", "put", "confirm", "finish", "exit"} /\ Fault
    /\ Go(c, "dead")
    /\ late' = IF call[c].pc = "put" /\ Object(c) \notin stored THEN late \cup {Object(c)} ELSE late
    /\ UNCHANGED <<Content, request, write, object, stored, control>>

ControlFails(d) ==
    /\ control[d].pc \notin {"none", "read"} /\ Fault
    /\ control' = [control EXCEPT ![d] = NoControl]
    /\ Keep /\ UNCHANGED <<write, object, stored, call>>

Next ==
    \/ \E k \in Keys : Send(k)
    \/ \E c \in Calls, k \in Keys : Call(c, k)
    \/ \E c \in Calls : \/ BeginWrite(c) \/ FinishReused(c) \/ ClaimSourceIO(c)
                        \/ BeginSourceObject(c) \/ Put(c) \/ PutUnknown(c)
                        \/ ConfirmSourceObject(c) \/ FinishWrite(c) \/ EndSourceIO(c)
                        \/ ExitLost(c) \/ CallFails(c) \/ Crash(c)
    \/ \E d \in Controls, k \in Keys : Control(d, k)
    \/ \E d \in Controls : \/ ReadWrite(d) \/ Stop(d) \/ JoinEnds(d) \/ ProveSourceStop(d)
                           \/ BeginSourceRemoval(d) \/ Erase(d) \/ ConfirmSourceRemoval(d)
                           \/ FinishSourceControl(d) \/ ControlFails(d)
    \/ Land

Spec == Init /\ [][Next]_vars

-----------------------------------------------------------------------------
Writing == {"object", "put", "confirm", "finish"}

(* The calls that write, and those of which nobody heard that they ended. *)
Holders == {c \in Calls : call[c].pc \in Writing \/ (call[c].pc = "dead" /\ ~call[c].complete)}

(* One call at a time writes for the project: the next begins only when the *)
(* last has ended, and one that is lost without a word keeps its place.     *)
Work == INSTANCE PhysicalWork WITH holders <- Holders, settled <- FALSE
OneWriterAtATime == Work!Spec

(* Every published version has all of its bytes. *)
PublishedWhole == \A k \in Versions, o \in Objects : <<k, o>> \in stored

(* Nothing is removed while the call that wrote it may still write. *)
RemovedAfterwards == \A c \in Calls, d \in Controls :
    /\ call[c].pc \in Writing
    /\ control[d].pc \in {"erase", "gone"}
    => call[c].key # control[d].key

(* A request that is pending can still be published: nobody moved the head, *)
(* and no other request is pending beside it.                               *)
PendingCurrent == \A k \in Keys : write[k].status = "pending" =>
    /\ CheckHead(k)
    /\ \A j \in Keys \ {k} : write[j].status # "pending"

(* No two versions have the same number or the same sources. *)
VersionsDiffer == \A v, w \in Versions :
    v # w => version[v].no # version[w].no /\ version[v].sources # version[w].sources

SourceHonest == PublishedWhole /\ RemovedAfterwards /\ PendingCurrent /\ VersionsDiffer
=============================================================================
