--------------------------- MODULE MediaPurgeProofs ---------------------------
(***************************************************************************)
(* Proofs about MediaPurge: its types, that storage follows the catalog,   *)
(* and that the workers of a purge are those of PhysicalWork.              *)
(***************************************************************************)
EXTENDS MediaPurge, TLAPS

-----------------------------------------------------------------------------
(* The inductive invariant *)

ItemStates == {"none", "blocked", "queued", "running",
               "needs_reconciliation", "succeeded", "cancelled"}
ObjectStates == {"frozen", "verified", "started", "removed"}
Places == {"none", "sent", "claim", "finish", "closed", "failed", "dead"} \cup Physical
Codes == {"none", "refused", "source_unavailable", "object_mismatch", "cancelled",
          "object_remove_unknown", "worker_interrupted"}

Runs == [pc : Places, action : {"none", "create", "reconcile", "cancel"}, attempt : Nat,
         n : Nat, k : Nat, held : SUBSET Objects, stop : BOOLEAN, code : Codes]
Jobs == [status : {"none", "queued"} \cup Reconcilable \cup Terminal, attempt : Nat,
         cancel : BOOLEAN, unconfirmed : BOOLEAN, ended : BOOLEAN, fence : Nat,
         leased : BOOLEAN]

Types ==
    /\ run \in [Commands -> Runs]
    /\ job \in Jobs
    /\ item \in [ItemSet -> ItemStates]
    /\ object \in [Objects -> ObjectStates]
    /\ catalog \in [ItemSet -> {"active", "trashed", "removed"}]
    /\ stored \subseteq Objects /\ inflight \subseteq Objects
    /\ commands \in 0 .. MaxCommands /\ faults \in 0 .. MaxFaults

(* Every attempt and every worker comes from a command that was accepted. *)
Counted ==
    /\ \A r \in Commands : run[r].pc # "none" => r <= commands
    /\ job.fence <= commands
    /\ job.attempt = 1 \/ (1 <= job.attempt /\ job.attempt <= commands)
    /\ job.status \in {"none", "failed"} \/ commands >= 1
    /\ job.status = "none" => commands = 0

(* The process that may act is the one the job has recorded. *)
HolderKnown ==
    \A r \in Holders : /\ job.fence = r /\ ~job.ended
                       /\ job.attempt = run[r].attempt /\ job.status \in Reconcilable

(* What a worker that is at an item relies on. *)
AtItem == {"verify", "remove", "call", "confirm"}
Begun(o) == object[o] \in {"started", "removed"}

WorkerOK(r) ==
    /\ run[r].pc = "item" => run[r].n \in 1 .. Len(Items) + 1
    /\ run[r].pc \in AtItem \cup {"fail"} => run[r].n \in 1 .. Len(Items)
    /\ run[r].pc \in AtItem =>
          /\ item[Current(r)] = "running"
          /\ run[r].k \in 1 .. Len(Parts[Current(r)]) + 1
          /\ \A o \in run[r].held : Begun(o)
    /\ run[r].pc \in {"call", "confirm"} =>
          run[r].k <= Len(Parts[Current(r)]) /\ Begun(Part(r))
    /\ run[r].pc = "confirm" => Part(r) \notin stored

(* An asset is hidden exactly while its item is reserved for the purge; an  *)
(* object whose removal was never begun is there and stays; one with a      *)
(* receipt is gone; an item is purged with a receipt for each object.       *)
Reserved(i) == item[i] \in Reserving
ItemsOK ==
    /\ hidden = {i \in ItemSet : Reserved(i)}
    /\ \A i \in ItemSet : item[i] = "none" <=> job.status = "none"
    /\ \A i \in ItemSet : \A o \in Range(Parts[i]) : Begun(o) => Reserved(i)
    /\ \A i \in ItemSet : item[i] = "succeeded" =>
          \A o \in Range(Parts[i]) : object[o] = "removed"
ObjectsOK ==
    \A o \in Objects : /\ (o \notin stored \/ o \in inflight) => Begun(o)
                       /\ object[o] = "removed" => o \notin stored

IInv ==
    /\ Types /\ Counted /\ HolderKnown
    /\ \A r \in Commands : WorkerOK(r)
    /\ ItemsOK /\ ObjectsOK /\ NothingHalfDone

-----------------------------------------------------------------------------
(* What the helpers do to the run of a worker *)

Turned(r, pc, n, k, held) ==
    /\ run' \in [Commands -> Runs]
    /\ \A c \in Commands \ {r} : run'[c] = run[c]
    /\ run'[r].pc = pc /\ run'[r].n = n /\ run'[r].k = k /\ run'[r].held = held
    /\ run'[r].attempt = run[r].attempt

(* A run that is replaced by another of the same attempt. *)
LEMMA TurnIs ==
    ASSUME run \in [Commands -> Runs], NEW r \in Commands, NEW q \in Runs,
           run' = [run EXCEPT ![r] = q], q.attempt = run[r].attempt
    PROVE Turned(r, q.pc, q.n, q.k, q.held)
BY DEF Turned

(* A change of the place alone. *)
LEMMA StepTurns ==
    ASSUME run \in [Commands -> Runs], NEW r \in Commands, NEW to \in Places, Step(r, to)
    PROVE Turned(r, to, run[r].n, run[r].k, run[r].held)
<1> DEFINE q == [run[r] EXCEPT !.pc = to]
<1>1. run[r] \in Runs
    OBVIOUS
<1>2. q \in Runs
    BY <1>1, Zenon DEF Runs
<1>3. /\ q.pc = to /\ q.n = run[r].n /\ q.k = run[r].k /\ q.held = run[r].held
      /\ q.attempt = run[r].attempt
    BY <1>1 DEF Runs
<1>4. run' = [run EXCEPT ![r] = q]
    BY DEF Step
<1> HIDE DEF q
<1>5. Turned(r, q.pc, q.n, q.k, q.held)
    BY <1>2, <1>3, <1>4, TurnIs
<1> QED
    BY <1>3, <1>5

(* A run that has left its worker's path keeps only its attempt. *)
LEMMA LeaveTurns ==
    ASSUME run \in [Commands -> Runs], NEW r \in Commands, NEW to \in Places, Leave(r, to)
    PROVE Turned(r, to, 0, 0, {})
<1> DEFINE q == [NoRun EXCEPT !.pc = to, !.attempt = run[r].attempt]
<1>1. run[r] \in Runs
    OBVIOUS
<1>2. run[r].attempt \in Nat
    BY <1>1 DEF Runs
<1>3. NoRun \in Runs
    BY Zenon DEF NoRun, Runs, Places, Codes
<1>4. q \in Runs
    BY <1>2, <1>3, Zenon DEF Runs
<1>5. q.pc = to /\ q.n = 0 /\ q.k = 0 /\ q.held = {} /\ q.attempt = run[r].attempt
    BY DEF NoRun
<1>6. run' = [run EXCEPT ![r] = q]
    BY DEF Leave
<1> HIDE DEF q
<1> QED
    BY <1>4, <1>5, <1>6 DEF Turned

(* A worker notes a failure and its code. *)
LEMMA FailingTurns ==
    ASSUME run \in [Commands -> Runs], NEW r \in Commands, NEW code \in Codes, Failing(r, code)
    PROVE Turned(r, "fail", run[r].n, run[r].k, run[r].held)
<1> DEFINE q == [run[r] EXCEPT !.pc = "fail", !.code = code]
<1>1. run[r] \in Runs
    OBVIOUS
<1>2. q \in Runs
    BY <1>1, Zenon DEF Runs, Places, Physical
<1>3. /\ q.pc = "fail" /\ q.n = run[r].n /\ q.k = run[r].k /\ q.held = run[r].held
      /\ q.attempt = run[r].attempt
    BY <1>1 DEF Runs
<1>4. run' = [run EXCEPT ![r] = q]
    BY DEF Runs, Failing
<1> HIDE DEF q
<1>5. Turned(r, q.pc, q.n, q.k, q.held)
    BY <1>2, <1>3, <1>4, TurnIs
<1> QED
    BY <1>3, <1>5

(* A worker turns to another object of its item. *)
LEMMA ObjectTurns ==
    ASSUME run \in [Commands -> Runs], NEW r \in Commands, NEW to \in Places, NEW m \in Nat,
           run' = [run EXCEPT ![r].pc = to, ![r].k = m]
    PROVE Turned(r, to, run[r].n, m, run[r].held)
<1> DEFINE q == [run[r] EXCEPT !.pc = to, !.k = m]
<1>1. run[r] \in Runs
    OBVIOUS
<1>2. q \in Runs
    BY <1>1, Zenon DEF Runs
<1>3. /\ q.pc = to /\ q.n = run[r].n /\ q.k = m /\ q.held = run[r].held
      /\ q.attempt = run[r].attempt
    BY <1>1 DEF Runs
<1>4. run' = [run EXCEPT ![r] = q]
    BY DEF Runs
<1> HIDE DEF q
<1>5. Turned(r, q.pc, q.n, q.k, q.held)
    BY <1>2, <1>3, <1>4, TurnIs
<1> QED
    BY <1>3, <1>5

(* The same, in the same pass. *)
LEMMA StayTurns ==
    ASSUME run \in [Commands -> Runs], NEW r \in Commands, NEW m \in Nat,
           run' = [run EXCEPT ![r].k = m]
    PROVE Turned(r, run[r].pc, run[r].n, m, run[r].held)
<1> DEFINE q == [run[r] EXCEPT !.k = m]
<1>1. run[r] \in Runs
    OBVIOUS
<1>2. q \in Runs
    BY <1>1, Zenon DEF Runs
<1>3. /\ q.pc = run[r].pc /\ q.n = run[r].n /\ q.k = m /\ q.held = run[r].held
      /\ q.attempt = run[r].attempt
    BY <1>1 DEF Runs
<1>4. run' = [run EXCEPT ![r] = q]
    BY DEF Runs
<1> HIDE DEF q
<1>5. Turned(r, q.pc, q.n, q.k, q.held)
    BY <1>2, <1>3, <1>4, TurnIs
<1> QED
    BY <1>3, <1>5

(* A worker turns to the first item. *)
LEMMA FirstTurns ==
    ASSUME run \in [Commands -> Runs], NEW r \in Commands,
           run' = [run EXCEPT ![r].pc = "item", ![r].n = 1]
    PROVE Turned(r, "item", 1, run[r].k, run[r].held)
<1> DEFINE q == [run[r] EXCEPT !.pc = "item", !.n = 1]
<1>1. run[r] \in Runs
    OBVIOUS
<1>2. q \in Runs
    BY <1>1, Zenon DEF Runs, Places, Physical
<1>3. /\ q.pc = "item" /\ q.n = 1 /\ q.k = run[r].k /\ q.held = run[r].held
      /\ q.attempt = run[r].attempt
    BY <1>1 DEF Runs
<1>4. run' = [run EXCEPT ![r] = q]
    BY DEF Runs
<1> HIDE DEF q
<1>5. Turned(r, q.pc, q.n, q.k, q.held)
    BY <1>2, <1>3, <1>4, TurnIs
<1> QED
    BY <1>3, <1>5

(* A worker turns to the objects of an item, some of them begun before. *)
LEMMA HoldTurns ==
    ASSUME run \in [Commands -> Runs], NEW r \in Commands, NEW H \in SUBSET Objects,
           run' = [run EXCEPT ![r].pc = "verify", ![r].k = 1, ![r].held = H]
    PROVE Turned(r, "verify", run[r].n, 1, H)
<1> DEFINE q == [run[r] EXCEPT !.pc = "verify", !.k = 1, !.held = H]
<1>1. run[r] \in Runs
    OBVIOUS
<1>2. q \in Runs
    BY <1>1, Zenon DEF Runs, Places, Physical
<1>3. /\ q.pc = "verify" /\ q.n = run[r].n /\ q.k = 1 /\ q.held = H
      /\ q.attempt = run[r].attempt
    BY <1>1 DEF Runs
<1>4. run' = [run EXCEPT ![r] = q]
    BY DEF Runs
<1> HIDE DEF q
<1>5. Turned(r, q.pc, q.n, q.k, q.held)
    BY <1>2, <1>3, <1>4, TurnIs
<1> QED
    BY <1>3, <1>5

(* A worker turns to the item after. *)
LEMMA NextItemTurns ==
    ASSUME run \in [Commands -> Runs], NEW r \in Commands, NextItem(r)
    PROVE Turned(r, "item", run[r].n + 1, 0, {})
<1> DEFINE q == [run[r] EXCEPT !.pc = "item", !.n = run[r].n + 1, !.k = 0, !.held = {}]
<1>1. run[r] \in Runs /\ run[r].n + 1 \in Nat
    BY DEF Runs
<1>2. q \in Runs
    BY <1>1, Zenon DEF Runs, Places, Physical
<1>3. /\ q.pc = "item" /\ q.n = run[r].n + 1 /\ q.k = 0 /\ q.held = {}
      /\ q.attempt = run[r].attempt
    BY <1>1 DEF Runs
<1>4. run' = [run EXCEPT ![r] = q]
    BY DEF Runs, NextItem
<1> HIDE DEF q
<1>5. Turned(r, q.pc, q.n, q.k, q.held)
    BY <1>2, <1>3, <1>4, TurnIs
<1> QED
    BY <1>3, <1>5

-----------------------------------------------------------------------------
(* Items and their objects *)

LEMMA ItemAt == ASSUME NEW n \in 1 .. Len(Items) PROVE Items[n] \in ItemSet
BY PurgeAssumption DEF ItemSet, Range

LEMMA PartAt ==
    ASSUME NEW i \in ItemSet, NEW k \in 1 .. Len(Parts[i])
    PROVE Parts[i][k] \in Range(Parts[i])
BY PurgeAssumption DEF Range

LEMMA PartsAreObjects == \A i \in ItemSet : Range(Parts[i]) \subseteq Objects
BY DEF Objects

LEMMA ObjectHasItem == \A o \in Objects : \E i \in ItemSet : o \in Range(Parts[i])
BY DEF Objects

LEMMA OwnParts ==
    ASSUME NEW i \in ItemSet, NEW j \in ItemSet, NEW o, o \in Range(Parts[i]),
           o \in Range(Parts[j])
    PROVE i = j
BY PurgeAssumption

-----------------------------------------------------------------------------
(* What a step of the worker leaves alone *)

LEMMA IdleOK ==
    ASSUME NEW r \in Commands, run[r].pc \notin AtItem \cup {"item", "fail"}
    PROVE WorkerOK(r)
BY DEF WorkerOK, AtItem

LEMMA OneHolder == HolderKnown => \A r, c \in Holders : r = c
BY DEF HolderKnown

(* A worker that goes on, or dies, while the job stays as it is. *)
LEMMA WorkerTurn ==
    ASSUME Types, Counted, HolderKnown, NEW r \in Commands, run[r].pc \in Physical,
           NEW to \in Physical \cup {"dead"}, NEW n, NEW k, NEW held, Turned(r, to, n, k, held),
           UNCHANGED <<job, commands>>
    PROVE /\ run' \in [Commands -> Runs] /\ Counted' /\ HolderKnown'
          /\ \A c \in Commands \ {r} : WorkerOK(c)'
          /\ NothingHalfDone' /\ job.status \in Reconcilable /\ Holders' = Holders
<1>1. r \in Holders /\ r \in Holders'
    BY DEF Holders, Turned
<1>2. \A c \in Commands \ {r} : c \notin Holders
    BY <1>1, OneHolder
<1>3. Holders' = Holders
    BY <1>1, <1>2 DEF Holders, Turned
<1>4. job.status \in Reconcilable
    BY <1>1 DEF HolderKnown
<1>5. HolderKnown'
    BY <1>1, <1>2, <1>3 DEF HolderKnown, Turned
<1>6. Counted'
    BY DEF Counted, Turned, Physical
<1>7. ASSUME NEW c \in Commands \ {r} PROVE WorkerOK(c)'
  <2>1. run'[c].pc \notin AtItem \cup {"item", "fail"}
      BY <1>2, <1>7 DEF Holders, Turned, AtItem, Physical
  <2> QED
      BY <2>1 DEF WorkerOK, AtItem
<1>8. NothingHalfDone'
    BY <1>4 DEF NothingHalfDone, Reconcilable, Terminal
<1> QED
    BY <1>3, <1>4, <1>5, <1>6, <1>7, <1>8 DEF Turned

(* Nothing but runs of workers moves. *)
LEMMA ItemsUnchanged ==
    ASSUME ItemsOK, ObjectsOK, UNCHANGED <<item, object, hidden, storage>>,
           job'.status = "none" <=> job.status = "none"
    PROVE ItemsOK' /\ ObjectsOK'
<1>1. UNCHANGED <<item, object, hidden, stored, inflight>>
    BY DEF storage
<1>2. ItemsOK'
    BY <1>1 DEF ItemsOK, Reserved, Begun
<1>3. ObjectsOK'
    BY <1>1 DEF ObjectsOK, Begun
<1> QED
    BY <1>2, <1>3

(* The invariant after a step of the worker, from what the step touches. *)
LEMMA TurnKeeps ==
    ASSUME IInv, NEW r \in Commands, run[r].pc \in Physical,
           NEW to \in Physical \cup {"dead"}, NEW n, NEW k, NEW held, Turned(r, to, n, k, held),
           UNCHANGED <<job, commands>>, faults' \in 0 .. MaxFaults,
           item' \in [ItemSet -> ItemStates], object' \in [Objects -> ObjectStates],
           catalog' \in [ItemSet -> {"active", "trashed", "removed"}],
           stored' \subseteq Objects, inflight' \subseteq Objects,
           ItemsOK', ObjectsOK', WorkerOK(r)'
    PROVE IInv' /\ UNCHANGED <<Holders, job>>
<1>1. Types /\ Counted /\ HolderKnown
    BY DEF IInv
<1>2. /\ run' \in [Commands -> Runs] /\ Counted' /\ HolderKnown'
      /\ \A c \in Commands \ {r} : WorkerOK(c)'
      /\ NothingHalfDone' /\ Holders' = Holders
    BY <1>1, WorkerTurn
<1>3. Types'
    BY <1>1, <1>2 DEF Types
<1>4. ASSUME NEW c \in Commands PROVE WorkerOK(c)'
  <2>1. CASE c = r
      BY <2>1
  <2>2. CASE c # r
      BY <1>2, <2>2
  <2> QED
      BY <2>1, <2>2
<1> QED
    BY <1>2, <1>3, <1>4 DEF IInv

(* A step that only moves the worker. *)
LEMMA QuietTurn ==
    ASSUME IInv, NEW r \in Commands, run[r].pc \in Physical,
           NEW to \in Physical \cup {"dead"}, NEW n, NEW k, NEW held, Turned(r, to, n, k, held),
           UNCHANGED <<job, item, object, library, storage, commands>>,
           faults' \in 0 .. MaxFaults, WorkerOK(r)'
    PROVE IInv' /\ UNCHANGED <<Holders, job>>
<1>1. Types /\ ItemsOK /\ ObjectsOK
    BY DEF IInv
<1>2. UNCHANGED <<job, commands, item, object, catalog, hidden, stored, inflight>>
    BY DEF library, storage
<1>3. ItemsOK' /\ ObjectsOK'
    BY <1>1, <1>2, ItemsUnchanged DEF storage
<1>4. /\ item' \in [ItemSet -> ItemStates] /\ object' \in [Objects -> ObjectStates]
      /\ catalog' \in [ItemSet -> {"active", "trashed", "removed"}]
      /\ stored' \subseteq Objects /\ inflight' \subseteq Objects
    BY <1>1, <1>2 DEF Types
<1> QED
    BY <1>2, <1>3, <1>4, TurnKeeps

LEMMA Acting ==
    ASSUME IInv, NEW r \in Commands, run[r].pc \in Physical
    PROVE job.status \in Reconcilable /\ job.fence = r /\ ~job.ended
BY DEF IInv, HolderKnown, Holders

(* The worker's own item. *)
LEMMA OwnItem ==
    ASSUME IInv, NEW r \in Commands, run[r].n \in 1 .. Len(Items)
    PROVE /\ Current(r) \in ItemSet /\ Len(Parts[Current(r)]) \in Nat
          /\ Range(Parts[Current(r)]) \subseteq Objects
BY ItemAt, PartsAreObjects, PurgeAssumption DEF Current

LEMMA OwnPart ==
    ASSUME IInv, NEW r \in Commands, run[r].pc \in AtItem,
           run[r].k <= Len(Parts[Current(r)])
    PROVE /\ Part(r) \in Range(Parts[Current(r)]) /\ Part(r) \in Objects
          /\ run[r].k \in 1 .. Len(Parts[Current(r)])
<1>1. /\ run[r].n \in 1 .. Len(Items)
      /\ run[r].k \in 1 .. Len(Parts[Current(r)]) + 1
    BY DEF IInv, WorkerOK
<1>2. Current(r) \in ItemSet /\ Len(Parts[Current(r)]) \in Nat
    BY <1>1, OwnItem
<1>3. run[r].k \in 1 .. Len(Parts[Current(r)])
    BY <1>1, <1>2
<1>4. Part(r) \in Range(Parts[Current(r)])
    BY <1>2, <1>3, PartAt DEF Part
<1> QED
    BY <1>2, <1>3, <1>4, PartsAreObjects

(* The failed item's worker is at an item. *)
LEMMA FailureOK ==
    ASSUME NEW r \in Commands, NEW n \in 1 .. Len(Items), NEW k, NEW held,
           Turned(r, "fail", n, k, held)
    PROVE WorkerOK(r)'
BY DEF WorkerOK, Turned, AtItem

LEMMA AfterOK ==
    ASSUME NEW r \in Commands, NEW n \in 1 .. Len(Items) + 1, NEW k, NEW held,
           Turned(r, "item", n, k, held)
    PROVE WorkerOK(r)'
BY DEF WorkerOK, Turned, AtItem

LEMMA GoneOK ==
    ASSUME NEW r \in Commands, NEW to \in {"end", "dead", "finish", "closed", "failed"},
           NEW n, NEW k, NEW held, Turned(r, to, n, k, held)
    PROVE WorkerOK(r)'
BY DEF WorkerOK, Turned, AtItem

(* Items that were never begun are given back. *)
LEMMA GiveBackKeeps ==
    ASSUME Types, ItemsOK, NEW S \in SUBSET ItemSet, GiveBack(S), object' = object,
           \A i \in S : item[i] # "none" /\ Untouched(i),
           job'.status = "none" <=> job.status = "none"
    PROVE ItemsOK' /\ item' \in [ItemSet -> ItemStates]
<1>1. item' = [i \in ItemSet |-> IF i \in S THEN "cancelled" ELSE item[i]]
    BY DEF GiveBack
<1>2. item' \in [ItemSet -> ItemStates]
    BY <1>1 DEF Types, ItemStates
<1>3. hidden' = {i \in ItemSet : Reserved(i)'}
    BY <1>1 DEF GiveBack, ItemsOK, Reserved, Reserving
<1>4. \A i \in ItemSet : item'[i] = "none" <=> job'.status = "none"
    BY <1>1 DEF ItemsOK
<1>5. \A i \in S : \A o \in Range(Parts[i]) : ~Begun(o)
    BY DEF Untouched, Begun
<1>6. \A i \in ItemSet : \A o \in Range(Parts[i]) : Begun(o)' => Reserved(i)'
    BY <1>1, <1>5 DEF ItemsOK, Reserved, Begun
<1>7. \A i \in ItemSet : item'[i] = "succeeded" =>
          \A o \in Range(Parts[i]) : object'[o] = "removed"
    BY <1>1 DEF ItemsOK
<1> QED
    BY <1>2, <1>3, <1>4, <1>6, <1>7 DEF ItemsOK

(* An item that waits, or was left unsettled, is taken up or left again. *)
LEMMA ResumeKeeps ==
    ASSUME Types, ItemsOK, NEW i \in ItemSet, item[i] \notin Settled \cup {"none"},
           NEW s \in {"running", "needs_reconciliation"}, item' = [item EXCEPT ![i] = s],
           UNCHANGED <<hidden, object>>, job'.status = "none" <=> job.status = "none"
    PROVE ItemsOK' /\ item' \in [ItemSet -> ItemStates]
<1>1. Reserved(i)
    BY DEF Types, ItemStates, Reserved, Reserving, Settled
<1>2. item' \in [ItemSet -> ItemStates] /\ item'[i] = s
      /\ \A j \in ItemSet \ {i} : item'[j] = item[j]
    BY DEF Types, ItemStates
<1>3. \A j \in ItemSet : Reserved(j)' <=> Reserved(j)
    BY <1>1, <1>2 DEF Reserved, Reserving
<1>4. \A o : Begun(o)' <=> Begun(o)
    BY DEF Begun
<1>5. hidden' = {j \in ItemSet : Reserved(j)'}
    BY <1>3 DEF ItemsOK
<1>6. \A j \in ItemSet : item'[j] = "none" <=> job'.status = "none"
    BY <1>2 DEF ItemsOK
<1>7. \A j \in ItemSet : item'[j] = "succeeded" =>
          \A o \in Range(Parts[j]) : object'[o] = "removed"
    BY <1>2 DEF ItemsOK
<1> QED
    BY <1>2, <1>3, <1>4, <1>5, <1>6, <1>7 DEF ItemsOK

-----------------------------------------------------------------------------
(* The steps of the worker *)

LEMMA StartItemKeeps ==
    ASSUME IInv, NEW r \in Commands, StartItem(r)
    PROVE IInv' /\ UNCHANGED <<Holders, job>>
<1> DEFINE i == Current(r)
<1>1. /\ run[r].pc = "item" /\ run[r].n \in 1 .. Len(Items)
      /\ run \in [Commands -> Runs] /\ run[r].n + 1 \in 1 .. Len(Items) + 1
  <2>1. run[r].pc = "item" /\ run[r].n <= Len(Items)
      BY DEF StartItem, Working
  <2>2. WorkerOK(r) /\ run \in [Commands -> Runs]
      BY DEF IInv, Types
  <2>3. run[r].n \in 1 .. Len(Items) + 1 /\ Len(Items) \in Nat
      BY <2>1, <2>2, PurgeAssumption DEF WorkerOK
  <2> QED
      BY <2>1, <2>2, <2>3
<1>2. run[r].pc \in Physical /\ Types /\ ItemsOK /\ ObjectsOK
    BY <1>1 DEF Physical, IInv
<1>3. i \in ItemSet /\ Range(Parts[i]) \subseteq Objects /\ Len(Parts[i]) \in Nat
    BY <1>1, OwnItem
<1>4. UNCHANGED <<job, catalog, commands, object, stored, inflight, faults>>
    BY DEF StartItem, Storage, storage
<1>5. job.status # "none"
    BY <1>2, Acting DEF Reconcilable
<1>6. /\ object' \in [Objects -> ObjectStates]
      /\ catalog' \in [ItemSet -> {"active", "trashed", "removed"}]
      /\ stored' \subseteq Objects /\ inflight' \subseteq Objects /\ faults' \in 0 .. MaxFaults
      /\ ObjectsOK' /\ UNCHANGED <<job, commands>>
    BY <1>2, <1>4 DEF Types, ObjectsOK, Begun
<1>7. ASSUME Failing(r, "refused"), UNCHANGED <<item, hidden>>
      PROVE IInv' /\ UNCHANGED <<Holders, job>>
  <2>1. Turned(r, "fail", run[r].n, run[r].k, run[r].held)
      BY <1>1, <1>7, FailingTurns DEF Codes
  <2>2. WorkerOK(r)'
      BY <1>1, <2>1, FailureOK
  <2>3. UNCHANGED <<library, storage>>
      BY <1>4, <1>7 DEF library, storage
  <2> QED
      BY <1>2, <1>4, <1>6, <1>7, <2>1, <2>2, <2>3, QuietTurn DEF Physical
<1>8. ASSUME NextItem(r), UNCHANGED <<item, hidden>> PROVE IInv' /\ UNCHANGED <<Holders, job>>
  <2>1. Turned(r, "item", run[r].n + 1, 0, {})
      BY <1>1, <1>8, NextItemTurns
  <2>2. WorkerOK(r)'
      BY <1>1, <2>1, AfterOK
  <2>3. UNCHANGED <<library, storage>>
      BY <1>4, <1>8 DEF library, storage
  <2> QED
      BY <1>2, <1>4, <1>6, <1>8, <2>1, <2>2, <2>3, QuietTurn DEF Physical
<1>9. ASSUME NextItem(r), item[i] \notin Settled, Untouched(i), GiveBack({i})
      PROVE IInv' /\ UNCHANGED <<Holders, job>>
  <2>1. Turned(r, "item", run[r].n + 1, 0, {})
      BY <1>1, <1>9, NextItemTurns
  <2>2. WorkerOK(r)'
      BY <1>1, <2>1, AfterOK
  <2>3. item[i] # "none"
      BY <1>2, <1>3, <1>5 DEF ItemsOK
  <2>4. ItemsOK' /\ item' \in [ItemSet -> ItemStates]
      BY <1>2, <1>3, <1>4, <1>9, <2>3, GiveBackKeeps
  <2> QED
      BY <1>2, <1>6, <2>1, <2>2, <2>4, TurnKeeps DEF Physical
<1>10. ASSUME item[i] \notin Settled, item' = [item EXCEPT ![i] = "running"],
              run' = [run EXCEPT ![r].pc = "verify", ![r].k = 1,
                           ![r].held = {o \in Range(Parts[i]) : object[o] \in {"started", "removed"}}],
              UNCHANGED hidden
       PROVE IInv' /\ UNCHANGED <<Holders, job>>
  <2> DEFINE H == {o \in Range(Parts[i]) : object[o] \in {"started", "removed"}}
  <2>1. H \in SUBSET Objects
      BY <1>3
  <2>2. Turned(r, "verify", run[r].n, 1, H)
      BY <1>1, <1>10, <2>1, HoldTurns
  <2>3. item[i] # "none"
      BY <1>2, <1>3, <1>5 DEF ItemsOK
  <2>4. ItemsOK' /\ item' \in [ItemSet -> ItemStates]
      BY <1>2, <1>3, <1>4, <1>10, <2>3, ResumeKeeps
  <2>5. item'[i] = "running" /\ Current(r)' = i
      BY <1>2, <1>3, <1>10, <2>2 DEF Types, Current, Turned
  <2>6. \A o \in H : Begun(o)'
      BY <1>4 DEF Begun
  <2>7. WorkerOK(r)'
    <3>1. /\ run'[r].pc = "verify" /\ run'[r].n \in 1 .. Len(Items) /\ run'[r].held = H
          /\ run'[r].k \in 1 .. Len(Parts[i]) + 1
        BY <1>1, <1>3, <2>2 DEF Turned
    <3> HIDE DEF H, i
    <3> QED
        BY <2>5, <2>6, <3>1 DEF WorkerOK, AtItem
  <2> QED
      BY <1>2, <1>6, <2>2, <2>4, <2>7, TurnKeeps DEF Physical
<1> QED
    BY <1>7, <1>8, <1>9, <1>10 DEF StartItem

LEMMA AtItemFacts ==
    ASSUME IInv, NEW r \in Commands, run[r].pc \in AtItem
    PROVE /\ run[r].pc \in Physical /\ run \in [Commands -> Runs]
          /\ run[r].n \in 1 .. Len(Items) /\ Current(r) \in ItemSet
          /\ Len(Parts[Current(r)]) \in Nat /\ Range(Parts[Current(r)]) \subseteq Objects
          /\ item[Current(r)] = "running" /\ run[r].k \in 1 .. Len(Parts[Current(r)]) + 1
          /\ \A o \in run[r].held : Begun(o)
<1>1. WorkerOK(r) /\ run \in [Commands -> Runs]
    BY DEF IInv, Types
<1>2. run[r].n \in 1 .. Len(Items)
    BY <1>1 DEF WorkerOK
<1> QED
    BY <1>1, <1>2, OwnItem DEF WorkerOK, AtItem, Physical

(* A worker that stays at its item. *)
LEMMA AtItemOK ==
    ASSUME IInv, NEW r \in Commands, run[r].pc \in AtItem, NEW to \in AtItem, NEW k,
           Turned(r, to, run[r].n, k, run[r].held), item'[Current(r)] = "running",
           k \in 1 .. Len(Parts[Current(r)]) + 1, \A o \in Objects : Begun(o) => Begun(o)',
           \/ to \in {"verify", "remove"}
           \/ /\ k = run[r].k /\ k <= Len(Parts[Current(r)])
              /\ object'[Part(r)] \in {"started", "removed"}
              /\ to = "confirm" => Part(r) \notin stored'
    PROVE WorkerOK(r)'
<1>1. /\ run[r].n \in 1 .. Len(Items) /\ \A o \in run[r].held : Begun(o)
      /\ run[r].held \subseteq Objects
    BY AtItemFacts DEF Runs
<1>2. Current(r)' = Current(r)
    BY DEF Turned, Current
<1>3. run'[r].pc = to /\ run'[r].n = run[r].n /\ run'[r].k = k /\ run'[r].held = run[r].held
    BY DEF Turned
<1>4. CASE to \in {"verify", "remove"}
    BY <1>1, <1>2, <1>3, <1>4 DEF WorkerOK, AtItem
<1>5. CASE /\ k = run[r].k /\ k <= Len(Parts[Current(r)])
           /\ object'[Part(r)] \in {"started", "removed"}
           /\ to = "confirm" => Part(r) \notin stored'
  <2>1. Part(r)' = Parts[Current(r)][run[r].k]
      BY <1>2, <1>3, <1>5 DEF Part
  <2>2. Begun(Parts[Current(r)][run[r].k])'
      BY <1>2, <1>3, <1>5 DEF Part, Begun
  <2> QED
      BY <1>1, <1>2, <1>3, <1>5, <2>1, <2>2 DEF WorkerOK, AtItem, Part, Begun
<1> QED
    BY <1>4, <1>5

(* The receipt of an object, and the intent to remove it, belong to its item alone. *)
LEMMA ObjectMoves ==
    ASSUME Types, ItemsOK, ObjectsOK, NEW i \in ItemSet, item[i] = "running",
           NEW o \in Range(Parts[i]), NEW s \in ObjectStates,
           Begun(o) => s \in {"started", "removed"}, s = "removed" => o \notin stored,
           object' = [object EXCEPT ![o] = s], UNCHANGED <<job, item, hidden, stored, inflight>>
    PROVE /\ ItemsOK' /\ ObjectsOK' /\ object' \in [Objects -> ObjectStates]
          /\ \A p \in Objects : Begun(p) => Begun(p)'
<1>1. o \in Objects
    BY PartsAreObjects
<1>2. object' \in [Objects -> ObjectStates] /\ object'[o] = s
      /\ \A p \in Objects \ {o} : object'[p] = object[p]
    BY <1>1 DEF Types
<1>3. ObjectsOK'
    BY <1>1, <1>2 DEF ObjectsOK, Begun
<1>4. Reserved(i)
    BY DEF Reserved, Reserving
<1>5. \A j \in ItemSet : \A p \in Range(Parts[j]) : Begun(p)' => Reserved(j)'
  <2> SUFFICES ASSUME NEW j \in ItemSet, NEW p \in Range(Parts[j]), Begun(p)'
               PROVE Reserved(j)
      BY DEF Reserved
  <2>1. CASE p = o
      BY <1>4, <2>1, OwnParts
  <2>2. CASE p # o
      BY <1>2, <2>2, PartsAreObjects DEF ItemsOK, Begun
  <2> QED
      BY <2>1, <2>2
<1>6. \A j \in ItemSet : item[j] = "succeeded" =>
          \A p \in Range(Parts[j]) : object'[p] = "removed"
  <2> SUFFICES ASSUME NEW j \in ItemSet, item[j] = "succeeded", NEW p \in Range(Parts[j])
               PROVE object'[p] = "removed"
      OBVIOUS
  <2>1. p # o
      BY OwnParts
  <2> QED
      BY <1>2, <2>1, PartsAreObjects DEF ItemsOK
<1>7. ItemsOK'
    BY <1>5, <1>6 DEF ItemsOK, Reserved
<1>8. \A p \in Objects : Begun(p) => Begun(p)'
    BY <1>1, <1>2 DEF Begun
<1> QED
    BY <1>2, <1>3, <1>7, <1>8

(* A worker fails at its item, or turns to another of its objects. *)
LEMMA FailingKeeps ==
    ASSUME IInv, NEW r \in Commands, run[r].pc \in AtItem, NEW code \in Codes,
           Failing(r, code), UNCHANGED <<job, item, object, library, storage, commands, faults>>
    PROVE IInv' /\ UNCHANGED <<Holders, job>>
<1>1. run[r].pc \in Physical /\ run \in [Commands -> Runs] /\ run[r].n \in 1 .. Len(Items)
    BY AtItemFacts
<1>2. Turned(r, "fail", run[r].n, run[r].k, run[r].held)
    BY <1>1, FailingTurns
<1>3. WorkerOK(r)'
    BY <1>1, <1>2, FailureOK
<1>4. faults' \in 0 .. MaxFaults
    BY DEF IInv, Types
<1> QED
    BY <1>1, <1>2, <1>3, <1>4, QuietTurn DEF Physical

LEMMA ItemTurnKeeps ==
    ASSUME IInv, NEW r \in Commands, run[r].pc \in AtItem, NEW to \in {"verify", "remove"},
           NEW k \in 1 .. Len(Parts[Current(r)]) + 1,
           Turned(r, to, run[r].n, k, run[r].held),
           UNCHANGED <<job, item, object, library, storage, commands, faults>>
    PROVE IInv' /\ UNCHANGED <<Holders, job>>
<1>1. run[r].pc \in Physical /\ run \in [Commands -> Runs] /\ item[Current(r)] = "running"
    BY AtItemFacts
<1>2. \A o \in Objects : Begun(o) => Begun(o)'
    BY DEF Begun
<1>3. to \in AtItem
    BY DEF AtItem
<1>4. WorkerOK(r)'
    BY <1>1, <1>2, <1>3, AtItemOK
<1>5. faults' \in 0 .. MaxFaults
    BY DEF IInv, Types
<1> QED
    BY <1>1, <1>4, <1>5, QuietTurn DEF Physical

LEMMA VerifyKeeps ==
    ASSUME IInv, NEW r \in Commands, Verify(r)
    PROVE IInv' /\ UNCHANGED <<Holders, job>>
<1> DEFINE i == Current(r)
           m == run[r].k + 1
<1>1. /\ run[r].pc = "verify" /\ run[r].pc \in AtItem
      /\ UNCHANGED <<job, item, library, storage, commands, faults>>
      /\ UNCHANGED <<catalog, hidden, stored, inflight>>
    BY DEF Verify, Working, AtItem, Storage, library, storage
<1>2. /\ run[r].pc \in Physical /\ run \in [Commands -> Runs] /\ i \in ItemSet
      /\ Len(Parts[i]) \in Nat /\ item[i] = "running" /\ run[r].k \in 1 .. Len(Parts[i]) + 1
    BY <1>1, AtItemFacts
<1>3. Types /\ ItemsOK /\ ObjectsOK
    BY DEF IInv
<1>4. ASSUME run' = [run EXCEPT ![r].pc = "remove", ![r].k = 1], UNCHANGED object
      PROVE IInv' /\ UNCHANGED <<Holders, job>>
  <2>1. Turned(r, "remove", run[r].n, 1, run[r].held)
      BY <1>2, <1>4, ObjectTurns DEF Places, Physical
  <2>2. 1 \in 1 .. Len(Parts[Current(r)]) + 1
      BY <1>2
  <2> QED
      BY <1>1, <1>4, <2>1, <2>2, ItemTurnKeeps
<1>5. ASSUME run[r].k <= Len(Parts[i]), run' = [run EXCEPT ![r].k = @ + 1]
      PROVE Turned(r, "verify", run[r].n, m, run[r].held) /\ m \in 1 .. Len(Parts[i]) + 1
  <2>1. m \in Nat /\ m \in 1 .. Len(Parts[i]) + 1
      BY <1>2, <1>5
  <2>2. run' = [run EXCEPT ![r].k = m]
      BY <1>5
  <2> HIDE DEF m
  <2> QED
      BY <1>1, <1>2, <2>1, <2>2, StayTurns
<1>6. ASSUME run[r].k <= Len(Parts[i]), run' = [run EXCEPT ![r].k = @ + 1], UNCHANGED object
      PROVE IInv' /\ UNCHANGED <<Holders, job>>
    BY <1>1, <1>5, <1>6, ItemTurnKeeps
<1>7. ASSUME NEW code \in Codes, Failing(r, code), UNCHANGED object
      PROVE IInv' /\ UNCHANGED <<Holders, job>>
    BY <1>1, <1>7, FailingKeeps
<1>8. ASSUME run[r].k <= Len(Parts[i]), Part(r) \in stored, object[Part(r)] # "removed",
             object' = [object EXCEPT ![Part(r)] = IF @ = "frozen" THEN "verified" ELSE @],
             run' = [run EXCEPT ![r].k = @ + 1]
      PROVE IInv' /\ UNCHANGED <<Holders, job>>
  <2> DEFINE s == IF object[Part(r)] = "frozen" THEN "verified" ELSE object[Part(r)]
  <2>1. Part(r) \in Range(Parts[i]) /\ Part(r) \in Objects
      BY <1>1, <1>8, OwnPart
  <2>2. s \in ObjectStates
      BY <1>3, <2>1 DEF Types, ObjectStates
  <2>3. object' = [object EXCEPT ![Part(r)] = s]
      BY <1>8
  <2>4. (Begun(Part(r)) => s \in {"started", "removed"}) /\ (s = "removed" => Part(r) \notin stored)
      BY <1>8 DEF Begun
  <2> HIDE DEF s, i
  <2>5. /\ ItemsOK' /\ ObjectsOK' /\ object' \in [Objects -> ObjectStates]
        /\ \A p \in Objects : Begun(p) => Begun(p)'
      BY <1>1, <1>2, <1>3, <2>1, <2>2, <2>3, <2>4, ObjectMoves
  <2>6. Turned(r, "verify", run[r].n, m, run[r].held) /\ m \in 1 .. Len(Parts[i]) + 1
      BY <1>5, <1>8
  <2> HIDE DEF m
  <2>7. WorkerOK(r)'
      BY <1>1, <1>2, <2>5, <2>6, AtItemOK DEF i, AtItem
  <2>8. /\ item' \in [ItemSet -> ItemStates] /\ stored' \subseteq Objects
        /\ catalog' \in [ItemSet -> {"active", "trashed", "removed"}]
        /\ inflight' \subseteq Objects /\ faults' \in 0 .. MaxFaults
      BY <1>1, <1>3 DEF Types
  <2> QED
      BY <1>1, <1>2, <2>5, <2>6, <2>7, <2>8, TurnKeeps DEF Physical
<1>9. run[r].k > Len(Parts[i]) \/ run[r].k <= Len(Parts[i])
    BY <1>2
<1> HIDE DEF m
<1> QED
    BY <1>4, <1>6, <1>7, <1>8, <1>9 DEF Verify, Codes

LEMMA BeginKeeps ==
    ASSUME IInv, NEW r \in Commands, Begin(r)
    PROVE IInv' /\ UNCHANGED <<Holders, job>>
<1> DEFINE i == Current(r)
           o == Part(r)
<1>1. /\ run[r].pc = "remove" /\ run[r].pc \in AtItem /\ run[r].k <= Len(Parts[i])
      /\ UNCHANGED <<job, item, library, storage, commands, faults>>
      /\ UNCHANGED <<catalog, hidden, stored, inflight>>
    BY DEF Begin, Working, AtItem, Storage, library, storage
<1>2. /\ run[r].pc \in Physical /\ run \in [Commands -> Runs] /\ i \in ItemSet
      /\ item[i] = "running" /\ run[r].k \in 1 .. Len(Parts[i]) + 1
      /\ \A p \in run[r].held : Begun(p)
    BY <1>1, AtItemFacts
<1>3. Types /\ ItemsOK /\ ObjectsOK
    BY DEF IInv
<1>4. o \in Range(Parts[i]) /\ o \in Objects
    BY <1>1, OwnPart
<1>5. ASSUME NEW to \in {"call", "confirm"}, Step(r, to), UNCHANGED object, o \in run[r].held,
             to = "confirm" => o \notin stored
      PROVE IInv' /\ UNCHANGED <<Holders, job>>
  <2>1. Turned(r, to, run[r].n, run[r].k, run[r].held)
      BY <1>2, <1>5, StepTurns DEF Places, Physical
  <2>2. to \in AtItem /\ to \in Physical
      BY DEF AtItem, Physical
  <2>3. (\A p \in Objects : Begun(p) => Begun(p)') /\ object'[o] \in {"started", "removed"}
      BY <1>2, <1>5 DEF Begun
  <2>4. WorkerOK(r)'
      BY <1>1, <1>2, <1>5, <2>1, <2>2, <2>3, AtItemOK
  <2>5. faults' \in 0 .. MaxFaults
      BY <1>1, <1>3 DEF Types
  <2> QED
      BY <1>1, <1>2, <1>5, <2>1, <2>2, <2>4, <2>5, QuietTurn
<1>6. ASSUME NEW code \in Codes, Failing(r, code), UNCHANGED object
      PROVE IInv' /\ UNCHANGED <<Holders, job>>
    BY <1>1, <1>6, FailingKeeps
<1>7. ASSUME object[o] = "verified", object' = [object EXCEPT ![o] = "started"],
             Step(r, "call")
      PROVE IInv' /\ UNCHANGED <<Holders, job>>
  <2>1. Turned(r, "call", run[r].n, run[r].k, run[r].held)
      BY <1>2, <1>7, StepTurns DEF Places, Physical
  <2> HIDE DEF o, i
  <2>2. /\ ItemsOK' /\ ObjectsOK' /\ object' \in [Objects -> ObjectStates]
        /\ \A p \in Objects : Begun(p) => Begun(p)'
      BY <1>1, <1>2, <1>3, <1>4, <1>7, ObjectMoves DEF ObjectStates
  <2>3. object'[o] \in {"started", "removed"}
      BY <1>3, <1>4, <1>7 DEF Types
  <2>5. WorkerOK(r)'
      BY <1>1, <1>2, <2>1, <2>2, <2>3, AtItemOK DEF i, o, AtItem
  <2>6. /\ item' \in [ItemSet -> ItemStates] /\ stored' \subseteq Objects
        /\ catalog' \in [ItemSet -> {"active", "trashed", "removed"}]
        /\ inflight' \subseteq Objects /\ faults' \in 0 .. MaxFaults
      BY <1>1, <1>3 DEF Types
  <2> QED
      BY <1>1, <1>2, <2>1, <2>2, <2>5, <2>6, TurnKeeps DEF Physical
<1> QED
    BY <1>5, <1>6, <1>7 DEF Begin, Codes

(* What only storage sees: bytes of an object that was begun go, or may go. *)
LEMMA StorageMoves ==
    ASSUME Types, ItemsOK, ObjectsOK, NEW o \in Objects, Begun(o),
           stored' \in {stored, stored \ {o}},
           inflight' \in {inflight, inflight \cup {o}, inflight \ {o}},
           UNCHANGED <<item, object, hidden>>, job'.status = "none" <=> job.status = "none"
    PROVE ItemsOK' /\ ObjectsOK' /\ stored' \subseteq Objects /\ inflight' \subseteq Objects
<1>1. ItemsOK'
    BY DEF ItemsOK, Reserved, Begun
<1>2. ObjectsOK'
    BY DEF ObjectsOK, Begun
<1> QED
    BY <1>1, <1>2 DEF Types

LEMMA CalledPart ==
    ASSUME IInv, NEW r \in Commands, run[r].pc \in {"call", "confirm"}
    PROVE /\ run[r].k <= Len(Parts[Current(r)]) /\ Begun(Part(r)) /\ Part(r) \in Objects
          /\ Part(r) \in Range(Parts[Current(r)]) /\ run[r].pc \in AtItem
          /\ run[r].pc = "confirm" => Part(r) \notin stored
<1>1. WorkerOK(r) /\ run[r].pc \in AtItem
    BY DEF IInv, AtItem
<1>2. run[r].k <= Len(Parts[Current(r)])
    BY <1>1 DEF WorkerOK
<1> QED
    BY <1>1, <1>2, OwnPart DEF WorkerOK

LEMMA RemoveKeeps ==
    ASSUME IInv, NEW r \in Commands, Remove(r)
    PROVE IInv' /\ UNCHANGED <<Holders, job>>
<1>1. /\ run[r].pc = "call" /\ stored' = stored \ {Part(r)} /\ Step(r, "confirm")
      /\ UNCHANGED <<job, item, object, catalog, hidden, inflight, commands, faults>>
    BY DEF Remove, Working, Storage
<1>2. /\ run[r].k <= Len(Parts[Current(r)]) /\ Begun(Part(r)) /\ Part(r) \in Objects
      /\ run[r].pc \in AtItem
    BY <1>1, CalledPart
<1>3. /\ run[r].pc \in Physical /\ run \in [Commands -> Runs] /\ item[Current(r)] = "running"
      /\ run[r].k \in 1 .. Len(Parts[Current(r)]) + 1
    BY <1>2, AtItemFacts
<1>4. Types /\ ItemsOK /\ ObjectsOK
    BY DEF IInv
<1>5. Turned(r, "confirm", run[r].n, run[r].k, run[r].held)
    BY <1>1, <1>3, StepTurns DEF Places, Physical
<1>6. ItemsOK' /\ ObjectsOK' /\ stored' \subseteq Objects /\ inflight' \subseteq Objects
    BY <1>1, <1>2, <1>4, StorageMoves
<1>7. (\A p \in Objects : Begun(p) => Begun(p)') /\ object'[Part(r)] \in {"started", "removed"}
    BY <1>1, <1>2 DEF Begun
<1>8. WorkerOK(r)'
    BY <1>1, <1>2, <1>3, <1>5, <1>7, AtItemOK DEF AtItem
<1>9. /\ item' \in [ItemSet -> ItemStates] /\ object' \in [Objects -> ObjectStates]
      /\ catalog' \in [ItemSet -> {"active", "trashed", "removed"}] /\ faults' \in 0 .. MaxFaults
    BY <1>1, <1>4 DEF Types
<1> QED
    BY <1>1, <1>3, <1>5, <1>6, <1>8, <1>9, TurnKeeps DEF Physical

LEMMA FaultBound ==
    ASSUME Types, Fault \/ UNCHANGED faults PROVE faults' \in 0 .. MaxFaults
BY PurgeAssumption DEF Types, Fault

LEMMA RemoveUnknownKeeps ==
    ASSUME IInv, NEW r \in Commands, RemoveUnknown(r)
    PROVE IInv' /\ UNCHANGED <<Holders, job>>
<1>1. /\ run[r].pc = "call" /\ inflight' = inflight \cup {Part(r)}
      /\ Failing(r, "object_remove_unknown") /\ (Fault \/ UNCHANGED faults)
      /\ UNCHANGED <<job, item, object, catalog, hidden, stored, commands>>
    BY DEF RemoveUnknown, Storage
<1>2. Begun(Part(r)) /\ Part(r) \in Objects /\ run[r].pc \in AtItem
    BY <1>1, CalledPart
<1>3. run[r].pc \in Physical /\ run \in [Commands -> Runs] /\ run[r].n \in 1 .. Len(Items)
    BY <1>2, AtItemFacts
<1>4. Types /\ ItemsOK /\ ObjectsOK
    BY DEF IInv
<1>5. Turned(r, "fail", run[r].n, run[r].k, run[r].held)
    BY <1>1, <1>3, FailingTurns DEF Codes
<1>6. ItemsOK' /\ ObjectsOK' /\ stored' \subseteq Objects /\ inflight' \subseteq Objects
    BY <1>1, <1>2, <1>4, StorageMoves
<1>7. WorkerOK(r)'
    BY <1>3, <1>5, FailureOK
<1>8. /\ item' \in [ItemSet -> ItemStates] /\ object' \in [Objects -> ObjectStates]
      /\ catalog' \in [ItemSet -> {"active", "trashed", "removed"}] /\ faults' \in 0 .. MaxFaults
    BY <1>1, <1>4, FaultBound DEF Types
<1> QED
    BY <1>1, <1>3, <1>5, <1>6, <1>7, <1>8, TurnKeeps DEF Physical

LEMMA ConfirmKeeps ==
    ASSUME IInv, NEW r \in Commands, Confirm(r)
    PROVE IInv' /\ UNCHANGED <<Holders, job>>
<1> DEFINE i == Current(r)
           o == Part(r)
           m == run[r].k + 1
<1>1. /\ run[r].pc = "confirm"
      /\ UNCHANGED <<job, item, library, storage, commands, faults>>
      /\ UNCHANGED <<catalog, hidden, stored, inflight>>
    BY DEF Confirm, Working, Storage, library, storage
<1>2. /\ run[r].k <= Len(Parts[i]) /\ o \in Range(Parts[i]) /\ run[r].pc \in AtItem
      /\ o \notin stored
    BY <1>1, CalledPart
<1>3. /\ run[r].pc \in Physical /\ run \in [Commands -> Runs] /\ i \in ItemSet
      /\ Len(Parts[i]) \in Nat /\ item[i] = "running" /\ run[r].k \in 1 .. Len(Parts[i]) + 1
    BY <1>2, AtItemFacts
<1>4. Types /\ ItemsOK /\ ObjectsOK
    BY DEF IInv
<1>5. ASSUME Failing(r, "object_remove_unknown"), UNCHANGED object
      PROVE IInv' /\ UNCHANGED <<Holders, job>>
    BY <1>1, <1>2, <1>5, FailingKeeps DEF Codes
<1>6. ASSUME object' = [object EXCEPT ![o] = "removed"],
             run' = [run EXCEPT ![r].pc = "remove", ![r].k = @ + 1]
      PROVE IInv' /\ UNCHANGED <<Holders, job>>
  <2>1. m \in Nat /\ m \in 1 .. Len(Parts[i]) + 1
      BY <1>2, <1>3
  <2>2. run' = [run EXCEPT ![r].pc = "remove", ![r].k = m]
      BY <1>3, <1>6 DEF Runs
  <2> HIDE DEF m, i, o
  <2>3. Turned(r, "remove", run[r].n, m, run[r].held)
      BY <1>3, <2>1, <2>2, ObjectTurns DEF Places, Physical
  <2>4. /\ ItemsOK' /\ ObjectsOK' /\ object' \in [Objects -> ObjectStates]
        /\ \A p \in Objects : Begun(p) => Begun(p)'
      BY <1>1, <1>2, <1>3, <1>4, <1>6, ObjectMoves DEF ObjectStates
  <2>5. WorkerOK(r)'
      BY <1>1, <1>2, <1>3, <2>1, <2>3, <2>4, AtItemOK DEF i, AtItem
  <2>6. /\ item' \in [ItemSet -> ItemStates] /\ stored' \subseteq Objects
        /\ catalog' \in [ItemSet -> {"active", "trashed", "removed"}]
        /\ inflight' \subseteq Objects /\ faults' \in 0 .. MaxFaults
      BY <1>1, <1>4 DEF Types
  <2> QED
      BY <1>1, <1>3, <2>3, <2>4, <2>5, <2>6, TurnKeeps DEF Physical
<1> QED
    BY <1>5, <1>6 DEF Confirm

LEMMA CompletePurgeItemKeeps ==
    ASSUME IInv, NEW r \in Commands, CompletePurgeItem(r)
    PROVE IInv' /\ UNCHANGED <<Holders, job>>
<1> DEFINE i == Current(r)
<1>1. /\ run[r].pc = "remove" /\ run[r].pc \in AtItem
      /\ UNCHANGED <<job, object, hidden, storage, commands, faults>>
      /\ UNCHANGED <<stored, inflight>>
    BY DEF CompletePurgeItem, Working, AtItem, storage
<1>2. /\ run[r].pc \in Physical /\ run \in [Commands -> Runs] /\ i \in ItemSet
      /\ item[i] = "running" /\ run[r].n \in 1 .. Len(Items)
    BY <1>1, AtItemFacts
<1>3. Types /\ ItemsOK /\ ObjectsOK
    BY DEF IInv
<1>4. ASSUME Failing(r, "refused"), UNCHANGED <<item, catalog>>
      PROVE IInv' /\ UNCHANGED <<Holders, job>>
    BY <1>1, <1>4, FailingKeeps DEF Codes, library
<1>5. ASSUME \A o \in Range(Parts[i]) : object[o] = "removed",
             item' = [item EXCEPT ![i] = "succeeded"],
             catalog' = [catalog EXCEPT ![i] = "removed"], NextItem(r)
      PROVE IInv' /\ UNCHANGED <<Holders, job>>
  <2> HIDE DEF i
  <2>1. Turned(r, "item", run[r].n + 1, 0, {}) /\ run[r].n + 1 \in 1 .. Len(Items) + 1
      BY <1>2, <1>5, NextItemTurns, PurgeAssumption
  <2>2. WorkerOK(r)'
      BY <2>1, AfterOK
  <2>3. /\ item' \in [ItemSet -> ItemStates] /\ item'[i] = "succeeded"
        /\ \A j \in ItemSet \ {i} : item'[j] = item[j]
      BY <1>2, <1>3, <1>5 DEF Types, ItemStates
  <2>4. Reserved(i)
      BY <1>2 DEF Reserved, Reserving
  <2>5. \A j \in ItemSet : Reserved(j)' <=> Reserved(j)
      BY <2>3, <2>4 DEF Reserved, Reserving
  <2>6. (\A j \in ItemSet : item'[j] = "none" <=> job'.status = "none") /\ hidden' = hidden
      BY <1>1, <1>2, <2>3 DEF ItemsOK, IInv
  <2>7. \A j \in ItemSet : item'[j] = "succeeded" =>
            \A o \in Range(Parts[j]) : object'[o] = "removed"
      BY <1>1, <1>3, <1>5, <2>3 DEF ItemsOK
  <2>8. ItemsOK'
      BY <1>1, <1>3, <2>5, <2>6, <2>7 DEF ItemsOK, Begun
  <2>9. ObjectsOK' /\ object' \in [Objects -> ObjectStates] /\ stored' \subseteq Objects
        /\ inflight' \subseteq Objects /\ faults' \in 0 .. MaxFaults
      BY <1>1, <1>3 DEF ObjectsOK, Begun, Types
  <2>10. catalog' \in [ItemSet -> {"active", "trashed", "removed"}]
      BY <1>2, <1>3, <1>5 DEF Types
  <2> QED
      BY <1>1, <1>2, <2>1, <2>2, <2>3, <2>8, <2>9, <2>10, TurnKeeps DEF Physical
<1> QED
    BY <1>4, <1>5 DEF CompletePurgeItem

(* A worker goes over to the end of its work, or dies. *)
LEMMA LeavingKeeps ==
    ASSUME IInv, NEW r \in Commands, run[r].pc \in Physical, NEW to \in {"end", "dead"},
           Leave(r, to), UNCHANGED <<job, item, object, library, storage, commands>>,
           faults' \in 0 .. MaxFaults
    PROVE IInv' /\ UNCHANGED <<Holders, job>>
<1>1. run \in [Commands -> Runs] /\ to \in Places
    BY DEF IInv, Types, Places, Physical
<1>2. Turned(r, to, 0, 0, {})
    BY <1>1, LeaveTurns
<1>3. WorkerOK(r)'
    BY <1>2, GoneOK
<1> QED
    BY <1>2, <1>3, QuietTurn DEF Physical

LEMMA LastItemKeeps ==
    ASSUME IInv, NEW r \in Commands, LastItem(r)
    PROVE IInv' /\ UNCHANGED <<Holders, job>>
<1>1. faults' \in 0 .. MaxFaults
    BY DEF LastItem, IInv, Types
<1> QED
    BY <1>1, LeavingKeeps DEF LastItem, Working, Physical

LEMMA InterruptedKeeps ==
    ASSUME IInv, NEW r \in Commands, Interrupted(r)
    PROVE IInv' /\ UNCHANGED <<Holders, job>>
<1>1. /\ run[r].pc \in Physical /\ faults' \in 0 .. MaxFaults
      /\ UNCHANGED <<job, item, object, library, storage, commands>>
    BY DEF Interrupted, IInv, Types, Physical
<1>2. CASE Leave(r, "end")
    BY <1>1, <1>2, LeavingKeeps
<1>3. CASE Failing(r, "worker_interrupted") /\ ~(run[r].pc = "item" /\ run[r].n > Len(Items))
  <2>1. WorkerOK(r) /\ run \in [Commands -> Runs]
      BY DEF IInv, Types
  <2>2. run[r].n \in 1 .. Len(Items)
      BY <1>3, <2>1, PurgeAssumption DEF Interrupted, WorkerOK, AtItem
  <2>3. Turned(r, "fail", run[r].n, run[r].k, run[r].held)
      BY <1>3, <2>1, FailingTurns DEF Codes
  <2>4. WorkerOK(r)'
      BY <2>2, <2>3, FailureOK
  <2> QED
      BY <1>1, <2>3, <2>4, QuietTurn DEF Physical
<1> QED
    BY <1>2, <1>3 DEF Interrupted

LEMMA FailPurgeItemKeeps ==
    ASSUME IInv, NEW r \in Commands, FailPurgeItem(r)
    PROVE IInv' /\ UNCHANGED <<Holders, job>>
<1> DEFINE i == Current(r)
<1>1. /\ run[r].pc = "fail" /\ run[r].pc \in Physical
      /\ UNCHANGED <<job, object, catalog, storage, commands, faults>>
      /\ UNCHANGED <<stored, inflight>>
    BY DEF FailPurgeItem, storage, Physical
<1>2. Types /\ ItemsOK /\ ObjectsOK /\ WorkerOK(r) /\ run \in [Commands -> Runs]
    BY DEF IInv, Types
<1>3. run[r].n \in 1 .. Len(Items) /\ run[r].n + 1 \in 1 .. Len(Items) + 1 /\ i \in ItemSet
    BY <1>1, <1>2, OwnItem, PurgeAssumption DEF WorkerOK
<1>4. /\ ObjectsOK' /\ object' \in [Objects -> ObjectStates] /\ stored' \subseteq Objects
      /\ inflight' \subseteq Objects /\ faults' \in 0 .. MaxFaults
      /\ catalog' \in [ItemSet -> {"active", "trashed", "removed"}]
    BY <1>1, <1>2 DEF ObjectsOK, Begun, Types
<1>5. CASE Leave(r, "end") /\ UNCHANGED <<item, hidden>>
    BY <1>1, <1>4, <1>5, LeavingKeeps DEF library
<1>6. ASSUME item[i] \notin Settled,
             \/ Untouched(i) /\ GiveBack({i})
             \/ item' = [item EXCEPT ![i] = "needs_reconciliation"] /\ UNCHANGED hidden,
             Leave(r, "end") \/ NextItem(r)
      PROVE IInv' /\ UNCHANGED <<Holders, job>>
  <2> HIDE DEF i
  <2>1. item[i] # "none"
      BY <1>1, <1>2, <1>3, Acting DEF ItemsOK, Reconcilable
  <2>2. ItemsOK' /\ item' \in [ItemSet -> ItemStates]
    <3>1. CASE Untouched(i) /\ GiveBack({i})
        BY <1>1, <1>2, <1>3, <2>1, <3>1, GiveBackKeeps
    <3>2. CASE item' = [item EXCEPT ![i] = "needs_reconciliation"] /\ UNCHANGED hidden
        BY <1>1, <1>2, <1>3, <1>6, <2>1, <3>2, ResumeKeeps
    <3> QED
        BY <1>6, <3>1, <3>2
  <2>3. CASE Leave(r, "end")
    <3>1. Turned(r, "end", 0, 0, {})
        BY <1>2, <2>3, LeaveTurns DEF Places, Physical
    <3>2. WorkerOK(r)'
        BY <3>1, GoneOK
    <3> QED
        BY <1>1, <1>4, <2>2, <3>1, <3>2, TurnKeeps DEF Physical
  <2>4. CASE NextItem(r)
    <3>1. Turned(r, "item", run[r].n + 1, 0, {})
        BY <1>2, <2>4, NextItemTurns
    <3>2. WorkerOK(r)'
        BY <1>3, <3>1, AfterOK
    <3> QED
        BY <1>1, <1>4, <2>2, <3>1, <3>2, TurnKeeps DEF Physical
  <2> QED
      BY <1>6, <2>3, <2>4
<1> QED
    BY <1>5, <1>6 DEF FailPurgeItem

-----------------------------------------------------------------------------
(* The job's row *)

LEMMA JobStatus ==
    ASSUME job \in Jobs, NEW s, s \in {"none", "queued"} \cup Reconcilable \cup Terminal,
           job' = [job EXCEPT !.status = s]
    PROVE /\ job' \in Jobs /\ job'.status = s
          /\ job'.attempt = job.attempt /\ job'.ended = job.ended /\ job'.fence = job.fence
<1>1. job' \in Jobs
    BY Zenon DEF Jobs
<1> QED
    BY <1>1 DEF Jobs

LEMMA JobAgain ==
    ASSUME job \in Jobs, job' = [job EXCEPT !.status = "queued", !.attempt = @ + 1]
    PROVE /\ job' \in Jobs /\ job'.status = "queued"
          /\ job'.attempt = job.attempt + 1 /\ job'.ended = job.ended /\ job'.fence = job.fence
<1> DEFINE a == job.attempt + 1
<1>1. a \in Nat
    BY DEF Jobs
<1>2. job' = [job EXCEPT !.status = "queued", !.attempt = a]
    OBVIOUS
<1> HIDE DEF a
<1>3. job' \in Jobs
    BY <1>1, <1>2, Zenon DEF Jobs
<1> QED
    BY <1>3 DEF Jobs

LEMMA JobCancels ==
    ASSUME job \in Jobs, NEW s \in {"cancelled", "cancel_requested"},
           job' = [job EXCEPT !.cancel = TRUE, !.status = s]
    PROVE /\ job' \in Jobs /\ job'.status = s
          /\ job'.attempt = job.attempt /\ job'.ended = job.ended /\ job'.fence = job.fence
<1>1. s \in {"none", "queued"} \cup Reconcilable \cup Terminal
    BY DEF Reconcilable, Terminal
<1>2. job' \in Jobs
    BY <1>1, Zenon DEF Jobs
<1> QED
    BY <1>2 DEF Jobs

LEMMA JobClaimed ==
    ASSUME job \in Jobs, NEW r \in Commands,
           job' = [job EXCEPT !.status = "running", !.ended = FALSE, !.fence = r, !.leased = TRUE]
    PROVE /\ job' \in Jobs /\ job'.status = "running"
          /\ job'.attempt = job.attempt /\ ~job'.ended /\ job'.fence = r
<1>1. "running" \in {"none", "queued"} \cup Reconcilable \cup Terminal /\ r \in Nat
    BY PurgeAssumption DEF Reconcilable, Commands
<1>2. job' \in Jobs
    BY <1>1, Zenon DEF Jobs
<1> QED
    BY <1>2 DEF Jobs

LEMMA JobEnds ==
    ASSUME job \in Jobs, job' = [job EXCEPT !.ended = TRUE, !.unconfirmed = FALSE]
    PROVE /\ job' \in Jobs /\ job'.status = job.status
          /\ job'.attempt = job.attempt /\ job'.ended /\ job'.fence = job.fence
<1>1. job' \in Jobs
    BY Zenon DEF Jobs
<1> QED
    BY <1>1 DEF Jobs

LEMMA JobUnleased ==
    ASSUME job \in Jobs, job' = [job EXCEPT !.leased = FALSE]
    PROVE /\ job' \in Jobs /\ job'.status = job.status
          /\ job'.attempt = job.attempt /\ job'.ended = job.ended /\ job'.fence = job.fence
<1>1. job' \in Jobs
    BY Zenon DEF Jobs
<1> QED
    BY <1>1 DEF Jobs

LEMMA JobInterrupted ==
    ASSUME job \in Jobs,
           job' = [job EXCEPT !.status = "needs_reconciliation", !.unconfirmed = ~job.ended]
    PROVE /\ job' \in Jobs /\ job'.status = "needs_reconciliation"
          /\ job'.attempt = job.attempt /\ job'.ended = job.ended /\ job'.fence = job.fence
<1> DEFINE u == ~job.ended
<1>1. u \in BOOLEAN
    BY Zenon
<1>2. "needs_reconciliation" \in {"none", "queued"} \cup Reconcilable \cup Terminal
    BY DEF Reconcilable
<1>3. job' = [job EXCEPT !.status = "needs_reconciliation", !.unconfirmed = u]
    OBVIOUS
<1> HIDE DEF u
<1>4. job' \in Jobs
    BY <1>1, <1>2, <1>3, Zenon DEF Jobs
<1> QED
    BY <1>3, <1>4 DEF Jobs

-----------------------------------------------------------------------------
(* Steps outside the worker *)

Acts(c) == run[c].pc \in Physical \cup {"dead"}
Alike(c) ==
    \/ run'[c].pc = run[c].pc /\ run'[c].n = run[c].n /\ run'[c].k = run[c].k
       /\ run'[c].held = run[c].held /\ run'[c].attempt = run[c].attempt
    \/ ~Acts(c) /\ ~Acts(c)'

(* No worker moves. *)
LEMMA AllAlike ==
    ASSUME IInv, \A c \in Commands : Alike(c), UNCHANGED <<item, object>>,
           stored' \subseteq stored,
           job'.fence = job.fence, job'.ended = job.ended, job'.attempt = job.attempt,
           job.status \in Reconcilable => job'.status \in Reconcilable
    PROVE Holders' = Holders /\ HolderKnown' /\ \A c \in Commands : WorkerOK(c)'
<1>1. Holders' = Holders
    BY DEF Alike, Acts, Holders
<1>2. HolderKnown'
    BY <1>1 DEF IInv, HolderKnown, Alike, Acts, Holders
<1>3. ASSUME NEW c \in Commands PROVE WorkerOK(c)'
  <2>1. CASE ~Acts(c)'
      BY <2>1 DEF Acts, WorkerOK, AtItem, Physical
  <2>2. CASE run'[c].pc = run[c].pc /\ run'[c].n = run[c].n /\ run'[c].k = run[c].k
             /\ run'[c].held = run[c].held /\ run'[c].attempt = run[c].attempt
    <3>1. Current(c)' = Current(c) /\ Part(c)' = Part(c)
        BY <2>2 DEF Current, Part
    <3>2. WorkerOK(c)
        BY DEF IInv
    <3> QED
        BY <2>2, <3>1, <3>2 DEF WorkerOK, Begun
  <2> QED
      BY <2>1, <2>2 DEF Alike
<1> QED
    BY <1>1, <1>2, <1>3

LEMMA NobodyActs ==
    ASSUME \A c \in Commands : ~Acts(c)
    PROVE Holders = {} /\ HolderKnown /\ \A c \in Commands : WorkerOK(c)
BY DEF Acts, Holders, HolderKnown, WorkerOK, AtItem, Physical

LEMMA EndedIsQuiet ==
    ASSUME HolderKnown, job.ended PROVE \A c \in Commands : ~Acts(c)
BY DEF HolderKnown, Holders, Acts

LEMMA RunChanged ==
    ASSUME NEW r \in Commands, NEW to, NEW n, NEW k, NEW held, Turned(r, to, n, k, held),
           ~Acts(r), to \notin Physical \cup {"dead"}
    PROVE \A c \in Commands : Alike(c)
BY DEF Turned, Alike, Acts

LEMMA EndPurgePhysicalKeeps ==
    ASSUME IInv, NEW r \in Commands, EndPurgePhysical(r)
    PROVE IInv' /\ Holders = {r} /\ Holders' = {} /\ job'.status = job.status
<1>1. /\ run[r].pc = "end" /\ run[r].pc \in Physical
      /\ UNCHANGED <<item, object, library, storage, commands, faults>>
      /\ UNCHANGED <<catalog, hidden, stored, inflight>>
    BY DEF EndPurgePhysical, Physical, Unclaimed, library, storage
<1>2. Types /\ Counted /\ HolderKnown /\ ItemsOK /\ ObjectsOK /\ NothingHalfDone
    BY DEF IInv
<1>3. r \in Holders /\ job.attempt = run[r].attempt /\ job.fence = r
    BY <1>1, <1>2 DEF Holders, HolderKnown
<1>4. job' = [job EXCEPT !.ended = TRUE, !.unconfirmed = FALSE] /\ Leave(r, "finish")
    BY <1>3 DEF EndPurgePhysical
<1>5. /\ job' \in Jobs /\ job'.status = job.status
      /\ job'.attempt = job.attempt /\ job'.ended /\ job'.fence = job.fence
    BY <1>2, <1>4, JobEnds DEF Types
<1>6. Turned(r, "finish", 0, 0, {})
    BY <1>2, <1>4, LeaveTurns DEF Types, Places
<1>7. \A c \in Commands \ {r} : c \notin Holders
    BY <1>2, <1>3, OneHolder
<1>8. \A c \in Commands : ~Acts(c)'
    BY <1>6, <1>7 DEF Turned, Acts, Holders, Physical
<1>9. Holders' = {} /\ HolderKnown' /\ \A c \in Commands : WorkerOK(c)'
    BY <1>8 DEF Acts, Holders, HolderKnown, WorkerOK, AtItem, Physical
<1>10. Types'
    BY <1>1, <1>2, <1>5, <1>6 DEF Types, Turned
<1>11. Counted'
    BY <1>1, <1>2, <1>5, <1>6 DEF Counted, Turned
<1>12. ItemsOK' /\ ObjectsOK' /\ NothingHalfDone'
    BY <1>1, <1>2, <1>5, ItemsUnchanged DEF library, NothingHalfDone
<1>13. Holders = {r}
    BY <1>3, <1>7 DEF Holders
<1> QED
    BY <1>5, <1>9, <1>10, <1>11, <1>12, <1>13 DEF IInv

(* What PhysicalWork sees of a step that neither begins nor ends a process. *)
Settles ==
    /\ UNCHANGED Holders
    /\ Ended => Ended'
    /\ Holders = {} \/ (Ended' => Ended)

LEMMA StatusKept ==
    ASSUME job'.status = job.status, UNCHANGED Holders PROVE Settles
BY DEF Settles, Ended

LEMMA OutcomeIsHonest ==
    ASSUME Types
    PROVE /\ Outcome \in {"needs_reconciliation"} \cup Terminal
          /\ Outcome \in Terminal => \A i \in ItemSet : item[i] \in Settled
          /\ (\A i \in ItemSet : item[i] \in Settled) => Outcome \in Terminal
<1>1. CASE \E i \in ItemSet : item[i] \notin Settled
    BY <1>1 DEF Outcome, Terminal
<1>2. CASE ~\E i \in ItemSet : item[i] \notin Settled
    BY <1>2 DEF Outcome, Terminal
<1> QED
    BY <1>1, <1>2

LEMMA FinishPurgeKeeps ==
    ASSUME IInv, NEW r \in Commands, FinishPurge(r)
    PROVE IInv' /\ Settles
<1>1. /\ run[r].pc = "finish" /\ UNCHANGED <<item, object, library, storage, commands, faults>>
      /\ UNCHANGED <<catalog, hidden, stored, inflight>>
    BY DEF FinishPurge, Unclaimed, library, storage
<1>2. Types /\ Counted /\ HolderKnown /\ ItemsOK /\ ObjectsOK /\ NothingHalfDone
    BY DEF IInv
<1>3. ~Acts(r) /\ run \in [Commands -> Runs]
    BY <1>1, <1>2 DEF Acts, Physical, Types
<1>4. ASSUME NEW to \in {"closed", "failed"}, Leave(r, to),
             job' \in Jobs, job'.attempt = job.attempt, job'.ended = job.ended,
             job'.fence = job.fence,
             job.status \in Reconcilable => job'.status \in Reconcilable \/ job.ended,
             job'.status # "none", job.status # "none", Counted', NothingHalfDone'
      PROVE IInv' /\ UNCHANGED Holders
  <2>1. Turned(r, to, 0, 0, {})
      BY <1>3, <1>4, LeaveTurns DEF Places
  <2>2. \A c \in Commands : Alike(c)
      BY <1>3, <2>1, RunChanged DEF Physical
  <2>3. Holders' = Holders /\ HolderKnown' /\ \A c \in Commands : WorkerOK(c)'
    <3>1. CASE ~job.ended
        BY <1>1, <1>4, <2>2, <3>1, AllAlike
    <3>2. CASE job.ended
      <4>1. \A c \in Commands : ~Acts(c)
          BY <1>2, <3>2, EndedIsQuiet
      <4>2. \A c \in Commands : ~Acts(c)'
          BY <2>2, <4>1 DEF Alike, Acts
      <4> QED
          BY <4>1, <4>2 DEF Acts, Holders, HolderKnown, WorkerOK, AtItem, Physical
    <3> QED
        BY <3>1, <3>2
  <2>4. ItemsOK' /\ ObjectsOK'
      BY <1>1, <1>2, <1>4, ItemsUnchanged DEF library
  <2>5. Types'
      BY <1>1, <1>2, <1>4, <2>1 DEF Types, Turned
  <2> QED
      BY <1>4, <2>3, <2>4, <2>5 DEF IInv
<1>5. job.status # "none" /\ commands >= 1
    BY <1>1, <1>2, PurgeAssumption DEF Counted, Types, Commands
<1>6. CASE job.fence = r /\ job.ended /\ job' = [job EXCEPT !.status = Outcome]
         /\ Leave(r, "closed")
  <2>1. Outcome \in {"none", "queued"} \cup Reconcilable \cup Terminal /\ Outcome # "none"
      BY <1>2, OutcomeIsHonest DEF Reconcilable, Terminal
  <2>2. /\ job' \in Jobs /\ job'.status = Outcome
        /\ job'.attempt = job.attempt /\ job'.ended = job.ended /\ job'.fence = job.fence
      BY <1>2, <1>6, <2>1, JobStatus DEF Types
  <2>3. NothingHalfDone'
      BY <1>1, <1>2, <2>2, OutcomeIsHonest DEF NothingHalfDone
  <2>4. Counted'
    <3>1. Turned(r, "closed", 0, 0, {})
        BY <1>3, <1>6, LeaveTurns DEF Places
    <3> QED
        BY <1>1, <1>2, <1>5, <2>1, <2>2, <3>1 DEF Counted, Turned
  <2>5. IInv' /\ UNCHANGED Holders
      BY <1>4, <1>5, <1>6, <2>1, <2>2, <2>3, <2>4
  <2>6. Holders = {}
      BY <1>2, <1>6, EndedIsQuiet DEF Acts, Holders
  <2>7. Ended => Ended'
      BY <1>2, <2>2, OutcomeIsHonest DEF Ended, NothingHalfDone
  <2> QED
      BY <2>5, <2>6, <2>7 DEF Settles
<1>7. CASE UNCHANGED job /\ Leave(r, "failed")
  <2>1. Turned(r, "failed", 0, 0, {})
      BY <1>3, <1>7, LeaveTurns DEF Places
  <2>2. Counted' /\ NothingHalfDone' /\ job' \in Jobs
      BY <1>1, <1>2, <1>7, <2>1 DEF Counted, Turned, NothingHalfDone, Types
  <2>3. IInv' /\ UNCHANGED Holders
      BY <1>4, <1>5, <1>7, <2>2
  <2> QED
      BY <1>7, <2>3, StatusKept
<1> QED
    BY <1>6, <1>7 DEF FinishPurge

(* The job and the library stay, and no worker moves. *)
LEMMA AlikeKeeps ==
    ASSUME IInv, \A c \in Commands : Alike(c), run' \in [Commands -> Runs], job' \in Jobs,
           UNCHANGED <<item, object, hidden, storage>>,
           catalog' \in [ItemSet -> {"active", "trashed", "removed"}], faults' \in 0 .. MaxFaults,
           commands' \in 0 .. MaxCommands, Counted',
           job'.fence = job.fence, job'.ended = job.ended, job'.attempt = job.attempt,
           \/ job'.status = job.status
           \/ job'.status \in Reconcilable /\ job.status \notin Terminal \cup {"none"}
    PROVE IInv' /\ Settles
<1>1. Types /\ ItemsOK /\ ObjectsOK /\ NothingHalfDone /\ UNCHANGED <<stored, inflight>>
    BY DEF IInv, storage
<1>2. Holders' = Holders /\ HolderKnown' /\ \A c \in Commands : WorkerOK(c)'
    BY <1>1, AllAlike
<1>3. ItemsOK' /\ ObjectsOK'
    BY <1>1, ItemsUnchanged DEF Reconcilable
<1>4. NothingHalfDone'
    BY <1>1 DEF NothingHalfDone, Reconcilable, Terminal
<1>5. Types'
    BY <1>1 DEF Types
<1>6. Settles
    BY <1>2 DEF Settles, Ended, Reconcilable, Terminal
<1> QED
    BY <1>2, <1>3, <1>4, <1>5, <1>6 DEF IInv

LEMMA CrashKeeps ==
    ASSUME IInv, NEW r \in Commands, Crash(r)
    PROVE IInv' /\ Settles
<1>1. /\ UNCHANGED <<job, item, object, library, stored, commands>>
      /\ UNCHANGED <<catalog, hidden>> /\ job'.status = job.status
    BY DEF Crash, library
<1>2. Types /\ Counted /\ ItemsOK /\ ObjectsOK /\ faults' \in 0 .. MaxFaults
    BY FaultBound DEF Crash, IInv
<1>3. CASE run[r].pc \in Physical /\ run[r].pc # "call"
  <2>1. Leave(r, "dead") /\ UNCHANGED storage
      BY <1>1, <1>3 DEF Crash, Physical, storage
  <2> QED
      BY <1>1, <1>2, <1>3, <2>1, LeavingKeeps, StatusKept
<1>4. CASE run[r].pc = "call"
  <2>1. Leave(r, "dead") /\ inflight' = inflight \cup {Part(r)} /\ run[r].pc \in Physical
      BY <1>4 DEF Crash, Physical
  <2>2. Turned(r, "dead", 0, 0, {})
      BY <1>2, <2>1, LeaveTurns DEF Types, Places
  <2>3. WorkerOK(r)'
      BY <2>2, GoneOK
  <2>4. Begun(Part(r)) /\ Part(r) \in Objects
      BY <1>4, CalledPart
  <2>5. ItemsOK' /\ ObjectsOK' /\ stored' \subseteq Objects /\ inflight' \subseteq Objects
      BY <1>1, <1>2, <2>1, <2>4, StorageMoves
  <2>6. /\ item' \in [ItemSet -> ItemStates] /\ object' \in [Objects -> ObjectStates]
        /\ catalog' \in [ItemSet -> {"active", "trashed", "removed"}]
      BY <1>1, <1>2 DEF Types
  <2> QED
      BY <1>1, <1>2, <2>1, <2>2, <2>3, <2>5, <2>6, TurnKeeps, StatusKept
<1>5. CASE run[r].pc = "finish"
  <2>1. Leave(r, "failed") /\ UNCHANGED storage
      BY <1>1, <1>5 DEF Crash, storage
  <2>2. Turned(r, "failed", 0, 0, {})
      BY <1>2, <2>1, LeaveTurns DEF Types, Places
  <2>3. \A c \in Commands : Alike(c)
      BY <1>5, <2>2, RunChanged DEF Acts, Physical
  <2>4. Counted'
      BY <1>1, <1>2, <1>5, <2>2 DEF Counted, Turned
  <2>5. job' \in Jobs /\ commands' \in 0 .. MaxCommands /\ run' \in [Commands -> Runs]
        /\ catalog' \in [ItemSet -> {"active", "trashed", "removed"}]
      BY <1>1, <1>2, <2>2 DEF Types, Turned
  <2> QED
      BY <1>1, <1>2, <2>1, <2>3, <2>4, <2>5, AlikeKeeps
<1> QED
    BY <1>3, <1>4, <1>5 DEF Crash

LEMMA InterruptKeeps ==
    ASSUME IInv, NEW r \in Commands, Interrupt(r)
    PROVE IInv' /\ Settles
<1>1. UNCHANGED <<item, object, library, storage, commands, hidden, catalog>>
    BY DEF Interrupt, library
<1>2. Types /\ Counted
    BY DEF IInv
<1>3. faults' \in 0 .. MaxFaults
    BY <1>2, FaultBound DEF Interrupt
<1>4. (\A c \in Commands : Alike(c)) /\ run' \in [Commands -> Runs]
      /\ \A c \in Commands : run'[c].pc # "none" => run[c].pc # "none"
  <2>1. CASE UNCHANGED run
      BY <1>2, <2>1 DEF Alike, Types
  <2>2. CASE run[r].pc = "failed" /\ Leave(r, "closed")
    <3>1. Turned(r, "closed", 0, 0, {})
        BY <1>2, <2>2, LeaveTurns DEF Types, Places
    <3> QED
        BY <2>2, <3>1, RunChanged DEF Turned, Acts, Physical
  <2> QED
      BY <2>1, <2>2 DEF Interrupt
<1>5. /\ job' \in Jobs /\ job'.attempt = job.attempt /\ job'.ended = job.ended
      /\ job'.fence = job.fence
      /\ \/ job'.status = job.status
         \/ /\ job'.status = "needs_reconciliation" /\ job.status \notin Terminal
            /\ job.fence = r
  <2>1. CASE UNCHANGED job
      BY <1>2, <2>1 DEF Types
  <2>2. CASE /\ job.fence = r /\ job.status \notin Terminal
             /\ job' = [job EXCEPT !.status = "needs_reconciliation", !.unconfirmed = ~job.ended]
      BY <1>2, <2>2, JobInterrupted DEF Types
  <2> QED
      BY <2>1, <2>2 DEF Interrupt, InterruptPurge
<1>6. job.fence = r => commands >= 1 /\ job.status # "none"
    BY <1>2, PurgeAssumption DEF Counted, Types, Commands
<1>7. Counted'
    BY <1>1, <1>2, <1>4, <1>5, <1>6 DEF Counted
<1>8. \/ job'.status = job.status
      \/ job'.status \in Reconcilable /\ job.status \notin Terminal \cup {"none"}
    BY <1>5, <1>6 DEF Reconcilable
<1>9. /\ commands' \in 0 .. MaxCommands
      /\ catalog' \in [ItemSet -> {"active", "trashed", "removed"}]
    BY <1>1, <1>2 DEF Types
<1> QED
    BY <1>1, <1>3, <1>4, <1>5, <1>7, <1>8, <1>9, AlikeKeeps

LEMMA LeaseExpiresKeeps ==
    ASSUME IInv, LeaseExpires
    PROVE IInv' /\ Settles
<1>1. /\ UNCHANGED <<item, object, library, storage, run, commands, hidden, catalog>>
      /\ job' = [job EXCEPT !.leased = FALSE] /\ Fault
    BY DEF LeaseExpires, library
<1>2. Types /\ Counted
    BY DEF IInv
<1>3. faults' \in 0 .. MaxFaults
    BY <1>1, <1>2, FaultBound
<1>4. /\ job' \in Jobs /\ job'.status = job.status
      /\ job'.attempt = job.attempt /\ job'.ended = job.ended /\ job'.fence = job.fence
    BY <1>1, <1>2, JobUnleased DEF Types
<1>5. Counted' /\ \A c \in Commands : Alike(c)
    BY <1>1, <1>2, <1>4 DEF Counted, Alike
<1>6. /\ commands' \in 0 .. MaxCommands /\ run' \in [Commands -> Runs]
      /\ catalog' \in [ItemSet -> {"active", "trashed", "removed"}]
    BY <1>1, <1>2 DEF Types
<1> QED
    BY <1>1, <1>3, <1>4, <1>5, <1>6, AlikeKeeps

LEMMA LandKeeps ==
    ASSUME IInv, NEW o \in Objects, Land(o)
    PROVE IInv' /\ Settles
<1>1. /\ UNCHANGED <<job, item, object, run, commands, faults, hidden, catalog>>
      /\ o \in inflight /\ inflight' = inflight \ {o} /\ stored' \in {stored, stored \ {o}}
    BY DEF Land, library
<1>2. Types /\ Counted /\ ItemsOK /\ ObjectsOK /\ NothingHalfDone
    BY DEF IInv
<1>3. Begun(o)
    BY <1>1, <1>2 DEF ObjectsOK
<1>4. ItemsOK' /\ ObjectsOK' /\ stored' \subseteq Objects /\ inflight' \subseteq Objects
    BY <1>1, <1>2, <1>3, StorageMoves
<1>5. \A c \in Commands : Alike(c)
    BY <1>1 DEF Alike
<1>6. Holders' = Holders /\ HolderKnown' /\ \A c \in Commands : WorkerOK(c)'
    BY <1>1, <1>5, AllAlike
<1>7. Types' /\ Counted' /\ NothingHalfDone'
    BY <1>1, <1>2, <1>4 DEF Types, Counted, NothingHalfDone
<1> QED
    BY <1>1, <1>4, <1>6, <1>7, StatusKept DEF IInv

LEMMA RestoreKeeps ==
    ASSUME IInv, NEW i \in ItemSet, Restore(i)
    PROVE IInv' /\ Settles
<1>1. /\ UNCHANGED <<job, item, object, hidden, storage, run, commands, faults>>
      /\ catalog' = [catalog EXCEPT ![i] = "active"]
    BY DEF Restore
<1>2. Types /\ Counted
    BY DEF IInv
<1>3. (\A c \in Commands : Alike(c)) /\ Counted'
    BY <1>1, <1>2 DEF Alike, Counted
<1>4. /\ commands' \in 0 .. MaxCommands /\ run' \in [Commands -> Runs] /\ job' \in Jobs
      /\ catalog' \in [ItemSet -> {"active", "trashed", "removed"}] /\ faults' \in 0 .. MaxFaults
    BY <1>1, <1>2 DEF Types
<1> QED
    BY <1>1, <1>3, <1>4, AlikeKeeps

LEMMA DeliverKeeps ==
    ASSUME IInv, NEW r \in Commands, Deliver(r)
    PROVE IInv' /\ Settles
<1>1. /\ run[r].pc = "sent" /\ UNCHANGED <<job, item, object, library, storage, commands, faults>>
      /\ UNCHANGED <<hidden, catalog>>
    BY DEF Deliver, library
<1>2. Types /\ Counted
    BY DEF IInv
<1>3. (\A c \in Commands : Alike(c)) /\ run' \in [Commands -> Runs]
      /\ \A c \in Commands : run'[c].pc # "none" => run[c].pc # "none"
  <2>1. CASE run' = [run EXCEPT ![r] = [NoRun EXCEPT !.pc = "closed", !.attempt = run[r].attempt]]
    <3>1. Leave(r, "closed")
        BY <2>1 DEF Leave
    <3>2. Turned(r, "closed", 0, 0, {})
        BY <1>2, <3>1, LeaveTurns DEF Types, Places
    <3> QED
        BY <1>1, <3>2, RunChanged DEF Turned, Acts, Physical
  <2>2. CASE run' = [c \in Commands |->
                       IF c = r THEN [run[r] EXCEPT !.pc = "claim"]
                       ELSE IF c \in Signalled(r) THEN [run[c] EXCEPT !.stop = TRUE]
                       ELSE run[c]]
    <3>1. \A c \in Commands : run[c] \in Runs
        BY <1>2 DEF Types
    <3>2. [run[r] EXCEPT !.pc = "claim"] \in Runs
      <4>1. "claim" \in Places /\ run[r] \in Runs
          BY <3>1 DEF Places
      <4> QED
          BY <4>1, Zenon DEF Runs
    <3>3. \A c \in Commands : [run[c] EXCEPT !.stop = TRUE] \in Runs
        BY <3>1, Zenon DEF Runs
    <3>4. \A c \in Commands : run'[c] \in Runs
        BY <2>2, <3>1, <3>2, <3>3
    <3>5. run' \in [Commands -> Runs]
        BY <2>2, <3>4
    <3>6. run'[r].pc = "claim"
        BY <2>2, <3>1 DEF Runs
    <3>7. ASSUME NEW c \in Commands \ {r}
          PROVE run'[c].pc = run[c].pc /\ run'[c].n = run[c].n /\ run'[c].k = run[c].k
                /\ run'[c].held = run[c].held /\ run'[c].attempt = run[c].attempt
        BY <2>2, <3>1 DEF Runs
    <3> QED
        BY <1>1, <3>5, <3>6, <3>7 DEF Alike, Acts, Physical
  <2> QED
      BY <2>1, <2>2 DEF Deliver
<1>4. Counted'
    BY <1>1, <1>2, <1>3 DEF Counted
<1>5. /\ commands' \in 0 .. MaxCommands /\ job' \in Jobs /\ faults' \in 0 .. MaxFaults
      /\ catalog' \in [ItemSet -> {"active", "trashed", "removed"}]
    BY <1>1, <1>2 DEF Types
<1> QED
    BY <1>1, <1>3, <1>4, <1>5, AlikeKeeps

(* A worker begins only when the last is known to have stopped, and takes   *)
(* its place in the job's row.                                               *)
LEMMA ClaimKeeps ==
    ASSUME IInv, NEW r \in Commands, Claim(r)
    PROVE /\ IInv'
          /\ Settles \/ (Holders = {} /\ Holders' = {r} /\ ~Ended /\ ~Ended')
<1>1. /\ run[r].pc = "claim" /\ UNCHANGED <<item, object, library, storage, commands, faults>>
      /\ UNCHANGED <<hidden, catalog, stored, inflight>>
    BY DEF Claim, Unclaimed, library, storage
<1>2. Types /\ Counted /\ HolderKnown /\ ItemsOK /\ ObjectsOK /\ run \in [Commands -> Runs]
    BY DEF IInv, Types
<1>3. CASE UNCHANGED job /\ Leave(r, IF job.attempt = run[r].attempt /\ job.status \in Terminal
                                       THEN "closed" ELSE "failed")
  <2>1. PICK to \in {"closed", "failed"} : Leave(r, to)
      BY <1>3
  <2>2. Turned(r, to, 0, 0, {})
      BY <1>2, <2>1, LeaveTurns DEF Places
  <2>3. \A c \in Commands : Alike(c)
      BY <1>1, <2>2, RunChanged DEF Acts, Physical
  <2>4. Counted' /\ run' \in [Commands -> Runs]
      BY <1>1, <1>2, <1>3, <2>2 DEF Counted, Turned
  <2>5. /\ commands' \in 0 .. MaxCommands /\ job' \in Jobs /\ faults' \in 0 .. MaxFaults
        /\ catalog' \in [ItemSet -> {"active", "trashed", "removed"}]
      BY <1>1, <1>2, <1>3 DEF Types
  <2> QED
      BY <1>1, <1>3, <2>3, <2>4, <2>5, AlikeKeeps
<1>4. CASE /\ MayClaim(r)
           /\ job' = [job EXCEPT !.status = "running", !.ended = FALSE, !.fence = r,
                                !.leased = TRUE]
           /\ run' = [run EXCEPT ![r].pc = "item", ![r].n = 1]
  <2>1. /\ job' \in Jobs /\ job'.status = "running"
        /\ job'.attempt = job.attempt /\ ~job'.ended /\ job'.fence = r
      BY <1>2, <1>4, JobClaimed DEF Types
  <2>2. Turned(r, "item", 1, run[r].k, run[r].held)
      BY <1>2, <1>4, FirstTurns
  <2>3. \A c \in Commands : ~Acts(c)
      BY <1>2, <1>4, EndedIsQuiet DEF MayClaim
  <2>4. Acts(r)' /\ \A c \in Commands \ {r} : ~Acts(c)'
      BY <2>2, <2>3 DEF Turned, Acts, Physical
  <2>5. Holders = {} /\ Holders' = {r}
      BY <2>3, <2>4 DEF Acts, Holders
  <2>6. HolderKnown'
      BY <1>4, <2>1, <2>2, <2>5 DEF HolderKnown, MayClaim, Turned, Reconcilable
  <2>7. WorkerOK(r)'
    <3>1. 1 \in 1 .. Len(Items) + 1
        BY PurgeAssumption
    <3> QED
        BY <2>2, <3>1, AfterOK
  <2>8. \A c \in Commands \ {r} : WorkerOK(c)'
      BY <2>4 DEF Acts, WorkerOK, AtItem, Physical
  <2>9. job.status \in {"queued", "cancel_requested"}
      BY <1>4 DEF MayClaim
  <2>10. ItemsOK' /\ ObjectsOK'
      BY <1>1, <1>2, <2>1, <2>9, ItemsUnchanged
  <2>11. NothingHalfDone' /\ ~Ended /\ ~Ended'
      BY <2>1, <2>9 DEF NothingHalfDone, Ended, Terminal
  <2>12. Counted'
      BY <1>1, <1>2, <2>1, <2>2, PurgeAssumption DEF Counted, Turned, Types, Commands
  <2>13. Types'
      BY <1>1, <1>2, <2>1, <2>2 DEF Types, Turned
  <2>14. \A c \in Commands : WorkerOK(c)'
      BY <2>7, <2>8
  <2> QED
      BY <2>5, <2>6, <2>10, <2>11, <2>12, <2>13, <2>14 DEF IInv
<1> QED
    BY <1>3, <1>4 DEF Claim

LEMMA EmitTurns ==
    ASSUME Types, Counted, NEW a \in {"create", "reconcile", "cancel"}, NEW n \in Nat, Emit(a, n)
    PROVE /\ commands' = commands + 1 /\ commands' \in 0 .. MaxCommands
          /\ run' \in [Commands -> Runs] /\ \A c \in Commands : Alike(c)
          /\ \A c \in Commands : run'[c].pc # "none" => c <= commands'
<1> DEFINE e == commands + 1
           q == Sent(a, n)
<1>1. e \in Commands /\ commands' = e /\ e \in 0 .. MaxCommands /\ run' = [run EXCEPT ![e] = q]
    BY PurgeAssumption DEF Emit, Types, Commands
<1>2. NoRun \in Runs
    BY Zenon DEF NoRun, Runs, Places, Codes
<1>3. q \in Runs
  <2>1. "sent" \in Places
      BY DEF Places
  <2> QED
      BY <1>2, <2>1, Zenon DEF Runs, Sent
<1>4. q.pc = "sent"
    BY DEF Sent, NoRun
<1>5. run[e].pc = "none"
    BY <1>1 DEF Counted, Types, Commands
<1> HIDE DEF q
<1>6. run' \in [Commands -> Runs] /\ run'[e].pc = "sent"
      /\ \A c \in Commands \ {e} : run'[c] = run[c]
    BY <1>1, <1>3, <1>4 DEF Types
<1>7. \A c \in Commands : Alike(c)
    BY <1>5, <1>6 DEF Alike, Acts, Physical
<1>8. \A c \in Commands : run'[c].pc # "none" => c <= e
    BY <1>1, <1>6 DEF Counted, Types, Commands
<1> QED
    BY <1>1, <1>6, <1>7, <1>8

LEMMA CreatePurgeKeeps ==
    ASSUME IInv, NEW used \in SUBSET ItemSet, CreatePurge(used)
    PROVE IInv' /\ Settles
<1>1. /\ job.status = "none" /\ UNCHANGED <<object, catalog, storage, faults, stored, inflight>>
      /\ item' = [i \in ItemSet |-> IF i \in used THEN "blocked" ELSE "queued"]
      /\ hidden' = ItemSet \ used
    BY DEF CreatePurge, storage
<1>2. Types /\ Counted /\ HolderKnown /\ ItemsOK /\ ObjectsOK
    BY DEF IInv
<1>3. commands = 0 /\ job.attempt = 1 /\ job.fence = 0
    BY <1>1, <1>2 DEF Counted, Types, Jobs
<1>4. \A c \in Commands : ~Acts(c)
    BY <1>1, <1>2 DEF HolderKnown, Holders, Acts, Reconcilable
<1>5. \A i \in ItemSet : \A o \in Range(Parts[i]) : ~Begun(o)
    BY <1>1, <1>2 DEF ItemsOK, Reserved, Reserving
<1>6. item' \in [ItemSet -> ItemStates] /\ \A i \in ItemSet : item'[i] \in {"blocked", "queued"}
    BY <1>1 DEF ItemStates
<1>7. ItemsOK' /\ ObjectsOK'
  <2> SUFFICES ASSUME job'.status # "none" PROVE ItemsOK'
      BY <1>1, <1>2 DEF ObjectsOK, Begun, CreatePurge, Types, Jobs
  <2>1. hidden' = {i \in ItemSet : Reserved(i)'}
      BY <1>1 DEF Reserved, Reserving
  <2>2. \A i \in ItemSet : \A o \in Range(Parts[i]) : ~Begun(o)'
      BY <1>1, <1>5 DEF Begun
  <2> QED
      BY <1>6, <2>1, <2>2 DEF ItemsOK
<1>8. ASSUME used = ItemSet, job' = [job EXCEPT !.status = "failed"], UNCHANGED <<run, commands>>
      PROVE IInv' /\ Settles
  <2>1. /\ job' \in Jobs /\ job'.status = "failed"
        /\ job'.attempt = job.attempt /\ job'.ended = job.ended /\ job'.fence = job.fence
      BY <1>2, <1>8, JobStatus DEF Types, Terminal
  <2>2. \A c \in Commands : ~Acts(c)'
      BY <1>4, <1>8 DEF Acts
  <2>3. Counted' /\ Types'
      BY <1>1, <1>2, <1>6, <1>8, <2>1 DEF Counted, Types
  <2>4. NothingHalfDone'
      BY <1>1, <1>8 DEF NothingHalfDone, Settled
  <2>5. Holders' = {} /\ HolderKnown' /\ \A c \in Commands : WorkerOK(c)'
      BY <2>2 DEF Acts, Holders, HolderKnown, WorkerOK, AtItem, Physical
  <2>6. Settles
      BY <1>1, <1>4, <2>5 DEF Settles, Ended, Terminal, Holders, Acts
  <2> QED
      BY <1>7, <2>3, <2>4, <2>5, <2>6 DEF IInv
<1>9. ASSUME job' = [job EXCEPT !.status = "queued"], Emit("create", 1)
      PROVE IInv' /\ Settles
  <2>1. /\ job' \in Jobs /\ job'.status = "queued"
        /\ job'.attempt = job.attempt /\ job'.ended = job.ended /\ job'.fence = job.fence
      BY <1>2, <1>9, JobStatus DEF Types
  <2>2. /\ commands' = commands + 1 /\ commands' \in 0 .. MaxCommands
        /\ run' \in [Commands -> Runs] /\ \A c \in Commands : Alike(c)
        /\ \A c \in Commands : run'[c].pc # "none" => c <= commands'
      BY <1>2, <1>9, EmitTurns
  <2>3. \A c \in Commands : ~Acts(c)'
      BY <1>4, <2>2 DEF Alike, Acts
  <2>4. Counted' /\ Types'
      BY <1>1, <1>2, <1>3, <1>6, <2>1, <2>2 DEF Counted, Types
  <2>5. NothingHalfDone'
      BY <2>1 DEF NothingHalfDone, Terminal
  <2>6. Holders' = {} /\ HolderKnown' /\ \A c \in Commands : WorkerOK(c)'
      BY <2>3 DEF Acts, Holders, HolderKnown, WorkerOK, AtItem, Physical
  <2>7. Settles
      BY <1>1, <1>4, <2>6 DEF Settles, Ended, Terminal, Holders, Acts
  <2> QED
      BY <1>7, <2>4, <2>5, <2>6, <2>7 DEF IInv
<1> QED
    BY <1>8, <1>9 DEF CreatePurge

LEMMA ReconcileKeeps ==
    ASSUME IInv, Reconcile
    PROVE IInv' /\ Settles
<1>1. /\ job.ended /\ job.status \in Reconcilable
      /\ item' = [i \in ItemSet |-> IF item[i] \in {"running", "needs_reconciliation"}
                                      THEN "queued" ELSE item[i]]
      /\ job' = [job EXCEPT !.status = "queued", !.attempt = @ + 1]
      /\ Emit("reconcile", job.attempt + 1)
      /\ UNCHANGED <<object, catalog, hidden, storage, faults, stored, inflight>>
    BY DEF Reconcile, library, storage
<1>2. Types /\ Counted /\ HolderKnown /\ ItemsOK /\ ObjectsOK /\ job.attempt + 1 \in Nat
    BY DEF IInv, Types, Jobs
<1>3. /\ job' \in Jobs /\ job'.status = "queued"
      /\ job'.attempt = job.attempt + 1 /\ job'.ended = job.ended /\ job'.fence = job.fence
    BY <1>1, <1>2, JobAgain DEF Types
<1>4. /\ commands' = commands + 1 /\ commands' \in 0 .. MaxCommands
      /\ run' \in [Commands -> Runs] /\ \A c \in Commands : Alike(c)
      /\ \A c \in Commands : run'[c].pc # "none" => c <= commands'
    BY <1>1, <1>2, EmitTurns
<1>5. (\A c \in Commands : ~Acts(c)) /\ (\A c \in Commands : ~Acts(c)')
    BY <1>1, <1>2, <1>4, EndedIsQuiet DEF Alike, Acts
<1>6. Holders = {} /\ Holders' = {} /\ HolderKnown' /\ \A c \in Commands : WorkerOK(c)'
    BY <1>5 DEF Acts, Holders, HolderKnown, WorkerOK, AtItem, Physical
<1>7. item' \in [ItemSet -> ItemStates]
    BY <1>1, <1>2 DEF Types, ItemStates
<1>8. ItemsOK'
  <2>1. \A i \in ItemSet : /\ Reserved(i)' <=> Reserved(i)
                           /\ item'[i] = "none" <=> item[i] = "none"
                           /\ item'[i] = "succeeded" <=> item[i] = "succeeded"
      BY <1>1 DEF Reserved, Reserving
  <2>2. \A o : Begun(o)' <=> Begun(o)
      BY <1>1 DEF Begun
  <2>3. job.status # "none" /\ job'.status # "none"
      BY <1>1, <1>3 DEF Reconcilable
  <2> QED
      BY <1>1, <1>2, <2>1, <2>2, <2>3 DEF ItemsOK
<1>9. ObjectsOK' /\ Types'
    BY <1>1, <1>2, <1>3, <1>4, <1>7 DEF ObjectsOK, Begun, Types
<1>10. Counted'
    BY <1>1, <1>2, <1>3, <1>4 DEF Counted, Types, Jobs, Reconcilable
<1>11. NothingHalfDone' /\ Settles
    BY <1>1, <1>3, <1>6 DEF NothingHalfDone, Settles, Ended, Terminal, Reconcilable
<1> QED
    BY <1>4, <1>6, <1>8, <1>9, <1>10, <1>11 DEF IInv

LEMMA RequestCancelKeeps ==
    ASSUME IInv, RequestCancel
    PROVE IInv' /\ Settles
<1> DEFINE quiet == job.ended /\ ~job.unconfirmed
           back == IF quiet THEN {i \in ItemSet : Cancellable(i)} ELSE {}
           done == quiet /\ \A i \in ItemSet : i \in back \/ item[i] \in Settled
           s == IF done THEN "cancelled" ELSE "cancel_requested"
<1>1. /\ job.status \notin Terminal \cup {"none"} /\ GiveBack(back)
      /\ job' = [job EXCEPT !.cancel = TRUE, !.status = s]
      /\ IF done THEN UNCHANGED <<run, commands>> ELSE Emit("cancel", job.attempt)
      /\ UNCHANGED <<object, catalog, storage, faults, stored, inflight>>
    BY DEF RequestCancel, storage
<1>2. Types /\ Counted /\ HolderKnown /\ ItemsOK /\ ObjectsOK /\ job.attempt \in Nat
    BY DEF IInv, Types, Jobs
<1>3. /\ job' \in Jobs /\ job'.status = s /\ s \in {"cancelled", "cancel_requested"}
      /\ job'.attempt = job.attempt /\ job'.ended = job.ended /\ job'.fence = job.fence
  <2>1. s \in {"cancelled", "cancel_requested"}
      OBVIOUS
  <2> HIDE DEF s
  <2> QED
      BY <1>1, <1>2, <2>1, JobCancels DEF Types
<1>4. /\ commands' \in 0 .. MaxCommands /\ commands <= commands'
      /\ run' \in [Commands -> Runs] /\ \A c \in Commands : Alike(c)
      /\ \A c \in Commands : run'[c].pc # "none" => c <= commands'
  <2>1. CASE done
      BY <1>1, <1>2, <2>1 DEF Types, Counted, Alike
  <2>2. CASE ~done
      BY <1>1, <1>2, <2>2, EmitTurns DEF Types
  <2> QED
      BY <2>1, <2>2
<1>5. back \in SUBSET ItemSet /\ \A i \in back : item[i] # "none" /\ Untouched(i)
    BY <1>1, <1>2 DEF Cancellable, ItemsOK
<1>6. job'.status = "none" <=> job.status = "none"
    BY <1>1, <1>3
<1>7. item' = [i \in ItemSet |-> IF i \in back THEN "cancelled" ELSE item[i]]
    BY <1>1 DEF GiveBack
<1>8. done => \A i \in ItemSet : item'[i] \in Settled
    BY <1>7 DEF Settled
<1>9. done => job.ended
    OBVIOUS
<1>10. ~job.ended => back = {}
    OBVIOUS
<1>11. s = "cancelled" => done
    OBVIOUS
<1> HIDE DEF back, done, s, quiet
<1>12. ItemsOK' /\ item' \in [ItemSet -> ItemStates]
    BY <1>1, <1>2, <1>5, <1>6, GiveBackKeeps
<1>13. UNCHANGED Holders /\ HolderKnown' /\ (\A c \in Commands : WorkerOK(c)')
       /\ (done => Holders = {})
  <2>1. CASE job.ended
    <3>1. (\A c \in Commands : ~Acts(c)) /\ (\A c \in Commands : ~Acts(c)')
        BY <1>2, <1>4, <2>1, EndedIsQuiet DEF Alike, Acts
    <3> QED
        BY <3>1 DEF Acts, Holders, HolderKnown, WorkerOK, AtItem, Physical
  <2>2. CASE ~job.ended
    <3>1. item' = item
        BY <1>2, <1>7, <1>10, <2>2 DEF Types
    <3>2. job'.status \in Reconcilable
        BY <1>3, <1>9, <1>11, <2>2 DEF Reconcilable
    <3> QED
        BY <1>1, <1>3, <1>4, <1>9, <2>2, <3>1, <3>2, AllAlike
  <2> QED
      BY <2>1, <2>2
<1>14. Types' /\ ObjectsOK'
    BY <1>1, <1>2, <1>3, <1>4, <1>12 DEF Types, ObjectsOK, Begun
<1>15. Counted'
    BY <1>1, <1>2, <1>3, <1>4 DEF Counted, Types, Jobs, Terminal
<1>16. NothingHalfDone'
    BY <1>3, <1>8, <1>11 DEF NothingHalfDone, Terminal
<1>17. Settles
    BY <1>1, <1>3, <1>11, <1>13 DEF Settles, Ended, Terminal
<1> QED
    BY <1>12, <1>13, <1>14, <1>15, <1>16, <1>17 DEF IInv

-----------------------------------------------------------------------------
(* The invariant *)

LEMMA InitHolds == Init => IInv /\ Holders = {} /\ ~Ended
<1> SUFFICES ASSUME Init PROVE IInv /\ Holders = {} /\ ~Ended
    OBVIOUS
<1>1. /\ job = [status |-> "none", attempt |-> 1, cancel |-> FALSE, unconfirmed |-> FALSE,
                ended |-> TRUE, fence |-> 0, leased |-> FALSE]
      /\ item = [i \in ItemSet |-> "none"] /\ object = [o \in Objects |-> "frozen"]
      /\ catalog = [i \in ItemSet |-> "trashed"] /\ hidden = {} /\ stored = Objects
      /\ inflight = {} /\ run = [c \in Commands |-> NoRun] /\ commands = 0 /\ faults = 0
    BY DEF Init
<1>2. NoRun \in Runs
    BY Zenon DEF NoRun, Runs, Places, Codes
<1>3. job \in Jobs
  <2>1. job.status = "none" /\ job.attempt = 1 /\ job.fence = 0
      BY <1>1
  <2> QED
      BY <1>1, Zenon DEF Jobs
<1>4. Types
    BY <1>1, <1>2, <1>3, PurgeAssumption DEF Types, ItemStates, ObjectStates
<1>5. job.status = "none" /\ job.attempt = 1 /\ job.fence = 0
    BY <1>1
<1>6. \A c \in Commands : run[c].pc = "none"
    BY <1>1 DEF NoRun
<1>7. \A c \in Commands : ~Acts(c)
    BY <1>6 DEF Acts, Physical
<1>8. Counted
    BY <1>1, <1>5, <1>6 DEF Counted
<1>9. ItemsOK /\ ObjectsOK
    BY <1>1, <1>5, PartsAreObjects DEF ItemsOK, ObjectsOK, Begun, Reserved, Reserving
<1>10. NothingHalfDone /\ ~Ended
    BY <1>5 DEF NothingHalfDone, Ended, Terminal
<1> QED
    BY <1>4, <1>7, <1>8, <1>9, <1>10, NobodyActs DEF IInv

(* A step of PhysicalWork, or one it does not see. *)
WorkStep == Work!Next \/ UNCHANGED <<Holders, Ended>>

LEMMA SettlesMaps ==
    ASSUME Settles PROVE WorkStep
<1>1. Ended \in BOOLEAN /\ Ended' \in BOOLEAN
    BY DEF Ended
<1>2. CASE Ended' = Ended
    BY <1>2 DEF WorkStep, Settles
<1>3. CASE Ended' # Ended
  <2>1. ~Ended /\ Ended' /\ Holders = {} /\ UNCHANGED Holders
      BY <1>1, <1>3 DEF Settles
  <2> QED
      BY <1>1, <2>1 DEF WorkStep, Work!Next, Work!Settle
<1> QED
    BY <1>2, <1>3

LEMMA WorkerKeeps ==
    ASSUME IInv, NEW r \in Commands,
           \/ StartItem(r) \/ Verify(r) \/ Begin(r) \/ Remove(r) \/ Confirm(r)
           \/ CompletePurgeItem(r) \/ Interrupted(r) \/ FailPurgeItem(r) \/ LastItem(r)
           \/ RemoveUnknown(r)
    PROVE IInv' /\ WorkStep
<1>1. IInv' /\ UNCHANGED <<Holders, job>>
    BY StartItemKeeps, VerifyKeeps, BeginKeeps, RemoveKeeps, ConfirmKeeps,
       CompletePurgeItemKeeps, InterruptedKeeps, FailPurgeItemKeeps, LastItemKeeps,
       RemoveUnknownKeeps
<1>2. UNCHANGED Ended
    BY <1>1 DEF Ended
<1> QED
    BY <1>1, <1>2 DEF WorkStep

LEMMA NextHolds == IInv /\ [Next]_vars => IInv' /\ WorkStep
<1> SUFFICES ASSUME IInv, [Next]_vars PROVE IInv' /\ WorkStep
    OBVIOUS
<1>1. ASSUME NEW used \in SUBSET ItemSet, CreatePurge(used) PROVE IInv' /\ WorkStep
    BY <1>1, CreatePurgeKeeps, SettlesMaps
<1>2. CASE Reconcile \/ RequestCancel \/ LeaseExpires
    BY <1>2, ReconcileKeeps, RequestCancelKeeps, LeaseExpiresKeeps, SettlesMaps
<1>3. ASSUME NEW i \in ItemSet, Restore(i) PROVE IInv' /\ WorkStep
    BY <1>3, RestoreKeeps, SettlesMaps
<1>4. ASSUME NEW o \in Objects, Land(o) PROVE IInv' /\ WorkStep
    BY <1>4, LandKeeps, SettlesMaps
<1>5. ASSUME NEW r \in Commands, Deliver(r) \/ FinishPurge(r) \/ Crash(r) \/ Interrupt(r)
      PROVE IInv' /\ WorkStep
    BY <1>5, DeliverKeeps, FinishPurgeKeeps, CrashKeeps, InterruptKeeps, SettlesMaps
<1>6. ASSUME NEW r \in Commands, Claim(r) PROVE IInv' /\ WorkStep
  <2>1. CASE Holders = {} /\ Holders' = {r} /\ ~Ended /\ ~Ended'
    <3>1. Work!Begin
      <4>1. Ended' = Ended
          BY <2>1 DEF Ended
      <4> QED
          BY <2>1, <4>1 DEF Work!Begin
    <3> QED
        BY <1>6, <3>1, ClaimKeeps DEF WorkStep, Work!Next
  <2> QED
      BY <1>6, <2>1, ClaimKeeps, SettlesMaps
<1>7. ASSUME NEW r \in Commands, EndPurgePhysical(r) PROVE IInv' /\ WorkStep
  <2>1. IInv' /\ Holders = {r} /\ Holders' = {} /\ Ended' = Ended
      BY <1>7, EndPurgePhysicalKeeps DEF Ended
  <2>2. Work!End
      BY <2>1 DEF Work!End
  <2> QED
      BY <2>1, <2>2 DEF WorkStep, Work!Next
<1>8. CASE UNCHANGED vars
  <2>1. /\ UNCHANGED <<job, item, object, catalog, hidden, stored, inflight, run, commands, faults>>
      BY <1>8 DEF vars, library, storage
  <2>2. (\A c \in Commands : Alike(c)) /\ IInv
      BY <2>1 DEF Alike
  <2>3. Counted' /\ run' \in [Commands -> Runs] /\ job' \in Jobs /\ faults' \in 0 .. MaxFaults
        /\ catalog' \in [ItemSet -> {"active", "trashed", "removed"}]
        /\ commands' \in 0 .. MaxCommands
      BY <2>1 DEF IInv, Counted, Types
  <2> QED
      BY <2>1, <2>2, <2>3, AlikeKeeps, SettlesMaps DEF storage
<1> QED
    BY <1>1, <1>2, <1>3, <1>4, <1>5, <1>6, <1>7, <1>8, WorkerKeeps DEF Next, Worker

LEMMA Invariance == Spec => []IInv
<1>1. Init => IInv
    BY InitHolds
<1>2. IInv /\ [Next]_vars => IInv'
    BY NextHolds
<1> QED
    BY <1>1, <1>2, PTL DEF Spec

-----------------------------------------------------------------------------
(* What the module promises *)

(* The job's row, its items and its objects keep to their states, and no    *)
(* worker, attempt or fence is ever without the command it comes from.      *)
THEOREM PurgeTypeCorrect == Spec => []TypeOK
<1>1. IInv => TypeOK
  <2> SUFFICES ASSUME IInv PROVE TypeOK
      OBVIOUS
  <2>1. Types /\ Counted /\ hidden \subseteq ItemSet
      BY DEF IInv, ItemsOK
  <2>2. job.fence \in 0 .. MaxCommands /\ job.attempt \in 1 .. MaxCommands
      BY <2>1, PurgeAssumption DEF Types, Counted, Jobs
  <2> QED
      BY <2>1, <2>2 DEF TypeOK, Types, ItemStates, ObjectStates
<1> QED
    BY <1>1, Invariance, PTL

(* Storage follows the catalog (RemovePurgeObjects, CompletePurgeItem,      *)
(* cancelPendingItem): an item that can be read or restored has all of its  *)
(* bytes and no removal on its way, one that is purged has none, and a job  *)
(* with a final result has left no item half removed.                       *)
THEOREM PurgeBytesFollowCatalog == Spec => []BytesFollowCatalog
<1>1. IInv => BytesFollowCatalog
  <2> SUFFICES ASSUME IInv PROVE BytesFollowCatalog
      OBVIOUS
  <2>1. ItemsOK /\ ObjectsOK /\ NothingHalfDone
      BY DEF IInv
  <2>2. ReadableWhole
      BY <2>1, PartsAreObjects DEF ReadableWhole, ItemsOK, ObjectsOK
  <2>3. PurgedGone
      BY <2>1, PartsAreObjects DEF PurgedGone, ItemsOK, ObjectsOK
  <2> QED
      BY <2>1, <2>2, <2>3 DEF BytesFollowCatalog
<1> QED
    BY <1>1, Invariance, PTL

(* The workers of a purge are those of PhysicalWork (ClaimPurge,            *)
(* EndPurgePhysical, InterruptPurge): one at a time whatever leases and     *)
(* heartbeats are lost, the next when the last is known to have stopped,    *)
(* and none after the job's final result.                                   *)
THEOREM PurgeOneWorkerAtATime == Spec => OneWorkerAtATime
<1>1. Init => Work!Init
  <2>1. Ended \in BOOLEAN
      BY DEF Ended
  <2> QED
      BY <2>1, InitHolds DEF Work!Init
<1>2. IInv /\ [Next]_vars => [Work!Next]_<<Holders, Ended>>
    BY NextHolds DEF WorkStep
<1> QED
    BY <1>1, <1>2, Invariance, PTL DEF Spec, OneWorkerAtATime, Work!Spec
=============================================================================
