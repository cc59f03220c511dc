------------------------------- MODULE Upload -------------------------------
(***************************************************************************)
(* Local uploads into one project or one personal library.  Every try      *)
(* stores its file and the previews under keys of its own, then one        *)
(* transaction, serialized with its like, answers with the receipt of the  *)
(* same request, with an asset of the same content, or with a new asset.   *)
(* A try whose objects did not become an asset removes them; when nobody   *)
(* knows whether the transaction committed, only after the lock that the   *)
(* transaction holds was waited for.                                       *)
(***************************************************************************)
EXTENDS Naturals, FiniteSets

CONSTANTS
    Keys,           \* idempotency keys
    Canonical,      \* [files -> contents that storing the file may yield]
    Parts,          \* number of objects of an upload: the file and its previews
    MaxTries,       \* bound: uploads that get as far as the receipt
    MaxFaults,      \* bound: calls that fail and processes that die
    MaxChanges      \* bound: assets and projects that are withdrawn or restored

VARIABLES
    active,     \* the project takes uploads
    asset,      \* [Tries -> media_asset with the identity the try chose]
    receipt,    \* [Keys -> media.upload_request]
    stored,     \* objects: pairs of a try and a part
    upload,     \* [Tries -> what the request is doing]
    transaction,\* a commit whose answer was lost and that still holds the lock
    late,       \* objects that a put given up may still create
    faults, changes

vars == <<active, asset, receipt, stored, upload, transaction, late, faults, changes>>

Files == DOMAIN Canonical
Tries == 1..MaxTries
All == 1..Parts

NoAsset == [state |-> "none"]
NoReceipt == [asset |-> 0]
Idle == [step |-> "idle"]

Init ==
    /\ active = TRUE
    /\ asset = [t \in Tries |-> NoAsset]
    /\ receipt = [k \in Keys |-> NoReceipt]
    /\ stored = {}
    /\ upload = [t \in Tries |-> Idle]
    /\ transaction = {} /\ late = {}
    /\ faults = 0 /\ changes = 0

Live == {t \in Tries : asset[t].state = "live"}
(* The lock of the project, or of the owner.                                *)
Unlocked == transaction = {}
Running(t) == upload[t].step \notin {"idle", "ended"}
End(t, a) == upload' = [upload EXCEPT ![t] = [step |-> "ended", asset |-> a, key |-> @.key]]

-----------------------------------------------------------------------------
(* Before the file is stored                                               *)

(* replayUpload: the receipt answers the same file while its asset can be   *)
(* used, and refuses everything else.                                      *)
Found(k) == receipt[k] # NoReceipt
Replayed(k, f) ==
    IF receipt[k].file = f /\ receipt[k].asset \in Live THEN receipt[k].asset ELSE 0

(* The content that is going to be stored: a recording is normalized first, *)
(* not always to the same bytes.                                           *)
Normalized(f) == Canonical[f]

Upload(t, k, f, c) ==
    /\ upload[t] = Idle /\ \A s \in 1..(t - 1) : upload[s] # Idle
    /\ active /\ Unlocked /\ c \in Normalized(f)
    /\ upload' = [upload EXCEPT ![t] =
          IF Found(k) THEN [step |-> "ended", asset |-> Replayed(k, f), key |-> k]
          ELSE [step |-> "put", key |-> k, file |-> f, content |-> c, next |-> 1,
                answer |-> 0]]
    /\ UNCHANGED <<active, asset, receipt, stored, transaction, late, faults, changes>>

-----------------------------------------------------------------------------
(* The objects                                                             *)

(* putUpload: created and then seen with the expected facts.                *)
Put(t) ==
    /\ upload[t].step = "put" /\ upload[t].next <= Parts
    /\ stored' = stored \cup {<<t, upload[t].next>>}
    /\ upload' = [upload EXCEPT ![t].next = @ + 1]
    /\ UNCHANGED <<active, asset, receipt, transaction, late, faults, changes>>

PutFails(t) ==
    LET o == <<t, upload[t].next>> IN
    /\ upload[t].step = "put" /\ upload[t].next <= Parts /\ faults < MaxFaults
    /\ faults' = faults + 1
    /\ \/ stored' = stored \cup {o} /\ UNCHANGED late
       \/ late' = late \cup {o} /\ UNCHANGED stored
       \/ UNCHANGED <<stored, late>>
    /\ upload' = [upload EXCEPT ![t].step = "clean", ![t].next = @ + 1]
    /\ UNCHANGED <<active, asset, receipt, transaction, changes>>

Land ==
    \E o \in late :
       /\ stored' = stored \cup {o}
       /\ late' = late \ {o}
       /\ UNCHANGED <<active, asset, receipt, upload, transaction, faults, changes>>

-----------------------------------------------------------------------------
(* The transaction: under the lock of the project, or of the owner          *)

(* An asset of the same content, or one that was made from the same         *)
(* recording; the oldest is taken.                                         *)
SameBytes(u) == {a \in Live : asset[a].content = u.content}
SameContent(u) ==
    {a \in Live : \/ asset[a].content = u.content
                  \/ /\ u.content # u.file
                     /\ asset[a].content # asset[a].file
                     /\ asset[a].file = u.file}
Oldest(S) == CHOOSE a \in S : \A b \in S : asset[a].since <= asset[b].since

NewAsset(u) ==
    [state |-> "live", file |-> u.file, content |-> u.content,
     since |-> Cardinality({a \in Tries : asset[a] # NoAsset}), restored |-> FALSE]

(* The answer of the transaction of try t, and what it leaves.              *)
Answer(t, u) ==
    IF Found(u.key) THEN Replayed(u.key, u.file)
    ELSE IF SameContent(u) = {} THEN t ELSE Oldest(SameContent(u))

SettlesUnasked(t, u) ==
    /\ receipt' = [receipt EXCEPT ![u.key] = [asset |-> t, file |-> u.file]]
    /\ asset' = [asset EXCEPT ![t] = NewAsset(u)]
Settles(t, u) ==
    IF Found(u.key) THEN UNCHANGED <<asset, receipt>>
    ELSE /\ receipt' = [receipt EXCEPT ![u.key] = [asset |-> Answer(t, u), file |-> u.file]]
         /\ asset' = IF Answer(t, u) = t THEN [asset EXCEPT ![t] = NewAsset(u)] ELSE asset

Committing(t) == upload[t].step = "put" /\ upload[t].next > Parts /\ Unlocked

(* The answer is known: the objects stay when they became the asset's, are  *)
(* removed when another asset is the answer, and looked after first when    *)
(* there is an error.                                                      *)
CommitUpload(t) ==
    LET a == IF active THEN Answer(t, upload[t]) ELSE 0 IN
    /\ Committing(t)
    /\ IF active THEN Settles(t, upload[t]) ELSE UNCHANGED <<asset, receipt>>
    /\ upload' = [upload EXCEPT ![t] =
          IF a = t THEN [step |-> "ended", asset |-> t, key |-> @.key]
          ELSE [@ EXCEPT !.step = IF a = 0 THEN "exists" ELSE "clean", !.answer = a]]
    /\ UNCHANGED <<active, stored, transaction, late, faults, changes>>

(* The answer is lost while the transaction still runs.                     *)
CommitUnknown(t) ==
    /\ Committing(t) /\ active /\ faults < MaxFaults
    /\ faults' = faults + 1
    /\ transaction' = {[try |-> t, of |-> upload[t]]}
    /\ upload' = [upload EXCEPT ![t].step = "exists"]
    /\ UNCHANGED <<active, asset, receipt, stored, late, changes>>

(* The database commits it or rolls it back, whoever is still there.        *)
Resolve ==
    /\ \E w \in transaction : Settles(w.try, w.of) \/ UNCHANGED <<asset, receipt>>
    /\ transaction' = {}
    /\ UNCHANGED <<active, stored, upload, late, faults, changes>>

ExistsNow(t) ==
    /\ upload[t].step = "exists"
    /\ IF asset[t] # NoAsset THEN End(t, 0) ELSE upload' = [upload EXCEPT ![t].step = "clean"]
    /\ UNCHANGED <<active, asset, receipt, stored, transaction, late, faults, changes>>

(* UploadAssetExists waits for the lock; an asset that is there, or a check *)
(* that fails, keeps the objects.                                          *)
Exists(t) ==
    /\ upload[t].step = "exists" /\ Unlocked
    /\ IF asset[t] # NoAsset THEN End(t, 0) ELSE upload' = [upload EXCEPT ![t].step = "clean"]
    /\ UNCHANGED <<active, asset, receipt, stored, transaction, late, faults, changes>>

ExistsFails(t) ==
    /\ upload[t].step = "exists" /\ faults < MaxFaults
    /\ faults' = faults + 1
    /\ End(t, 0)
    /\ UNCHANGED <<active, asset, receipt, stored, transaction, late, changes>>

Owned(t) == {t} \X (1..(upload[t].next - 1))

(* A removal that fails is not tried again.                                 *)
Clean(t) ==
    /\ upload[t].step = "clean"
    /\ \/ stored' = stored \ Owned(t) /\ UNCHANGED faults
       \/ /\ faults < MaxFaults /\ faults' = faults + 1
          /\ UNCHANGED stored
    /\ End(t, upload[t].answer)
    /\ UNCHANGED <<active, asset, receipt, transaction, late, changes>>

Crash(t) ==
    /\ Running(t) /\ faults < MaxFaults
    /\ faults' = faults + 1
    /\ End(t, 0)
    /\ UNCHANGED <<active, asset, receipt, stored, transaction, late, changes>>

-----------------------------------------------------------------------------
(* Others: an asset is set aside for removal, restored or removed; the      *)
(* project is archived or taken back.                                      *)

Change(a, state) ==
    /\ Unlocked /\ changes < MaxChanges
    /\ changes' = changes + 1
    /\ asset' = [asset EXCEPT ![a].state = state, ![a].restored = @ \/ state = "live"]
    /\ UNCHANGED <<active, receipt, upload, transaction, late, faults>>

Withdraw(a) == asset[a].state = "live" /\ Change(a, "withdrawn") /\ UNCHANGED stored
Restore(a) == asset[a].state = "withdrawn" /\ Change(a, "live") /\ UNCHANGED stored
Erase(a) ==
    /\ asset[a].state = "withdrawn"
    /\ Change(a, "erased")
    /\ stored' = stored \ ({a} \X All)

Archive ==
    /\ Unlocked /\ changes < MaxChanges
    /\ changes' = changes + 1
    /\ active' = ~active
    /\ UNCHANGED <<asset, receipt, stored, upload, transaction, late, faults>>

Next ==
    \/ \E t \in Tries, k \in Keys, f \in Files, c \in UNION {Canonical[g] : g \in Files} :
          Upload(t, k, f, c)
    \/ \E t \in Tries :
          \/ Put(t) \/ PutFails(t) \/ CommitUpload(t) \/ CommitUnknown(t)
          \/ Exists(t) \/ ExistsFails(t) \/ Clean(t) \/ Crash(t)
          \/ Withdraw(t) \/ Restore(t) \/ Erase(t)
    \/ Land \/ Resolve \/ Archive

Spec == Init /\ [][Next]_vars

-----------------------------------------------------------------------------
(* An asset that is not removed for good has its file and all its previews. *)
AssetsWhole ==
    \A a \in Tries : asset[a].state \in {"live", "withdrawn"} => {a} \X All \subseteq stored

(* No two assets hold the same content or were made from the same recording, *)
(* unless one was set aside and restored after the other came.              *)
Deduplicated ==
    \A a, b \in {l \in Live : ~asset[l].restored} :
       a # b => /\ asset[a].content # asset[b].content
                /\ ~(/\ asset[a].file = asset[b].file
                     /\ asset[a].file # asset[a].content /\ asset[b].file # asset[b].content)

(* A receipt names an asset of its file's content, and an upload answers    *)
(* with what its receipt names.                                            *)
ReceiptsHold ==
    /\ \A k \in Keys : Found(k) =>
          LET a == asset[receipt[k].asset] IN
          a.file = receipt[k].file \/ a.content \in Canonical[receipt[k].file]
    /\ \A t \in Tries : upload[t].step = "ended" /\ upload[t].asset # 0 =>
          receipt[upload[t].key].asset = upload[t].asset

(* Where nothing failed, every object belongs to an asset or to an upload   *)
(* that still runs.                                                        *)
NothingLeft ==
    faults = 0 => \A o \in stored : asset[o[1]] # NoAsset \/ Running(o[1])

UploadHonest == AssetsWhole /\ Deduplicated /\ ReceiptsHold /\ NothingLeft

(* A receipt is for good.                                                   *)
ReceiptKept == \A k \in Keys : Found(k) => receipt'[k] = receipt[k]

=============================================================================
