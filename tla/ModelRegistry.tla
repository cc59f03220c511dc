--------------------------- MODULE ModelRegistry ---------------------------
(***************************************************************************)
(* The registered models, their immutable versions and prices, and a       *)
(* client that pages through the voices of the speech models while an      *)
(* administrator publishes, enables and disables.  Versions and prices are *)
(* only appended and every change of a model counts its revision.  A page  *)
(* of voices is filled from several reads of the models, each in a         *)
(* transaction of its own.                                                 *)
(***************************************************************************)
EXTENDS Naturals, Sequences, FiniteSets, SequencesExt

CONSTANTS
    Models,    \* 1..n, by the order of their keys
    Voices,    \* 1..n, by their order
    Published, \* the models that were active when we begin to look
    Limit,     \* voices of a page
    Batch,     \* models of one read
    MaxRevision, MaxTime, MaxChanges  \* bounds

VARIABLES
    model,     \* per model: exists, status, current version, revision
    versions,  \* per model: the voices of its versions
    prices,    \* per model: when its prices take effect
    usable,    \* the provider is active and its credential was tested ok
    now, changes,
    read,      \* the request under way: the position it continues after, its bound, its page
    listed,    \* the voices the client has got, page after page
    steady,    \* voices that were offered ever since the client began
    offered    \* voices that were offered at one time since then

vars == <<model, versions, prices, usable, now, changes, read, listed, steady, offered>>

NoModel == [status |-> "none", current |-> 0, revision |-> 0]
Start == [model |-> 0, voice |-> 0]
NewRead(after) == [pc |-> "reading", after |-> after, from |-> after.model, inclusive |-> TRUE, page |-> <<>>]

Init ==
    /\ model = [m \in Models |-> IF m \in Published THEN [status |-> "active", current |-> 1, revision |-> 4] ELSE NoModel]
    /\ versions = [m \in Models |-> IF m \in Published THEN <<Voices>> ELSE <<>>]
    /\ prices = [m \in Models |-> IF m \in Published THEN <<1>> ELSE <<>>]
    /\ usable = TRUE /\ now = 1 /\ changes = 0
    /\ read = [NewRead(Start) EXCEPT !.pc = "idle"]
    /\ listed = <<>> /\ steady = {} /\ offered = {}

Choice(m, v) == [model |-> m, voice |-> v]
Before(x, y) == x.model < y.model \/ (x.model = y.model /\ x.voice < y.voice)
Current(m) == versions[m][model[m].current]

(* ReadConfiguredVoiceModels *)
Configured == {m \in Models : usable /\ model[m].status = "active"}
VoicesOf(models) == UNION {{Choice(m, v) : v \in Current(m)} : m \in models}
Offered == VoicesOf(Configured)

-----------------------------------------------------------------------------
(* The administrator.  A command names the revision and the number of the    *)
(* version it was written against; any other is refused.                     *)

Changes == changes < MaxChanges /\ changes' = changes + 1
Observed == steady' = steady \cap Offered' /\ offered' = offered \cup Offered'
Advance(m, current, status) ==
    model' = [model EXCEPT ![m] = [status |-> status, current |-> current, revision |-> @.revision + 1]]
MayChange(m) == model[m].status # "none" /\ model[m].revision < MaxRevision
ClientWaits == UNCHANGED <<read, listed>>

CreateModel(m) ==
    /\ Changes /\ model[m].status = "none" /\ Advance(m, 0, "disabled")
    /\ UNCHANGED <<versions, prices, usable, now>>

PublishModelVersion(m, voices) ==
    /\ Changes /\ MayChange(m)
    /\ versions' = [versions EXCEPT ![m] = Append(@, voices)]
    /\ Advance(m, Len(versions[m]) + 1, model[m].status)
    /\ UNCHANGED <<prices, usable, now>>

(* A price may take effect later. *)
PublishPriceRule(m, from) ==
    /\ Changes /\ MayChange(m) /\ model[m].current # 0
    /\ prices' = [prices EXCEPT ![m] = Append(@, from)]
    /\ Advance(m, model[m].current, model[m].status)
    /\ UNCHANGED <<versions, usable, now>>

InEffect(m) == {i \in DOMAIN prices[m] : prices[m][i] <= now}
PricedSometime(m) == model[m].current # 0 /\ prices[m] # <<>>
Publishable(m) == model[m].current # 0 /\ InEffect(m) # {}

SetModelStatus(m, status) ==
    /\ Changes /\ MayChange(m) /\ model[m].status # status
    /\ status = "active" => Publishable(m)
    /\ Advance(m, model[m].current, status)
    /\ UNCHANGED <<versions, prices, usable, now>>

(* A test of the provider's credential, its replacement or the provider. *)
Provider == Changes /\ usable' = ~usable /\ UNCHANGED <<model, versions, prices, now>>
Tick == now < MaxTime /\ now' = now + 1 /\ UNCHANGED <<model, versions, prices, usable, changes>>

Administer ==
    /\ \/ \E m \in Models :
            \/ CreateModel(m)
            \/ \E voices \in SUBSET Voices : PublishModelVersion(m, voices)
            \/ \E from \in 1 .. MaxTime : PublishPriceRule(m, from)
            \/ \E status \in {"active", "disabled"} : SetModelStatus(m, status)
       \/ Provider \/ Tick
    /\ Observed /\ ClientWaits

-----------------------------------------------------------------------------
(* The client's listing *)

Registry == UNCHANGED <<model, versions, prices, usable, now, changes>>

Begin ==
    /\ read.pc = "idle" /\ listed = <<>>
    /\ read' = NewRead(Start) /\ steady' = Offered /\ offered' = Offered
    /\ Registry /\ UNCHANGED listed

(* The first read of a page includes the model it continues in, the later    *)
(* ones begin after the last model they had.                                 *)
Exclusive == FALSE
Inclusive == read.inclusive
FirstOf(seq, n) == SubSeq(seq, 1, IF Len(seq) < n THEN Len(seq) ELSE n)
Ascending(S) == SetToSortSeq(S, <)
Models50 ==
    LET reach == {m \in Configured : m > read.from \/ (m = read.from /\ Inclusive)}
    IN  FirstOf(Ascending(reach), Batch)

(* The voices of the models read that come after the position *)
After(models) ==
    SetToSortSeq({x \in VoicesOf(Range(models)) : Before(read.after, x)}, Before)

Full(page) == Len(page) > Limit
LastBatch(models) == Len(models) < Batch

List ==
    LET models == Models50
        page   == read.page \o After(models)
        sent   == FirstOf(page, Limit)
    IN  /\ read.pc = "reading"
        /\ IF Full(page) THEN read' = NewRead(Last(sent)) /\ listed' = listed \o sent
           ELSE IF LastBatch(models)
           THEN read' = [read EXCEPT !.pc = "done", !.page = <<>>] /\ listed' = listed \o page
           ELSE read' = [read EXCEPT !.from = Last(models), !.inclusive = FALSE, !.page = page] /\ UNCHANGED listed
        /\ Registry /\ UNCHANGED <<steady, offered>>

Next == Administer \/ Begin \/ List

Spec == Init /\ [][Next]_vars

-----------------------------------------------------------------------------
(* What is active has a version, and a price in effect, for every quote made *)
(* of it; a model never loses one.                                           *)
ActiveIsPriced ==
    \A m \in Models : model[m].status = "active" =>
        /\ model[m].current = Len(versions[m]) /\ versions[m] # <<>>
        /\ InEffect(m) # {}

(* The pages list no voice twice and none out of order, nothing that was     *)
(* not offered, and, at the end, every voice that was offered all the time,  *)
(* whatever was published in between.                                        *)
ListedOnce ==
    /\ \A i, j \in DOMAIN listed : i < j => Before(listed[i], listed[j])
    /\ \A i \in DOMAIN listed : listed[i] \in offered
    /\ read.pc = "done" => steady \subseteq Range(listed)

RegistryHonest == ActiveIsPriced /\ ListedOnce
=============================================================================
