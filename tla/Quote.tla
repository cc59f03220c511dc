------------------------------- MODULE Quote -------------------------------
(***************************************************************************)
(* Quotes and their confirmation.  A quote freezes a price and a model     *)
(* version for a while; a confirmation reserves its amount in the budget.  *)
(* Between the two, time passes, prices take effect, the model changes,    *)
(* the sweep expires what is due, and clients repeat requests whose reply  *)
(* they did not hear.                                                      *)
(*                                                                         *)
(* A confirmation is one transaction (single) or up to three (batch): its  *)
(* row locks are held from its first check until the budget row is locked, *)
(* which may take long, so that the wait is a state of its own.            *)
(***************************************************************************)
EXTENDS Naturals, FiniteSets, Sequences

CONSTANTS
    Ops,            \* operation ids
    Keys,           \* request keys of confirmations
    Bodies,         \* what a confirmation asks for: [batch, ops]
    QuoteKeys,      \* request keys of quote creations
    Calls,          \* API calls that run at the same time
    Ttl,            \* how long a quote is valid (15 minutes in the code)
    MaxTime,        \* bound of the clock
    MaxPrices,      \* bound of the number of published prices
    MaxModels,      \* bound of the number of model versions
    MaxChanges,     \* bound of the number of changes around the quotes
    Limit,          \* limit of the project's budget
    NoOutcome       \* no receipt

Codes == {"ok", "quote_expired", "budget_insufficient", "state_conflict"}

(* A single confirmation names one quote, a batch confirmation the quotes   *)
(* it excludes.                                                             *)
ASSUME QuoteAssumption ==
    /\ IsFiniteSet(Ops)
    /\ Keys # {} /\ Bodies # {}
    /\ Bodies \subseteq [batch : BOOLEAN, ops : SUBSET Ops]
    /\ \A b \in Bodies : ~b.batch => \E o \in Ops : b.ops = {o}
    /\ Ttl \in Nat /\ MaxTime \in Nat /\ Limit \in Nat /\ MaxChanges \in Nat
    /\ MaxPrices \in Nat \ {0} /\ MaxModels \in Nat \ {0}
    /\ NoOutcome \notin [body : Bodies, answer : Codes]

VARIABLES
    now,        \* the clock
    prices,     \* instants from which the published prices are effective
    model,      \* current version of the model, and whether it can be used
    source,     \* is the result that a reused quote refers to still usable
    inputs,     \* are the media the quotes refer to ready
    other,      \* micros of the budget held by other operations
    changes,    \* how often one of the four above or the prices changed
    reserved,   \* micros reserved by the confirmations modelled here
    op,         \* the operation rows
    batch,      \* the row of the one batch
    made,       \* quote request -> operations it created
    call,       \* where each API call is
    receipt,    \* operation.confirmation_request
    events,     \* confirmation events in the outbox
    told        \* answers that clients have heard

world == <<now, prices, model, source, inputs, other, changes>>
vars == <<now, prices, model, source, inputs, other, changes, reserved, op, batch,
          made, call, receipt, events, told>>

OpRow == [status : {"absent", "quoted", "expired", "confirmed"}, batched : BOOLEAN,
          price : 0 .. MaxPrices, model : 0 .. MaxModels, expires : 0 .. MaxTime,
          reused : BOOLEAN]

CallRow == [pc : {"idle", "locked", "removed", "reserving", "stale", "rejected"},
            key : Keys, body : Bodies, code : Codes,
            selected : SUBSET Ops, late : SUBSET Ops, excluded : SUBSET Ops]

NoCall == [pc |-> "idle", key |-> CHOOSE k \in Keys : TRUE, body |-> CHOOSE b \in Bodies : TRUE,
           code |-> "ok", selected |-> {}, late |-> {}, excluded |-> {}]

TypeOK ==
    /\ now \in 0 .. MaxTime
    /\ prices \in Seq(0 .. MaxTime) /\ Len(prices) <= MaxPrices
    /\ model \in [version : 1 .. MaxModels, usable : BOOLEAN]
    /\ source \in BOOLEAN /\ inputs \in BOOLEAN
    /\ other \in 0 .. Limit /\ reserved \in Nat /\ changes \in 0 .. MaxChanges
    /\ op \in [Ops -> OpRow]
    /\ batch \in [status : {"absent", "quoted", "expired", "confirmed"}, total : Nat]
    /\ made \in [QuoteKeys -> SUBSET Ops]
    /\ call \in [Calls -> CallRow]
    /\ receipt \in [Keys -> [body : Bodies, answer : Codes] \cup {NoOutcome}]
    /\ events \subseteq [key : Keys, batch : BOOLEAN, confirmed : SUBSET Ops, expiredCount : Nat]
    /\ told \subseteq Keys \X Bodies \X Codes

Quoted == {o \in Ops : op[o].status = "quoted"}
Confirmed == {o \in Ops : op[o].status = "confirmed"}
Children == {o \in Ops : op[o].batched}

(* Micros a set of operations costs: a reused result is free. *)
Amount(S) == Cardinality({o \in S : ~op[o].reused})

-----------------------------------------------------------------------------
(* What a quote is compared with when it is created and confirmed.         *)

(* ReadCurrentQuoteCatalog, the price: the latest that is effective.        *)
CurrentPrice(t) ==
    LET effective == {i \in 1 .. Len(prices) : prices[i] <= t}
    IN IF effective = {} THEN 0
       ELSE CHOOSE i \in effective : \A j \in effective :
                prices[j] < prices[i] \/ (prices[j] = prices[i] /\ j <= i)

ReadReuseSourceAvailable(o) == op[o].reused => source

(* QuoteFreshnessReasons is empty. *)
Fresh(o) ==
    /\ now < op[o].expires
    /\ model.usable /\ op[o].model = model.version
    /\ CurrentPrice(now) = op[o].price
    /\ ReadReuseSourceAvailable(o)

FreshAny(o) == TRUE

(* The second look, after the budget row was locked. *)
FreshAfterBudget(o) == Fresh(o)

(* Rows locked by a confirmation that waits for the budget. *)
Reserving(c) == call[c].pc = "reserving"
LockedRows == UNION {IF call[c].body.batch THEN Children ELSE call[c].selected :
                        c \in {d \in Calls : Reserving(d)}}
BatchLocked == \E c \in Calls : Reserving(c) /\ call[c].body.batch
NoCatalogLock == FALSE

CatalogLocked == \E c \in Calls : Reserving(c)

-----------------------------------------------------------------------------
(* Creation of quotes *)

(* PrepareFreeQuote freezes the price, the model version and the expiry. *)
PrepareFreeQuote(batched, reused) ==
    [status |-> "quoted", batched |-> batched, price |-> CurrentPrice(now),
     model |-> model.version, expires |-> now + Ttl, reused |-> reused]

(* readFreeQuoteCatalog finds a usable model with an effective price. *)
CatalogHasModel == model.usable /\ CurrentPrice(now) # 0

(* An item that fails one of these is refused, or left out of its batch. *)
CanPrepare == CatalogHasModel /\ inputs /\ now + Ttl <= MaxTime

(* FindReusableCompleted: items that an equal completed result can answer. *)
Reusable(items) == IF source THEN items ELSE {}

(* CreateQuoteSnapshot inserts the rows of all items at once. *)
CreateQuoteSnapshot(items, reused, batched) ==
    /\ items # {} /\ \A o \in items : op[o].status = "absent"
    /\ op' = [o \in Ops |-> IF o \in items THEN PrepareFreeQuote(batched, o \in reused)
                             ELSE op[o]]

RequestForgotten(k) == TRUE

(* readQuoteRequest: a request key that was used answers its stored result. *)
RequestIsNew(k) == made[k] = {}

CreateFreeQuote(k, o) ==
    /\ RequestIsNew(k) /\ CanPrepare
    /\ \E reused \in SUBSET Reusable({o}) : CreateQuoteSnapshot({o}, reused, FALSE)
    /\ made' = [made EXCEPT ![k] = @ \cup {o}]
    /\ UNCHANGED <<world, reserved, batch, call, receipt, events, told>>

(* Items that cannot be priced are left out; the others get one batch. *)
CreateBatchFreeQuote(k, valid) ==
    /\ RequestIsNew(k) /\ CanPrepare
    /\ batch.status = "absent"
    /\ \E reused \in SUBSET Reusable(valid) : CreateQuoteSnapshot(valid, reused, TRUE)
    /\ batch' = [status |-> "quoted", total |-> Cardinality(valid)]
    /\ made' = [made EXCEPT ![k] = @ \cup valid]
    /\ UNCHANGED <<world, reserved, call, receipt, events, told>>

-----------------------------------------------------------------------------
(* Confirmation: the request key *)

Idle(c) == [call EXCEPT ![c] = NoCall]
Goto(c, pc) == [call EXCEPT ![c].pc = pc]
Reject(c, code) == [call EXCEPT ![c].pc = "rejected", ![c].code = code,
                                ![c].selected = {}, ![c].late = {}]
Expire(S) == [o \in Ops |-> IF o \in S THEN [op[o] EXCEPT !.status = "expired"] ELSE op[o]]
KeyFree(k) == \A d \in Calls : call[d].pc # "idle" => call[d].key # k

(* A client names what was quoted to it. *)
Exists(b) == IF b.batch THEN batch.status # "absent" ELSE \A o \in b.ops : op[o].status # "absent"

ReadNothing(c, k, b) ==
    /\ call[c].pc = "idle"
    /\ KeyFree(k) /\ Exists(b)
    /\ IF receipt[k] = NoOutcome THEN TRUE ELSE receipt[k].answer # "ok"
    /\ call' = [call EXCEPT ![c].pc = "locked", ![c].key = k, ![c].body = b,
                            ![c].excluded = IF b.batch THEN b.ops ELSE {}]
    /\ UNCHANGED <<world, reserved, op, batch, made, receipt, events, told>>

(* withConfirmationKey: the session lock of the key is held until the end;  *)
(* without a stored outcome the command runs.                               *)
BeginConfirmation(c, k, b) ==
    /\ call[c].pc = "idle"
    /\ KeyFree(k) /\ Exists(b)
    /\ receipt[k] = NoOutcome
    /\ call' = [call EXCEPT ![c].pc = "locked", ![c].key = k, ![c].body = b,
                            ![c].excluded = IF b.batch THEN b.ops ELSE {}]
    /\ UNCHANGED <<world, reserved, op, batch, made, receipt, events, told>>

(* readConfirmationOutcome: a stored outcome answers the same body; another *)
(* body is refused (ErrConfirmationKeyReused) and leaves no trace.          *)
ReplayOutcome(c, k, b) ==
    /\ call[c].pc = "idle"
    /\ KeyFree(k)
    /\ receipt[k] # NoOutcome /\ receipt[k].body = b
    /\ told' = told \cup {<<k, b, receipt[k].answer>>}
    /\ UNCHANGED <<world, reserved, op, batch, made, call, receipt, events>>

(* A rejection with a stable code is stored after the transactions. *)
RecordRejection(c) ==
    /\ call[c].pc = "rejected"
    /\ receipt' = [receipt EXCEPT ![call[c].key] = [body |-> call[c].body, answer |-> call[c].code]]
    /\ told' = told \cup {<<call[c].key, call[c].body, call[c].code>>}
    /\ call' = Idle(c)
    /\ UNCHANGED <<world, reserved, op, batch, made, events>>

(* The process dies or its request is cut: an open transaction is undone,   *)
(* the session lock is released and nobody is told anything.                *)
Crash(c) ==
    /\ call[c].pc # "idle"
    /\ call' = Idle(c)
    /\ UNCHANGED <<world, reserved, op, batch, made, receipt, events, told>>

-----------------------------------------------------------------------------
(* ConfirmSingleQuote *)

TheOp(c) == CHOOSE o \in Ops : call[c].body.ops = {o}

(* The quote's row is locked and compared with the current facts. *)
CheckSingle(c) ==
    /\ call[c].pc = "locked" /\ ~call[c].body.batch
    /\ TheOp(c) \notin LockedRows
    /\ LET o == TheOp(c) IN
       \/ /\ op[o].status # "quoted" \/ op[o].batched
          /\ call' = Reject(c, "state_conflict")
          /\ UNCHANGED op
       \/ /\ op[o].status = "quoted" /\ ~op[o].batched /\ ~Fresh(o)
          /\ op' = Expire({o})
          /\ call' = Reject(c, "quote_expired")
       \/ /\ op[o].status = "quoted" /\ ~op[o].batched /\ Fresh(o)
          /\ call' = IF inputs THEN [Goto(c, "reserving") EXCEPT ![c].selected = {o}] ELSE Idle(c)
          /\ UNCHANGED op
    /\ UNCHANGED <<world, reserved, batch, made, receipt, events, told>>

CanReserve(S) == reserved + other + Amount(S) <= Limit

SucceedLater(c, confirmed, expiredCount) ==
    /\ told' \in {told, told \cup {<<call[c].key, call[c].body, "ok">>}}
    /\ events' = events \cup {[key |-> call[c].key, batch |-> call[c].body.batch,
                               confirmed |-> confirmed, expiredCount |-> expiredCount]}
    /\ UNCHANGED receipt

(* A success is stored by the transaction that reserves. *)
Succeed(c, confirmed, expiredCount) ==
    /\ receipt' = [receipt EXCEPT ![call[c].key] = [body |-> call[c].body, answer |-> "ok"]]
    /\ told' \in {told, told \cup {<<call[c].key, call[c].body, "ok">>}}
    /\ events' = events \cup {[key |-> call[c].key, batch |-> call[c].body.batch,
                               confirmed |-> confirmed, expiredCount |-> expiredCount]}

Confirm(S) == [o \in Ops |-> IF o \in S THEN [op[o] EXCEPT !.status = "confirmed"] ELSE op[o]]

ReserveBeforeLook(c) ==
    /\ Reserving(c) /\ ~call[c].body.batch
    /\ LET S == call[c].selected IN
       \/ /\ CanReserve(S) /\ \E o \in S : ~FreshAfterBudget(o)
          /\ reserved' = reserved + Amount(S)
          /\ call' = Reject(c, "quote_expired")
          /\ UNCHANGED <<op, receipt, events, told>>
       \/ /\ CanReserve(S) /\ \A o \in S : FreshAfterBudget(o)
          /\ reserved' = reserved + Amount(S)
          /\ op' = Confirm(S)
          /\ Succeed(c, S, 0)
          /\ call' = Idle(c)
    /\ UNCHANGED <<world, batch, made>>

(* The budget row is locked: reserve, look again at what time may have      *)
(* changed, confirm.  A failure undoes the reservation and leaves the quote. *)
ReserveSingle(c) ==
    /\ Reserving(c) /\ ~call[c].body.batch
    /\ LET S == call[c].selected IN
       \/ /\ ~CanReserve(S)
          /\ call' = Reject(c, "budget_insufficient")
          /\ UNCHANGED <<reserved, op, receipt, events, told>>
       \/ /\ CanReserve(S) /\ \E o \in S : ~FreshAfterBudget(o)
          /\ call' = Reject(c, "quote_expired")
          /\ UNCHANGED <<reserved, op, receipt, events, told>>
       \/ /\ CanReserve(S) /\ \A o \in S : FreshAfterBudget(o)
          /\ reserved' = reserved + Amount(S)
          /\ op' = Confirm(S)
          /\ Succeed(c, S, 0)
          /\ call' = Idle(c)
    /\ UNCHANGED <<world, batch, made>>

-----------------------------------------------------------------------------
(* ConfirmBatchQuote *)

RemoveNothing(c) ==
    /\ call[c].pc = "locked" /\ call[c].body.batch
    /\ ~BatchLocked
    /\ IF batch.status # "quoted"
       THEN call' = Reject(c, "state_conflict") /\ UNCHANGED op
       ELSE call' = Goto(c, "removed") /\ UNCHANGED op
    /\ UNCHANGED <<world, reserved, batch, made, receipt, events, told>>

(* Transaction A commits the removals on its own: what the user excluded    *)
(* and what is stale.  To exclude what the batch does not have is invalid    *)
(* and leaves no outcome.                                                    *)
RemoveItems(c) ==
    /\ call[c].pc = "locked" /\ call[c].body.batch
    /\ ~BatchLocked
    /\ \/ /\ batch.status # "quoted"
          /\ call' = Reject(c, "state_conflict")
          /\ UNCHANGED op
       \/ /\ batch.status = "quoted" /\ ~(call[c].body.ops \subseteq Children)
          /\ call' = Idle(c)
          /\ UNCHANGED op
       \/ /\ batch.status = "quoted" /\ call[c].body.ops \subseteq Children
          /\ op' = Expire({o \in Children \cap Quoted : o \in call[c].body.ops \/ ~Fresh(o)})
          /\ call' = Goto(c, "removed")
    /\ UNCHANGED <<world, reserved, batch, made, receipt, events, told>>

KeepEmptyBatch(c) ==
    /\ call[c].pc = "removed" /\ ~BatchLocked
    /\ LET selected == {o \in Children \cap Quoted : Fresh(o)}
           late == {o \in Children \cap Quoted : ~Fresh(o)} IN
       \/ /\ batch.status = "quoted" /\ selected = {}
          /\ op' = Expire(late) /\ batch' = [batch EXCEPT !.status = "confirmed"]
          /\ call' = Reject(c, "quote_expired")
       \/ /\ batch.status = "quoted" /\ selected # {}
          /\ call' = IF inputs THEN [Goto(c, "reserving") EXCEPT ![c].selected = selected,
                                                                 ![c].late = late]
                     ELSE Idle(c)
          /\ UNCHANGED <<op, batch>>
    /\ UNCHANGED <<world, reserved, made, receipt, events, told>>

(* Transaction B begins: what is still quoted and fresh is selected.  With  *)
(* nothing left the batch expires.                                          *)
SelectItems(c) ==
    /\ call[c].pc = "removed" /\ ~BatchLocked
    /\ LET selected == {o \in Children \cap Quoted : Fresh(o)}
           late == {o \in Children \cap Quoted : ~Fresh(o)} IN
       \/ /\ batch.status # "quoted"
          /\ call' = Reject(c, "state_conflict")
          /\ UNCHANGED <<op, batch>>
       \/ /\ batch.status = "quoted" /\ selected = {}
          /\ op' = Expire(late)
          /\ batch' = [batch EXCEPT !.status = "expired"]
          /\ call' = Reject(c, "quote_expired")
       \/ /\ batch.status = "quoted" /\ selected # {}
          /\ call' = IF inputs THEN [Goto(c, "reserving") EXCEPT ![c].selected = selected,
                                                                 ![c].late = late]
                     ELSE Idle(c)
          /\ UNCHANGED <<op, batch>>
    /\ UNCHANGED <<world, reserved, made, receipt, events, told>>

KeepReservation(c, stale, code) ==
    /\ reserved' = reserved + Amount(stale)
    /\ call' = Reject(c, code)
    /\ UNCHANGED <<op, batch, receipt, events, told>>

(* Transaction B fails: it is undone, and transaction C will store what it  *)
(* found to be stale.                                                       *)
FailReservation(c, stale, code) ==
    /\ call' = IF stale = {} THEN Reject(c, code)
               ELSE [call EXCEPT ![c].pc = "stale", ![c].code = code,
                                 ![c].selected = {}, ![c].late = stale]
    /\ UNCHANGED <<reserved, op, batch, receipt, events, told>>

(* The number that BatchConfirmationEvents is given as expiredCount: by then *)
(* result.Items also holds the confirmed items.                              *)
ExpiredCount(c) ==
    LET removed == {o \in Children : op[o].status = "expired"}
    IN Cardinality(removed) + Cardinality(call[c].selected) + Cardinality(call[c].late)

(* Every selected item is reserved, every one looked at again; all or none. *)
ReserveBatch(c) ==
    /\ Reserving(c) /\ call[c].body.batch
    /\ LET S == call[c].selected
           turned == {o \in S : ~FreshAfterBudget(o)} IN
       \/ /\ ~CanReserve(S)
          /\ FailReservation(c, call[c].late, "budget_insufficient")
       \/ /\ CanReserve(S)
          /\ \E o \in turned : FailReservation(c, call[c].late \cup {o}, "quote_expired")
       \/ /\ CanReserve(S) /\ turned = {}
          /\ reserved' = reserved + Amount(S)
          /\ op' = [o \in Ops |-> IF o \in call[c].late
                                  THEN [op[o] EXCEPT !.status = "expired"] ELSE Confirm(S)[o]]
          /\ batch' = [status |-> "confirmed", total |-> Cardinality(S)]
          /\ Succeed(c, S, ExpiredCount(c))
          /\ call' = Idle(c)
    /\ UNCHANGED <<world, made>>

(* Transaction C looks at the stale items once more. *)
PersistStaleItems(c) ==
    /\ call[c].pc = "stale" /\ ~BatchLocked
    /\ IF batch.status # "quoted"
       THEN UNCHANGED <<op, batch>>
       ELSE LET gone == {o \in call[c].late \cap Quoted : ~Fresh(o)} IN
            /\ op' = Expire(gone)
            /\ batch' = [batch EXCEPT !.status =
                           IF (Children \cap Quoted) \ gone = {} THEN "expired" ELSE @]
    /\ call' = Reject(c, call[c].code)
    /\ UNCHANGED <<world, reserved, made, receipt, events, told>>

-----------------------------------------------------------------------------
(* The sweep (ExpireQuoted), two transactions *)

(* Due rows that nobody locks; the cutoff may be older than the clock. *)
ExpireDue(S) ==
    /\ S # {} /\ S \subseteq Quoted \ LockedRows
    /\ \A o \in S : op[o].expires <= now
    /\ op' = Expire(S)
    /\ UNCHANGED <<world, reserved, batch, made, call, receipt, events, told>>

ExpireBatch ==
    /\ batch.status = "quoted" /\ ~BatchLocked
    /\ \A o \in Children : op[o].status = "expired"
    /\ batch' = [batch EXCEPT !.status = "expired"]
    /\ UNCHANGED <<world, reserved, op, made, call, receipt, events, told>>

-----------------------------------------------------------------------------
(* The rest of the system *)

Others == <<reserved, op, batch, made, call, receipt, events, told>>

Tick ==
    /\ now < MaxTime
    /\ now' = now + 1
    /\ UNCHANGED <<prices, model, source, inputs, other, changes, Others>>

Change == changes < MaxChanges /\ changes' = changes + 1

(* A publication locks the model's row, and so waits for confirmations. *)
PublishPriceRule(from) ==
    /\ Change
    /\ ~CatalogLocked /\ Len(prices) < MaxPrices
    /\ prices' = Append(prices, from)
    /\ UNCHANGED <<now, model, source, inputs, other, Others>>

PublishModelVersion ==
    /\ Change /\ ~CatalogLocked /\ model.version < MaxModels
    /\ model' = [model EXCEPT !.version = @ + 1]
    /\ UNCHANGED <<now, prices, source, inputs, other, Others>>

(* An administrator disables or enables the provider. *)
UpdateProvider ==
    /\ Change /\ ~CatalogLocked
    /\ model' = [model EXCEPT !.usable = ~@]
    /\ UNCHANGED <<now, prices, source, inputs, other, Others>>

(* Rows that a confirmation holds FOR SHARE until it ends. *)
ChangeMedia ==
    /\ Change
    /\ ~CatalogLocked
    /\ \/ source /\ source' = FALSE /\ UNCHANGED inputs
       \/ inputs' = ~inputs /\ UNCHANGED source
    /\ UNCHANGED <<now, prices, model, other, Others>>

ChangeBudget ==
    /\ Change
    /\ \/ reserved + other < Limit /\ other' = other + 1
       \/ other > 0 /\ other' = other - 1
    /\ UNCHANGED <<now, prices, model, source, inputs, Others>>

-----------------------------------------------------------------------------
Init ==
    /\ now = 0 /\ prices = <<0>>
    /\ model = [version |-> 1, usable |-> TRUE]
    /\ source = TRUE /\ inputs = TRUE /\ other = 0 /\ changes = 0 /\ reserved = 0
    /\ op = [o \in Ops |-> [status |-> "absent", batched |-> FALSE, price |-> 0, model |-> 0,
                            expires |-> 0, reused |-> FALSE]]
    /\ batch = [status |-> "absent", total |-> 0]
    /\ made = [k \in QuoteKeys |-> {}]
    /\ call = [c \in Calls |-> NoCall]
    /\ receipt = [k \in Keys |-> NoOutcome]
    /\ events = {} /\ told = {}

Step(c) ==
    \/ CheckSingle(c) \/ ReserveSingle(c)
    \/ RemoveItems(c) \/ SelectItems(c) \/ ReserveBatch(c) \/ PersistStaleItems(c)
    \/ RecordRejection(c)

Sweep == (\E S \in SUBSET Ops : ExpireDue(S)) \/ ExpireBatch

Environment ==
    \/ Tick \/ PublishModelVersion \/ UpdateProvider \/ ChangeMedia \/ ChangeBudget
    \/ \E t \in 0 .. MaxTime : PublishPriceRule(t)

Next ==
    \/ \E k \in QuoteKeys, o \in Ops : CreateFreeQuote(k, o)
    \/ \E k \in QuoteKeys, S \in SUBSET Ops : CreateBatchFreeQuote(k, S)
    \/ \E c \in Calls, k \in Keys, b \in Bodies : BeginConfirmation(c, k, b)
    \/ \E c \in Calls, k \in Keys, b \in Bodies : ReplayOutcome(c, k, b)
    \/ \E c \in Calls : Step(c)
    \/ \E c \in Calls : Crash(c)
    \/ Sweep
    \/ Environment

Spec == Init /\ [][Next]_vars

-----------------------------------------------------------------------------
(* PROPERTIES *)

(* The reservations of the budget are exactly those of the confirmed quotes: *)
(* no repetition, rollback or race reserves twice or leaves a reservation.   *)
ReservedMatches == reserved = Amount(Confirmed) /\ reserved + other <= Limit

(* A batch is confirmed or expired as a whole: confirmed, it has at least one *)
(* confirmed item, no open one, and counts the confirmed; otherwise no item   *)
(* of it was confirmed.                                                       *)
BatchWhole ==
    /\ batch.status = "confirmed" =>
          /\ Children \cap Quoted = {}
          /\ batch.total = Cardinality(Children \cap Confirmed) /\ batch.total > 0
    /\ batch.status \in {"quoted", "expired"} => Children \cap Confirmed = {}
    /\ batch.status = "expired" => Children \cap Quoted = {}

(* What a user excluded is out once the first transaction committed, however *)
(* the reservation ends ("so a failed reservation does not make an excluded  *)
(* or stale quote confirmable again").                                       *)
ExcludedStaysOut ==
    \A c \in Calls :
        call[c].pc \in {"removed", "reserving", "stale"} /\ call[c].body.batch =>
           \A o \in Children \cap call[c].excluded : op[o].status = "expired"

(* A confirmation whose reply got lost is found again under its key: every   *)
(* confirmation event has its stored success, and every stored success its   *)
(* one event.                                                                *)
SuccessIsRecorded ==
    /\ \A e \in events : receipt[e.key] # NoOutcome /\ receipt[e.key].answer = "ok"
    /\ \A k \in Keys : receipt[k] # NoOutcome /\ receipt[k].answer = "ok"
                         => Cardinality({e \in events : e.key = k}) = 1

(* One quote request creates one quote, or the items of one batch. *)
OneQuotePerRequest ==
    \A k \in QuoteKeys : Cardinality(made[k]) > 1 => made[k] \subseteq Children

(* What is reserved is what confirmed operations were quoted; a batch is    *)
(* confirmed whole or not at all, apart from what was excluded, and what a  *)
(* client excluded is never confirmed with it.                              *)
ConfirmedWhole == ReservedMatches /\ BatchWhole /\ ExcludedStaysOut

(* A quote is confirmed only while it is valid, at the price and for the     *)
(* model version of that instant, with inputs and a reused result that can   *)
(* still be used, however long the budget row was waited for.                *)
ConfirmedWhileFresh ==
    [][\A o \in Ops : op[o].status = "quoted" /\ op'[o].status = "confirmed" =>
           /\ now < op[o].expires
           /\ model.usable /\ model.version = op[o].model
           /\ CurrentPrice(now) = op[o].price
           /\ inputs /\ (op[o].reused => source)]_vars

(* The outcome of a confirmation request never changes, every answer to the  *)
(* same request is that outcome, a success is found again under its key with *)
(* the one event it caused, and a quote request creates once.                *)
FO == INSTANCE FirstOutcome WITH outcome <- receipt, Outcomes <- [body : Bodies, answer : Codes]
AnswersFirstOutcome == FO!Spec /\ [](SuccessIsRecorded /\ OneQuotePerRequest)
=============================================================================
