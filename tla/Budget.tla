------------------------------- MODULE Budget -------------------------------
(***************************************************************************)
(* The project budget of the billing context: one row of billing.budget,   *)
(* one billing.reservation per confirmed operation, the append-only        *)
(* billing.ledger_entry rows and the billing events of the outbox.         *)
(*                                                                         *)
(* Every action is one PostgreSQL transaction that holds the budget row    *)
(* FOR UPDATE.  A change of the limit is the exception the code makes: the *)
(* command reads and validates the budget in one transaction and writes it *)
(* in another, so it is split into the steps of an Editor, which any       *)
(* reservation or settlement may interleave.                               *)
(***************************************************************************)
EXTENDS Integers, FiniteSets, Sequences

CONSTANTS
  Ops,          \* operations of the project; each is reserved at most once
  Editors,      \* budget change commands that may be in flight together
  Limits,       \* limits an editor may ask for
  Quotes,       \* quoted amounts
  Costs,        \* actual provider costs
  MaxMicros,    \* math.MaxInt64
  MaxRevision   \* math.MaxInt32

ASSUME BudgetAssumption ==
  /\ IsFiniteSet(Ops)
  /\ MaxMicros \in Nat
  /\ MaxRevision \in Nat \ {0}
  /\ Limits \subseteq 0..MaxMicros
  /\ Quotes \subseteq 0..MaxMicros
  /\ Costs \subseteq 0..MaxMicros

VARIABLES
  budget,       \* the row of billing.budget
  reservation,  \* the row of billing.reservation of each operation
  ledger,       \* the ledger entries of each operation, in insertion order
  limitDelta,   \* the sum of the budget_change entries
  fact,         \* the settlement fact kept in the note of the settle entry
  replies,      \* the results SettleInTransaction has returned, per operation
  edit,         \* the state of each budget change command
  events        \* the billing events written to the outbox

vars == <<budget, reservation, ledger, limitDelta, fact, replies, edit, events>>

-----------------------------------------------------------------------------
(* The arithmetic of domain.Budget and domain.Reservation.                 *)

Committed(b) == b.reserved + b.settled

AvailableMicros(b) == b.limit - b.reserved - b.settled

\* Budget.LowBalance: strictly below 20% of a positive limit.
LowBalance(b) == b.limit > 0 /\ AvailableMicros(b) <= (b.limit - 1) \div 5

Valid(b) ==
  /\ b.limit >= 0 /\ b.reserved >= 0 /\ b.settled >= 0
  /\ b.revision \in 1..MaxRevision
  /\ Committed(b) <= MaxMicros
  /\ b.isOverrun <=> Committed(b) > b.limit

\* Budget.ChangeLimit succeeds and changes something.
CanChangeLimit(b, next) ==
  /\ Valid(b)
  /\ next # b.limit
  /\ next >= Committed(b)
  /\ b.revision # MaxRevision

ChangeLimit(b, next) ==
  [b EXCEPT !.limit = next, !.isOverrun = FALSE, !.revision = @ + 1]

CanReserve(b, amount) ==
  /\ Valid(b)
  /\ ~b.isOverrun
  /\ b.revision # MaxRevision
  /\ amount <= AvailableMicros(b)

ReserveMicros(b, amount) ==
  [b EXCEPT !.reserved = @ + amount, !.revision = @ + 1]

\* Mutant: the charge must fit the balance that its own reservation still holds.
CanSettleFromAvailable(b, reserved, charge) ==
  /\ Valid(b)
  /\ reserved <= b.reserved
  /\ b.revision # MaxRevision
  /\ charge <= AvailableMicros(b)

CanSettle(b, reserved, charge) ==
  /\ Valid(b)
  /\ reserved <= b.reserved
  /\ b.revision # MaxRevision
  /\ (b.reserved - reserved) + (b.settled + charge) <= MaxMicros

\* Mutant: only the charged part of the reservation is given back.
SettleMicrosKeepingRest(b, reserved, charge) ==
  [b EXCEPT !.reserved = @ - (IF charge < reserved THEN charge ELSE reserved),
            !.settled = @ + charge,
            !.isOverrun = (b.reserved - reserved) + (b.settled + charge) > b.limit,
            !.revision = @ + 1]

SettleMicros(b, reserved, charge) ==
  [b EXCEPT !.reserved = @ - reserved,
            !.settled = @ + charge,
            !.isOverrun = (b.reserved - reserved) + (b.settled + charge) > b.limit,
            !.revision = @ + 1]

\* Reservation.Settle: only a token-metered charge is capped at the reservation.
\* Mutant: a token-metered charge is not capped.
ChargeUncapped(amount, cost, cap) == cost

Charge(amount, cost, cap) == IF cap /\ cost > amount THEN amount ELSE cost

\* Mutant: the difference is returned without asking for its sign.
ReleasedUnguarded(amount, charge) == amount - charge

Released(amount, charge) == IF charge < amount THEN amount - charge ELSE 0

\* Mutant: the cost above the cap is dropped.
OverageForgotten(cost, charge) == 0

Overage(cost, charge) == cost - charge

Result(amount, cost, cap, overrun) ==
  LET charge == Charge(amount, cost, cap)
  IN [charge |-> charge, released |-> Released(amount, charge),
      overage |-> Overage(cost, charge), overrun |-> overrun]

-----------------------------------------------------------------------------
NoFact == [cost |-> 0, cap |-> FALSE, charge |-> 0, overrun |-> FALSE]

Idle == [step |-> "idle"]

\* CreateProject inserts the budget with a limit of zero.
Init ==
  /\ budget = [limit |-> 0, reserved |-> 0, settled |-> 0,
               isOverrun |-> FALSE, revision |-> 1]
  /\ reservation = [o \in Ops |-> [status |-> "none", amount |-> 0]]
  /\ ledger = [o \in Ops |-> << >>]
  /\ limitDelta = 0
  /\ fact = [o \in Ops |-> NoFact]
  /\ replies = [o \in Ops |-> {}]
  /\ edit = [e \in Editors |-> Idle]
  /\ events = {}

Entry(type, amount) == <<[type |-> type, amount |-> amount]>>

EntryIfAny(type, amount) == IF amount > 0 THEN Entry(type, amount) ELSE << >>

\* The release and provider_overage entries that follow a settle entry.
SettleEntries(amount, cost, cap) ==
  LET charge == Charge(amount, cost, cap)
  IN Entry("settle", charge)
       \o EntryIfAny("release", Released(amount, charge))
       \o EntryIfAny("provider_overage", Overage(cost, charge))

Event(type, b) == {[type |-> type, revision |-> b.revision]}

EventIf(condition, type, b) == IF condition THEN Event(type, b) ELSE {}

\* Mutant: an overrun is left to the overrun alert.
BecameLowWithinLimit(before, after) ==
  ~LowBalance(before) /\ LowBalance(after) /\ ~after.isOverrun

BecameLow(before, after) == ~LowBalance(before) /\ LowBalance(after)

-----------------------------------------------------------------------------
\* ReserveInTransaction, called by the confirmation that owns the transaction.
Reserve(o, amount) ==
  /\ reservation[o].status = "none"
  /\ CanReserve(budget, amount)
  /\ budget' = ReserveMicros(budget, amount)
  /\ reservation' = [reservation EXCEPT ![o] = [status |-> "held", amount |-> amount]]
  /\ ledger' = [ledger EXCEPT ![o] = @ \o Entry("reserve", amount)]
  /\ UNCHANGED <<limitDelta, fact, replies, edit, events>>

\* Mutant: any reservation of the operation may be settled.
IsReserved(o) == reservation[o].status # "none"

IsHeld(o) == reservation[o].status = "held"

\* SettleInTransaction on a held reservation.
Settle(o, cost, cap) ==
  LET amount == reservation[o].amount
      charge == Charge(amount, cost, cap)
      next == SettleMicros(budget, amount, charge)
  IN /\ IsHeld(o)
     /\ CanSettle(budget, amount, charge)
     /\ budget' = next
     /\ reservation' = [reservation EXCEPT ![o].status =
                          IF charge = 0 THEN "released" ELSE "settled"]
     /\ ledger' = [ledger EXCEPT ![o] = @ \o SettleEntries(amount, cost, cap)]
     /\ fact' = [fact EXCEPT ![o] = [cost |-> cost, cap |-> cap, charge |-> charge,
                                     overrun |-> next.isOverrun]]
     /\ replies' = [replies EXCEPT ![o] = @ \cup {Result(amount, cost, cap, next.isOverrun)}]
     /\ events' = events \cup Event("settled", next)
          \cup EventIf(BecameLow(budget, next), "budget_low", next)
          \cup EventIf(~budget.isOverrun /\ next.isOverrun, "budget_overrun", next)
     /\ UNCHANGED <<limitDelta, edit>>

\* replaySettlement: a closed reservation answers from its ledger when the
\* caller repeats the same facts; any other facts are ErrSettlementConflict.
\* Mutant: the answer says whether the budget is overrun now.
ReplayedResultNow(o, cost, cap) ==
  Result(reservation[o].amount, cost, cap, budget.isOverrun)

ReplayedResult(o, cost, cap) ==
  Result(reservation[o].amount, cost, cap, fact[o].overrun)

ReplaySettlement(o, cost, cap) ==
  /\ reservation[o].status \in {"settled", "released"}
  /\ fact[o].cost = cost /\ fact[o].cap = cap
  /\ Tail(ledger[o]) = SettleEntries(reservation[o].amount, cost, cap)
  /\ replies' = [replies EXCEPT ![o] = @ \cup {ReplayedResult(o, cost, cap)}]
  /\ UNCHANGED <<budget, reservation, ledger, limitDelta, fact, edit, events>>

-----------------------------------------------------------------------------
\* A user opens the budget and decides on a limit for the revision shown.
ViewBudget(e, limit) ==
  /\ edit[e] = Idle
  /\ edit' = [edit EXCEPT ![e] = [step |-> "viewed", expected |-> budget.revision,
                                  limit |-> limit]]
  /\ UNCHANGED <<budget, reservation, ledger, limitDelta, fact, replies, events>>

\* ChangeBudgetCommand.Execute up to the store call: FindBudget, the expected
\* revision and ChangeLimit on the copy; a no-op or an error ends the command.
FindBudget(e) ==
  /\ edit[e].step = "viewed"
  /\ edit' = [edit EXCEPT ![e] =
       IF budget.revision = edit[e].expected /\ CanChangeLimit(budget, edit[e].limit)
       THEN [step |-> "found", before |-> budget, limit |-> edit[e].limit]
       ELSE Idle]
  /\ UNCHANGED <<budget, reservation, ledger, limitDelta, fact, replies, events>>

\* The transaction of ChangeBudgetWithEvents, and its ErrBudgetRevision.
\* Mutant: the limit is written without comparing the row with the one read.
ObservedOrNot(e) == TRUE

ObservedUnchanged(e) == budget = edit[e].before

ChangeBudgetWithEvents(e) ==
  /\ edit[e].step = "found"
  /\ ObservedUnchanged(e)
  /\ LET next == ChangeLimit(budget, edit[e].limit)
     IN /\ budget' = next
        /\ limitDelta' = limitDelta + (next.limit - budget.limit)
        /\ events' = events \cup Event("budget_changed", next)
             \cup EventIf(BecameLow(budget, next), "budget_low", next)
  /\ edit' = [edit EXCEPT ![e] = Idle]
  /\ UNCHANGED <<reservation, ledger, fact, replies>>

BudgetRevisionConflict(e) ==
  /\ edit[e].step = "found"
  /\ ~ObservedUnchanged(e)
  /\ edit' = [edit EXCEPT ![e] = Idle]
  /\ UNCHANGED <<budget, reservation, ledger, limitDelta, fact, replies, events>>

-----------------------------------------------------------------------------
Next ==
  \/ \E o \in Ops, amount \in Quotes : Reserve(o, amount)
  \/ \E o \in Ops, cost \in Costs, cap \in BOOLEAN : Settle(o, cost, cap)
  \/ \E o \in Ops, cost \in Costs, cap \in BOOLEAN : ReplaySettlement(o, cost, cap)
  \/ \E e \in Editors, limit \in Limits : ViewBudget(e, limit)
  \/ \E e \in Editors : FindBudget(e)
  \/ \E e \in Editors : ChangeBudgetWithEvents(e)
  \/ \E e \in Editors : BudgetRevisionConflict(e)

Spec == Init /\ [][Next]_vars
-----------------------------------------------------------------------------
(* A sum over the operations, as the number of its micros: one element per *)
(* operation and micro.  (Cardinalities are what the proofs can reason      *)
(* about for every set of operations.)                                     *)
Micros(f) == Cardinality({u \in Ops \X (1..MaxMicros) : u[2] <= f[u[1]]})

Held == [o \in Ops |-> IF reservation[o].status = "held" THEN reservation[o].amount ELSE 0]

Charged == [o \in Ops |-> fact[o].charge]

Closed(o) == reservation[o].status \in {"settled", "released"}

-----------------------------------------------------------------------------
BudgetType ==
  [limit : 0..MaxMicros, reserved : 0..MaxMicros, settled : 0..MaxMicros,
   isOverrun : BOOLEAN, revision : 1..MaxRevision]

EntryType ==
  [type : {"reserve", "settle", "release", "provider_overage"}, amount : 0..MaxMicros]

EventType ==
  [type : {"settled", "budget_low", "budget_overrun", "budget_changed"},
   revision : 1..MaxRevision]

ResultType ==
  [charge : 0..MaxMicros, released : 0..MaxMicros, overage : 0..MaxMicros,
   overrun : BOOLEAN]

(* Every variable keeps its type; money and revision stay in their width.  *)
TypeOK ==
  /\ budget \in BudgetType
  /\ reservation \in [Ops -> [status : {"none", "held", "settled", "released"},
                              amount : 0..MaxMicros]]
  /\ ledger \in [Ops -> Seq(EntryType)]
  /\ limitDelta \in Int
  /\ fact \in [Ops -> [cost : 0..MaxMicros, cap : BOOLEAN, charge : 0..MaxMicros,
                       overrun : BOOLEAN]]
  /\ replies \in [Ops -> SUBSET ResultType]
  /\ edit \in [Editors ->
       {Idle}
       \cup [step : {"viewed"}, expected : 1..MaxRevision, limit : 0..MaxMicros]
       \cup [step : {"found"}, before : BudgetType, limit : 0..MaxMicros]]
  /\ events \subseteq EventType

(* The stored balance always passes Budget.Validate, so no later command   *)
(* is refused with ErrInvalidBudget: in particular is_overrun says exactly *)
(* that reserved and settled money exceed the limit, whatever limit change *)
(* raced with a reservation or a settlement.                               *)
BudgetValid == Valid(budget)

(* reserved_micros is the sum of the held reservations and settled_micros  *)
(* the sum of the charges: no interleaving of confirmations, settlements,  *)
(* replays and limit changes loses or doubles a micro of the balance.      *)
MoneyConserved ==
  /\ budget.reserved = Micros(Held)
  /\ budget.settled = Micros(Charged)

LedgerAmount(o, type) ==
  LET rows == {i \in DOMAIN ledger[o] : ledger[o][i].type = type}
  IN IF rows = {} THEN 0 ELSE ledger[o][CHOOSE i \in rows : TRUE].amount

(* The ledger explains every reservation: no entry is written twice, the   *)
(* customer's settle entry and the platform's provider_overage entry add   *)
(* up to the actual cost, and what the settle entry leaves of the reserve  *)
(* entry is in the release entry.  The limit is explained by the           *)
(* budget_change entries.                                                  *)
LedgerExact ==
  /\ \A o \in Ops :
       /\ \A i, j \in DOMAIN ledger[o] : ledger[o][i].type = ledger[o][j].type => i = j
       /\ LedgerAmount(o, "reserve") = reservation[o].amount
       /\ Len(ledger[o]) > 1 <=> Closed(o)
       /\ Closed(o) =>
            /\ LedgerAmount(o, "settle") + LedgerAmount(o, "provider_overage") = fact[o].cost
            /\ LedgerAmount(o, "release") =
                 IF LedgerAmount(o, "settle") < LedgerAmount(o, "reserve")
                 THEN LedgerAmount(o, "reserve") - LedgerAmount(o, "settle") ELSE 0
  /\ budget.limit = limitDelta

(* A settlement that charges no more than its reservation is never refused *)
(* while a revision is left: reservations of other operations and limit    *)
(* changes cannot make Budget.Settle return ErrBudgetReservationMismatch   *)
(* or overflow, which would leave an operation without a terminal state.   *)
SettlementNeverRefused ==
  \A o \in Ops :
    reservation[o].status = "held" /\ budget.revision < MaxRevision
      => \A charge \in 0..reservation[o].amount :
           CanSettle(budget, reservation[o].amount, charge)

(* However often SettleInTransaction is retried, before or after later     *)
(* changes of the budget, every successful call returned the same result.  *)
ReplayAgrees == \A o \in Ops : Cardinality(replies[o]) <= 1

(* The ledger tells where every amount went, and every repetition of a     *)
(* settlement answers what the first call answered.                        *)
LedgerAnswers == LedgerExact /\ ReplayAgrees

(* Only a settlement above its reservation that is not token-metered can   *)
(* take the budget over its limit; reservations and limit changes cannot.  *)
OverrunOnlyBySettlement ==
  [][~budget.isOverrun /\ budget'.isOverrun =>
       \E o \in Ops : /\ reservation[o].status = "held"
                      /\ reservation'[o].status = "settled"
                      /\ fact'[o].charge > reservation[o].amount
                      /\ ~fact'[o].cap]_vars

(* A reservation that is closed stays closed with its amount, its ledger   *)
(* and its fact unchanged, and a reservation is never closed unless held.  *)
ClosedForever ==
  [][\A o \in Ops :
       /\ Closed(o) => /\ reservation'[o] = reservation[o]
                       /\ ledger'[o] = ledger[o]
                       /\ fact'[o] = fact[o]
       /\ Closed(o)' => reservation[o].status \in {"held", "settled", "released"}]_vars

(* The balance falls below 20% of the limit either with a budget_low event *)
(* of that revision or through a reservation: ReserveInTransaction is the  *)
(* one writer of the budget that raises no alert.                          *)
LowBalanceAnnounced ==
  [][~LowBalance(budget) /\ LowBalance(budget') =>
       \/ [type |-> "budget_low", revision |-> budget'.revision] \in events'
       \/ budget'.reserved > budget.reserved]_vars
=============================================================================
