---------------------------- MODULE MoneyProofs ----------------------------
(* Theorems about money: the project budget, for every set of operations,  *)
(* editors, amounts and widths, and the prices of quotes and of usage, for *)
(* every rule, quantity and factor.                                        *)
EXTENDS Budget, Pricing, FiniteSetTheorems, SequenceTheorems, WellFoundedInduction, TLAPS

-----------------------------------------------------------------------------
(* Sums of micros.  Micros(f) counts pairs of an operation and a micro, so *)
(* the theorems on cardinalities say how a sum follows one changed term.   *)

Cells(f) == {u \in Ops \X (1..MaxMicros) : u[2] <= f[u[1]]}

Column(o, n) == {u \in Ops \X (1..MaxMicros) : u[1] = o /\ u[2] <= n}

(* The micros of one operation are as many as its amount. *)
LEMMA ColumnSize ==
  ASSUME NEW o \in Ops, NEW n \in 0..MaxMicros
  PROVE  IsFiniteSet(Column(o, n)) /\ Cardinality(Column(o, n)) = n
<1>1. IsFiniteSet({o}) /\ Cardinality({o}) = 1
  BY FS_Singleton
<1>2. n \in Nat /\ MaxMicros \in Nat /\ n <= MaxMicros
  BY BudgetAssumption
<1>3. IsFiniteSet(1..n) /\ Cardinality(1..n) = n
  BY <1>2, FS_Interval
<1>4. /\ IsFiniteSet({o} \X (1..n))
      /\ Cardinality({o} \X (1..n)) = Cardinality({o}) * Cardinality(1..n)
  BY <1>1, <1>3, FS_Product, Zenon
<1>5. Column(o, n) = {o} \X (1..n)
  <2>1. \A u : u \in Column(o, n) => u \in {o} \X (1..n)
    BY <1>2 DEF Column
  <2>2. \A u : u \in {o} \X (1..n) => u \in Column(o, n)
    BY <1>2 DEF Column
  <2>3. QED
    BY <2>1, <2>2, Zenon
<1>6. QED
  BY <1>1, <1>2, <1>3, <1>4, <1>5

(* A sum is a natural number, and no term exceeds it. *)
LEMMA MicrosBounds ==
  ASSUME NEW f \in [Ops -> 0..MaxMicros], NEW o \in Ops
  PROVE  /\ IsFiniteSet(Cells(f))
         /\ Micros(f) = Cardinality(Cells(f))
         /\ Micros(f) \in Nat
         /\ f[o] <= Micros(f)
<1>1. IsFiniteSet(Ops \X (1..MaxMicros))
  <2>1. IsFiniteSet(Ops) /\ IsFiniteSet(1..MaxMicros)
    BY BudgetAssumption, FS_Interval
  <2>2. QED
    BY <2>1, FS_Product, Zenon
<1>2. IsFiniteSet(Cells(f))
  BY <1>1, FS_Subset DEF Cells
<1>3. Micros(f) = Cardinality(Cells(f)) /\ Micros(f) \in Nat
  BY <1>2, FS_CardinalityType DEF Micros, Cells
<1>4. Column(o, f[o]) \subseteq Cells(f) /\ f[o] \in 0..MaxMicros
  BY DEF Cells, Column
<1>5. f[o] <= Micros(f)
  BY <1>2, <1>3, <1>4, ColumnSize, FS_Subset, BudgetAssumption
<1>6. QED
  BY <1>2, <1>3, <1>5

(* The size of a set split into two parts. *)
LEMMA SplitSize ==
  ASSUME NEW A, NEW B, IsFiniteSet(A), IsFiniteSet(B), A \cap B = {}
  PROVE  Cardinality(A \cup B) = Cardinality(A) + Cardinality(B)
<1>1. Cardinality(A \cup B) = Cardinality(A) + Cardinality(B) - Cardinality(A \cap B)
  BY FS_Union, Zenon
<1>2. Cardinality(A \cap B) = 0
  BY FS_EmptySet, Zenon
<1>3. Cardinality(A) \in Nat /\ Cardinality(B) \in Nat
  BY FS_CardinalityType, Zenon
<1>4. QED
  BY <1>1, <1>2, <1>3

(* Changing one term changes the sum by the difference. *)
LEMMA MicrosUpdate ==
  ASSUME NEW f \in [Ops -> 0..MaxMicros], NEW o \in Ops, NEW n \in 0..MaxMicros
  PROVE  Micros([f EXCEPT ![o] = n]) = Micros(f) - f[o] + n
<1> DEFINE g == [f EXCEPT ![o] = n]
           Rest == {u \in Cells(f) : u[1] # o}
<1>1. g \in [Ops -> 0..MaxMicros] /\ g[o] = n /\ f[o] \in Nat /\ n \in Nat
  BY BudgetAssumption
<1>2. IsFiniteSet(Rest)
  BY MicrosBounds, FS_Subset
<1>3. Cells(f) = Rest \cup Column(o, f[o]) /\ Rest \cap Column(o, f[o]) = {}
  <2>1. \A u : u \in Cells(f) <=> u \in Rest \/ u \in Column(o, f[o])
    BY Zenon DEF Cells, Column
  <2>2. QED
    BY <2>1, Zenon DEF Column
<1>4. Cells(g) = Rest \cup Column(o, n) /\ Rest \cap Column(o, n) = {}
  <2>1. \A u \in Ops \X (1..MaxMicros) : u[1] \in Ops
    OBVIOUS
  <2>2. \A p \in Ops : p # o => g[p] = f[p]
    OBVIOUS
  <2>3. \A u : u \in Cells(g) <=> u \in Rest \/ u \in Column(o, n)
    BY <1>1, <2>1, <2>2, Zenon DEF Cells, Column
  <2>4. QED
    BY <2>3, Zenon DEF Column
<1>5. Cardinality(Cells(f)) = Cardinality(Rest) + f[o]
  <2>1. IsFiniteSet(Column(o, f[o])) /\ Cardinality(Column(o, f[o])) = f[o]
    BY ColumnSize
  <2>2. QED
    BY <1>2, <1>3, <2>1, SplitSize, Zenon
<1>6. Cardinality(Cells(g)) = Cardinality(Rest) + n
  <2>1. IsFiniteSet(Column(o, n)) /\ Cardinality(Column(o, n)) = n
    BY ColumnSize
  <2>2. QED
    BY <1>2, <1>4, <2>1, SplitSize, Zenon
<1>7. Cardinality(Rest) \in Nat
  BY <1>2, FS_CardinalityType
<1>8. Micros(f) = Cardinality(Cells(f)) /\ Micros(g) = Cardinality(Cells(g))
  BY <1>1, MicrosBounds
<1>9. QED
  BY <1>1, <1>5, <1>6, <1>7, <1>8

-----------------------------------------------------------------------------
(* The operations of the module keep their types. *)

USE DEF Closed, IsHeld

LEMMA ResultTyped ==
  ASSUME NEW amount \in 0..MaxMicros, NEW cost \in 0..MaxMicros,
         NEW cap \in BOOLEAN, NEW overrun \in BOOLEAN
  PROVE  /\ Charge(amount, cost, cap) \in 0..MaxMicros
         /\ Released(amount, Charge(amount, cost, cap)) \in 0..MaxMicros
         /\ Overage(cost, Charge(amount, cost, cap)) \in 0..MaxMicros
         /\ Result(amount, cost, cap, overrun) \in ResultType
  BY BudgetAssumption DEF Charge, Released, Overage, Result, ResultType

LEMMA EntriesTyped ==
  ASSUME NEW amount \in 0..MaxMicros, NEW cost \in 0..MaxMicros, NEW cap \in BOOLEAN
  PROVE  /\ Entry("reserve", amount) \in Seq(EntryType)
         /\ SettleEntries(amount, cost, cap) \in Seq(EntryType)
<1> DEFINE charge == Charge(amount, cost, cap)
<1>1. /\ charge \in 0..MaxMicros
      /\ Released(amount, charge) \in 0..MaxMicros
      /\ Overage(cost, charge) \in 0..MaxMicros
  BY ResultTyped
<1>2. ASSUME NEW type \in {"reserve", "settle", "release", "provider_overage"},
             NEW a \in 0..MaxMicros
      PROVE  Entry(type, a) \in Seq(EntryType) /\ EntryIfAny(type, a) \in Seq(EntryType)
  <2>1. [type |-> type, amount |-> a] \in EntryType
    BY <1>2 DEF EntryType
  <2>2. Entry(type, a) \in Seq(EntryType) /\ << >> \in Seq(EntryType)
    BY <2>1 DEF Entry
  <2>3. QED
    BY <2>2 DEF EntryIfAny
<1>3. Entry("settle", charge) \o EntryIfAny("release", Released(amount, charge))
        \in Seq(EntryType)
  BY <1>1, <1>2, ConcatProperties
<1>4. QED
  BY <1>1, <1>2, <1>3, ConcatProperties DEF SettleEntries

(* A balance that passes Validate and admits the operation passes it again. *)
LEMMA BalanceSteps ==
  ASSUME NEW b \in BudgetType, NEW amount \in 0..MaxMicros, NEW charge \in 0..MaxMicros
  PROVE  /\ CanReserve(b, amount)
              => ReserveMicros(b, amount) \in BudgetType /\ Valid(ReserveMicros(b, amount))
         /\ CanSettle(b, amount, charge)
              => SettleMicros(b, amount, charge) \in BudgetType /\ Valid(SettleMicros(b, amount, charge))
         /\ CanChangeLimit(b, amount)
              => ChangeLimit(b, amount) \in BudgetType /\ Valid(ChangeLimit(b, amount))
<1> USE BudgetAssumption DEF Committed
<1>1. /\ b.limit \in 0..MaxMicros /\ b.reserved \in 0..MaxMicros /\ b.settled \in 0..MaxMicros
      /\ b.isOverrun \in BOOLEAN /\ b.revision \in 1..MaxRevision
  BY DEF BudgetType
<1>2. ASSUME CanReserve(b, amount)
      PROVE  ReserveMicros(b, amount) \in BudgetType /\ Valid(ReserveMicros(b, amount))
  <2>1. /\ b.reserved + amount \in 0..MaxMicros
        /\ b.revision + 1 \in 1..MaxRevision
    BY <1>2, <1>1 DEF CanReserve, Valid, AvailableMicros
  <2>2. ReserveMicros(b, amount) \in BudgetType
    BY <2>1 DEF ReserveMicros, BudgetType
  <2>3. /\ ReserveMicros(b, amount).reserved = b.reserved + amount
        /\ ReserveMicros(b, amount).revision = b.revision + 1
        /\ ReserveMicros(b, amount).limit = b.limit /\ ReserveMicros(b, amount).settled = b.settled /\ ReserveMicros(b, amount).isOverrun = b.isOverrun
    BY DEF ReserveMicros, BudgetType
  <2>4. QED
    BY <1>2, <1>1, <2>1, <2>2, <2>3 DEF CanReserve, Valid, AvailableMicros
<1>3. ASSUME CanSettle(b, amount, charge)
      PROVE  SettleMicros(b, amount, charge) \in BudgetType /\ Valid(SettleMicros(b, amount, charge))
  <2>1. /\ b.reserved - amount \in 0..MaxMicros
        /\ b.settled + charge \in 0..MaxMicros
        /\ ((b.reserved - amount) + (b.settled + charge) > b.limit) \in BOOLEAN
        /\ b.revision + 1 \in 1..MaxRevision
    BY <1>3, <1>1 DEF CanSettle, Valid
  <2>2. SettleMicros(b, amount, charge) \in BudgetType
    BY <2>1 DEF SettleMicros, BudgetType
  <2>3. /\ SettleMicros(b, amount, charge).reserved = b.reserved - amount
        /\ SettleMicros(b, amount, charge).settled = b.settled + charge
        /\ SettleMicros(b, amount, charge).isOverrun = ((b.reserved - amount) + (b.settled + charge) > b.limit)
        /\ SettleMicros(b, amount, charge).revision = b.revision + 1
        /\ SettleMicros(b, amount, charge).limit = b.limit
    BY DEF SettleMicros, BudgetType
  <2>4. QED
    <3>1. Committed(SettleMicros(b, amount, charge))
            = (b.reserved - amount) + (b.settled + charge)
      BY <2>3
    <3>2. SettleMicros(b, amount, charge).isOverrun
            <=> Committed(SettleMicros(b, amount, charge)) > SettleMicros(b, amount, charge).limit
      BY <2>3, <3>1, Zenon
    <3>3. (b.reserved - amount) + (b.settled + charge) <= MaxMicros
      BY <1>3, Zenon DEF CanSettle
    <3>4. QED
      BY <1>1, <2>1, <2>2, <2>3, <3>1, <3>2, <3>3 DEF Valid
<1>4. ASSUME CanChangeLimit(b, amount)
      PROVE  ChangeLimit(b, amount) \in BudgetType /\ Valid(ChangeLimit(b, amount))
  <2>1. /\ amount \in 0..MaxMicros
        /\ b.revision + 1 \in 1..MaxRevision
    <3>1. b.revision # MaxRevision
      BY <1>4, Zenon DEF CanChangeLimit
    <3>2. QED
      BY <1>1, <3>1
  <2>2. ChangeLimit(b, amount) \in BudgetType
    BY <2>1 DEF ChangeLimit, BudgetType
  <2>3. /\ ChangeLimit(b, amount).limit = amount
        /\ ChangeLimit(b, amount).isOverrun = FALSE
        /\ ChangeLimit(b, amount).revision = b.revision + 1
        /\ ChangeLimit(b, amount).reserved = b.reserved /\ ChangeLimit(b, amount).settled = b.settled
    BY DEF ChangeLimit, BudgetType
  <2>4. QED
    BY <1>4, <1>1, <2>1, <2>2, <2>3 DEF CanChangeLimit, Valid
<1>5. QED
  BY <1>2, <1>3, <1>4

LEMMA EventsTyped ==
  ASSUME NEW b \in BudgetType,
         NEW type \in {"settled", "budget_low", "budget_overrun", "budget_changed"},
         NEW condition
  PROVE  Event(type, b) \subseteq EventType /\ EventIf(condition, type, b) \subseteq EventType
  BY DEF Event, EventIf, EventType, BudgetType

-----------------------------------------------------------------------------
(* What a budget change has validated stays admissible while the row is    *)
(* the one it read.                                                        *)
EditSound ==
  \A e \in Editors : edit[e].step = "found" => CanChangeLimit(edit[e].before, edit[e].limit)

TypeInv == TypeOK /\ BudgetValid /\ EditSound

LEMMA TypeInvInit == Init => TypeInv
<1> SUFFICES ASSUME Init PROVE TypeInv
  OBVIOUS
<1>1. TypeOK
  BY BudgetAssumption DEF Init, TypeOK, BudgetType, NoFact
<1>2. BudgetValid
  BY BudgetAssumption DEF Init, BudgetValid, Valid, Committed
<1>3. EditSound
  BY DEF Init, EditSound, Idle
<1>4. QED
  BY <1>1, <1>2, <1>3 DEF TypeInv

LEMMA TypeInvReserve ==
  ASSUME TypeInv, NEW o \in Ops, NEW amount \in Quotes, Reserve(o, amount)
  PROVE  TypeInv'
<1>1. amount \in 0..MaxMicros
  BY BudgetAssumption
<1>2. budget' \in BudgetType /\ Valid(budget')
  BY <1>1, BalanceSteps DEF Reserve, TypeInv, TypeOK
<1>3. ledger' \in [Ops -> Seq(EntryType)]
  BY <1>1, BudgetAssumption, EntriesTyped, ConcatProperties DEF Reserve, TypeInv, TypeOK
<1>4. QED
  BY <1>1, <1>2, <1>3 DEF Reserve, TypeInv, TypeOK, BudgetValid, EditSound

LEMMA TypeInvSettle ==
  ASSUME TypeInv, NEW o \in Ops, NEW cost \in Costs, NEW cap \in BOOLEAN, Settle(o, cost, cap)
  PROVE  TypeInv'
<1> DEFINE amount == reservation[o].amount
           charge == Charge(amount, cost, cap)
           next == SettleMicros(budget, amount, charge)
<1>1. amount \in 0..MaxMicros /\ cost \in 0..MaxMicros
  BY BudgetAssumption DEF TypeInv, TypeOK
<1>2. charge \in 0..MaxMicros
  BY <1>1, ResultTyped
<1>3. budget' = next /\ next \in BudgetType /\ Valid(next)
  BY <1>1, <1>2, BalanceSteps DEF Settle, TypeInv, TypeOK
<1>4. ledger' \in [Ops -> Seq(EntryType)]
  BY <1>1, EntriesTyped, ConcatProperties DEF Settle, TypeInv, TypeOK
<1>5. next.isOverrun \in BOOLEAN
  BY <1>3 DEF BudgetType
<1>6. /\ Result(amount, cost, cap, next.isOverrun) \in ResultType
      /\ [cost |-> cost, cap |-> cap, charge |-> charge, overrun |-> next.isOverrun]
           \in [cost : 0..MaxMicros, cap : BOOLEAN, charge : 0..MaxMicros, overrun : BOOLEAN]
  BY <1>1, <1>2, <1>5, ResultTyped
<1>7. replies' \in [Ops -> SUBSET ResultType]
  BY <1>6 DEF Settle, TypeInv, TypeOK
<1>8. events' \subseteq EventType
  BY <1>3, EventsTyped DEF Settle, TypeInv, TypeOK
<1>9. /\ reservation' \in [Ops -> [status : {"none", "held", "settled", "released"},
                                   amount : 0..MaxMicros]]
      /\ fact' \in [Ops -> [cost : 0..MaxMicros, cap : BOOLEAN, charge : 0..MaxMicros,
                            overrun : BOOLEAN]]
  <2> DEFINE status == IF charge = 0 THEN "released" ELSE "settled"
  <2>1. status \in {"none", "held", "settled", "released"}
    OBVIOUS
  <2>2. reservation' = [reservation EXCEPT ![o].status = status]
    BY Zenon DEF Settle
  <2>3. fact' = [fact EXCEPT ![o] = [cost |-> cost, cap |-> cap, charge |-> charge,
                                     overrun |-> next.isOverrun]]
    BY Zenon DEF Settle
  <2> HIDE DEF status, charge, next, amount
  <2>4. QED
    BY <1>6, <2>1, <2>2, <2>3, ZenonT(40) DEF TypeInv, TypeOK
<1>10. QED
  BY <1>3, <1>4, <1>7, <1>8, <1>9 DEF Settle, TypeInv, TypeOK, BudgetValid, EditSound

LEMMA TypeInvReplay ==
  ASSUME TypeInv, NEW o \in Ops, NEW cost \in Costs, NEW cap \in BOOLEAN,
         ReplaySettlement(o, cost, cap)
  PROVE  TypeInv'
<1>1. ReplayedResult(o, cost, cap) \in ResultType
  BY BudgetAssumption, ResultTyped DEF ReplayedResult, TypeInv, TypeOK
<1>2. QED
  BY <1>1 DEF ReplaySettlement, TypeInv, TypeOK, BudgetValid, EditSound

LEMMA TypeInvEdit ==
  ASSUME TypeInv, NEW e \in Editors,
         \/ \E limit \in Limits : ViewBudget(e, limit)
         \/ FindBudget(e) \/ ChangeBudgetWithEvents(e) \/ BudgetRevisionConflict(e)
  PROVE  TypeInv'
<1> USE DEF TypeInv, BudgetValid, EditSound
<1>1. ASSUME NEW limit \in Limits, ViewBudget(e, limit)
      PROVE  TypeInv'
  BY <1>1, BudgetAssumption DEF ViewBudget, TypeOK, BudgetType
<1>2. CASE FindBudget(e)
  BY <1>2 DEF FindBudget, TypeOK, Idle
<1>3. CASE ChangeBudgetWithEvents(e)
  <2> DEFINE next == ChangeLimit(budget, edit[e].limit)
  <2>1. CanChangeLimit(budget, edit[e].limit) /\ edit[e].limit \in 0..MaxMicros
    BY <1>3 DEF ChangeBudgetWithEvents, ObservedUnchanged, TypeOK, Idle
  <2>2. budget' = next /\ next \in BudgetType /\ Valid(next)
    BY <1>3, <2>1, BalanceSteps, BudgetAssumption DEF ChangeBudgetWithEvents, TypeOK
  <2>3. events' \subseteq EventType
    BY <1>3, <2>2, EventsTyped DEF ChangeBudgetWithEvents, TypeOK
  <2>4. limitDelta' \in Int
    BY <1>3, <2>2 DEF ChangeBudgetWithEvents, TypeOK, BudgetType
  <2>5. QED
    BY <1>3, <2>2, <2>3, <2>4 DEF ChangeBudgetWithEvents, TypeOK, Idle
<1>4. CASE BudgetRevisionConflict(e)
  BY <1>4 DEF BudgetRevisionConflict, TypeOK, Idle
<1>5. QED
  BY <1>1, <1>2, <1>3, <1>4

LEMMA TypeInvNext == TypeInv /\ [Next]_vars => TypeInv'
<1> SUFFICES ASSUME TypeInv, [Next]_vars PROVE TypeInv'
  OBVIOUS
<1>1. CASE Next
  BY <1>1, TypeInvReserve, TypeInvSettle, TypeInvReplay, TypeInvEdit DEF Next
<1>2. CASE UNCHANGED vars
  BY <1>2 DEF vars, TypeInv, TypeOK, BudgetValid, EditSound
<1>3. QED
  BY <1>1, <1>2

LEMMA TypeInvariance == Spec => []TypeInv
  BY TypeInvInit, TypeInvNext, PTL DEF Spec

(* Every variable keeps its type for any number of operations and editors: *)
(* no reservation, settlement or limit change takes money or revision out  *)
(* of its width.                                                           *)
THEOREM BudgetTypeCorrect == Spec => []TypeOK
<1>1. TypeInv => TypeOK
  BY DEF TypeInv
<1>2. QED
  BY <1>1, TypeInvariance, PTL

(* The stored balance always passes Budget.Validate.                       *)
THEOREM BudgetAlwaysValid == Spec => []BudgetValid
<1>1. TypeInv => BudgetValid
  BY DEF TypeInv
<1>2. QED
  BY <1>1, TypeInvariance, PTL

-----------------------------------------------------------------------------
(* Conservation of money.  The inductive form adds that an operation is    *)
(* charged nothing before its reservation closes.                          *)
ChargedWhenClosed == \A o \in Ops : ~Closed(o) => fact[o].charge = 0

MoneyInv == TypeInv /\ MoneyConserved /\ ChargedWhenClosed

LEMMA SumsTyped ==
  ASSUME TypeOK
  PROVE  Held \in [Ops -> 0..MaxMicros] /\ Charged \in [Ops -> 0..MaxMicros]
  BY BudgetAssumption DEF Held, Charged, TypeOK

LEMMA ZeroSum ==
  ASSUME NEW f \in [Ops -> 0..MaxMicros], \A o \in Ops : f[o] = 0
  PROVE  Micros(f) = 0
<1>1. {u \in Ops \X (1..MaxMicros) : u[2] <= f[u[1]]} = {}
  BY BudgetAssumption
<1>2. QED
  BY <1>1, FS_EmptySet DEF Micros

LEMMA MoneyInvInit == Init => MoneyInv
<1> SUFFICES ASSUME Init PROVE MoneyInv
  OBVIOUS
<1>1. TypeInv /\ TypeOK
  BY TypeInvInit DEF TypeInv
<1>2. \A o \in Ops : Held[o] = 0 /\ Charged[o] = 0
  BY DEF Init, Held, Charged, NoFact
<1>3. Micros(Held) = 0 /\ Micros(Charged) = 0
  BY <1>1, <1>2, SumsTyped, ZeroSum
<1>4. budget.reserved = 0 /\ budget.settled = 0
  BY DEF Init
<1>5. ChargedWhenClosed
  BY DEF Init, ChargedWhenClosed, NoFact
<1>6. QED
  BY <1>1, <1>3, <1>4, <1>5 DEF MoneyInv, MoneyConserved

LEMMA MoneyInvReserve ==
  ASSUME MoneyInv, NEW o \in Ops, NEW amount \in Quotes, Reserve(o, amount)
  PROVE  MoneyConserved' /\ ChargedWhenClosed'
<1> USE DEF MoneyInv, TypeInv
<1>1. amount \in 0..MaxMicros /\ Held[o] = 0
  BY BudgetAssumption DEF Held, Reserve
<1>2. Held' = [Held EXCEPT ![o] = amount] /\ Charged' = Charged
  BY DEF Held, Charged, Reserve, TypeOK
<1>3. Micros(Held') = Micros(Held) + amount
  <2>1. Held \in [Ops -> 0..MaxMicros] /\ Micros(Held) \in Nat
    BY SumsTyped, MicrosBounds
  <2>2. Micros([Held EXCEPT ![o] = amount]) = Micros(Held) - Held[o] + amount
    BY <1>1, <2>1, BudgetAssumption, MicrosUpdate
  <2>3. QED
    BY <1>1, <1>2, <2>1, <2>2
<1>4. /\ budget'.reserved = budget.reserved + amount
      /\ budget'.settled = budget.settled
  BY DEF Reserve, ReserveMicros, TypeOK, BudgetType
<1>5. MoneyConserved'
  BY <1>2, <1>3, <1>4 DEF MoneyConserved
<1>6. QED
  BY <1>5 DEF ChargedWhenClosed, Reserve, TypeOK

LEMMA MoneyInvSettle ==
  ASSUME MoneyInv, NEW o \in Ops, NEW cost \in Costs, NEW cap \in BOOLEAN, Settle(o, cost, cap)
  PROVE  MoneyConserved' /\ ChargedWhenClosed'
<1> USE DEF MoneyInv, TypeInv
<1> DEFINE amount == reservation[o].amount
           charge == Charge(amount, cost, cap)
<1>1. /\ amount \in 0..MaxMicros /\ charge \in 0..MaxMicros
      /\ reservation[o].status = "held"
  BY BudgetAssumption, ResultTyped DEF TypeOK, Settle
<1>2. Held[o] = amount /\ Charged[o] = 0
  BY <1>1 DEF Held, Charged, ChargedWhenClosed
<1>3. Held' = [Held EXCEPT ![o] = 0]
  <2>1. \A p \in Ops : Held'[p] = IF p = o THEN 0 ELSE Held[p]
    BY DEF Held, Settle, TypeOK
  <2>2. QED
    BY <2>1 DEF Held
<1>4. Charged' = [Charged EXCEPT ![o] = charge]
  <2>1. \A p \in Ops : Charged'[p] = IF p = o THEN charge ELSE Charged[p]
    BY DEF Charged, Settle, TypeOK
  <2>2. QED
    BY <2>1 DEF Charged
<1>5. Micros(Held') = Micros(Held) - amount
  <2>1. Held \in [Ops -> 0..MaxMicros] /\ Micros(Held) \in Nat
    BY SumsTyped, MicrosBounds
  <2>2. Micros([Held EXCEPT ![o] = 0]) = Micros(Held) - Held[o] + 0
    <3>1. 0 \in 0..MaxMicros
      BY BudgetAssumption
    <3>2. QED
      BY <2>1, <3>1, MicrosUpdate
  <2>3. QED
    BY <1>1, <1>2, <1>3, <2>1, <2>2
<1>6. Micros(Charged') = Micros(Charged) + charge
  <2>1. Charged \in [Ops -> 0..MaxMicros] /\ Micros(Charged) \in Nat
    BY SumsTyped, MicrosBounds
  <2>2. Micros([Charged EXCEPT ![o] = charge]) = Micros(Charged) - Charged[o] + charge
    BY <1>1, <2>1, BudgetAssumption, MicrosUpdate
  <2>3. QED
    BY <1>1, <1>2, <1>4, <2>1, <2>2
<1>7. /\ budget'.reserved = budget.reserved - amount
      /\ budget'.settled = budget.settled + charge
  BY DEF Settle, SettleMicros, TypeOK, BudgetType
<1>8. MoneyConserved'
  BY <1>5, <1>6, <1>7 DEF MoneyConserved
<1>9. QED
  BY <1>8 DEF ChargedWhenClosed, Settle, TypeOK

LEMMA MoneyInvNext == MoneyInv /\ [Next]_vars => MoneyInv'
<1> SUFFICES ASSUME MoneyInv, [Next]_vars PROVE MoneyInv'
  OBVIOUS
<1> USE DEF MoneyInv
<1>1. TypeInv'
  BY TypeInvNext
<1>2. /\ UNCHANGED <<reservation, fact>>
      /\ budget'.reserved = budget.reserved /\ budget'.settled = budget.settled
      => MoneyConserved' /\ ChargedWhenClosed'
  <2> SUFFICES ASSUME UNCHANGED <<reservation, fact>>,
                      budget'.reserved = budget.reserved, budget'.settled = budget.settled
               PROVE  MoneyConserved' /\ ChargedWhenClosed'
    OBVIOUS
  <2>1. Held' = Held /\ Charged' = Charged
    BY DEF Held, Charged
  <2>2. QED
    BY <2>1 DEF MoneyConserved, ChargedWhenClosed
<1>3. ASSUME NEW o \in Ops, NEW amount \in Quotes, Reserve(o, amount)
      PROVE  MoneyConserved' /\ ChargedWhenClosed'
  BY <1>3, MoneyInvReserve
<1>4. ASSUME NEW o \in Ops, NEW cost \in Costs, NEW cap \in BOOLEAN, Settle(o, cost, cap)
      PROVE  MoneyConserved' /\ ChargedWhenClosed'
  BY <1>4, MoneyInvSettle
<1>5. ASSUME NEW o \in Ops, NEW cost \in Costs, NEW cap \in BOOLEAN,
             ReplaySettlement(o, cost, cap)
      PROVE  MoneyConserved' /\ ChargedWhenClosed'
  BY <1>2, <1>5 DEF ReplaySettlement
<1>6. ASSUME NEW e \in Editors,
             \/ \E limit \in Limits : ViewBudget(e, limit)
             \/ FindBudget(e) \/ ChangeBudgetWithEvents(e) \/ BudgetRevisionConflict(e)
      PROVE  MoneyConserved' /\ ChargedWhenClosed'
  <2>1. budget'.reserved = budget.reserved /\ budget'.settled = budget.settled
    BY <1>6 DEF ViewBudget, FindBudget, ChangeBudgetWithEvents, BudgetRevisionConflict,
                ChangeLimit, TypeInv, TypeOK, BudgetType
  <2>2. UNCHANGED <<reservation, fact>>
    BY <1>6 DEF ViewBudget, FindBudget, ChangeBudgetWithEvents, BudgetRevisionConflict
  <2>3. QED
    BY <1>2, <2>1, <2>2
<1>7. ASSUME UNCHANGED vars
      PROVE  MoneyConserved' /\ ChargedWhenClosed'
  BY <1>2, <1>7 DEF vars
<1>8. MoneyConserved' /\ ChargedWhenClosed'
  BY <1>3, <1>4, <1>5, <1>6, <1>7 DEF Next
<1>9. QED
  BY <1>1, <1>8

LEMMA MoneyInvariance == Spec => []MoneyInv
  BY MoneyInvInit, MoneyInvNext, PTL DEF Spec

(* reserved_micros is the sum of all held reservations and settled_micros  *)
(* the sum of all charges, for every number of operations.                 *)
THEOREM BudgetConservesMoney == Spec => []MoneyConserved
<1>1. MoneyInv => MoneyConserved
  BY DEF MoneyInv
<1>2. QED
  BY <1>1, MoneyInvariance, PTL

(* A settlement within its reservation is never refused while a revision   *)
(* is left: the sum of the held amounts bounds each of them.               *)
THEOREM BudgetSettlesWithinReservation == Spec => []SettlementNeverRefused
<1>1. MoneyInv => SettlementNeverRefused
  <2> SUFFICES ASSUME MoneyInv, NEW o \in Ops,
                      reservation[o].status = "held", budget.revision < MaxRevision,
                      NEW charge \in 0..reservation[o].amount
               PROVE  CanSettle(budget, reservation[o].amount, charge)
    BY Zenon DEF SettlementNeverRefused
  <2> USE DEF MoneyInv, TypeInv
  <2>1. Held[o] = reservation[o].amount
    BY DEF Held
  <2>2. reservation[o].amount <= budget.reserved
    BY <2>1, SumsTyped, MicrosBounds DEF MoneyConserved
  <2>3. /\ budget.reserved \in Nat /\ budget.settled \in Nat
        /\ reservation[o].amount \in Nat /\ budget.revision \in Nat
    BY BudgetAssumption DEF TypeOK, BudgetType
  <2>4. Committed(budget) <= MaxMicros /\ Valid(budget)
    BY Zenon DEF BudgetValid, Valid
  <2>5. QED
    BY <2>2, <2>3, <2>4, BudgetAssumption DEF CanSettle, Committed
<1>2. QED
  BY <1>1, MoneyInvariance, PTL

-----------------------------------------------------------------------------
(* The ledger.  The inductive form says exactly which entries a reservation *)
(* has written, and that the one result ever returned is the one the fact   *)
(* and the reservation determine.                                           *)
FirstResult(o) ==
  Result(reservation[o].amount, fact[o].cost, fact[o].cap, fact[o].overrun)

Unreserved(o) ==
  reservation[o].status = "none"
    => reservation[o].amount = 0 /\ ledger[o] = << >> /\ replies[o] = {}

Reserved(o) ==
  reservation[o].status = "held"
    => ledger[o] = Entry("reserve", reservation[o].amount) /\ replies[o] = {}

Answered(o) ==
  Closed(o) =>
    /\ fact[o].charge = Charge(reservation[o].amount, fact[o].cost, fact[o].cap)
    /\ ledger[o] = Entry("reserve", reservation[o].amount)
                     \o SettleEntries(reservation[o].amount, fact[o].cost, fact[o].cap)
    /\ replies[o] = {FirstResult(o)}

Booked == \A o \in Ops : Unreserved(o) /\ Reserved(o) /\ Answered(o)

LedgerInv == TypeInv /\ Booked /\ budget.limit = limitDelta

LEMMA LedgerInvInit == Init => LedgerInv
<1> SUFFICES ASSUME Init PROVE LedgerInv
  OBVIOUS
<1>1. TypeInv
  BY TypeInvInit
<1>2. Booked
  BY DEF Init, Booked, Unreserved, Reserved, Answered
<1>3. budget.limit = limitDelta
  BY DEF Init
<1>4. QED
  BY <1>1, <1>2, <1>3 DEF LedgerInv

(* What an operation has booked depends on its own rows alone. *)
LEMMA OthersBooked ==
  ASSUME Booked, NEW p \in Ops,
         reservation'[p] = reservation[p], ledger'[p] = ledger[p],
         fact'[p] = fact[p], replies'[p] = replies[p]
  PROVE  (Unreserved(p) /\ Reserved(p) /\ Answered(p))'
  BY DEF Booked, Unreserved, Reserved, Answered, FirstResult

LEMMA BookedReserve ==
  ASSUME LedgerInv, NEW o \in Ops, NEW amount \in Quotes, Reserve(o, amount)
  PROVE  Booked' /\ budget'.limit = limitDelta'
<1> USE DEF LedgerInv, TypeInv
<1>1. /\ reservation'[o] = [status |-> "held", amount |-> amount]
      /\ ledger'[o] = ledger[o] \o Entry("reserve", amount)
      /\ replies'[o] = replies[o]
      /\ \A p \in Ops \ {o} : /\ reservation'[p] = reservation[p] /\ ledger'[p] = ledger[p]
                              /\ fact'[p] = fact[p] /\ replies'[p] = replies[p]
  BY DEF Reserve, TypeOK
<1>2. ledger[o] = << >> /\ replies[o] = {}
  BY DEF Reserve, Booked, Unreserved
<1>3. Entry("reserve", amount) \in Seq(EntryType)
  BY EntriesTyped, BudgetAssumption
<1>4. ledger'[o] = Entry("reserve", amount)
  BY <1>1, <1>2, <1>3
<1>5. (Unreserved(o) /\ Reserved(o) /\ Answered(o))'
  BY <1>1, <1>2, <1>4 DEF Unreserved, Reserved, Answered
<1>6. Booked'
  BY <1>1, <1>5, OthersBooked DEF Booked
<1>7. budget'.limit = limitDelta'
  BY DEF Reserve, ReserveMicros, TypeOK, BudgetType
<1>8. QED
  BY <1>6, <1>7

LEMMA BookedSettle ==
  ASSUME LedgerInv, NEW o \in Ops, NEW cost \in Costs, NEW cap \in BOOLEAN,
         Settle(o, cost, cap)
  PROVE  Booked' /\ budget'.limit = limitDelta'
<1> USE DEF LedgerInv, TypeInv
<1> DEFINE amount == reservation[o].amount
           charge == Charge(amount, cost, cap)
           next == SettleMicros(budget, amount, charge)
           status == IF charge = 0 THEN "released" ELSE "settled"
<1>1. /\ reservation'[o].status = status /\ reservation'[o].amount = amount
      /\ ledger'[o] = ledger[o] \o SettleEntries(amount, cost, cap)
      /\ fact'[o] = [cost |-> cost, cap |-> cap, charge |-> charge, overrun |-> next.isOverrun]
      /\ replies'[o] = replies[o] \cup {Result(amount, cost, cap, next.isOverrun)}
  <2> HIDE DEF amount, charge, next, status
  <2>1. /\ reservation' = [reservation EXCEPT ![o].status = status]
        /\ ledger' = [ledger EXCEPT ![o] = @ \o SettleEntries(amount, cost, cap)]
        /\ fact' = [fact EXCEPT ![o] = [cost |-> cost, cap |-> cap, charge |-> charge,
                                        overrun |-> next.isOverrun]]
        /\ replies' = [replies EXCEPT ![o] = @ \cup {Result(amount, cost, cap, next.isOverrun)}]
    BY Zenon DEF Settle, amount, charge, next, status
  <2>2. QED
    BY <2>1 DEF TypeOK, amount
<1>2. \A p \in Ops \ {o} : /\ reservation'[p] = reservation[p] /\ ledger'[p] = ledger[p]
                           /\ fact'[p] = fact[p] /\ replies'[p] = replies[p]
  BY DEF Settle, TypeOK
<1>3. ledger[o] = Entry("reserve", amount) /\ replies[o] = {}
  BY DEF Settle, Booked, Reserved
<1>4. status \in {"settled", "released"}
  OBVIOUS
<1>5. (Unreserved(o) /\ Reserved(o) /\ Answered(o))'
  <2> HIDE DEF charge, next, status
  <2>1. fact'[o].charge = Charge(reservation'[o].amount, fact'[o].cost, fact'[o].cap)
    BY <1>1 DEF charge
  <2>2. ledger'[o] = Entry("reserve", reservation'[o].amount)
                       \o SettleEntries(reservation'[o].amount, fact'[o].cost, fact'[o].cap)
    BY <1>1, <1>3
  <2>3. FirstResult(o)' = Result(amount, cost, cap, next.isOverrun)
    BY <1>1 DEF FirstResult
  <2>4. replies'[o] = {FirstResult(o)'}
    BY <1>1, <1>3, <2>3
  <2>5. reservation'[o].status \in {"settled", "released"}
    BY <1>1, <1>4
  <2>6. QED
    BY <2>1, <2>2, <2>4, <2>5 DEF Unreserved, Reserved, Answered
<1>6. Booked'
  BY <1>2, <1>5, OthersBooked DEF Booked
<1>7. budget'.limit = limitDelta'
  BY DEF Settle, SettleMicros, TypeOK, BudgetType
<1>8. QED
  BY <1>6, <1>7

LEMMA BookedReplay ==
  ASSUME LedgerInv, NEW o \in Ops, NEW cost \in Costs, NEW cap \in BOOLEAN,
         ReplaySettlement(o, cost, cap)
  PROVE  Booked' /\ budget'.limit = limitDelta'
<1> USE DEF LedgerInv, TypeInv
<1>1. UNCHANGED <<budget, limitDelta, reservation, ledger, fact>>
  BY DEF ReplaySettlement
<1>2. ReplayedResult(o, cost, cap) = FirstResult(o)
  BY DEF ReplaySettlement, ReplayedResult, FirstResult
<1>3. replies[o] = {FirstResult(o)}
  BY DEF ReplaySettlement, Booked, Answered
<1>4. \A p \in Ops : replies'[p] = replies[p]
  BY <1>2, <1>3 DEF ReplaySettlement, TypeOK
<1>5. QED
  BY <1>1, <1>4, OthersBooked DEF Booked

LEMMA BookedEdit ==
  ASSUME LedgerInv, NEW e \in Editors,
         \/ \E limit \in Limits : ViewBudget(e, limit)
         \/ FindBudget(e) \/ ChangeBudgetWithEvents(e) \/ BudgetRevisionConflict(e)
  PROVE  Booked' /\ budget'.limit = limitDelta'
<1> USE DEF LedgerInv, TypeInv
<1>1. UNCHANGED <<reservation, ledger, fact, replies>>
  BY DEF ViewBudget, FindBudget, ChangeBudgetWithEvents, BudgetRevisionConflict
<1>2. Booked'
  BY <1>1, OthersBooked DEF Booked
<1>3. budget'.limit = limitDelta'
  <2>1. CASE ChangeBudgetWithEvents(e)
    <3>1. edit[e].limit \in 0..MaxMicros
      BY <2>1 DEF ChangeBudgetWithEvents, TypeOK, Idle
    <3>2. budget'.limit = edit[e].limit
      BY <2>1 DEF ChangeBudgetWithEvents, ChangeLimit, TypeOK, BudgetType
    <3>3. limitDelta' = limitDelta + (budget'.limit - budget.limit)
      BY <2>1 DEF ChangeBudgetWithEvents
    <3>4. QED
      BY <3>1, <3>2, <3>3, BudgetAssumption DEF TypeOK
  <2>2. CASE UNCHANGED <<budget, limitDelta>>
    BY <2>2
  <2>3. QED
    BY <2>1, <2>2 DEF ViewBudget, FindBudget, BudgetRevisionConflict
<1>4. QED
  BY <1>2, <1>3

LEMMA LedgerInvNext == LedgerInv /\ [Next]_vars => LedgerInv'
<1> SUFFICES ASSUME LedgerInv, [Next]_vars PROVE LedgerInv'
  OBVIOUS
<1>1. TypeInv'
  BY TypeInvNext DEF LedgerInv
<1>2. Booked' /\ budget'.limit = limitDelta'
  <2>1. CASE Next
    BY <2>1, BookedReserve, BookedSettle, BookedReplay, BookedEdit DEF Next
  <2>2. CASE UNCHANGED vars
    BY <2>2, OthersBooked DEF vars, LedgerInv, Booked
  <2>3. QED
    BY <2>1, <2>2
<1>3. QED
  BY <1>1, <1>2 DEF LedgerInv

LEMMA LedgerInvariance == Spec => []LedgerInv
  BY LedgerInvInit, LedgerInvNext, PTL DEF Spec

-----------------------------------------------------------------------------
(* What the entries of one settlement say.                                 *)

Row(type, amount) == [type |-> type, amount |-> amount]

LEMMA OneEntry ==
  ASSUME NEW type \in {"reserve", "settle", "release", "provider_overage"},
         NEW amount \in 0..MaxMicros
  PROVE  /\ Entry(type, amount) \in Seq(EntryType)
         /\ Len(Entry(type, amount)) = 1 /\ Entry(type, amount)[1] = Row(type, amount)
         /\ EntryIfAny(type, amount) \in Seq(EntryType)
         /\ amount = 0 => Len(EntryIfAny(type, amount)) = 0
         /\ amount > 0 => /\ Len(EntryIfAny(type, amount)) = 1
                          /\ EntryIfAny(type, amount)[1] = Row(type, amount)
<1>1. Row(type, amount) \in EntryType /\ Entry(type, amount) = <<Row(type, amount)>>
  BY DEF Row, EntryType, Entry
<1>2. /\ Entry(type, amount) \in Seq(EntryType)
      /\ Len(Entry(type, amount)) = 1 /\ Entry(type, amount)[1] = Row(type, amount)
  BY <1>1
<1>3. CASE amount = 0
  <2>1. EntryIfAny(type, amount) = << >>
    BY <1>3 DEF EntryIfAny
  <2>2. << >> \in Seq(EntryType) /\ Len(<< >>) = 0 /\ ~(amount > 0)
    BY <1>3
  <2>3. QED
    BY <1>2, <2>1, <2>2, Zenon
<1>4. CASE amount > 0
  <2>1. EntryIfAny(type, amount) = Entry(type, amount) /\ amount # 0
    BY <1>4, BudgetAssumption DEF EntryIfAny
  <2>2. QED
    BY <1>2, <2>1, Zenon
<1>5. QED
  BY <1>3, <1>4, BudgetAssumption

(* A concatenation holds the first sequence and then the second. *)
LEMMA Joined ==
  ASSUME NEW x \in Seq(EntryType), NEW y \in Seq(EntryType)
  PROVE  /\ x \o y \in Seq(EntryType) /\ Len(x \o y) = Len(x) + Len(y)
         /\ Len(x) \in Nat /\ Len(y) \in Nat
         /\ \A i \in 1..Len(x) : (x \o y)[i] = x[i]
         /\ \A i \in 1..Len(y) : (x \o y)[Len(x) + i] = y[i]
<1>1. Len(x) \in Nat /\ Len(y) \in Nat
  BY LenProperties
<1>2. /\ x \o y \in Seq(EntryType) /\ Len(x \o y) = Len(x) + Len(y)
      /\ \A i \in 1..Len(x) + Len(y) :
            (x \o y)[i] = IF i <= Len(x) THEN x[i] ELSE y[i - Len(x)]
  BY ConcatProperties, Zenon
<1>3. ASSUME NEW i \in 1..Len(x) PROVE (x \o y)[i] = x[i]
  BY <1>1, <1>2
<1>4. ASSUME NEW i \in 1..Len(y) PROVE (x \o y)[Len(x) + i] = y[i]
  <2>1. /\ Len(x) + i \in 1..Len(x) + Len(y) /\ ~(Len(x) + i <= Len(x))
        /\ (Len(x) + i) - Len(x) = i
    BY <1>1
  <2>2. QED
    BY <1>2, <2>1, Zenon
<1>5. QED
  BY <1>1, <1>2, <1>3, <1>4

JoinedRows(rows, r, s, a, b) ==
  /\ rows \in Seq(EntryType) /\ Len(rows) = 2 + Len(a) + Len(b)
  /\ rows[1] = r[1] /\ rows[2] = s[1]
  /\ Len(a) = 1 => rows[3] = a[1]
  /\ Len(a) = 0 /\ Len(b) = 1 => rows[3] = b[1]

LEMMA JoinedSettlement ==
  ASSUME NEW r \in Seq(EntryType), NEW s \in Seq(EntryType),
         NEW a \in Seq(EntryType), NEW b \in Seq(EntryType),
         Len(r) = 1, Len(s) = 1, Len(a) \in 0..1, Len(b) \in 0..1
  PROVE  JoinedRows(r \o ((s \o a) \o b), r, s, a, b)
<1>a. PICK rows : rows = r \o ((s \o a) \o b)
  OBVIOUS
<1>1. PICK sa : sa = s \o a
  OBVIOUS
<1>2. /\ sa \in Seq(EntryType) /\ Len(sa) = Len(s) + Len(a)
      /\ \A i \in 1..Len(s) : sa[i] = s[i]
      /\ \A i \in 1..Len(a) : sa[Len(s) + i] = a[i]
  BY <1>1, Joined, ZenonT(40)
<1>3. /\ Len(sa) = 1 + Len(a) /\ sa[1] = s[1] /\ (Len(a) = 1 => sa[2] = a[1])
  BY <1>2
<1>4. PICK t : t = sa \o b
  OBVIOUS
<1>5. /\ t \in Seq(EntryType) /\ Len(t) = Len(sa) + Len(b)
      /\ \A i \in 1..Len(sa) : t[i] = sa[i]
      /\ \A i \in 1..Len(b) : t[Len(sa) + i] = b[i]
  BY <1>2, <1>4, Joined, ZenonT(40)
<1>6. /\ Len(t) = 1 + Len(a) + Len(b)
      /\ t[1] = s[1] /\ (Len(a) = 1 => t[2] = a[1])
      /\ Len(a) = 0 /\ Len(b) = 1 => t[2] = b[1]
  BY <1>3, <1>5
<1>7. rows = r \o t
  BY <1>a, <1>1, <1>4, Zenon
<1>8. /\ rows \in Seq(EntryType) /\ Len(rows) = Len(r) + Len(t)
      /\ \A i \in 1..Len(r) : rows[i] = r[i]
      /\ \A i \in 1..Len(t) : rows[Len(r) + i] = t[i]
  BY <1>5, <1>7, Joined, ZenonT(40)
<1>9. JoinedRows(rows, r, s, a, b)
  <2>1. rows \in Seq(EntryType) /\ Len(rows) = 2 + Len(a) + Len(b)
    BY <1>6, <1>8
  <2>2. rows[1] = r[1] /\ rows[2] = t[1] /\ (Len(t) >= 2 => rows[3] = t[2])
    <3>1. 1 \in 1..Len(r) /\ 1 \in 1..Len(t) /\ (Len(t) >= 2 => 2 \in 1..Len(t))
      BY <1>6
    <3>2. rows[1] = r[1] /\ rows[1 + 1] = t[1] /\ (Len(t) >= 2 => rows[1 + 2] = t[2])
      BY <1>8, <3>1
    <3>3. QED
      BY <3>2
  <2>3. QED
    BY <1>6, <2>1, <2>2 DEF JoinedRows
<1>10. QED
  BY <1>a, <1>9, Zenon

(* Only what is due is written after the settle entry. *)
SettledRows(rows, amount, cost, charge) ==
  /\ rows \in Seq(EntryType)
  /\ rows[1] = Row("reserve", amount) /\ rows[2] = Row("settle", charge)
  /\ \/ cost = charge /\ charge >= amount /\ Len(rows) = 2
     \/ /\ cost = charge /\ charge < amount
        /\ Len(rows) = 3 /\ rows[3] = Row("release", amount - charge)
     \/ /\ cost > charge /\ charge = amount
        /\ Len(rows) = 3 /\ rows[3] = Row("provider_overage", cost - charge)

LEMMA ClosedLedger ==
  ASSUME NEW amount \in 0..MaxMicros, NEW cost \in 0..MaxMicros, NEW cap \in BOOLEAN,
         NEW rows
  PROVE  rows = Entry("reserve", amount) \o SettleEntries(amount, cost, cap) =>
         SettledRows(rows, amount, cost, Charge(amount, cost, cap))
<1> DEFINE charge == Charge(amount, cost, cap)
           r == Entry("reserve", amount)
           s == Entry("settle", charge)
           a == EntryIfAny("release", Released(amount, charge))
           b == EntryIfAny("provider_overage", Overage(cost, charge))
<1>a. SUFFICES ASSUME rows = r \o SettleEntries(amount, cost, cap)
               PROVE  SettledRows(rows, amount, cost, charge)
  BY Zenon
<1>1. /\ amount \in Nat /\ cost \in Nat /\ charge \in Nat
      /\ \/ cost = charge /\ charge >= amount
         \/ cost = charge /\ charge < amount
         \/ cost > charge /\ charge = amount
  BY BudgetAssumption DEF Charge
<1>2. /\ charge \in 0..MaxMicros /\ Released(amount, charge) \in 0..MaxMicros
      /\ Overage(cost, charge) \in 0..MaxMicros
  BY ResultTyped
<1>3. /\ r \in Seq(EntryType) /\ Len(r) = 1 /\ r[1] = Row("reserve", amount)
      /\ s \in Seq(EntryType) /\ Len(s) = 1 /\ s[1] = Row("settle", charge)
      /\ a \in Seq(EntryType) /\ b \in Seq(EntryType)
  BY <1>2, OneEntry
<1>4. /\ charge >= amount => Len(a) = 0
      /\ charge < amount => Len(a) = 1 /\ a[1] = Row("release", amount - charge)
      /\ cost = charge => Len(b) = 0
      /\ cost > charge => Len(b) = 1 /\ b[1] = Row("provider_overage", cost - charge)
  <2>1. /\ charge >= amount => Released(amount, charge) = 0
        /\ charge < amount => Released(amount, charge) = amount - charge
        /\ cost = charge => Overage(cost, charge) = 0
        /\ cost > charge => Overage(cost, charge) = cost - charge
    BY <1>1 DEF Released, Overage
  <2>2. /\ charge < amount => amount - charge > 0
        /\ cost > charge => cost - charge > 0
    BY <1>1
  <2>3. QED
    BY <1>2, <2>1, <2>2, OneEntry
<1>5. rows = r \o ((s \o a) \o b)
  BY <1>a DEF SettleEntries
<1> HIDE DEF charge, r, s, a, b
<1>6. Len(a) \in 0..1 /\ Len(b) \in 0..1
  BY <1>1, <1>4
<1>7. /\ rows \in Seq(EntryType) /\ Len(rows) = 2 + Len(a) + Len(b)
      /\ rows[1] = r[1] /\ rows[2] = s[1]
      /\ Len(a) = 1 => rows[3] = a[1]
      /\ Len(a) = 0 /\ Len(b) = 1 => rows[3] = b[1]
  <2>1. /\ r \in Seq(EntryType) /\ s \in Seq(EntryType)
        /\ a \in Seq(EntryType) /\ b \in Seq(EntryType)
        /\ Len(r) = 1 /\ Len(s) = 1 /\ Len(a) \in 0..1 /\ Len(b) \in 0..1
    BY <1>3, <1>6, Zenon
  <2>2. JoinedRows(r \o ((s \o a) \o b), r, s, a, b)
    BY <2>1, JoinedSettlement, Zenon
  <2>3. QED
    BY <1>5, <2>2, Zenon DEF JoinedRows
<1>8. QED
  <2>1. CASE cost = charge /\ charge >= amount
    BY <1>1, <1>3, <1>4, <1>7, <2>1 DEF SettledRows
  <2>2. CASE cost = charge /\ charge < amount
    <3>1. Len(a) = 1 /\ Len(b) = 0 /\ a[1] = Row("release", amount - charge)
      BY <1>4, <2>2, Zenon
    <3>2. Len(rows) = 3
      BY <1>7, <3>1
    <3>3. QED
      BY <1>3, <1>7, <2>2, <3>1, <3>2, Zenon DEF SettledRows
  <2>3. CASE cost > charge /\ charge = amount
    <3>1. Len(a) = 0 /\ Len(b) = 1 /\ b[1] = Row("provider_overage", cost - charge)
      <4>1. charge >= amount
        BY <1>1, <2>3
      <4>2. QED
        BY <1>4, <2>3, <4>1, Zenon
    <3>2. Len(rows) = 3
      BY <1>7, <3>1
    <3>3. QED
      BY <1>3, <1>7, <2>3, <3>1, <3>2, Zenon DEF SettledRows
  <2>4. QED
    BY <1>1, <2>1, <2>2, <2>3

-----------------------------------------------------------------------------
(* What LedgerAmount reads in a ledger that has each type once. *)
Once(o) ==
  \A i, j \in DOMAIN ledger[o] : ledger[o][i].type = ledger[o][j].type => i = j

LEMMA AmountRead ==
  ASSUME NEW o \in Ops, Once(o), NEW i \in DOMAIN ledger[o]
  PROVE  LedgerAmount(o, ledger[o][i].type) = ledger[o][i].amount
<1> DEFINE type == ledger[o][i].type
           rows == {j \in DOMAIN ledger[o] : ledger[o][j].type = type}
<1>1. rows = {i}
  BY Zenon DEF Once
<1>2. (CHOOSE j \in rows : TRUE) = i
  BY <1>1
<1>3. rows # {}
  BY <1>1
<1> HIDE DEF rows
<1>4. LedgerAmount(o, type) = ledger[o][CHOOSE j \in rows : TRUE].amount
  BY <1>3 DEF LedgerAmount, rows
<1>5. QED
  BY <1>2, <1>4

LEMMA NothingRead ==
  ASSUME NEW o \in Ops, NEW type, \A i \in DOMAIN ledger[o] : ledger[o][i].type # type
  PROVE  LedgerAmount(o, type) = 0
  BY DEF LedgerAmount

(* The entries of one operation explain its reservation and its fact. *)
Explained(o) ==
  /\ Once(o)
  /\ LedgerAmount(o, "reserve") = reservation[o].amount
  /\ Len(ledger[o]) > 1 <=> Closed(o)
  /\ Closed(o) =>
       /\ LedgerAmount(o, "settle") + LedgerAmount(o, "provider_overage") = fact[o].cost
       /\ LedgerAmount(o, "release") =
            IF LedgerAmount(o, "settle") < LedgerAmount(o, "reserve")
            THEN LedgerAmount(o, "reserve") - LedgerAmount(o, "settle") ELSE 0

LEMMA OpenExplained ==
  ASSUME LedgerInv, NEW o \in Ops, ~Closed(o)
  PROVE  Explained(o)
<1> DEFINE amount == reservation[o].amount
<1>1. /\ amount \in 0..MaxMicros
      /\ reservation[o].status \in {"none", "held"}
  BY DEF LedgerInv, TypeInv, TypeOK, Closed
<1>2. CASE reservation[o].status = "none"
  <2>1. ledger[o] = << >> /\ amount = 0
    BY <1>2 DEF LedgerInv, Booked, Unreserved
  <2>2. DOMAIN ledger[o] = {} /\ Len(ledger[o]) = 0
    BY <2>1
  <2>3. Once(o)
    BY <2>2 DEF Once
  <2>4. LedgerAmount(o, "reserve") = 0
    BY <2>2, NothingRead
  <2>5. QED
    BY <2>1, <2>2, <2>3, <2>4 DEF Explained
<1>3. CASE reservation[o].status = "held"
  <2>1. ledger[o] = Entry("reserve", amount)
    BY <1>3 DEF LedgerInv, Booked, Reserved
  <2>2. /\ ledger[o] \in Seq(EntryType)
        /\ Len(ledger[o]) = 1 /\ ledger[o][1] = Row("reserve", amount)
    BY <1>1, <2>1, OneEntry, Zenon
  <2>3. DOMAIN ledger[o] = {1}
    BY <2>2, LenProperties
  <2>4. Once(o)
    BY <2>3 DEF Once
  <2>5. LedgerAmount(o, ledger[o][1].type) = ledger[o][1].amount
    BY <2>3, <2>4, AmountRead
  <2>6. LedgerAmount(o, "reserve") = amount
    BY <2>2, <2>5 DEF Row
  <2>7. QED
    BY <2>2, <2>4, <2>6 DEF Explained
<1>4. QED
  BY <1>1, <1>2, <1>3

LEMMA ClosedExplained ==
  ASSUME LedgerInv, NEW o \in Ops, Closed(o)
  PROVE  Explained(o)
<1> DEFINE amount == reservation[o].amount
           cost == fact[o].cost
           cap == fact[o].cap
           rows == ledger[o]
<1>1. amount \in 0..MaxMicros /\ cost \in 0..MaxMicros /\ cap \in BOOLEAN
  BY DEF LedgerInv, TypeInv, TypeOK
<1>2. PICK charge : charge = Charge(amount, cost, cap)
  OBVIOUS
<1>3. rows = Entry("reserve", amount) \o SettleEntries(amount, cost, cap)
  BY DEF LedgerInv, Booked, Answered
<1>4. amount \in Nat /\ cost \in Nat /\ charge \in Nat
  BY <1>1, <1>2, BudgetAssumption DEF Charge
<1> HIDE DEF amount, cost, cap, rows
<1>5. /\ rows \in Seq(EntryType)
      /\ rows[1] = Row("reserve", amount) /\ rows[2] = Row("settle", charge)
      /\ \/ cost = charge /\ charge >= amount /\ Len(rows) = 2
         \/ /\ cost = charge /\ charge < amount
            /\ Len(rows) = 3 /\ rows[3] = Row("release", amount - charge)
         \/ /\ cost > charge /\ charge = amount
            /\ Len(rows) = 3 /\ rows[3] = Row("provider_overage", cost - charge)
  <2>1. SettledRows(rows, amount, cost, charge)
    BY <1>1, <1>2, <1>3, ClosedLedger, Zenon
  <2>2. QED
    BY <2>1, Zenon DEF SettledRows
<1>6. DOMAIN rows = 1..Len(rows)
  BY <1>5, LenProperties
<1>7. /\ rows[1].type = "reserve" /\ rows[1].amount = amount
      /\ rows[2].type = "settle" /\ rows[2].amount = charge
      /\ Len(rows) \in {2, 3}
      /\ Len(rows) = 3 => rows[3].type \in {"release", "provider_overage"}
  BY <1>5 DEF Row
<1>8. Once(o)
  <2>1. \A i, j \in DOMAIN rows : rows[i].type = rows[j].type => i = j
    <3>1. CASE Len(rows) = 2
      BY <1>6, <1>7, <3>1
    <3>2. CASE Len(rows) = 3
      BY <1>6, <1>7, <3>2
    <3>3. QED
      BY <1>7, <3>1, <3>2
  <2>2. QED
    BY <2>1 DEF Once, rows
<1>9. \A i \in DOMAIN rows : LedgerAmount(o, rows[i].type) = rows[i].amount
  BY <1>8, AmountRead DEF rows
<1>10. LedgerAmount(o, "reserve") = amount /\ LedgerAmount(o, "settle") = charge
  BY <1>6, <1>7, <1>9
<1>11. ASSUME NEW type, \A i \in DOMAIN rows : rows[i].type # type
       PROVE  LedgerAmount(o, type) = 0
  BY <1>11, NothingRead DEF rows
<1>12. /\ LedgerAmount(o, "release") = IF charge < amount THEN amount - charge ELSE 0
       /\ LedgerAmount(o, "provider_overage") = cost - charge
  <2>1. CASE cost = charge /\ charge >= amount /\ Len(rows) = 2
    <3>1. LedgerAmount(o, "release") = 0 /\ LedgerAmount(o, "provider_overage") = 0
      <4>1. \A i \in DOMAIN rows : rows[i].type \in {"reserve", "settle"}
        BY <1>6, <1>7, <2>1
      <4>2. QED
        BY <1>11, <4>1
    <3>2. QED
      BY <1>4, <2>1, <3>1
  <2>2. CASE /\ cost = charge /\ charge < amount
             /\ Len(rows) = 3 /\ rows[3] = Row("release", amount - charge)
    <3>1. LedgerAmount(o, "release") = amount - charge
      BY <1>6, <1>9, <2>2 DEF Row
    <3>2. LedgerAmount(o, "provider_overage") = 0
      <4>1. \A i \in DOMAIN rows : rows[i].type \in {"reserve", "settle", "release"}
        BY <1>6, <1>7, <2>2 DEF Row
      <4>2. QED
        BY <1>11, <4>1
    <3>3. QED
      BY <1>4, <2>2, <3>1, <3>2
  <2>3. CASE /\ cost > charge /\ charge = amount
             /\ Len(rows) = 3 /\ rows[3] = Row("provider_overage", cost - charge)
    <3>1. LedgerAmount(o, "provider_overage") = cost - charge
      BY <1>6, <1>9, <2>3 DEF Row
    <3>2. LedgerAmount(o, "release") = 0
      <4>1. \A i \in DOMAIN rows : rows[i].type \in {"reserve", "settle", "provider_overage"}
        BY <1>6, <1>7, <2>3 DEF Row
      <4>2. QED
        BY <1>11, <4>1
    <3>3. QED
      BY <1>4, <2>3, <3>1, <3>2
  <2>4. QED
    BY <1>5, <2>1, <2>2, <2>3
<1>13. QED
  BY <1>4, <1>7, <1>8, <1>10, <1>12 DEF Explained, amount, cost, rows

(* However many operations, editors and retries there are, the ledger says *)
(* where every amount went, the budget_change entries explain the limit,   *)
(* and every repetition of a settlement gets the answer of the first call. *)
THEOREM BudgetLedgerAnswers == Spec => []LedgerAnswers
<1>1. LedgerInv => LedgerExact
  <2> SUFFICES ASSUME LedgerInv PROVE LedgerExact
    OBVIOUS
  <2>1. \A o \in Ops : Explained(o)
    BY OpenExplained, ClosedExplained
  <2>2. budget.limit = limitDelta
    BY DEF LedgerInv
  <2>3. QED
    BY <2>1, <2>2, Zenon DEF LedgerExact, Explained, Once
<1>2. LedgerInv => ReplayAgrees
  <2> SUFFICES ASSUME LedgerInv, NEW o \in Ops PROVE Cardinality(replies[o]) <= 1
    BY DEF ReplayAgrees
  <2>1. replies[o] = {} \/ \E x : replies[o] = {x}
    BY DEF LedgerInv, TypeInv, TypeOK, Booked, Unreserved, Reserved, Answered, Closed
  <2>2. Cardinality(replies[o]) \in {0, 1}
    BY <2>1, FS_EmptySet, FS_Singleton, Zenon
  <2>3. QED
    BY <2>2
<1>3. QED
  BY <1>1, <1>2, LedgerInvariance, PTL DEF LedgerAnswers

-----------------------------------------------------------------------------
(* The action properties. *)

(* The balance never falls below 20% of the limit in silence, except by a  *)
(* reservation, the one writer that raises no alert.                       *)
THEOREM BudgetLowBalanceAnnounced == Spec => LowBalanceAnnounced
<1>1. ASSUME TypeInv, [Next]_vars, ~LowBalance(budget), LowBalance(budget')
      PROVE  \/ [type |-> "budget_low", revision |-> budget'.revision] \in events'
             \/ budget'.reserved > budget.reserved
  <2>1. CASE UNCHANGED budget
    BY <1>1, <2>1
  <2>2. ASSUME NEW o \in Ops, NEW amount \in Quotes, Reserve(o, amount)
        PROVE  budget'.reserved > budget.reserved
    <3>1. /\ budget'.limit = budget.limit /\ budget'.settled = budget.settled
          /\ budget'.reserved = budget.reserved + amount
      BY <1>1, <2>2 DEF Reserve, ReserveMicros, TypeInv, TypeOK, BudgetType
    <3>2. amount \in Nat /\ budget.reserved \in Nat
      BY <1>1, BudgetAssumption DEF TypeInv, TypeOK, BudgetType
    <3>3. CASE amount = 0
      <4>1. budget'.reserved = budget.reserved
        BY <3>1, <3>2, <3>3
      <4>2. LowBalance(budget') <=> LowBalance(budget)
        BY <3>1, <4>1 DEF LowBalance, AvailableMicros
      <4>3. QED
        BY <1>1, <4>2
    <3>4. QED
      BY <3>1, <3>2, <3>3
  <2>3. ASSUME NEW o \in Ops, NEW cost \in Costs, NEW cap \in BOOLEAN, Settle(o, cost, cap)
        PROVE  [type |-> "budget_low", revision |-> budget'.revision] \in events'
    <3>1. EventIf(BecameLow(budget, budget'), "budget_low", budget') \subseteq events'
      BY <2>3 DEF Settle
    <3>2. QED
      BY <1>1, <3>1 DEF EventIf, Event, BecameLow
  <2>4. ASSUME NEW e \in Editors, ChangeBudgetWithEvents(e)
        PROVE  [type |-> "budget_low", revision |-> budget'.revision] \in events'
    <3>1. EventIf(BecameLow(budget, budget'), "budget_low", budget') \subseteq events'
      BY <2>4 DEF ChangeBudgetWithEvents
    <3>2. QED
      BY <1>1, <3>1 DEF EventIf, Event, BecameLow
  <2>5. ASSUME Next PROVE \/ UNCHANGED budget
                          \/ \E o \in Ops, amount \in Quotes : Reserve(o, amount)
                          \/ \E o \in Ops, cost \in Costs, cap \in BOOLEAN : Settle(o, cost, cap)
                          \/ \E e \in Editors : ChangeBudgetWithEvents(e)
    BY <2>5 DEF Next, ReplaySettlement, ViewBudget, FindBudget, BudgetRevisionConflict
  <2>6. CASE UNCHANGED vars
    BY <2>1, <2>6 DEF vars
  <2>7. QED
    BY <1>1, <2>1, <2>2, <2>3, <2>4, <2>5, <2>6
<1>2. TypeInv /\ [Next]_vars =>
        [~LowBalance(budget) /\ LowBalance(budget') =>
           \/ [type |-> "budget_low", revision |-> budget'.revision] \in events'
           \/ budget'.reserved > budget.reserved]_vars
  BY <1>1
<1>3. QED
  BY <1>2, TypeInvariance, PTL DEF Spec, LowBalanceAnnounced

(* Only the settlement of a held reservation, above its amount and not     *)
(* token-metered, takes the budget over its limit.                         *)
THEOREM BudgetOverrunOnlyBySettlement == Spec => OverrunOnlyBySettlement
<1> DEFINE Over(o) == /\ reservation[o].status = "held"
                      /\ reservation'[o].status = "settled"
                      /\ fact'[o].charge > reservation[o].amount
                      /\ ~fact'[o].cap
<1>1. ASSUME TypeInv, [Next]_vars, ~budget.isOverrun, budget'.isOverrun
      PROVE  \E o \in Ops : Over(o)
  <2>1. ASSUME NEW o \in Ops, NEW cost \in Costs, NEW cap \in BOOLEAN, Settle(o, cost, cap)
        PROVE  Over(o)
    <3> DEFINE amount == reservation[o].amount
               charge == Charge(amount, cost, cap)
    <3>1. /\ amount \in Nat /\ cost \in Nat /\ charge \in Nat
          /\ budget.limit \in Nat /\ budget.reserved \in Nat /\ budget.settled \in Nat
          /\ amount <= budget.reserved
      BY <1>1, <2>1, BudgetAssumption
         DEF TypeInv, TypeOK, BudgetType, Settle, CanSettle, Charge
    <3>2. budget.reserved + budget.settled <= budget.limit
      BY <1>1, <3>1 DEF TypeInv, BudgetValid, Valid, Committed
    <3>3. budget'.isOverrun =
            ((budget.reserved - amount) + (budget.settled + charge) > budget.limit)
      BY <1>1, <2>1 DEF Settle, SettleMicros, TypeInv, TypeOK, BudgetType
    <3>4. (budget.reserved - amount) + (budget.settled + charge) > budget.limit
      BY <1>1, <3>3, Zenon
    <3>5. charge > amount
      <4> HIDE DEF amount, charge
      <4>1. QED
        BY <3>1, <3>2, <3>4
    <3>6. ~cap
      BY <3>1, <3>5 DEF Charge
    <3>7. /\ reservation'[o].status = IF charge = 0 THEN "released" ELSE "settled"
          /\ fact'[o].charge = charge /\ fact'[o].cap = cap
      BY <1>1, <2>1 DEF Settle, TypeInv, TypeOK
    <3>8. charge # 0
      BY <3>1, <3>5
    <3>9. reservation[o].status = "held"
      BY <2>1 DEF Settle, IsHeld
    <3>10. QED
      BY <3>5, <3>6, <3>7, <3>8, <3>9, Zenon
  <2>2. ASSUME NEW e \in Editors, ChangeBudgetWithEvents(e) PROVE ~budget'.isOverrun
    BY <1>1, <2>2 DEF ChangeBudgetWithEvents, ChangeLimit, TypeInv, TypeOK, BudgetType
  <2>3. ASSUME NEW o \in Ops, NEW amount \in Quotes, Reserve(o, amount)
        PROVE  ~budget'.isOverrun
    BY <1>1, <2>3 DEF Reserve, ReserveMicros, TypeInv, TypeOK, BudgetType
  <2>4. ASSUME Next PROVE \/ UNCHANGED budget
                          \/ \E o \in Ops, amount \in Quotes : Reserve(o, amount)
                          \/ \E o \in Ops, cost \in Costs, cap \in BOOLEAN : Settle(o, cost, cap)
                          \/ \E e \in Editors : ChangeBudgetWithEvents(e)
    BY <2>4 DEF Next, ReplaySettlement, ViewBudget, FindBudget, BudgetRevisionConflict
  <2>5. ~UNCHANGED budget
    BY <1>1
  <2> HIDE DEF Over
  <2>6. QED
    BY <1>1, <2>1, <2>2, <2>3, <2>4, <2>5, Zenon DEF vars
<1>2. TypeInv /\ [Next]_vars =>
        [~budget.isOverrun /\ budget'.isOverrun => \E o \in Ops : Over(o)]_vars
  <2> HIDE DEF Over
  <2>1. QED
    BY <1>1
<1>3. QED
  BY <1>2, TypeInvariance, PTL DEF Spec, OverrunOnlyBySettlement

(* A reservation is closed once, from held, and keeps its amount, ledger   *)
(* and fact from then on.                                                  *)
THEOREM BudgetClosedForever == Spec => ClosedForever
<1> DEFINE Kept(o) ==
             /\ Closed(o) => /\ reservation'[o] = reservation[o]
                             /\ ledger'[o] = ledger[o]
                             /\ fact'[o] = fact[o]
             /\ Closed(o)' => reservation[o].status \in {"held", "settled", "released"}
<1>1. ASSUME TypeInv, [Next]_vars, NEW o \in Ops
      PROVE  Kept(o)
  <2>1. CASE UNCHANGED <<reservation, ledger, fact>>
    BY <1>1, <2>1 DEF Closed
  <2>2. ASSUME NEW p \in Ops, NEW amount \in Quotes, Reserve(p, amount) PROVE Kept(o)
    <3>1. CASE p = o
      BY <1>1, <2>2, <3>1 DEF Reserve, Closed, TypeInv, TypeOK
    <3>2. CASE p # o
      BY <1>1, <2>2, <3>2 DEF Reserve, Closed, TypeInv, TypeOK
    <3>3. QED
      BY <3>1, <3>2
  <2>3. ASSUME NEW p \in Ops, NEW cost \in Costs, NEW cap \in BOOLEAN, Settle(p, cost, cap)
        PROVE  Kept(o)
    <3>1. CASE p = o
      BY <2>3, <3>1 DEF Settle, IsHeld, Closed
    <3>2. CASE p # o
      BY <1>1, <2>3, <3>2 DEF Settle, Closed, TypeInv, TypeOK
    <3>3. QED
      BY <3>1, <3>2
  <2>4. ASSUME Next
        PROVE  \/ UNCHANGED <<reservation, ledger, fact>>
               \/ \E p \in Ops, amount \in Quotes : Reserve(p, amount)
               \/ \E p \in Ops, cost \in Costs, cap \in BOOLEAN : Settle(p, cost, cap)
    BY <2>4 DEF Next, ReplaySettlement, ViewBudget, FindBudget, ChangeBudgetWithEvents,
                BudgetRevisionConflict
  <2> HIDE DEF Kept
  <2>5. QED
    BY <1>1, <2>1, <2>2, <2>3, <2>4 DEF vars
<1>2. TypeInv /\ [Next]_vars => [\A o \in Ops : Kept(o)]_vars
  <2> HIDE DEF Kept
  <2>1. QED
    BY <1>1
<1>3. QED
  BY <1>2, TypeInvariance, PTL DEF Spec, ClosedForever

-----------------------------------------------------------------------------
(* The one rounding, and what it is applied to *)

(* A ceiling is the least number that covers the fraction. *)
LEMMA CeilDivIs ==
    ASSUME NEW n \in Nat, NEW d \in Nat \ {0}
    PROVE /\ CeilDiv(n, d) \in Nat
          /\ CeilDiv(n, d) * d >= n
          /\ CeilDiv(n, d) > 0 => (CeilDiv(n, d) - 1) * d < n
<1> DEFINE m == n + d - 1
           q == m \div d
<1>1. m \in Nat /\ q \in Int
    OBVIOUS
<1>2. q * d <= m /\ m < (q + 1) * d
    BY <1>1
<1>3. q >= 0
    BY <1>1, <1>2
<1>4. (q + 1) * d = q * d + d /\ (q - 1) * d = q * d - d
    BY <1>1
<1> QED
    BY <1>1, <1>2, <1>3, <1>4 DEF CeilDiv

LEMMA ProductGrows ==
    ASSUME NEW a \in Nat, NEW b \in Nat, NEW x \in Nat, NEW y \in Nat, a <= b, x <= y
    PROVE a * x \in Nat /\ a * x <= b * y
<1>1. a * x \in Nat /\ b * x \in Nat /\ b * y \in Nat
    OBVIOUS
<1>2. a * x <= b * x
    OBVIOUS
<1>3. b * x <= b * y
    OBVIOUS
<1> QED
    BY <1>1, <1>2, <1>3

LEMMA CeilDivGrows ==
    ASSUME NEW n \in Nat, NEW m \in Nat, NEW d \in Nat \ {0}, n <= m
    PROVE CeilDiv(n, d) <= CeilDiv(m, d)
<1> DEFINE p == CeilDiv(n, d)
           q == CeilDiv(m, d)
<1>1. p \in Nat /\ (p > 0 => (p - 1) * d < n)
    BY CeilDivIs
<1>2. q \in Nat /\ q * d >= m
    BY CeilDivIs
<1> HIDE DEF p, q
<1>3. SUFFICES ASSUME p > q PROVE FALSE
    BY <1>1, <1>2 DEF p, q
<1>4. q * d <= (p - 1) * d
    BY <1>1, <1>2, <1>3, ProductGrows
<1> QED
    BY <1>1, <1>2, <1>3, <1>4

LEMMA TimesIs ==
    ASSUME NEW a \in Fractions, NEW b \in Fractions
    PROVE Times(a, b) \in Fractions
<1>1. a[1] \in Nat /\ b[1] \in Nat /\ a[2] \in Nat \ {0} /\ b[2] \in Nat \ {0}
    BY DEF Fractions
<1>2. a[1] * b[1] \in Nat /\ a[2] * b[2] \in Nat
    BY <1>1
<1>3. a[2] * b[2] # 0
    BY <1>1
<1> QED
    BY <1>2, <1>3 DEF Times, Fractions

(* An amount that fits its column is rounded once. *)
LEMMA FinishIs ==
    ASSUME NEW amount \in Fractions, NEW fx \in Fractions
    PROVE LET exact == Times(amount, fx)
              whole == CeilDiv(exact[1], exact[2])
          IN /\ exact \in Fractions /\ whole \in Nat
             /\ FinishPriceAmount(amount, fx) = IF whole > MaxInt64 THEN Overflow ELSE whole
<1>1. Times(amount, fx) \in Fractions
    BY TimesIs
<1>2. Times(amount, fx)[1] \in Nat /\ Times(amount, fx)[2] \in Nat \ {0}
    BY <1>1 DEF Fractions
<1> QED
    BY <1>1, <1>2, CeilDivIs DEF FinishPriceAmount, RoundUp

(* Less of the same costs no more, if that can be stored. *)
LEMMA FinishGrows ==
    ASSUME NEW a \in Fractions, NEW b \in Fractions, NEW fx \in Fractions,
           a[1] <= b[1], a[2] = b[2], FinishPriceAmount(b, fx) >= 0
    PROVE FinishPriceAmount(a, fx) >= 0 /\ FinishPriceAmount(a, fx) <= FinishPriceAmount(b, fx)
<1> DEFINE x == Times(a, fx)
           y == Times(b, fx)
<1>1. a[1] \in Nat /\ b[1] \in Nat /\ fx[1] \in Nat
    BY DEF Fractions
<1>2. x[1] <= y[1] /\ x[2] = y[2]
    BY <1>1, ProductGrows DEF Times
<1>3. x \in Fractions /\ y \in Fractions
    BY TimesIs
<1>4. x[1] \in Nat /\ y[1] \in Nat /\ x[2] \in Nat \ {0}
    BY <1>3 DEF Fractions
<1> HIDE DEF x, y
<1>5. CeilDiv(x[1], x[2]) <= CeilDiv(y[1], y[2])
    BY <1>2, <1>4, CeilDivGrows
<1>6. /\ CeilDiv(x[1], x[2]) \in Nat
      /\ FinishPriceAmount(a, fx) = IF CeilDiv(x[1], x[2]) > MaxInt64 THEN Overflow
                                    ELSE CeilDiv(x[1], x[2])
    BY FinishIs DEF x
<1>7. /\ CeilDiv(y[1], y[2]) \in Nat
      /\ FinishPriceAmount(b, fx) = IF CeilDiv(y[1], y[2]) > MaxInt64 THEN Overflow
                                    ELSE CeilDiv(y[1], y[2])
    BY FinishIs DEF y
<1> QED
    BY <1>5, <1>6, <1>7, PricingAssumption DEF Overflow
(* Among lengths that are long enough there is a shortest.                   *)
LEMMA SelectedIs ==
    ASSUME NEW in \in Inputs, \E d \in in.allowed : d >= in.target
    PROVE /\ Selected(in) \in in.allowed /\ Selected(in) >= in.target
          /\ \A e \in in.allowed : e >= in.target => Selected(in) <= e
          /\ Selected(in) \in Nat
<1> DEFINE enough == {d \in in.allowed : d >= in.target}
           less == {ss \in Nat \X Nat : ss[1] < ss[2]}
<1>1. in.allowed \in Durations
    BY DEF Inputs
<1>2. enough \subseteq Nat /\ enough # {}
    BY <1>1, PricingAssumption
<1>3. \E d \in enough : \A e \in enough : <<e, d>> \notin less
  <2>1. IsWellFoundedOn(less, Nat)
      BY NatLessThanWellFounded, Zenon DEF OpToRel
  <2> QED
      BY <1>2, <2>1, WFMin
<1>4. \E d \in enough : \A e \in enough : d <= e
  <2>1. PICK d \in enough : \A e \in enough : <<e, d>> \notin less
      BY <1>3
  <2>2. ASSUME NEW e \in enough PROVE d <= e
    <3>1. d \in Nat /\ e \in Nat
        BY <1>2
    <3>2. <<e, d>> \notin less
        BY <2>1
    <3> QED
        BY <3>1, <3>2
  <2> QED
      BY <2>2
<1>5. Selected(in) \in enough /\ \A e \in enough : Selected(in) <= e
    BY <1>4 DEF Selected
<1> QED
    BY <1>2, <1>5

(* What is priced is a fraction. *)
LEMMA RuleIs ==
    ASSUME NEW r \in Rules
    PROVE /\ r.unit \in Units /\ r.base \in Nat /\ r.out \in Nat
          /\ r.factor \in Fractions /\ r.fx \in Fractions
BY PricingAssumption DEF Rules

LEMMA InputIs ==
    ASSUME NEW in \in Inputs
    PROVE in.outputs \in Nat /\ in.quantity \in Nat /\ in.maxTokens \in Nat /\ in.target \in Nat
BY PricingAssumption DEF Inputs

LEMMA UsageIs ==
    ASSUME NEW u \in Usages
    PROVE u.quantity \in Nat /\ u.output \in Nat
BY PricingAssumption DEF Usages

(* Characters are charged in started blocks, more of them in no fewer. *)
LEMMA BlocksGrow ==
    ASSUME NEW m \in Nat, NEW n \in Nat, m <= n
    PROVE Blocks(m) \in Nat /\ Blocks(m) <= Blocks(n)
<1> DEFINE p == m \div Block
           q == n \div Block
<1>1. Block \in Nat \ {0}
    BY PricingAssumption
<1>2. /\ p \in Nat /\ p * Block <= m /\ m < (p + 1) * Block
      /\ q \in Nat /\ q * Block <= n /\ n < (q + 1) * Block
    BY <1>1
<1>3. m % Block = m - p * Block /\ n % Block = n - q * Block
    BY <1>1
<1>4. p <= q
  <2>1. SUFFICES ASSUME p >= q + 1 PROVE FALSE
      BY <1>2
  <2>2. (q + 1) * Block <= p * Block
      BY <1>1, <1>2, <2>1, ProductGrows
  <2> QED
      BY <1>1, <1>2, <2>2
<1>5. p = q /\ m % Block # 0 => n % Block # 0
    BY <1>1, <1>2, <1>3
<1> QED
    BY <1>2, <1>4, <1>5 DEF Blocks

LEMMA PriceIs ==
    ASSUME NEW r \in Rules, NEW in \in Inputs, ValidInput(r, in)
    PROVE PriceAmount(r, in) \in Fractions
<1>1. Block \in Nat \ {0}
    BY PricingAssumption
<1>2. CASE r.unit = "tokens"
  <2>1. in.quantity * r.base \in Nat /\ in.maxTokens * r.out \in Nat
      BY RuleIs, InputIs
  <2> QED
      BY <1>1, <1>2, <2>1 DEF PriceAmount, Fractions
<1>3. CASE r.unit = "image"
  <2>1. in.outputs * r.base \in Nat
      BY RuleIs, InputIs
  <2> QED
      BY <1>3, <2>1 DEF PriceAmount, Fractions
<1>4. CASE r.unit = "second"
  <2>1. Selected(in) \in Nat
      BY <1>4, SelectedIs DEF ValidInput
  <2>2. Selected(in) * in.outputs \in Nat
      BY <2>1, InputIs
  <2>3. Selected(in) * in.outputs * r.base \in Nat
      BY <2>2, RuleIs
  <2> QED
      BY <1>1, <1>4, <2>3 DEF PriceAmount, Fractions
<1>5. CASE r.unit = "request"
    BY <1>5, RuleIs DEF PriceAmount, Fractions
<1>6. CASE r.unit = "chars"
  <2>1. Blocks(in.quantity) \in Nat
      BY InputIs, BlocksGrow
  <2>2. Blocks(in.quantity) * r.base \in Nat
      BY <2>1, RuleIs
  <2> QED
      BY <1>6, <2>2 DEF PriceAmount, Fractions
<1> QED
    BY <1>2, <1>3, <1>4, <1>5, <1>6, RuleIs DEF Units

LEMMA ActualPriceIs ==
    ASSUME NEW r \in Rules, NEW u \in Usages
    PROVE ActualPriceAmount(r, u) \in Fractions
<1>1. Block \in Nat \ {0}
    BY PricingAssumption
<1>2. u.quantity * r.base \in Nat /\ u.output * r.out \in Nat
    BY RuleIs, UsageIs
<1>3. Blocks(u.quantity) \in Nat
    BY UsageIs, BlocksGrow
<1>4. Blocks(u.quantity) * r.base \in Nat
    BY <1>3, RuleIs
<1> QED
    BY <1>1, <1>2, <1>4, RuleIs DEF ActualPriceAmount, Fractions, Units

LEMMA FactorsIs ==
    ASSUME NEW r \in Rules, NEW amount \in Fractions
    PROVE ApplyPriceFactors(r, amount) \in Fractions
BY RuleIs, TimesIs DEF ApplyPriceFactors

LEMMA FactorsGrow ==
    ASSUME NEW r \in Rules, NEW a \in Fractions, NEW b \in Fractions,
           a[1] <= b[1], a[2] = b[2]
    PROVE /\ ApplyPriceFactors(r, a)[1] <= ApplyPriceFactors(r, b)[1]
          /\ ApplyPriceFactors(r, a)[2] = ApplyPriceFactors(r, b)[2]
<1>1. a[1] \in Nat /\ b[1] \in Nat /\ r.factor[1] \in Nat
    BY RuleIs DEF Fractions
<1>2. a[1] * r.factor[1] <= b[1] * r.factor[1]
    BY <1>1, ProductGrows
<1> QED
    BY <1>2 DEF ApplyPriceFactors, Times

(* What was used within the quantities of the quote has no higher price      *)
(* before the rounding.                                                      *)
Within(r, in, u) ==
    /\ r.unit = "tokens" => u.quantity <= in.quantity /\ u.output <= in.maxTokens
    /\ r.unit = "image" => u.quantity <= in.outputs
    /\ r.unit = "second" => u.quantity <= Selected(in) * in.outputs
    /\ r.unit = "request" => u.quantity <= 1
    /\ r.unit = "chars" => u.quantity <= in.quantity

LEMMA AmountsGrow ==
    ASSUME NEW r \in Rules, NEW in \in Inputs, NEW u \in Usages,
           ValidInput(r, in), Within(r, in, u)
    PROVE /\ ActualPriceAmount(r, u)[1] <= PriceAmount(r, in)[1]
          /\ ActualPriceAmount(r, u)[2] = PriceAmount(r, in)[2]
<1>1. /\ u.quantity \in Nat /\ u.output \in Nat /\ r.base \in Nat /\ r.out \in Nat
      /\ in.outputs \in Nat /\ in.quantity \in Nat /\ in.maxTokens \in Nat
    BY RuleIs, InputIs, UsageIs
<1>2. CASE r.unit = "tokens"
  <2>1. u.quantity * r.base \in Nat /\ in.quantity * r.base \in Nat
        /\ u.output * r.out \in Nat /\ in.maxTokens * r.out \in Nat
      BY <1>1
  <2>2. u.quantity * r.base <= in.quantity * r.base
      BY <1>1, <1>2, ProductGrows DEF Within
  <2>3. u.output * r.out <= in.maxTokens * r.out
      BY <1>1, <1>2, ProductGrows DEF Within
  <2> QED
      BY <1>2, <2>1, <2>2, <2>3 DEF ActualPriceAmount, PriceAmount
<1>3. CASE r.unit = "image"
  <2>1. u.quantity * r.base <= in.outputs * r.base
      BY <1>1, <1>3, ProductGrows DEF Within
  <2> QED
      BY <1>3, <2>1 DEF ActualPriceAmount, PriceAmount
<1>4. CASE r.unit = "second"
  <2>1. Selected(in) \in Nat
      BY <1>4, SelectedIs DEF ValidInput
  <2>2. Selected(in) * in.outputs \in Nat
      BY <1>1, <2>1
  <2>3. u.quantity * r.base <= Selected(in) * in.outputs * r.base
      BY <1>1, <1>4, <2>2, ProductGrows DEF Within
  <2> QED
      BY <1>4, <2>3 DEF ActualPriceAmount, PriceAmount
<1>5. CASE r.unit = "request"
  <2>1. u.quantity * r.base <= 1 * r.base
      BY <1>1, <1>5, ProductGrows DEF Within
  <2> QED
      BY <1>1, <1>5, <2>1 DEF ActualPriceAmount, PriceAmount
<1>6. CASE r.unit = "chars"
  <2>1. /\ Blocks(u.quantity) \in Nat /\ Blocks(in.quantity) \in Nat
        /\ Blocks(u.quantity) <= Blocks(in.quantity)
      BY <1>1, <1>6, BlocksGrow DEF Within
  <2>2. Blocks(u.quantity) * r.base <= Blocks(in.quantity) * r.base
      BY <1>1, <2>1, ProductGrows
  <2> QED
      BY <1>6, <2>2 DEF ActualPriceAmount, PriceAmount
<1> QED
    BY <1>2, <1>3, <1>4, <1>5, <1>6, RuleIs DEF Units
-----------------------------------------------------------------------------
(* The invariant: a quote and a charge are what their rules say. *)

QuotedAsPriced == quote # None => quote = CalculateQuoteDetailed(rule, input)

ChargedAsPriced ==
    actual # None =>
        quote \notin {None, Invalid, Overflow} /\ usage \in Usages
        /\ actual = CalculateActualCost(rule, usage)

PriceInv ==
    /\ rule \in Rules /\ input \in Inputs /\ usage \in Usages \cup {NoUsage}
    /\ QuotedAsPriced /\ ChargedAsPriced

Priced == 0 .. MaxInt64 \cup {None, Invalid, Overflow}

(* What is priced, exactly. *)
Exact == Times(ApplyPriceFactors(rule, PriceAmount(rule, input)), rule.fx)

LEMMA ExactIs ==
    ASSUME NEW r \in Rules, NEW in \in Inputs, ValidInput(r, in)
    PROVE LET amount == ApplyPriceFactors(r, PriceAmount(r, in))
              exact == Times(amount, r.fx)
              whole == CeilDiv(exact[1], exact[2])
          IN /\ amount \in Fractions /\ r.fx \in Fractions
             /\ exact \in Fractions /\ whole \in Nat
             /\ CalculateQuoteDetailed(r, in) = IF whole > MaxInt64 THEN Overflow ELSE whole
<1> DEFINE amount == ApplyPriceFactors(r, PriceAmount(r, in))
<1>1. amount \in Fractions /\ r.fx \in Fractions
    BY PriceIs, FactorsIs, RuleIs
<1>2. CalculateQuoteDetailed(r, in) = FinishPriceAmount(amount, r.fx)
    BY DEF CalculateQuoteDetailed
<1> HIDE DEF amount
<1>3. LET exact == Times(amount, r.fx)
          whole == CeilDiv(exact[1], exact[2])
      IN /\ exact \in Fractions /\ whole \in Nat
         /\ CalculateQuoteDetailed(r, in) = IF whole > MaxInt64 THEN Overflow ELSE whole
    BY <1>1, <1>2, FinishIs
<1> QED
    BY <1>1, <1>3 DEF amount

LEMMA ActualIs ==
    ASSUME NEW r \in Rules, NEW u \in Usages
    PROVE CalculateActualCost(r, u) \in 0 .. MaxInt64 \cup {Invalid, Overflow}
<1> DEFINE amount == ApplyPriceFactors(r, ActualPriceAmount(r, u))
<1>1. amount \in Fractions /\ r.fx \in Fractions
    BY ActualPriceIs, FactorsIs, RuleIs
<1>2. CalculateActualCost(r, u) \in {Invalid, FinishPriceAmount(amount, r.fx)}
    BY DEF CalculateActualCost
<1> HIDE DEF amount
<1>3. FinishPriceAmount(amount, r.fx) \in 0 .. MaxInt64 \cup {Overflow}
  <2> DEFINE whole == CeilDiv(Times(amount, r.fx)[1], Times(amount, r.fx)[2])
  <2>1. /\ whole \in Nat
        /\ FinishPriceAmount(amount, r.fx) = IF whole > MaxInt64 THEN Overflow ELSE whole
      BY <1>1, FinishIs
  <2> HIDE DEF whole
  <2> QED
      BY <2>1, PricingAssumption
<1> QED
    BY <1>2, <1>3

LEMMA PriceInvHolds == PriceSpec => []PriceInv
<1>1. PriceInit => PriceInv
    BY DEF PriceInit, PriceInv, QuotedAsPriced, ChargedAsPriced
<1>2. PriceInv /\ [PriceNext]_priceVars => PriceInv'
  <2> SUFFICES ASSUME PriceInv, [PriceNext]_priceVars PROVE PriceInv'
      OBVIOUS
  <2>1. CASE Quote
      BY <2>1 DEF PriceInv, Quote, QuotedAsPriced, ChargedAsPriced
  <2>2. ASSUME NEW u \in Usages, PriceProviderUsage(u) PROVE PriceInv'
      BY <2>2 DEF PriceInv, PriceProviderUsage, QuotedAsPriced, ChargedAsPriced
  <2>3. CASE UNCHANGED priceVars
      BY <2>3 DEF PriceInv, priceVars, QuotedAsPriced, ChargedAsPriced
  <2> QED
      BY <2>1, <2>2, <2>3 DEF PriceNext
<1> QED
    BY <1>1, <1>2, PTL DEF PriceSpec

(* The quote is the least whole amount that covers the exact product. *)
LEMMA Rounded == ASSUME PriceInv PROVE RoundedOnce
<1> SUFFICES ASSUME quote >= 0
             PROVE /\ quote * Exact[2] >= Exact[1]
                   /\ quote > 0 => (quote - 1) * Exact[2] < Exact[1]
    BY DEF RoundedOnce, Exact
<1>1. quote = CalculateQuoteDetailed(rule, input) /\ ValidInput(rule, input)
    BY DEF PriceInv, QuotedAsPriced, None, Invalid, CalculateQuoteDetailed
<1>2. /\ Exact \in Fractions
      /\ quote = IF CeilDiv(Exact[1], Exact[2]) > MaxInt64 THEN Overflow
                 ELSE CeilDiv(Exact[1], Exact[2])
    BY <1>1, ExactIs DEF PriceInv, Exact
<1>3. quote = CeilDiv(Exact[1], Exact[2])
    BY <1>2 DEF Overflow
<1>4. Exact[1] \in Nat /\ Exact[2] \in Nat \ {0}
    BY <1>2 DEF Fractions
<1> QED
    BY <1>3, <1>4, CeilDivIs

(* What is used within the quote costs no more than the quote: fewer started *)
(* blocks, shorter clips and fewer tokens have a lower exact price, the      *)
(* factors and the ceiling keep that order, and the charge can be stored     *)
(* because the quote could.                                                  *)
LEMMA Covered == ASSUME PriceInv PROVE QuoteCoversUsage
<1> SUFFICES ASSUME actual # None, WithinQuote
             PROVE actual >= 0 /\ actual <= quote
    BY DEF QuoteCoversUsage
<1> DEFINE a == ApplyPriceFactors(rule, ActualPriceAmount(rule, usage))
           b == ApplyPriceFactors(rule, PriceAmount(rule, input))
<1>1. /\ rule \in Rules /\ input \in Inputs /\ usage \in Usages
      /\ quote = CalculateQuoteDetailed(rule, input) /\ quote \notin {None, Invalid, Overflow}
      /\ actual = CalculateActualCost(rule, usage)
    BY DEF PriceInv, QuotedAsPriced, ChargedAsPriced
<1>2. ValidInput(rule, input)
    BY <1>1 DEF CalculateQuoteDetailed
<1>3. Within(rule, input, usage)
  <2>1. rule.unit = "second" => usage.quantity <= Selected(input) * input.outputs
    <3> SUFFICES ASSUME rule.unit = "second"
                 PROVE usage.quantity <= Selected(input) * input.outputs
        OBVIOUS
    <3>1. PICK d \in input.allowed :
                 /\ d >= input.target
                 /\ \A e \in input.allowed : e >= input.target => d <= e
                 /\ usage.quantity <= d * input.outputs
        BY DEF WithinQuote
    <3>2. /\ Selected(input) \in input.allowed /\ Selected(input) >= input.target
          /\ Selected(input) <= d /\ Selected(input) \in Nat
        BY <1>1, <3>1, SelectedIs
    <3>3. d <= Selected(input) /\ d \in Nat
        BY <1>1, <3>1, <3>2, PricingAssumption DEF Inputs
    <3>4. d = Selected(input)
        BY <3>2, <3>3
    <3> QED
        BY <3>1, <3>4
  <2> QED
      BY <2>1 DEF WithinQuote, Within
<1>4. PriceAmount(rule, input) \in Fractions /\ ActualPriceAmount(rule, usage) \in Fractions
    BY <1>1, <1>2, PriceIs, ActualPriceIs
<1>5. a \in Fractions /\ b \in Fractions /\ rule.fx \in Fractions
    BY <1>1, <1>4, FactorsIs, RuleIs
<1>6. a[1] <= b[1] /\ a[2] = b[2]
    BY <1>1, <1>2, <1>3, <1>4, AmountsGrow, FactorsGrow
<1>7. quote = FinishPriceAmount(b, rule.fx)
    BY <1>1, <1>2 DEF CalculateQuoteDetailed
<1>8. actual = FinishPriceAmount(a, rule.fx)
  <2>1. ~(rule.unit = "request" /\ usage.quantity > 1)
      BY <1>1, <1>3, UsageIs DEF Within
  <2> QED
      BY <1>1, <2>1 DEF CalculateActualCost
<1>9. quote >= 0
  <2> DEFINE whole == CeilDiv(Times(b, rule.fx)[1], Times(b, rule.fx)[2])
  <2>1. whole \in Nat /\ quote = IF whole > MaxInt64 THEN Overflow ELSE whole
      BY <1>5, <1>7, FinishIs
  <2> HIDE DEF whole
  <2> QED
      BY <1>1, <2>1
<1> HIDE DEF a, b
<1> QED
    BY <1>5, <1>6, <1>7, <1>8, <1>9, FinishGrows

-----------------------------------------------------------------------------
(* What the module promises *)

(* A quote and a charge are whole amounts that fit their columns, or one of  *)
(* the two errors (finishPriceAmount).                                       *)
THEOREM PricingTypeCorrect == PriceSpec => []PriceTypeOK
<1>1. PriceInv => PriceTypeOK
  <2> SUFFICES ASSUME PriceInv PROVE PriceTypeOK
      OBVIOUS
  <2>1. quote \in Priced
    <3>1. CASE quote = None
        BY <3>1 DEF Priced
    <3>2. CASE quote # None /\ ~ValidInput(rule, input)
        BY <3>2 DEF PriceInv, QuotedAsPriced, CalculateQuoteDetailed, Priced
    <3>3. CASE quote # None /\ ValidInput(rule, input)
      <4> DEFINE whole == CeilDiv(Exact[1], Exact[2])
      <4>1. /\ whole \in Nat
            /\ quote = IF whole > MaxInt64 THEN Overflow ELSE whole
          BY <3>3, ExactIs DEF PriceInv, QuotedAsPriced, Exact
      <4> HIDE DEF whole
      <4> QED
          BY <4>1, PricingAssumption DEF Priced
    <3> QED
        BY <3>1, <3>2, <3>3
  <2>2. actual \in Priced
      BY ActualIs DEF PriceInv, ChargedAsPriced, Priced
  <2> QED
      BY <2>1, <2>2 DEF PriceInv, PriceTypeOK, Priced
<1> QED
    BY <1>1, PriceInvHolds, PTL

(* The amounts of quotes and charges are right (priceAmount,                 *)
(* applyPriceFactors, finishPriceAmount, CalculateActualCost): a quote is    *)
(* rounded up once, at the end, and work that stays within it never costs    *)
(* more than what was reserved for it.                                       *)
THEOREM PricingExact == PriceSpec => []PricesExact
<1>1. PriceInv => PricesExact
    BY Rounded, Covered DEF PricesExact
<1> QED
    BY <1>1, PriceInvHolds, PTL
=============================================================================
