---------------------------- MODULE QuoteProofs ----------------------------
(***************************************************************************)
(* Theorems about quotes and their confirmation for every set of           *)
(* operations, request keys and calls, however prices, models, inputs and  *)
(* the budget change meanwhile.  Locks carry the argument: what a          *)
(* confirmation selected stays as it saw it until it holds the budget.     *)
(***************************************************************************)
EXTENDS Quote, FiniteSetTheorems, WellFoundedInduction, TLAPS

-----------------------------------------------------------------------------
(* The rows that a call holds while it waits for the budget. *)
Held(c) == IF call[c].body.batch THEN Children ELSE call[c].selected

(* A key is used by one call, and by none after its outcome is stored. *)
KeysHeld ==
    \A c \in Calls : call[c].pc # "idle" =>
        /\ receipt[call[c].key] = NoOutcome
        /\ \A d \in Calls : d # c /\ call[d].pc # "idle" => call[d].key # call[c].key

(* Where a call can be, given what it confirms. *)
Placed(c) ==
    /\ call[c].pc \in {"removed", "stale"} => call[c].body.batch
    /\ call[c].pc # "idle" /\ call[c].body.batch =>
          batch.status # "absent" /\ call[c].excluded \subseteq call[c].body.ops
    /\ call[c].pc = "stale" => call[c].late \subseteq Children

CallsPlaced == \A c \in Calls : Placed(c)

(* What a call that waits for the budget has selected is as it was. *)
Lock(c) ==
    Reserving(c) =>
        /\ inputs /\ call[c].selected # {} /\ call[c].selected \subseteq Quoted
        /\ call[c].body.batch =>
              /\ batch.status = "quoted"
              /\ call[c].selected \cap call[c].late = {}
              /\ call[c].selected \cup call[c].late = Children \cap Quoted
        /\ ~call[c].body.batch => call[c].selected \cap Children = {}

Locks == \A c \in Calls : Lock(c)

LocksApart ==
    \A c \in Calls, d \in Calls : c # d /\ Reserving(c) /\ Reserving(d) => Held(c) \cap Held(d) = {}

(* Only what was quoted belongs to the batch. *)
ChildrenExist ==
    /\ \A o \in Children : op[o].status # "absent"
    /\ batch.status = "absent" => Children = {}

Inv ==
    /\ TypeOK /\ KeysHeld /\ CallsPlaced /\ Locks /\ LocksApart /\ ChildrenExist
    /\ ReservedMatches /\ BatchWhole /\ ExcludedStaysOut

-----------------------------------------------------------------------------
(* The price of an instant is one of those published: among finitely many  *)
(* effective ones there is a latest.                                       *)
Later(i, j) == prices[j] < prices[i] \/ (prices[j] = prices[i] /\ j < i)

LEMMA PriceExists ==
    ASSUME TypeOK, NEW t \in Nat
    PROVE  CurrentPrice(t) \in 0 .. MaxPrices
<1> DEFINE effective == {i \in 1 .. Len(prices) : prices[i] <= t}
           up(i) == {j \in effective : Later(j, i)}
           ups == {up(i) : i \in effective}
<1>1. Len(prices) \in Nat /\ Len(prices) <= MaxPrices /\ MaxPrices \in Nat
    BY QuoteAssumption DEF TypeOK
<1>2. \A i \in 1 .. Len(prices) : prices[i] \in Nat
    BY QuoteAssumption DEF TypeOK
<1>3. CASE effective = {}
    BY <1>1, <1>3 DEF CurrentPrice
<1>4. CASE effective # {}
  <2>1. IsFiniteSet(1 .. Len(prices))
      BY <1>1, FS_Interval
  <2>2. ups \subseteq FiniteSubsetsOf(1 .. Len(prices)) /\ ups # {}
    <3>1. \A i \in effective : up(i) \in SUBSET (1 .. Len(prices))
        OBVIOUS
    <3>2. \A i \in effective : IsFiniteSet(up(i))
        BY <3>1, <2>1, FS_Subset
    <3>3. QED
        BY <1>4, <3>1, <3>2 DEF FiniteSubsetsOf
  <2>3. IsWellFoundedOn(StrictSubsetOrdering(1 .. Len(prices)), FiniteSubsetsOf(1 .. Len(prices)))
      BY FS_StrictSubsetOrderingWellFounded
  <2>4. PICK u \in ups : \A v \in ups : ~ (<<v, u>> \in StrictSubsetOrdering(1 .. Len(prices)))
      BY <2>2, <2>3, WFMin
  <2>5. PICK i \in effective : u = up(i)
      OBVIOUS
  <2>6. \A j \in effective : j \notin up(i)
    <3> SUFFICES ASSUME NEW j \in effective, j \in up(i) PROVE FALSE
        OBVIOUS
    <3>1. up(j) \subseteq up(i)
        BY <1>2 DEF Later
    <3>2. j \notin up(j)
        BY <1>2 DEF Later
    <3>3. up(j) \in ups
        OBVIOUS
    <3>4. up(j) \in SUBSET (1 .. Len(prices)) /\ up(i) \in SUBSET (1 .. Len(prices))
        OBVIOUS
    <3> HIDE DEF up, ups, effective
    <3>5. <<up(j), up(i)>> \in StrictSubsetOrdering(1 .. Len(prices))
        BY <3>1, <3>2, <3>4 DEF StrictSubsetOrdering
    <3>6. QED
        BY <2>4, <2>5, <3>3, <3>5
  <2>7. \A j \in effective : prices[j] < prices[i] \/ (prices[j] = prices[i] /\ j <= i)
      BY <2>6, <1>1, <1>2 DEF Later
  <2>8. CurrentPrice(t) \in effective
      BY <1>4, <2>7 DEF CurrentPrice
  <2>9. QED
      BY <2>8, <1>1
<1>5. QED
    BY <1>3, <1>4
-----------------------------------------------------------------------------
(* What the steps are made of: one call moves, rows expire or are confirmed. *)

LEMMA NoCallTyped == NoCall \in CallRow
<1>1. (CHOOSE k \in Keys : TRUE) \in Keys /\ (CHOOSE b \in Bodies : TRUE) \in Bodies
    BY QuoteAssumption
<1>2. QED
    BY <1>1 DEF NoCall, CallRow, Codes

(* Only c moves. *)
Moves(c) == call' \in [Calls -> CallRow] /\ \A d \in Calls \ {c} : call'[d] = call[d]

LEMMA UpdateMoves ==
    ASSUME TypeOK, NEW c \in Calls, NEW r \in CallRow, call' = [call EXCEPT ![c] = r]
    PROVE  Moves(c) /\ call'[c] = r
<1>1. call \in [Calls -> CallRow]
    BY DEF TypeOK
<1>2. QED
    BY <1>1 DEF Moves

LEMMA IdleMoves ==
    ASSUME TypeOK, NEW c \in Calls, call' = Idle(c)
    PROVE  Moves(c) /\ call'[c].pc = "idle"
<1>1. NoCall.pc = "idle"
    BY DEF NoCall
<1>2. QED
    BY <1>1, NoCallTyped, UpdateMoves DEF Idle

(* Who asked for what stays as it was. *)
Same(c) == /\ call'[c].key = call[c].key /\ call'[c].body = call[c].body
           /\ call'[c].excluded = call[c].excluded

LEMMA RejectMoves ==
    ASSUME TypeOK, NEW c \in Calls, NEW code \in Codes,
           call' = Reject(c, code)
    PROVE  Moves(c) /\ Same(c) /\ call'[c].pc = "rejected" /\ call'[c].code = code
<1> DEFINE r == [call[c] EXCEPT !.pc = "rejected", !.code = code, !.selected = {}, !.late = {}]
<1>1. call \in [Calls -> CallRow] /\ call[c] \in CallRow
    BY DEF TypeOK
<1>2. /\ r \in CallRow /\ r.key = call[c].key /\ r.body = call[c].body
      /\ r.excluded = call[c].excluded
      /\ r.pc = "rejected" /\ r.code = code
    BY <1>1 DEF CallRow
<1>3. call' = [call EXCEPT ![c] = r]
    BY <1>1 DEF Reject
<1> HIDE DEF r
<1>4. Moves(c) /\ call'[c] = r
    BY <1>2, <1>3, UpdateMoves
<1>5. QED
    BY <1>2, <1>4 DEF Same

LEMMA GotoMoves ==
    ASSUME TypeOK, NEW c \in Calls,
           call' = Goto(c, "removed")
    PROVE  Moves(c) /\ Same(c) /\ call'[c].pc = "removed"
<1> DEFINE r == [call[c] EXCEPT !.pc = "removed"]
<1>1. call \in [Calls -> CallRow] /\ call[c] \in CallRow
    BY DEF TypeOK
<1>2. /\ r \in CallRow /\ r.key = call[c].key /\ r.body = call[c].body
      /\ r.excluded = call[c].excluded
      /\ r.pc = "removed"
    BY <1>1 DEF CallRow
<1>3. call' = [call EXCEPT ![c] = r]
    BY <1>1 DEF Goto
<1> HIDE DEF r
<1>4. Moves(c) /\ call'[c] = r
    BY <1>2, <1>3, UpdateMoves
<1>5. QED
    BY <1>2, <1>4 DEF Same

LockAll(c, S, L) == [Goto(c, "reserving") EXCEPT ![c].selected = S, ![c].late = L]

LEMMA LockMoves ==
    ASSUME TypeOK, NEW c \in Calls, NEW S \in SUBSET Ops, NEW L \in SUBSET Ops,
           call' = LockAll(c, S, L)
    PROVE  Moves(c) /\ Same(c) /\ call'[c].pc = "reserving"
           /\ call'[c].selected = S /\ call'[c].late = L
<1> DEFINE r == [call[c] EXCEPT !.pc = "reserving", !.selected = S, !.late = L]
<1>1. call \in [Calls -> CallRow] /\ call[c] \in CallRow
    BY DEF TypeOK
<1>2. /\ r \in CallRow /\ r.key = call[c].key /\ r.body = call[c].body
      /\ r.excluded = call[c].excluded
      /\ r.pc = "reserving" /\ r.selected = S /\ r.late = L
    BY <1>1 DEF CallRow
<1>3. call' = [call EXCEPT ![c] = r]
    BY <1>1 DEF Goto, LockAll
<1> HIDE DEF r
<1>4. Moves(c) /\ call'[c] = r
    BY <1>2, <1>3, UpdateMoves
<1>5. QED
    BY <1>2, <1>4 DEF Same

LockOne(c, S) == [Goto(c, "reserving") EXCEPT ![c].selected = S]

LEMMA LockSingleMoves ==
    ASSUME TypeOK, NEW c \in Calls, NEW S \in SUBSET Ops,
           call' = LockOne(c, S)
    PROVE  Moves(c) /\ Same(c) /\ call'[c].pc = "reserving" /\ call'[c].selected = S
<1> DEFINE r == [call[c] EXCEPT !.pc = "reserving", !.selected = S]
<1>1. call \in [Calls -> CallRow] /\ call[c] \in CallRow
    BY DEF TypeOK
<1>2. /\ r \in CallRow /\ r.key = call[c].key /\ r.body = call[c].body
      /\ r.excluded = call[c].excluded
      /\ r.pc = "reserving" /\ r.selected = S
    BY <1>1 DEF CallRow
<1>3. call' = [call EXCEPT ![c] = r]
    BY <1>1 DEF Goto, LockOne
<1> HIDE DEF r
<1>4. Moves(c) /\ call'[c] = r
    BY <1>2, <1>3, UpdateMoves
<1>5. QED
    BY <1>2, <1>4 DEF Same

GoStale(c, code, L) == [call EXCEPT ![c].pc = "stale", ![c].code = code,
                                    ![c].selected = {}, ![c].late = L]

LEMMA StaleMoves ==
    ASSUME TypeOK, NEW c \in Calls, NEW L \in SUBSET Ops, NEW code \in Codes,
           call' = GoStale(c, code, L)
    PROVE  Moves(c) /\ Same(c) /\ call'[c].pc = "stale" /\ call'[c].late = L
           /\ call'[c].code = code
<1> DEFINE r == [call[c] EXCEPT !.pc = "stale", !.code = code, !.selected = {}, !.late = L]
<1>1. call \in [Calls -> CallRow] /\ call[c] \in CallRow
    BY DEF TypeOK
<1>2. /\ r \in CallRow /\ r.key = call[c].key /\ r.body = call[c].body
      /\ r.excluded = call[c].excluded
      /\ r.pc = "stale" /\ r.late = L /\ r.code = code
    BY <1>1 DEF CallRow
<1>3. call' = [call EXCEPT ![c] = r]
    BY <1>1 DEF GoStale
<1> HIDE DEF r
<1>4. Moves(c) /\ call'[c] = r
    BY <1>2, <1>3, UpdateMoves
<1>5. QED
    BY <1>2, <1>4 DEF Same

Begun(c, k, b, X) == [call EXCEPT ![c].pc = "locked", ![c].key = k, ![c].body = b,
                                  ![c].excluded = X]

LEMMA BeginMoves ==
    ASSUME TypeOK, NEW c \in Calls, NEW k \in Keys, NEW b \in Bodies, NEW X \in SUBSET Ops,
           call' = Begun(c, k, b, X)
    PROVE  /\ Moves(c) /\ call'[c].pc = "locked" /\ call'[c].key = k /\ call'[c].body = b
           /\ call'[c].excluded = X
<1> DEFINE r == [call[c] EXCEPT !.pc = "locked", !.key = k, !.body = b, !.excluded = X]
<1>1. call \in [Calls -> CallRow] /\ call[c] \in CallRow
    BY DEF TypeOK
<1>2. /\ r \in CallRow /\ r.pc = "locked" /\ r.key = k /\ r.body = b /\ r.excluded = X
    BY <1>1 DEF CallRow
<1>3. call' = [call EXCEPT ![c] = r]
    BY <1>1 DEF Begun
<1> HIDE DEF r
<1>4. Moves(c) /\ call'[c] = r
    BY <1>2, <1>3, UpdateMoves
<1>5. QED
    BY <1>2, <1>4

(* The rows of S are confirmed and those of L expire. *)
RowsMove(S, L) ==
    /\ S \subseteq Quoted /\ L \subseteq Quoted /\ S \cap L = {}
    /\ op' \in [Ops -> OpRow]
    /\ \A o \in Ops :
          /\ op'[o].status = IF o \in S THEN "confirmed"
                             ELSE IF o \in L THEN "expired" ELSE op[o].status
          /\ op'[o].batched = op[o].batched /\ op'[o].reused = op[o].reused

LEMMA NoRowMoves == ASSUME TypeOK, UNCHANGED op PROVE RowsMove({}, {})
    BY DEF RowsMove, TypeOK

LEMMA RowTyped ==
    ASSUME NEW r \in OpRow, NEW st \in {"expired", "confirmed"}
    PROVE  LET n == [r EXCEPT !.status = st]
           IN  n \in OpRow /\ n.status = st /\ n.batched = r.batched /\ n.reused = r.reused
    BY DEF OpRow

LEMMA ExpireMoves ==
    ASSUME TypeOK, NEW L \in SUBSET Quoted, op' = Expire(L)
    PROVE  RowsMove({}, L)
<1>1. \A o \in Ops :
          /\ op'[o] \in OpRow
          /\ op'[o].status = IF o \in L THEN "expired" ELSE op[o].status
          /\ op'[o].batched = op[o].batched /\ op'[o].reused = op[o].reused
  <2>1. \A o \in Ops : op[o] \in OpRow
      BY DEF TypeOK
  <2>2. QED
      BY <2>1, RowTyped DEF Expire
<1>2. op' \in [Ops -> OpRow]
    BY <1>1 DEF Expire
<1>3. QED
    BY <1>1, <1>2 DEF RowsMove

LEMMA ConfirmMoves ==
    ASSUME TypeOK, NEW S \in SUBSET Quoted, op' = Confirm(S)
    PROVE  RowsMove(S, {})
<1>1. \A o \in Ops :
          /\ op'[o] \in OpRow
          /\ op'[o].status = IF o \in S THEN "confirmed" ELSE op[o].status
          /\ op'[o].batched = op[o].batched /\ op'[o].reused = op[o].reused
  <2>1. \A o \in Ops : op[o] \in OpRow
      BY DEF TypeOK
  <2>2. TAKE o \in Ops
  <2>3. CASE o \in S
    <3>1. op[o] \in OpRow /\ op'[o] = [op[o] EXCEPT !.status = "confirmed"]
        BY <2>1, <2>3 DEF Confirm
    <3>2. QED
        BY <2>3, <3>1, RowTyped
  <2>4. CASE o \notin S
      BY <2>1, <2>4 DEF Confirm
  <2>5. QED
      BY <2>3, <2>4
<1>2. op' \in [Ops -> OpRow]
    BY <1>1 DEF Confirm
<1>3. QED
    BY <1>1, <1>2 DEF RowsMove

LEMMA ConfirmAllMoves ==
    ASSUME TypeOK, NEW S \in SUBSET Quoted, NEW L \in SUBSET Quoted, S \cap L = {},
           op' = [o \in Ops |-> IF o \in L THEN [op[o] EXCEPT !.status = "expired"]
                                ELSE Confirm(S)[o]]
    PROVE  RowsMove(S, L)
<1>1. \A o \in Ops :
          /\ op'[o] \in OpRow
          /\ op'[o].status = IF o \in S THEN "confirmed"
                             ELSE IF o \in L THEN "expired" ELSE op[o].status
          /\ op'[o].batched = op[o].batched /\ op'[o].reused = op[o].reused
  <2>1. \A o \in Ops : op[o] \in OpRow
      BY DEF TypeOK
  <2>2. QED
      BY <2>1, RowTyped DEF Confirm
<1>2. op' \in [Ops -> OpRow]
    BY <1>1
<1>3. QED
    BY <1>1, <1>2 DEF RowsMove

LEMMA RowSets ==
    ASSUME TypeOK, NEW S, NEW L, RowsMove(S, L)
    PROVE  /\ Children' = Children /\ Quoted' = Quoted \ (S \cup L)
           /\ Confirmed' = Confirmed \cup S /\ Confirmed \cap S = {}
           /\ Quoted \subseteq Ops /\ Confirmed \subseteq Ops /\ Children \subseteq Ops
           /\ Quoted \cap Confirmed = {}
    BY DEF RowsMove, Children, Quoted, Confirmed

(* The reserved micros follow the confirmed rows. *)
Paid(S) == {o \in S : ~op[o].reused}

LEMMA AmountAdds ==
    ASSUME TypeOK, NEW S, NEW L, RowsMove(S, L)
    PROVE  /\ Amount(Confirmed)' = Amount(Confirmed) + Amount(S)
           /\ Amount(Confirmed) \in Nat /\ Amount(S) \in Nat
<1>1. /\ Confirmed' = Confirmed \cup S /\ Confirmed \cap S = {}
      /\ Quoted \subseteq Ops /\ Confirmed \subseteq Ops
    BY RowSets
<1>a. S \subseteq Ops
    BY <1>1 DEF RowsMove
<1>2. Paid(Confirmed)' = Paid(Confirmed) \cup Paid(S) /\ Paid(Confirmed) \cap Paid(S) = {}
    BY <1>1, <1>a DEF RowsMove, Paid
<1>3. Paid(Confirmed) \in SUBSET Ops /\ Paid(S) \in SUBSET Ops
    BY <1>1, <1>a DEF Paid
<1>4. IsFiniteSet(Paid(Confirmed)) /\ IsFiniteSet(Paid(S))
    BY <1>3, QuoteAssumption, FS_Subset
<1>5. /\ Cardinality(Paid(Confirmed) \cup Paid(S))
            = Cardinality(Paid(Confirmed)) + Cardinality(Paid(S))
                - Cardinality(Paid(Confirmed) \cap Paid(S))
      /\ Cardinality(Paid(Confirmed)) \in Nat /\ Cardinality(Paid(S)) \in Nat
    BY <1>4, FS_Union, FS_CardinalityType
<1>6. Cardinality(Paid(Confirmed) \cap Paid(S)) = 0
    BY <1>2, FS_EmptySet
<1>7. Amount(Confirmed)' = Cardinality(Paid(Confirmed) \cup Paid(S))
    BY <1>2 DEF Amount, Paid
<1>8. Amount(Confirmed) = Cardinality(Paid(Confirmed)) /\ Amount(S) = Cardinality(Paid(S))
    BY DEF Amount, Paid
<1>9. QED
    BY <1>5, <1>6, <1>7, <1>8

-----------------------------------------------------------------------------
(* Each part of the invariant under a step of one call.                    *)

LEMMA KeysKept ==
    ASSUME Inv, NEW c \in Calls, Moves(c),
           call'[c].pc = "idle" \/ (call[c].pc # "idle" /\ call'[c].key = call[c].key),
           \/ receipt' = receipt
           \/ /\ call[c].pc # "idle" /\ call'[c].pc = "idle"
              /\ \E o : receipt' = [receipt EXCEPT ![call[c].key] = o]
    PROVE  KeysHeld'
<1>1. /\ receipt \in [Keys -> [body : Bodies, answer : Codes] \cup {NoOutcome}]
      /\ \A d \in Calls : call[d].key \in Keys
    BY DEF Inv, TypeOK, CallRow
<1>2. SUFFICES ASSUME NEW d \in Calls, call'[d].pc # "idle"
               PROVE  /\ receipt'[call'[d].key] = NoOutcome
                      /\ \A e \in Calls : e # d /\ call'[e].pc # "idle"
                                             => call'[e].key # call'[d].key
    BY DEF KeysHeld
<1>3. \A e \in Calls : call'[e].pc # "idle" => call[e].pc # "idle" /\ call'[e].key = call[e].key
    BY DEF Moves
<1>4. receipt[call[d].key] = NoOutcome
    BY <1>2, <1>3 DEF Inv, KeysHeld
<1>5. \A e \in Calls : e # d /\ call[e].pc # "idle" => call[e].key # call[d].key
    BY <1>2, <1>3 DEF Inv, KeysHeld
<1>6. receipt'[call[d].key] = receipt[call[d].key]
  <2>1. CASE receipt' = receipt
      BY <2>1
  <2>2. CASE /\ call[c].pc # "idle" /\ call'[c].pc = "idle"
             /\ \E o : receipt' = [receipt EXCEPT ![call[c].key] = o]
    <3>1. c # d
        BY <1>2, <2>2
    <3>2. call[c].key # call[d].key
        BY <1>5, <2>2, <3>1
    <3>3. PICK o : receipt' = [receipt EXCEPT ![call[c].key] = o]
        BY <2>2
    <3>4. QED
        BY <1>1, <3>2, <3>3
  <2>3. QED
      BY <2>1, <2>2
<1>7. QED
    BY <1>2, <1>3, <1>4, <1>5, <1>6

LEMMA PlacesKept ==
    ASSUME Inv, NEW c \in Calls, Moves(c), Children' = Children,
           batch.status # "absent" => batch'.status # "absent",
           Placed(c)'
    PROVE  CallsPlaced'
<1>1. ASSUME NEW d \in Calls \ {c} PROVE Placed(d)'
  <2>1. Placed(d) /\ call'[d] = call[d]
      BY DEF Inv, CallsPlaced, Moves
  <2>2. QED
      BY <2>1 DEF Placed
<1>2. QED
    BY <1>1 DEF CallsPlaced

(* A lock holds as long as nothing moves the rows it covers. *)
LEMMA LockKept ==
    ASSUME Inv, NEW d \in Calls, call'[d] = call[d], NEW S, NEW L, RowsMove(S, L),
           inputs' = inputs,
           Reserving(d) => /\ (S \cup L) \cap Held(d) = {}
                           /\ call[d].body.batch => batch'.status = batch.status
    PROVE  Lock(d)' /\ Held(d)' = Held(d) /\ (Reserving(d)' <=> Reserving(d))
<1>1. /\ Children' = Children /\ Quoted' = Quoted \ (S \cup L)
    BY RowSets DEF Inv
<1>2. Held(d)' = Held(d) /\ (Reserving(d)' <=> Reserving(d))
    BY <1>1 DEF Held, Reserving
<1>3. Lock(d)
    BY DEF Inv, Locks
<1>4. CASE ~Reserving(d)
    BY <1>2, <1>4 DEF Lock
<1>5. CASE Reserving(d) /\ call[d].body.batch
  <2>1. (S \cup L) \cap Children = {} /\ batch'.status = batch.status
      BY <1>5 DEF Held
  <2>2. /\ inputs /\ call[d].selected # {} /\ call[d].selected \subseteq Quoted
        /\ batch.status = "quoted"
        /\ call[d].selected \cap call[d].late = {}
        /\ call[d].selected \cup call[d].late = Children \cap Quoted
      BY <1>3, <1>5 DEF Lock
  <2>3. Children' \cap Quoted' = Children \cap Quoted /\ call[d].selected \subseteq Quoted'
      BY <1>1, <2>1, <2>2
  <2>4. QED
      BY <1>2, <1>5, <2>1, <2>2, <2>3 DEF Lock
<1>6. CASE Reserving(d) /\ ~call[d].body.batch
  <2>1. /\ inputs /\ call[d].selected # {} /\ call[d].selected \subseteq Quoted
        /\ call[d].selected \cap Children = {}
      BY <1>3, <1>6 DEF Lock
  <2>2. (S \cup L) \cap call[d].selected = {}
      BY <1>6 DEF Held
  <2>3. QED
      BY <1>1, <1>2, <1>6, <2>1, <2>2 DEF Lock
<1>7. QED
    BY <1>2, <1>4, <1>5, <1>6

LEMMA LocksKept ==
    ASSUME Inv, NEW c \in Calls, Moves(c), NEW S, NEW L, RowsMove(S, L), inputs' = inputs,
           \A d \in Calls \ {c} : Reserving(d) =>
               /\ (S \cup L) \cap Held(d) = {}
               /\ call[d].body.batch => batch'.status = batch.status,
           Lock(c)',
           \A d \in Calls \ {c} : Reserving(c)' /\ Reserving(d) => Held(c)' \cap Held(d) = {}
    PROVE  Locks' /\ LocksApart'
<1>1. ASSUME NEW d \in Calls \ {c}
      PROVE  Lock(d)' /\ Held(d)' = Held(d) /\ (Reserving(d)' <=> Reserving(d))
    BY LockKept DEF Moves
<1>2. LocksApart'
  <2>1. SUFFICES ASSUME NEW d \in Calls, NEW e \in Calls, d # e, Reserving(d)', Reserving(e)'
                 PROVE  Held(d)' \cap Held(e)' = {}
      BY DEF LocksApart
  <2>2. CASE d # c /\ e # c
      BY <1>1, <2>1, <2>2 DEF Inv, LocksApart
  <2>3. CASE d = c
      BY <1>1, <2>1, <2>3
  <2>4. CASE e = c
      BY <1>1, <2>1, <2>4
  <2>5. QED
      BY <2>2, <2>3, <2>4
<1>3. QED
    BY <1>1, <1>2 DEF Locks

(* A call that holds no rows afterwards. *)
LEMMA LocksLeft ==
    ASSUME Inv, NEW c \in Calls, Moves(c), NEW S, NEW L, RowsMove(S, L), inputs' = inputs,
           call'[c].pc # "reserving",
           \A d \in Calls \ {c} : Reserving(d) =>
               /\ (S \cup L) \cap Held(d) = {}
               /\ call[d].body.batch => batch'.status = batch.status
    PROVE  Locks' /\ LocksApart'
<1>1. Lock(c)' /\ ~Reserving(c)'
    BY DEF Lock, Reserving
<1>2. QED
    BY <1>1, LocksKept

(* What is locked, and what is not. *)
LEMMA LockedHeld ==
    ASSUME NEW d \in Calls, Reserving(d)
    PROVE  Held(d) \subseteq LockedRows
    BY DEF Held, LockedRows

LEMMA ChildrenFree ==
    ASSUME Inv, ~BatchLocked, NEW d \in Calls, Reserving(d)
    PROVE  ~call[d].body.batch /\ Held(d) \cap Children = {}
    BY DEF BatchLocked, Held, Inv, Locks, Lock

LEMMA ExclusionsKept ==
    ASSUME Inv, NEW c \in Calls, Moves(c), NEW S, NEW L, RowsMove(S, L),
           call'[c].pc \in {"removed", "reserving", "stale"} /\ call'[c].body.batch =>
             \A o \in Children \cap call'[c].excluded : op'[o].status = "expired"
    PROVE  ExcludedStaysOut'
<1>1. Children' = Children /\ Children \subseteq Ops
    BY RowSets DEF Inv
<1>2. \A o \in Ops : op[o].status = "expired" => op'[o].status = "expired"
    BY DEF RowsMove, Quoted
<1>3. ASSUME NEW d \in Calls \ {c},
             call'[d].pc \in {"removed", "reserving", "stale"} /\ call'[d].body.batch,
             NEW o \in Children' \cap call'[d].excluded
      PROVE  op'[o].status = "expired"
  <2>1. call'[d] = call[d] /\ o \in Children \cap call[d].excluded /\ o \in Ops
      BY <1>1 DEF Moves
  <2>2. op[o].status = "expired"
      BY <1>3, <2>1 DEF Inv, ExcludedStaysOut
  <2>3. QED
      BY <1>2, <2>1, <2>2
<1>4. QED
    BY <1>1, <1>3 DEF ExcludedStaysOut

(* A row that expired, and a call that goes on with its exclusions. *)
LEMMA StillExcluded ==
    ASSUME Inv, NEW c \in Calls, Moves(c), NEW S, NEW L, RowsMove(S, L), Same(c),
           call[c].pc \in {"removed", "reserving", "stale"}
    PROVE  ExcludedStaysOut'
<1>1. Children \subseteq Ops
    BY RowSets DEF Inv
<1>2. \A o \in Ops : op[o].status = "expired" => op'[o].status = "expired"
    BY DEF RowsMove, Quoted
<1>3. call'[c].body.batch => \A o \in Children \cap call'[c].excluded : op'[o].status = "expired"
    BY <1>1, <1>2 DEF Same, Inv, ExcludedStaysOut
<1>4. QED
    BY <1>3, ExclusionsKept

LEMMA BatchKept ==
    ASSUME Inv, NEW S, NEW L, RowsMove(S, L), S \cap Children = {}, batch' = batch
    PROVE  BatchWhole' /\ ChildrenExist'
<1>1. /\ Children' = Children /\ Quoted' = Quoted \ (S \cup L)
      /\ Confirmed' = Confirmed \cup S /\ Children \subseteq Ops
    BY RowSets DEF Inv
<1>2. Children' \cap Confirmed' = Children \cap Confirmed
    BY <1>1
<1>3. Children \cap Quoted = {} => Children' \cap Quoted' = {}
    BY <1>1
<1>4. BatchWhole'
    BY <1>2, <1>3 DEF Inv, BatchWhole
<1>5. ChildrenExist'
    BY <1>1 DEF Inv, ChildrenExist, RowsMove, Children, Quoted
<1>6. QED
    BY <1>4, <1>5

LEMMA MoneyKept ==
    ASSUME Inv, NEW S, NEW L, RowsMove(S, L), UNCHANGED other,
           (S = {} /\ UNCHANGED reserved) \/ (CanReserve(S) /\ reserved' = reserved + Amount(S))
    PROVE  ReservedMatches'
<1>1. /\ Amount(Confirmed)' = Amount(Confirmed) + Amount(S)
      /\ Amount(Confirmed) \in Nat /\ Amount(S) \in Nat
    BY AmountAdds DEF Inv
<1>2. S = {} => Amount(S) = 0
  <2>1. S = {} => {o \in S : ~op[o].reused} = {}
      OBVIOUS
  <2>2. QED
      BY <2>1, FS_EmptySet DEF Amount
<1>3. reserved = Amount(Confirmed) /\ reserved + other <= Limit /\ other \in Nat /\ Limit \in Nat
    BY QuoteAssumption DEF Inv, ReservedMatches, TypeOK
<1>4. reserved' = Amount(Confirmed)'
    BY <1>1, <1>2, <1>3
<1>5. reserved' + other' <= Limit
    BY <1>1, <1>3 DEF CanReserve
<1>6. QED
    BY <1>4, <1>5 DEF ReservedMatches

-----------------------------------------------------------------------------
(* Confirmations *)

LEMMA InvBegin ==
    ASSUME Inv, NEW c \in Calls, NEW k \in Keys, NEW b \in Bodies, BeginConfirmation(c, k, b)
    PROVE  Inv'
<1> DEFINE X == IF b.batch THEN b.ops ELSE {}
<1>1. /\ call[c].pc = "idle" /\ KeyFree(k) /\ Exists(b) /\ receipt[k] = NoOutcome
      /\ call' = Begun(c, k, b, X)
      /\ UNCHANGED <<world, reserved, op, batch, made, receipt, events, told>>
    BY DEF BeginConfirmation, Begun
<1>2. TypeOK /\ X \in SUBSET Ops
    BY QuoteAssumption DEF Inv
<1>3. /\ Moves(c) /\ call'[c].pc = "locked" /\ call'[c].key = k /\ call'[c].body = b
      /\ call'[c].excluded = X
  <2> HIDE DEF X
  <2>1. QED
      BY <1>1, <1>2, BeginMoves
<1>4. RowsMove({}, {})
    BY <1>1, <1>2, NoRowMoves
<1>5. Children' = Children
    BY <1>1 DEF Children
<1>6. TypeOK'
    BY <1>1, <1>2, <1>3 DEF TypeOK, Moves, world
<1>7. KeysHeld'
  <2>1. \A d \in Calls \ {c} : call'[d] = call[d] /\ (call[d].pc # "idle" => call[d].key # k)
      BY <1>1, <1>3 DEF Moves, KeyFree
  <2>2. /\ call[c].pc = "idle" /\ receipt' = receipt /\ call'[c].key = k /\ receipt[k] = NoOutcome
      BY <1>1, <1>3
  <2>3. ASSUME NEW d \in Calls \ {c}, call'[d].pc # "idle"
        PROVE  /\ receipt'[call'[d].key] = NoOutcome
               /\ \A e \in Calls : e # d /\ call'[e].pc # "idle" => call'[e].key # call'[d].key
      BY <2>1, <2>2, <2>3 DEF Inv, KeysHeld
  <2>4. QED
      BY <2>1, <2>2, <2>3 DEF KeysHeld
<1>8. CallsPlaced'
  <2>1. b.batch => batch'.status # "absent"
      BY <1>1 DEF Exists
  <2>2. Placed(c)'
      BY <1>3, <2>1 DEF Placed
  <2>3. QED
      BY <1>1, <1>3, <1>5, <2>2, PlacesKept
<1>9. Locks' /\ LocksApart'
    BY <1>1, <1>3, <1>4, LocksLeft DEF world
<1>10. ExcludedStaysOut'
    BY <1>3, <1>4, ExclusionsKept
<1>11. BatchWhole' /\ ChildrenExist'
    BY <1>1, <1>4, BatchKept
<1>12. ReservedMatches'
    BY <1>1, <1>4, MoneyKept DEF world
<1>13. QED
    BY <1>6, <1>7, <1>8, <1>9, <1>10, <1>11, <1>12 DEF Inv

(* A call whose rows stay as they are ends, or goes on to its rejection.   *)
LEMMA InvEnds ==
    ASSUME Inv, NEW c \in Calls, Moves(c),
           call'[c].pc = "idle" \/ (call[c].pc # "idle" /\ call'[c].pc = "rejected" /\ Same(c)),
           \/ receipt' = receipt
           \/ /\ call[c].pc # "idle" /\ call'[c].pc = "idle"
              /\ \E o : receipt' = [receipt EXCEPT ![call[c].key] = o],
           UNCHANGED <<world, reserved, op, batch, made, events>>, TypeOK'
    PROVE  Inv'
<1>1. RowsMove({}, {})
    BY NoRowMoves DEF Inv
<1>2. Children' = Children
    BY DEF Children
<1>3. KeysHeld'
    BY KeysKept DEF Same
<1>4. CallsPlaced'
  <2>1. Placed(c)'
      BY DEF Inv, CallsPlaced, Placed, Same
  <2>2. QED
      BY <1>2, <2>1, PlacesKept
<1>5. Locks' /\ LocksApart'
    BY <1>1, LocksLeft DEF world
<1>6. ExcludedStaysOut'
    BY <1>1, ExclusionsKept
<1>7. BatchWhole' /\ ChildrenExist'
    BY <1>1, BatchKept
<1>8. ReservedMatches'
    BY <1>1, MoneyKept DEF world
<1>9. QED
    BY <1>3, <1>4, <1>5, <1>6, <1>7, <1>8 DEF Inv

LEMMA InvRecord ==
    ASSUME Inv, NEW c \in Calls, RecordRejection(c)
    PROVE  Inv'
<1>1. /\ call[c].pc = "rejected" /\ call' = Idle(c)
      /\ receipt' = [receipt EXCEPT ![call[c].key] = [body |-> call[c].body,
                                                      answer |-> call[c].code]]
      /\ told' = told \cup {<<call[c].key, call[c].body, call[c].code>>}
      /\ UNCHANGED <<world, reserved, op, batch, made, events>>
    BY DEF RecordRejection
<1>2. Moves(c) /\ call'[c].pc = "idle"
    BY <1>1, IdleMoves DEF Inv
<1>3. call[c].key \in Keys /\ call[c].body \in Bodies /\ call[c].code \in Codes
    BY DEF Inv, TypeOK, CallRow
<1>4. TypeOK'
    BY <1>1, <1>2, <1>3 DEF Inv, TypeOK, Moves, world
<1>5. \E o : receipt' = [receipt EXCEPT ![call[c].key] = o]
    BY <1>1
<1>6. QED
    BY <1>1, <1>2, <1>4, <1>5, InvEnds

LEMMA InvCrash ==
    ASSUME Inv, NEW c \in Calls, Crash(c)
    PROVE  Inv'
<1>1. /\ call' = Idle(c)
      /\ UNCHANGED <<world, reserved, op, batch, made, receipt, events, told>>
    BY DEF Crash
<1>2. Moves(c) /\ call'[c].pc = "idle"
    BY <1>1, IdleMoves DEF Inv
<1>3. TypeOK'
    BY <1>1, <1>2 DEF Inv, TypeOK, Moves, world
<1>4. QED
    BY <1>1, <1>2, <1>3, InvEnds

(* A call that was refused, or that a changed input ends. *)
LEMMA InvRefused ==
    ASSUME Inv, NEW c \in Calls, call[c].pc # "idle",
           call' = Idle(c) \/ \E code \in Codes : call' = Reject(c, code),
           UNCHANGED <<world, reserved, op, batch, made, receipt, events, told>>
    PROVE  Inv'
<1>1. Moves(c) /\ (call'[c].pc = "idle" \/ (call'[c].pc = "rejected" /\ Same(c)))
    BY IdleMoves, RejectMoves DEF Inv
<1>2. TypeOK'
    BY <1>1 DEF Inv, TypeOK, Moves, world
<1>3. QED
    BY <1>1, <1>2, InvEnds

(* Rows expire that no call holds; the call that found them goes on to its *)
(* rejection.                                                              *)
LEMMA InvExpires ==
    ASSUME Inv, NEW c \in Calls, call[c].pc # "idle", Moves(c), Same(c),
           call'[c].pc = "rejected",
           NEW L \in SUBSET Quoted, op' = Expire(L),
           \A d \in Calls \ {c} : Reserving(d) =>
               L \cap Held(d) = {} /\ (call[d].body.batch => batch'.status = batch.status),
           batch.status # "absent" => batch'.status # "absent",
           UNCHANGED <<world, reserved, made, receipt, events, told>>
    PROVE  /\ KeysHeld' /\ CallsPlaced' /\ Locks' /\ LocksApart' /\ ExcludedStaysOut'
           /\ ReservedMatches' /\ RowsMove({}, L)
<1>1. RowsMove({}, L)
    BY ExpireMoves DEF Inv
<1>2. Children' = Children
    BY <1>1, RowSets DEF Inv
<1>3. KeysHeld'
    BY KeysKept DEF Same
<1>4. CallsPlaced'
  <2>1. Placed(c)'
      BY DEF Inv, CallsPlaced, Placed, Same
  <2>2. QED
      BY <1>2, <2>1, PlacesKept
<1>5. Locks' /\ LocksApart'
  <2>1. \A d \in Calls \ {c} : Reserving(d) =>
            ({} \cup L) \cap Held(d) = {} /\ (call[d].body.batch => batch'.status = batch.status)
      OBVIOUS
  <2>2. QED
      BY <1>1, <2>1, LocksLeft DEF world
<1>6. ExcludedStaysOut'
    BY <1>1, ExclusionsKept
<1>7. ReservedMatches'
    BY <1>1, MoneyKept DEF world
<1>8. QED
    BY <1>1, <1>3, <1>4, <1>5, <1>6, <1>7

LEMMA InvCheckSingle ==
    ASSUME Inv, NEW c \in Calls, CheckSingle(c)
    PROVE  Inv'
<1> DEFINE o == TheOp(c)
<1>1. /\ call[c].pc = "locked" /\ ~call[c].body.batch /\ o \notin LockedRows
      /\ UNCHANGED <<world, reserved, batch, made, receipt, events, told>>
    BY DEF CheckSingle
<1>2. o \in Ops
  <2>1. call[c].body \in Bodies
      BY DEF Inv, TypeOK, CallRow
  <2>2. QED
      BY <1>1, <2>1, QuoteAssumption DEF TheOp
<1>3. CASE /\ call' = Reject(c, "state_conflict") /\ UNCHANGED op
    BY <1>1, <1>3, InvRefused DEF Codes
<1>4. CASE /\ op[o].status = "quoted" /\ ~op[o].batched
           /\ op' = Expire({o}) /\ call' = Reject(c, "quote_expired")
  <2>1. "quote_expired" \in Codes /\ {o} \in SUBSET Quoted
      BY <1>2, <1>4 DEF Codes, Quoted
  <2>2. Moves(c) /\ Same(c) /\ call'[c].pc = "rejected"
      BY <1>4, <2>1, RejectMoves DEF Inv
  <2>3. \A d \in Calls \ {c} : Reserving(d) =>
            {o} \cap Held(d) = {} /\ (call[d].body.batch => batch'.status = batch.status)
      BY <1>1, LockedHeld
  <2> HIDE DEF o
  <2>4. /\ KeysHeld' /\ CallsPlaced' /\ Locks' /\ LocksApart' /\ ExcludedStaysOut'
        /\ ReservedMatches' /\ RowsMove({}, {o})
      BY <1>1, <1>4, <2>1, <2>2, <2>3, InvExpires
  <2>5. BatchWhole' /\ ChildrenExist'
      BY <1>1, <2>4, BatchKept
  <2>6. TypeOK'
      BY <1>1, <2>2, <2>4 DEF Inv, TypeOK, Moves, RowsMove, world
  <2>7. QED
      BY <2>4, <2>5, <2>6 DEF Inv
<1>5. CASE /\ op[o].status = "quoted" /\ ~op[o].batched /\ inputs
           /\ call' = [Goto(c, "reserving") EXCEPT ![c].selected = {o}] /\ UNCHANGED op
  <2>1. RowsMove({}, {})
      BY <1>5, NoRowMoves DEF Inv
  <2>2. /\ Moves(c) /\ Same(c) /\ call'[c].pc = "reserving" /\ call'[c].selected = {o}
    <3>1. call' = LockOne(c, {o}) /\ {o} \in SUBSET Ops
        BY <1>2, <1>5 DEF LockOne
    <3> HIDE DEF o
    <3>2. QED
        BY <3>1, LockSingleMoves DEF Inv
  <2>3. Children' = Children /\ Quoted' = Quoted
      BY <1>5 DEF Children, Quoted
  <2>4. Lock(c)'
    <3>1. {o} \subseteq Quoted' /\ {o} \cap Children' = {} /\ {o} # {} /\ inputs'
        BY <1>1, <1>2, <1>5, <2>3 DEF Quoted, Children, world
    <3>2. ~call'[c].body.batch
        BY <1>1, <2>2 DEF Same
    <3>3. QED
        BY <2>2, <3>1, <3>2 DEF Lock
  <2>5. \A d \in Calls \ {c} : Reserving(c)' /\ Reserving(d) => Held(c)' \cap Held(d) = {}
    <3>1. Held(c)' = {o}
        BY <1>1, <2>2 DEF Held, Same
    <3>2. QED
        BY <1>1, <3>1, LockedHeld
  <2> HIDE DEF o
  <2>6. Locks' /\ LocksApart'
      BY <1>1, <2>1, <2>2, <2>4, <2>5, LocksKept DEF world
  <2>7. CallsPlaced'
    <3>1. Placed(c)'
        BY <1>1, <2>2 DEF Placed, Same
    <3>2. QED
        BY <1>1, <2>2, <2>3, <3>1, PlacesKept
  <2>8. KeysHeld'
      BY <1>1, <2>2, KeysKept DEF Same
  <2>9. ExcludedStaysOut'
      BY <1>1, <2>1, <2>2, ExclusionsKept DEF Same
  <2>10. BatchWhole' /\ ChildrenExist'
      BY <1>1, <2>1, BatchKept
  <2>11. ReservedMatches'
      BY <1>1, <2>1, MoneyKept DEF world
  <2>12. TypeOK'
      BY <1>1, <1>5, <2>2 DEF Inv, TypeOK, Moves, world
  <2>13. QED
      BY <2>6, <2>7, <2>8, <2>9, <2>10, <2>11, <2>12 DEF Inv
<1>6. CASE call' = Idle(c) /\ UNCHANGED op
    BY <1>1, <1>6, InvRefused
<1>7. QED
    BY <1>3, <1>4, <1>5, <1>6 DEF CheckSingle

(* A confirmation that succeeded: its selection is confirmed, what it found *)
(* stale expires, and its outcome is stored.                                *)
LEMMA InvSucceeds ==
    ASSUME Inv, NEW c \in Calls, Reserving(c), call' = Idle(c),
           NEW S, NEW L, RowsMove(S, L), S \cup L \subseteq Held(c), S # {},
           CanReserve(S), reserved' = reserved + Amount(S),
           \E o : receipt' = [receipt EXCEPT ![call[c].key] = o],
           batch.status # "absent" => batch'.status # "absent",
           batch' = batch \/ call[c].body.batch,
           UNCHANGED <<world, made>>
    PROVE  /\ KeysHeld' /\ CallsPlaced' /\ Locks' /\ LocksApart' /\ ExcludedStaysOut'
           /\ ReservedMatches'
<1>1. Moves(c) /\ call'[c].pc = "idle" /\ call[c].pc = "reserving"
    BY IdleMoves DEF Inv, Reserving
<1>2. Children' = Children
    BY RowSets DEF Inv
<1>3. KeysHeld'
    BY <1>1, KeysKept
<1>4. CallsPlaced'
  <2>1. Placed(c)'
      BY <1>1 DEF Placed
  <2>2. QED
      BY <1>1, <1>2, <2>1, PlacesKept
<1>5. Locks' /\ LocksApart'
  <2>1. ASSUME NEW d \in Calls \ {c}, Reserving(d)
        PROVE  /\ (S \cup L) \cap Held(d) = {}
               /\ call[d].body.batch => batch'.status = batch.status
    <3>1. Held(c) \cap Held(d) = {}
        BY <2>1 DEF Inv, LocksApart
    <3>2. ~(call[c].body.batch /\ call[d].body.batch)
        BY <3>1 DEF Held
    <3>3. QED
        BY <3>1, <3>2
  <2>2. QED
      BY <1>1, <2>1, LocksLeft DEF world
<1>6. ExcludedStaysOut'
    BY <1>1, ExclusionsKept
<1>7. ReservedMatches'
    BY MoneyKept DEF world
<1>8. QED
    BY <1>3, <1>4, <1>5, <1>6, <1>7

(* What a success adds to the receipts, the events and the answers. *)
LEMMA SuccessTyped ==
    ASSUME TypeOK, NEW c \in Calls, NEW S \in SUBSET Ops, NEW n \in Nat, Succeed(c, S, n)
    PROVE  /\ receipt' \in [Keys -> [body : Bodies, answer : Codes] \cup {NoOutcome}]
           /\ events' \subseteq [key : Keys, batch : BOOLEAN, confirmed : SUBSET Ops,
                                 expiredCount : Nat]
           /\ told' \subseteq Keys \X Bodies \X Codes
           /\ \E o : receipt' = [receipt EXCEPT ![call[c].key] = o]
<1>1. call[c].key \in Keys /\ call[c].body \in Bodies
    BY DEF TypeOK, CallRow
<1>2. call[c].body.batch \in BOOLEAN
    BY <1>1, QuoteAssumption
<1>3. [key |-> call[c].key, batch |-> call[c].body.batch, confirmed |-> S, expiredCount |-> n]
          \in [key : Keys, batch : BOOLEAN, confirmed : SUBSET Ops, expiredCount : Nat]
    BY <1>1, <1>2
<1>4. [body |-> call[c].body, answer |-> "ok"] \in [body : Bodies, answer : Codes]
    BY <1>1 DEF Codes
<1>5. <<call[c].key, call[c].body, "ok">> \in Keys \X Bodies \X Codes
    BY <1>1 DEF Codes
<1>6. QED
    BY <1>3, <1>4, <1>5 DEF Succeed, TypeOK

LEMMA InvReserveSingle ==
    ASSUME Inv, NEW c \in Calls, ReserveSingle(c)
    PROVE  Inv'
<1> DEFINE S == call[c].selected
<1>1. /\ Reserving(c) /\ call[c].pc = "reserving" /\ ~call[c].body.batch
      /\ UNCHANGED <<world, batch, made>>
    BY DEF ReserveSingle, Reserving
<1>2. CASE /\ \E code \in Codes : call' = Reject(c, code)
           /\ UNCHANGED <<reserved, op, receipt, events, told>>
    BY <1>1, <1>2, InvRefused
<1>3. CASE /\ CanReserve(S) /\ reserved' = reserved + Amount(S)
           /\ op' = Confirm(S) /\ Succeed(c, S, 0) /\ call' = Idle(c)
  <2>1. S \subseteq Quoted /\ S # {} /\ S \cap Children = {} /\ S \subseteq Held(c)
      BY <1>1 DEF Inv, Locks, Lock, Held
  <2>2. S \in SUBSET Ops
      BY <2>1 DEF Quoted
  <2> HIDE DEF S
  <2>3. RowsMove(S, {})
      BY <1>3, <2>1, ConfirmMoves DEF Inv
  <2>4. /\ receipt' \in [Keys -> [body : Bodies, answer : Codes] \cup {NoOutcome}]
        /\ events' \subseteq [key : Keys, batch : BOOLEAN, confirmed : SUBSET Ops,
                              expiredCount : Nat]
        /\ told' \subseteq Keys \X Bodies \X Codes
        /\ \E o : receipt' = [receipt EXCEPT ![call[c].key] = o]
      BY <1>3, <2>2, SuccessTyped DEF Inv
  <2>5. S \cup {} \subseteq Held(c)
      BY <2>1
  <2>6. /\ KeysHeld' /\ CallsPlaced' /\ Locks' /\ LocksApart' /\ ExcludedStaysOut'
        /\ ReservedMatches'
      BY <1>1, <1>3, <2>1, <2>3, <2>4, <2>5, InvSucceeds
  <2>7. BatchWhole' /\ ChildrenExist'
      BY <1>1, <2>1, <2>3, BatchKept
  <2>8. Moves(c)
      BY <1>3, IdleMoves DEF Inv
  <2>9. Amount(S) \in Nat
      BY <2>3, AmountAdds DEF Inv
  <2>10. TypeOK'
      BY <1>1, <1>3, <2>3, <2>4, <2>8, <2>9 DEF Inv, TypeOK, Moves, RowsMove, world
  <2>11. QED
      BY <2>6, <2>7, <2>10 DEF Inv
<1>4. QED
    BY <1>2, <1>3 DEF ReserveSingle, Codes

LEMMA InvRemoveItems ==
    ASSUME Inv, NEW c \in Calls, RemoveItems(c)
    PROVE  Inv'
<1> DEFINE L == {o \in Children \cap Quoted : o \in call[c].body.ops \/ ~Fresh(o)}
<1>1. /\ call[c].pc = "locked" /\ call[c].body.batch /\ ~BatchLocked
      /\ UNCHANGED <<world, reserved, batch, made, receipt, events, told>>
    BY DEF RemoveItems
<1>2. CASE call' = Reject(c, "state_conflict") /\ UNCHANGED op
    BY <1>1, <1>2, InvRefused DEF Codes
<1>3. CASE batch.status = "quoted" /\ op' = Expire(L) /\ call' = Goto(c, "removed")
  <2>1. L \in SUBSET Quoted /\ L \subseteq Children
      OBVIOUS
  <2>2. RowsMove({}, L)
    <3> HIDE DEF L
    <3>1. QED
        BY <1>3, <2>1, ExpireMoves DEF Inv
  <2>3. Moves(c) /\ Same(c) /\ call'[c].pc = "removed"
      BY <1>3, GotoMoves DEF Inv
  <2>4. \A o \in Children \cap call'[c].excluded : op'[o].status = "expired"
    <3> SUFFICES ASSUME NEW o \in Children, o \in call[c].excluded
                 PROVE  op'[o].status = "expired"
        BY <2>3 DEF Same
    <3>1. o \in call[c].body.ops
        BY <1>1 DEF Inv, CallsPlaced, Placed
    <3>2. o \in Ops /\ op[o].status \in {"quoted", "expired"}
      <4>1. o \in Ops /\ op[o].status # "absent" /\ op[o] \in OpRow
          BY DEF Inv, ChildrenExist, Children, TypeOK
      <4>2. o \notin Confirmed
          BY <1>3 DEF Inv, BatchWhole
      <4>3. QED
          BY <4>1, <4>2 DEF Confirmed, OpRow
    <3>3. op[o].status = "quoted" => o \in L
        BY <3>1, <3>2 DEF Quoted
    <3> HIDE DEF L
    <3>4. QED
        BY <2>2, <3>2, <3>3 DEF RowsMove
  <2> HIDE DEF L
  <2>5. Children' = Children
      BY <2>2, RowSets DEF Inv
  <2>6. KeysHeld'
      BY <1>1, <2>3, KeysKept DEF Same
  <2>7. CallsPlaced'
    <3>1. Placed(c)'
        BY <1>1, <2>3 DEF Inv, CallsPlaced, Placed, Same
    <3>2. QED
        BY <1>1, <2>3, <2>5, <3>1, PlacesKept
  <2>8. Locks' /\ LocksApart'
    <3>1. \A d \in Calls \ {c} : Reserving(d) =>
              ({} \cup L) \cap Held(d) = {} /\ (call[d].body.batch => batch'.status = batch.status)
        BY <1>1, <2>1, ChildrenFree
    <3>2. QED
        BY <1>1, <2>2, <2>3, <3>1, LocksLeft DEF world
  <2>9. ExcludedStaysOut'
      BY <2>2, <2>3, <2>4, ExclusionsKept
  <2>10. BatchWhole' /\ ChildrenExist'
      BY <1>1, <2>2, BatchKept
  <2>11. ReservedMatches'
      BY <1>1, <2>2, MoneyKept DEF world
  <2>12. TypeOK'
      BY <1>1, <2>2, <2>3 DEF Inv, TypeOK, Moves, RowsMove, world
  <2>13. QED
      BY <2>6, <2>7, <2>8, <2>9, <2>10, <2>11, <2>12 DEF Inv
<1>4. CASE call' = Idle(c) /\ UNCHANGED op
    BY <1>1, <1>4, InvRefused DEF Codes
<1>5. QED
    BY <1>2, <1>3, <1>4 DEF RemoveItems

(* The batch ends as expired, without a quoted child. *)
LEMMA BatchExpires ==
    ASSUME Inv, NEW L, RowsMove({}, L), batch.status = "quoted", Children \cap Quoted \subseteq L,
           batch' = [batch EXCEPT !.status = "expired"]
    PROVE  BatchWhole' /\ ChildrenExist' /\ batch'.status = "expired"
<1>1. /\ Children' = Children /\ Quoted' = Quoted \ L /\ Confirmed' = Confirmed
      /\ Children \subseteq Ops
  <2>1. /\ Children' = Children /\ Quoted' = Quoted \ ({} \cup L)
        /\ Confirmed' = Confirmed \cup {} /\ Children \subseteq Ops
      BY RowSets DEF Inv
  <2>2. QED
      BY <2>1
<1>2. batch'.status = "expired"
    BY DEF Inv, TypeOK
<1>3. Children \cap Confirmed = {}
    BY DEF Inv, BatchWhole
<1>4. BatchWhole'
    BY <1>1, <1>2, <1>3 DEF BatchWhole
<1>5. ChildrenExist'
    BY <1>1, <1>2 DEF Inv, ChildrenExist, RowsMove, Children
<1>6. QED
    BY <1>2, <1>4, <1>5

LEMMA InvSelectItems ==
    ASSUME Inv, NEW c \in Calls, SelectItems(c)
    PROVE  Inv'
<1> DEFINE S == {o \in Children \cap Quoted : Fresh(o)}
           L == {o \in Children \cap Quoted : ~Fresh(o)}
<1>1. /\ call[c].pc = "removed" /\ ~BatchLocked
      /\ UNCHANGED <<world, reserved, made, receipt, events, told>>
    BY DEF SelectItems
<1>2. call[c].body.batch
    BY <1>1 DEF Inv, CallsPlaced, Placed
<1>3. S \cap L = {} /\ S \cup L = Children \cap Quoted
    OBVIOUS
<1>4. S \in SUBSET Ops /\ L \in SUBSET Ops /\ L \in SUBSET Quoted
    BY DEF Quoted
<1>5. CASE UNCHANGED <<op, batch>> /\ call' = Reject(c, "state_conflict")
    BY <1>1, <1>5, InvRefused DEF Codes
<1>6. CASE UNCHANGED <<op, batch>> /\ call' = Idle(c)
    BY <1>1, <1>6, InvRefused
<1>7. CASE /\ batch.status = "quoted" /\ S = {} /\ op' = Expire(L)
           /\ batch' = [batch EXCEPT !.status = "expired"]
           /\ call' = Reject(c, "quote_expired")
  <2> HIDE DEF S, L
  <2>1. Moves(c) /\ Same(c) /\ call'[c].pc = "rejected"
      BY <1>7, RejectMoves DEF Inv, Codes
  <2>2. RowsMove({}, L)
      BY <1>4, <1>7, ExpireMoves DEF Inv
  <2>3. BatchWhole' /\ ChildrenExist' /\ batch'.status = "expired"
      BY <1>3, <1>7, <2>2, BatchExpires
  <2>4. \A d \in Calls \ {c} : Reserving(d) =>
            L \cap Held(d) = {} /\ (call[d].body.batch => batch'.status = batch.status)
      BY <1>1, <1>3, ChildrenFree
  <2>5. /\ KeysHeld' /\ CallsPlaced' /\ Locks' /\ LocksApart' /\ ExcludedStaysOut'
        /\ ReservedMatches' /\ RowsMove({}, L)
      BY <1>1, <1>4, <1>7, <2>1, <2>3, <2>4, InvExpires
  <2>6. TypeOK'
      BY <1>1, <1>7, <2>1, <2>2 DEF Inv, TypeOK, Moves, RowsMove, world
  <2>7. QED
      BY <2>3, <2>5, <2>6 DEF Inv
<1>8. CASE /\ batch.status = "quoted" /\ S # {} /\ inputs /\ UNCHANGED <<op, batch>>
           /\ call' = [Goto(c, "reserving") EXCEPT ![c].selected = S, ![c].late = L]
  <2> HIDE DEF S, L
  <2>1. RowsMove({}, {})
      BY <1>8, NoRowMoves DEF Inv
  <2>2. /\ Moves(c) /\ Same(c) /\ call'[c].pc = "reserving" /\ call'[c].selected = S
        /\ call'[c].late = L
    <3>1. call' = LockAll(c, S, L)
        BY <1>8 DEF LockAll
    <3>2. QED
        BY <1>4, <3>1, LockMoves DEF Inv
  <2>3. Children' = Children /\ Quoted' = Quoted
      BY <1>8 DEF Children, Quoted
  <2>4. Lock(c)'
      BY <1>1, <1>2, <1>3, <1>8, <2>2, <2>3 DEF Lock, Same, world
  <2>5. \A d \in Calls \ {c} : Reserving(c)' /\ Reserving(d) => Held(c)' \cap Held(d) = {}
    <3>1. Held(c)' = Children
        BY <1>2, <2>2, <2>3 DEF Held, Same
    <3>2. QED
        BY <1>1, <3>1, ChildrenFree
  <2>6. Locks' /\ LocksApart'
      BY <1>1, <1>8, <2>1, <2>2, <2>4, <2>5, LocksKept DEF world
  <2>7. CallsPlaced'
    <3>1. Placed(c)'
        BY <1>1, <1>2, <1>8, <2>2 DEF Inv, CallsPlaced, Placed, Same
    <3>2. QED
        BY <1>8, <2>2, <2>3, <3>1, PlacesKept
  <2>8. KeysHeld'
      BY <1>1, <2>2, KeysKept DEF Same
  <2>9. ExcludedStaysOut'
      BY <1>1, <2>1, <2>2, StillExcluded
  <2>10. BatchWhole' /\ ChildrenExist'
      BY <1>8, <2>1, BatchKept
  <2>11. ReservedMatches'
      BY <1>1, <2>1, MoneyKept DEF world
  <2>12. TypeOK'
      BY <1>1, <1>8, <2>2 DEF Inv, TypeOK, Moves, world
  <2>13. QED
      BY <2>6, <2>7, <2>8, <2>9, <2>10, <2>11, <2>12 DEF Inv
<1>9. QED
    BY <1>5, <1>6, <1>7, <1>8 DEF SelectItems

(* A batch confirmation that could not reserve keeps its rows. *)
LEMMA InvFails ==
    ASSUME Inv, NEW c \in Calls, Reserving(c), call[c].body.batch,
           NEW stale \in SUBSET Children, NEW code \in Codes, FailReservation(c, stale, code),
           UNCHANGED <<world, made>>
    PROVE  Inv'
<1>1. UNCHANGED <<world, reserved, op, batch, made, receipt, events, told>>
    BY DEF FailReservation
<1>2. call[c].pc = "reserving"
    BY DEF Reserving
<1>3. CASE call' = Reject(c, code)
    BY <1>1, <1>2, <1>3, InvRefused
<1>4. CASE call' = [call EXCEPT ![c].pc = "stale", ![c].code = code,
                                ![c].selected = {}, ![c].late = stale]
  <2>1. Moves(c) /\ Same(c) /\ call'[c].pc = "stale" /\ call'[c].late = stale
    <3>1. call' = GoStale(c, code, stale) /\ stale \in SUBSET Ops
        BY <1>4 DEF GoStale, Children
    <3>2. QED
        BY <3>1, StaleMoves DEF Inv
  <2>2. RowsMove({}, {})
      BY <1>1, NoRowMoves DEF Inv
  <2>3. Children' = Children
      BY <1>1 DEF Children
  <2>4. KeysHeld'
      BY <1>1, <1>2, <2>1, KeysKept DEF Same
  <2>5. CallsPlaced'
    <3>1. Placed(c)'
        BY <1>1, <1>2, <2>1, <2>3 DEF Inv, CallsPlaced, Placed, Same
    <3>2. QED
        BY <1>1, <2>1, <2>3, <3>1, PlacesKept
  <2>6. Locks' /\ LocksApart'
      BY <1>1, <2>1, <2>2, LocksLeft DEF world
  <2>7. ExcludedStaysOut'
      BY <1>2, <2>1, <2>2, StillExcluded
  <2>8. BatchWhole' /\ ChildrenExist'
      BY <1>1, <2>2, BatchKept
  <2>9. ReservedMatches'
      BY <1>1, <2>2, MoneyKept DEF world
  <2>10. TypeOK'
      BY <1>1, <2>1 DEF Inv, TypeOK, Moves, world
  <2>11. QED
      BY <2>4, <2>5, <2>6, <2>7, <2>8, <2>9, <2>10 DEF Inv
<1>5. QED
    BY <1>3, <1>4 DEF FailReservation

LEMMA InvReserveBatch ==
    ASSUME Inv, NEW c \in Calls, ReserveBatch(c)
    PROVE  Inv'
<1> DEFINE S == call[c].selected
           L == call[c].late
           turned == {o \in S : ~FreshAfterBudget(o)}
<1>1. /\ Reserving(c) /\ call[c].pc = "reserving" /\ call[c].body.batch
      /\ UNCHANGED <<world, made>>
    BY DEF ReserveBatch, Reserving
<1>2. /\ S # {} /\ S \cap L = {} /\ S \cup L = Children \cap Quoted /\ batch.status = "quoted"
      /\ Held(c) = Children
    BY <1>1 DEF Inv, Locks, Lock, Held
<1>3. CASE FailReservation(c, L, "budget_insufficient")
  <2>1. L \in SUBSET Children /\ "budget_insufficient" \in Codes
      BY <1>2 DEF Codes
  <2>2. QED
      BY <1>1, <1>3, <2>1, InvFails
<1>4. CASE \E o \in turned : FailReservation(c, L \cup {o}, "quote_expired")
  <2>1. PICK o \in turned : FailReservation(c, L \cup {o}, "quote_expired")
      BY <1>4
  <2>2. L \cup {o} \in SUBSET Children /\ "quote_expired" \in Codes
      BY <1>2 DEF Codes
  <2>3. QED
      BY <1>1, <2>1, <2>2, InvFails
<1>5. CASE /\ CanReserve(S) /\ reserved' = reserved + Amount(S)
           /\ op' = [o \in Ops |-> IF o \in L THEN [op[o] EXCEPT !.status = "expired"]
                                   ELSE Confirm(S)[o]]
           /\ batch' = [status |-> "confirmed", total |-> Cardinality(S)]
           /\ Succeed(c, S, ExpiredCount(c)) /\ call' = Idle(c)
  <2>1. S \in SUBSET Quoted /\ L \in SUBSET Quoted /\ S \in SUBSET Ops /\ L \in SUBSET Ops
      BY <1>2 DEF Quoted
  <2>2. IsFiniteSet(S) /\ Cardinality(S) \in Nat /\ Cardinality(S) # 0
    <3>1. IsFiniteSet(S)
        BY <2>1, QuoteAssumption, FS_Subset
    <3>2. QED
        BY <1>2, <3>1, FS_CardinalityType, FS_EmptySet
  <2>3. ExpiredCount(c) \in Nat
    <3> DEFINE R == {o \in Children : op[o].status = "expired"}
    <3>1. R \in SUBSET Ops
        BY DEF Children
    <3>2. IsFiniteSet(R) /\ IsFiniteSet(L)
        BY <2>1, <3>1, QuoteAssumption, FS_Subset
    <3>3. Cardinality(R) \in Nat /\ Cardinality(L) \in Nat
        BY <3>2, FS_CardinalityType
    <3>4. QED
        BY <2>2, <3>3 DEF ExpiredCount
  <2> HIDE DEF S, L
  <2>4. RowsMove(S, L)
      BY <1>2, <1>5, <2>1, ConfirmAllMoves DEF Inv
  <2>5. /\ receipt' \in [Keys -> [body : Bodies, answer : Codes] \cup {NoOutcome}]
        /\ events' \subseteq [key : Keys, batch : BOOLEAN, confirmed : SUBSET Ops,
                              expiredCount : Nat]
        /\ told' \subseteq Keys \X Bodies \X Codes
        /\ \E o : receipt' = [receipt EXCEPT ![call[c].key] = o]
      BY <1>5, <2>1, <2>3, SuccessTyped DEF Inv
  <2>6. S \cup L \subseteq Held(c) /\ batch'.status # "absent"
      BY <1>2, <1>5
  <2>7. /\ KeysHeld' /\ CallsPlaced' /\ Locks' /\ LocksApart' /\ ExcludedStaysOut'
        /\ ReservedMatches'
      BY <1>1, <1>2, <1>5, <2>4, <2>5, <2>6, InvSucceeds
  <2>8. /\ Children' = Children /\ Quoted' = Quoted \ (S \cup L)
        /\ Confirmed' = Confirmed \cup S /\ Children \cap Confirmed = {}
    <3>1. Children \cap Confirmed = {}
        BY <1>2 DEF Inv, BatchWhole
    <3>2. QED
        BY <2>4, <3>1, RowSets DEF Inv
  <2>9. BatchWhole'
    <3>1. Children' \cap Quoted' = {} /\ Children' \cap Confirmed' = S
        BY <1>2, <2>8
    <3>2. batch'.status = "confirmed" /\ batch'.total = Cardinality(S)
        BY <1>5
    <3>3. QED
        BY <2>2, <3>1, <3>2 DEF BatchWhole
  <2>10. ChildrenExist'
      BY <2>4, <2>6, <2>8 DEF Inv, ChildrenExist, RowsMove, Children
  <2>11. Moves(c)
      BY <1>5, IdleMoves DEF Inv
  <2>12. Amount(S) \in Nat
      BY <2>4, AmountAdds DEF Inv
  <2>13. batch' \in [status : {"absent", "quoted", "expired", "confirmed"}, total : Nat]
      BY <1>5, <2>2
  <2>14. TypeOK'
      BY <1>1, <1>5, <2>4, <2>5, <2>11, <2>12, <2>13
         DEF Inv, TypeOK, Moves, RowsMove, world
  <2>15. QED
      BY <2>7, <2>9, <2>10, <2>14 DEF Inv
<1>6. QED
    BY <1>3, <1>4, <1>5 DEF ReserveBatch

LEMMA InvPersistStaleItems ==
    ASSUME Inv, NEW c \in Calls, PersistStaleItems(c)
    PROVE  Inv'
<1> DEFINE L == {o \in call[c].late \cap Quoted : ~Fresh(o)}
<1>1. /\ call[c].pc = "stale" /\ ~BatchLocked /\ call' = Reject(c, call[c].code)
      /\ UNCHANGED <<world, reserved, made, receipt, events, told>>
    BY DEF PersistStaleItems
<1>2. call[c].code \in Codes
    BY DEF Inv, TypeOK, CallRow
<1>3. CASE UNCHANGED <<op, batch>>
    BY <1>1, <1>2, <1>3, InvRefused
<1>4. CASE /\ batch.status = "quoted" /\ op' = Expire(L)
           /\ batch' = [batch EXCEPT !.status =
                           IF (Children \cap Quoted) \ L = {} THEN "expired" ELSE @]
  <2>1. L \in SUBSET Quoted /\ L \subseteq Children
      BY <1>1 DEF Inv, CallsPlaced, Placed
  <2> HIDE DEF L
  <2>2. Moves(c) /\ Same(c) /\ call'[c].pc = "rejected"
      BY <1>1, <1>2, RejectMoves DEF Inv
  <2>3. RowsMove({}, L)
      BY <1>4, <2>1, ExpireMoves DEF Inv
  <2>4. BatchWhole' /\ ChildrenExist' /\ batch'.status # "absent"
    <3>1. CASE Children \cap Quoted \subseteq L
        BY <1>4, <2>3, <3>1, BatchExpires
    <3>2. CASE ~(Children \cap Quoted \subseteq L)
      <4>1. batch' = batch
          BY <1>4, <3>2 DEF Inv, TypeOK
      <4>2. QED
          BY <1>4, <2>3, <4>1, BatchKept
    <3>3. QED
        BY <3>1, <3>2
  <2>5. \A d \in Calls \ {c} : Reserving(d) =>
            L \cap Held(d) = {} /\ (call[d].body.batch => batch'.status = batch.status)
      BY <1>1, <2>1, ChildrenFree
  <2>6. /\ KeysHeld' /\ CallsPlaced' /\ Locks' /\ LocksApart' /\ ExcludedStaysOut'
        /\ ReservedMatches' /\ RowsMove({}, L)
      BY <1>1, <1>4, <2>1, <2>2, <2>4, <2>5, InvExpires
  <2>7. TypeOK'
    <3>1. batch' \in [status : {"absent", "quoted", "expired", "confirmed"}, total : Nat]
        BY <1>4 DEF Inv, TypeOK
    <3>2. QED
        BY <1>1, <2>2, <2>3, <3>1 DEF Inv, TypeOK, Moves, RowsMove, world
  <2>8. QED
      BY <2>4, <2>6, <2>7 DEF Inv
<1>5. QED
    BY <1>1, <1>3, <1>4 DEF PersistStaleItems

-----------------------------------------------------------------------------
(* Steps that leave the calls alone. *)
LEMMA QuietKeeps ==
    ASSUME Inv, UNCHANGED <<call, receipt>>, NEW L, RowsMove({}, L), L \cap LockedRows = {},
           inputs' = inputs, batch'.status = batch.status \/ ~BatchLocked,
           batch.status # "absent" => batch'.status # "absent"
    PROVE  KeysHeld' /\ CallsPlaced' /\ Locks' /\ LocksApart' /\ ExcludedStaysOut'
<1>1. CASE Calls = {}
    BY <1>1 DEF KeysHeld, CallsPlaced, Locks, LocksApart, ExcludedStaysOut
<1>2. CASE Calls # {}
  <2>1. PICK c \in Calls : TRUE
      BY <1>2
  <2>2. Moves(c) /\ call'[c] = call[c]
      BY DEF Inv, TypeOK, Moves
  <2>3. Children' = Children
      BY RowSets DEF Inv
  <2>4. \A d \in Calls : Reserving(d) =>
            /\ ({} \cup L) \cap Held(d) = {}
            /\ call[d].body.batch => batch'.status = batch.status
      BY LockedHeld DEF BatchLocked
  <2>5. KeysHeld'
      BY DEF Inv, KeysHeld
  <2>6. CallsPlaced'
      BY <2>3 DEF Inv, CallsPlaced, Placed
  <2>7. Lock(c)' /\ Held(c)' = Held(c) /\ (Reserving(c)' <=> Reserving(c))
      BY <2>2, <2>4, LockKept
  <2>8. Locks' /\ LocksApart'
    <3>1. \A d \in Calls \ {c} : Reserving(c)' /\ Reserving(d) => Held(c)' \cap Held(d) = {}
        BY <2>7 DEF Inv, LocksApart
    <3>2. QED
        BY <2>2, <2>4, <2>7, <3>1, LocksKept
  <2>9. ExcludedStaysOut'
    <3>1. \A o \in Ops : op[o].status = "expired" => op'[o].status = "expired"
        BY DEF RowsMove, Quoted
    <3>2. Children \subseteq Ops
        BY DEF Children
    <3>3. QED
        BY <2>3, <3>1, <3>2 DEF Inv, ExcludedStaysOut
  <2>10. QED
      BY <2>5, <2>6, <2>8, <2>9
<1>3. QED
    BY <1>1, <1>2

LEMMA InvSweep ==
    ASSUME Inv, Sweep
    PROVE  Inv'
<1>1. CASE \E S \in SUBSET Ops : ExpireDue(S)
  <2>1. PICK L \in SUBSET Ops : ExpireDue(L)
      BY <1>1
  <2>2. /\ L \in SUBSET Quoted /\ L \cap LockedRows = {} /\ op' = Expire(L)
        /\ UNCHANGED <<world, reserved, batch, made, call, receipt, events, told>>
      BY <2>1 DEF ExpireDue
  <2>3. RowsMove({}, L)
      BY <2>2, ExpireMoves DEF Inv
  <2>4. KeysHeld' /\ CallsPlaced' /\ Locks' /\ LocksApart' /\ ExcludedStaysOut'
      BY <2>2, <2>3, QuietKeeps DEF world
  <2>5. BatchWhole' /\ ChildrenExist'
      BY <2>2, <2>3, BatchKept
  <2>6. ReservedMatches'
      BY <2>2, <2>3, MoneyKept DEF world
  <2>7. TypeOK'
      BY <2>2, <2>3 DEF Inv, TypeOK, RowsMove, world
  <2>8. QED
      BY <2>4, <2>5, <2>6, <2>7 DEF Inv
<1>2. CASE ExpireBatch
  <2>1. /\ batch.status = "quoted" /\ ~BatchLocked /\ \A o \in Children : op[o].status = "expired"
        /\ batch' = [batch EXCEPT !.status = "expired"]
        /\ UNCHANGED <<world, reserved, op, made, call, receipt, events, told>>
      BY <1>2 DEF ExpireBatch
  <2>2. RowsMove({}, {})
      BY <2>1, NoRowMoves DEF Inv
  <2>3. Children \cap Quoted \subseteq {}
      BY <2>1 DEF Quoted
  <2>4. BatchWhole' /\ ChildrenExist' /\ batch'.status = "expired"
      BY <2>1, <2>2, <2>3, BatchExpires
  <2>5. KeysHeld' /\ CallsPlaced' /\ Locks' /\ LocksApart' /\ ExcludedStaysOut'
      BY <2>1, <2>2, <2>4, QuietKeeps DEF world
  <2>6. ReservedMatches'
      BY <2>1, <2>2, MoneyKept DEF world
  <2>7. TypeOK'
      BY <2>1 DEF Inv, TypeOK, world
  <2>8. QED
      BY <2>4, <2>5, <2>6, <2>7 DEF Inv
<1>3. QED
    BY <1>1, <1>2 DEF Sweep

(* Time passes and the world around the quotes changes. *)
LEMMA WorldKeeps ==
    ASSUME Inv, UNCHANGED Others, TypeOK', inputs' = inputs \/ ~CatalogLocked,
           reserved + other' <= Limit
    PROVE  Inv'
<1>1. UNCHANGED <<reserved, op, batch, made, call, receipt, events, told>>
    BY DEF Others
<1>2. Children' = Children /\ Quoted' = Quoted /\ Confirmed' = Confirmed
    BY <1>1 DEF Children, Quoted, Confirmed
<1>3. KeysHeld' /\ CallsPlaced'
    BY <1>1, <1>2 DEF Inv, KeysHeld, CallsPlaced, Placed
<1>4. \A c \in Calls : (Reserving(c)' <=> Reserving(c)) /\ Held(c)' = Held(c)
    BY <1>1, <1>2 DEF Reserving, Held
<1>5. Locks'
  <2>1. CASE inputs' = inputs
      BY <1>1, <1>2, <1>4, <2>1 DEF Inv, Locks, Lock
  <2>2. CASE ~CatalogLocked
      BY <1>4, <2>2 DEF CatalogLocked, Locks, Lock
  <2>3. QED
      BY <2>1, <2>2
<1>6. LocksApart'
    BY <1>4 DEF Inv, LocksApart
<1>7. ChildrenExist' /\ BatchWhole' /\ ExcludedStaysOut'
    BY <1>1, <1>2 DEF Inv, ChildrenExist, BatchWhole, ExcludedStaysOut
<1>8. ReservedMatches'
  <2>1. Amount(Confirmed)' = Amount(Confirmed)
      BY <1>1, <1>2 DEF Amount
  <2>2. QED
      BY <1>1, <2>1 DEF Inv, ReservedMatches
<1>9. QED
    BY <1>3, <1>5, <1>6, <1>7, <1>8 DEF Inv

LEMMA InvEnvironment ==
    ASSUME Inv, Environment
    PROVE  Inv'
<1>1. TypeOK /\ reserved \in Nat /\ reserved + other <= Limit
    BY DEF Inv, TypeOK, ReservedMatches
<1>2. CASE Tick
  <2>1. TypeOK' /\ UNCHANGED Others
      BY <1>1, <1>2, QuoteAssumption DEF Tick, TypeOK, Others
  <2>2. QED
      BY <1>1, <1>2, <2>1, WorldKeeps DEF Tick
<1>3. CASE PublishModelVersion
  <2>1. /\ changes' \in 0 .. MaxChanges
        /\ model.version < MaxModels /\ model' = [model EXCEPT !.version = @ + 1]
        /\ UNCHANGED <<now, prices, source, inputs, other, Others>>
      BY <1>1, <1>3, QuoteAssumption DEF PublishModelVersion, Change, TypeOK
  <2>2. model' \in [version : 1 .. MaxModels, usable : BOOLEAN]
    <3>1. model \in [version : 1 .. MaxModels, usable : BOOLEAN]
        BY <1>1 DEF TypeOK
    <3>2. model.version + 1 \in 1 .. MaxModels
        BY <2>1, <3>1, QuoteAssumption
    <3>3. QED
        BY <2>1, <3>1, <3>2, Zenon
  <2>3. QED
      BY <1>1, <2>1, <2>2, WorldKeeps DEF TypeOK, Others
<1>4. CASE UpdateProvider
  <2>1. /\ changes' \in 0 .. MaxChanges
        /\ UNCHANGED <<now, prices, source, inputs, other, Others>>
      BY <1>1, <1>4, QuoteAssumption DEF UpdateProvider, Change, TypeOK
  <2>2. model' \in [version : 1 .. MaxModels, usable : BOOLEAN]
    <3>1. model \in [version : 1 .. MaxModels, usable : BOOLEAN]
        BY <1>1 DEF TypeOK
    <3>2. model' = [model EXCEPT !.usable = ~@]
        BY <1>4 DEF UpdateProvider
    <3>3. (~model.usable) \in BOOLEAN
        BY <3>1, Zenon
    <3>4. QED
        BY <3>1, <3>2, <3>3
  <2>3. QED
      BY <1>1, <2>1, <2>2, WorldKeeps DEF TypeOK, Others
<1>5. CASE ChangeMedia
  <2>1. /\ changes' \in 0 .. MaxChanges /\ ~CatalogLocked
        /\ UNCHANGED <<now, prices, model, other, Others>>
      BY <1>1, <1>5, QuoteAssumption DEF ChangeMedia, Change, TypeOK
  <2>2. source' \in BOOLEAN /\ inputs' \in BOOLEAN
    <3>1. source \in BOOLEAN /\ inputs \in BOOLEAN
        BY <1>1 DEF TypeOK
    <3>2. QED
        BY <1>5, <3>1, Zenon DEF ChangeMedia
  <2>3. QED
      BY <1>1, <2>1, <2>2, WorldKeeps DEF TypeOK, Others
<1>6. CASE ChangeBudget
  <2>1. /\ changes' \in 0 .. MaxChanges
        /\ UNCHANGED <<now, prices, model, source, inputs, Others>>
      BY <1>1, <1>6, QuoteAssumption DEF ChangeBudget, Change, TypeOK
  <2>2. other' \in 0 .. Limit /\ reserved + other' <= Limit
      BY <1>1, <1>6, QuoteAssumption DEF ChangeBudget, TypeOK
  <2>3. QED
      BY <1>1, <2>1, <2>2, WorldKeeps DEF TypeOK, Others
<1>7. CASE \E t \in 0 .. MaxTime : PublishPriceRule(t)
  <2>1. PICK t \in 0 .. MaxTime : PublishPriceRule(t)
      BY <1>7
  <2>2. prices' \in Seq(0 .. MaxTime) /\ Len(prices') <= MaxPrices
      BY <1>1, <2>1, QuoteAssumption DEF PublishPriceRule, TypeOK
  <2>3. TypeOK' /\ UNCHANGED Others
      BY <1>1, <2>1, <2>2, QuoteAssumption DEF PublishPriceRule, Change, TypeOK, Others
  <2>4. QED
      BY <1>1, <2>1, <2>3, WorldKeeps DEF PublishPriceRule
<1>8. QED
    BY <1>2, <1>3, <1>4, <1>5, <1>6, <1>7 DEF Environment

-----------------------------------------------------------------------------
(* New quotes *)
LEMMA RowsMade ==
    ASSUME Inv, NEW items \in SUBSET Ops, NEW reused, NEW batched \in BOOLEAN, CanPrepare,
           CreateQuoteSnapshot(items, reused, batched)
    PROVE  /\ op' \in [Ops -> OpRow]
           /\ items # {} /\ items \cap (Children \cup Quoted \cup Confirmed) = {}
           /\ Quoted' = Quoted \cup items /\ Confirmed' = Confirmed
           /\ Children' = IF batched THEN Children \cup items ELSE Children
           /\ \A o \in Ops \ items : op'[o] = op[o]
           /\ \A o \in items : op'[o].status = "quoted"
           /\ Amount(Confirmed)' = Amount(Confirmed)
<1>1. /\ items # {} /\ \A o \in items : op[o].status = "absent"
      /\ op' = [o \in Ops |-> IF o \in items THEN PrepareFreeQuote(batched, o \in reused)
                               ELSE op[o]]
    BY DEF CreateQuoteSnapshot
<1>2. TypeOK /\ now \in Nat /\ now + Ttl \in 0 .. MaxTime /\ model.version \in 0 .. MaxModels
    BY QuoteAssumption DEF Inv, TypeOK, CanPrepare
<1>3. CurrentPrice(now) \in 0 .. MaxPrices
    BY <1>2, PriceExists
<1>4. \A x \in BOOLEAN :
          /\ PrepareFreeQuote(batched, x) \in OpRow
          /\ PrepareFreeQuote(batched, x).status = "quoted"
          /\ PrepareFreeQuote(batched, x).batched = batched
    BY <1>2, <1>3 DEF PrepareFreeQuote, OpRow
<1>5. \A o \in items : /\ op'[o] \in OpRow /\ op'[o].status = "quoted"
                       /\ op'[o].batched = batched
  <2>1. TAKE o \in items
  <2>2. (o \in reused) \in BOOLEAN
      OBVIOUS
  <2>3. op'[o] = PrepareFreeQuote(batched, o \in reused)
      BY <1>1
  <2>4. QED
      BY <1>4, <2>2, <2>3, Zenon
<1>6. \A o \in Ops \ items : op'[o] = op[o]
    BY <1>1
<1>7. op' \in [Ops -> OpRow]
    BY <1>1, <1>2, <1>5, <1>6 DEF TypeOK
<1>8. items \cap (Children \cup Quoted \cup Confirmed) = {}
    BY <1>1 DEF Inv, ChildrenExist, Quoted, Confirmed
<1>9. Quoted' = Quoted \cup items /\ Confirmed' = Confirmed
    BY <1>5, <1>6, <1>8 DEF Quoted, Confirmed
<1>10. Children' = IF batched THEN Children \cup items ELSE Children
    BY <1>5, <1>6, <1>8 DEF Children
<1>11. Amount(Confirmed)' = Amount(Confirmed)
  <2>1. {o \in Confirmed' : ~op'[o].reused} = {o \in Confirmed : ~op[o].reused}
      BY <1>6, <1>8, <1>9 DEF Confirmed
  <2>2. QED
      BY <2>1 DEF Amount
<1>12. QED
    BY <1>1, <1>5, <1>6, <1>7, <1>8, <1>9, <1>10, <1>11

LEMMA InvCreate ==
    ASSUME Inv, NEW items \in SUBSET Ops, NEW reused, NEW batched \in BOOLEAN, CanPrepare,
           CreateQuoteSnapshot(items, reused, batched),
           batched => batch.status = "absent" /\ batch'.status = "quoted",
           ~batched => UNCHANGED batch,
           batch' \in [status : {"absent", "quoted", "expired", "confirmed"}, total : Nat],
           NEW k \in QuoteKeys, made' = [made EXCEPT ![k] = @ \cup items],
           UNCHANGED <<world, reserved, call, receipt, events, told>>
    PROVE  Inv'
<1>1. /\ op' \in [Ops -> OpRow]
      /\ items # {} /\ items \cap (Children \cup Quoted \cup Confirmed) = {}
      /\ Quoted' = Quoted \cup items /\ Confirmed' = Confirmed
      /\ Children' = IF batched THEN Children \cup items ELSE Children
      /\ \A o \in Ops \ items : op'[o] = op[o]
      /\ \A o \in items : op'[o].status = "quoted"
      /\ Amount(Confirmed)' = Amount(Confirmed)
    BY RowsMade
<1>2. batched => \A c \in Calls : call[c].pc # "idle" => ~call[c].body.batch
    BY DEF Inv, CallsPlaced, Placed
<1>3. batched => Children = {}
    BY DEF Inv, ChildrenExist
<1>4. UNCHANGED <<call, receipt, inputs, other, reserved>>
    BY DEF world
<1>5. TypeOK'
    BY <1>1 DEF Inv, TypeOK, world
<1>6. KeysHeld'
    BY <1>4 DEF Inv, KeysHeld
<1>7. CallsPlaced'
    BY <1>1, <1>4 DEF Inv, CallsPlaced, Placed
<1>8. \A c \in Calls : (Reserving(c)' <=> Reserving(c)) /\ (Reserving(c) => Held(c)' = Held(c))
    BY <1>1, <1>2, <1>4 DEF Reserving, Held
<1>9. Locks'
  <2>1. SUFFICES ASSUME NEW c \in Calls, Reserving(c) PROVE Lock(c)'
      BY <1>8 DEF Locks, Lock
  <2>2. Lock(c)
      BY DEF Inv, Locks
  <2>3. CASE call[c].body.batch
    <3>1. ~batched
        BY <1>2, <2>1, <2>3 DEF Reserving
    <3>2. Children' = Children /\ Children' \cap Quoted' = Children \cap Quoted /\ batch' = batch
        BY <1>1, <3>1
    <3>3. QED
        BY <1>1, <1>4, <2>1, <2>2, <2>3, <3>2 DEF Lock
  <2>4. CASE ~call[c].body.batch
    <3>1. call[c].selected \subseteq Quoted /\ call[c].selected \cap Children = {}
        BY <2>1, <2>2, <2>4 DEF Lock
    <3>2. call[c].selected \cap Children' = {}
        BY <1>1, <3>1
    <3>3. QED
        BY <1>1, <1>4, <2>1, <2>2, <2>4, <3>1, <3>2 DEF Lock
  <2>5. QED
      BY <2>3, <2>4
<1>10. LocksApart'
    BY <1>8 DEF Inv, LocksApart
<1>11. ChildrenExist'
  <2>1. \A o \in Children' : op'[o].status # "absent"
      BY <1>1 DEF Inv, ChildrenExist, Children
  <2>2. batch'.status = "absent" => Children' = {}
      BY <1>1 DEF Inv, ChildrenExist
  <2>3. QED
      BY <2>1, <2>2 DEF ChildrenExist
<1>12. BatchWhole'
  <2>1. CASE batched
    <3>1. Children' \cap Confirmed' = {}
        BY <1>1, <1>3, <2>1
    <3>2. QED
        BY <2>1, <3>1 DEF BatchWhole
  <2>2. CASE ~batched
    <3>1. Children' \cap Confirmed' = Children \cap Confirmed
          /\ Children' \cap Quoted' = Children \cap Quoted
        BY <1>1, <2>2
    <3>2. QED
        BY <2>2, <3>1 DEF Inv, BatchWhole
  <2>3. QED
      BY <2>1, <2>2
<1>13. ExcludedStaysOut'
  <2>1. SUFFICES ASSUME NEW c \in Calls, call[c].pc \in {"removed", "reserving", "stale"},
                        call[c].body.batch, NEW o \in Children' \cap call[c].excluded
                 PROVE  op'[o].status = "expired"
      BY <1>4 DEF ExcludedStaysOut
  <2>2. ~batched
      BY <1>2, <2>1
  <2>3. o \in Children \cap call[c].excluded /\ o \in Ops \ items
      BY <1>1, <2>1, <2>2 DEF Children
  <2>4. op[o].status = "expired"
      BY <2>1, <2>3 DEF Inv, ExcludedStaysOut
  <2>5. QED
      BY <1>1, <2>3, <2>4
<1>14. ReservedMatches'
    BY <1>1, <1>4 DEF Inv, ReservedMatches
<1>15. QED
    BY <1>5, <1>6, <1>7, <1>9, <1>10, <1>11, <1>12, <1>13, <1>14 DEF Inv

LEMMA InvCreateFreeQuote ==
    ASSUME Inv, NEW k \in QuoteKeys, NEW o \in Ops, CreateFreeQuote(k, o)
    PROVE  Inv'
<1>1. PICK reused : CreateQuoteSnapshot({o}, reused, FALSE)
    BY DEF CreateFreeQuote
<1>2. /\ {o} \in SUBSET Ops /\ CanPrepare /\ made' = [made EXCEPT ![k] = @ \cup {o}]
      /\ UNCHANGED <<world, reserved, batch, call, receipt, events, told>>
      /\ FALSE \in BOOLEAN
    BY DEF CreateFreeQuote
<1>3. batch' \in [status : {"absent", "quoted", "expired", "confirmed"}, total : Nat]
    BY <1>2 DEF Inv, TypeOK
<1> DEFINE items == {o}  batched == FALSE
<1>4. /\ items \in SUBSET Ops /\ batched \in BOOLEAN
      /\ CreateQuoteSnapshot(items, reused, batched)
      /\ made' = [made EXCEPT ![k] = @ \cup items]
      /\ batched => batch.status = "absent" /\ batch'.status = "quoted"
      /\ ~batched => UNCHANGED batch
    BY <1>1, <1>2
<1> HIDE DEF items, batched
<1>5. QED
    BY <1>2, <1>3, <1>4, InvCreate

LEMMA InvCreateBatchFreeQuote ==
    ASSUME Inv, NEW k \in QuoteKeys, NEW valid \in SUBSET Ops, CreateBatchFreeQuote(k, valid)
    PROVE  Inv'
<1>1. PICK reused : CreateQuoteSnapshot(valid, reused, TRUE)
    BY DEF CreateBatchFreeQuote
<1>2. /\ CanPrepare /\ made' = [made EXCEPT ![k] = @ \cup valid] /\ batch.status = "absent"
      /\ batch' = [status |-> "quoted", total |-> Cardinality(valid)]
      /\ UNCHANGED <<world, reserved, call, receipt, events, told>>
    BY DEF CreateBatchFreeQuote
<1>3. Cardinality(valid) \in Nat
    BY QuoteAssumption, FS_Subset, FS_CardinalityType
<1>4. batch' \in [status : {"absent", "quoted", "expired", "confirmed"}, total : Nat]
    BY <1>2, <1>3
<1> DEFINE batched == TRUE
<1>5. /\ batched \in BOOLEAN /\ CreateQuoteSnapshot(valid, reused, batched)
      /\ batched => batch.status = "absent" /\ batch'.status = "quoted"
      /\ ~batched => UNCHANGED batch
    BY <1>1, <1>2
<1> HIDE DEF batched
<1>6. QED
    BY <1>2, <1>4, <1>5, InvCreate

-----------------------------------------------------------------------------
(* The invariant *)

LEMMA NothingCounted ==
    ASSUME op = [o \in Ops |-> [status |-> "absent", batched |-> FALSE, price |-> 0, model |-> 0,
                                expires |-> 0, reused |-> FALSE]]
    PROVE  Children = {} /\ Quoted = {} /\ Confirmed = {} /\ Amount(Confirmed) = 0
<1>1. Children = {} /\ Quoted = {} /\ Confirmed = {}
    BY DEF Children, Quoted, Confirmed
<1>2. {o \in Confirmed : ~op[o].reused} = {}
    BY <1>1
<1>3. QED
    BY <1>1, <1>2, FS_EmptySet DEF Amount

LEMMA InvInit == Init => Inv
<1> SUFFICES ASSUME Init PROVE Inv
    OBVIOUS
<1>1. /\ now = 0 /\ prices = <<0>> /\ model = [version |-> 1, usable |-> TRUE]
      /\ source = TRUE /\ inputs = TRUE /\ other = 0 /\ changes = 0 /\ reserved = 0
      /\ batch = [status |-> "absent", total |-> 0] /\ made = [k \in QuoteKeys |-> {}]
      /\ call = [c \in Calls |-> NoCall] /\ receipt = [k \in Keys |-> NoOutcome]
      /\ events = {} /\ told = {}
    BY DEF Init
<1>2. Children = {} /\ Quoted = {} /\ Confirmed = {} /\ Amount(Confirmed) = 0
    BY NothingCounted DEF Init
<1>3. op \in [Ops -> OpRow]
    BY QuoteAssumption DEF Init, OpRow
<1>4. TypeOK
  <2>1. call \in [Calls -> CallRow]
      BY <1>1, NoCallTyped
  <2>2. prices \in Seq(0 .. MaxTime) /\ Len(prices) <= MaxPrices
      BY <1>1, QuoteAssumption
  <2>3. model \in [version : 1 .. MaxModels, usable : BOOLEAN]
      BY <1>1, QuoteAssumption
  <2>4. QED
      BY <1>1, <1>3, <2>1, <2>2, <2>3, QuoteAssumption DEF TypeOK
<1>5. \A c \in Calls : call[c].pc = "idle"
    BY <1>1 DEF NoCall
<1>6. KeysHeld /\ CallsPlaced /\ Locks /\ LocksApart /\ ExcludedStaysOut
    BY <1>5 DEF KeysHeld, CallsPlaced, Placed, Locks, Lock, LocksApart, Reserving,
               ExcludedStaysOut
<1>7. ChildrenExist /\ BatchWhole
    BY <1>1, <1>2 DEF ChildrenExist, BatchWhole
<1>8. ReservedMatches
    BY <1>1, <1>2, QuoteAssumption DEF ReservedMatches
<1>9. QED
    BY <1>4, <1>6, <1>7, <1>8 DEF Inv

LEMMA InvReplay ==
    ASSUME Inv, NEW c \in Calls, NEW k \in Keys, NEW b \in Bodies, ReplayOutcome(c, k, b)
    PROVE  Inv'
<1>1. /\ receipt[k] # NoOutcome /\ told' = told \cup {<<k, b, receipt[k].answer>>}
      /\ UNCHANGED <<world, reserved, op, batch, made, call, receipt, events>>
    BY DEF ReplayOutcome
<1>2. receipt[k].answer \in Codes
    BY <1>1 DEF Inv, TypeOK
<1>3. told' \subseteq Keys \X Bodies \X Codes
    BY <1>1, <1>2 DEF Inv, TypeOK
<1>4. Inv /\ UNCHANGED <<now, prices, model, source, inputs, other, changes, reserved, op, batch,
                         made, call, receipt, events>>
    BY <1>1 DEF world
<1>5. TypeOK'
    BY <1>3, <1>4 DEF Inv, TypeOK
<1>6. RowsMove({}, {})
    BY <1>4, NoRowMoves DEF Inv
<1>7. KeysHeld' /\ CallsPlaced' /\ Locks' /\ LocksApart' /\ ExcludedStaysOut'
    BY <1>4, <1>6, QuietKeeps
<1>8. BatchWhole' /\ ChildrenExist'
    BY <1>4, <1>6, BatchKept
<1>9. ReservedMatches'
    BY <1>4, <1>6, MoneyKept
<1>10. QED
    BY <1>5, <1>7, <1>8, <1>9 DEF Inv

LEMMA InvStep ==
    ASSUME Inv, NEW c \in Calls, Step(c)
    PROVE  Inv'
    BY InvCheckSingle, InvReserveSingle, InvRemoveItems, InvSelectItems, InvReserveBatch,
       InvPersistStaleItems, InvRecord DEF Step

LEMMA InvNext ==
    ASSUME Inv, Next
    PROVE  Inv'
<1>1. CASE \E k \in QuoteKeys, o \in Ops : CreateFreeQuote(k, o)
    BY <1>1, InvCreateFreeQuote
<1>2. CASE \E k \in QuoteKeys, S \in SUBSET Ops : CreateBatchFreeQuote(k, S)
    BY <1>2, InvCreateBatchFreeQuote
<1>3. CASE \E c \in Calls, k \in Keys, b \in Bodies : BeginConfirmation(c, k, b)
    BY <1>3, InvBegin
<1>4. CASE \E c \in Calls, k \in Keys, b \in Bodies : ReplayOutcome(c, k, b)
    BY <1>4, InvReplay
<1>5. CASE \E c \in Calls : Step(c)
    BY <1>5, InvStep
<1>6. CASE \E c \in Calls : Crash(c)
    BY <1>6, InvCrash
<1>7. CASE Sweep
    BY <1>7, InvSweep
<1>8. CASE Environment
    BY <1>8, InvEnvironment
<1>9. QED
    BY <1>1, <1>2, <1>3, <1>4, <1>5, <1>6, <1>7, <1>8 DEF Next

LEMMA InvStutter ==
    ASSUME Inv, UNCHANGED vars
    PROVE  Inv'
    BY DEF vars, Inv, TypeOK, KeysHeld, CallsPlaced, Placed, Locks, Lock, LocksApart, ChildrenExist,
           ReservedMatches, BatchWhole, ExcludedStaysOut, Reserving, Held, Children, Quoted,
           Confirmed, Amount

LEMMA Invariance == Spec => []Inv
<1>1. Inv /\ [Next]_vars => Inv'
    BY InvNext, InvStutter
<1>2. QED
    BY InvInit, <1>1, PTL DEF Spec

-----------------------------------------------------------------------------
(* The theorems *)

(* Whatever calls crash, wait or repeat themselves, the rows, the receipts  *)
(* and the outbox are of their types.                                       *)
THEOREM QuoteTypeCorrect == Spec => []TypeOK
<1>1. Inv => TypeOK
    BY DEF Inv
<1>2. QED
    BY <1>1, Invariance, PTL

(* What is reserved is what the confirmed operations were quoted, within    *)
(* the limit; a batch is confirmed whole or not at all, and what a client   *)
(* excluded is never confirmed with it.                                     *)
THEOREM QuoteConfirmedWhole == Spec => []ConfirmedWhole
<1>1. Inv => ConfirmedWhole
    BY DEF Inv, ConfirmedWhole
<1>2. QED
    BY <1>1, Invariance, PTL

-----------------------------------------------------------------------------
(* Only a reservation confirms. *)
Confirms(o) == op[o].status = "quoted" /\ op'[o].status = "confirmed"

LEMMA ExpireConfirmsNone ==
    ASSUME TypeOK, NEW S, op' = Expire(S), NEW o \in Ops
    PROVE  ~Confirms(o)
    BY DEF Expire, TypeOK, OpRow, Confirms

LEMMA StepConfirms ==
    ASSUME Inv, NEW c \in Calls, Step(c), NEW o \in Ops, Confirms(o)
    PROVE  /\ Reserving(c) /\ o \in call[c].selected
           /\ \A p \in call[c].selected : Fresh(p)
<1>1. TypeOK
    BY DEF Inv
<1>2. CASE CheckSingle(c)
  <2>1. UNCHANGED op \/ op' = Expire({TheOp(c)})
      BY <1>2 DEF CheckSingle
  <2>2. QED
      BY <1>1, <2>1, ExpireConfirmsNone DEF Confirms
<1>3. CASE RemoveItems(c)
  <2>1. UNCHANGED op
        \/ op' = Expire({p \in Children \cap Quoted : p \in call[c].body.ops \/ ~Fresh(p)})
      BY <1>3 DEF RemoveItems
  <2>2. QED
      BY <1>1, <2>1, ExpireConfirmsNone DEF Confirms
<1>4. CASE SelectItems(c)
  <2>1. UNCHANGED op \/ op' = Expire({p \in Children \cap Quoted : ~Fresh(p)})
      BY <1>4 DEF SelectItems
  <2>2. QED
      BY <1>1, <2>1, ExpireConfirmsNone DEF Confirms
<1>5. CASE PersistStaleItems(c)
  <2>1. UNCHANGED op \/ op' = Expire({p \in call[c].late \cap Quoted : ~Fresh(p)})
      BY <1>5 DEF PersistStaleItems
  <2>2. QED
      BY <1>1, <2>1, ExpireConfirmsNone DEF Confirms
<1>6. CASE RecordRejection(c)
    BY <1>6 DEF RecordRejection, Confirms
<1>7. CASE ReserveSingle(c)
  <2>1. op' # op
      BY DEF Confirms
  <2>2. /\ Reserving(c) /\ op' = Confirm(call[c].selected)
        /\ \A p \in call[c].selected : FreshAfterBudget(p)
      BY <1>7, <2>1 DEF ReserveSingle
  <2>3. o \in call[c].selected
      BY <1>1, <2>2 DEF Confirm, Confirms, TypeOK
  <2>4. QED
      BY <2>2, <2>3 DEF FreshAfterBudget
<1>8. CASE ReserveBatch(c)
  <2>1. op' # op
      BY DEF Confirms
  <2>2. /\ Reserving(c)
        /\ op' = [p \in Ops |-> IF p \in call[c].late THEN [op[p] EXCEPT !.status = "expired"]
                                ELSE Confirm(call[c].selected)[p]]
        /\ {p \in call[c].selected : ~FreshAfterBudget(p)} = {}
      BY <1>8, <2>1 DEF ReserveBatch, FailReservation
  <2>3. o \in call[c].selected
      BY <1>1, <2>2 DEF Confirm, Confirms, TypeOK, OpRow
  <2>4. QED
      BY <2>2, <2>3 DEF FreshAfterBudget
<1>9. QED
    BY <1>2, <1>3, <1>4, <1>5, <1>6, <1>7, <1>8 DEF Step

LEMMA OtherStepsConfirmNone ==
    ASSUME Inv, NEW o \in Ops, Confirms(o), Next
    PROVE  \E c \in Calls : Step(c)
<1>1. TypeOK
    BY DEF Inv
<1>2. op' # op
    BY DEF Confirms
<1>3. ASSUME NEW items, NEW reused, NEW batched, CreateQuoteSnapshot(items, reused, batched)
      PROVE  FALSE
    BY <1>1, <1>3 DEF CreateQuoteSnapshot, PrepareFreeQuote, Confirms, TypeOK
<1>4. CASE \E k \in QuoteKeys, p \in Ops : CreateFreeQuote(k, p)
    BY <1>3, <1>4 DEF CreateFreeQuote
<1>5. CASE \E k \in QuoteKeys, S \in SUBSET Ops : CreateBatchFreeQuote(k, S)
    BY <1>3, <1>5 DEF CreateBatchFreeQuote
<1>6. CASE \E c \in Calls, k \in Keys, b \in Bodies : BeginConfirmation(c, k, b)
    BY <1>2, <1>6 DEF BeginConfirmation
<1>7. CASE \E c \in Calls, k \in Keys, b \in Bodies : ReplayOutcome(c, k, b)
    BY <1>2, <1>7 DEF ReplayOutcome
<1>8. CASE \E c \in Calls : Crash(c)
    BY <1>2, <1>8 DEF Crash
<1>9. CASE Sweep
    BY <1>1, <1>2, <1>9, ExpireConfirmsNone DEF Sweep, ExpireDue, ExpireBatch
<1>10. CASE Environment
    BY <1>2, <1>10 DEF Environment, Tick, PublishModelVersion, UpdateProvider, ChangeMedia,
                       ChangeBudget, PublishPriceRule, Others
<1>11. QED
    BY <1>4, <1>5, <1>6, <1>7, <1>8, <1>9, <1>10 DEF Next

(* However long a confirmation waited for the budget, what it confirms is   *)
(* valid at that instant, at the price and model version of that instant,   *)
(* with inputs and a reused result that can still be used.                  *)
THEOREM QuoteConfirmedWhileFresh == Spec => ConfirmedWhileFresh
<1>1. ASSUME Inv, [Next]_vars, NEW o \in Ops, op[o].status = "quoted",
             op'[o].status = "confirmed"
      PROVE  /\ now < op[o].expires
             /\ model.usable /\ model.version = op[o].model
             /\ CurrentPrice(now) = op[o].price
             /\ inputs /\ (op[o].reused => source)
  <2>1. Next /\ Confirms(o)
      BY <1>1 DEF vars, Confirms
  <2>2. PICK c \in Calls : Step(c)
      BY <1>1, <2>1, OtherStepsConfirmNone
  <2>3. Reserving(c) /\ Fresh(o)
      BY <1>1, <2>1, <2>2, StepConfirms
  <2>4. inputs
      BY <1>1, <2>3 DEF Inv, Locks, Lock
  <2>5. QED
      BY <2>3, <2>4 DEF Fresh, ReadReuseSourceAvailable
<1>2. Inv /\ [Next]_vars =>
        [\A o \in Ops : op[o].status = "quoted" /\ op'[o].status = "confirmed" =>
           /\ now < op[o].expires
           /\ model.usable /\ model.version = op[o].model
           /\ CurrentPrice(now) = op[o].price
           /\ inputs /\ (op[o].reused => source)]_vars
    BY <1>1
<1>3. QED
    BY <1>2, Invariance, PTL DEF Spec, ConfirmedWhileFresh

-----------------------------------------------------------------------------
(* Receipts *)

LEMMA DecidesOutcome ==
    ASSUME Inv, NEW c \in Calls, call[c].pc # "idle", NEW code \in Codes,
           receipt' = [receipt EXCEPT ![call[c].key] = [body |-> call[c].body, answer |-> code]],
           told' \in {told, told \cup {<<call[c].key, call[c].body, code>>}}
    PROVE  \E k \in Keys : FO!Decide(k)
<1> DEFINE k == call[c].key  o == [body |-> call[c].body, answer |-> code]
<1>1. k \in Keys /\ o \in [body : Bodies, answer : Codes]
    BY DEF Inv, TypeOK, CallRow
<1>2. receipt[k] = NoOutcome
    BY DEF Inv, KeysHeld
<1>3. receipt' = [receipt EXCEPT ![k] = o] /\ told' \in {told, told \cup {<<k, o.body, o.answer>>}}
    OBVIOUS
<1> HIDE DEF k, o
<1>4. QED
    BY <1>1, <1>2, <1>3 DEF FO!Decide

LEMMA StepDecides ==
    ASSUME Inv, NEW c \in Calls, Step(c)
    PROVE  UNCHANGED <<receipt, told>> \/ \E k \in Keys : FO!Decide(k)
<1>1. \A x \in {"ok"} : x \in Codes
    BY DEF Codes
<1>2. CASE RecordRejection(c)
  <2>1. call[c].code \in Codes /\ call[c].pc # "idle"
      BY <1>2 DEF Inv, TypeOK, CallRow, RecordRejection
  <2>2. QED
      BY <1>2, <2>1, DecidesOutcome DEF RecordRejection
<1>3. ASSUME NEW S, NEW n, Succeed(c, S, n), Reserving(c)
      PROVE  \E k \in Keys : FO!Decide(k)
  <2>1. /\ call[c].pc # "idle" /\ "ok" \in Codes
        /\ receipt' = [receipt EXCEPT ![call[c].key] = [body |-> call[c].body, answer |-> "ok"]]
        /\ told' \in {told, told \cup {<<call[c].key, call[c].body, "ok">>}}
      BY <1>3 DEF Succeed, Reserving, Codes
  <2>2. QED
      BY <2>1, DecidesOutcome
<1>4. CASE ReserveSingle(c)
    BY <1>3, <1>4 DEF ReserveSingle
<1>5. CASE ReserveBatch(c)
    BY <1>3, <1>5 DEF ReserveBatch, FailReservation
<1>6. CASE CheckSingle(c) \/ RemoveItems(c) \/ SelectItems(c) \/ PersistStaleItems(c)
    BY <1>6 DEF CheckSingle, RemoveItems, SelectItems, PersistStaleItems
<1>7. QED
    BY <1>2, <1>4, <1>5, <1>6 DEF Step

LEMMA ReplayRepeats ==
    ASSUME NEW c \in Calls, NEW k \in Keys, NEW b \in Bodies, ReplayOutcome(c, k, b)
    PROVE  FO!Repeat(k)
    BY DEF ReplayOutcome, FO!Repeat

LEMMA OthersDecideNothing ==
    ASSUME Next
    PROVE  \/ UNCHANGED <<receipt, told>>
           \/ \E c \in Calls : Step(c)
           \/ \E c \in Calls, k \in Keys, b \in Bodies : ReplayOutcome(c, k, b)
    BY DEF Next, CreateFreeQuote, CreateBatchFreeQuote, BeginConfirmation, Crash, Sweep, ExpireDue,
           ExpireBatch, Environment, Tick, PublishModelVersion, UpdateProvider, ChangeMedia,
           ChangeBudget, PublishPriceRule, Others

-----------------------------------------------------------------------------
(* Receipts and events: a success has one of each. *)

(* What is rejected, or waits to be, is rejected for a reason. *)
Refused(c) == call[c].pc \in {"stale", "rejected"} => call[c].code # "ok"
CodesMeant == \A c \in Calls : Refused(c)

LEMMA CodesKept ==
    ASSUME CodesMeant, NEW c \in Calls, Moves(c),
           call'[c].pc \in {"stale", "rejected"} => call'[c].code # "ok"
    PROVE  CodesMeant'
    BY DEF CodesMeant, Refused, Moves

LEMMA RejectRefuses ==
    ASSUME Inv, CodesMeant, NEW c \in Calls, NEW code \in Codes \ {"ok"}, call' = Reject(c, code)
    PROVE  CodesMeant'
<1>1. Moves(c) /\ call'[c].code = code
    BY RejectMoves DEF Inv
<1>2. QED
    BY <1>1, CodesKept

LEMMA IdleRefuses ==
    ASSUME Inv, CodesMeant, NEW c \in Calls, call' = Idle(c)
    PROVE  CodesMeant'
<1>1. Moves(c) /\ call'[c].pc = "idle"
    BY IdleMoves DEF Inv
<1>2. QED
    BY <1>1, CodesKept

LEMMA FailRefuses ==
    ASSUME Inv, CodesMeant, NEW c \in Calls, NEW code \in Codes \ {"ok"}, NEW stale \in SUBSET Ops,
           FailReservation(c, stale, code)
    PROVE  CodesMeant'
<1>1. CASE call' = Reject(c, code)
    BY <1>1, RejectRefuses
<1>2. CASE call' = [call EXCEPT ![c].pc = "stale", ![c].code = code,
                                ![c].selected = {}, ![c].late = stale]
  <2>1. call' = GoStale(c, code, stale)
      BY <1>2 DEF GoStale
  <2>2. Moves(c) /\ call'[c].code = code
      BY <2>1, StaleMoves DEF Inv
  <2>3. QED
      BY <2>2, CodesKept
<1>3. QED
    BY <1>1, <1>2 DEF FailReservation

LEMMA StepRefuses ==
    ASSUME Inv, CodesMeant, NEW c \in Calls, Step(c)
    PROVE  CodesMeant'
<1>1. {"quote_expired", "budget_insufficient", "state_conflict"} = Codes \ {"ok"}
    BY DEF Codes
<1>2. call[c].selected \in SUBSET Ops /\ call[c].late \in SUBSET Ops /\ call[c].code \in Codes
    BY DEF Inv, TypeOK, CallRow
<1>3. CASE CheckSingle(c)
  <2>1. TheOp(c) \in Ops
    <3>1. call[c].body \in Bodies /\ ~call[c].body.batch
        BY <1>3 DEF Inv, TypeOK, CallRow, CheckSingle
    <3>2. QED
        BY <3>1, QuoteAssumption DEF TheOp
  <2>2. CASE call' = LockOne(c, {TheOp(c)})
    <3>1. {TheOp(c)} \in SUBSET Ops
        BY <2>1
    <3>2. Moves(c) /\ call'[c].pc = "reserving"
        BY <2>2, <3>1, LockSingleMoves DEF Inv
    <3>3. QED
        BY <3>2, CodesKept
  <2>3. \/ call' = Reject(c, "state_conflict") \/ call' = Reject(c, "quote_expired")
        \/ call' = LockOne(c, {TheOp(c)}) \/ call' = Idle(c)
      BY <1>3 DEF CheckSingle, LockOne
  <2>4. QED
      BY <1>1, <2>2, <2>3, RejectRefuses, IdleRefuses
<1>4. CASE RemoveItems(c)
  <2>1. \/ call' = Reject(c, "state_conflict") \/ call' = Idle(c)
        \/ call' = Goto(c, "removed")
      BY <1>4 DEF RemoveItems
  <2>2. CASE call' = Goto(c, "removed")
    <3>1. Moves(c) /\ call'[c].pc = "removed"
        BY <2>2, GotoMoves DEF Inv
    <3>2. QED
        BY <3>1, CodesKept
  <2>3. QED
      BY <1>1, <2>1, <2>2, RejectRefuses, IdleRefuses
<1>5. CASE SelectItems(c)
  <2> DEFINE S == {o \in Children \cap Quoted : Fresh(o)}
             L == {o \in Children \cap Quoted : ~Fresh(o)}
  <2>1. S \in SUBSET Ops /\ L \in SUBSET Ops
      BY DEF Quoted
  <2>2. \/ call' = Reject(c, "state_conflict") \/ call' = Reject(c, "quote_expired")
        \/ call' = LockAll(c, S, L) \/ call' = Idle(c)
      BY <1>5 DEF SelectItems, LockAll
  <2> HIDE DEF S, L
  <2>3. CASE call' = LockAll(c, S, L)
    <3>1. Moves(c) /\ call'[c].pc = "reserving"
        BY <2>1, <2>3, LockMoves DEF Inv
    <3>2. QED
        BY <3>1, CodesKept
  <2>4. QED
      BY <1>1, <2>2, <2>3, RejectRefuses, IdleRefuses
<1>6. CASE ReserveSingle(c)
  <2>1. \/ call' = Reject(c, "budget_insufficient") \/ call' = Reject(c, "quote_expired")
        \/ call' = Idle(c)
      BY <1>6 DEF ReserveSingle
  <2>2. QED
      BY <1>1, <2>1, RejectRefuses, IdleRefuses
<1>7. CASE ReserveBatch(c)
  <2>1. \/ FailReservation(c, call[c].late, "budget_insufficient")
        \/ \E o \in call[c].selected : FailReservation(c, call[c].late \cup {o}, "quote_expired")
        \/ call' = Idle(c)
      BY <1>7 DEF ReserveBatch
  <2>2. \A o \in call[c].selected : call[c].late \cup {o} \in SUBSET Ops
      BY <1>2
  <2>3. QED
      BY <1>1, <1>2, <2>1, <2>2, FailRefuses, IdleRefuses
<1>8. CASE PersistStaleItems(c)
  <2>1. call' = Reject(c, call[c].code) /\ call[c].code # "ok"
      BY <1>8 DEF PersistStaleItems, CodesMeant, Refused
  <2>2. QED
      BY <1>2, <2>1, RejectRefuses
<1>9. CASE RecordRejection(c)
    BY <1>9, IdleRefuses DEF RecordRejection
<1>10. QED
    BY <1>3, <1>4, <1>5, <1>6, <1>7, <1>8, <1>9 DEF Step

LEMMA OthersRefuse ==
    ASSUME Inv, CodesMeant, Next
    PROVE  CodesMeant'
<1>1. CASE \E c \in Calls : Step(c)
    BY <1>1, StepRefuses
<1>2. CASE \E c \in Calls : Crash(c)
    BY <1>2, IdleRefuses DEF Crash
<1>3. CASE \E c \in Calls, k \in Keys, b \in Bodies : BeginConfirmation(c, k, b)
  <2>1. PICK c \in Calls, k \in Keys, b \in Bodies : BeginConfirmation(c, k, b)
      BY <1>3
  <2> DEFINE X == IF b.batch THEN b.ops ELSE {}
  <2>2. call' = Begun(c, k, b, X) /\ X \in SUBSET Ops
      BY <2>1, QuoteAssumption DEF BeginConfirmation, Begun
  <2> HIDE DEF X
  <2>3. Moves(c) /\ call'[c].pc = "locked"
      BY <2>2, BeginMoves DEF Inv
  <2>4. QED
      BY <2>3, CodesKept
<1>4. CASE UNCHANGED call
    BY <1>4 DEF CodesMeant, Refused
<1>5. QED
    BY <1>1, <1>2, <1>3, <1>4
       DEF Next, CreateFreeQuote, CreateBatchFreeQuote, ReplayOutcome, Sweep, ExpireDue,
           ExpireBatch, Environment, Tick, PublishModelVersion, UpdateProvider, ChangeMedia,
           ChangeBudget, PublishPriceRule, Others

(* The events of a request. *)
EventsOf(k) == {e \in events : e.key = k}

LEMMA RecordsKept ==
    ASSUME SuccessIsRecorded, UNCHANGED <<receipt, events>>
    PROVE  SuccessIsRecorded'
    BY DEF SuccessIsRecorded

LEMMA KeyUnused ==
    ASSUME Inv, SuccessIsRecorded, NEW c \in Calls, call[c].pc # "idle"
    PROVE  /\ call[c].key \in Keys /\ receipt[call[c].key] = NoOutcome
           /\ \A e \in events : e.key \in Keys \ {call[c].key}
           /\ receipt \in [Keys -> [body : Bodies, answer : Codes] \cup {NoOutcome}]
           /\ call[c].body \in Bodies /\ call[c].code \in Codes
<1>1. /\ call[c].key \in Keys /\ call[c].body \in Bodies /\ call[c].code \in Codes
      /\ \A e \in events : e.key \in Keys
      /\ receipt \in [Keys -> [body : Bodies, answer : Codes] \cup {NoOutcome}]
    BY DEF Inv, TypeOK, CallRow
<1>2. receipt[call[c].key] = NoOutcome
    BY DEF Inv, KeysHeld
<1>3. QED
    BY <1>1, <1>2 DEF SuccessIsRecorded

LEMMA SucceedRecords ==
    ASSUME Inv, SuccessIsRecorded, NEW c \in Calls, Reserving(c), NEW S, NEW n, Succeed(c, S, n)
    PROVE  SuccessIsRecorded'
<1> DEFINE key == call[c].key
           event == [key |-> key, batch |-> call[c].body.batch, confirmed |-> S,
                     expiredCount |-> n]
           r == [body |-> call[c].body, answer |-> "ok"]
<1>1. /\ key \in Keys /\ receipt[key] = NoOutcome /\ \A e \in events : e.key \in Keys \ {key}
      /\ receipt \in [Keys -> [body : Bodies, answer : Codes] \cup {NoOutcome}]
    BY KeyUnused DEF Reserving
<1>2. /\ receipt' = [receipt EXCEPT ![key] = r] /\ events' = events \cup {event}
      /\ event.key = key /\ r.answer = "ok"
    BY DEF Succeed
<1>3. r # NoOutcome
  <2>1. r \in [body : Bodies, answer : Codes]
      BY KeyUnused DEF Reserving, Codes
  <2>2. QED
      BY <2>1, QuoteAssumption
<1> HIDE DEF key, event, r
<1>4. receipt'[key] = r /\ \A k \in Keys \ {key} : receipt'[k] = receipt[k]
    BY <1>1, <1>2
<1>5. \A e \in events' : receipt'[e.key] # NoOutcome /\ receipt'[e.key].answer = "ok"
    BY <1>1, <1>2, <1>3, <1>4 DEF SuccessIsRecorded
<1>6. ASSUME NEW k \in Keys, receipt'[k] # NoOutcome, receipt'[k].answer = "ok"
      PROVE  Cardinality({e \in events' : e.key = k}) = 1
  <2>1. CASE k = key
    <3>1. {e \in events' : e.key = k} = {event}
        BY <1>1, <1>2, <2>1
    <3>2. QED
        BY <3>1, FS_Singleton
  <2>2. CASE k # key
    <3>1. {e \in events' : e.key = k} = {e \in events : e.key = k}
        BY <1>2, <2>2
    <3>2. receipt[k] # NoOutcome /\ receipt[k].answer = "ok"
        BY <1>4, <1>6, <2>2
    <3>3. QED
        BY <3>1, <3>2 DEF SuccessIsRecorded
  <2>3. QED
      BY <2>1, <2>2
<1>7. QED
    BY <1>5, <1>6 DEF SuccessIsRecorded

LEMMA RejectionRecords ==
    ASSUME Inv, CodesMeant, SuccessIsRecorded, NEW c \in Calls, RecordRejection(c)
    PROVE  SuccessIsRecorded'
<1> DEFINE key == call[c].key
           r == [body |-> call[c].body, answer |-> call[c].code]
<1>1. /\ call[c].pc = "rejected" /\ receipt' = [receipt EXCEPT ![key] = r] /\ events' = events
    BY DEF RecordRejection
<1>2. r.answer # "ok"
    BY <1>1 DEF CodesMeant, Refused
<1>3. /\ key \in Keys /\ receipt[key] = NoOutcome /\ \A e \in events : e.key \in Keys \ {key}
      /\ receipt \in [Keys -> [body : Bodies, answer : Codes] \cup {NoOutcome}]
    BY <1>1, KeyUnused
<1> HIDE DEF key, r
<1>4. receipt'[key] = r /\ \A k \in Keys \ {key} : receipt'[k] = receipt[k]
    BY <1>1, <1>3
<1>5. \A e \in events' : receipt'[e.key] # NoOutcome /\ receipt'[e.key].answer = "ok"
    BY <1>1, <1>3, <1>4 DEF SuccessIsRecorded
<1>6. \A k \in Keys : receipt'[k] # NoOutcome /\ receipt'[k].answer = "ok"
                        => Cardinality({e \in events' : e.key = k}) = 1
    BY <1>1, <1>2, <1>3, <1>4 DEF SuccessIsRecorded
<1>7. QED
    BY <1>5, <1>6 DEF SuccessIsRecorded

LEMMA NextRecords ==
    ASSUME Inv, CodesMeant, SuccessIsRecorded, Next
    PROVE  SuccessIsRecorded'
<1>1. CASE \E c \in Calls : Step(c)
  <2>1. PICK c \in Calls : Step(c)
      BY <1>1
  <2>2. CASE RecordRejection(c)
      BY <2>2, RejectionRecords
  <2>3. CASE ReserveSingle(c)
      BY <2>3, SucceedRecords, RecordsKept DEF ReserveSingle
  <2>4. CASE ReserveBatch(c)
    <3>1. \/ UNCHANGED <<receipt, events>>
          \/ Reserving(c) /\ Succeed(c, call[c].selected, ExpiredCount(c))
        BY <2>4 DEF ReserveBatch, FailReservation
    <3>2. QED
        BY <3>1, SucceedRecords, RecordsKept
  <2>5. CASE CheckSingle(c) \/ RemoveItems(c) \/ SelectItems(c) \/ PersistStaleItems(c)
      BY <2>5, RecordsKept DEF CheckSingle, RemoveItems, SelectItems, PersistStaleItems
  <2>6. QED
      BY <2>1, <2>2, <2>3, <2>4, <2>5 DEF Step
<1>2. CASE UNCHANGED <<receipt, events>>
    BY <1>2, RecordsKept
<1>3. QED
    BY <1>1, <1>2
       DEF Next, CreateFreeQuote, CreateBatchFreeQuote, BeginConfirmation, ReplayOutcome, Crash,
           Sweep, ExpireDue, ExpireBatch, Environment, Tick, PublishModelVersion, UpdateProvider,
           ChangeMedia, ChangeBudget, PublishPriceRule, Others

(* A confirmation whose reply got lost is found again under its key: every  *)
(* confirmation event has its stored success, and every stored success its  *)
(* one event.                                                               *)
THEOREM QuoteSuccessIsRecorded == Spec => []SuccessIsRecorded
<1>1. Init => CodesMeant /\ SuccessIsRecorded
    BY DEF Init, CodesMeant, Refused, SuccessIsRecorded, NoCall
<1>2. Inv /\ CodesMeant /\ SuccessIsRecorded /\ [Next]_vars => CodesMeant' /\ SuccessIsRecorded'
  <2> SUFFICES ASSUME Inv, CodesMeant, SuccessIsRecorded, [Next]_vars
               PROVE  CodesMeant' /\ SuccessIsRecorded'
      OBVIOUS
  <2>1. CASE UNCHANGED vars
      BY <2>1, RecordsKept DEF vars, CodesMeant, Refused
  <2>2. CASE Next
      BY <2>2, OthersRefuse, NextRecords
  <2>3. QED
      BY <2>1, <2>2
<1>3. QED
    BY <1>1, <1>2, Invariance, PTL DEF Spec

LEMMA ExpireKeepsChildren ==
    ASSUME TypeOK, NEW S, op' = Expire(S)
    PROVE  Children' = Children
<1>1. \A o \in Ops : op'[o].batched = op[o].batched
    BY DEF Expire, TypeOK, OpRow
<1>2. QED
    BY <1>1 DEF Children

LEMMA OthersMakeNone ==
    ASSUME Inv, Next
    PROVE  \/ UNCHANGED made /\ Children' = Children
           \/ \E k \in QuoteKeys, o \in Ops : CreateFreeQuote(k, o)
           \/ \E k \in QuoteKeys, S \in SUBSET Ops : CreateBatchFreeQuote(k, S)
<1>1. TypeOK
    BY DEF Inv
<1>2. CASE \E c \in Calls : Step(c)
  <2>1. PICK c \in Calls : Step(c)
      BY <1>2
  <2>2. UNCHANGED made
      BY <2>1 DEF Step, CheckSingle, ReserveSingle, RemoveItems, SelectItems, ReserveBatch,
                  PersistStaleItems, RecordRejection
  <2>3. ASSUME NEW S, NEW L, op' = [o \in Ops |-> IF o \in L THEN [op[o] EXCEPT !.status = "expired"]
                                                 ELSE Confirm(S)[o]]
        PROVE  Children' = Children
    <3>1. \A o \in Ops : op'[o].batched = op[o].batched
        BY <1>1, <2>3 DEF Confirm, TypeOK, OpRow
    <3>2. QED
        BY <3>1 DEF Children
  <2>4. ASSUME NEW S, op' = Confirm(S)
        PROVE  Children' = Children
    <3>1. \A o \in Ops : op'[o].batched = op[o].batched
        BY <1>1, <2>4 DEF Confirm, TypeOK, OpRow
    <3>2. QED
        BY <3>1 DEF Children
  <2>5. UNCHANGED op => Children' = Children
      BY DEF Children
  <2>6. CASE CheckSingle(c)
      BY <1>1, <2>5, <2>6, ExpireKeepsChildren DEF CheckSingle
  <2>7. CASE RemoveItems(c)
      BY <1>1, <2>5, <2>7, ExpireKeepsChildren DEF RemoveItems
  <2>8. CASE SelectItems(c)
      BY <1>1, <2>5, <2>8, ExpireKeepsChildren DEF SelectItems
  <2>9. CASE PersistStaleItems(c)
      BY <1>1, <2>5, <2>9, ExpireKeepsChildren DEF PersistStaleItems
  <2>10. CASE ReserveSingle(c)
      BY <2>4, <2>5, <2>10 DEF ReserveSingle
  <2>11. CASE ReserveBatch(c)
      BY <2>3, <2>5, <2>11 DEF ReserveBatch, FailReservation
  <2>12. CASE RecordRejection(c)
      BY <2>5, <2>12 DEF RecordRejection
  <2>13. QED
      BY <2>1, <2>2, <2>6, <2>7, <2>8, <2>9, <2>10, <2>11, <2>12 DEF Step
<1>3. CASE Sweep
  <2>1. UNCHANGED made /\ (UNCHANGED op \/ \E S \in SUBSET Ops : op' = Expire(S))
      BY <1>3 DEF Sweep, ExpireDue, ExpireBatch
  <2>2. UNCHANGED op => Children' = Children
      BY DEF Children
  <2>3. QED
      BY <1>1, <2>1, <2>2, ExpireKeepsChildren
<1>4. CASE UNCHANGED <<made, op>>
    BY <1>4 DEF Children
<1>5. QED
    BY <1>2, <1>3, <1>4
       DEF Next, BeginConfirmation, ReplayOutcome, Crash, Environment, Tick, PublishModelVersion,
           UpdateProvider, ChangeMedia, ChangeBudget, PublishPriceRule, Others

(* One quote request creates one quote, or the items of one batch, however  *)
(* often it is repeated.                                                    *)
THEOREM QuoteOncePerRequest == Spec => []OneQuotePerRequest
<1>1. Init => OneQuotePerRequest
  <2>1. Init => \A k \in QuoteKeys : made[k] = {}
      BY DEF Init
  <2>2. QED
      BY <2>1, FS_EmptySet DEF OneQuotePerRequest
<1>2. ASSUME Inv, OneQuotePerRequest, Next
      PROVE  OneQuotePerRequest'
  <2>1. CASE \E k \in QuoteKeys, o \in Ops : CreateFreeQuote(k, o)
    <3>1. PICK k \in QuoteKeys, o \in Ops : CreateFreeQuote(k, o)
        BY <2>1
    <3>2. PICK reused : CreateQuoteSnapshot({o}, reused, FALSE)
        BY <3>1 DEF CreateFreeQuote
    <3>3. Children \subseteq Children'
        BY <1>2, <3>1, <3>2, RowsMade DEF CreateFreeQuote
    <3>4. made[k] = {} /\ made' = [made EXCEPT ![k] = @ \cup {o}]
          /\ made \in [QuoteKeys -> SUBSET Ops]
        BY <1>2, <3>1 DEF CreateFreeQuote, RequestIsNew, Inv, TypeOK
    <3>5. made'[k] = {o} /\ \A j \in QuoteKeys \ {k} : made'[j] = made[j]
        BY <3>4
    <3>6. Cardinality({o}) = 1
        BY FS_Singleton
    <3>7. QED
        BY <1>2, <3>3, <3>5, <3>6 DEF OneQuotePerRequest
  <2>2. CASE \E k \in QuoteKeys, S \in SUBSET Ops : CreateBatchFreeQuote(k, S)
    <3>1. PICK k \in QuoteKeys, S \in SUBSET Ops : CreateBatchFreeQuote(k, S)
        BY <2>2
    <3>2. PICK reused : CreateQuoteSnapshot(S, reused, TRUE)
        BY <3>1 DEF CreateBatchFreeQuote
    <3>3. Children' = Children \cup S
        BY <1>2, <3>1, <3>2, RowsMade DEF CreateBatchFreeQuote
    <3>4. made[k] = {} /\ made' = [made EXCEPT ![k] = @ \cup S]
          /\ made \in [QuoteKeys -> SUBSET Ops]
        BY <1>2, <3>1 DEF CreateBatchFreeQuote, RequestIsNew, Inv, TypeOK
    <3>5. made'[k] = S /\ \A j \in QuoteKeys \ {k} : made'[j] = made[j]
        BY <3>4
    <3>6. QED
        BY <1>2, <3>3, <3>5 DEF OneQuotePerRequest
  <2>3. CASE UNCHANGED made /\ Children' = Children
      BY <1>2, <2>3 DEF OneQuotePerRequest
  <2>4. QED
      BY <1>2, <2>1, <2>2, <2>3, OthersMakeNone
<1>3. Inv /\ OneQuotePerRequest /\ [Next]_vars => OneQuotePerRequest'
  <2>1. UNCHANGED vars => (OneQuotePerRequest <=> OneQuotePerRequest')
      BY DEF vars, OneQuotePerRequest, Children
  <2>2. QED
      BY <1>2, <2>1
<1>4. QED
    BY <1>1, <1>3, Invariance, PTL DEF Spec

(* Every answer to a confirmation request is its first stored outcome:      *)
(* receipts and what clients hear implement FirstOutcome, whatever replies  *)
(* get lost and whatever calls arrive together; a success is found again    *)
(* with its one event, and a repeated quote request creates nothing more.   *)
THEOREM QuoteAnswersFirstOutcome == Spec => AnswersFirstOutcome
<1>1. Init => FO!Init
    BY DEF Init, FO!Init
<1>2. Inv /\ [Next]_vars => [FO!Next]_(FO!vars)
  <2> SUFFICES ASSUME Inv, [Next]_vars PROVE [FO!Next]_(FO!vars)
      OBVIOUS
  <2>1. CASE UNCHANGED <<receipt, told>>
      BY <2>1 DEF FO!vars
  <2>2. CASE \E c \in Calls : Step(c)
    <3>1. UNCHANGED <<receipt, told>> \/ \E k \in Keys : FO!Decide(k)
        BY <2>2, StepDecides
    <3>2. QED
        BY <2>1, <3>1 DEF FO!Next
  <2>3. CASE \E c \in Calls, k \in Keys, b \in Bodies : ReplayOutcome(c, k, b)
      BY <2>3, ReplayRepeats DEF FO!Next
  <2>4. QED
      BY <2>1, <2>2, <2>3, OthersDecideNothing DEF vars
<1>3. QED
    BY <1>1, <1>2, Invariance, QuoteSuccessIsRecorded, QuoteOncePerRequest, PTL
       DEF Spec, AnswersFirstOutcome, FO!Spec
=============================================================================
