---------------------------- MODULE BatchProofs ----------------------------
(***************************************************************************)
(* Proofs about Batch for every number of batches, children, providers,    *)
(* projects and requests.                                                  *)
(***************************************************************************)
EXTENDS Batch, FiniteSetTheorems, TLAPS

\* The steps at which a parent works on one of its children.
Aimed == {"acquire", "start_child", "claim_child", "settle_child", "signal_child", "reload"}

Good(b) == {p \in Parents(b) : p.pc \in Aimed => p.at \in Members(b)}

\* The parent is not about to start a child.
Calm(b) == {p \in Good(b) : p.pc # "start_child"}

-----------------------------------------------------------------------------
(* The parent's code between its activities.                               *)

LEMMA Fields ==
  ASSUME NEW b \in Batches, NEW p \in Parents(b)
  PROVE  /\ p.pc \in PCs /\ p.view \in Views(b) /\ p.todo \in SUBSET Members(b)
         /\ p.at \in Members(b) \cup {"none"} /\ p.claimed \in BOOLEAN
         /\ p.started \in SUBSET Members(b) /\ p.watched \in SUBSET Members(b)
         /\ p.acknowledged \in SUBSET Members(b) /\ p.told \in SUBSET Members(b)
         /\ p.cancels \in Nat /\ p.resumes \in Nat
         /\ p.view.items \in [Members(b) -> ChildStatuses]
         /\ DOMAIN p.view.items = Members(b)
         /\ p.view.streak \in FailureCodes \cup {"none"}
<1>1. p.view \in Views(b)
  BY DEF Parents
<1>2. p.view.items \in [Members(b) -> ChildStatuses] /\ p.view.streak \in FailureCodes \cup {"none"}
  BY <1>1 DEF Views
<1> QED BY <1>1, <1>2 DEF Parents

LEMMA NothingTyped ==
  ASSUME NEW b \in Batches
  PROVE  Nothing(Members(b)) \in Views(b)
<1> DEFINE items == [c \in Members(b) |-> "confirmed"]
<1>1. items \in [Members(b) -> ChildStatuses]
  BY DEF ChildStatuses
<1>2. Nothing(Members(b)) = [paused |-> "none", cancelled |-> FALSE, items |-> items, streak |-> "none"]
  BY DEF Nothing
<1> HIDE DEF items
<1> QED BY <1>1, <1>2 DEF Views

LEMMA ForgetsTyped ==
  ASSUME NEW b \in Batches, NEW p \in Parents(b), NEW pc \in PCs \ Aimed
  PROVE  Forgets(p, pc) \in Calm(b)
<1> DEFINE q == Forgets(p, pc)
           nothing == Nothing(Members(b))
<1>1. q = [p EXCEPT !.pc = pc, !.view = nothing, !.at = "none", !.todo = {}, !.claimed = FALSE]
  BY Fields DEF Forgets
<1>2. nothing \in Views(b)
  BY NothingTyped
<1> HIDE DEF nothing
<1>3. q \in Parents(b)
  BY <1>1, <1>2 DEF Parents
<1>4. q.pc = pc
  BY <1>1 DEF Parents
<1> HIDE DEF q
<1>5. q \in Calm(b)
  BY <1>3, <1>4 DEF Calm, Good, Aimed
<1> QED BY <1>5 DEF q

LEMMA ContinuesTyped ==
  ASSUME NEW b \in Batches, NEW p \in Parents(b)
  PROVE  ContinueAsNew(p) \in Calm(b)
<1> DEFINE q == Forgets(p, "begin")
           r == [q EXCEPT !.started = {}, !.watched = {}, !.cancels = 0, !.resumes = 0]
<1>1. q \in Calm(b)
  BY ForgetsTyped DEF PCs, Aimed, Ended
<1>2. q \in Parents(b)
  BY <1>1 DEF Calm, Good
<1>3. q.pc = "begin"
  BY DEF Forgets, Parents
<1> HIDE DEF q
<1>4. r \in Parents(b) /\ r.pc = "begin"
  BY <1>2, <1>3 DEF Parents
<1> HIDE DEF r
<1>5. r \in Calm(b)
  BY <1>4 DEF Calm, Good, Aimed
<1> QED BY <1>5 DEF ContinueAsNew, q, r

LEMMA EndsTyped ==
  ASSUME NEW b \in Batches, NEW p \in Parents(b)
  PROVE  EndPass(p) \subseteq Calm(b)
<1>1. Forgets(p, "finish") \in Calm(b) /\ Forgets(p, "load") \in Calm(b)
  BY ForgetsTyped DEF PCs, Aimed, Ended
<1>2. ContinueAsNew(p) \in Calm(b)
  BY ContinuesTyped
<1> QED BY <1>1, <1>2, Zenon DEF EndPass

\* A step aimed at one of the batch's own children.
LEMMA AimTyped ==
  ASSUME NEW b \in Batches, NEW p \in Parents(b), NEW c \in Members(b),
         NEW pc \in {"acquire", "claim_child", "signal_child"}
  PROVE  [p EXCEPT !.pc = pc, !.at = c, !.todo = @ \ {c}] \in Calm(b)
<1> DEFINE q == [p EXCEPT !.pc = pc, !.at = c, !.todo = @ \ {c}]
           todo == p.todo \ {c}
<1>1. q = [p EXCEPT !.pc = pc, !.at = c, !.todo = todo]
  BY DEF Parents
<1>2. todo \in SUBSET Members(b) /\ pc \in PCs
  BY Fields DEF PCs, Ended
<1> HIDE DEF todo
<1>3. q \in Parents(b) /\ q.pc = pc /\ q.at = c
  BY <1>1, <1>2 DEF Parents
<1> HIDE DEF q
<1>4. q \in Calm(b)
  BY <1>3 DEF Calm, Good
<1> QED BY <1>4 DEF q

LEMMA LaunchTyped ==
  ASSUME NEW b \in Batches, NEW p \in Parents(b)
  PROVE  NextLaunch(p) \subseteq Calm(b)
<1>1. EndPass(p) \subseteq Calm(b)
  BY EndsTyped
<1>2. \A c \in p.todo : [p EXCEPT !.pc = "acquire", !.at = c, !.todo = @ \ {c}] \in Calm(b)
  BY AimTyped, Fields
<1> QED BY <1>1, <1>2, Zenon DEF NextLaunch

LEMMA CancelTyped ==
  ASSUME NEW b \in Batches, NEW p \in Parents(b)
  PROVE  NextCancel(p) \subseteq Calm(b)
<1>1. EndPass(p) \subseteq Calm(b) /\ Forgets(p, "load") \in Calm(b)
  BY EndsTyped, ForgetsTyped DEF PCs, Aimed, Ended
<1>2. ASSUME NEW c \in p.todo
      PROVE  [p EXCEPT !.pc = IF MaybeQueued(p.view.items[c]) THEN "claim_child" ELSE "signal_child",
                       !.at = c, !.todo = @ \ {c}] \in Calm(b)
  <2>1. c \in Members(b)
    BY Fields
  <2>2. CASE MaybeQueued(p.view.items[c])
    BY <2>1, <2>2, AimTyped
  <2>3. CASE ~MaybeQueued(p.view.items[c])
    BY <2>1, <2>3, AimTyped
  <2> QED BY <2>2, <2>3
<1> QED BY <1>1, <1>2, Zenon DEF NextCancel

LEMMA NotQueuedTyped ==
  ASSUME NEW b \in Batches, NEW p \in Good(b), p.pc \in Aimed
  PROVE  NotQueued(p) \subseteq Calm(b)
<1> DEFINE q == [p EXCEPT !.pc = "signal_child"]
<1>1. p \in Parents(b) /\ p.at \in Members(b)
  BY DEF Good
<1>2. NextCancel(p) \subseteq Calm(b)
  BY <1>1, CancelTyped
<1>3. q \in Parents(b) /\ q.pc = "signal_child" /\ q.at = p.at
  BY <1>1 DEF Parents, PCs, Ended
<1> HIDE DEF q
<1>4. q \in Calm(b)
  BY <1>1, <1>3 DEF Calm, Good
<1> QED BY <1>2, <1>4, Zenon DEF NotQueued, q

LEMMA HeardTyped ==
  ASSUME NEW b \in Batches, NEW p \in Parents(b)
  PROVE  LET heard == [p EXCEPT !.cancels = Receive(@)]
         IN heard \in Parents(b) /\ \A q \in {heard} : Open(q) = Open(p)
<1> DEFINE n == Receive(p.cancels)
           heard == [p EXCEPT !.cancels = n]
<1>1. n \in Nat
  BY Fields DEF Receive
<1> HIDE DEF n
<1>2. heard \in Parents(b) /\ heard.view = p.view
  BY <1>1 DEF Parents
<1>3. [p EXCEPT !.cancels = Receive(@)] = heard
  BY DEF Parents, n
<1> HIDE DEF heard
<1>4. Open(heard) = Open(p)
  BY <1>2 DEF Open
<1> QED BY <1>2, <1>3, <1>4

\* What a pass decides never starts a child by itself.
LEMMA DecideTyped ==
  ASSUME NEW b \in Batches, NEW p \in Parents(b)
  PROVE  Decide(p) \subseteq Calm(b)
<1> DEFINE heard == [p EXCEPT !.cancels = Receive(@)]
           todo == {c \in Open(p) : MaybeQueued(p.view.items[c]) \/ c \notin p.told}
           cancelling == [heard EXCEPT !.claimed = FALSE, !.todo = todo]
           resuming == [p EXCEPT !.pc = "resume", !.resumes = @ - 1]
           launching == [p EXCEPT !.todo = Launchable(p)]
<1>1. Open(p) \subseteq Members(b)
  BY Fields DEF Open
<1>2. heard \in Parents(b)
  BY HeardTyped
<1> HIDE DEF heard
<1>3. todo \in SUBSET Members(b)
  BY <1>1
<1> HIDE DEF todo
<1>4. cancelling \in Parents(b)
  BY <1>2, <1>3 DEF Parents
<1>5. NextCancel(cancelling) \subseteq Calm(b)
  BY <1>4, CancelTyped
<1>6. [heard EXCEPT !.pc = "mark_cancel"] \in Calm(b)
  <2> DEFINE q == [heard EXCEPT !.pc = "mark_cancel"]
  <2>1. q \in Parents(b) /\ q.pc = "mark_cancel"
    BY <1>2 DEF Parents, PCs
  <2> HIDE DEF q
  <2>2. q \in Calm(b)
    BY <2>1 DEF Calm, Good, Aimed
  <2> QED BY <2>2 DEF q
<1>7. ASSUME p.resumes > 0
      PROVE  resuming \in Calm(b)
  <2> DEFINE n == p.resumes - 1
             q == [p EXCEPT !.pc = "resume", !.resumes = n]
  <2>1. n \in Nat
    BY <1>7, Fields
  <2> HIDE DEF n
  <2>2. q \in Parents(b) /\ q.pc = "resume"
    BY <2>1 DEF Parents, PCs
  <2>3. resuming = q
    BY DEF n, Parents
  <2> HIDE DEF q
  <2>4. q \in Calm(b)
    BY <2>2 DEF Calm, Good, Aimed
  <2> QED BY <2>3, <2>4
<1>8. [p EXCEPT !.pc = "pause"] \in Calm(b)
  <2> DEFINE q == [p EXCEPT !.pc = "pause"]
  <2>1. q \in Parents(b) /\ q.pc = "pause"
    BY DEF Parents, PCs
  <2> HIDE DEF q
  <2>2. q \in Calm(b)
    BY <2>1 DEF Calm, Good, Aimed
  <2> QED BY <2>2 DEF q
<1>9. NextLaunch(launching) \subseteq Calm(b)
  <2> DEFINE launchable == Launchable(p)
  <2>1. launchable \in SUBSET Members(b)
    BY <1>1 DEF Launchable
  <2> HIDE DEF launchable
  <2>2. [p EXCEPT !.todo = launchable] \in Parents(b)
    BY <2>1 DEF Parents
  <2>3. launching \in Parents(b)
    BY <2>2 DEF launchable
  <2> QED BY <2>3, LaunchTyped
<1>10. Forgets(p, "failed") \in Calm(b) /\ EndPass(p) \subseteq Calm(b)
  BY ForgetsTyped, EndsTyped DEF PCs, Aimed, Ended
<1> HIDE DEF cancelling, resuming, launching
<1> QED
  <2>1. CASE \E c \in p.watched \cap Open(p) : child[c].run = "failed"
    BY <2>1, <1>10, Zenon DEF Decide
  <2>2. CASE ~(\E c \in p.watched \cap Open(p) : child[c].run = "failed")
    <3>1. CASE p.view.cancelled
      BY <2>2, <3>1, <1>5, Zenon DEF Decide, cancelling, todo, heard
    <3>2. CASE ~p.view.cancelled /\ HearsCancel(p)
      BY <2>2, <3>2, <1>6, Zenon DEF Decide, heard
    <3>3. CASE ~p.view.cancelled /\ ~HearsCancel(p) /\ p.view.paused # "none"
      BY <2>2, <3>3, <1>7, <1>10, Zenon DEF Decide, resuming
    <3>4. CASE ~p.view.cancelled /\ ~HearsCancel(p) /\ ~(p.view.paused # "none")
      BY <2>2, <3>4, <1>8, <1>9, Zenon DEF Decide, launching
    <3> QED BY <3>1, <3>2, <3>3, <3>4
  <2> QED BY <2>1, <2>2

LEMMA ViewTyped ==
  ASSUME NEW b \in Batches, NEW p, batch \in [Batches -> BatchRows], child \in [Children -> ChildRows]
  PROVE  View(b, p) \in Views(b)
<1> DEFINE fresh == SelectSeq(settled[b], LAMBDA c : c \notin p.acknowledged)
           last == {child[fresh[i]].code : i \in (Len(fresh) - Streak + 1)..Len(fresh)}
           streak == IF Len(fresh) >= Streak /\ \E code \in FailureCodes : last = {code}
                     THEN CHOOSE code \in FailureCodes : last = {code} ELSE "none"
           items == [c \in Members(b) |-> child[c].status]
<1>1. View(b, p) = [paused |-> batch[b].paused, cancelled |-> batch[b].cancelled,
                    items |-> items, streak |-> streak]
  BY Zenon DEF View
<1> HIDE DEF fresh
<1>2. streak \in FailureCodes \cup {"none"}
  <2> HIDE DEF last
  <2> QED OBVIOUS
<1>3. items \in [Members(b) -> ChildStatuses]
  BY DEF Members, ChildRows
<1>4. batch[b].paused \in FailureCodes \cup {"none"} /\ batch[b].cancelled \in BOOLEAN
  BY DEF BatchRows
<1> HIDE DEF streak, items
<1>5. \A paused \in FailureCodes \cup {"none"}, cancelled \in BOOLEAN :
        [paused |-> paused, cancelled |-> cancelled, items |-> items, streak |-> streak]
          \in Views(b)
  BY <1>2, <1>3 DEF Views
<1> QED BY <1>1, <1>4, <1>5, Zenon

-----------------------------------------------------------------------------
(* Types.                                                                  *)

RowsOK ==
  /\ batch \in [Batches -> BatchRows]
  /\ child \in [Children -> ChildRows]
  /\ settled \in [Batches -> Seq(Children)]

StepsOK == DOMAIN parent = Batches /\ \A b \in Batches : parent[b] \in Good(b)

\* A late admission is for a child of its own batch.
RestOK ==
  /\ control \in [Batches -> [cancel : Nat, resume : Nat, accepted : Nat]]
  /\ enabled \subseteq Providers
  /\ late \subseteq Requests
  /\ \A r \in late : r.step = "acquire" => r.at \in Members(r.batch)

TInv == RowsOK /\ StepsOK /\ RestOK

\* A parent is about to start a child because it was, or because the child got
\* its slot in this step.
StartsAdmitted(x) ==
  parent'[x].pc = "start_child" =>
    \/ parent[x].pc = "start_child" /\ parent'[x].at = parent[x].at
    \/ parent'[x].at \in Children /\ child'[parent'[x].at].slot = "active"

Walks == StepsOK' /\ \A x \in Batches : StartsAdmitted(x)

LEMMA StandsStill ==
  ASSUME StepsOK, UNCHANGED parent
  PROVE  Walks
BY DEF StepsOK, Walks, StartsAdmitted, Good, Parents

\* A reply that leads to no start keeps the parents' types.
LEMMA CalmWalk ==
  ASSUME StepsOK, NEW b \in Batches, NEW nexts, nexts \subseteq Calm(b), Replies(b, nexts)
  PROVE  Walks
<1>1. PICK p \in nexts \cup {parent[b]} : parent' = [parent EXCEPT ![b] = p]
  BY Zenon DEF Replies, Goes
<1>2. p \in Good(b) /\ (p.pc = "start_child" => p = parent[b])
  BY DEF Calm, StepsOK
<1>3. parent'[b] = p /\ DOMAIN parent' = Batches /\ \A x \in Batches \ {b} : parent'[x] = parent[x]
  BY <1>1 DEF StepsOK
<1> QED BY <1>2, <1>3 DEF StepsOK, Walks, StartsAdmitted

LEMMA CalmGo ==
  ASSUME StepsOK, NEW b \in Batches, NEW nexts, nexts \subseteq Calm(b), Goes(b, nexts)
  PROVE  Walks
<1>1. Replies(b, nexts)
  BY Zenon DEF Replies, Goes
<1> QED BY <1>1, CalmWalk

LEMMA FailureWalk ==
  ASSUME StepsOK, NEW b \in Batches, Fails(b)
  PROVE  Walks
<1>1. parent[b] \in Parents(b)
  BY DEF StepsOK, Good
<1>2. {Forgets(parent[b], "failed")} \subseteq Calm(b)
  BY <1>1, ForgetsTyped DEF PCs, Ended, Aimed
<1> QED BY <1>2, CalmGo, Zenon DEF Fails

LEMMA PlainTyped ==
  ASSUME NEW b \in Batches, NEW p \in Parents(b), NEW pc \in PCs \ Aimed
  PROVE  [p EXCEPT !.pc = pc] \in Calm(b)
<1> DEFINE q == [p EXCEPT !.pc = pc]
<1>1. q \in Parents(b) /\ q.pc = pc
  BY DEF Parents
<1> HIDE DEF q
<1>2. q \in Calm(b)
  BY <1>1 DEF Calm, Good, Aimed
<1> QED BY <1>2 DEF q

\* Another step for the same child.
LEMMA SameAimTyped ==
  ASSUME NEW b \in Batches, NEW p \in Good(b), p.pc \in Aimed, NEW pc \in Aimed
  PROVE  /\ [p EXCEPT !.pc = pc] \in Good(b)
         /\ pc # "start_child" => [p EXCEPT !.pc = pc] \in Calm(b)
         /\ [p EXCEPT !.pc = pc].pc = pc /\ [p EXCEPT !.pc = pc].at = p.at
<1> DEFINE q == [p EXCEPT !.pc = pc]
<1>1. q \in Parents(b) /\ q.pc = pc /\ q.at = p.at
  BY DEF Good, Parents, PCs, Aimed, Ended
<1> HIDE DEF q
<1>2. q \in Good(b) /\ (pc # "start_child" => q \in Calm(b))
  BY <1>1 DEF Calm, Good
<1> QED BY <1>1, <1>2 DEF q

LEMMA LoadWalks ==
  ASSUME RowsOK, StepsOK, NEW b \in Batches, Load(b)
  PROVE  Walks
<1> DEFINE p == [parent[b] EXCEPT !.view = View(b, parent[b])]
           v == View(b, parent[b])
<1>1. v \in Views(b)
  BY ViewTyped DEF RowsOK
<1>2. parent[b] \in Parents(b) /\ p = [parent[b] EXCEPT !.view = v]
  BY DEF StepsOK, Good
<1> HIDE DEF v, p
<1>3. p \in Parents(b)
  BY <1>1, <1>2 DEF Parents
<1>4. /\ Forgets(p, "done") \in Calm(b) /\ Forgets(p, "mark_running") \in Calm(b)
      /\ Forgets(p, "load") \in Calm(b) /\ [p EXCEPT !.pc = "decide"] \in Calm(b)
  BY <1>3, ForgetsTyped, PlainTyped DEF PCs, Aimed, Ended
<1> DEFINE next == IF IsOver(b) THEN Forgets(p, "done")
                   ELSE IF p.pc = "load" THEN [p EXCEPT !.pc = "decide"]
                   ELSE Forgets(p, IF batch[b].status = "confirmed" THEN "mark_running" ELSE "load")
<1>5. Goes(b, {next})
  BY Zenon DEF Load, p
<1>6. next \in Calm(b)
  <2>1. CASE batch[b].status = "confirmed"
    BY <2>1, <1>4, Zenon
  <2>2. CASE batch[b].status # "confirmed"
    BY <2>2, <1>4, Zenon
  <2> QED BY <2>1, <2>2
<1> HIDE DEF next
<1> QED BY <1>5, <1>6, CalmGo

LEMMA AcquireWalks ==
  ASSUME RowsOK, StepsOK, NEW b \in Batches, AcquireBatchLaunch(b)
  PROVE  Walks
<1> DEFINE p == parent[b]
           c == p.at
           q == [p EXCEPT !.pc = "start_child"]
<1>1. p \in Good(b) /\ p.pc = "acquire" /\ p \in Parents(b)
  BY DEF StepsOK, Good, AcquireBatchLaunch
<1>2. c \in Members(b) /\ c \in Children
  BY <1>1 DEF Good, Aimed, Members
<1>3. q \in Good(b) /\ q.at = c
  BY <1>1, SameAimTyped DEF Aimed
<1>4. ASSUME Replies(b, {q}), child'[c].slot = "active"
      PROVE  Walks
  <2>1. PICK r \in {q, parent[b]} : parent' = [parent EXCEPT ![b] = r]
    BY <1>4, Zenon DEF Replies, Goes
  <2>2. parent'[b] = r /\ DOMAIN parent' = Batches /\ \A x \in Batches \ {b} : parent'[x] = parent[x]
    BY <2>1 DEF StepsOK
  <2>3. r \in Good(b) /\ r.at = c
    BY <1>1, <1>3
  <2> HIDE DEF q, c
  <2> QED BY <2>2, <2>3, <1>2, <1>4 DEF StepsOK, Walks, StartsAdmitted
<1>5. CASE TakesSlot(b, c) /\ TakeSlot(c) /\ Replies(b, {q})
  <2>1. child'[c].slot = "active"
    BY <1>2, <1>5 DEF TakeSlot, RowsOK, ChildRows
  <2> QED BY <2>1, <1>4, <1>5
<1>6. CASE ModelAvailable(c) /\ Admits(b, c) /\ Holds(c) /\ Goes(b, {q}) /\ UNCHANGED child
  <2>1. Replies(b, {q}) /\ child'[c].slot = "active"
    BY <1>6 DEF Goes, Replies, Holds
  <2> QED BY <2>1, <1>4
<1>7. CASE Goes(b, NextLaunch(p))
  BY <1>1, <1>7, LaunchTyped, CalmGo
<1>8. CASE Fails(b)
  BY <1>8, FailureWalk
<1> QED BY <1>5, <1>6, <1>7, <1>8, Zenon DEF AcquireBatchLaunch

LEMMA StartWalks ==
  ASSUME RowsOK, StepsOK, NEW b \in Batches, StartChild(b)
  PROVE  Walks
<1> DEFINE c == parent[b].at
           started == parent[b].started \cup {c}
           p == [parent[b] EXCEPT !.started = started]
           watched == p.watched \cup {c}
           q == [p EXCEPT !.watched = watched]
<1>1. parent[b] \in Parents(b) /\ c \in Members(b)
  BY DEF StepsOK, Good, Aimed, StartChild
<1>2. started \in SUBSET Members(b)
  BY <1>1, Fields
<1>3. p = [parent[b] EXCEPT !.started = @ \cup {parent[b].at}]
  BY <1>1 DEF Parents
<1> HIDE DEF started, c
<1>4. p \in Parents(b)
  BY <1>1, <1>2 DEF Parents
<1> HIDE DEF p
<1>5. watched \in SUBSET Members(b)
  BY <1>1, <1>4, Fields
<1>6. q = [p EXCEPT !.watched = @ \cup {c}]
  BY <1>4 DEF Parents
<1> HIDE DEF watched
<1>7. q \in Parents(b)
  BY <1>4, <1>5 DEF Parents
<1> HIDE DEF q
<1>8. Goes(b, NextLaunch(q)) \/ Goes(b, NextLaunch(p))
  BY <1>3, <1>6, Zenon DEF StartChild, c
<1> QED BY <1>4, <1>7, <1>8, LaunchTyped, CalmGo

LEMMA ResumeWalks ==
  ASSUME RowsOK, StepsOK, NEW b \in Batches, ResumeWorkflowBatch(b)
  PROVE  Walks
<1> DEFINE p == parent[b]
           f == Forgets(p, "load")
           seen == f.acknowledged \cup (Members(b) \ Open(p))
           q == [f EXCEPT !.acknowledged = seen]
<1>1. p \in Parents(b)
  BY DEF StepsOK, Good
<1>2. f \in Calm(b)
  BY <1>1, ForgetsTyped DEF PCs, Ended, Aimed
<1>3. q = [f EXCEPT !.acknowledged = @ \cup (Members(b) \ Open(p))]
  BY <1>2 DEF Calm, Good, Parents
<1>4. f \in Parents(b) /\ f.pc = "load"
  BY <1>1, <1>2 DEF Calm, Good, Forgets, Parents
<1>5. Fails(b) \/ Replies(b, {q})
  BY <1>3, Zenon DEF ResumeWorkflowBatch, Replies, Goes
<1> HIDE DEF f
<1>6. seen \in SUBSET Members(b)
  BY <1>4, Fields
<1> HIDE DEF seen
<1>7. q \in Parents(b) /\ q.pc = "load"
  BY <1>4, <1>6 DEF Parents
<1> HIDE DEF q
<1>8. {q} \subseteq Calm(b)
  BY <1>7 DEF Calm, Good, Aimed
<1> QED BY <1>5, <1>8, CalmWalk, FailureWalk

LEMMA ClaimWalks ==
  ASSUME RowsOK, StepsOK, NEW b \in Batches, ClaimChild(b)
  PROVE  Walks
<1> DEFINE q == [parent[b] EXCEPT !.pc = "settle_child"]
<1>1. parent[b] \in Good(b) /\ parent[b].pc \in Aimed
  BY DEF StepsOK, ClaimChild, Aimed
<1>2. q \in Calm(b)
  BY <1>1, SameAimTyped DEF Aimed
<1>3. NotQueued(parent[b]) \subseteq Calm(b)
  BY <1>1, NotQueuedTyped
<1>4. Goes(b, NotQueued(parent[b])) \/ Replies(b, {q}) \/ Goes(b, {q}) \/ Fails(b)
  BY Zenon DEF ClaimChild
<1> HIDE DEF q
<1>5. {q} \subseteq Calm(b)
  BY <1>2
<1> QED BY <1>3, <1>4, <1>5, CalmWalk, CalmGo, FailureWalk

LEMMA SettleWalks ==
  ASSUME RowsOK, StepsOK, NEW b \in Batches, SettleChild(b)
  PROVE  Walks
<1> DEFINE p == [parent[b] EXCEPT !.claimed = TRUE]
           q == [parent[b] EXCEPT !.pc = "claim_child"]
<1>1. parent[b] \in Good(b) /\ parent[b].pc \in Aimed
  BY DEF StepsOK, SettleChild, Aimed
<1>2. q \in Calm(b)
  BY <1>1, SameAimTyped DEF Aimed
<1>3. p \in Parents(b)
  BY <1>1 DEF Good, Parents
<1> HIDE DEF p, q
<1>4. NextCancel(p) \subseteq Calm(b)
  BY <1>3, CancelTyped
<1>5. Goes(b, NextCancel(p) \cup {q}) \/ Goes(b, NextCancel(p))
  BY Zenon DEF SettleChild, p, q
<1>6. NextCancel(p) \cup {q} \subseteq Calm(b)
  BY <1>2, <1>4
<1> QED BY <1>4, <1>5, <1>6, CalmGo

LEMMA SignalWalks ==
  ASSUME RowsOK, StepsOK, NEW b \in Batches, SignalChild(b)
  PROVE  Walks
<1> DEFINE told == parent[b].told \cup {parent[b].at}
           p == [parent[b] EXCEPT !.told = told]
           q == [parent[b] EXCEPT !.pc = "reload"]
<1>1. parent[b] \in Good(b) /\ parent[b].pc \in Aimed
  BY DEF StepsOK, SignalChild, Aimed
<1>2. q \in Calm(b)
  BY <1>1, SameAimTyped DEF Aimed
<1>3. parent[b] \in Parents(b) /\ told \in SUBSET Members(b)
  BY <1>1, Fields DEF Good
<1>4. p = [parent[b] EXCEPT !.told = @ \cup {parent[b].at}]
  BY <1>3 DEF Parents
<1> HIDE DEF told
<1>5. p \in Parents(b)
  BY <1>3 DEF Parents
<1> HIDE DEF p, q
<1>6. NextCancel(p) \subseteq Calm(b)
  BY <1>5, CancelTyped
<1>7. Goes(b, NextCancel(p)) \/ Goes(b, {q})
  BY <1>4, Zenon DEF SignalChild, q
<1>8. {q} \subseteq Calm(b)
  BY <1>2
<1> QED BY <1>6, <1>7, <1>8, CalmGo

LEMMA DeliveryWalks ==
  ASSUME RowsOK, StepsOK, NEW b \in Batches, NEW action \in Controls, DeliverControl(b, action)
  PROVE  Walks
<1> DEFINE p == parent[b]
           cancels == p.cancels + 1
           resumes == p.resumes + 1
           q == [p EXCEPT !.cancels = cancels]
           r == [p EXCEPT !.resumes = resumes]
<1>1. p \in Good(b) /\ p \in Parents(b) /\ cancels \in Nat /\ resumes \in Nat
  BY Fields DEF StepsOK, Good
<1>2. q = [p EXCEPT !.cancels = @ + 1] /\ r = [p EXCEPT !.resumes = @ + 1]
  BY <1>1 DEF Parents
<1> HIDE DEF cancels, resumes
<1>3. /\ q \in Parents(b) /\ q.pc = p.pc /\ q.at = p.at
      /\ r \in Parents(b) /\ r.pc = p.pc /\ r.at = p.at
  BY <1>1 DEF Parents
<1> HIDE DEF q, r
<1>4. UNCHANGED parent \/ Goes(b, {q}) \/ Goes(b, {r})
  BY <1>2, Zenon DEF DeliverControl
<1>5. q \in Good(b) /\ r \in Good(b)
  BY <1>1, <1>3 DEF Good
<1>6. ASSUME NEW x \in {q, r}, parent' = [parent EXCEPT ![b] = x]
      PROVE  Walks
  <2>1. parent'[b] = x /\ DOMAIN parent' = Batches /\ \A y \in Batches \ {b} : parent'[y] = parent[y]
    BY <1>6 DEF StepsOK
  <2> QED BY <2>1, <1>3, <1>5 DEF StepsOK, Walks, StartsAdmitted
<1>7. CASE UNCHANGED parent
  BY <1>7, StandsStill
<1>8. CASE Goes(b, {q}) \/ Goes(b, {r})
  BY <1>6, <1>8, Zenon DEF Goes
<1> QED BY <1>4, <1>7, <1>8

LEMMA WalksOn ==
  ASSUME RowsOK, StepsOK, Next
  PROVE  Walks
<1>1. ASSUME NEW b \in Batches PROVE parent[b] \in Parents(b)
  BY DEF StepsOK, Good
<1>2. ASSUME NEW b \in Batches, StartBatch(b) PROVE Walks
  <2>1. {[parent[b] EXCEPT !.pc = "begin"]} \subseteq Calm(b)
    BY <1>1, PlainTyped DEF PCs, Aimed, Ended
  <2> QED BY <1>2, <2>1, CalmGo, Zenon DEF StartBatch
<1>3. ASSUME NEW b \in Batches, Pass(b) PROVE Walks
  <2>1. Decide(parent[b]) \subseteq Calm(b)
    BY <1>1, DecideTyped
  <2> QED BY <1>3, <2>1, CalmGo, Zenon DEF Pass
<1>4. ASSUME NEW b \in Batches, MarkWorkflowBatchRunning(b) PROVE Walks
  <2>1. {[parent[b] EXCEPT !.pc = "load"]} \subseteq Calm(b)
    BY <1>1, PlainTyped DEF PCs, Aimed, Ended
  <2> QED BY <1>4, <2>1, CalmGo, CalmWalk, FailureWalk, Zenon DEF MarkWorkflowBatchRunning
<1>5. ASSUME NEW b \in Batches, PauseWorkflowBatch(b) PROVE Walks
  <2>1. {Forgets(parent[b], "load")} \subseteq Calm(b)
    BY <1>1, ForgetsTyped DEF PCs, Aimed, Ended
  <2> QED BY <1>5, <2>1, CalmGo, CalmWalk, FailureWalk, Zenon DEF PauseWorkflowBatch
<1>6. ASSUME NEW b \in Batches, MarkWorkflowBatchCancelRequested(b) PROVE Walks
  <2>1. {Forgets(parent[b], "load")} \subseteq Calm(b)
    BY <1>1, ForgetsTyped DEF PCs, Aimed, Ended
  <2> QED BY <1>6, <2>1, CalmWalk, Zenon DEF MarkWorkflowBatchCancelRequested
<1>7. ASSUME NEW b \in Batches, ReloadChild(b) PROVE Walks
  <2>1. NextCancel(parent[b]) \subseteq Calm(b)
    BY <1>1, CancelTyped
  <2> QED BY <1>7, <2>1, CalmGo, FailureWalk, Zenon DEF ReloadChild
<1>8. ASSUME NEW b \in Batches, FinishWorkflowBatch(b) PROVE Walks
  <2>1. {[parent[b] EXCEPT !.pc = "done"]} \subseteq Calm(b)
    BY <1>1, PlainTyped DEF PCs, Aimed, Ended
  <2> QED BY <1>8, <2>1, CalmGo, CalmWalk, Zenon DEF FinishWorkflowBatch
<1>9. ASSUME NEW b \in Batches, Parent(b) PROVE Walks
  BY <1>9, <1>3, <1>4, <1>5, <1>6, <1>7, <1>8, LoadWalks, AcquireWalks, StartWalks, ResumeWalks,
     ClaimWalks, SettleWalks, SignalWalks, Zenon DEF Parent
<1>10. ASSUME NEW b \in Batches, AttemptTimesOut(b) PROVE Walks
  BY <1>10, StandsStill DEF AttemptTimesOut
<1>11. ASSUME NEW b \in Batches, NEW action \in Controls, RequestControl(b, action) PROVE Walks
  BY <1>11, StandsStill DEF RequestControl
<1>12. ASSUME NEW r \in late, ExecuteLate(r) PROVE Walks
  BY <1>12, StandsStill DEF ExecuteLate
<1>13. ASSUME NEW c \in Children, ChildSubmits(c) \/ ChildCalls(c) \/ ChildSettles(c) \/ ChildEnds(c) \/ ChildBreaks(c)
       PROVE Walks
  BY <1>13, StandsStill, Zenon DEF ChildSubmits, ChildCalls, ChildSettles, ChildEnds, ChildBreaks, ChildUnchanged
<1>14. ASSUME NEW p \in Providers, ChangeProviderStatus(p) PROVE Walks
  BY <1>14, StandsStill DEF ChangeProviderStatus
<1> QED BY <1>2, <1>9, <1>10, <1>11, <1>12, <1>13, <1>14, DeliveryWalks, Zenon DEF Next

-----------------------------------------------------------------------------
(* What a step does to one child.                                          *)

\* Its slot stays, and it neither settles nor changes how it settled.
Kept(c) ==
  /\ child'[c].slot = child[c].slot
  /\ child'[c].run = "none" <=> child[c].run = "none"
  /\ child'[c].status \in Terminal <=> Settled(c)
  /\ Settled(c) => child'[c].status = child[c].status

Took(c) ==
  /\ TakesSlot(BatchOf[c], c) /\ TakeSlot(c)
  /\ ~Settled(c) /\ child[c].slot = "none" /\ child'[c].slot = "active"
  /\ child'[c].status = child[c].status /\ child'[c].run = child[c].run

Begun(c) ==
  /\ \E b \in Batches : parent[b].pc = "start_child" /\ parent[b].at = c
  /\ child'[c].status = child[c].status /\ child'[c].slot = child[c].slot

Finalized(c) ==
  /\ ~Settled(c) /\ child'[c].status \in Terminal /\ child'[c].slot # "active"
  /\ child'[c].run = "none" <=> child[c].run = "none"

Changes(c) ==
  /\ Kept(c) \/ Took(c) \/ Begun(c) \/ Finalized(c)
  /\ child'[c].called = child[c].called \/ child[c].status = "submitting"

\* Every child keeps its type and changes in one of these ways.
Moves ==
  /\ child' \in [Children -> ChildRows] /\ settled' \in [Batches -> Seq(Children)]
  /\ \A c \in Children : Changes(c)

LEMMA NoMove ==
  ASSUME RowsOK, UNCHANGED <<child, settled>>
  PROVE  Moves
BY DEF RowsOK, Moves, Changes, Kept, Settled

\* Only one child moves.
LEMMA OneMoves ==
  ASSUME RowsOK, NEW c \in Children, NEW row \in ChildRows,
         child' = [child EXCEPT ![c] = row], Changes(c), settled' \in [Batches -> Seq(Children)]
  PROVE  Moves
<1>1. child' \in [Children -> ChildRows] /\ \A x \in Children \ {c} : child'[x] = child[x]
  BY DEF RowsOK
<1>2. ASSUME NEW x \in Children \ {c} PROVE Changes(x)
  BY <1>1, <1>2 DEF Changes, Kept, Settled
<1> QED BY <1>1, <1>2 DEF Moves

LEMMA FinalizeMoves ==
  ASSUME RowsOK, NEW c \in Children, ~Settled(c), NEW status \in Terminal,
         NEW code \in FailureCodes \cup {"none", "other"}, Finalize(c, status, code)
  PROVE  Moves
<1> DEFINE slot == IF child[c].slot = "active" THEN "done" ELSE child[c].slot
           row == [child[c] EXCEPT !.status = status, !.code = code, !.slot = slot]
<1>1. child[c] \in ChildRows
  BY DEF RowsOK
<1>2. slot \in {"none", "done"} /\ status \in ChildStatuses
  BY <1>1 DEF ChildRows, ChildStatuses
<1>3. ReleaseSlot([child[c] EXCEPT !.status = status, !.code = code]) = row
  BY <1>1 DEF ReleaseSlot, ChildRows
<1>4. child' = [child EXCEPT ![c] = row]
  BY <1>3, Zenon DEF Finalize
<1> HIDE DEF slot
<1>5. /\ row \in ChildRows /\ row.status = status /\ row.slot = slot /\ row.run = child[c].run
      /\ row.called = child[c].called
  BY <1>1, <1>2 DEF ChildRows
<1> HIDE DEF row
<1>6. child'[c] = row
  BY <1>4 DEF RowsOK
<1>7. Changes(c)
  BY <1>2, <1>5, <1>6 DEF Changes, Finalized
<1>8. settled' \in [Batches -> Seq(Children)]
  <2>1. BatchOf[c] \in Batches /\ settled[BatchOf[c]] \in Seq(Children)
    BY BatchAssumption DEF RowsOK
  <2>2. Append(settled[BatchOf[c]], c) \in Seq(Children)
    BY <2>1
  <2> QED BY <2>2 DEF Finalize, RowsOK
<1> QED BY <1>4, <1>5, <1>7, <1>8, OneMoves

\* A status that is not terminal, from one that is not.
LEMMA StatusMoves ==
  ASSUME RowsOK, NEW c \in Children, ~Settled(c), NEW status \in ChildStatuses \ Terminal,
         child' = [child EXCEPT ![c].status = status], UNCHANGED settled
  PROVE  Moves
<1> DEFINE row == [child[c] EXCEPT !.status = status]
<1>1. child[c] \in ChildRows /\ child' = [child EXCEPT ![c] = row]
  BY DEF RowsOK
<1>2. /\ row \in ChildRows /\ row.status = status /\ row.slot = child[c].slot
      /\ row.run = child[c].run /\ row.called = child[c].called
  BY <1>1 DEF ChildRows
<1> HIDE DEF row
<1>3. child'[c] = row
  BY <1>1 DEF RowsOK
<1>4. Changes(c)
  BY <1>2, <1>3 DEF Changes, Kept, Settled
<1> QED BY <1>1, <1>2, <1>4, OneMoves DEF RowsOK

\* A workflow that ran ends.
LEMMA RunMoves ==
  ASSUME RowsOK, NEW c \in Children, child[c].run = "running", NEW run \in {"done", "failed"},
         child' = [child EXCEPT ![c].run = run], UNCHANGED settled
  PROVE  Moves
<1> DEFINE row == [child[c] EXCEPT !.run = run]
<1>1. child[c] \in ChildRows /\ child' = [child EXCEPT ![c] = row]
  BY DEF RowsOK
<1>2. /\ row \in ChildRows /\ row.status = child[c].status /\ row.slot = child[c].slot
      /\ row.run = run /\ row.called = child[c].called
  BY <1>1 DEF ChildRows
<1> HIDE DEF row
<1>3. child'[c] = row
  BY <1>1 DEF RowsOK
<1>4. Changes(c)
  BY <1>2, <1>3 DEF Changes, Kept, Settled
<1> QED BY <1>1, <1>2, <1>4, OneMoves DEF RowsOK

LEMMA TakeMoves ==
  ASSUME RowsOK, NEW b \in Batches, NEW c \in Members(b), TakesSlot(b, c), TakeSlot(c),
         UNCHANGED settled
  PROVE  Moves
<1> DEFINE row == [child[c] EXCEPT !.slot = "active"]
<1>1. /\ child[c] \in ChildRows /\ child' = [child EXCEPT ![c] = row]
      /\ c \in Children /\ BatchOf[c] = b
  BY DEF RowsOK, TakeSlot, Members
<1>2. /\ row \in ChildRows /\ row.status = child[c].status /\ row.slot = "active"
      /\ row.run = child[c].run /\ row.called = child[c].called
  BY <1>1 DEF ChildRows
<1> HIDE DEF row
<1>3. child'[c] = row
  BY <1>1 DEF RowsOK
<1>4. child[c].status = "confirmed" /\ child[c].slot = "none"
  BY DEF TakesSlot, Admits
<1>5. Changes(c)
  BY <1>1, <1>2, <1>3, <1>4 DEF Changes, Took, Settled, Terminal
<1> QED BY <1>1, <1>2, <1>5, OneMoves DEF RowsOK

LEMMA StartMoves ==
  ASSUME RowsOK, StepsOK, NEW b \in Batches, StartChild(b)
  PROVE  Moves
<1> DEFINE c == parent[b].at
           row == [child[c] EXCEPT !.run = "running"]
<1>1. c \in Children /\ parent[b].pc = "start_child"
  BY DEF StepsOK, Good, Aimed, StartChild, Members
<1>2. UNCHANGED <<child, settled>> \/ (child' = [child EXCEPT ![c].run = "running"] /\ UNCHANGED settled)
  BY Zenon DEF StartChild
<1>3. CASE UNCHANGED <<child, settled>>
  BY <1>3, NoMove
<1>4. CASE child' = [child EXCEPT ![c].run = "running"] /\ UNCHANGED settled
  <2>1. child[c] \in ChildRows /\ child' = [child EXCEPT ![c] = row]
    BY <1>1, <1>4 DEF RowsOK
  <2>2. /\ row \in ChildRows /\ row.status = child[c].status /\ row.slot = child[c].slot
        /\ row.called = child[c].called
    BY <2>1 DEF ChildRows
  <2> HIDE DEF row
  <2>3. child'[c] = row
    BY <1>1, <2>1 DEF RowsOK
  <2>4. Changes(c)
    BY <1>1, <2>2, <2>3 DEF Changes, Begun
  <2> HIDE DEF c
  <2> QED BY <1>1, <1>4, <2>1, <2>2, <2>4, OneMoves DEF RowsOK
<1> QED BY <1>2, <1>3, <1>4

LEMMA SignalMoves ==
  ASSUME RowsOK, StepsOK, NEW b \in Batches, SignalChild(b)
  PROVE  Moves
<1> DEFINE c == parent[b].at
           row == [child[c] EXCEPT !.signalled = TRUE]
<1>1. c \in Children
  BY DEF StepsOK, Good, Aimed, SignalChild, Members
<1>2. UNCHANGED <<child, settled>> \/ (child' = [child EXCEPT ![c].signalled = TRUE] /\ UNCHANGED settled)
  BY Zenon DEF SignalChild
<1>3. CASE UNCHANGED <<child, settled>>
  BY <1>3, NoMove
<1>4. CASE child' = [child EXCEPT ![c].signalled = TRUE] /\ UNCHANGED settled
  <2>1. child[c] \in ChildRows /\ child' = [child EXCEPT ![c] = row]
    BY <1>1, <1>4 DEF RowsOK
  <2>2. /\ row \in ChildRows /\ row.status = child[c].status /\ row.slot = child[c].slot
        /\ row.run = child[c].run /\ row.called = child[c].called
    BY <2>1 DEF ChildRows
  <2> HIDE DEF row
  <2>3. child'[c] = row
    BY <1>1, <2>1 DEF RowsOK
  <2>4. Changes(c)
    BY <2>2, <2>3 DEF Changes, Kept, Settled
  <2> HIDE DEF c
  <2> QED BY <1>1, <1>4, <2>1, <2>2, <2>4, OneMoves DEF RowsOK
<1> QED BY <1>2, <1>3, <1>4

LEMMA CallMoves ==
  ASSUME RowsOK, NEW c \in Children, ChildCalls(c)
  PROVE  Moves
<1> DEFINE status == IF child[c].called THEN "submitted" ELSE child[c].status
           row == [child[c] EXCEPT !.called = TRUE, !.status = status]
<1>1. child[c] \in ChildRows /\ child' = [child EXCEPT ![c] = row] /\ child[c].status = "submitting"
  BY DEF RowsOK, ChildCalls, MayCall
<1>2. status \in {"submitting", "submitted"}
  BY <1>1
<1> HIDE DEF status
<1>3. /\ row \in ChildRows /\ row.status = status /\ row.slot = child[c].slot
      /\ row.run = child[c].run
  BY <1>1, <1>2 DEF ChildRows, ChildStatuses
<1> HIDE DEF row
<1>4. child'[c] = row
  BY <1>1 DEF RowsOK
<1>5. Changes(c)
  BY <1>1, <1>2, <1>3, <1>4 DEF Changes, Kept, Settled, Terminal
<1>6. UNCHANGED settled
  BY DEF ChildCalls
<1> QED BY <1>1, <1>3, <1>5, <1>6, OneMoves DEF RowsOK

LEMMA MovesOn ==
  ASSUME TInv, Next
  PROVE  Moves
<1> USE DEF TInv
<1>1. ASSUME NEW b \in Batches, parent[b].pc \in Aimed PROVE parent[b].at \in Members(b) /\ parent[b].at \in Children
  BY <1>1 DEF StepsOK, Good, Members
<1>2. ASSUME NEW b \in Batches, AcquireBatchLaunch(b) PROVE Moves
  <2>1. parent[b].at \in Members(b)
    BY <1>1, <1>2 DEF AcquireBatchLaunch, Aimed
  <2>2. \/ TakesSlot(b, parent[b].at) /\ TakeSlot(parent[b].at) /\ UNCHANGED settled
        \/ UNCHANGED <<child, settled>>
    BY <1>2, Zenon DEF AcquireBatchLaunch
  <2> QED BY <2>1, <2>2, TakeMoves, NoMove
<1>3. ASSUME NEW b \in Batches, ClaimChild(b) PROVE Moves
  <2> DEFINE c == parent[b].at
  <2>1. c \in Children
    BY <1>1, <1>3 DEF ClaimChild, Aimed
  <2>2. \/ /\ child[c].status \in {"confirmed", "submitting"}
           /\ child' = [child EXCEPT ![c].status = "cancelling"] /\ UNCHANGED settled
        \/ UNCHANGED <<child, settled>>
    BY <1>3, Zenon DEF ClaimChild
  <2> HIDE DEF c
  <2>3. child[c].status \in {"confirmed", "submitting"} => ~Settled(c)
    BY DEF Settled, Terminal
  <2>4. "cancelling" \in ChildStatuses \ Terminal
    BY DEF ChildStatuses, Terminal
  <2> QED BY <2>1, <2>2, <2>3, <2>4, StatusMoves, NoMove
<1>4. ASSUME NEW b \in Batches, SettleChild(b) PROVE Moves
  <2> DEFINE c == parent[b].at
  <2>1. c \in Children
    BY <1>1, <1>4 DEF SettleChild, Aimed
  <2>2. \/ child[c].status = "cancelling" /\ Finalize(c, "cancelled", "none")
        \/ UNCHANGED <<child, settled>>
    BY <1>4, Zenon DEF SettleChild
  <2> HIDE DEF c
  <2>3. child[c].status = "cancelling" => ~Settled(c)
    BY DEF Settled, Terminal
  <2>4. "cancelled" \in Terminal
    BY DEF Terminal
  <2> QED BY <2>1, <2>2, <2>3, <2>4, FinalizeMoves, NoMove
<1>5. ASSUME NEW b \in Batches, Parent(b) PROVE Moves
  <2>1. Load(b) \/ Pass(b) \/ MarkWorkflowBatchRunning(b) \/ PauseWorkflowBatch(b) \/ ResumeWorkflowBatch(b)
        \/ MarkWorkflowBatchCancelRequested(b) \/ ReloadChild(b) \/ FinishWorkflowBatch(b)
          => UNCHANGED <<child, settled>>
    BY Zenon DEF Load, Pass, MarkWorkflowBatchRunning, PauseWorkflowBatch, ResumeWorkflowBatch,
         MarkWorkflowBatchCancelRequested, ReloadChild, FinishWorkflowBatch, RowsUnchanged
  <2> QED BY <1>5, <1>2, <1>3, <1>4, <2>1, NoMove, StartMoves, SignalMoves, Zenon DEF Parent
<1>6. ASSUME NEW b \in Batches, StartBatch(b) \/ AttemptTimesOut(b) PROVE Moves
  BY <1>6, NoMove, Zenon DEF StartBatch, AttemptTimesOut, RowsUnchanged
<1>7. ASSUME NEW b \in Batches, NEW action \in Controls, RequestControl(b, action) \/ DeliverControl(b, action)
      PROVE Moves
  BY <1>7, NoMove, Zenon DEF RequestControl, DeliverControl, RowsUnchanged
<1>8. ASSUME NEW r \in late, ExecuteLate(r) PROVE Moves
  <2>1. \/ r.step = "acquire" /\ TakesSlot(r.batch, r.at) /\ TakeSlot(r.at) /\ UNCHANGED settled
        \/ UNCHANGED <<child, settled>>
    BY <1>8 DEF ExecuteLate
  <2>2. r.batch \in Batches /\ (r.step = "acquire" => r.at \in Members(r.batch))
    BY DEF RestOK, Requests
  <2> QED BY <2>1, <2>2, TakeMoves, NoMove
<1>9. ASSUME NEW c \in Children, ChildSubmits(c) PROVE Moves
  <2>1. ~Settled(c) /\ "submitting" \in ChildStatuses \ Terminal
    BY <1>9 DEF ChildSubmits, Settled, Terminal, ChildStatuses
  <2> QED BY <1>9, <2>1, StatusMoves, Zenon DEF ChildSubmits
<1>10. ASSUME NEW c \in Children, ChildSettles(c) PROVE Moves
  <2>1. ~Settled(c)
    BY <1>10 DEF ChildSettles, Settled, Terminal
  <2>2. \E status \in Terminal, code \in FailureCodes \cup {"none", "other"} : Finalize(c, status, code)
    BY <1>10, Zenon DEF ChildSettles, Terminal
  <2> QED BY <2>1, <2>2, FinalizeMoves
<1>11. ASSUME NEW c \in Children, ChildEnds(c) \/ ChildBreaks(c) PROVE Moves
  <2>1. /\ child[c].run = "running" /\ UNCHANGED settled
        /\ \E run \in {"done", "failed"} : child' = [child EXCEPT ![c].run = run]
    BY <1>11, Zenon DEF ChildEnds, ChildBreaks
  <2> QED BY <2>1, RunMoves
<1>12. ASSUME NEW p \in Providers, ChangeProviderStatus(p) PROVE Moves
  BY <1>12, NoMove, Zenon DEF ChangeProviderStatus, RowsUnchanged
<1> QED BY <1>5, <1>6, <1>7, <1>8, <1>9, <1>10, <1>11, <1>12, CallMoves, Zenon DEF Next

-----------------------------------------------------------------------------
(* What a step does to one batch row.                                      *)

\* Its status, intent and summary stay.
Rests(b) ==
  /\ batch'[b].status = batch[b].status /\ batch'[b].cancelled = batch[b].cancelled
  /\ batch'[b].succeeded = batch[b].succeeded /\ batch'[b].failed = batch[b].failed
  /\ batch'[b].events = batch[b].events

\* A batch that is not over is still not over.
GoesOn(b) ==
  ~IsOver(b) /\ batch'[b].status \notin Over /\ batch'[b].events = batch[b].events

\* The batch gets over: every child is settled, and the counts are theirs.
Finishes(b) ==
  /\ ~IsOver(b) /\ Ready(b) /\ UNCHANGED child
  /\ batch'[b].status = IF batch[b].cancelled THEN "cancelled" ELSE "finished"
  /\ batch'[b].cancelled = batch[b].cancelled
  /\ batch'[b].succeeded = Count(b, "completed") /\ batch'[b].failed = Count(b, "failed")
  /\ batch'[b].events = batch[b].events + 1

Progresses ==
  /\ batch' \in [Batches -> BatchRows]
  /\ \A b \in Batches : Rests(b) \/ GoesOn(b) \/ Finishes(b)

LEMMA CountTyped ==
  ASSUME NEW b \in Batches, NEW status
  PROVE  Count(b, status) \in Nat
<1>1. IsFiniteSet({c \in Members(b) : child[c].status = status})
  BY FS_Subset, BatchAssumption DEF Members
<1> QED BY <1>1, FS_CardinalityType DEF Count

LEMMA NoProgress ==
  ASSUME RowsOK, UNCHANGED batch
  PROVE  Progresses
BY DEF RowsOK, Progresses, Rests

\* Only one row changes.
LEMMA OneProgresses ==
  ASSUME RowsOK, NEW b \in Batches, NEW row \in BatchRows, batch' = [batch EXCEPT ![b] = row],
         Rests(b) \/ GoesOn(b) \/ Finishes(b)
  PROVE  Progresses
<1>1. batch' \in [Batches -> BatchRows] /\ \A x \in Batches \ {b} : batch'[x] = batch[x]
  BY DEF RowsOK
<1>2. ASSUME NEW x \in Batches \ {b} PROVE Rests(x)
  BY <1>1, <1>2 DEF Rests
<1> QED BY <1>1, <1>2 DEF Progresses

LEMMA PauseProgresses ==
  ASSUME RowsOK, NEW b \in Batches, NEW reason \in FailureCodes \cup {"none"},
         batch' = [batch EXCEPT ![b].paused = reason]
  PROVE  Progresses
<1> DEFINE row == [batch[b] EXCEPT !.paused = reason]
<1>1. batch[b] \in BatchRows /\ batch' = [batch EXCEPT ![b] = row]
  BY DEF RowsOK
<1>2. /\ row \in BatchRows /\ row.status = batch[b].status /\ row.cancelled = batch[b].cancelled
      /\ row.succeeded = batch[b].succeeded /\ row.failed = batch[b].failed
      /\ row.events = batch[b].events
  BY <1>1 DEF BatchRows
<1> HIDE DEF row
<1>3. batch'[b] = row
  BY <1>1 DEF RowsOK
<1>4. Rests(b)
  BY <1>2, <1>3 DEF Rests
<1> QED BY <1>1, <1>2, <1>4, OneProgresses

LEMMA RunProgresses ==
  ASSUME RowsOK, NEW b \in Batches, batch[b].status = "confirmed",
         batch' = [batch EXCEPT ![b].status = "running"]
  PROVE  Progresses
<1> DEFINE row == [batch[b] EXCEPT !.status = "running"]
<1>1. batch[b] \in BatchRows /\ batch' = [batch EXCEPT ![b] = row]
  BY DEF RowsOK
<1>2. row \in BatchRows /\ row.status = "running" /\ row.events = batch[b].events
  BY <1>1 DEF BatchRows
<1> HIDE DEF row
<1>3. batch'[b] = row
  BY <1>1 DEF RowsOK
<1>4. GoesOn(b)
  BY <1>2, <1>3 DEF GoesOn, IsOver, Over
<1> QED BY <1>1, <1>2, <1>4, OneProgresses

LEMMA CancelProgresses ==
  ASSUME RowsOK, NEW b \in Batches, batch[b].status = "running",
         batch' = [batch EXCEPT ![b].cancelled = TRUE]
  PROVE  Progresses
<1> DEFINE row == [batch[b] EXCEPT !.cancelled = TRUE]
<1>1. batch[b] \in BatchRows /\ batch' = [batch EXCEPT ![b] = row]
  BY DEF RowsOK
<1>2. row \in BatchRows /\ row.status = "running" /\ row.events = batch[b].events
  BY <1>1 DEF BatchRows
<1> HIDE DEF row
<1>3. batch'[b] = row
  BY <1>1 DEF RowsOK
<1>4. GoesOn(b)
  BY <1>2, <1>3 DEF GoesOn, IsOver, Over
<1> QED BY <1>1, <1>2, <1>4, OneProgresses

LEMMA FinishProgresses ==
  ASSUME RowsOK, NEW b \in Batches, FinishWorkflowBatch(b)
  PROVE  Progresses
<1> DEFINE status == IF batch[b].cancelled THEN "cancelled" ELSE "finished"
           succeeded == Count(b, "completed")
           failed == Count(b, "failed")
           events == batch[b].events + 1
           row == [batch[b] EXCEPT !.status = status, !.succeeded = succeeded, !.failed = failed,
                                   !.paused = "none", !.events = events]
<1>1. batch[b] \in BatchRows /\ batch[b].events \in Nat
  BY DEF RowsOK, BatchRows
<1>2. \/ UNCHANGED batch
      \/ /\ ~AlreadyFinished(b) /\ Ready(b) /\ UNCHANGED child
         /\ batch' = [batch EXCEPT ![b].status = status, ![b].succeeded = succeeded,
                        ![b].failed = failed, ![b].paused = "none", ![b].events = @ + 1]
  BY Zenon DEF FinishWorkflowBatch
<1>3. [batch EXCEPT ![b].status = status, ![b].succeeded = succeeded, ![b].failed = failed,
                    ![b].paused = "none", ![b].events = @ + 1] = [batch EXCEPT ![b] = row]
  <2> HIDE DEF status, succeeded, failed
  <2> QED BY <1>1 DEF RowsOK, BatchRows
<1>4. status \in Over /\ succeeded \in Nat /\ failed \in Nat /\ events \in Nat
  <2>1. succeeded \in Nat /\ failed \in Nat
    BY CountTyped
  <2>2. status \in Over
    BY DEF Over
  <2> HIDE DEF succeeded, failed, status
  <2> QED BY <1>1, <2>1, <2>2
<1>5. CASE UNCHANGED batch
  BY <1>5, NoProgress
<1>6. CASE ~AlreadyFinished(b) /\ Ready(b) /\ UNCHANGED child /\ batch' = [batch EXCEPT ![b] = row]
  <2> DEFINE goal == Finishes(b)
  <2>1. /\ row \in BatchRows /\ row.status = status /\ row.succeeded = succeeded
        /\ row.failed = failed /\ row.events = events /\ row.cancelled = batch[b].cancelled
    <3> HIDE DEF status, succeeded, failed, events
    <3> QED BY <1>1, <1>4 DEF BatchRows
  <2> HIDE DEF row
  <2>2. batch'[b] = row
    BY <1>6 DEF RowsOK
  <2>3. Finishes(b)
    BY <1>6, <2>1, <2>2, Zenon DEF Finishes, IsOver, AlreadyFinished
  <2> QED BY <1>6, <2>1, <2>3, OneProgresses
<1> QED BY <1>2, <1>3, <1>5, <1>6

LEMMA ProgressesOn ==
  ASSUME TInv, Next
  PROVE  Progresses
<1> USE DEF TInv
<1>1. ASSUME NEW b \in Batches, MarkWorkflowBatchRunning(b) PROVE Progresses
  <2>1. \/ batch[b].status = "confirmed" /\ batch' = [batch EXCEPT ![b].status = "running"]
        \/ UNCHANGED batch
    BY <1>1, Zenon DEF MarkWorkflowBatchRunning
  <2> QED BY <2>1, NoProgress, RunProgresses
<1>2. ASSUME NEW b \in Batches, PauseWorkflowBatch(b) PROVE Progresses
  <2>1. UNCHANGED batch \/ batch' = [batch EXCEPT ![b].paused = parent[b].view.streak]
    BY <1>2, Zenon DEF PauseWorkflowBatch
  <2>2. parent[b].view.streak \in FailureCodes \cup {"none"}
    BY Fields DEF StepsOK, Good
  <2> QED BY <2>1, <2>2, NoProgress, PauseProgresses
<1>3. ASSUME NEW b \in Batches, ResumeWorkflowBatch(b) PROVE Progresses
  <2>1. UNCHANGED batch \/ batch' = [batch EXCEPT ![b].paused = "none"]
    BY <1>3, Zenon DEF ResumeWorkflowBatch
  <2> QED BY <2>1, NoProgress, PauseProgresses
<1>4. ASSUME NEW b \in Batches, MarkWorkflowBatchCancelRequested(b) PROVE Progresses
  BY <1>4, CancelProgresses, Zenon DEF MarkWorkflowBatchCancelRequested
<1>5. ASSUME NEW b \in Batches, Parent(b) PROVE Progresses
  <2>1. Load(b) \/ Pass(b) \/ AcquireBatchLaunch(b) \/ StartChild(b) \/ ClaimChild(b) \/ SettleChild(b)
        \/ SignalChild(b) \/ ReloadChild(b) => UNCHANGED batch
    BY Zenon DEF Load, Pass, AcquireBatchLaunch, StartChild, ClaimChild, SettleChild, SignalChild,
         ReloadChild, RowsUnchanged
  <2> QED BY <1>5, <1>1, <1>2, <1>3, <1>4, <2>1, NoProgress, FinishProgresses, Zenon DEF Parent
<1>6. ASSUME NEW r \in late, ExecuteLate(r) PROVE Progresses
  <2>1. r.batch \in Batches /\ r.reason \in FailureCodes \cup {"none"}
    BY DEF RestOK, Requests
  <2>2. batch[r.batch].paused \in FailureCodes \cup {"none"}
    BY <2>1 DEF RowsOK, BatchRows
  <2>3. UNCHANGED batch \/ \E reason \in FailureCodes \cup {"none"} : batch' = [batch EXCEPT ![r.batch].paused = reason]
    <3>1. CASE r.step = "acquire"
      BY <1>6, <3>1 DEF ExecuteLate
    <3>2. CASE r.step = "pause"
      BY <1>6, <2>1, <2>2, <3>2 DEF ExecuteLate
    <3>3. CASE r.step # "acquire" /\ r.step # "pause"
      BY <1>6, <2>1, <2>2, <3>3 DEF ExecuteLate
    <3> QED BY <3>1, <3>2, <3>3
  <2> QED BY <2>1, <2>3, NoProgress, PauseProgresses
<1>7. ASSUME NEW b \in Batches, StartBatch(b) \/ AttemptTimesOut(b)
      PROVE Progresses
  BY <1>7, NoProgress, Zenon DEF StartBatch, AttemptTimesOut, RowsUnchanged
<1>8. ASSUME NEW b \in Batches, NEW action \in Controls, RequestControl(b, action) \/ DeliverControl(b, action)
      PROVE Progresses
  BY <1>8, NoProgress, Zenon DEF RequestControl, DeliverControl, RowsUnchanged
<1>9. ASSUME NEW c \in Children, ChildSubmits(c) \/ ChildCalls(c) \/ ChildSettles(c) \/ ChildEnds(c) \/ ChildBreaks(c)
      PROVE Progresses
  BY <1>9, NoProgress, Zenon DEF ChildSubmits, ChildCalls, ChildSettles, ChildEnds, ChildBreaks, ChildUnchanged
<1>10. ASSUME NEW p \in Providers, ChangeProviderStatus(p) PROVE Progresses
  BY <1>10, NoProgress, Zenon DEF ChangeProviderStatus, RowsUnchanged
<1> QED BY <1>5, <1>6, <1>7, <1>8, <1>9, <1>10, Zenon DEF Next

-----------------------------------------------------------------------------
(* The requests under way, and the type invariant.                         *)

LEMMA RestStays ==
  ASSUME RestOK, UNCHANGED <<control, enabled, late>>
  PROVE  RestOK'
BY DEF RestOK, Requests, Members

LEMMA ControlTyped ==
  ASSUME RestOK, NEW b \in Batches, NEW action \in Controls,
         RequestControl(b, action) \/ DeliverControl(b, action)
  PROVE  control' \in [Batches -> [cancel : Nat, resume : Nat, accepted : Nat]]
<1>1. control[b] \in [cancel : Nat, resume : Nat, accepted : Nat]
  BY DEF RestOK
<1>2. \/ control' = [control EXCEPT ![b][action] = @ + 1, ![b].accepted = @ + 1]
      \/ control[b][action] > 0 /\ control' = [control EXCEPT ![b][action] = @ - 1]
  BY Zenon DEF RequestControl, DeliverControl
<1>3. CASE action = "cancel"
  BY <1>1, <1>2, <1>3 DEF RestOK
<1>4. CASE action = "resume"
  BY <1>1, <1>2, <1>4 DEF RestOK
<1> QED BY <1>3, <1>4 DEF Controls

LEMMA RestOn ==
  ASSUME TInv, Next
  PROVE  RestOK'
<1> USE DEF TInv
<1>1. ASSUME NEW b \in Batches, AttemptTimesOut(b) PROVE RestOK'
  <2> DEFINE r == Request(b)
  <2>1. parent[b] \in Parents(b) /\ (parent[b].pc = "acquire" => parent[b].at \in Members(b))
    BY DEF StepsOK, Good, Aimed
  <2>2. /\ parent[b].view.streak \in FailureCodes \cup {"none"}
        /\ parent[b].at \in Children \cup {"none"} /\ parent[b].pc \in {"acquire", "pause", "resume"}
    BY <1>1, <2>1, Fields DEF Members, AttemptTimesOut
  <2>3. r = [step |-> parent[b].pc, batch |-> b, at |-> parent[b].at, reason |-> parent[b].view.streak]
    BY DEF Request
  <2> HIDE DEF r
  <2>4. r \in Requests /\ (r.step = "acquire" => r.at \in Members(r.batch))
    BY <2>1, <2>2, <2>3 DEF Requests
  <2>5. late' = late \cup {r} /\ UNCHANGED <<control, enabled>>
    BY <1>1 DEF AttemptTimesOut, r
  <2> QED BY <2>4, <2>5 DEF RestOK, Requests, Members
<1>2. ASSUME NEW b \in Batches, NEW action \in Controls, RequestControl(b, action) \/ DeliverControl(b, action)
      PROVE RestOK'
  <2>1. UNCHANGED <<enabled, late>>
    BY <1>2, Zenon DEF RequestControl, DeliverControl
  <2> QED BY <1>2, <2>1, ControlTyped DEF RestOK, Members
<1>3. ASSUME NEW r \in late, ExecuteLate(r) PROVE RestOK'
  <2>1. late' = late \ {r} /\ UNCHANGED <<control, enabled>>
    BY <1>3, Zenon DEF ExecuteLate
  <2> QED BY <2>1 DEF RestOK, Members
<1>4. ASSUME NEW p \in Providers, ChangeProviderStatus(p) PROVE RestOK'
  <2>1. enabled' \subseteq Providers /\ UNCHANGED <<control, late>>
    BY <1>4 DEF ChangeProviderStatus, RestOK
  <2> QED BY <2>1 DEF RestOK, Members
<1>5. ASSUME NEW b \in Batches, StartBatch(b) \/ Parent(b) PROVE RestOK'
  BY <1>5, RestStays, Zenon DEF StartBatch, Parent, Load, Pass, MarkWorkflowBatchRunning, AcquireBatchLaunch,
     StartChild, PauseWorkflowBatch, ResumeWorkflowBatch, MarkWorkflowBatchCancelRequested, ClaimChild,
     SettleChild, SignalChild, ReloadChild, FinishWorkflowBatch, OthersUnchanged
<1>6. ASSUME NEW c \in Children, ChildSubmits(c) \/ ChildCalls(c) \/ ChildSettles(c) \/ ChildEnds(c) \/ ChildBreaks(c)
      PROVE RestOK'
  BY <1>6, RestStays, Zenon DEF ChildSubmits, ChildCalls, ChildSettles, ChildEnds, ChildBreaks, ChildUnchanged
<1> QED BY <1>1, <1>2, <1>3, <1>4, <1>5, <1>6, Zenon DEF Next

LEMMA TInvHolds == Spec => []TInv
<1>1. Init => TInv
  <2> SUFFICES ASSUME Init PROVE TInv
    OBVIOUS
  <2>1. RowsOK
    BY DEF Init, AtRest, ConfirmedBatch, ConfirmedChild, Unstarted, RowsOK, BatchRows, ChildRows, ChildStatuses
  <2>2. RestOK
    BY DEF Init, AtRest, ConfirmedBatch, ConfirmedChild, Unstarted, RestOK, Requests
  <2>3. DOMAIN parent = Batches
    BY Zenon DEF Init, AtRest, ConfirmedBatch, ConfirmedChild, Unstarted
  <2>4. ASSUME NEW b \in Batches PROVE parent[b] \in Good(b)
    <3> DEFINE v == Nothing(Members(b))
               p == [pc |-> "none", view |-> v, todo |-> {}, at |-> "none", claimed |-> FALSE,
                     started |-> {}, watched |-> {}, acknowledged |-> {}, told |-> {},
                     cancels |-> 0, resumes |-> 0]
    <3>1. v \in Views(b)
      BY NothingTyped
    <3>2. parent[b] = p
      BY Zenon DEF Init, AtRest, ConfirmedBatch, ConfirmedChild, Unstarted
    <3> HIDE DEF v
    <3>3. p \in Parents(b) /\ p.pc = "none"
      BY <3>1 DEF Parents, PCs, Ended
    <3> HIDE DEF p
    <3>4. p \in Good(b)
      BY <3>3 DEF Good, Aimed
    <3> QED BY <3>2, <3>4
  <2> QED BY <2>1, <2>2, <2>3, <2>4 DEF TInv, StepsOK
<1>2. TInv /\ [Next]_vars => TInv'
  <2>1. ASSUME TInv, Next PROVE TInv'
    <3>1. Walks /\ Moves /\ Progresses /\ RestOK'
      BY <2>1, WalksOn, MovesOn, ProgressesOn, RestOn DEF TInv
    <3>2. RowsOK' /\ StepsOK'
      BY <3>1 DEF Walks, Moves, Progresses, RowsOK
    <3> QED BY <3>1, <3>2 DEF TInv
  <2>2. ASSUME TInv, UNCHANGED vars PROVE TInv'
    <3>1. RowsOK' /\ RestOK'
      BY <2>2, RestStays DEF TInv, RowsOK, vars
    <3>2. Walks
      BY <2>2, StandsStill DEF TInv, vars
    <3> QED BY <3>1, <3>2 DEF TInv, Walks
  <2> QED BY <2>1, <2>2
<1> QED BY <1>1, <1>2, PTL DEF Spec

\* Every variable keeps its type, whatever the parents, the children, the users
\* and the late attempts do in whichever order; in particular a late admission
\* is for a child of the batch that asked for it.
THEOREM BatchTypeCorrect == Spec => []TypeOK
<1>1. TInv => TypeOK
  BY DEF TInv, TypeOK, RowsOK, RestOK, StepsOK, Good
<1> QED BY <1>1, TInvHolds, PTL

-----------------------------------------------------------------------------
(* Launch slots.                                                           *)

\* A parent starts a child only once it was admitted.
StartAdmitted ==
  \A b \in Batches :
    parent[b].pc = "start_child" => Holds(parent[b].at) \/ Settled(parent[b].at)

SInv == SlotsHonest /\ StartAdmitted

LEMMA SlotsStep ==
  ASSUME TInv, SInv, Next
  PROVE  SInv'
<1>1. Walks /\ Moves
  BY WalksOn, MovesOn DEF TInv
<1>2. ASSUME NEW c \in Children PROVE Kept(c) \/ Took(c) \/ Begun(c) \/ Finalized(c)
  BY <1>1 DEF Moves, Changes
<1>3. ASSUME NEW c \in Children, Holds(c) \/ Settled(c)
      PROVE  child'[c].slot = "active" \/ child'[c].status \in Terminal
  BY <1>2, <1>3 DEF Kept, Took, Begun, Finalized, Holds, Settled
<1>4. ASSUME NEW c \in Children
      PROVE  /\ child'[c].run # "none" /\ child'[c].status \notin Terminal => child'[c].slot = "active"
             /\ child'[c].status \in Terminal => child'[c].slot # "active"
  <2>1. /\ child[c].run # "none" /\ child[c].status \notin Terminal => child[c].slot = "active"
        /\ child[c].status \in Terminal => child[c].slot # "active"
    BY DEF SInv, SlotsHonest, Holds, Settled
  <2>2. CASE Kept(c)
    BY <2>1, <2>2 DEF Kept, Settled
  <2>3. CASE Took(c)
    BY <2>1, <2>3 DEF Took, Settled
  <2>4. CASE Begun(c)
    <3>1. Holds(c) \/ Settled(c)
      BY <2>4 DEF Begun, SInv, StartAdmitted
    <3> QED BY <2>1, <2>4, <3>1 DEF Begun, Holds, Settled
  <2>5. CASE Finalized(c)
    BY <2>5 DEF Finalized
  <2> QED BY <1>2, <2>2, <2>3, <2>4, <2>5
<1>5. ASSUME NEW b \in Batches, parent'[b].pc = "start_child"
      PROVE  child'[parent'[b].at].slot = "active" \/ child'[parent'[b].at].status \in Terminal
  <2>1. StartsAdmitted(b)
    BY <1>1 DEF Walks
  <2>2. CASE parent[b].pc = "start_child" /\ parent'[b].at = parent[b].at
    <3>1. parent[b].at \in Children
      BY <2>2 DEF TInv, StepsOK, Good, Aimed, Members
    <3> QED BY <2>2, <3>1, <1>3 DEF SInv, StartAdmitted
  <2> QED BY <1>5, <2>1, <2>2 DEF StartsAdmitted
<1> QED BY <1>4, <1>5 DEF SInv, SlotsHonest, StartAdmitted, Holds, Settled

LEMMA SInvHolds == Spec => []SInv
<1>1. Init => SInv
  BY DEF Init, AtRest, ConfirmedBatch, ConfirmedChild, Unstarted, SInv, SlotsHonest, StartAdmitted, Holds, Settled, Terminal
<1>2. TInv /\ SInv /\ [Next]_vars => SInv'
  <2>1. TInv /\ SInv /\ UNCHANGED vars => SInv'
    BY DEF SInv, SlotsHonest, StartAdmitted, Holds, Settled, vars
  <2> QED BY <2>1, SlotsStep
<1> QED BY <1>1, <1>2, TInvHolds, PTL DEF Spec

\* A child that works holds a slot until it is settled, and a settled child
\* holds none: however replies are lost, attempts come late and workflows
\* break, no call escapes the limits and no slot leaks.
THEOREM BatchSlotsHonest == Spec => []SlotsHonest
<1>1. SInv => SlotsHonest
  BY DEF SInv
<1> QED BY <1>1, SInvHolds, PTL

-----------------------------------------------------------------------------
(* The summary.                                                            *)

LEMMA SummaryStep ==
  ASSUME TInv, SummaryExact, Next
  PROVE  SummaryExact'
<1>1. Moves /\ Progresses
  BY MovesOn, ProgressesOn
<1>2. ASSUME NEW c \in Children, Settled(c)
      PROVE  child'[c].status = child[c].status
  BY <1>1, <1>2 DEF Moves, Changes, Kept, Took, Begun, Finalized
<1>3. ASSUME NEW b \in Batches, \A c \in Members(b) : Settled(c), NEW status
      PROVE  Count(b, status)' = Count(b, status) /\ \A c \in Members(b) : Settled(c)'
  <2>1. \A c \in Members(b) : child'[c].status = child[c].status
    BY <1>2, <1>3 DEF Members
  <2>2. {c \in Members(b) : child'[c].status = status} = {c \in Members(b) : child[c].status = status}
    BY <2>1, Zenon
  <2> QED BY <1>3, <2>1, <2>2 DEF Count, Settled, Members
<1>4. ASSUME NEW b \in Batches
      PROVE  /\ batch'[b].events = IF batch'[b].status \in Over THEN 1 ELSE 0
             /\ batch'[b].status \in Over =>
                  /\ \A c \in Members(b) : Settled(c)'
                  /\ batch'[b].succeeded = Count(b, "completed")'
                  /\ batch'[b].failed = Count(b, "failed")'
                  /\ batch'[b].status = "finished" => ~batch'[b].cancelled
  <2>1. /\ batch[b].events = IF batch[b].status \in Over THEN 1 ELSE 0
        /\ batch[b].status \in Over =>
             /\ \A c \in Members(b) : Settled(c)
             /\ batch[b].succeeded = Count(b, "completed")
             /\ batch[b].failed = Count(b, "failed")
             /\ batch[b].status = "finished" => ~batch[b].cancelled
    BY DEF SummaryExact, IsOver
  <2>2. CASE Rests(b)
    <3>1. CASE batch[b].status \in Over
      <4>1. /\ Count(b, "completed")' = Count(b, "completed")
            /\ Count(b, "failed")' = Count(b, "failed")
            /\ \A c \in Members(b) : Settled(c)'
        BY <1>3, <2>1, <3>1
      <4> QED BY <2>1, <2>2, <3>1, <4>1, Zenon DEF Rests
    <3>2. CASE batch[b].status \notin Over
      BY <2>1, <2>2, <3>2, Zenon DEF Rests
    <3> QED BY <3>1, <3>2
  <2>3. CASE GoesOn(b)
    BY <2>1, <2>3, Zenon DEF GoesOn, IsOver
  <2>4. CASE Finishes(b)
    <3>1. \A c \in Members(b) : Settled(c)
      BY <2>4 DEF Finishes, Ready
    <3>2. /\ Count(b, "completed")' = Count(b, "completed")
          /\ Count(b, "failed")' = Count(b, "failed")
          /\ \A c \in Members(b) : Settled(c)'
      BY <1>3, <3>1
    <3>3. batch[b].events = 0 /\ batch'[b].events = 1
      BY <2>1, <2>4 DEF Finishes, IsOver
    <3>4. CASE batch[b].cancelled
      <4>1. batch'[b].status = "cancelled"
        BY <2>4, <3>4, Zenon DEF Finishes
      <4> QED BY <2>4, <3>2, <3>3, <4>1 DEF Finishes, Over
    <3>5. CASE ~batch[b].cancelled
      <4>1. batch'[b].status = "finished" /\ ~batch'[b].cancelled
        BY <2>4, <3>5, Zenon DEF Finishes
      <4>2. "finished" \in Over
        BY DEF Over
      <4> QED BY <2>4, <3>2, <3>3, <4>1, <4>2, Zenon DEF Finishes
    <3> QED BY <3>4, <3>5
  <2> QED BY <1>1, <2>2, <2>3, <2>4 DEF Progresses
<1> QED BY <1>4, Zenon DEF SummaryExact, IsOver

\* The summary a batch is announced with is exact and final: one event, every
\* child settled, counts of what the children became, which no late attempt
\* and no replay of the finish changes.
THEOREM BatchSummaryExact == Spec => []SummaryExact
<1>1. Init => SummaryExact
  BY DEF Init, AtRest, ConfirmedBatch, ConfirmedChild, Unstarted, SummaryExact, IsOver, Over
<1>2. TInv /\ SummaryExact /\ [Next]_vars => SummaryExact'
  <2>1. ASSUME SummaryExact, UNCHANGED vars PROVE SummaryExact'
    <3>1. batch' = batch /\ child' = child
      BY <2>1 DEF vars
    <3>2. \A b \in Batches : /\ Count(b, "completed")' = Count(b, "completed")
                            /\ Count(b, "failed")' = Count(b, "failed")
                            /\ \A c \in Members(b) : Settled(c)' <=> Settled(c)
      BY <3>1, Zenon DEF Count, Settled
    <3> QED BY <2>1, <3>1, <3>2, Zenon DEF SummaryExact, IsOver
  <2> QED BY <2>1, SummaryStep
<1> QED BY <1>1, <1>2, TInvHolds, PTL DEF Spec

\* A child a parent cancelled before its submission never calls its provider:
\* the claim and the submission exclude each other.
THEOREM BatchClaimedNeverCalls == Spec => ClaimedNeverCalls
<1> DEFINE Quiet == \A c \in Children :
             child[c].status \in {"cancelling", "cancelled"} /\ ~child[c].called => ~child'[c].called
<1>1. TInv /\ [Next]_vars => [Quiet]_vars
  <2>1. ASSUME TInv, Next PROVE Quiet
    <3>1. ASSUME NEW c \in Children, child[c].status \in {"cancelling", "cancelled"}
          PROVE child'[c].called = child[c].called
      BY <2>1, <3>1, MovesOn DEF Moves, Changes
    <3> QED BY <3>1, Zenon
  <2> QED BY <2>1
<1> QED BY <1>1, TInvHolds, PTL DEF Spec, ClaimedNeverCalls

-----------------------------------------------------------------------------
(* The limits.                                                             *)

\* How many of a fixed set of children hold a slot after a step.
LEMMA ActiveStep ==
  ASSUME Moves, NEW S \in SUBSET Children
  PROVE  /\ Active(S) \in Nat /\ Active(S)' \in Nat
         /\ \/ Active(S)' <= Active(S)
            \/ Active(S)' = Active(S) + 1 /\ \E c \in S : Took(c)
<1> DEFINE A == {c \in S : child[c].slot = "active"}
           B == {c \in S : child'[c].slot = "active"}
<1>1. Active(S) = Cardinality(A) /\ Active(S)' = Cardinality(B)
  BY Zenon DEF Active, Holds
<1>2. IsFiniteSet(A) /\ IsFiniteSet(B)
  BY FS_Subset, BatchAssumption
<1>3. Cardinality(A) \in Nat /\ Cardinality(B) \in Nat
  BY <1>2, FS_CardinalityType
<1>4. CASE \E c \in S : Took(c)
  <2>1. PICK c \in S : Took(c)
    BY <1>4
  <2>2. c \notin A /\ B = A \cup {c}
    <3>1. /\ child' = [child EXCEPT ![c].slot = "active"]
          /\ child[c].slot = "none" /\ child'[c].slot = "active"
      BY <2>1 DEF Took, TakeSlot
    <3>2. ASSUME NEW x \in S, x # c PROVE child'[x].slot = child[x].slot
      <4>1. x \in Children /\ Changes(x)
        BY DEF Moves
      <4>2. ~Took(x)
        <5>1. CASE Took(x)
          <6>1. child[x].slot # "active" /\ child'[x].slot = "active"
            BY <5>1 DEF Took
          <6>2. child'[x] = child[x] \/ x \notin DOMAIN child
            BY <3>1, <3>2
          <6>3. DOMAIN child' = Children /\ DOMAIN child' = DOMAIN child
            BY <3>1 DEF Moves
          <6> QED BY <4>1, <6>1, <6>2, <6>3
        <5> QED BY <5>1
      <4>3. DOMAIN child' = Children /\ DOMAIN child' = DOMAIN child
        BY <3>1 DEF Moves
      <4> QED BY <3>1, <3>2, <4>1, <4>3
    <3> QED BY <3>1, <3>2
  <2>3. Cardinality(B) = Cardinality(A) + 1
    BY <1>2, <2>2, FS_AddElement
  <2> QED BY <1>1, <1>3, <1>4, <2>3
<1>5. CASE ~(\E c \in S : Took(c))
  <2>1. B \subseteq A
    <3>1. ASSUME NEW x \in S, child'[x].slot = "active" PROVE child[x].slot = "active"
      <4>1. Kept(x) \/ Begun(x) \/ Finalized(x)
        BY <1>5 DEF Moves, Changes
      <4> QED BY <3>1, <4>1 DEF Kept, Begun, Finalized
    <3> QED BY <3>1
  <2>2. Cardinality(B) <= Cardinality(A)
    BY <1>2, <2>1, FS_Subset
  <2> QED BY <1>1, <1>3, <2>2
<1> QED BY <1>4, <1>5

LEMMA NoneActive ==
  ASSUME Init, NEW S \in SUBSET Children
  PROVE  Active(S) = 0
<1>1. {c \in S : Holds(c)} = {}
  BY DEF Init, AtRest, ConfirmedBatch, ConfirmedChild, Unstarted, Holds
<1> QED BY <1>1, FS_EmptySet DEF Active

\* The three limits an admission looked at.
LEMMA RoomTaken ==
  ASSUME NEW c \in Children, Took(c)
  PROVE  /\ Active(InProject(ProjectOf[BatchOf[c]])) < ProjectLimit
         /\ ProviderOf[c] # "none" => Active(Of(ProviderOf[c])) < ProviderLimit[ProviderOf[c]]
         /\ SourceOf[BatchOf[c]] # "none" =>
              \A limit \in SourceLimits(BatchOf[c]) : Active(FromSource(SourceOf[BatchOf[c]])) < limit
BY Zenon DEF Took, TakesSlot, HasRoom

\* No project and no provider has more launches than its limit, however many
\* batches compete, however late their attempts commit and whenever the
\* administrator changes a provider.
THEOREM BatchCapacityKept == Spec => []CapacityKept
<1>1. Init => CapacityKept
  <2> SUFFICES ASSUME Init PROVE CapacityKept
    OBVIOUS
  <2>1. ASSUME NEW q \in Projects PROVE Active(InProject(q)) = 0
    BY NoneActive DEF InProject
  <2>2. ASSUME NEW p \in Providers PROVE Active(Of(p)) = 0
    BY NoneActive DEF Of
  <2> QED BY <2>1, <2>2, BatchAssumption DEF CapacityKept
<1>2. TInv /\ CapacityKept /\ [Next]_vars => CapacityKept'
  <2>1. ASSUME CapacityKept, Moves PROVE CapacityKept'
    <3>1. ASSUME NEW q \in Projects PROVE Active(InProject(q))' <= ProjectLimit
      <4> DEFINE S == InProject(q)
      <4>1. S \in SUBSET Children /\ \A c \in S : ProjectOf[BatchOf[c]] = q
        BY DEF InProject
      <4>2. Active(S) <= ProjectLimit
        BY <2>1 DEF CapacityKept
      <4>3. \A c \in S : Took(c) => Active(S) < ProjectLimit
        BY <4>1, RoomTaken
      <4>4. Active(S)' = Active(InProject(q))'
        BY DEF InProject
      <4> HIDE DEF S
      <4>5. /\ Active(S) \in Nat /\ Active(S)' \in Nat
            /\ Active(S)' <= Active(S) \/ (Active(S)' = Active(S) + 1 /\ \E c \in S : Took(c))
        BY <2>1, <4>1, ActiveStep
      <4>6. Active(S)' <= ProjectLimit
        BY <4>2, <4>3, <4>5, BatchAssumption
      <4> QED BY <4>4, <4>6
    <3>2. ASSUME NEW p \in Providers PROVE Active(Of(p))' <= ProviderLimit[p]
      <4> DEFINE S == Of(p)
      <4>1. S \in SUBSET Children /\ \A c \in S : ProviderOf[c] = p /\ p # "none"
        BY BatchAssumption DEF Of
      <4>2. Active(S) <= ProviderLimit[p] /\ ProviderLimit[p] \in Nat
        BY <2>1, BatchAssumption DEF CapacityKept
      <4>3. \A c \in S : Took(c) => Active(S) < ProviderLimit[p]
        BY <4>1, RoomTaken
      <4>4. Active(S)' = Active(Of(p))'
        BY DEF Of
      <4> HIDE DEF S
      <4>5. /\ Active(S) \in Nat /\ Active(S)' \in Nat
            /\ Active(S)' <= Active(S) \/ (Active(S)' = Active(S) + 1 /\ \E c \in S : Took(c))
        BY <2>1, <4>1, ActiveStep
      <4>6. Active(S)' <= ProviderLimit[p]
        BY <4>2, <4>3, <4>5
      <4> QED BY <4>4, <4>6
    <3> QED BY <3>1, <3>2 DEF CapacityKept
  <2>2. TInv /\ [Next]_vars => Moves
    <3>1. TInv /\ UNCHANGED vars => Moves
      BY NoMove DEF TInv, vars
    <3> QED BY <3>1, MovesOn
  <2> QED BY <2>1, <2>2
<1> QED BY <1>1, <1>2, TInvHolds, PTL DEF Spec

\* While a batch holds a slot for a canvas node, every batch of that node obeys
\* the concurrency it was confirmed with, whichever of them asks next.
THEOREM BatchSourceShareKept == Spec => []SourceShareKept
<1>1. Init => SourceShareKept
  BY DEF Init, AtRest, ConfirmedBatch, ConfirmedChild, Unstarted, SourceShareKept, Holds
<1>2. TInv /\ SourceShareKept /\ [Next]_vars => SourceShareKept'
  <2>1. TInv /\ [Next]_vars => Moves
    <3>1. TInv /\ UNCHANGED vars => Moves
      BY NoMove DEF TInv, vars
    <3> QED BY <3>1, MovesOn
  <2>2. ASSUME SourceShareKept, Moves PROVE SourceShareKept'
    <3>1. ASSUME NEW c \in Children, child'[c].slot = "active", SourceOf[BatchOf[c]] # "none"
          PROVE  Active(FromSource(SourceOf[BatchOf[c]]))' <= Concurrency[BatchOf[c]]
      <4> DEFINE s == SourceOf[BatchOf[c]]
                 S == FromSource(s)
                 limit == Concurrency[BatchOf[c]]
      <4>1. S \in SUBSET Children /\ c \in S /\ \A d \in S : SourceOf[BatchOf[d]] = s
        BY DEF FromSource
      <4>2. limit \in Nat
        BY BatchAssumption
      <4>3. Active(S)' = Active(FromSource(SourceOf[BatchOf[c]]))'
        BY DEF FromSource
      <4>4. Holds(c) => Active(S) <= limit
        BY <2>2, <3>1 DEF SourceShareKept
      <4>5. Holds(c) => \A d \in S : Took(d) => Active(S) < limit
        <5>1. ASSUME Holds(c), NEW d \in S, Took(d) PROVE Active(S) < limit
          <6>1. d \in Children /\ SourceOf[BatchOf[d]] = s
            BY <4>1
          <6>2. limit \in SourceLimits(BatchOf[d])
            BY <4>1, <5>1, <6>1 DEF SourceLimits
          <6> HIDE DEF limit
          <6> QED BY <3>1, <5>1, <6>1, <6>2, RoomTaken
        <5> QED BY <5>1
      <4>6. ~Holds(c) => Active(S) < limit
        <5>1. ASSUME ~Holds(c) PROVE Active(S) < limit
          <6>1. Took(c)
            BY <2>2, <3>1, <5>1 DEF Moves, Changes, Kept, Begun, Finalized, Holds
          <6>2. limit \in SourceLimits(BatchOf[c])
            BY DEF SourceLimits
          <6> HIDE DEF limit
          <6> QED BY <3>1, <6>1, <6>2, RoomTaken
        <5> QED BY <5>1
      <4> HIDE DEF S, limit
      <4>7. /\ Active(S) \in Nat /\ Active(S)' \in Nat
            /\ Active(S)' <= Active(S) \/ (Active(S)' = Active(S) + 1 /\ \E d \in S : Took(d))
        BY <2>2, <4>1, ActiveStep
      <4>8. Active(S)' <= limit
        <5>1. CASE Holds(c)
          BY <5>1, <4>2, <4>4, <4>5, <4>7
        <5>2. CASE ~Holds(c)
          BY <5>2, <4>2, <4>6, <4>7
        <5> QED BY <5>1, <5>2
      <4> QED BY <4>3, <4>8 DEF limit
    <3> QED BY <3>1 DEF SourceShareKept, Holds
  <2> QED BY <2>1, <2>2
<1> QED BY <1>1, <1>2, TInvHolds, PTL DEF Spec
=============================================================================
