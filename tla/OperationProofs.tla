-------------------------- MODULE OperationProofs --------------------------
(***************************************************************************)
(* Proofs about Operation for every number of submit attempts, queries and *)
(* late attempts.                                                          *)
(***************************************************************************)
EXTENDS Operation, TLAPS

TransitionNames ==
  {"submit", "provider_accepted", "provider_result_unknown", "reconcile",
   "reconciled_found", "reconcile_unresolved", "manual_succeeded",
   "poll_result_unknown", "cancel_requested", "cancel_not_confirmed",
   "cancel_result_unknown", "provider_succeeded", "ingest"}

Opened == Statuses \ Terminal

(* Every request of the table starts and ends in a status that is not     *)
(* terminal.                                                               *)
LEMMA TransitionTable ==
  /\ DOMAIN Transitions = TransitionNames
  /\ \A n \in TransitionNames :
       /\ Transitions[n].from \in Opened
       /\ Transitions[n].to \in Opened
       /\ Transitions[n].next \in PCs
<1>1. DOMAIN Transitions = TransitionNames
  BY DEF Transitions, TransitionNames
<1>2. ASSUME NEW n \in TransitionNames
      PROVE /\ Transitions[n].from \in Opened
            /\ Transitions[n].to \in Opened
            /\ Transitions[n].next \in PCs
  BY <1>1 DEF Transitions, TransitionNames, Step, Opened, Statuses, Terminal, PCs,
       DatabaseSteps, ProviderSteps, Ended
<1> QED BY <1>1, <1>2

(* The steps of the workflow are named without the table. *)
LEMMA StepNames ==
  /\ DatabaseSteps = TransitionNames \cup {"settle", "reuse"}
  /\ PCs = TransitionNames \cup {"settle", "reuse"} \cup ProviderSteps \cup Ended \cup
       {"load", "check_consent", "submitted", "manual", "check_not_executed",
        "ingest_outputs"}
BY TransitionTable DEF DatabaseSteps, PCs

LEMMA RequestType ==
  ASSUME NEW w \in Workflows, w.pc \in DatabaseSteps
  PROVE  Request(w) \in Requests
<1> DEFINE r == Request(w)
<1>1. w.pc \in TransitionNames \cup {"settle", "reuse"}
  BY StepNames
<1>2. w.status \in Statuses /\ w.to \in Statuses /\ w.code \in Codes /\ w.task \in TaskIds
  BY DEF Workflows, Statuses
<1>3. r.from \in Statuses
  BY <1>2, TransitionTable DEF Request, Opened
<1>4. r.to \in Statuses
  BY <1>2, TransitionTable DEF Request, Opened, Statuses, Terminal
<1>5. r.code \in Codes /\ r.task \in TaskIds
  BY <1>2 DEF Request, Codes, TaskIds
<1>6. r = [name |-> r.name, from |-> r.from, to |-> r.to, code |-> r.code, task |-> r.task]
  BY DEF Request
<1>7. r.name \in DatabaseSteps
  BY DEF Request
<1> HIDE DEF r
<1>8. r \in Requests
  BY <1>3, <1>4, <1>5, <1>6, <1>7 DEF Requests
<1> QED BY <1>8 DEF r

-----------------------------------------------------------------------------
(* The inductive invariant, part by part.                                  *)

\* The first submission is not under way.
BeforeSubmit == {"load", "check_consent", "reuse", "submit", "begin_submit"}

Calls == {"call_submit", "complete_submit", "call_query", "complete_query",
          "call_cancel", "complete_cancel"}

Plain == PCs \ (BeforeSubmit \cup Calls)

WorkflowOK(w) ==
  /\ w \in Workflows
  /\ w.status \in Terminal => w.pc = "done"
  /\ w.purpose = "manual_poll" => w.task = "own"
  /\ w.purpose = "verify" => w.claim # "none"
  /\ w.reported # "foreign"
  /\ w.pc = "complete_submit" =>
       w.report \in {"accepted", "rejected", "not_submitted", "unknown"}
  /\ w.pc = "complete_cancel" => w.report \in {"cancelled", "not_cancelled", "unknown"}
  /\ w.pc = "complete_query" => w.answer # "none"

\* A request that timed out neither leaves a terminal status nor, unless it
\* is gated by the charge evidence, enters one.
LateOK ==
  \A r \in late :
    /\ r.from \notin Terminal
    /\ r.name \notin {"settle", "reuse"} => r.to \notin Terminal

TypeInv == TypeOK /\ WorkflowOK(wf) /\ LateOK

\* The attempts the workflow has not made have no row, and the one it is
\* about to make has none that was answered.
AttemptsOK ==
  /\ \A i \in 1..MaxSubmits : i > wf.attempt => submits[i] = "none"
  /\ wf.pc \in BeforeSubmit => submits[wf.attempt] \in {"none", "open"}
  /\ wf.pc = "call_submit" => submits[wf.attempt] = "open"

\* A request is dispatched only while none ran or is under way, and one that
\* did run is never without a row that says so.
ExecutionsOK ==
  /\ wf.pc \in BeforeSubmit \cup {"call_submit"} =>
       provider.executions = 0 /\ provider.flying = 0
  /\ wf.pc = "complete_submit" /\ wf.report \in {"rejected", "not_submitted"} =>
       provider.executions = 0 /\ provider.flying = 0
  /\ provider.executions + provider.flying <= 1
  /\ provider.task = "none" <=> provider.executions = 0
  /\ provider.executions + provider.flying > 0 => MayHaveRun

TaskEnded ==
  provider.flying = 0 /\ provider.task \in {"succeeded", "failed", "cancelled"}

\* An answer that establishes the charge is true of the provider, recorded
\* or still on its way to the row.
EvidenceOK ==
  /\ Conclusive => TaskEnded
  /\ wf.pc = "complete_query" /\ wf.answer \in {"succeeded", "empty", "failed"} => TaskEnded
  /\ wf.pc = "complete_cancel" /\ wf.report = "cancelled" => TaskEnded

NoOpenSubmit ==
  Closed /\ ~vouched => \A i \in 1..MaxSubmits : submits[i] # "open"

Core == AttemptsOK /\ ExecutionsOK /\ EvidenceOK

Release == NoOpenSubmit /\ NoBlindRelease

IInv == TypeInv /\ Core /\ Release

-----------------------------------------------------------------------------
(* Where the workflow may go on.                                           *)

Onward(w, v) == WorkflowOK(v) /\ v.attempt = w.attempt /\ v.pc \in Plain

LEMMA PlainPCs ==
  /\ Plain = {"provider_accepted", "provider_result_unknown", "reconcile",
              "reconciled_found", "reconcile_unresolved", "manual_succeeded",
              "poll_result_unknown", "cancel_requested", "cancel_not_confirmed",
              "cancel_result_unknown", "provider_succeeded", "ingest", "settle",
              "begin_query", "begin_cancel", "done", "failed", "submitted", "manual",
              "check_not_executed", "ingest_outputs"}
  /\ BeforeSubmit \subseteq PCs
  /\ Calls \subseteq PCs
BY StepNames DEF Plain, BeforeSubmit, Calls, TransitionNames, ProviderSteps, Ended

LEMMA GoTo ==
  ASSUME NEW w, WorkflowOK(w), w.status \notin Terminal,
         NEW p \in Plain
  PROVE  Onward(w, [w EXCEPT !.pc = p])
BY PlainPCs DEF Onward, WorkflowOK, Workflows, Plain, Calls

LEMMA GoSettle ==
  ASSUME NEW w, WorkflowOK(w), w.status \notin Terminal,
         NEW to \in Terminal, NEW code \in Codes
  PROVE  Onward(w, Settle(w, to, code))
<1> DEFINE v == Settle(w, to, code)
<1>1. v = [w EXCEPT !.pc = "settle", !.to = to, !.code = code]
  BY DEF Settle
<1>2. w \in Workflows /\ "settle" \in PCs
  BY PlainPCs DEF WorkflowOK, Plain
<1>3. v \in Workflows
  BY <1>1, <1>2 DEF Workflows
<1>4. /\ v.pc = "settle" /\ v.status = w.status /\ v.attempt = w.attempt
      /\ v.purpose = w.purpose /\ v.task = w.task /\ v.claim = w.claim
      /\ v.reported = w.reported
  BY <1>1, <1>2 DEF Workflows
<1> HIDE DEF v
<1>5. Onward(w, v)
  BY <1>3, <1>4, PlainPCs DEF Onward, WorkflowOK
<1> QED BY <1>5 DEF v

LEMMA GoQuery ==
  ASSUME NEW w, WorkflowOK(w), w.status \notin Terminal,
         NEW purpose \in {"reconcile", "poll", "verify", "manual_poll"},
         purpose = "manual_poll" => w.task = "own",
         purpose = "verify" => w.claim # "none"
  PROVE  Onward(w, StartQuery(w, purpose))
<1> DEFINE v == StartQuery(w, purpose)
<1>1. v = [w EXCEPT !.pc = "begin_query", !.purpose = purpose, !.retry = 0]
  BY DEF StartQuery
<1>2. w \in Workflows /\ "begin_query" \in PCs /\ 0 \in 0..QueryRetries
  BY PlainPCs, OperationAssumption DEF WorkflowOK, Plain
<1>3. v \in Workflows
  BY <1>1, <1>2 DEF Workflows
<1>4. /\ v.pc = "begin_query" /\ v.status = w.status /\ v.attempt = w.attempt
      /\ v.purpose = purpose /\ v.task = w.task /\ v.claim = w.claim
      /\ v.reported = w.reported
  BY <1>1, <1>2 DEF Workflows
<1> HIDE DEF v
<1>5. Onward(w, v)
  BY <1>3, <1>4, PlainPCs DEF Onward, WorkflowOK
<1> QED BY <1>5 DEF v

LEMMA GoNextTry ==
  ASSUME NEW w, WorkflowOK(w), w.status \notin Terminal
  PROVE  Onward(w, NextTry(w))
<1>1. CASE w.tries + 1 < ReconcileQueries
  <2> DEFINE u == StartQuery(w, "reconcile")
             v == [u EXCEPT !.tries = @ + 1]
  <2>1. NextTry(w) = v
    BY <1>1 DEF NextTry
  <2>2. Onward(w, u)
    BY GoQuery
  <2>3. u.tries = w.tries /\ w.tries \in 0..ReconcileQueries /\ u.status = w.status
    BY DEF StartQuery, WorkflowOK, Workflows
  <2>4. u.tries + 1 \in 0..ReconcileQueries
    BY <1>1, <2>3, OperationAssumption
  <2> HIDE DEF u
  <2>5. v \in Workflows
    BY <2>2, <2>4 DEF Onward, WorkflowOK, Workflows
  <2>6. /\ v.pc = u.pc /\ v.status = u.status /\ v.attempt = u.attempt
        /\ v.purpose = u.purpose /\ v.task = u.task /\ v.claim = u.claim
        /\ v.reported = u.reported /\ v.report = u.report /\ v.answer = u.answer
    BY <2>2 DEF Onward, WorkflowOK, Workflows
  <2> HIDE DEF v
  <2>7. Onward(w, v)
    BY <2>2, <2>5, <2>6 DEF Onward, WorkflowOK
  <2> QED BY <2>1, <2>7
<1>2. CASE ~(w.tries + 1 < ReconcileQueries)
  BY <1>2, GoTo, PlainPCs DEF NextTry
<1> QED BY <1>1, <1>2

LEMMA GoNoAnswer ==
  ASSUME NEW w, WorkflowOK(w), w.status \notin Terminal
  PROVE  Onward(w, NoAnswer(w))
<1>1. CASE w.purpose = "reconcile"
  BY <1>1, GoNextTry DEF NoAnswer
<1>2. CASE w.purpose # "reconcile"
  <2> DEFINE p == IF w.purpose = "poll" THEN "poll_result_unknown" ELSE "manual"
  <2>1. p \in Plain /\ NoAnswer(w) = [w EXCEPT !.pc = p]
    BY <1>2, PlainPCs DEF NoAnswer
  <2> QED BY <2>1, GoTo
<1> QED BY <1>1, <1>2

LEMMA GoConclude ==
  ASSUME NEW w, WorkflowOK(w), w.status \notin Terminal
  PROVE  Onward(w, Conclude(w))
<1> "provider_failed" \in Codes /\ "provider_result_invalid" \in Codes /\ "failed" \in Terminal
  BY DEF Codes, Terminal
<1> QED BY GoTo, GoSettle, PlainPCs DEF Conclude

LEMMA GoConcludeManual ==
  ASSUME NEW w, WorkflowOK(w), w.status \notin Terminal
  PROVE  Onward(w, ConcludeManual(w))
<1> "provider_failed" \in Codes /\ "failed" \in Terminal
  BY DEF Codes, Terminal
<1> QED BY GoTo, GoSettle, PlainPCs DEF ConcludeManual

\* A workflow that learnt something that decides nothing by itself.
LEMMA Learns ==
  ASSUME NEW w, WorkflowOK(w), w.status \notin Terminal,
         NEW p \in Plain, NEW t \in {"own", "none"}, NEW a \in AnswerStates,
         w.purpose = "manual_poll" => t = "own"
  PROVE  /\ Onward(w, [w EXCEPT !.pc = p, !.task = t])
         /\ Onward(w, [w EXCEPT !.pc = p, !.task = t, !.result = a])
         /\ WorkflowOK([w EXCEPT !.result = a])
<1>1. w \in Workflows /\ p \in PCs /\ t \in TaskIds
  BY DEF WorkflowOK, Plain, TaskIds
<1>2. ASSUME NEW v, v \in {[w EXCEPT !.pc = p, !.task = t],
                          [w EXCEPT !.pc = p, !.task = t, !.result = a]}
      PROVE  Onward(w, v)
  <2>1. v \in Workflows
    BY <1>1, <1>2, ZenonT(40) DEF Workflows
  <2>2. /\ v.pc = p /\ v.status = w.status /\ v.attempt = w.attempt
        /\ v.purpose = w.purpose /\ v.task = t /\ v.claim = w.claim
        /\ v.reported = w.reported
    BY <1>1, <1>2 DEF Workflows
  <2>3. p \notin Calls
    BY DEF Plain
  <2> QED
    BY <2>1, <2>2, <2>3 DEF Onward, WorkflowOK, Calls
<1>3. WorkflowOK([w EXCEPT !.result = a])
  BY <1>1 DEF WorkflowOK, Workflows
<1> QED BY <1>2, <1>3

LEMMA GoAfterQuery ==
  ASSUME NEW w, WorkflowOK(w), w.status \notin Terminal, NEW v \in AfterQuery(w)
  PROVE  Onward(w, v)
<1> DEFINE known == [w EXCEPT !.result = w.answer]
<1>0. /\ w \in Workflows /\ w.answer \in AnswerStates
      /\ known.status = w.status /\ known.attempt = w.attempt
      /\ WorkflowOK(known)
      /\ w.purpose \in {"reconcile", "poll", "verify", "manual_poll"}
  <2>1. w \in Workflows /\ w.answer \in AnswerStates
    BY DEF WorkflowOK, Workflows
  <2>2. w.purpose \in {"reconcile", "poll", "verify", "manual_poll"}
    BY <2>1 DEF Workflows
  <2>3. known.status = w.status /\ known.attempt = w.attempt
    BY <2>1 DEF Workflows
  <2>4. "manual" \in Plain
    BY PlainPCs
  <2> HIDE DEF known
  <2>5. WorkflowOK(known)
    BY <2>1, <2>4, Learns DEF known
  <2> QED BY <2>1, <2>2, <2>3, <2>5
<1>1. Onward(w, NoAnswer(w))
  BY GoNoAnswer
<1>2. /\ Onward(w, Conclude(known))
      /\ Onward(w, ConcludeManual(known))
  BY <1>0, GoConclude, GoConcludeManual DEF Onward
<1>3. CASE w.answer = "unknown" /\ w.retry + 1 < QueryRetries
  <2> DEFINE u == [w EXCEPT !.pc = "begin_query", !.retry = @ + 1]
  <2>1. v = u
    BY <1>3 DEF AfterQuery
  <2>2. w.retry \in 0..QueryRetries
    BY <1>0 DEF Workflows
  <2>3. w.retry + 1 \in 0..QueryRetries /\ "begin_query" \in PCs
    BY <1>3, <2>2, OperationAssumption, PlainPCs DEF Plain
  <2>4. u \in Workflows
    BY <1>0, <2>3 DEF Workflows
  <2>5. /\ u.pc = "begin_query" /\ u.status = w.status /\ u.attempt = w.attempt
        /\ u.purpose = w.purpose /\ u.task = w.task /\ u.claim = w.claim
        /\ u.reported = w.reported
    BY <1>0 DEF Workflows
  <2> HIDE DEF u
  <2>6. Onward(w, u)
    BY <2>4, <2>5, PlainPCs DEF Onward, WorkflowOK
  <2> QED BY <2>1, <2>6
<1>4. CASE w.answer = "unknown" /\ ~(w.retry + 1 < QueryRetries)
  BY <1>1, <1>4 DEF AfterQuery
<1>5. ASSUME w.answer # "unknown" PROVE Onward(w, v)
  <2>0. v \in Answered(w)
    BY <1>5 DEF AfterQuery
  <2>1. CASE w.purpose = "reconcile"
    <3>1. v = IF w.answer # "not_found" /\ w.reported # "none"
              THEN [known EXCEPT !.pc = "reconciled_found", !.task = w.reported]
              ELSE NextTry(w)
      BY <2>0, <2>1 DEF Answered
    <3>2. CASE w.answer # "not_found" /\ w.reported # "none"
      <4>1. w.reported = "own"
        BY <1>0, <3>2 DEF WorkflowOK, Workflows, TaskIds
      <4>2. v = [w EXCEPT !.pc = "reconciled_found", !.task = "own", !.result = w.answer]
        BY <1>0, <3>1, <3>2, <4>1 DEF Workflows
      <4> QED BY <1>0, <4>2, Learns, PlainPCs
    <3>3. CASE ~(w.answer # "not_found" /\ w.reported # "none")
      BY <3>1, <3>3, GoNextTry
    <3> QED BY <3>2, <3>3
  <2>2. CASE w.purpose = "verify"
    <3>1. v = IF TaskVerified(w)
              THEN StartQuery([w EXCEPT !.task = w.claim], "manual_poll")
              ELSE [w EXCEPT !.pc = "manual"]
      BY <2>0, <2>2 DEF Answered
    <3>2. CASE TaskVerified(w)
      <4>1. w.claim = "own"
        BY <1>0, <2>2, <3>2 DEF TaskVerified, WorkflowOK, Workflows, TaskIds
      <4> DEFINE u == [w EXCEPT !.task = "own"]
      <4>2. /\ u \in Workflows /\ u.pc = w.pc /\ u.status = w.status
            /\ u.attempt = w.attempt /\ u.purpose = w.purpose /\ u.task = "own"
            /\ u.claim = w.claim /\ u.reported = w.reported /\ u.report = w.report
            /\ u.answer = w.answer
        BY <1>0 DEF Workflows, TaskIds
      <4>3. v = StartQuery(u, "manual_poll")
        BY <3>1, <3>2, <4>1
      <4> HIDE DEF u
      <4>4. WorkflowOK(u)
        BY <4>2 DEF WorkflowOK
      <4>5. Onward(u, v)
        BY <4>2, <4>3, <4>4, GoQuery
      <4> QED BY <4>2, <4>5 DEF Onward
    <3>3. CASE ~TaskVerified(w)
      BY <3>1, <3>3, GoTo, PlainPCs
    <3> QED BY <3>2, <3>3
  <2>3. CASE w.purpose = "poll"
    <3>1. v \in {[w EXCEPT !.pc = "submitted"], NoAnswer(w), Conclude(known)}
      BY <2>0, <2>3 DEF Answered
    <3>2. Onward(w, [w EXCEPT !.pc = "submitted"])
      BY GoTo, PlainPCs
    <3> HIDE DEF known
    <3> QED BY <1>1, <1>2, <3>1, <3>2
  <2>4. CASE w.purpose = "manual_poll"
    <3>1. v \in {StartQuery(w, "manual_poll"), NoAnswer(w), ConcludeManual(known)}
      BY <2>0, <2>4 DEF Answered
    <3>2. Onward(w, StartQuery(w, "manual_poll"))
      BY <2>4, GoQuery DEF WorkflowOK
    <3> HIDE DEF known
    <3> QED BY <1>1, <1>2, <3>1, <3>2
  <2> HIDE DEF known
  <2> QED BY <1>0, <2>1, <2>2, <2>3, <2>4
<1> QED BY <1>3, <1>4, <1>5

NextAttempt(w, v) ==
  /\ WorkflowOK(v)
  /\ v.pc = "begin_submit" /\ w.report = "not_submitted"
  /\ w.attempt # MaxSubmits /\ v.attempt = w.attempt + 1

\* After the answer to a submission only a refused connection leads back to
\* another one, and to its next attempt.
LEMMA GoAfterSubmit ==
  ASSUME NEW w, WorkflowOK(w), w.status \notin Terminal, w.pc = "complete_submit"
  PROVE  Onward(w, AfterSubmit(w)) \/ NextAttempt(w, AfterSubmit(w))
<1> DEFINE v == AfterSubmit(w)
<1>0. w \in Workflows /\ "failed" \in Terminal
      /\ "provider_not_submitted" \in Codes /\ "provider_failed" \in Codes
  BY DEF WorkflowOK, Terminal, Codes
<1>1. CASE w.report = "not_submitted" /\ w.attempt = MaxSubmits
  BY <1>0, <1>1, GoSettle DEF AfterSubmit, MayResubmit, IsLastAttempt
<1>2. CASE w.report = "not_submitted" /\ w.attempt # MaxSubmits
  <2> DEFINE u == [w EXCEPT !.pc = "begin_submit", !.attempt = @ + 1]
  <2>1. v = u
    BY <1>2 DEF AfterSubmit, MayResubmit, IsLastAttempt
  <2>2. w.attempt + 1 \in 1..MaxSubmits /\ "begin_submit" \in PCs
    <3>1. w.attempt \in 1..MaxSubmits
      BY <1>0 DEF Workflows
    <3> QED BY <1>2, <3>1, OperationAssumption, PlainPCs DEF BeforeSubmit
  <2>3. u \in Workflows
    BY <1>0, <2>2 DEF Workflows
  <2>4. /\ u.pc = "begin_submit" /\ u.status = w.status /\ u.attempt = w.attempt + 1
        /\ u.purpose = w.purpose /\ u.task = w.task /\ u.claim = w.claim
        /\ u.reported = w.reported
    BY <1>0 DEF Workflows
  <2> HIDE DEF u
  <2>5. WorkflowOK(u)
    BY <2>3, <2>4 DEF WorkflowOK
  <2> QED BY <1>2, <2>1, <2>4, <2>5 DEF NextAttempt
<1>3. CASE w.report = "rejected"
  BY <1>0, <1>3, GoSettle DEF AfterSubmit, MayResubmit
<1>4. CASE w.report = "accepted"
  <2>1. v = [w EXCEPT !.pc = "provider_accepted", !.task = "own"]
    BY <1>4 DEF AfterSubmit, MayResubmit
  <2>2. "provider_accepted" \in Plain /\ "none" \in AnswerStates
    BY PlainPCs DEF AnswerStates
  <2>3. Onward(w, [w EXCEPT !.pc = "provider_accepted", !.task = "own"])
    BY <2>2, Learns
  <2> QED BY <2>1, <2>3
<1>5. CASE w.report = "unknown"
  BY <1>0, <1>5, GoTo, PlainPCs DEF AfterSubmit, MayResubmit
<1>6. w.report \in {"accepted", "rejected", "not_submitted", "unknown"}
  BY DEF WorkflowOK
<1> QED BY <1>1, <1>2, <1>3, <1>4, <1>5, <1>6

\* A transition leads on, and away from the first submission but for submit.
LEMMA GoAfter ==
  ASSUME NEW w, WorkflowOK(w), w.status \notin Terminal, w.pc \in TransitionNames
  PROVE  LET v == After(w, Request(w))
         IN /\ WorkflowOK(v) /\ v.attempt = w.attempt
            /\ v.pc \in Plain \cup {"begin_submit"}
            /\ v.pc = "begin_submit" => w.pc = "submit"
<1> DEFINE p == IF w.pc = "cancel_not_confirmed" /\ w.report = "unknown"
                THEN "cancel_result_unknown" ELSE Transitions[w.pc].next
           s == Transitions[w.pc].to
           u == [w EXCEPT !.pc = p, !.status = s, !.purpose = "reconcile",
                          !.retry = 0, !.tries = 0]
<1>1. After(w, Request(w)) = u
  BY TransitionTable DEF After, Request
<1>2. w \in Workflows /\ s \in Statuses \ Terminal
      /\ 0 \in 0..QueryRetries /\ 0 \in 0..ReconcileQueries
  BY TransitionTable, OperationAssumption DEF WorkflowOK, Opened
<1>3. p \in Plain \cup {"begin_submit"} /\ (p = "begin_submit" => w.pc = "submit")
  BY PlainPCs DEF TransitionNames, Transitions, Step
<1>4. p \in PCs
  BY <1>3, PlainPCs DEF Plain, BeforeSubmit
<1> HIDE DEF p, s
<1>5. u \in Workflows
  BY <1>2, <1>4 DEF Workflows
<1>6. /\ u.pc = p /\ u.status = s /\ u.attempt = w.attempt
      /\ u.purpose = "reconcile" /\ u.reported = w.reported
  BY <1>2 DEF Workflows
<1> HIDE DEF u
<1>7. WorkflowOK(u)
  BY <1>2, <1>3, <1>5, <1>6, PlainPCs DEF WorkflowOK
<1> QED BY <1>1, <1>3, <1>6, <1>7

-----------------------------------------------------------------------------
(* The writes of a database request.                                       *)

LEMMA CommitType ==
  ASSUME op \in Rows, recorded \in TaskIds, NEW r \in Requests, Commit(r)
  PROVE  op' \in Rows /\ recorded' \in TaskIds
<1>1. op' = [op EXCEPT !.status = r.to, !.failure = r.code]
  BY DEF Commit
<1>2. r.to \in Statuses /\ r.code \in Codes /\ r.task \in TaskIds
  BY DEF Requests
<1>3. op' = [status |-> r.to, failure |-> r.code, reused |-> op.reused]
  BY <1>1 DEF Rows
<1>4. op.reused \in BOOLEAN
  BY Zenon DEF Rows
<1>5. op' \in Rows
  BY <1>2, <1>3, <1>4, Zenon DEF Rows
<1>6. recorded' \in TaskIds
  BY <1>2 DEF Commit
<1> QED BY <1>5, <1>6

-----------------------------------------------------------------------------
(* What every step does to the workflow.                                   *)

\* The workflow keeps its attempt, and does not come (back) to a submission.
Moved ==
  /\ WorkflowOK(wf')
  /\ \/ wf' = wf
     \/ /\ wf'.attempt = wf.attempt
        /\ \/ wf'.pc \in Plain \cup {"call_query", "call_cancel"}
           \/ wf.pc \in BeforeSubmit /\ wf'.pc \in BeforeSubmit

LEMMA MovedOnward ==
  ASSUME Onward(wf, wf')
  PROVE  Moved
BY DEF Moved, Onward

LEMMA MovedStays ==
  ASSUME WorkflowOK(wf), wf' = wf
  PROVE  Moved
BY DEF Moved, WorkflowOK

LEMMA Goes ==
  ASSUME NEW w, WorkflowOK(w), w.status \notin Terminal,
         NEW p \in PCs \ {"complete_submit", "complete_query", "complete_cancel"}
  PROVE  LET v == [w EXCEPT !.pc = p]
         IN WorkflowOK(v) /\ v.attempt = w.attempt /\ v.pc = p
BY DEF WorkflowOK, Workflows

LEMMA LoadMoves ==
  ASSUME TypeInv, Load
  PROVE  Moved
<1>1. WorkflowOK(wf) /\ wf.status \notin Terminal /\ wf.pc \in BeforeSubmit
  BY DEF TypeInv, WorkflowOK, Load, LoadWorkflowOperation, BeforeSubmit
<1> DEFINE p == IF op.status \in Terminal THEN "done"
                ELSE IF op.status # "confirmed" THEN "failed" ELSE "check_consent"
<1>2. wf' = [wf EXCEPT !.pc = p]
  BY DEF Load, LoadWorkflowOperation
<1>3. p \in {"done", "failed", "check_consent"}
  OBVIOUS
<1> HIDE DEF p
<1>4. CASE p = "check_consent"
  BY <1>1, <1>2, <1>4, Goes, PlainPCs DEF Moved, BeforeSubmit
<1>5. CASE p \in {"done", "failed"}
  BY <1>1, <1>2, <1>5, GoTo, PlainPCs, MovedOnward
<1> QED BY <1>3, <1>4, <1>5

LEMMA CheckConsentMoves ==
  ASSUME TypeInv, CheckConsent
  PROVE  Moved
<1>1. WorkflowOK(wf) /\ wf.status \notin Terminal /\ wf.pc \in BeforeSubmit
  BY DEF TypeInv, WorkflowOK, CheckConsent, BeforeSubmit
<1> DEFINE p == IF op.reused THEN "reuse" ELSE "submit"
<1>2. wf' = [wf EXCEPT !.pc = p] \/ wf' = Settle(wf, "failed", "input_refused")
  BY DEF CheckConsent
<1>3. p \in {"reuse", "submit"}
  OBVIOUS
<1> HIDE DEF p
<1>4. CASE wf' = [wf EXCEPT !.pc = p]
  <2>1. p \in PCs \ {"complete_submit", "complete_query", "complete_cancel"}
        /\ p \in BeforeSubmit
    BY <1>3, PlainPCs DEF BeforeSubmit
  <2> QED BY <1>1, <1>4, <2>1, Goes DEF Moved
<1>5. CASE wf' = Settle(wf, "failed", "input_refused")
  <2>1. "failed" \in Terminal /\ "input_refused" \in Codes
    BY DEF Terminal, Codes
  <2> QED BY <1>1, <1>5, <2>1, GoSettle, MovedOnward
<1> QED BY <1>2, <1>4, <1>5

\* A settled workflow is done.
LEMMA GoDone ==
  ASSUME WorkflowOK(wf), NEW s \in Terminal,
         wf' = [wf EXCEPT !.pc = "done", !.status = s]
  PROVE  Moved
<1>1. s \in Statuses /\ wf \in Workflows /\ "done" \in Plain /\ "done" \in PCs
  BY PlainPCs DEF WorkflowOK, Plain, Statuses
<1>2. wf' \in Workflows
  BY <1>1 DEF Workflows
<1>3. /\ wf'.pc = "done" /\ wf'.attempt = wf.attempt /\ wf'.purpose = wf.purpose
      /\ wf'.task = wf.task /\ wf'.claim = wf.claim /\ wf'.reported = wf.reported
  BY <1>1 DEF Workflows
<1> QED BY <1>1, <1>2, <1>3 DEF Moved, WorkflowOK

LEMMA CompleteFromReuseMoves ==
  ASSUME TypeInv, CompleteFromReuse
  PROVE  Moved
<1>1. WorkflowOK(wf) /\ wf.status \notin Terminal /\ "completed" \in Terminal
      /\ "failed" \in Terminal /\ "reuse_source_unavailable" \in Codes
  BY DEF TypeInv, WorkflowOK, CompleteFromReuse, Terminal, Codes
<1>2. \/ wf' = [wf EXCEPT !.pc = "done", !.status = "completed"]
      \/ wf' = wf
      \/ wf' = Settle(wf, "failed", "reuse_source_unavailable")
      \/ wf' = [wf EXCEPT !.pc = "failed"]
  BY DEF CompleteFromReuse, Reply
<1>3. CASE wf' = [wf EXCEPT !.pc = "done", !.status = "completed"]
  BY <1>1, <1>3, GoDone
<1>4. CASE wf' = wf
  BY <1>1, <1>4, MovedStays
<1>5. CASE wf' = Settle(wf, "failed", "reuse_source_unavailable")
  BY <1>1, <1>5, GoSettle, MovedOnward
<1>6. CASE wf' = [wf EXCEPT !.pc = "failed"]
  BY <1>1, <1>6, GoTo, PlainPCs, MovedOnward
<1> QED BY <1>2, <1>3, <1>4, <1>5, <1>6

LEMMA TransitionMoves ==
  ASSUME TypeInv, Transition
  PROVE  Moved
<1>1. /\ WorkflowOK(wf) /\ wf.status \notin Terminal /\ wf.pc \in TransitionNames
      /\ "failed" \in Terminal /\ "input_refused" \in Codes
  BY TransitionTable DEF TypeInv, WorkflowOK, Transition, TransitionNames, Terminal, Codes
<1>2. \/ wf' = After(wf, Request(wf))
      \/ wf' = wf
      \/ wf' = Settle(wf, "failed", "input_refused")
      \/ wf' = [wf EXCEPT !.pc = "failed"]
  BY DEF Transition, Reply
<1>3. CASE wf' = After(wf, Request(wf))
  BY <1>1, <1>3, GoAfter DEF Moved, BeforeSubmit
<1>4. CASE wf' = wf
  BY <1>1, <1>4, MovedStays
<1>5. CASE wf' = Settle(wf, "failed", "input_refused")
  BY <1>1, <1>5, GoSettle, MovedOnward
<1>6. CASE wf' = [wf EXCEPT !.pc = "failed"]
  BY <1>1, <1>6, GoTo, PlainPCs, MovedOnward
<1> QED BY <1>2, <1>3, <1>4, <1>5, <1>6

LEMMA SettleOperationMoves ==
  ASSUME TypeInv, SettleOperation
  PROVE  Moved
<1>1. /\ WorkflowOK(wf) /\ wf.status \notin Terminal /\ wf.to \in Terminal
      /\ Request(wf).to = wf.to
  BY StepNames, TransitionTable
     DEF TypeInv, WorkflowOK, Workflows, SettleOperation, Request, TransitionNames
<1>2. \/ wf' = [wf EXCEPT !.pc = "done", !.status = wf.to]
      \/ wf' = wf
      \/ wf' = [wf EXCEPT !.pc = "manual"]
      \/ wf' = [wf EXCEPT !.pc = "failed"]
  BY <1>1 DEF SettleOperation, Reply
<1>3. CASE wf' = [wf EXCEPT !.pc = "done", !.status = wf.to]
  BY <1>1, <1>3, GoDone
<1>4. CASE wf' = wf
  BY <1>1, <1>4, MovedStays
<1>5. CASE wf' = [wf EXCEPT !.pc = "manual"]
  BY <1>1, <1>5, GoTo, PlainPCs, MovedOnward
<1>6. CASE wf' = [wf EXCEPT !.pc = "failed"]
  BY <1>1, <1>6, GoTo, PlainPCs, MovedOnward
<1> QED BY <1>2, <1>3, <1>4, <1>5, <1>6

LEMMA BeginSubmitGoes ==
  ASSUME TypeInv, BeginSubmit
  PROVE  /\ WorkflowOK(wf') /\ wf'.attempt = wf.attempt
         /\ \/ wf'.pc = "call_submit" /\ submits'[wf.attempt] # "none"
            \/ wf' = wf
            \/ wf'.pc = "failed" /\ submits' = submits
<1>1. WorkflowOK(wf) /\ wf.status \notin Terminal
  BY DEF TypeInv, WorkflowOK, BeginSubmit
<1>2. /\ submits \in [1..MaxSubmits -> SubmitStates] /\ wf.attempt \in 1..MaxSubmits
  BY DEF TypeInv, TypeOK, WorkflowOK, Workflows
<1>3. CASE wf' = [wf EXCEPT !.pc = "call_submit"] /\ submits'[wf.attempt] # "none"
  BY <1>1, <1>3, Goes, PlainPCs DEF Calls
<1>4. CASE wf' = wf
  BY <1>1, <1>4
<1>5. CASE wf' = [wf EXCEPT !.pc = "failed"] /\ submits' = submits
  BY <1>1, <1>5, Goes, PlainPCs DEF Plain
<1>6. \/ wf' = [wf EXCEPT !.pc = "call_submit"] /\ submits'[wf.attempt] # "none"
      \/ wf' = wf
      \/ wf' = [wf EXCEPT !.pc = "failed"] /\ submits' = submits
  BY <1>2 DEF BeginSubmit, Reply
<1> QED BY <1>3, <1>4, <1>5, <1>6

LEMMA CallSubmitGoes ==
  ASSUME TypeInv, CallSubmit
  PROVE  /\ WorkflowOK(wf') /\ wf'.attempt = wf.attempt /\ wf'.pc = "complete_submit"
         /\ \/ wf'.report \in {"accepted", "unknown"} /\ provider' = Runs(provider)
            \/ wf'.report # "accepted" /\ provider' = provider
            \/ /\ wf'.report = "unknown"
               /\ provider' = [provider EXCEPT !.flying = @ + 1]
<1>1. WorkflowOK(wf) /\ wf.status \notin Terminal /\ wf \in Workflows
  BY DEF TypeInv, WorkflowOK, CallSubmit
<1>2. PICK answer \in {"accepted", "rejected", "not_submitted", "lost"} :
        /\ wf' = [wf EXCEPT !.pc = "complete_submit", !.report = SubmitReport(answer)]
        /\ \/ answer \in {"accepted", "lost"} /\ provider' = Runs(provider)
           \/ answer # "accepted" /\ provider' = provider
           \/ answer = "lost" /\ provider' = [provider EXCEPT !.flying = @ + 1]
  BY DEF CallSubmit
<1> DEFINE r == SubmitReport(answer)
<1>3. /\ r \in {"accepted", "rejected", "not_submitted", "unknown"}
      /\ answer = "accepted" <=> r = "accepted"
      /\ answer = "lost" <=> r = "unknown"
  BY <1>2 DEF SubmitReport
<1>4. "complete_submit" \in PCs
  BY PlainPCs DEF Calls
<1> HIDE DEF r
<1>5. wf' \in Workflows
  BY <1>1, <1>2, <1>3, <1>4 DEF Workflows, r
<1>6. /\ wf'.pc = "complete_submit" /\ wf'.report = r /\ wf'.status = wf.status
      /\ wf'.attempt = wf.attempt /\ wf'.purpose = wf.purpose /\ wf'.task = wf.task
      /\ wf'.claim = wf.claim /\ wf'.reported = wf.reported
  BY <1>1, <1>2 DEF Workflows, r
<1>7. WorkflowOK(wf')
  BY <1>1, <1>3, <1>5, <1>6 DEF WorkflowOK
<1> QED BY <1>2, <1>3, <1>6, <1>7

LEMMA CompleteSubmitGoes ==
  ASSUME TypeInv, CompleteSubmit
  PROVE  Moved \/ (WorkflowOK(wf') /\ NextAttempt(wf, wf'))
<1>1. WorkflowOK(wf) /\ wf.status \notin Terminal /\ wf.pc = "complete_submit"
  BY DEF TypeInv, WorkflowOK, CompleteSubmit
<1>2. CASE wf' = AfterSubmit(wf)
  <2>1. CASE Onward(wf, AfterSubmit(wf))
    BY <1>2, <2>1, MovedOnward
  <2>2. CASE NextAttempt(wf, AfterSubmit(wf))
    BY <1>2, <2>2 DEF NextAttempt
  <2> QED BY <1>1, <2>1, <2>2, GoAfterSubmit
<1>3. CASE wf' = wf
  BY <1>1, <1>3, MovedStays
<1> QED BY <1>2, <1>3 DEF CompleteSubmit, Reply

LEMMA BeginQueryMoves ==
  ASSUME TypeInv, BeginQuery
  PROVE  Moved
<1>1. WorkflowOK(wf) /\ wf.status \notin Terminal
  BY DEF TypeInv, WorkflowOK, BeginQuery
<1>2. \/ wf' = [wf EXCEPT !.pc = "call_query"]
      \/ wf' = wf
      \/ wf' = NoAnswer(wf)
  BY DEF BeginQuery, Reply
<1>3. CASE wf' = [wf EXCEPT !.pc = "call_query"]
  BY <1>1, <1>3, Goes, PlainPCs DEF Moved, Calls
<1>4. CASE wf' = wf
  BY <1>1, <1>4, MovedStays
<1>5. CASE wf' = NoAnswer(wf)
  BY <1>1, <1>5, GoNoAnswer, MovedOnward
<1> QED BY <1>2, <1>3, <1>4, <1>5

LEMMA CallQueryGoes ==
  ASSUME TypeInv, CallQuery
  PROVE  /\ WorkflowOK(wf') /\ wf'.attempt = wf.attempt /\ wf'.pc = "complete_query"
         /\ wf'.answer \in Answers
<1>1. WorkflowOK(wf) /\ wf.status \notin Terminal /\ wf \in Workflows
  BY DEF TypeInv, WorkflowOK, CallQuery
<1>2. PICK answer \in Answers, reported \in {"none", "own"} :
        wf' = [wf EXCEPT !.pc = "complete_query", !.answer = answer,
                         !.reported = reported]
  BY DEF CallQuery
<1>3. /\ answer \in AnswerStates /\ answer # "none" /\ reported \in TaskIds
      /\ reported # "foreign" /\ "complete_query" \in PCs
  <2>1. answer \in {"running", "succeeded", "empty", "failed", "not_found", "unknown"}
    BY <1>2 DEF Answers
  <2> QED BY <2>1, PlainPCs DEF AnswerStates, TaskIds, Calls
<1>4. wf' \in Workflows
  BY <1>1, <1>2, <1>3 DEF Workflows
<1>5. /\ wf'.pc = "complete_query" /\ wf'.answer = answer /\ wf'.status = wf.status
      /\ wf'.attempt = wf.attempt /\ wf'.purpose = wf.purpose /\ wf'.task = wf.task
      /\ wf'.claim = wf.claim /\ wf'.reported = reported
  BY <1>1, <1>2 DEF Workflows
<1>6. WorkflowOK(wf')
  BY <1>1, <1>3, <1>4, <1>5 DEF WorkflowOK
<1> QED BY <1>2, <1>5, <1>6

LEMMA CompleteQueryMoves ==
  ASSUME TypeInv, CompleteQuery
  PROVE  Moved
<1>1. WorkflowOK(wf) /\ wf.status \notin Terminal
  BY DEF TypeInv, WorkflowOK, CompleteQuery
<1>2. PICK w \in AfterQuery(wf) : wf' \in {w, wf}
  BY DEF CompleteQuery, Reply
<1>3. CASE wf' = w
  BY <1>1, <1>2, <1>3, GoAfterQuery, MovedOnward
<1>4. CASE wf' = wf
  BY <1>1, <1>4, MovedStays
<1> QED BY <1>2, <1>3, <1>4

LEMMA TakeCancelMoves ==
  ASSUME TypeInv, TakeCancel
  PROVE  Moved
<1>1. WorkflowOK(wf) /\ wf.status \notin Terminal
  BY DEF TypeInv, WorkflowOK, TakeCancel
<1> QED BY <1>1, GoTo, PlainPCs, MovedOnward DEF TakeCancel

LEMMA UseResultMoves ==
  ASSUME TypeInv, UseResult
  PROVE  Moved
<1>1. WorkflowOK(wf) /\ wf.status \notin Terminal
  BY DEF TypeInv, WorkflowOK, UseResult
<1>2. wf' = Conclude(wf) \/ wf' = StartQuery(wf, "poll")
  BY DEF UseResult
<1>3. CASE wf' = Conclude(wf)
  BY <1>1, <1>3, GoConclude, MovedOnward
<1>4. CASE wf' = StartQuery(wf, "poll")
  BY <1>1, <1>4, GoQuery, MovedOnward
<1> QED BY <1>2, <1>3, <1>4

LEMMA BeginCancelMoves ==
  ASSUME TypeInv, BeginCancel
  PROVE  Moved
<1>1. WorkflowOK(wf) /\ wf.status \notin Terminal
  BY DEF TypeInv, WorkflowOK, BeginCancel
<1>2. \/ wf' = [wf EXCEPT !.pc = "call_cancel"]
      \/ wf' = wf
      \/ wf' = [wf EXCEPT !.pc = "failed"]
  BY DEF BeginCancel, Reply
<1>3. CASE wf' = [wf EXCEPT !.pc = "call_cancel"]
  BY <1>1, <1>3, Goes, PlainPCs DEF Moved, Calls
<1>4. CASE wf' = wf
  BY <1>1, <1>4, MovedStays
<1>5. CASE wf' = [wf EXCEPT !.pc = "failed"]
  BY <1>1, <1>5, GoTo, PlainPCs, MovedOnward
<1> QED BY <1>2, <1>3, <1>4, <1>5

LEMMA CallCancelGoes ==
  ASSUME TypeInv, CallCancel
  PROVE  /\ WorkflowOK(wf') /\ wf'.attempt = wf.attempt /\ wf'.pc = "complete_cancel"
         /\ wf'.report = "cancelled" => provider.task \in {"running", "cancelled"}
         /\ \/ /\ provider.task = "running"
               /\ provider' = [provider EXCEPT !.task = "cancelled"]
            \/ /\ wf'.report = "cancelled" => provider.task = "cancelled"
               /\ provider' = provider
<1>1. WorkflowOK(wf) /\ wf.status \notin Terminal /\ wf \in Workflows
  BY DEF TypeInv, WorkflowOK, CallCancel
<1>2. PICK answer \in {"cancelled", "not_cancelled", "lost"} :
        /\ answer = "cancelled" => provider.task \in {"running", "cancelled"}
        /\ wf' = [wf EXCEPT !.pc = "complete_cancel", !.report = CancelReport(answer)]
        /\ \/ /\ provider.task = "running"
              /\ provider' = [provider EXCEPT !.task = "cancelled"]
           \/ /\ answer = "cancelled" => provider.task = "cancelled"
              /\ provider' = provider
  BY DEF CallCancel
<1> DEFINE r == CancelReport(answer)
<1>3. /\ r \in {"cancelled", "not_cancelled", "unknown"}
      /\ r = "cancelled" <=> answer = "cancelled"
      /\ "complete_cancel" \in PCs
  BY <1>2, PlainPCs DEF CancelReport, Calls
<1>4. wf' = [wf EXCEPT !.pc = "complete_cancel", !.report = r]
  BY <1>2
<1> HIDE DEF r
<1>5. wf' \in Workflows
  BY <1>1, <1>3, <1>4 DEF Workflows
<1>6. /\ wf'.pc = "complete_cancel" /\ wf'.report = r /\ wf'.status = wf.status
      /\ wf'.attempt = wf.attempt /\ wf'.purpose = wf.purpose /\ wf'.task = wf.task
      /\ wf'.claim = wf.claim /\ wf'.reported = wf.reported
  BY <1>1, <1>4 DEF Workflows
<1>7. WorkflowOK(wf')
  BY <1>1, <1>3, <1>5, <1>6 DEF WorkflowOK
<1> QED BY <1>2, <1>3, <1>6, <1>7

LEMMA CompleteCancelMoves ==
  ASSUME TypeInv, CompleteCancel
  PROVE  Moved
<1>1. /\ WorkflowOK(wf) /\ wf.status \notin Terminal
      /\ "cancelled" \in Terminal /\ "none" \in Codes
  BY DEF TypeInv, WorkflowOK, CompleteCancel, Terminal, Codes
<1>2. \/ wf' = Settle(wf, "cancelled", "none")
      \/ wf' = wf
      \/ wf' = [wf EXCEPT !.pc = "cancel_not_confirmed"]
  BY DEF CompleteCancel, Reply
<1>3. CASE wf' = Settle(wf, "cancelled", "none")
  BY <1>1, <1>3, GoSettle, MovedOnward
<1>4. CASE wf' = wf
  BY <1>1, <1>4, MovedStays
<1>5. CASE wf' = [wf EXCEPT !.pc = "cancel_not_confirmed"]
  BY <1>1, <1>5, GoTo, PlainPCs, MovedOnward
<1> QED BY <1>2, <1>3, <1>4, <1>5

LEMMA ReceiveResolutionMoves ==
  ASSUME TypeInv, ReceiveResolution
  PROVE  Moved
<1>1. WorkflowOK(wf) /\ wf.status \notin Terminal /\ wf \in Workflows
  BY DEF TypeInv, WorkflowOK, ReceiveResolution
<1>2. CASE wf' = [wf EXCEPT !.pc = "check_not_executed"]
  BY <1>1, <1>2, GoTo, PlainPCs, MovedOnward
<1>3. ASSUME NEW claim \in {"own", "foreign"},
             wf' = StartQuery([wf EXCEPT !.claim = claim], "verify")
      PROVE  Moved
  <2> DEFINE u == [wf EXCEPT !.claim = claim]
  <2>1. /\ u \in Workflows /\ u.pc = wf.pc /\ u.status = wf.status
        /\ u.attempt = wf.attempt /\ u.purpose = wf.purpose /\ u.task = wf.task
        /\ u.claim = claim /\ u.reported = wf.reported /\ u.report = wf.report
        /\ u.answer = wf.answer
    BY <1>1, <1>3 DEF Workflows, TaskIds
  <2>2. wf' = StartQuery(u, "verify")
    BY <1>3
  <2> HIDE DEF u
  <2>3. WorkflowOK(u) /\ u.claim # "none"
    BY <1>1, <1>3, <2>1 DEF WorkflowOK
  <2>4. Onward(u, wf')
    BY <1>1, <2>1, <2>2, <2>3, GoQuery
  <2> QED BY <2>1, <2>4, MovedOnward DEF Onward
<1> QED BY <1>2, <1>3 DEF ReceiveResolution

LEMMA CheckManualNotExecutedMoves ==
  ASSUME TypeInv, CheckManualNotExecuted
  PROVE  Moved
<1>1. /\ WorkflowOK(wf) /\ wf.status \notin Terminal
      /\ "failed" \in Terminal /\ "provider_not_executed" \in Codes
  BY DEF TypeInv, WorkflowOK, CheckManualNotExecuted, Terminal, Codes
<1>2. CASE wf' = Settle(wf, "failed", "provider_not_executed")
  BY <1>1, <1>2, GoSettle, MovedOnward
<1>3. CASE wf' = [wf EXCEPT !.pc = "manual"]
  BY <1>1, <1>3, GoTo, PlainPCs, MovedOnward
<1> QED BY <1>2, <1>3 DEF CheckManualNotExecuted

LEMMA IngestAndFinishMoves ==
  ASSUME TypeInv, IngestAndFinish
  PROVE  Moved
<1>1. WorkflowOK(wf) /\ wf.status \notin Terminal
  BY DEF TypeInv, WorkflowOK, IngestAndFinish
<1>2. PICK to \in {"completed", "failed"},
           code \in {"none", "media_refused", "moderation_unavailable",
                     "provider_result_invalid"} : wf' = Settle(wf, to, code)
  BY DEF IngestAndFinish
<1>3. to \in Terminal /\ code \in Codes
  BY DEF Terminal, Codes
<1> QED BY <1>1, <1>2, <1>3, GoSettle, MovedOnward

-----------------------------------------------------------------------------
(* The type invariant is inductive.                                        *)

\* Whether the request of the workflow is a transition is known by its name.
LEMMA RequestLateOK ==
  ASSUME TypeInv, wf.pc \in DatabaseSteps
  PROVE  LET r == Request(wf)
         IN /\ r \in Requests
            /\ r.from \notin Terminal
            /\ r.name \notin {"settle", "reuse"} => r.to \notin Terminal
<1>1. /\ wf \in Workflows /\ wf.pc \in TransitionNames \cup {"settle", "reuse"}
      /\ wf.status \notin Terminal
  <2>1. "done" \notin TransitionNames \cup {"settle", "reuse"}
    BY DEF TransitionNames
  <2> QED BY <2>1, StepNames DEF TypeInv, WorkflowOK
<1>2. Request(wf) \in Requests
  BY <1>1, RequestType
<1>3. /\ Request(wf).name = wf.pc
      /\ wf.pc \in TransitionNames =>
           /\ Request(wf).from = Transitions[wf.pc].from
           /\ Request(wf).to = Transitions[wf.pc].to
      /\ wf.pc \notin TransitionNames => Request(wf).from = wf.status
  BY TransitionTable DEF Request
<1> QED BY <1>1, <1>2, <1>3, TransitionTable DEF Opened

\* The rows after a database request of the workflow, committed or not.
LEMMA RequestTypes ==
  ASSUME TypeInv, NEW r \in Requests, Commit(r) \/ DbUnchanged
  PROVE  /\ op' \in Rows /\ recorded' \in TaskIds
         /\ submits' = submits /\ queries' = queries /\ cancelCall' = cancelCall
         /\ vouched' = vouched
<1>1. CASE Commit(r)
  BY <1>1, CommitType DEF TypeInv, TypeOK, Commit, calls
<1>2. CASE DbUnchanged
  BY <1>2 DEF TypeInv, TypeOK, DbUnchanged, calls
<1> QED BY <1>1, <1>2

LEMMA TypeInit == Init => TypeInv
<1> SUFFICES ASSUME Init PROVE TypeInv
  OBVIOUS
<1>1. op \in Rows
  <2>1. PICK reused \in BOOLEAN :
          op = [status |-> "confirmed", failure |-> "none", reused |-> reused]
    BY DEF Init
  <2>2. "confirmed" \in Statuses /\ "none" \in Codes
    BY DEF Statuses, Codes
  <2> QED BY <2>1, <2>2, Zenon DEF Rows
<1>2. wf \in Workflows
  <2>1. /\ "load" \in PCs /\ "confirmed" \in Statuses /\ 1 \in 1..MaxSubmits
        /\ 0 \in 0..QueryRetries /\ 0 \in 0..ReconcileQueries
        /\ "none" \in AnswerStates /\ "none" \in TaskIds /\ "none" \in Codes
        /\ "failed" \in Terminal
    BY PlainPCs, OperationAssumption
       DEF BeforeSubmit, Statuses, AnswerStates, TaskIds, Codes, Terminal
  <2>2. wf = [pc |-> "load", status |-> "confirmed", attempt |-> 1, report |-> "none",
              purpose |-> "reconcile", retry |-> 0, tries |-> 0, answer |-> "none",
              reported |-> "none", claim |-> "none", task |-> "none",
              result |-> "none", to |-> "failed", code |-> "none"]
    BY DEF Init
  <2> QED BY <2>1, <2>2 DEF Workflows
<1>3. WorkflowOK(wf)
  BY <1>2 DEF WorkflowOK, Init, Terminal
<1>4. vouched \in BOOLEAN
  BY DEF Init
<1>5. TypeOK
  BY <1>1, <1>2, <1>4
     DEF TypeOK, Init, SubmitStates, QueryStates, CancelStates, TaskIds, Providers, Requests
<1> QED BY <1>3, <1>5 DEF TypeInv, LateOK, Init

LEMMA TypeStep ==
  TypeInv /\ [Next]_vars => TypeInv'
<1> SUFFICES ASSUME TypeInv, [Next]_vars PROVE TypeInv'
  OBVIOUS
<1> USE DEF TypeInv
<1>1. CASE Load
  <2>1. WorkflowOK(wf')
    BY <1>1, LoadMoves DEF Moved
  <2> QED BY <1>1, <2>1
       DEF TypeOK, LateOK, WorkflowOK, DbUnchanged, OthersUnchanged, calls, Load, LoadWorkflowOperation
<1>2. CASE CheckConsent
  <2>1. WorkflowOK(wf')
    BY <1>2, CheckConsentMoves DEF Moved
  <2> QED BY <1>2, <2>1
       DEF TypeOK, LateOK, WorkflowOK, DbUnchanged, OthersUnchanged, calls, CheckConsent
<1>3. CASE CompleteFromReuse
  <2>1. WorkflowOK(wf')
    BY <1>3, CompleteFromReuseMoves DEF Moved
  <2>2. Request(wf) \in Requests /\ (Commit(Request(wf)) \/ DbUnchanged)
    BY <1>3, RequestLateOK DEF CompleteFromReuse, DatabaseSteps
  <2>3. op' \in Rows /\ recorded' \in TaskIds /\ UNCHANGED <<calls, vouched>>
    BY <2>2, RequestTypes DEF calls
  <2> QED BY <1>3, <2>1, <2>3
       DEF TypeOK, LateOK, WorkflowOK, OthersUnchanged, calls, CompleteFromReuse
<1>4. CASE Transition
  <2>1. WorkflowOK(wf')
    BY <1>4, TransitionMoves DEF Moved
  <2>2. Request(wf) \in Requests /\ (Commit(Request(wf)) \/ DbUnchanged)
    BY <1>4, RequestLateOK DEF Transition, DatabaseSteps
  <2>3. op' \in Rows /\ recorded' \in TaskIds /\ UNCHANGED <<calls, vouched>>
    BY <2>2, RequestTypes DEF calls
  <2> QED BY <1>4, <2>1, <2>3
       DEF TypeOK, LateOK, WorkflowOK, OthersUnchanged, calls, Transition
<1>5. CASE SettleOperation
  <2>1. WorkflowOK(wf')
    BY <1>5, SettleOperationMoves DEF Moved
  <2>2. Request(wf) \in Requests /\ (Commit(Request(wf)) \/ DbUnchanged)
    BY <1>5, RequestLateOK DEF SettleOperation, DatabaseSteps
  <2>3. op' \in Rows /\ recorded' \in TaskIds /\ UNCHANGED <<calls, vouched>>
    BY <2>2, RequestTypes DEF calls
  <2> QED BY <1>5, <2>1, <2>3
       DEF TypeOK, LateOK, WorkflowOK, OthersUnchanged, calls, SettleOperation
<1>6. CASE BeginSubmit
  <2>1. WorkflowOK(wf')
    BY <1>6, BeginSubmitGoes
  <2>2. submits' \in [1..MaxSubmits -> SubmitStates]
    BY <1>6 DEF BeginSubmit, TypeOK, SubmitStates
  <2> QED BY <1>6, <2>1, <2>2 DEF TypeOK, LateOK, WorkflowOK, OthersUnchanged, BeginSubmit
<1>7. CASE CallSubmit
  <2>1. WorkflowOK(wf')
    BY <1>7, CallSubmitGoes
  <2>2. provider' \in Providers
    <3>1. provider \in Providers
      BY DEF TypeOK
    <3>2. \/ provider' = provider
          \/ provider' = [provider EXCEPT !.task = "running", !.executions = @ + 1]
          \/ provider' = [provider EXCEPT !.flying = @ + 1]
      BY <1>7, CallSubmitGoes DEF Runs
    <3>3. provider.flying + 1 \in Nat /\ provider.executions + 1 \in Nat
      BY <3>1 DEF Providers
    <3>4. CASE provider' = [provider EXCEPT !.task = "running", !.executions = @ + 1]
      BY <3>1, <3>3, <3>4 DEF Providers
    <3>5. CASE provider' = [provider EXCEPT !.flying = @ + 1]
      BY <3>1, <3>3, <3>5 DEF Providers
    <3> QED BY <3>1, <3>2, <3>4, <3>5
  <2> QED BY <1>7, <2>1, <2>2 DEF TypeOK, LateOK, WorkflowOK, DbUnchanged, calls, CallSubmit
<1>8. CASE CompleteSubmit
  <2>1. WorkflowOK(wf')
    BY <1>8, CompleteSubmitGoes DEF Moved
  <2>2. submits' \in [1..MaxSubmits -> SubmitStates]
    BY <1>8 DEF CompleteSubmit, TypeOK, WorkflowOK, SubmitStates
  <2> QED BY <1>8, <2>1, <2>2
       DEF TypeOK, LateOK, WorkflowOK, OthersUnchanged, CompleteSubmit
<1>9. CASE BeginQuery
  <2>1. WorkflowOK(wf')
    BY <1>9, BeginQueryMoves DEF Moved
  <2> QED BY <1>9, <2>1
       DEF TypeOK, LateOK, WorkflowOK, DbUnchanged, OthersUnchanged, calls, BeginQuery,
       QueryStates
<1>10. CASE CallQuery
  <2>1. WorkflowOK(wf')
    BY <1>10, CallQueryGoes
  <2> QED BY <1>10, <2>1
       DEF TypeOK, LateOK, WorkflowOK, DbUnchanged, OthersUnchanged, calls, CallQuery
<1>11. CASE CompleteQuery
  <2>1. WorkflowOK(wf')
    BY <1>11, CompleteQueryMoves DEF Moved
  <2>2. QueryState(wf.answer) \in QueryStates
    <3>1. wf.answer \in AnswerStates \ {"none"}
      BY <1>11 DEF CompleteQuery, WorkflowOK, Workflows
    <3> QED BY <3>1 DEF AnswerStates, QueryStates, QueryState
  <2>3. queries' \subseteq QueryStates
    BY <1>11, <2>2 DEF CompleteQuery, TypeOK
  <2> QED BY <1>11, <2>1, <2>3
       DEF TypeOK, LateOK, WorkflowOK, OthersUnchanged, CompleteQuery
<1>12. CASE TakeCancel
  <2>1. WorkflowOK(wf')
    BY <1>12, TakeCancelMoves DEF Moved
  <2> QED BY <1>12, <2>1
       DEF TypeOK, LateOK, WorkflowOK, DbUnchanged, OthersUnchanged, calls, TakeCancel
<1>13. CASE UseResult
  <2>1. WorkflowOK(wf')
    BY <1>13, UseResultMoves DEF Moved
  <2> QED BY <1>13, <2>1
       DEF TypeOK, LateOK, WorkflowOK, DbUnchanged, OthersUnchanged, calls, UseResult
<1>14. CASE BeginCancel
  <2>1. WorkflowOK(wf')
    BY <1>14, BeginCancelMoves DEF Moved
  <2> QED BY <1>14, <2>1
       DEF TypeOK, LateOK, WorkflowOK, DbUnchanged, OthersUnchanged, calls, BeginCancel,
       CancelStates
<1>15. CASE CallCancel
  <2>1. WorkflowOK(wf')
    BY <1>15, CallCancelGoes
  <2>2. provider' \in Providers
    BY <1>15, CallCancelGoes DEF TypeOK, Providers
  <2> QED BY <1>15, <2>1, <2>2
       DEF TypeOK, LateOK, WorkflowOK, DbUnchanged, calls, CallCancel
<1>16. CASE CompleteCancel
  <2>1. WorkflowOK(wf')
    BY <1>16, CompleteCancelMoves DEF Moved
  <2>2. cancelCall' \in CancelStates
    BY <1>16 DEF CompleteCancel, WorkflowOK, CancelStates
  <2> QED BY <1>16, <2>1, <2>2
       DEF TypeOK, LateOK, WorkflowOK, OthersUnchanged, CompleteCancel
<1>17. CASE CheckManualNotExecuted
  <2>1. WorkflowOK(wf')
    BY <1>17, CheckManualNotExecutedMoves DEF Moved
  <2> QED BY <1>17, <2>1
       DEF TypeOK, LateOK, WorkflowOK, DbUnchanged, OthersUnchanged, calls,
       CheckManualNotExecuted
<1>18. CASE IngestAndFinish
  <2>1. WorkflowOK(wf')
    BY <1>18, IngestAndFinishMoves DEF Moved
  <2> QED BY <1>18, <2>1
       DEF TypeOK, LateOK, WorkflowOK, DbUnchanged, OthersUnchanged, calls,
       IngestAndFinish
<1>19. CASE AttemptTimesOut
  <2>1. late' \subseteq Requests /\ LateOK'
    BY <1>19, RequestLateOK DEF AttemptTimesOut, TypeOK, LateOK
  <2> QED BY <1>19, <2>1 DEF TypeOK, WorkflowOK, DbUnchanged, calls, AttemptTimesOut
<1>20. ASSUME NEW r \in late, ExecuteLate(r) PROVE TypeInv'
  <2>1. r \in Requests /\ (Commit(r) \/ DbUnchanged)
    BY <1>20 DEF ExecuteLate, TypeOK
  <2>2. op' \in Rows /\ recorded' \in TaskIds /\ UNCHANGED <<calls, vouched>>
    BY <2>1, RequestTypes DEF calls
  <2> QED BY <1>20, <2>2 DEF TypeOK, LateOK, WorkflowOK, calls, ExecuteLate
<1>21. CASE RecordManualNotExecuted
  <2>1. vouched' \in BOOLEAN
    BY <1>21 DEF RecordManualNotExecuted
  <2> QED BY <1>21, <2>1
       DEF TypeOK, LateOK, WorkflowOK, OthersUnchanged, calls, RecordManualNotExecuted
<1>22. CASE ReceiveResolution
  <2>1. WorkflowOK(wf')
    BY <1>22, ReceiveResolutionMoves DEF Moved
  <2> QED BY <1>22, <2>1
       DEF TypeOK, LateOK, WorkflowOK, DbUnchanged, OthersUnchanged, calls,
       ReceiveResolution
<1>23. CASE RequestCancel
  BY <1>23 DEF TypeOK, LateOK, WorkflowOK, DbUnchanged, calls, RequestCancel
<1>24. CASE DeliverCancel
  BY <1>24 DEF TypeOK, LateOK, WorkflowOK, DbUnchanged, calls, DeliverCancel
<1>25. CASE ParentSignalsCancel
  BY <1>25 DEF TypeOK, LateOK, WorkflowOK, DbUnchanged, calls, ParentSignalsCancel
<1>26. CASE ClaimQueued
  <2>1. op' \in Rows
    <3>1. op \in Rows /\ "cancelling" \in Statuses
      BY DEF TypeOK, Statuses
    <3>2. op.reused \in BOOLEAN /\ op.failure \in Codes
      BY <3>1, Zenon DEF Rows
    <3>3. op' = [status |-> "cancelling", failure |-> op.failure, reused |-> op.reused]
      BY <1>26, <3>1 DEF ClaimQueued, Rows
    <3> QED BY <3>1, <3>2, <3>3, Zenon DEF Rows
  <2> QED BY <1>26, <2>1 DEF TypeOK, LateOK, WorkflowOK, calls, ClaimQueued
<1>27. CASE SettleClaimed
  <2>1. BatchCancel \in Requests
    BY StepNames DEF BatchCancel, Requests, Statuses, Terminal, Codes, TaskIds
  <2>2. op' \in Rows /\ recorded' \in TaskIds /\ UNCHANGED <<calls, vouched>>
    BY <1>27, <2>1, RequestTypes DEF SettleClaimed, calls
  <2> QED BY <1>27, <2>2 DEF TypeOK, LateOK, WorkflowOK, calls, SettleClaimed
<1>28. CASE RequestArrives
  <2>1. provider' \in Providers
    <3>1. provider \in Providers /\ provider.flying > 0
      BY <1>28 DEF TypeOK, RequestArrives
    <3>2. /\ provider' = [task |-> "running", flying |-> provider.flying - 1,
                          executions |-> provider.executions + 1]
          /\ provider.flying \in Nat /\ provider.executions \in Nat
      BY <1>28, <3>1 DEF RequestArrives, Runs, Providers
    <3> QED BY <3>1, <3>2 DEF Providers
  <2> QED BY <1>28, <2>1 DEF TypeOK, LateOK, WorkflowOK, DbUnchanged, calls, RequestArrives
<1>29. CASE ProviderFinishes
  <2>1. provider' \in Providers
    BY <1>29 DEF TypeOK, ProviderFinishes, Providers
  <2> QED BY <1>29, <2>1
       DEF TypeOK, LateOK, WorkflowOK, DbUnchanged, calls, ProviderFinishes
<1>30. CASE UNCHANGED vars
  BY <1>30 DEF TypeOK, LateOK, WorkflowOK, vars
<1> QED BY <1>1, <1>2, <1>3, <1>4, <1>5, <1>6, <1>7, <1>8, <1>9, <1>10, <1>11, <1>12, <1>13, <1>14, <1>15, <1>16, <1>17, <1>18, <1>19, <1>20, <1>21, <1>22, <1>23, <1>24, <1>25, <1>26, <1>27, <1>28, <1>29, <1>30
     DEF Next, Workflow, Environment

(* Every variable of an operation keeps its type through every             *)
(* interleaving, and no submit attempt beyond the last one is ever made.   *)
THEOREM OperationTypeCorrect == Spec => []TypeOK
<1>1. TypeInv => TypeOK
  BY DEF TypeInv
<1> QED BY <1>1, TypeInit, TypeStep, PTL DEF Spec

-----------------------------------------------------------------------------
(* A terminal operation never changes.                                     *)

LEMMA ClosedStays ==
  ASSUME TypeInv, [Next]_vars, Closed
  PROVE  op' = op
<1>1. ASSUME NEW r, Commits(r), r.from \notin Terminal PROVE FALSE
  BY <1>1 DEF Commits, Expected, Closed
<1>2. ASSUME wf.pc \in DatabaseSteps, Commits(Request(wf)) PROVE FALSE
  BY <1>1, <1>2, RequestLateOK
<1>3. ASSUME NEW r \in late, Commits(r) PROVE FALSE
  BY <1>1, <1>3 DEF TypeInv, LateOK
<1>4. ~Commits(BatchCancel)
  BY <1>1 DEF BatchCancel, Terminal
<1>5. ~Queued
  BY DEF Queued, Closed, Terminal
<1>6. CASE CompleteFromReuse \/ Transition \/ SettleOperation
  BY <1>2, <1>6
     DEF CompleteFromReuse, Transition, SettleOperation, DatabaseSteps, DbUnchanged
<1>7. CASE \E r \in late : ExecuteLate(r)
  BY <1>3, <1>7 DEF ExecuteLate, DbUnchanged
<1>8. CASE ClaimQueued \/ SettleClaimed
  BY <1>4, <1>5, <1>8 DEF ClaimQueued, SettleClaimed
<1>9. CASE Load \/ CheckConsent \/ CallSubmit \/ CallQuery \/ TakeCancel \/ UseResult
           \/ CallCancel \/ CheckManualNotExecuted \/ IngestAndFinish
  BY <1>9 DEF Load, LoadWorkflowOperation, CheckConsent, CallSubmit, CallQuery, TakeCancel, UseResult,
       CallCancel, CheckManualNotExecuted, IngestAndFinish, DbUnchanged
<1>10. CASE BeginSubmit \/ CompleteSubmit \/ BeginQuery \/ CompleteQuery
            \/ BeginCancel \/ CompleteCancel
  BY <1>10 DEF BeginSubmit, CompleteSubmit, BeginQuery, CompleteQuery, BeginCancel,
       CompleteCancel
<1>11. CASE AttemptTimesOut \/ RecordManualNotExecuted \/ ReceiveResolution
            \/ RequestCancel \/ DeliverCancel \/ ParentSignalsCancel
            \/ RequestArrives \/ ProviderFinishes \/ UNCHANGED vars
  BY <1>11 DEF AttemptTimesOut, RecordManualNotExecuted, ReceiveResolution,
       RequestCancel, DeliverCancel, ParentSignalsCancel, RequestArrives,
       ProviderFinishes, DbUnchanged, vars
<1> QED BY <1>6, <1>7, <1>8, <1>9, <1>10, <1>11 DEF Next, Workflow, Environment

(* Neither a late attempt, nor a parent, nor an administrator changes the  *)
(* status or the failure code of an operation that was settled.            *)
THEOREM OperationTerminalForever == Spec => TerminalForever
<1>1. TypeInv /\ [Next]_vars => [Closed => op' = op]_vars
  BY ClosedStays
<1> QED BY <1>1, TypeInit, TypeStep, PTL DEF Spec, TerminalForever

-----------------------------------------------------------------------------
(* Executions, evidence and release.                                       *)

LEMMA CoreInit ==
  ASSUME Init
  PROVE  Core /\ Release
<1>1. /\ wf.pc = "load" /\ wf.attempt = 1
      /\ \A i \in 1..MaxSubmits : submits[i] = "none"
      /\ provider.task = "none" /\ provider.executions = 0 /\ provider.flying = 0
      /\ queries = {} /\ cancelCall = "none" /\ op.status = "confirmed"
  BY DEF Init
<1>2. AttemptsOK
  BY <1>1, OperationAssumption DEF AttemptsOK
<1>3. ExecutionsOK
  BY <1>1 DEF ExecutionsOK
<1>4. EvidenceOK
  BY <1>1 DEF EvidenceOK, Conclusive
<1>5. ~Closed
  BY <1>1 DEF Closed, Terminal
<1> QED BY <1>2, <1>3, <1>4, <1>5 DEF Core, Release, NoOpenSubmit, NoBlindRelease

\* A step that leaves the submissions and the provider alone, and records
\* nothing that establishes the charge of a task that has not ended.
Quiet ==
  /\ Moved
  /\ submits' = submits /\ provider' = provider
  /\ Conclusive' => Conclusive \/ TaskEnded

LEMMA QuietKeepsCore ==
  ASSUME TypeInv, Core, Quiet
  PROVE  Core'
<1> USE DEF Core
<1>1. CASE wf' = wf
  BY <1>1 DEF Quiet, AttemptsOK, ExecutionsOK, EvidenceOK, TaskEnded, MayHaveRun
<1>2. CASE wf'.attempt = wf.attempt /\ wf'.pc \in Plain \cup {"call_query", "call_cancel"}
  <2>1. /\ wf'.pc \notin BeforeSubmit \cup {"call_submit"}
        /\ wf'.pc \notin {"complete_submit", "complete_query", "complete_cancel"}
    BY <1>2 DEF Plain, BeforeSubmit, Calls
  <2> QED BY <1>2, <2>1
          DEF Quiet, AttemptsOK, ExecutionsOK, EvidenceOK, TaskEnded, MayHaveRun
<1>3. CASE wf'.attempt = wf.attempt /\ wf.pc \in BeforeSubmit /\ wf'.pc \in BeforeSubmit
  <2>1. wf'.pc \notin Calls
    BY <1>3 DEF BeforeSubmit, Calls
  <2> QED BY <1>3, <2>1
          DEF Quiet, AttemptsOK, ExecutionsOK, EvidenceOK, TaskEnded, MayHaveRun, Calls
<1> QED BY <1>1, <1>2, <1>3 DEF Quiet, Moved

\* The release stays justified as long as the operation is not closed.
LEMMA QuietKeepsRelease ==
  ASSUME TypeInv, Release, submits' = submits, provider' = provider,
         vouched => vouched', op'.status \in Terminal => op.status \in Terminal
  PROVE  Release'
BY DEF Release, NoOpenSubmit, NoBlindRelease, Closed

\* What runs, ran or may still run has a row, and a settlement that is not
\* vouched for finds that it ended.
LEMMA EstablishedMeansEnded ==
  ASSUME TypeInv, Core, CostEstablished
  PROVE  /\ \A i \in 1..MaxSubmits : submits[i] # "open"
         /\ provider.flying = 0 /\ provider.task # "running"
<1>1. \A i \in 1..MaxSubmits : submits[i] # "open"
  BY DEF CostEstablished, HasSubmission, OpenCall, NoCalls
<1>2. provider \in Providers
  BY DEF TypeInv, TypeOK
<1>3. CASE MayHaveRun
  <2>1. Conclusive
    BY <1>3 DEF CostEstablished, HasSubmission, NoCalls, MayHaveRun
  <2> QED BY <1>1, <2>1 DEF Core, EvidenceOK, TaskEnded
<1>4. CASE ~MayHaveRun
  BY <1>1, <1>2, <1>4 DEF Core, ExecutionsOK, Providers
<1> QED BY <1>3, <1>4

LEMMA GatedRelease ==
  ASSUME TypeInv, Core, Release, NEW r,
         r.name \notin {"settle", "reuse"} => r.to \notin Terminal,
         Commits(r), Commit(r), provider' = provider
  PROVE  Release'
<1>1. op \in Rows /\ op'.status = r.to
  BY DEF TypeInv, TypeOK, Commit, Rows
<1>2. submits' = submits /\ vouched' = vouched
  BY DEF Commit, calls
<1>3. CASE r.name \notin {"settle", "reuse"}
  BY <1>1, <1>3 DEF Release, NoOpenSubmit, NoBlindRelease, Closed
<1>4. CASE r.name = "reuse"
  <2>1. NoCalls
    BY <1>4 DEF Commits
  <2>2. provider.flying = 0 /\ provider.task # "running"
        /\ \A i \in 1..MaxSubmits : submits[i] # "open"
    BY <2>1 DEF NoCalls, MayHaveRun, Core, ExecutionsOK, TypeInv, TypeOK, Providers
  <2> QED BY <1>2, <2>2 DEF Release, NoOpenSubmit, NoBlindRelease
<1>5. CASE r.name = "settle" /\ CostEstablished
  BY <1>2, <1>5, EstablishedMeansEnded DEF Release, NoOpenSubmit, NoBlindRelease
<1>6. CASE r.name = "settle" /\ ~CostEstablished
  <2>1. vouched
    BY <1>6 DEF Commits, CanFinalize, ManualNotExecuted
  <2> QED BY <1>2, <2>1 DEF Release, NoOpenSubmit, NoBlindRelease
<1> QED BY <1>3, <1>4, <1>5, <1>6

LEMMA QuietWorkflow ==
  ASSUME TypeInv, Core,
         \/ Load \/ CheckConsent \/ CompleteFromReuse \/ Transition \/ SettleOperation
         \/ BeginQuery \/ CompleteQuery \/ TakeCancel \/ UseResult
         \/ BeginCancel \/ CompleteCancel
         \/ CheckManualNotExecuted \/ IngestAndFinish \/ ReceiveResolution
  PROVE  Quiet
<1>1. CASE Load
  BY <1>1, LoadMoves DEF Quiet, Conclusive, Load, LoadWorkflowOperation, DbUnchanged, OthersUnchanged, calls
<1>2. CASE CheckConsent
  BY <1>2, CheckConsentMoves DEF Quiet, Conclusive, CheckConsent, DbUnchanged, OthersUnchanged, calls
<1>3. CASE TakeCancel
  BY <1>3, TakeCancelMoves DEF Quiet, Conclusive, TakeCancel, DbUnchanged, OthersUnchanged, calls
<1>4. CASE UseResult
  BY <1>4, UseResultMoves DEF Quiet, Conclusive, UseResult, DbUnchanged, OthersUnchanged, calls
<1>5. CASE CheckManualNotExecuted
  BY <1>5, CheckManualNotExecutedMoves DEF Quiet, Conclusive, CheckManualNotExecuted, DbUnchanged, OthersUnchanged, calls
<1>6. CASE IngestAndFinish
  BY <1>6, IngestAndFinishMoves DEF Quiet, Conclusive, IngestAndFinish, DbUnchanged, OthersUnchanged, calls
<1>7. CASE ReceiveResolution
  BY <1>7, ReceiveResolutionMoves DEF Quiet, Conclusive, ReceiveResolution, DbUnchanged, OthersUnchanged, calls
<1>8. CASE CompleteFromReuse
  <2>1. UNCHANGED <<calls, provider>>
    BY <1>8 DEF CompleteFromReuse, Commit, DbUnchanged, OthersUnchanged, calls
  <2> QED BY <1>8, <2>1, CompleteFromReuseMoves DEF Quiet, Conclusive, calls
<1>9. CASE Transition
  <2>1. UNCHANGED <<calls, provider>>
    BY <1>9 DEF Transition, Commit, DbUnchanged, OthersUnchanged, calls
  <2> QED BY <1>9, <2>1, TransitionMoves DEF Quiet, Conclusive, calls
<1>10. CASE SettleOperation
  <2>1. UNCHANGED <<calls, provider>>
    BY <1>10 DEF SettleOperation, Commit, DbUnchanged, OthersUnchanged, calls
  <2> QED BY <1>10, <2>1, SettleOperationMoves DEF Quiet, Conclusive, calls
<1>11. CASE BeginQuery
  <2>1. Conclusive' => Conclusive
    BY <1>11 DEF BeginQuery, Conclusive
  <2> QED BY <1>11, <2>1, BeginQueryMoves DEF Quiet, BeginQuery, OthersUnchanged
<1>12. CASE BeginCancel
  <2>1. Conclusive' => Conclusive
    BY <1>12 DEF BeginCancel, Conclusive
  <2> QED BY <1>12, <2>1, BeginCancelMoves DEF Quiet, BeginCancel, OthersUnchanged
<1>13. CASE CompleteQuery
  <2>1. CASE QueryState(wf.answer) \in {"succeeded", "failed"}
    <3>1. wf.answer \in {"succeeded", "empty", "failed"}
      BY <2>1 DEF QueryState
    <3>2. TaskEnded
      BY <1>13, <3>1 DEF CompleteQuery, Core, EvidenceOK
    <3> QED BY <1>13, <3>2, CompleteQueryMoves DEF Quiet, CompleteQuery, OthersUnchanged
  <2>2. CASE QueryState(wf.answer) \notin {"succeeded", "failed"}
    <3>1. Conclusive' => Conclusive
      BY <1>13, <2>2 DEF CompleteQuery, Conclusive
    <3> QED BY <1>13, <3>1, CompleteQueryMoves DEF Quiet, CompleteQuery, OthersUnchanged
  <2> QED BY <2>1, <2>2
<1>14. CASE CompleteCancel
  <2>1. wf.report = "cancelled" => TaskEnded
    BY <1>14 DEF CompleteCancel, Core, EvidenceOK
  <2>2. Conclusive' => Conclusive \/ TaskEnded
    BY <1>14, <2>1 DEF CompleteCancel, Conclusive
  <2> QED BY <1>14, <2>2, CompleteCancelMoves DEF Quiet, CompleteCancel, OthersUnchanged
<1> QED BY <1>1, <1>2, <1>3, <1>4, <1>5, <1>6, <1>7, <1>8, <1>9, <1>10, <1>11, <1>12, <1>13, <1>14

LEMMA QuietEnvironment ==
  ASSUME TypeInv,
         \/ AttemptTimesOut \/ (\E r \in late : ExecuteLate(r))
         \/ RecordManualNotExecuted \/ RequestCancel \/ DeliverCancel
         \/ ClaimQueued \/ SettleClaimed \/ ParentSignalsCancel \/ UNCHANGED vars
  PROVE  Quiet
<1>1. wf' = wf /\ UNCHANGED <<calls, provider>>
  BY DEF AttemptTimesOut, ExecuteLate, RecordManualNotExecuted, RequestCancel,
     DeliverCancel, ClaimQueued, SettleClaimed, ParentSignalsCancel, Commit,
     DbUnchanged, OthersUnchanged, calls, vars
<1>2. Moved
  BY <1>1, MovedStays DEF TypeInv
<1> QED BY <1>1, <1>2 DEF Quiet, Conclusive, calls

LEMMA BeginSubmitKeepsCore ==
  ASSUME TypeInv, Core, BeginSubmit
  PROVE  Core'
<1> USE DEF Core
<1>1. /\ submits \in [1..MaxSubmits -> SubmitStates] /\ wf.attempt \in 1..MaxSubmits
      /\ wf.pc = "begin_submit" /\ provider' = provider
      /\ UNCHANGED <<queries, cancelCall>>
  BY DEF TypeInv, TypeOK, WorkflowOK, Workflows, BeginSubmit, OthersUnchanged
<1>2. submits' = submits \/ submits' = [submits EXCEPT ![wf.attempt] = "open"]
  BY DEF BeginSubmit
<1>3. \/ wf'.pc = "call_submit" /\ submits'[wf.attempt] # "none"
      \/ wf' = wf
      \/ wf'.pc = "failed" /\ submits' = submits
  BY BeginSubmitGoes
<1>4. wf'.attempt = wf.attempt /\ wf'.pc \in {"begin_submit", "call_submit", "failed"}
  BY <1>1, <1>3, BeginSubmitGoes
<1>5. AttemptsOK'
  <2>1. submits[wf.attempt] \in {"none", "open"}
    BY <1>1 DEF AttemptsOK, BeforeSubmit
  <2>2. submits'[wf.attempt] \in {"none", "open"}
        /\ \A i \in 1..MaxSubmits : i # wf.attempt => submits'[i] = submits[i]
    BY <1>1, <1>2, <2>1
  <2>3. \A i \in 1..MaxSubmits : i > wf.attempt => submits'[i] = "none"
    BY <1>1, <2>2 DEF AttemptsOK
  <2> QED BY <1>1, <1>3, <1>4, <2>2, <2>3 DEF AttemptsOK, BeforeSubmit
<1>6. ExecutionsOK'
  <2>1. provider.executions = 0 /\ provider.flying = 0
    BY <1>1 DEF ExecutionsOK, BeforeSubmit
  <2> QED BY <1>1, <2>1 DEF ExecutionsOK
<1>7. EvidenceOK'
  BY <1>1, <1>4 DEF EvidenceOK, Conclusive, TaskEnded
<1> QED BY <1>5, <1>6, <1>7

LEMMA CallSubmitKeepsCore ==
  ASSUME TypeInv, Core, CallSubmit
  PROVE  Core'
<1> USE DEF Core
<1>1. /\ wf.pc = "call_submit" /\ wf.attempt \in 1..MaxSubmits /\ provider \in Providers
      /\ UNCHANGED calls
  BY DEF TypeInv, TypeOK, WorkflowOK, Workflows, CallSubmit, DbUnchanged
<1>2. /\ WorkflowOK(wf') /\ wf'.attempt = wf.attempt /\ wf'.pc = "complete_submit"
      /\ \/ wf'.report \in {"accepted", "unknown"} /\ provider' = Runs(provider)
         \/ wf'.report # "accepted" /\ provider' = provider
         \/ wf'.report = "unknown" /\ provider' = [provider EXCEPT !.flying = @ + 1]
  BY CallSubmitGoes
<1>3. /\ provider.executions = 0 /\ provider.flying = 0 /\ provider.task = "none"
      /\ submits[wf.attempt] = "open"
  BY <1>1 DEF ExecutionsOK, AttemptsOK
<1>4. AttemptsOK'
  BY <1>1, <1>2 DEF AttemptsOK, BeforeSubmit, calls
<1>5. MayHaveRun'
  BY <1>1, <1>3 DEF MayHaveRun, calls
<1>6. \/ /\ wf'.report \in {"accepted", "unknown"}
         /\ provider'.executions = 1 /\ provider'.flying = 0 /\ provider'.task = "running"
      \/ provider'.executions = 0 /\ provider'.flying = 0 /\ provider'.task = "none"
      \/ /\ wf'.report = "unknown"
         /\ provider'.executions = 0 /\ provider'.flying = 1 /\ provider'.task = "none"
  <2>1. CASE wf'.report \in {"accepted", "unknown"} /\ provider' = Runs(provider)
    <3>1. provider' = [provider EXCEPT !.task = "running", !.executions = 1]
      BY <1>3, <2>1 DEF Runs
    <3> QED BY <1>1, <1>3, <2>1, <3>1 DEF Providers
  <2>2. CASE wf'.report # "accepted" /\ provider' = provider
    BY <1>3, <2>2
  <2>3. CASE wf'.report = "unknown" /\ provider' = [provider EXCEPT !.flying = @ + 1]
    <3>1. provider' = [provider EXCEPT !.flying = 1]
      BY <1>3, <2>3
    <3> QED BY <1>1, <1>3, <2>3, <3>1 DEF Providers
  <2> QED BY <1>2, <2>1, <2>2, <2>3
<1>7. ExecutionsOK'
  BY <1>2, <1>5, <1>6 DEF ExecutionsOK, BeforeSubmit
<1>8. EvidenceOK'
  <2>1. ~Conclusive
    BY <1>3 DEF EvidenceOK, TaskEnded
  <2> QED BY <1>1, <1>2, <2>1 DEF EvidenceOK, Conclusive, calls
<1> QED BY <1>4, <1>7, <1>8

LEMMA CompleteSubmitKeepsCore ==
  ASSUME TypeInv, Core, CompleteSubmit
  PROVE  Core'
<1> USE DEF Core
<1>1. /\ submits \in [1..MaxSubmits -> SubmitStates] /\ wf.attempt \in 1..MaxSubmits
      /\ wf.pc = "complete_submit" /\ provider' = provider /\ provider \in Providers
      /\ submits' = [submits EXCEPT ![wf.attempt] = wf.report]
      /\ UNCHANGED <<queries, cancelCall>>
      /\ wf.report \in {"accepted", "rejected", "not_submitted", "unknown"}
  BY DEF TypeInv, TypeOK, WorkflowOK, Workflows, CompleteSubmit, OthersUnchanged
<1>2. \A i \in 1..MaxSubmits : i > wf.attempt => submits'[i] = "none"
  BY <1>1 DEF AttemptsOK
<1>3. provider.executions + provider.flying > 0 => MayHaveRun'
  <2>1. CASE wf.report \in {"accepted", "unknown"}
    BY <1>1, <2>1 DEF MayHaveRun
  <2>2. CASE wf.report \in {"rejected", "not_submitted"}
    BY <1>1, <2>2 DEF ExecutionsOK
  <2> QED BY <1>1, <2>1, <2>2
<1>4. CASE wf' = wf
  BY <1>1, <1>2, <1>3, <1>4
     DEF AttemptsOK, ExecutionsOK, EvidenceOK, Conclusive, TaskEnded, BeforeSubmit
<1>5. CASE wf'.attempt = wf.attempt /\ wf'.pc \in Plain \cup {"call_query", "call_cancel"}
  <2>1. /\ wf'.pc \notin BeforeSubmit \cup {"call_submit"}
        /\ wf'.pc \notin {"complete_submit", "complete_query", "complete_cancel"}
    BY <1>5 DEF Plain, BeforeSubmit, Calls
  <2> QED BY <1>1, <1>2, <1>3, <1>5, <2>1
          DEF AttemptsOK, ExecutionsOK, EvidenceOK, Conclusive, TaskEnded
<1>6. CASE NextAttempt(wf, wf')
  <2>1. /\ wf'.pc = "begin_submit" /\ wf.report = "not_submitted"
        /\ wf'.attempt = wf.attempt + 1 /\ wf'.attempt \in 1..MaxSubmits
    BY <1>6 DEF NextAttempt, WorkflowOK, Workflows
  <2>2. submits'[wf'.attempt] = "none"
    BY <1>1, <1>2, <2>1
  <2>3. AttemptsOK'
    BY <1>1, <1>2, <2>1, <2>2 DEF AttemptsOK
  <2>4. provider.executions = 0 /\ provider.flying = 0
    BY <1>1, <2>1 DEF ExecutionsOK
  <2>5. ExecutionsOK'
    BY <1>1, <2>1, <2>4 DEF ExecutionsOK
  <2> QED BY <1>1, <2>1, <2>3, <2>5 DEF EvidenceOK, Conclusive, TaskEnded
<1>7. wf.pc \notin BeforeSubmit
  BY <1>1 DEF BeforeSubmit
<1> QED BY <1>4, <1>5, <1>6, <1>7, CompleteSubmitGoes DEF Moved

\* A task that ended was executed, and nothing is under way beside it.
LEMMA EndedAlone ==
  ASSUME TypeInv, Core, provider.task \in {"succeeded", "failed", "cancelled"}
  PROVE  TaskEnded
<1>1. provider.executions # 0 /\ provider.executions + provider.flying <= 1
      /\ provider.executions \in Nat /\ provider.flying \in Nat
  BY DEF Core, ExecutionsOK, TypeInv, TypeOK, Providers
<1> QED BY <1>1 DEF TaskEnded

LEMMA CallQueryKeepsCore ==
  ASSUME TypeInv, Core, CallQuery
  PROVE  Core'
<1> USE DEF Core
<1>1. /\ wf'.attempt = wf.attempt /\ wf'.pc = "complete_query" /\ wf'.answer \in Answers
      /\ UNCHANGED <<calls, provider>> /\ provider \in Providers
  BY CallQueryGoes DEF CallQuery, DbUnchanged, OthersUnchanged, TypeInv, TypeOK
<1>2. AttemptsOK'
  BY <1>1 DEF AttemptsOK, BeforeSubmit, calls
<1>3. ExecutionsOK'
  BY <1>1 DEF ExecutionsOK, BeforeSubmit, MayHaveRun, calls
<1>4. ASSUME wf'.answer \in {"succeeded", "empty", "failed"} PROVE TaskEnded
  <2>1. ~(wf.purpose = "manual_poll" /\ wf.task # "own")
    BY DEF TypeInv, WorkflowOK
  <2>2. wf'.answer \in CASE provider.task = "none" -> {}
                         [] provider.task = "running" -> {"running"}
                         [] provider.task = "succeeded" -> {"succeeded", "empty"}
                         [] OTHER -> {"failed"}
    BY <1>1, <1>4, <2>1 DEF Answers
  <2>3. provider.task \notin {"none", "running"}
    BY <1>4, <2>2
  <2> QED BY <1>1, <2>3, EndedAlone DEF Providers
<1>5. EvidenceOK'
  BY <1>1, <1>4 DEF EvidenceOK, Conclusive, TaskEnded, calls
<1> QED BY <1>2, <1>3, <1>5

LEMMA CallCancelKeepsCore ==
  ASSUME TypeInv, Core, CallCancel
  PROVE  Core'
<1> USE DEF Core
<1>1. /\ wf'.attempt = wf.attempt /\ wf'.pc = "complete_cancel"
      /\ UNCHANGED calls /\ provider \in Providers
  BY CallCancelGoes DEF CallCancel, DbUnchanged, TypeInv, TypeOK
<1>2. AttemptsOK'
  BY <1>1 DEF AttemptsOK, BeforeSubmit, calls
<1>3. CASE provider.task = "running" /\ provider' = [provider EXCEPT !.task = "cancelled"]
  <2>1. /\ provider'.task = "cancelled" /\ provider'.flying = provider.flying
        /\ provider'.executions = provider.executions
    BY <1>1, <1>3 DEF Providers
  <2>2. ExecutionsOK'
    BY <1>1, <1>3, <2>1 DEF ExecutionsOK, BeforeSubmit, MayHaveRun, calls
  <2>3. provider.flying = 0
    BY <1>1, <1>3 DEF ExecutionsOK, Providers
  <2> QED BY <1>1, <1>2, <2>1, <2>2, <2>3 DEF EvidenceOK, Conclusive, TaskEnded, calls
<1>4. CASE provider' = provider /\ (wf'.report = "cancelled" => provider.task = "cancelled")
  <2>1. ExecutionsOK'
    BY <1>1, <1>4 DEF ExecutionsOK, BeforeSubmit, MayHaveRun, calls
  <2>2. wf'.report = "cancelled" => TaskEnded
    BY <1>4, EndedAlone
  <2> QED BY <1>1, <1>2, <1>4, <2>1, <2>2 DEF EvidenceOK, Conclusive, TaskEnded, calls
<1> QED BY <1>3, <1>4, CallCancelGoes

LEMMA RequestArrivesKeepsCore ==
  ASSUME TypeInv, Core, RequestArrives
  PROVE  Core'
<1> USE DEF Core
<1>1. /\ provider \in Providers /\ provider.flying > 0 /\ wf' = wf /\ UNCHANGED calls
  BY DEF TypeInv, TypeOK, RequestArrives, DbUnchanged
<1>2. provider.executions = 0 /\ provider.flying = 1
  BY <1>1 DEF ExecutionsOK, Providers
<1>3. provider' = [task |-> "running", flying |-> 0, executions |-> 1]
  <2> DEFINE p == [task |-> provider.task, flying |-> 0, executions |-> 0]
  <2>1. [provider EXCEPT !.flying = @ - 1] = p
    BY <1>1, <1>2 DEF Providers
  <2>2. provider' = Runs(p)
    BY <2>1 DEF RequestArrives
  <2>3. Runs(p) = [p EXCEPT !.task = "running", !.executions = p.executions + 1]
    BY DEF Runs
  <2>4. p.executions + 1 = 1
    OBVIOUS
  <2>5. Runs(p) = [task |-> "running", flying |-> 0, executions |-> 1]
    BY <2>3, <2>4
  <2> QED BY <2>2, <2>5
<1>4. MayHaveRun /\ ~TaskEnded
  BY <1>2 DEF ExecutionsOK, TaskEnded
<1>5. AttemptsOK'
  BY <1>1 DEF AttemptsOK, calls
<1>6. ExecutionsOK'
  BY <1>1, <1>2, <1>3, <1>4 DEF ExecutionsOK, MayHaveRun, calls
<1>7. EvidenceOK'
  BY <1>1, <1>4 DEF EvidenceOK, Conclusive, calls
<1> QED BY <1>5, <1>6, <1>7

LEMMA ProviderFinishesKeepsCore ==
  ASSUME TypeInv, Core, ProviderFinishes
  PROVE  Core'
<1> USE DEF Core
<1>1. /\ provider \in Providers /\ provider.task = "running" /\ wf' = wf /\ UNCHANGED calls
  BY DEF TypeInv, TypeOK, ProviderFinishes, DbUnchanged
<1>2. /\ provider'.task \in {"succeeded", "failed"} /\ provider'.flying = provider.flying
      /\ provider'.executions = provider.executions
  BY <1>1 DEF ProviderFinishes, Providers
<1>3. AttemptsOK'
  BY <1>1 DEF AttemptsOK, calls
<1>4. ExecutionsOK'
  BY <1>1, <1>2 DEF ExecutionsOK, MayHaveRun, calls
<1>5. EvidenceOK'
  BY <1>1 DEF EvidenceOK, Conclusive, TaskEnded, calls
<1> QED BY <1>3, <1>4, <1>5

LEMMA CoreStep ==
  ASSUME TypeInv, Core, [Next]_vars
  PROVE  Core'
<1>1. CASE \/ Load \/ CheckConsent \/ CompleteFromReuse \/ Transition \/ SettleOperation
           \/ BeginQuery \/ CompleteQuery \/ TakeCancel \/ UseResult
           \/ BeginCancel \/ CompleteCancel
           \/ CheckManualNotExecuted \/ IngestAndFinish \/ ReceiveResolution
  BY <1>1, QuietWorkflow, QuietKeepsCore
<1>2. CASE \/ AttemptTimesOut \/ (\E r \in late : ExecuteLate(r))
           \/ RecordManualNotExecuted \/ RequestCancel \/ DeliverCancel
           \/ ClaimQueued \/ SettleClaimed \/ ParentSignalsCancel \/ UNCHANGED vars
  BY <1>2, QuietEnvironment, QuietKeepsCore
<1>3. CASE BeginSubmit \/ CallSubmit \/ CompleteSubmit
  BY <1>3, BeginSubmitKeepsCore, CallSubmitKeepsCore, CompleteSubmitKeepsCore
<1>4. CASE CallQuery \/ CallCancel
  BY <1>4, CallQueryKeepsCore, CallCancelKeepsCore
<1>5. CASE RequestArrives \/ ProviderFinishes
  BY <1>5, RequestArrivesKeepsCore, ProviderFinishesKeepsCore
<1> QED BY <1>1, <1>2, <1>3, <1>4, <1>5 DEF Next, Workflow, Environment

LEMMA ReleaseStep ==
  ASSUME TypeInv, Core, Release, [Next]_vars
  PROVE  Release'
<1>1. CASE \/ Load \/ CheckConsent \/ TakeCancel \/ UseResult \/ CallQuery
           \/ CheckManualNotExecuted \/ IngestAndFinish
           \/ AttemptTimesOut \/ ReceiveResolution \/ RequestCancel \/ DeliverCancel
           \/ ParentSignalsCancel \/ UNCHANGED vars
  <2>1. UNCHANGED <<op, submits, vouched, provider>>
    BY <1>1
       DEF Load, LoadWorkflowOperation, CheckConsent, TakeCancel, UseResult, CallQuery, CheckManualNotExecuted,
           IngestAndFinish, AttemptTimesOut, ReceiveResolution, RequestCancel,
           DeliverCancel, ParentSignalsCancel, DbUnchanged, OthersUnchanged, calls, vars
  <2> QED BY <2>1, QuietKeepsRelease
<1>2. CASE BeginQuery \/ CompleteQuery \/ BeginCancel \/ CompleteCancel
           \/ RecordManualNotExecuted
  BY <1>2, QuietKeepsRelease
     DEF BeginQuery, CompleteQuery, BeginCancel, CompleteCancel, RecordManualNotExecuted,
         OthersUnchanged, calls
<1>3. CASE ClaimQueued
  <2>1. op'.status = "cancelling"
    BY <1>3 DEF ClaimQueued, TypeInv, TypeOK, Rows
  <2> QED BY <1>3, <2>1, QuietKeepsRelease DEF ClaimQueued, calls, Terminal
<1>4. CASE CompleteFromReuse \/ Transition \/ SettleOperation
  <2> DEFINE r == Request(wf)
  <2>1. (Commits(r) /\ Commit(r)) \/ DbUnchanged
    BY <1>4 DEF CompleteFromReuse, Transition, SettleOperation
  <2>2. provider' = provider /\ wf.pc \in DatabaseSteps
    BY <1>4 DEF CompleteFromReuse, Transition, SettleOperation, OthersUnchanged,
         DatabaseSteps
  <2>3. r.name \notin {"settle", "reuse"} => r.to \notin Terminal
    BY <2>2, RequestLateOK
  <2> HIDE DEF r
  <2>4. CASE Commits(r) /\ Commit(r)
    BY <2>2, <2>3, <2>4, GatedRelease
  <2>5. CASE DbUnchanged
    BY <2>2, <2>5, QuietKeepsRelease DEF DbUnchanged, calls
  <2> QED BY <2>1, <2>4, <2>5
<1>5. ASSUME NEW r \in late, ExecuteLate(r) PROVE Release'
  <2>1. (Commits(r) /\ Commit(r)) \/ DbUnchanged
    BY <1>5 DEF ExecuteLate
  <2>2. provider' = provider
    BY <1>5 DEF ExecuteLate
  <2>3. r.name \notin {"settle", "reuse"} => r.to \notin Terminal
    BY DEF TypeInv, LateOK
  <2>4. CASE Commits(r) /\ Commit(r)
    BY <2>2, <2>3, <2>4, GatedRelease
  <2>5. CASE DbUnchanged
    BY <2>2, <2>5, QuietKeepsRelease DEF DbUnchanged, calls
  <2> QED BY <2>1, <2>4, <2>5
<1>6. CASE SettleClaimed
  BY <1>6, GatedRelease DEF SettleClaimed, BatchCancel
<1>7. CASE BeginSubmit
  <2>1. CASE submits' = submits
    BY <1>7, <2>1, QuietKeepsRelease DEF BeginSubmit, OthersUnchanged
  <2>2. CASE MayBegin("submit")
    BY <1>7, <2>2 DEF BeginSubmit, MayBegin, Release, NoOpenSubmit, NoBlindRelease, Closed
  <2> QED BY <1>7, <2>1, <2>2 DEF BeginSubmit
<1>8. CASE CallSubmit
  <2>1. submits[wf.attempt] = "open" /\ wf.attempt \in 1..MaxSubmits
    BY <1>8 DEF CallSubmit, Core, AttemptsOK, TypeInv, WorkflowOK, Workflows
  <2>2. ~(Closed /\ ~vouched)
    BY <2>1 DEF Release, NoOpenSubmit
  <2> QED BY <1>8, <2>2
          DEF CallSubmit, DbUnchanged, Release, NoOpenSubmit, NoBlindRelease, Closed
<1>9. CASE CompleteSubmit
  <2>1. \A i \in 1..MaxSubmits : submits'[i] = "open" => submits[i] = "open"
    BY <1>9 DEF CompleteSubmit, TypeInv, TypeOK, WorkflowOK
  <2> QED BY <1>9, <2>1
          DEF CompleteSubmit, OthersUnchanged, Release, NoOpenSubmit, NoBlindRelease, Closed
<1>10. CASE CallCancel
  <2>1. provider'.flying = provider.flying
        /\ (provider'.task = "running" => provider.task = "running")
    BY <1>10, CallCancelGoes DEF TypeInv, TypeOK, Providers
  <2> QED BY <1>10, <2>1
          DEF CallCancel, DbUnchanged, calls, Release, NoOpenSubmit, NoBlindRelease, Closed
<1>11. CASE RequestArrives
  <2>1. ~(Closed /\ ~vouched)
    BY <1>11 DEF RequestArrives, Release, NoBlindRelease
  <2> QED BY <1>11, <2>1
          DEF RequestArrives, DbUnchanged, Release, NoOpenSubmit, NoBlindRelease, Closed
<1>12. CASE ProviderFinishes
  <2>1. ~(Closed /\ ~vouched)
    BY <1>12 DEF ProviderFinishes, Release, NoBlindRelease
  <2> QED BY <1>12, <2>1
          DEF ProviderFinishes, DbUnchanged, Release, NoOpenSubmit, NoBlindRelease, Closed
<1> QED BY <1>1, <1>2, <1>3, <1>4, <1>5, <1>6, <1>7, <1>8, <1>9, <1>10, <1>11, <1>12
        DEF Next, Workflow, Environment

LEMMA Inductive == Spec => []IInv
<1>1. Init => IInv
  BY TypeInit, CoreInit DEF IInv
<1>2. IInv /\ [Next]_vars => IInv'
  BY TypeStep, CoreStep, ReleaseStep DEF IInv
<1> QED BY <1>1, <1>2, PTL DEF Spec

(* However many attempts, lost replies and late requests there are, the    *)
(* provider executes the request of one operation at most once.            *)
THEOREM OperationExecutesOnce == Spec => []AtMostOneExecution
<1>1. IInv => AtMostOneExecution
  BY DEF IInv, Core, ExecutionsOK, AtMostOneExecution
<1> QED BY <1>1, Inductive, PTL

(* No settlement releases the reservation of a request that runs or may    *)
(* still reach the provider, unless an administrator vouched for it.       *)
THEOREM OperationNoBlindRelease == Spec => []NoBlindRelease
<1>1. IInv => NoBlindRelease
  BY DEF IInv, Release
<1> QED BY <1>1, Inductive, PTL

-----------------------------------------------------------------------------
(***************************************************************************)
(* What an operation is closed as: the outcome agrees with the provider,   *)
(* and the operation keeps the contract of its reservation.  The invariant *)
(* above says what ran; the parts below say what the workflow knows about  *)
(* it, in which phase it is, and what a request that outlived its timeout  *)
(* may still do.                                                           *)
(***************************************************************************)

\* The phases of the workflow: before an answer to the last submission, at
\* the end, and between them.
Fresh == {"load", "check_consent", "reuse", "submit"}

Submitting == BeforeSubmit \cup {"call_submit", "complete_submit"}

Over == {"settle", "done", "failed"}

Behind == PCs \ (Submitting \cup Over)

Querying == {"begin_query", "call_query", "complete_query"}

\* Where the workflow has the task of its own submission.
Attached ==
  {"provider_accepted", "reconciled_found", "cancel_not_confirmed",
   "manual_succeeded", "submitted", "cancel_requested", "begin_cancel",
   "call_cancel", "complete_cancel"}

\* Where it has seen the task succeed.
Succeeding == {"provider_succeeded", "manual_succeeded", "ingest", "ingest_outputs"}

Succeeded == provider.task = "succeeded"

Stopped == provider.flying = 0 /\ provider.task = "cancelled"

Unexecuted == vouched /\ ~Conclusive

\* A settlement says what happened.
Justified(from, to, code) ==
  /\ to = "cancelled" => Stopped
  /\ to = "completed" => from = "ingesting" /\ Succeeded
  /\ code = "provider_not_executed" => from = "manual" /\ to = "failed" /\ Unexecuted

\* What the workflow learnt is true of the provider and of its own row.
KnowsOK(w) ==
  /\ w.task # "foreign"
  /\ w.result = "succeeded" => Succeeded
  /\ w.pc \in Attached => w.task = "own"
  /\ w.pc \in Querying =>
       /\ w.purpose = "poll" => w.task = "own"
       /\ w.purpose \in {"verify", "manual_poll"} => w.status = "manual"
  /\ w.pc = "complete_query" /\ w.answer = "succeeded" => Succeeded
  /\ w.pc = "complete_cancel" /\ w.report = "cancelled" => Stopped
  /\ w.pc \in Succeeding => Succeeded
  /\ w.pc = "ingest_outputs" => w.status = "ingesting"
  /\ w.pc \in {"manual", "check_not_executed"} => w.status = "manual"
  /\ w.pc = "settle" => Justified(w.status, w.to, w.code)

\* A request of the workflow, in time or late, says what happened.
RequestOK(r) ==
  /\ r.name \in TransitionNames \cup {"settle", "reuse"}
  /\ r.name \in TransitionNames =>
       r.from = Transitions[r.name].from /\ r.to = Transitions[r.name].to
  /\ r.name \in RecordsTask => r.task = "own"
  /\ r.name \notin {"submit", "reuse", "settle"} => MayHaveRun
  /\ r.name \in Succeeding => Succeeded
  /\ r.name = "reuse" => r.to = "completed"
  /\ r.name # "settle" => r.code = "none"
  /\ r.name = "settle" => r.to \in Terminal /\ Justified(r.from, r.to, r.code)

\* A settlement that is late is the last thing the workflow asked for.
LateTrue ==
  \A r \in late :
    /\ RequestOK(r)
    /\ r.name = "settle" => wf.pc \in Over
    /\ r.name = "reuse" => wf.pc \in Over \cup {"reuse"}
    /\ wf.pc \in Submitting => r.name \in {"submit", "reuse"}

\* The statuses an operation may have without a submission.
Undispatched == {"confirmed", "submitting", "cancelling"} \cup Terminal

\* The row says no more than the provider calls.
RowOK ==
  /\ op.status \in Statuses \ Undispatched => MayHaveRun
  /\ op.status \in {"submitted", "succeeded", "ingesting"} => recorded = "own"
  /\ recorded # "foreign"
  /\ op.failure = "provider_not_executed" => wf.pc \in Over
  /\ wf.pc \in Submitting => op.status \in Undispatched
  /\ wf.pc \in {"call_submit", "complete_submit"} \cup Behind => ~Closed
  /\ Closed => wf.pc \in Over \/ NoCalls
  /\ parent # "idle" => NoCalls /\ op.status \in {"cancelling"} \cup Terminal

\* The provider calls are those of the phase.
CallsOK ==
  /\ wf.pc \in Fresh => NoCalls
  /\ wf.pc = "complete_submit" => submits[wf.attempt] \in {"open", wf.report}
  /\ wf.pc \in Behind => MayHaveRun
  /\ cancelCall = "cancelled" =>
       wf.pc \in Over \/ (wf.pc = "complete_cancel" /\ wf.report = "cancelled")

Truth == KnowsOK(wf) /\ LateTrue /\ RowOK /\ CallsOK /\ OutcomeVerified

Outcome == IInv /\ Truth

-----------------------------------------------------------------------------
(* What the table of the transitions implies.                              *)

LEMMA TableNext ==
  \A n \in TransitionNames :
    LET t == Transitions[n]
    IN /\ t.next \in Attached => n \in Attached
       /\ t.next \in Succeeding => n \in Succeeding
       /\ t.next = "ingest_outputs" => t.to = "ingesting"
       /\ t.next = "manual" => t.to = "manual"
       /\ t.next \notin {"settle", "check_not_executed", "call_query",
                         "complete_query", "complete_cancel"}
       /\ IF n = "submit" THEN t.next = "begin_submit" ELSE t.next \in Behind
BY StepNames
   DEF TransitionNames, Transitions, Step, Attached, Succeeding, Behind, Submitting,
       BeforeSubmit, Over, ProviderSteps

LEMMA TableStatus ==
  \A n \in TransitionNames :
    LET t == Transitions[n]
    IN /\ t.to \in {"submitted", "succeeded", "ingesting"} =>
            n \in RecordsTask \/ t.from \in {"submitted", "succeeded", "ingesting"}
       /\ n = "submit" => t.to = "submitting"
       /\ n # "submit" => t.from # "confirmed"
       /\ t.from = "cancelling" => n \notin {"submit", "reuse", "settle"}
BY DEF TransitionNames, Transitions, Step, RecordsTask

LEMMA Phases ==
  /\ PCs = Submitting \cup Behind \cup Over
  /\ Behind = (TransitionNames \ {"submit"}) \cup
       {"begin_query", "call_query", "complete_query", "begin_cancel", "call_cancel",
        "complete_cancel", "submitted", "manual", "check_not_executed",
        "ingest_outputs"}
  /\ Submitting \cap Behind = {} /\ Submitting \cap Over = {} /\ Behind \cap Over = {}
  /\ Fresh \subseteq Submitting
<1>1. Submitting = {"load", "check_consent", "reuse", "submit", "begin_submit",
                   "call_submit", "complete_submit"}
  BY DEF Submitting, BeforeSubmit
<1>2. Over \subseteq PCs /\ Submitting \subseteq PCs
  BY <1>1, StepNames DEF Over, TransitionNames, ProviderSteps, Ended
<1>3. Behind = (TransitionNames \ {"submit"}) \cup
       {"begin_query", "call_query", "complete_query", "begin_cancel", "call_cancel",
        "complete_cancel", "submitted", "manual", "check_not_executed",
        "ingest_outputs"}
  BY <1>1, StepNames DEF Behind, Over, TransitionNames, ProviderSteps, Ended
<1>4. Submitting \cap Over = {} /\ Fresh \subseteq Submitting
  BY <1>1 DEF Over, Fresh
<1> QED BY <1>2, <1>3, <1>4 DEF Behind

-----------------------------------------------------------------------------
(* What the workflow knows after it went on.                               *)

LEMMA KnowsSettle ==
  ASSUME NEW w \in Workflows, KnowsOK(w), NEW to, NEW code,
         Justified(w.status, to, code)
  PROVE  KnowsOK(Settle(w, to, code))
<1> DEFINE v == Settle(w, to, code)
<1>1. /\ v.pc = "settle" /\ v.to = to /\ v.code = code
      /\ v.task = w.task /\ v.result = w.result /\ v.status = w.status
  BY DEF Settle, Workflows
<1> HIDE DEF v
<1>2. KnowsOK(v)
  BY <1>1 DEF KnowsOK, Attached, Querying, Succeeding
<1> QED BY <1>2 DEF v

LEMMA KnowsFailure ==
  ASSUME NEW w \in Workflows, KnowsOK(w), NEW code, code # "provider_not_executed"
  PROVE  KnowsOK(Settle(w, "failed", code))
BY KnowsSettle DEF Justified

LEMMA KnowsQuery ==
  ASSUME NEW w \in Workflows, KnowsOK(w), NEW purpose,
         purpose = "poll" => w.task = "own",
         purpose \in {"verify", "manual_poll"} => w.status = "manual"
  PROVE  KnowsOK(StartQuery(w, purpose))
<1> DEFINE v == StartQuery(w, purpose)
<1>1. /\ v.pc = "begin_query" /\ v.purpose = purpose
      /\ v.task = w.task /\ v.result = w.result /\ v.status = w.status
  BY DEF StartQuery, Workflows
<1> HIDE DEF v
<1>2. KnowsOK(v)
  BY <1>1 DEF KnowsOK, Attached, Querying, Succeeding
<1> QED BY <1>2 DEF v

\* The steps that ask for nothing to be known.
LEMMA KnowsElsewhere ==
  ASSUME NEW w \in Workflows, KnowsOK(w), NEW p,
         p \notin Attached \cup Querying \cup Succeeding,
         p \notin {"manual", "check_not_executed", "settle"}
  PROVE  KnowsOK([w EXCEPT !.pc = p])
<1> DEFINE v == [w EXCEPT !.pc = p]
<1>1. v.pc = p /\ v.task = w.task /\ v.result = w.result
  BY DEF Workflows
<1> HIDE DEF v
<1>2. p \notin {"complete_query", "complete_cancel", "ingest_outputs"}
  BY DEF Attached, Querying, Succeeding
<1>3. KnowsOK(v)
  BY <1>1, <1>2 DEF KnowsOK
<1> QED BY <1>3 DEF v

LEMMA KnowsNextTry ==
  ASSUME NEW w \in Workflows, KnowsOK(w)
  PROVE  KnowsOK(NextTry(w))
<1> DEFINE u == StartQuery(w, "reconcile")
           v == [u EXCEPT !.tries = @ + 1]
<1>1. KnowsOK(u)
  BY KnowsQuery
<1>2. /\ v.pc = "begin_query" /\ v.purpose = "reconcile" /\ v.task = w.task
      /\ v.result = w.result
  BY DEF StartQuery, Workflows
<1> HIDE DEF u, v
<1>3. KnowsOK(v)
  BY <1>2 DEF KnowsOK, Attached, Querying, Succeeding
<1>4. KnowsOK([w EXCEPT !.pc = "reconcile_unresolved"])
  BY KnowsElsewhere DEF Attached, Querying, Succeeding
<1> QED BY <1>3, <1>4 DEF NextTry, u, v

LEMMA KnowsNoAnswer ==
  ASSUME NEW w \in Workflows, KnowsOK(w), w.pc \in Querying
  PROVE  KnowsOK(NoAnswer(w))
<1>1. CASE w.purpose = "reconcile"
  BY <1>1, KnowsNextTry DEF NoAnswer
<1>2. CASE w.purpose = "poll"
  BY <1>2, KnowsElsewhere DEF NoAnswer, Attached, Querying, Succeeding
<1>3. CASE w.purpose \in {"verify", "manual_poll"}
  <2> DEFINE v == [w EXCEPT !.pc = "manual"]
  <2>1. /\ v.pc = "manual" /\ v.status = w.status /\ v.task = w.task
        /\ v.result = w.result /\ w.status = "manual"
    BY <1>3 DEF Workflows, KnowsOK
  <2> HIDE DEF v
  <2>2. KnowsOK(v)
    BY <2>1 DEF KnowsOK, Attached, Querying, Succeeding
  <2> QED BY <1>3, <2>2 DEF NoAnswer, v
<1> QED BY <1>1, <1>2, <1>3 DEF Workflows

LEMMA KnowsSuccess ==
  ASSUME NEW w \in Workflows, KnowsOK(w), w.result = "succeeded",
         NEW p \in {"provider_succeeded", "manual_succeeded"},
         p = "manual_succeeded" => w.task = "own"
  PROVE  KnowsOK([w EXCEPT !.pc = p])
<1> DEFINE v == [w EXCEPT !.pc = p]
<1>1. v.pc = p /\ v.task = w.task /\ v.result = w.result /\ Succeeded
  BY DEF Workflows, KnowsOK
<1> HIDE DEF v
<1>2. KnowsOK(v)
  BY <1>1 DEF KnowsOK, Attached, Querying
<1> QED BY <1>2 DEF v

LEMMA KnowsConclude ==
  ASSUME NEW w \in Workflows, KnowsOK(w)
  PROVE  KnowsOK(Conclude(w))
BY KnowsSuccess, KnowsFailure DEF Conclude

LEMMA KnowsConcludeManual ==
  ASSUME NEW w \in Workflows, KnowsOK(w), w.task = "own"
  PROVE  KnowsOK(ConcludeManual(w))
<1>1. KnowsOK([w EXCEPT !.pc = "failed"])
  BY KnowsElsewhere DEF Attached, Querying, Succeeding
<1> QED BY <1>1, KnowsSuccess, KnowsFailure DEF ConcludeManual

\* The task of the submission, attached to the operation.
LEMMA KnowsTask ==
  ASSUME NEW w \in Workflows, KnowsOK(w),
         NEW p \in {"provider_accepted", "reconciled_found"}
  PROVE  KnowsOK([w EXCEPT !.pc = p, !.task = "own"])
<1> DEFINE v == [w EXCEPT !.pc = p, !.task = "own"]
<1>1. v.pc = p /\ v.task = "own" /\ v.result = w.result
  BY DEF Workflows
<1> HIDE DEF v
<1>2. KnowsOK(v)
  BY <1>1 DEF KnowsOK, Attached, Querying, Succeeding
<1> QED BY <1>2 DEF v

LEMMA KnowsAfterQuery ==
  ASSUME NEW w, WorkflowOK(w), KnowsOK(w), w.pc = "complete_query",
         NEW v \in AfterQuery(w)
  PROVE  KnowsOK(v)
<1> DEFINE known == [w EXCEPT !.result = w.answer]
<1>0. /\ w \in Workflows /\ w.purpose \in {"reconcile", "poll", "verify", "manual_poll"}
      /\ w.pc \in Querying
  BY DEF WorkflowOK, Workflows, Querying
<1>1. /\ known \in Workflows /\ known.pc = w.pc /\ known.task = w.task
      /\ known.result = w.answer /\ known.status = w.status /\ known.purpose = w.purpose
      /\ known.answer = w.answer
  BY <1>0 DEF Workflows
<1>2. KnowsOK(NoAnswer(w))
  BY <1>0, KnowsNoAnswer
<1> HIDE DEF known
<1>3. KnowsOK(known)
  BY <1>1 DEF KnowsOK, Attached, Succeeding
<1>4. CASE w.answer = "unknown" /\ w.retry + 1 < QueryRetries
  <2> DEFINE u == [w EXCEPT !.pc = "begin_query", !.retry = @ + 1]
  <2>1. /\ u.pc = "begin_query" /\ u.task = w.task /\ u.result = w.result
        /\ u.status = w.status /\ u.purpose = w.purpose
    BY <1>0 DEF Workflows
  <2>2. v = u
    BY <1>4 DEF AfterQuery
  <2> HIDE DEF u
  <2>3. KnowsOK(u)
    BY <1>0, <2>1 DEF KnowsOK, Attached, Querying, Succeeding
  <2> QED BY <2>2, <2>3
<1>5. CASE w.answer = "unknown" /\ ~(w.retry + 1 < QueryRetries)
  BY <1>2, <1>5 DEF AfterQuery
<1>6. ASSUME w.answer # "unknown" PROVE KnowsOK(v)
  <2>0. v \in Answered(w)
    BY <1>6 DEF AfterQuery
  <2>1. CASE w.purpose = "reconcile"
    <3>1. CASE w.answer # "not_found" /\ w.reported # "none"
      <4>1. w.reported = "own"
        BY <1>0, <3>1 DEF WorkflowOK, Workflows, TaskIds
      <4>2. v = [known EXCEPT !.pc = "reconciled_found", !.task = "own"]
        BY <2>0, <2>1, <3>1, <4>1 DEF Answered, known
      <4> QED BY <1>1, <1>3, <4>2, KnowsTask
    <3>2. CASE ~(w.answer # "not_found" /\ w.reported # "none")
      BY <1>0, <2>0, <2>1, <3>2, KnowsNextTry DEF Answered
    <3> QED BY <3>1, <3>2
  <2>2. CASE w.purpose = "verify"
    <3>1. CASE TaskVerified(w)
      <4>1. w.claim = "own"
        BY <1>0, <2>2, <3>1 DEF TaskVerified, WorkflowOK, Workflows, TaskIds
      <4> DEFINE u == [w EXCEPT !.task = "own"]
      <4>2. /\ u \in Workflows /\ u.pc = w.pc /\ u.task = "own" /\ u.result = w.result
            /\ u.status = w.status /\ u.purpose = w.purpose /\ u.answer = w.answer
        BY <1>0 DEF Workflows, TaskIds
      <4>3. v = StartQuery(u, "manual_poll")
        BY <2>0, <2>2, <3>1, <4>1 DEF Answered
      <4> HIDE DEF u
      <4>4. KnowsOK(u) /\ u.status = "manual"
        BY <1>0, <2>2, <4>2 DEF KnowsOK, Succeeding
      <4> QED BY <4>2, <4>3, <4>4, KnowsQuery
    <3>2. CASE ~TaskVerified(w)
      <4>1. v = NoAnswer(w)
        BY <2>0, <2>2, <3>2 DEF Answered, NoAnswer
      <4> QED BY <1>2, <4>1
    <3> QED BY <3>1, <3>2
  <2>3. CASE w.purpose = "poll"
    <3>1. v \in {[w EXCEPT !.pc = "submitted"], NoAnswer(w), Conclude(known)}
      BY <2>0, <2>3 DEF Answered, known
    <3>2. KnowsOK([w EXCEPT !.pc = "submitted"])
      <4> DEFINE u == [w EXCEPT !.pc = "submitted"]
      <4>1. u.pc = "submitted" /\ u.task = w.task /\ u.result = w.result /\ w.task = "own"
        BY <1>0, <2>3 DEF Workflows, KnowsOK
      <4> HIDE DEF u
      <4>2. KnowsOK(u)
        BY <4>1 DEF KnowsOK, Querying, Succeeding
      <4> QED BY <4>2 DEF u
    <3> QED BY <1>1, <1>2, <1>3, <3>1, <3>2, KnowsConclude
  <2>4. CASE w.purpose = "manual_poll"
    <3>1. v \in {StartQuery(w, "manual_poll"), NoAnswer(w), ConcludeManual(known)}
      BY <2>0, <2>4 DEF Answered, known
    <3>2. w.task = "own" /\ w.status = "manual"
      BY <1>0, <2>4 DEF WorkflowOK, KnowsOK
    <3> QED BY <1>0, <1>1, <1>2, <1>3, <3>1, <3>2, KnowsQuery, KnowsConcludeManual
  <2> QED BY <1>0, <2>1, <2>2, <2>3, <2>4
<1> QED BY <1>4, <1>5, <1>6

LEMMA KnowsAfterSubmit ==
  ASSUME NEW w \in Workflows, KnowsOK(w)
  PROVE  KnowsOK(AfterSubmit(w))
<1>1. KnowsOK(Settle(w, "failed", "provider_not_submitted"))
      /\ KnowsOK(Settle(w, "failed", "provider_failed"))
  BY KnowsFailure
<1>2. KnowsOK([w EXCEPT !.pc = "provider_result_unknown"])
  BY KnowsElsewhere DEF Attached, Querying, Succeeding
<1>3. KnowsOK([w EXCEPT !.pc = "provider_accepted", !.task = "own"])
  BY KnowsTask
<1> DEFINE u == [w EXCEPT !.pc = "begin_submit", !.attempt = @ + 1]
<1>4. u.pc = "begin_submit" /\ u.task = w.task /\ u.result = w.result
  BY DEF Workflows
<1> HIDE DEF u
<1>5. KnowsOK(u)
  BY <1>4 DEF KnowsOK, Attached, Querying, Succeeding
<1> QED BY <1>1, <1>2, <1>3, <1>5 DEF AfterSubmit, u

LEMMA KnowsAfter ==
  ASSUME NEW w, WorkflowOK(w), KnowsOK(w), w.pc \in TransitionNames
  PROVE  KnowsOK(After(w, Request(w)))
<1> DEFINE v == After(w, Request(w))
           t == Transitions[w.pc]
<1>1. w \in Workflows /\ Request(w).name = w.pc /\ Request(w).to = t.to
  BY TransitionTable DEF WorkflowOK, Request
<1>2. /\ v.task = w.task /\ v.result = w.result /\ v.status = t.to
      /\ v.purpose = "reconcile"
      /\ v.pc = IF w.pc = "cancel_not_confirmed" /\ w.report = "unknown"
                THEN "cancel_result_unknown" ELSE t.next
  BY <1>1 DEF After, Workflows
<1> HIDE DEF v
<1>3. ASSUME v.pc = "cancel_result_unknown" PROVE KnowsOK(v)
  BY <1>2, <1>3 DEF KnowsOK, Attached, Querying, Succeeding
<1>4. ASSUME v.pc = t.next PROVE KnowsOK(v)
  <2> HIDE DEF t
  <2>1. /\ t.next \in Attached => w.pc \in Attached
        /\ t.next \in Succeeding => w.pc \in Succeeding
        /\ t.next = "ingest_outputs" => t.to = "ingesting"
        /\ t.next = "manual" => t.to = "manual"
        /\ t.next \notin {"settle", "check_not_executed", "call_query",
                          "complete_query", "complete_cancel"}
    BY TableNext DEF t
  <2> QED BY <1>2, <1>4, <2>1 DEF KnowsOK, Querying
<1> QED BY <1>2, <1>3, <1>4 DEF v

-----------------------------------------------------------------------------
(* What was true of the provider stays true.                               *)

Carried ==
  /\ Succeeded => Succeeded'
  /\ Stopped => Stopped'
  /\ vouched => vouched'

\* An answer is recorded only where the workflow waits for one.
Silent == Conclusive' => Conclusive

LEMMA ProviderStays ==
  ASSUME provider' = provider, vouched => vouched'
  PROVE  Carried
BY DEF Carried, Succeeded, Stopped

\* A task that ended was the only execution.
LEMMA OnlyExecution ==
  ASSUME TypeInv, Core, provider.task \in {"succeeded", "failed", "cancelled"}
  PROVE  provider.executions = 1 /\ provider.flying = 0
<1>1. provider.executions # 0 /\ provider.executions + provider.flying <= 1
      /\ provider.executions \in Nat /\ provider.flying \in Nat
  BY DEF Core, ExecutionsOK, TypeInv, TypeOK, Providers
<1> QED BY <1>1

LEMMA ProviderCarried ==
  ASSUME TypeInv, Core, CallSubmit \/ CallCancel \/ RequestArrives \/ ProviderFinishes
  PROVE  Carried /\ UNCHANGED <<op, calls, recorded, vouched, parent, late>>
<1>1. UNCHANGED <<op, calls, recorded, vouched, parent, late>>
  BY DEF CallSubmit, CallCancel, RequestArrives, ProviderFinishes, DbUnchanged
<1>2. CASE CallSubmit
  <2>1. provider.executions = 0
    BY <1>2 DEF CallSubmit, Core, ExecutionsOK
  <2>2. ~Succeeded /\ ~Stopped
    BY <2>1, OnlyExecution DEF Succeeded, Stopped
  <2> QED BY <1>1, <2>2 DEF Carried
<1>3. CASE CallCancel
  BY <1>1, <1>3, CallCancelGoes DEF Carried, Succeeded, Stopped
<1>4. CASE RequestArrives
  <2>1. provider.flying > 0
    BY <1>4 DEF RequestArrives
  <2>2. ~Succeeded /\ ~Stopped
    BY <2>1, OnlyExecution DEF Succeeded, Stopped
  <2> QED BY <1>1, <2>2 DEF Carried
<1>5. CASE ProviderFinishes
  BY <1>1, <1>5 DEF ProviderFinishes, Carried, Succeeded, Stopped
<1> QED BY <1>1, <1>2, <1>3, <1>4, <1>5

LEMMA JustifiedStays ==
  ASSUME Carried, NEW from, NEW to, NEW code, Justified(from, to, code),
         Silent \/ code # "provider_not_executed"
  PROVE  /\ to = "cancelled" => Stopped'
         /\ to = "completed" => from = "ingesting" /\ Succeeded'
         /\ code = "provider_not_executed" =>
              from = "manual" /\ to = "failed" /\ Unexecuted'
BY DEF Carried, Silent, Justified, Unexecuted

LEMMA KnowsStays ==
  ASSUME Carried, KnowsOK(wf'),
         Silent \/ (wf'.pc = "settle" => wf'.code # "provider_not_executed")
  PROVE  KnowsOK(wf)'
<1>1. (wf'.pc = "settle" => Justified(wf'.status, wf'.to, wf'.code))
  BY DEF KnowsOK
<1>2. wf'.pc = "settle" => Justified(wf.status, wf.to, wf.code)'
  BY <1>1, JustifiedStays DEF Justified
<1> QED BY <1>2 DEF KnowsOK, Carried

\* A request that says what happened still does.
LEMMA RequestStays ==
  ASSUME Carried, Silent, MayHaveRun => MayHaveRun',
         NEW r, RequestOK(r)
  PROVE  RequestOK(r)'
<1>1. r.name = "settle" => Justified(r.from, r.to, r.code)'
  BY JustifiedStays DEF RequestOK, Justified
<1> QED BY <1>1 DEF RequestOK, Carried

-----------------------------------------------------------------------------
(* The calls of a workflow, seen from its phase.                           *)

LEMMA RunsCalled ==
  ASSUME MayHaveRun
  PROVE  HasSubmission /\ ~NoCalls
BY DEF MayHaveRun, HasSubmission, NoCalls

LEMMA CalledWhileSubmitting ==
  ASSUME TypeInv, Core, Truth, wf.pc \in {"call_submit", "complete_submit"}
  PROVE  ~NoCalls /\ parent = "idle"
<1>1. wf.attempt \in 1..MaxSubmits
  BY DEF TypeInv, WorkflowOK, Workflows
<1>2. submits[wf.attempt] # "none"
  BY DEF Core, AttemptsOK, Truth, CallsOK, TypeInv, WorkflowOK
<1>3. ~NoCalls
  BY <1>1, <1>2 DEF NoCalls
<1> QED BY <1>3 DEF Truth, RowOK

LEMMA BehindCalled ==
  ASSUME TypeInv, Truth, wf.pc \in Behind
  PROVE  MayHaveRun /\ HasSubmission /\ ~NoCalls /\ parent = "idle" /\ ~Closed
BY RunsCalled DEF Truth, CallsOK, RowOK

\* The request of the workflow says what happened.
LEMMA WorkflowRequest ==
  ASSUME TypeInv, Truth, wf.pc \in DatabaseSteps
  PROVE  LET r == Request(wf)
         IN /\ RequestOK(r) /\ r.name = wf.pc
            /\ r.name = "settle" => r.to = wf.to /\ r.code = wf.code /\ r.from = wf.status
            /\ wf.pc \in Submitting => r.name \in {"submit", "reuse"}
<1> DEFINE r == Request(wf)
<1>1. wf.pc \in TransitionNames \cup {"settle", "reuse"} /\ wf \in Workflows
  BY StepNames DEF TypeInv, WorkflowOK
<1>2. /\ r.name = wf.pc
      /\ wf.pc \in TransitionNames =>
           r.from = Transitions[wf.pc].from /\ r.to = Transitions[wf.pc].to
      /\ wf.pc = "settle" => r.from = wf.status /\ r.to = wf.to /\ r.code = wf.code
      /\ wf.pc = "reuse" => r.to = "completed"
      /\ wf.pc # "settle" => r.code = "none"
      /\ wf.pc \in RecordsTask => r.task = wf.task
  BY TransitionTable DEF Request, TransitionNames
<1> HIDE DEF r
<1>3. wf.pc \in RecordsTask => wf.task = "own"
  BY DEF Truth, KnowsOK, RecordsTask, Attached
<1>4. wf.pc \notin {"submit", "reuse", "settle"} => wf.pc \in Behind
  BY <1>1, Phases
<1>5. wf.pc \notin {"submit", "reuse", "settle"} => MayHaveRun
  BY <1>4, BehindCalled
<1>6. wf.pc \in Succeeding => Succeeded
  BY DEF Truth, KnowsOK
<1>7. wf.pc = "settle" => wf.to \in Terminal /\ Justified(wf.status, wf.to, wf.code)
  BY <1>1 DEF Truth, KnowsOK, Workflows
<1>8. RequestOK(r)
  BY <1>1, <1>2, <1>3, <1>5, <1>6, <1>7 DEF RequestOK
<1>9. wf.pc \in Submitting => r.name \in {"submit", "reuse"}
  BY <1>1, <1>2, <1>4, Phases DEF Over
<1> QED BY <1>2, <1>8, <1>9 DEF r

-----------------------------------------------------------------------------
(* A request that commits.                                                 *)

\* What the row says after a request of the workflow, in time or late.
LEMMA CommittedRow ==
  ASSUME TypeInv, Truth, NEW r, RequestOK(r), Commits(r), Commit(r)
  PROVE  /\ op'.status = r.to /\ op'.failure = r.code /\ op'.reused = op.reused
         /\ op'.status \in Statuses \ Undispatched => MayHaveRun
         /\ op'.status \in {"submitted", "succeeded", "ingesting"} => recorded' = "own"
         /\ recorded' # "foreign"
         /\ op'.failure = "provider_not_executed" => r.name = "settle"
         /\ Closed' => r.name \in {"settle", "reuse"}
         /\ r.name = "reuse" => NoCalls
         /\ parent # "idle" => op'.status \in {"cancelling"} \cup Terminal
         /\ r.name \in {"submit", "reuse"} => op'.status \in Undispatched
<1>1. op'.status = r.to /\ op'.failure = r.code /\ op'.reused = op.reused
  BY DEF Commit, TypeInv, TypeOK, Rows
<1>2. r.name \in TransitionNames \cup {"settle", "reuse"} /\ op.status = r.from
  BY DEF RequestOK, Commits, Expected
<1>3. /\ "submit" \in TransitionNames /\ "settle" \notin TransitionNames
      /\ "reuse" \notin TransitionNames
  BY DEF TransitionNames
<1>4. CASE r.name \in TransitionNames
  <2>1. r.from = Transitions[r.name].from /\ r.to = Transitions[r.name].to
        /\ r.to \in Opened /\ r.from \in Opened
    BY <1>4, TransitionTable DEF RequestOK
  <2>2. r.name = "submit" => r.to = "submitting"
    BY <1>4, <2>1, TableStatus
  <2>3. r.name # "submit" => MayHaveRun
    BY <1>3, <1>4 DEF RequestOK
  <2>4. r.to \in {"submitted", "succeeded", "ingesting"} => recorded' = "own"
    <3>1. CASE r.name \in RecordsTask
      BY <3>1 DEF RequestOK, Commit
    <3>2. CASE r.name \notin RecordsTask
      BY <1>2, <1>4, <2>1, <3>2, TableStatus DEF Commit, Truth, RowOK
    <3> QED BY <3>1, <3>2
  <2>5. recorded' # "foreign"
    BY DEF RequestOK, Commit, Truth, RowOK
  <2>6. r.code = "none" /\ ~Closed' /\ r.name \notin {"settle", "reuse"}
    BY <1>1, <1>3, <1>4, <2>1 DEF RequestOK, Closed, Opened
  <2>7. parent # "idle" => r.name # "submit" \/ r.from # "cancelling"
    BY <1>4, <2>1, TableStatus
  <2>8. parent = "idle"
    <3>1. SUFFICES ASSUME parent # "idle" PROVE FALSE
      OBVIOUS
    <3>2. NoCalls /\ op.status \in {"cancelling"} \cup Terminal
      BY <3>1 DEF Truth, RowOK
    <3>3. r.from = "cancelling"
      BY <1>2, <2>1, <3>2 DEF Opened
    <3>4. r.name # "submit"
      BY <1>4, <2>1, <3>3, TableStatus
    <3> QED BY <2>3, <3>2, <3>4, RunsCalled
  <2> QED BY <1>1, <2>2, <2>3, <2>4, <2>5, <2>6, <2>8 DEF Undispatched
<1>5. CASE r.name \in {"settle", "reuse"}
  <2>1. r.to \in Terminal
    BY <1>5 DEF RequestOK, Terminal
  <2>2. recorded' = recorded
    BY <1>5 DEF Commit, RecordsTask
  <2>3. r.name = "reuse" => NoCalls /\ r.code = "none"
    BY DEF Commits, RequestOK
  <2> QED BY <1>1, <1>5, <2>1, <2>2, <2>3
          DEF Undispatched, Truth, RowOK, Terminal
<1> QED BY <1>2, <1>4, <1>5

LEMMA CommittedOutcome ==
  ASSUME TypeInv, Truth, NEW r, RequestOK(r), Commits(r), Commit(r), provider' = provider
  PROVE  OutcomeVerified'
<1>1. /\ op'.status = r.to /\ op'.failure = r.code /\ op'.reused = op.reused
      /\ recorded' # "foreign" /\ (Closed' => r.name \in {"settle", "reuse"})
      /\ op.status = r.from /\ UNCHANGED <<calls, vouched>>
  BY CommittedRow DEF Commits, Expected, Commit
<1>2. CancelledMeansStopped'
  <2>1. op'.status = "cancelled" => Stopped
    BY <1>1 DEF RequestOK, Justified, Closed, Terminal
  <2> QED BY <2>1 DEF CancelledMeansStopped, Stopped
<1>3. CompletedMeansSucceeded'
  <2>1. SUFFICES ASSUME op'.status = "completed", ~op'.reused
                 PROVE  Succeeded /\ recorded' = "own"
    BY <1>1 DEF CompletedMeansSucceeded, Succeeded
  <2>2. r.name = "settle"
    BY <1>1, <2>1 DEF Commits, Closed, Terminal
  <2>3. Succeeded /\ r.from = "ingesting"
    BY <1>1, <2>1, <2>2 DEF RequestOK, Justified
  <2>4. recorded' = recorded
    BY <2>2 DEF Commit, RecordsTask
  <2> QED BY <1>1, <2>3, <2>4 DEF Truth, RowOK
<1>4. ManualReleaseVerified'
  BY <1>1 DEF RequestOK, Justified, Unexecuted, ManualReleaseVerified, Conclusive, calls
<1> QED BY <1>2, <1>3, <1>4 DEF OutcomeVerified

\* What an operation was closed as stays true.
LEMMA OutcomeStays ==
  ASSUME Truth, UNCHANGED <<op, recorded>>, Carried,
         provider' = provider \/ ~Closed,
         Silent \/ wf.pc \notin Over
  PROVE  OutcomeVerified'
<1>1. CancelledMeansStopped'
  BY DEF Truth, OutcomeVerified, CancelledMeansStopped, Closed, Terminal
<1>2. CompletedMeansSucceeded'
  BY DEF Truth, OutcomeVerified, CompletedMeansSucceeded, Carried, Succeeded
<1>3. ManualReleaseVerified'
  BY DEF Truth, RowOK, OutcomeVerified, ManualReleaseVerified, Carried, Silent
<1> QED BY <1>1, <1>2, <1>3 DEF OutcomeVerified

-----------------------------------------------------------------------------
(* Steps that leave the provider and its calls alone.                      *)

\* Where the workflow goes without a provider call.
Advances ==
  \/ wf' = wf
  \/ wf.pc \in Fresh /\ wf'.pc \in BeforeSubmit \cup Over
  \/ wf.pc \in Submitting \cup Over /\ wf'.pc \in Over
  \/ wf.pc \in Behind \ {"complete_cancel"} /\ wf'.pc \in Behind \cup Over

CallsAlone ==
  /\ UNCHANGED <<calls, provider>>
  /\ vouched => vouched'

LEMMA AloneCarries ==
  ASSUME CallsAlone
  PROVE  /\ Carried /\ Silent /\ (MayHaveRun' <=> MayHaveRun) /\ (NoCalls' <=> NoCalls)
         /\ UNCHANGED <<submits, cancelCall>>
<1>1. Carried
  BY ProviderStays DEF CallsAlone
<1> QED BY <1>1 DEF CallsAlone, calls, Silent, Conclusive, MayHaveRun, NoCalls

LEMMA AdvanceKeepsLate ==
  ASSUME Truth, CallsAlone, Advances, late' \subseteq late,
         wf.pc = "reuse" => wf'.pc \in Over \cup {"reuse"}
  PROVE  LateTrue'
<1>1. SUFFICES ASSUME NEW r \in late
               PROVE  /\ RequestOK(r)'
                      /\ r.name = "settle" => wf'.pc \in Over
                      /\ r.name = "reuse" => wf'.pc \in Over \cup {"reuse"}
                      /\ wf'.pc \in Submitting => r.name \in {"submit", "reuse"}
  BY DEF LateTrue
<1>2. /\ RequestOK(r)
      /\ r.name = "settle" => wf.pc \in Over
      /\ r.name = "reuse" => wf.pc \in Over \cup {"reuse"}
      /\ wf.pc \in Submitting => r.name \in {"submit", "reuse"}
  BY DEF Truth, LateTrue
<1>3. RequestOK(r)'
  BY <1>2, AloneCarries, RequestStays
<1>4. /\ wf.pc \in Over => wf'.pc \in Over
      /\ wf'.pc \in Submitting => wf.pc \in Submitting
  BY Phases DEF Advances, BeforeSubmit, Submitting
<1> QED BY <1>2, <1>3, <1>4

LEMMA AdvanceKeepsCalls ==
  ASSUME TypeInv, Truth, CallsAlone, Advances
  PROVE  CallsOK'
<1>1. CASE wf' = wf
  BY <1>1, AloneCarries DEF Truth, CallsOK
<1>2. CASE wf'.pc \in Over
  BY <1>2, Phases DEF CallsOK, Over
<1>3. CASE wf.pc \in Fresh /\ wf'.pc \in BeforeSubmit
  <2>1. wf'.pc \notin Behind /\ wf'.pc \in Submitting /\ wf'.pc # "complete_submit"
        /\ wf.pc \notin Over /\ wf.pc # "complete_cancel"
    BY <1>3, Phases DEF BeforeSubmit, Submitting, Fresh, Over
  <2> QED BY <1>3, <2>1, AloneCarries DEF Truth, CallsOK
<1>4. CASE wf.pc \in Behind \ {"complete_cancel"} /\ wf'.pc \in Behind
  <2>1. wf'.pc \notin Submitting /\ wf.pc \notin Over
    BY <1>4, Phases
  <2>2. wf'.pc \notin Fresh /\ wf'.pc # "complete_submit"
    BY <2>1, Phases DEF Submitting
  <2> QED BY <1>4, <2>1, <2>2, AloneCarries DEF Truth, CallsOK
<1> QED BY <1>1, <1>2, <1>3, <1>4 DEF Advances

\* The row of a step that commits a request, or none.
LEMMA AdvanceKeepsRow ==
  ASSUME TypeInv, Core, Truth, CallsAlone, Advances, parent' = parent,
         \/ UNCHANGED <<op, recorded>>
         \/ \E r : /\ RequestOK(r) /\ Commits(r) /\ Commit(r)
                   /\ r.name = "settle" => wf.pc \in Over
                   /\ r.name = "reuse" => wf.pc \in Over \cup {"reuse"}
                   /\ wf.pc \in Submitting => r.name \in {"submit", "reuse"}
  PROVE  RowOK' /\ OutcomeVerified'
<1>1. /\ wf.pc \in Over => wf'.pc \in Over
      /\ wf'.pc \in Submitting => wf.pc \in Submitting
      /\ wf'.pc \in {"call_submit", "complete_submit"} => wf' = wf
      /\ wf'.pc \in Behind => wf.pc \in Behind
      /\ wf.pc \in Fresh => NoCalls
  BY Phases DEF Advances, BeforeSubmit, Submitting, Over, Truth, CallsOK
<1>2. wf.pc \in Submitting => wf'.pc \in Submitting \cup Over
  BY Phases DEF Advances, BeforeSubmit, Submitting
<1>3. CASE UNCHANGED <<op, recorded>>
  <2>1. OutcomeVerified'
    BY <1>3, AloneCarries, OutcomeStays DEF CallsAlone
  <2>2. RowOK'
    BY <1>1, <1>2, <1>3, AloneCarries DEF Truth, RowOK, Closed
  <2> QED BY <2>1, <2>2
<1>4. ASSUME NEW r, RequestOK(r), Commits(r), Commit(r),
             r.name = "settle" => wf.pc \in Over,
             r.name = "reuse" => wf.pc \in Over \cup {"reuse"},
             wf.pc \in Submitting => r.name \in {"submit", "reuse"}
      PROVE  RowOK' /\ OutcomeVerified'
  <2>1. OutcomeVerified'
    BY <1>4, CommittedOutcome DEF CallsAlone
  <2>2. /\ op'.status \in Statuses \ Undispatched => MayHaveRun
        /\ op'.status \in {"submitted", "succeeded", "ingesting"} => recorded' = "own"
        /\ recorded' # "foreign"
        /\ op'.failure = "provider_not_executed" => r.name = "settle"
        /\ Closed' => r.name \in {"settle", "reuse"}
        /\ r.name = "reuse" => NoCalls
        /\ parent # "idle" => op'.status \in {"cancelling"} \cup Terminal
        /\ r.name \in {"submit", "reuse"} => op'.status \in Undispatched
    BY <1>4, CommittedRow
  <2>3. wf'.pc \in {"call_submit", "complete_submit"} \cup Behind => ~Closed'
    <3>1. "reuse" \notin {"call_submit", "complete_submit"} \cup Behind
      BY Phases DEF Submitting, BeforeSubmit
    <3>2. wf'.pc \in {"call_submit", "complete_submit"} \cup Behind =>
            wf.pc \in {"call_submit", "complete_submit"} \cup Behind
      BY <1>1
    <3>3. wf.pc \in {"call_submit", "complete_submit"} \cup Behind => wf.pc \notin Over
      BY Phases DEF Submitting
    <3> QED BY <1>4, <2>2, <3>1, <3>2, <3>3
  <2>4. Closed' => wf'.pc \in Over \/ NoCalls'
    BY <1>1, <1>4, <2>2, AloneCarries
  <2>5. parent # "idle" => NoCalls
    BY DEF Truth, RowOK
  <2> QED BY <1>1, <1>4, <2>1, <2>2, <2>3, <2>4, <2>5, AloneCarries DEF RowOK
<1> QED BY <1>3, <1>4

LEMMA AdvanceKeepsTruth ==
  ASSUME TypeInv, Core, Truth, CallsAlone, Advances, parent' = parent, late' \subseteq late,
         wf.pc = "reuse" => wf'.pc \in Over \cup {"reuse"},
         KnowsOK(wf'),
         \/ UNCHANGED <<op, recorded>>
         \/ \E r : /\ RequestOK(r) /\ Commits(r) /\ Commit(r)
                   /\ r.name = "settle" => wf.pc \in Over
                   /\ r.name = "reuse" => wf.pc \in Over \cup {"reuse"}
                   /\ wf.pc \in Submitting => r.name \in {"submit", "reuse"}
  PROVE  Truth'
<1>1. KnowsOK(wf)'
  BY AloneCarries, KnowsStays
<1>2. RowOK' /\ OutcomeVerified'
  BY AdvanceKeepsRow
<1>3. LateTrue' /\ CallsOK'
  BY AdvanceKeepsLate, AdvanceKeepsCalls
<1> QED BY <1>1, <1>2, <1>3 DEF Truth

-----------------------------------------------------------------------------
(* The actions of the workflow, one by one.                                *)

\* A workflow that ended knows no less.
LEMMA KnowsEnd ==
  ASSUME NEW w \in Workflows, KnowsOK(w), NEW s
  PROVE  /\ KnowsOK([w EXCEPT !.pc = "done", !.status = s])
         /\ KnowsOK([w EXCEPT !.pc = "done"])
         /\ KnowsOK([w EXCEPT !.pc = "failed"])
<1> DEFINE v == [w EXCEPT !.pc = "done", !.status = s]
<1>1. v.pc = "done" /\ v.task = w.task /\ v.result = w.result
  BY DEF Workflows
<1> HIDE DEF v
<1>2. KnowsOK(v)
  BY <1>1 DEF KnowsOK, Attached, Querying, Succeeding
<1> QED BY <1>2, KnowsElsewhere DEF Attached, Querying, Succeeding, v

LEMMA AloneActions ==
  ASSUME \/ Load \/ CheckConsent \/ TakeCancel \/ UseResult \/ CheckManualNotExecuted
         \/ IngestAndFinish \/ ReceiveResolution \/ CallQuery
  PROVE  CallsAlone /\ UNCHANGED <<op, recorded, parent, late>>
<1>1. DbUnchanged /\ UNCHANGED <<parent, provider, late>>
  BY DEF Load, LoadWorkflowOperation, CheckConsent, TakeCancel, UseResult, CheckManualNotExecuted,
         IngestAndFinish, ReceiveResolution, CallQuery, OthersUnchanged
<1> QED BY <1>1 DEF DbUnchanged, CallsAlone

LEMMA StartKeepsTruth ==
  ASSUME TypeInv, Core, Truth, Load \/ CheckConsent
  PROVE  Truth'
<1>1. wf \in Workflows /\ KnowsOK(wf) /\ wf.pc \in Fresh /\ wf.pc # "reuse"
  BY DEF TypeInv, WorkflowOK, Truth, Load, LoadWorkflowOperation, CheckConsent, Fresh
<1>2. \/ \E p \in {"done", "failed", "check_consent", "reuse", "submit"} :
           wf' = [wf EXCEPT !.pc = p]
      \/ wf' = Settle(wf, "failed", "input_refused")
  BY DEF Load, LoadWorkflowOperation, CheckConsent
<1>3. KnowsOK(wf') /\ wf'.pc \in Fresh \cup Over
  <2>1. ASSUME NEW p \in {"done", "failed", "check_consent", "reuse", "submit"},
               wf' = [wf EXCEPT !.pc = p]
        PROVE  KnowsOK(wf') /\ wf'.pc \in Fresh \cup Over
    BY <1>1, <2>1, KnowsElsewhere
       DEF Attached, Querying, Succeeding, Fresh, Over, Workflows
  <2>2. CASE wf' = Settle(wf, "failed", "input_refused")
    BY <1>1, <2>2, KnowsFailure DEF Settle, Over, Workflows
  <2> QED BY <1>2, <2>1, <2>2
<1>4. Advances
  BY <1>1, <1>3 DEF Advances, Fresh, BeforeSubmit
<1> QED BY <1>1, <1>3, <1>4, AloneActions, AdvanceKeepsTruth

LEMMA LoopKeepsTruth ==
  ASSUME TypeInv, Core, Truth, TakeCancel \/ UseResult
  PROVE  Truth'
<1>1. /\ wf \in Workflows /\ KnowsOK(wf) /\ wf.pc = "submitted" /\ wf.task = "own"
  BY DEF TypeInv, WorkflowOK, Truth, TakeCancel, UseResult, KnowsOK, Attached
<1>2. \/ wf' = [wf EXCEPT !.pc = "cancel_requested"]
      \/ wf' = Conclude(wf)
      \/ wf' = StartQuery(wf, "poll")
  BY DEF TakeCancel, UseResult
<1>3. KnowsOK(wf')
  <2>1. CASE wf' = [wf EXCEPT !.pc = "cancel_requested"]
    <3>1. /\ wf'.pc = "cancel_requested" /\ wf'.task = wf.task /\ wf'.result = wf.result
      BY <1>1, <2>1 DEF Workflows
    <3> QED BY <1>1, <3>1 DEF KnowsOK, Querying, Succeeding
  <2> QED BY <1>1, <1>2, <2>1, KnowsConclude, KnowsQuery
<1>4. wf'.pc \in {"cancel_requested", "provider_succeeded", "settle", "begin_query"}
  BY <1>1, <1>2 DEF Conclude, Settle, StartQuery, Workflows
<1>5. wf.pc \in Behind \ {"complete_cancel"} /\ wf'.pc \in Behind \cup Over
  BY <1>1, <1>4, Phases DEF Over, TransitionNames
<1> QED BY <1>1, <1>3, <1>5, AloneActions, AdvanceKeepsTruth DEF Advances

LEMMA ManualKeepsTruth ==
  ASSUME TypeInv, Core, Truth, CheckManualNotExecuted \/ ReceiveResolution
  PROVE  Truth'
<1>1. /\ wf \in Workflows /\ KnowsOK(wf) /\ wf.pc \in {"manual", "check_not_executed"}
      /\ wf.status = "manual"
  BY DEF TypeInv, WorkflowOK, Truth, CheckManualNotExecuted, ReceiveResolution, KnowsOK
<1>2. KnowsOK(wf') /\ wf'.pc \in {"manual", "check_not_executed", "begin_query", "settle"}
  <2>1. ASSUME NEW p \in {"manual", "check_not_executed"}, wf' = [wf EXCEPT !.pc = p]
        PROVE  KnowsOK(wf') /\ wf'.pc = p
    <3>1. wf'.pc = p /\ wf'.task = wf.task /\ wf'.result = wf.result
          /\ wf'.status = wf.status
      BY <1>1, <2>1 DEF Workflows
    <3> QED BY <1>1, <3>1 DEF KnowsOK, Attached, Querying, Succeeding
  <2>2. CASE wf' = Settle(wf, "failed", "provider_not_executed") /\ NotExecutedVerified
    <3>1. Justified(wf.status, "failed", "provider_not_executed")
      BY <1>1, <2>2 DEF Justified, NotExecutedVerified, Unexecuted
    <3> QED BY <1>1, <2>2, <3>1, KnowsSettle DEF Settle, Workflows
  <2>3. ASSUME NEW claim \in {"own", "foreign"},
               wf' = StartQuery([wf EXCEPT !.claim = claim], "verify")
        PROVE  KnowsOK(wf') /\ wf'.pc = "begin_query"
    <3> DEFINE u == [wf EXCEPT !.claim = claim]
    <3>1. /\ u \in Workflows /\ u.pc = wf.pc /\ u.task = wf.task /\ u.result = wf.result
          /\ u.status = "manual"
      BY <1>1, <2>3 DEF Workflows, TaskIds
    <3>2. wf' = StartQuery(u, "verify")
      BY <2>3
    <3> HIDE DEF u
    <3>3. KnowsOK(u)
      BY <1>1, <3>1 DEF KnowsOK, Attached, Querying, Succeeding
    <3> QED BY <3>1, <3>2, <3>3, KnowsQuery DEF StartQuery, Workflows
  <2> QED BY <2>1, <2>2, <2>3 DEF CheckManualNotExecuted, ReceiveResolution
<1>3. wf.pc \in Behind \ {"complete_cancel"} /\ wf'.pc \in Behind \cup Over
  BY <1>1, <1>2, Phases DEF Over
<1> QED BY <1>1, <1>2, <1>3, AloneActions, AdvanceKeepsTruth DEF Advances

LEMMA IngestKeepsTruth ==
  ASSUME TypeInv, Core, Truth, IngestAndFinish
  PROVE  Truth'
<1>1. /\ wf \in Workflows /\ KnowsOK(wf) /\ wf.pc = "ingest_outputs"
      /\ wf.status = "ingesting" /\ Succeeded
  BY DEF TypeInv, WorkflowOK, Truth, IngestAndFinish, KnowsOK, Succeeding
<1>2. PICK to \in {"completed", "failed"},
           code \in {"none", "media_refused", "moderation_unavailable",
                     "provider_result_invalid"} : wf' = Settle(wf, to, code)
  BY DEF IngestAndFinish
<1>3. Justified(wf.status, to, code)
  BY <1>1 DEF Justified
<1>4. KnowsOK(wf') /\ wf'.pc = "settle"
  BY <1>1, <1>2, <1>3, KnowsSettle DEF Settle, Workflows
<1>5. wf.pc \in Behind \ {"complete_cancel"} /\ wf'.pc \in Behind \cup Over
  BY <1>1, <1>4, Phases DEF Over
<1> QED BY <1>1, <1>4, <1>5, AloneActions, AdvanceKeepsTruth DEF Advances

\* A settlement that was justified is not refused.
LEMMA UnexecutedAccepted ==
  ASSUME TypeInv, Truth, wf.pc = "settle", wf.code = "provider_not_executed",
         op.status = "manual"
  PROVE  Commits(Request(wf))
<1>1. /\ wf.status = "manual" /\ wf.to = "failed" /\ vouched /\ ~Conclusive
  BY DEF Truth, KnowsOK, Justified, Unexecuted
<1>2. HasSubmission
  BY RunsCalled DEF Truth, RowOK, Statuses, Undispatched, Terminal
<1>3. /\ Request(wf).name = "settle" /\ Request(wf).from = "manual"
      /\ Request(wf).to = "failed" /\ Request(wf).code = "provider_not_executed"
  BY <1>1, TransitionTable DEF Request, TransitionNames
<1> QED BY <1>1, <1>2, <1>3 DEF Commits, Expected, CanFinalize, ManualNotExecuted

LEMMA RequestsKeepTruth ==
  ASSUME TypeInv, Core, Truth, CompleteFromReuse \/ Transition \/ SettleOperation
  PROVE  Truth'
<1> DEFINE r == Request(wf)
<1>1. /\ wf \in Workflows /\ WorkflowOK(wf) /\ KnowsOK(wf) /\ wf.pc \in DatabaseSteps
      /\ UNCHANGED <<provider, parent, late>>
  BY DEF TypeInv, WorkflowOK, Truth, CompleteFromReuse, Transition, SettleOperation,
     OthersUnchanged, DatabaseSteps
<1>2. /\ RequestOK(r) /\ r.name = wf.pc
      /\ wf.pc \in Submitting => r.name \in {"submit", "reuse"}
  BY <1>1, WorkflowRequest
<1>3. (Commits(r) /\ Commit(r)) \/ DbUnchanged
  BY DEF CompleteFromReuse, Transition, SettleOperation
<1>4. CallsAlone
  BY <1>1, <1>3 DEF CallsAlone, Commit, DbUnchanged
<1>5. wf.pc \in TransitionNames \cup {"settle", "reuse"}
      /\ "settle" \notin TransitionNames /\ "reuse" \notin TransitionNames
  BY <1>1, StepNames DEF TransitionNames
<1>6. /\ KnowsOK(wf')
      /\ wf.pc \in {"reuse", "settle"} => wf' = wf \/ wf'.pc \in Over
      /\ wf.pc \in TransitionNames =>
           wf' = wf \/ wf'.pc \in Over \/ wf' = After(wf, r)
  <2>1. CASE CompleteFromReuse
    <3>1. \/ wf' = [wf EXCEPT !.pc = "done", !.status = "completed"]
          \/ wf' = wf
          \/ wf' = Settle(wf, "failed", "reuse_source_unavailable")
          \/ wf' = [wf EXCEPT !.pc = "failed"]
      BY <2>1 DEF CompleteFromReuse, Reply
    <3>2. KnowsOK(wf')
      BY <1>1, <3>1, KnowsEnd, KnowsFailure, ZenonT(40)
    <3>3. wf' = wf \/ wf'.pc \in Over
      BY <1>1, <3>1 DEF Settle, Over, Workflows
    <3> QED BY <1>5, <2>1, <3>2, <3>3 DEF CompleteFromReuse
  <2>2. CASE Transition
    <3>1. \/ wf' = After(wf, r)
          \/ wf' = wf
          \/ wf' = Settle(wf, "failed", "input_refused")
          \/ wf' = [wf EXCEPT !.pc = "failed"]
      BY <2>2 DEF Transition, Reply
    <3>2. wf.pc \in TransitionNames
      BY <2>2, TransitionTable DEF Transition
    <3> HIDE DEF r
    <3>3. KnowsOK(wf')
      BY <1>1, <3>1, <3>2, KnowsAfter, KnowsEnd, KnowsFailure DEF r
    <3>4. wf' = wf \/ wf' = After(wf, r) \/ wf'.pc \in Over
      BY <1>1, <3>1 DEF Settle, Over, Workflows
    <3> QED BY <1>5, <3>2, <3>3, <3>4
  <2>3. CASE SettleOperation
    <3>1. wf.pc = "settle" /\ r.code = wf.code
      BY <1>1, <2>3, WorkflowRequest DEF SettleOperation
    <3>2. \/ wf' = [wf EXCEPT !.pc = "done", !.status = r.to]
          \/ wf' = wf
          \/ wf' = [wf EXCEPT !.pc = "failed"]
      BY <2>3, <3>1, UnexecutedAccepted DEF SettleOperation, Reply
    <3> HIDE DEF r
    <3>3. KnowsOK(wf')
      BY <1>1, <3>2, KnowsEnd
    <3>4. wf' = wf \/ wf'.pc \in Over
      BY <1>1, <3>2 DEF Over, Workflows
    <3> QED BY <1>5, <3>1, <3>3, <3>4
  <2> QED BY <2>1, <2>2, <2>3
<1>7. Advances /\ (wf.pc = "reuse" => wf'.pc \in Over \cup {"reuse"})
  <2>1. CASE wf' = wf
    BY <2>1 DEF Advances
  <2>2. CASE wf'.pc \in Over
    <3>1. wf.pc # "complete_cancel"
      BY <1>5 DEF TransitionNames
    <3> QED BY <1>1, <2>2, <3>1, Phases DEF Advances, Workflows
  <2>3. CASE wf.pc \in TransitionNames /\ wf' = After(wf, r)
    <3>1. wf'.pc \in {"cancel_result_unknown", Transitions[wf.pc].next}
      BY <1>1, <1>2, <2>3 DEF After, Workflows
    <3>2. wf.pc # "submit" => wf'.pc # "begin_submit" /\ wf'.pc \in Behind
      BY <2>3, <3>1, TableNext, Phases DEF TransitionNames, Submitting, BeforeSubmit
    <3>3. wf.pc = "submit" => wf'.pc = "begin_submit"
      <4>1. wf.pc = "submit" => wf'.pc = Transitions[wf.pc].next
        BY <1>1, <1>2, <2>3 DEF After, Workflows
      <4> QED BY <2>3, <4>1, TableNext
    <3>4. wf.pc # "submit" => wf.pc \in Behind \ {"complete_cancel"}
      BY <2>3, Phases DEF TransitionNames
    <3> QED BY <1>5, <2>3, <3>2, <3>3, <3>4 DEF Advances, Fresh, BeforeSubmit
  <2> QED BY <1>5, <1>6, <2>1, <2>2, <2>3
<1> HIDE DEF r
<1>8. \/ UNCHANGED <<op, recorded>>
      \/ /\ RequestOK(r) /\ Commits(r) /\ Commit(r)
         /\ r.name = "settle" => wf.pc \in Over
         /\ r.name = "reuse" => wf.pc \in Over \cup {"reuse"}
         /\ wf.pc \in Submitting => r.name \in {"submit", "reuse"}
  BY <1>2, <1>3 DEF DbUnchanged, Over
<1> QED BY <1>1, <1>4, <1>6, <1>7, <1>8, AdvanceKeepsTruth

-----------------------------------------------------------------------------
(* Late requests, the administrator and the signals.                       *)

LEMMA TimeoutKeepsTruth ==
  ASSUME TypeInv, Core, Truth, AttemptTimesOut
  PROVE  Truth'
<1>1. /\ wf.pc \in DatabaseSteps /\ late' = late \cup {Request(wf)} /\ wf' = wf
      /\ DbUnchanged /\ UNCHANGED <<parent, provider>>
  BY DEF AttemptTimesOut
<1>2. CallsAlone /\ UNCHANGED <<op, recorded>>
  BY <1>1 DEF CallsAlone, DbUnchanged
<1>3. Advances
  BY <1>1 DEF Advances
<1>4. RowOK' /\ OutcomeVerified' /\ CallsOK'
  BY <1>1, <1>2, <1>3, AdvanceKeepsRow, AdvanceKeepsCalls
<1>5. KnowsOK(wf)'
  BY <1>1, <1>2, AloneCarries, KnowsStays DEF Truth
<1>6. PICK r : /\ r = Request(wf) /\ RequestOK(r) /\ r.name = wf.pc
               /\ wf.pc \in Submitting => r.name \in {"submit", "reuse"}
  BY <1>1, WorkflowRequest
<1>7. RequestOK(r)'
  BY <1>2, <1>6, AloneCarries, RequestStays
<1>8. ASSUME NEW q \in late PROVE RequestOK(q)'
  BY <1>2, AloneCarries, RequestStays DEF Truth, LateTrue
<1>9. LateTrue'
  BY <1>1, <1>6, <1>7, <1>8 DEF Truth, LateTrue, Over
<1> QED BY <1>4, <1>5, <1>9 DEF Truth

LEMMA LateKeepsTruth ==
  ASSUME TypeInv, Core, Truth, NEW r \in late, ExecuteLate(r)
  PROVE  Truth'
<1>1. /\ late' \subseteq late /\ wf' = wf /\ UNCHANGED <<parent, provider>>
      /\ (Commits(r) /\ Commit(r)) \/ DbUnchanged
  BY DEF ExecuteLate
<1>2. CallsAlone
  BY <1>1 DEF CallsAlone, Commit, DbUnchanged
<1>3. \/ UNCHANGED <<op, recorded>>
      \/ /\ RequestOK(r) /\ Commits(r) /\ Commit(r)
         /\ r.name = "settle" => wf.pc \in Over
         /\ r.name = "reuse" => wf.pc \in Over \cup {"reuse"}
         /\ wf.pc \in Submitting => r.name \in {"submit", "reuse"}
  BY <1>1 DEF DbUnchanged, Truth, LateTrue
<1>4. Advances /\ KnowsOK(wf') /\ (wf.pc = "reuse" => wf'.pc \in Over \cup {"reuse"})
  BY <1>1 DEF Advances, Truth
<1> QED BY <1>1, <1>2, <1>3, <1>4, AdvanceKeepsTruth

LEMMA SignalsKeepTruth ==
  ASSUME TypeInv, Core, Truth,
         RecordManualNotExecuted \/ RequestCancel \/ DeliverCancel \/ ParentSignalsCancel
         \/ UNCHANGED vars
  PROVE  Truth'
<1>1. /\ wf' = wf /\ late' = late
      /\ UNCHANGED <<op, recorded, calls, parent, provider>>
      /\ vouched' = TRUE \/ vouched' = vouched
  BY DEF RecordManualNotExecuted, RequestCancel, DeliverCancel, ParentSignalsCancel,
         DbUnchanged, OthersUnchanged, vars, calls
<1>2. CallsAlone
  BY <1>1 DEF CallsAlone
<1>3. Advances /\ KnowsOK(wf') /\ (wf.pc = "reuse" => wf'.pc \in Over \cup {"reuse"})
  BY <1>1 DEF Advances, Truth
<1> QED BY <1>1, <1>2, <1>3, AdvanceKeepsTruth

-----------------------------------------------------------------------------
(* The parent of a batch.                                                  *)

\* Nothing is known to a child that has no calls.
LEMMA Untouched ==
  ASSUME TypeInv, Core, NoCalls
  PROVE  provider.task = "none" /\ provider.flying = 0
<1>1. ~MayHaveRun
  BY DEF NoCalls, MayHaveRun
<1>2. provider.executions + provider.flying = 0
      /\ provider.executions \in Nat /\ provider.flying \in Nat
  BY <1>1 DEF Core, ExecutionsOK, TypeInv, TypeOK, Providers
<1> QED BY <1>2 DEF Core, ExecutionsOK

LEMMA ParentKeepsTruth ==
  ASSUME TypeInv, Core, Truth, ClaimQueued \/ SettleClaimed
  PROVE  Truth'
<1>1. /\ wf' = wf /\ late' = late /\ UNCHANGED <<recorded, calls, provider, vouched>>
      /\ op' = [op EXCEPT !.status = "cancelling"] \/ op' = [op EXCEPT !.status = "cancelled", !.failure = "none"]
      /\ SettleClaimed => op' = [op EXCEPT !.status = "cancelled", !.failure = "none"]
      /\ parent' # "idle"
  BY DEF ClaimQueued, SettleClaimed, Commit, BatchCancel, RecordsTask
<1>2. NoCalls
  BY DEF ClaimQueued, Queued, SettleClaimed, Truth, RowOK
<1>3. CallsAlone /\ Advances
  BY <1>1 DEF CallsAlone, Advances
<1>4. KnowsOK(wf)' /\ LateTrue' /\ CallsOK'
  <2>1. KnowsOK(wf)'
    BY <1>1, <1>3, AloneCarries, KnowsStays DEF Truth
  <2>2. wf.pc = "reuse" => wf'.pc \in Over \cup {"reuse"}
    BY <1>1
  <2> QED BY <1>1, <1>3, <2>1, <2>2, AdvanceKeepsLate, AdvanceKeepsCalls
<1>5. wf.pc \notin {"call_submit", "complete_submit"} \cup Behind
  BY <1>2, CalledWhileSubmitting, BehindCalled
<1>6. /\ op'.status \in {"cancelling", "cancelled"} /\ op'.failure \in {op.failure, "none"}
      /\ op'.reused = op.reused
  BY <1>1 DEF TypeInv, TypeOK, Rows
<1>7. RowOK'
  BY <1>1, <1>2, <1>3, <1>5, <1>6, AloneCarries
     DEF Truth, RowOK, Undispatched, Terminal
<1>8. OutcomeVerified'
  <2>1. provider'.task = "none" /\ provider'.flying = 0
    BY <1>1, <1>2, Untouched
  <2>2. ManualReleaseVerified'
    BY <1>1, <1>6 DEF Truth, OutcomeVerified, ManualReleaseVerified, Conclusive, calls
  <2>3. CompletedMeansSucceeded' /\ CancelledMeansStopped'
    BY <1>1, <1>6, <2>1 DEF Truth, RowOK, CompletedMeansSucceeded, CancelledMeansStopped
  <2> QED BY <2>2, <2>3 DEF OutcomeVerified
<1> QED BY <1>4, <1>7, <1>8 DEF Truth

-----------------------------------------------------------------------------
(* The provider on its own.                                                *)

LEMMA ProviderKeepsTruth ==
  ASSUME TypeInv, Core, Truth, RequestArrives \/ ProviderFinishes
  PROVE  Truth'
<1>1. Carried /\ wf' = wf /\ UNCHANGED <<op, calls, recorded, vouched, parent, late>>
  BY ProviderCarried DEF RequestArrives, ProviderFinishes
<1>2. /\ Silent /\ (MayHaveRun' <=> MayHaveRun) /\ (NoCalls' <=> NoCalls)
      /\ UNCHANGED <<submits, cancelCall>> /\ (Conclusive' <=> Conclusive)
  BY <1>1 DEF calls, Silent, Conclusive, MayHaveRun, NoCalls
<1>3. KnowsOK(wf)'
  BY <1>1, <1>2, KnowsStays DEF Truth
<1>4. ASSUME NEW r \in late PROVE RequestOK(r)'
  BY <1>1, <1>2, RequestStays DEF Truth, LateTrue
<1>5. LateTrue'
  BY <1>1, <1>4 DEF Truth, LateTrue
<1>6. RowOK' /\ CallsOK'
  BY <1>1, <1>2 DEF Truth, RowOK, CallsOK, Closed
<1>7. op.status # "cancelled"
  BY DEF RequestArrives, ProviderFinishes, Truth, OutcomeVerified, CancelledMeansStopped
<1>8. OutcomeVerified'
  BY <1>1, <1>2, <1>7
     DEF Truth, OutcomeVerified, CancelledMeansStopped, CompletedMeansSucceeded,
         ManualReleaseVerified, Carried, Succeeded
<1> QED BY <1>3, <1>5, <1>6, <1>8 DEF Truth

-----------------------------------------------------------------------------
(* The calls: a submission.                                                *)

\* While a submission is made, only moves to submitting may be late.
LEMMA LateSubmissions ==
  ASSUME Truth, wf.pc \in {"begin_submit", "call_submit", "complete_submit"}, NEW r \in late
  PROVE  RequestOK(r) /\ r.name = "submit"
<1>1. wf.pc \in Submitting /\ wf.pc \notin Over \cup {"reuse"}
  BY DEF Submitting, BeforeSubmit, Over
<1> QED BY <1>1 DEF Truth, LateTrue

LEMMA SubmissionsStay ==
  ASSUME Truth, wf.pc \in {"begin_submit", "call_submit", "complete_submit"}, late' = late
  PROVE  LateTrue'
<1>1. ASSUME NEW r \in late
      PROVE  /\ RequestOK(r)'
             /\ r.name = "settle" => wf'.pc \in Over
             /\ r.name = "reuse" => wf'.pc \in Over \cup {"reuse"}
             /\ wf'.pc \in Submitting => r.name \in {"submit", "reuse"}
  <2>1. RequestOK(r) /\ r.name = "submit"
    BY LateSubmissions
  <2>2. "submit" \notin RecordsTask /\ "submit" \notin Succeeding
    BY DEF RecordsTask, Succeeding
  <2> QED BY <2>1, <2>2 DEF RequestOK
<1> QED BY <1>1 DEF LateTrue

\* No cancellation is recorded before the provider accepted the task.
LEMMA SubmissionAlone ==
  ASSUME Truth, wf.pc \in {"begin_submit", "call_submit", "complete_submit"}
  PROVE  /\ cancelCall # "cancelled"
         /\ wf.pc \notin Over /\ wf.pc \in Submitting
         /\ op.status \in Undispatched
BY DEF Truth, CallsOK, RowOK, Over, Submitting, BeforeSubmit

LEMMA BeginSubmitKeepsTruth ==
  ASSUME TypeInv, Core, Truth, BeginSubmit
  PROVE  Truth'
<1>1. /\ wf.pc = "begin_submit" /\ wf \in Workflows /\ KnowsOK(wf)
      /\ submits \in [1..MaxSubmits -> SubmitStates] /\ wf.attempt \in 1..MaxSubmits
      /\ UNCHANGED <<op, queries, cancelCall, recorded, vouched, parent, provider, late>>
  BY DEF TypeInv, TypeOK, WorkflowOK, Workflows, Truth, BeginSubmit, OthersUnchanged
<1>2. \/ wf' = [wf EXCEPT !.pc = "call_submit"]
      \/ wf' = wf
      \/ wf' = [wf EXCEPT !.pc = "failed"] /\ submits' = submits
  BY DEF BeginSubmit, Reply
<1>3. KnowsOK(wf') /\ wf'.pc \in {"begin_submit", "call_submit", "failed"}
  <2>1. KnowsOK([wf EXCEPT !.pc = "call_submit"]) /\ KnowsOK([wf EXCEPT !.pc = "failed"])
    BY <1>1, KnowsElsewhere DEF Attached, Querying, Succeeding
  <2> QED BY <1>1, <1>2, <2>1 DEF Workflows
<1>4. \/ submits' = submits
      \/ /\ op.status \notin Terminal /\ op.status # "cancelling"
         /\ submits' = [submits EXCEPT ![wf.attempt] = "open"]
  BY DEF BeginSubmit, MayBegin
<1>5. Carried /\ Silent
  BY <1>1, ProviderStays DEF Silent, Conclusive
<1>6. KnowsOK(wf)'
  BY <1>3, <1>5, KnowsStays
<1>7. OutcomeVerified'
  BY <1>1, <1>5, OutcomeStays
<1>8. LateTrue'
  BY <1>1, SubmissionsStay
<1>9. cancelCall # "cancelled" /\ op.status \in Undispatched
  BY <1>1, SubmissionAlone
<1>10. CallsOK'
  <2>1. wf'.pc \notin Fresh \cup Behind /\ wf'.pc # "complete_submit"
    BY <1>3, Phases DEF Fresh, Submitting, BeforeSubmit, Over
  <2> QED BY <1>1, <1>9, <2>1 DEF CallsOK
<1>11. wf'.pc = "call_submit" => ~Closed
  <2>1. SUFFICES ASSUME wf'.pc = "call_submit", Closed PROVE FALSE
    OBVIOUS
  <2>2. NoCalls
    BY <1>1, <2>1, SubmissionAlone DEF Truth, RowOK
  <2>3. submits[wf.attempt] = "none"
    BY <1>1, <2>2 DEF NoCalls
  <2>4. wf' # wf
    BY <1>1, <2>1
  <2>5. ~MayBegin("submit")
    BY <2>1 DEF MayBegin, Closed
  <2> QED BY <1>1, <2>1, <2>3, <2>5 DEF BeginSubmit, Workflows
<1>12. Closed \/ parent # "idle" => submits' = submits
  BY <1>4 DEF Truth, RowOK, Closed, Terminal
<1>13. RowOK'
  <2>1. op'.status \notin Statuses \ Undispatched
    BY <1>1, <1>9
  <2>2. wf'.pc \notin Behind /\ wf'.pc # "complete_submit"
    BY <1>3, Phases DEF Submitting, BeforeSubmit, Over
  <2>3. Closed' => wf'.pc \in Over \/ NoCalls'
    BY <1>1, <1>12, SubmissionAlone DEF Truth, RowOK, Closed, NoCalls
  <2>4. parent' # "idle" => NoCalls' /\ op'.status \in {"cancelling"} \cup Terminal
    BY <1>1, <1>12 DEF Truth, RowOK, NoCalls
  <2>5. /\ op'.status \in {"submitted", "succeeded", "ingesting"} => recorded' = "own"
        /\ recorded' # "foreign"
        /\ op'.failure = "provider_not_executed" => wf'.pc \in Over
    BY <1>1, SubmissionAlone DEF Truth, RowOK
  <2> QED BY <1>1, <1>9, <1>11, <2>1, <2>2, <2>3, <2>4, <2>5 DEF RowOK, Closed
<1> QED BY <1>6, <1>7, <1>8, <1>10, <1>13 DEF Truth

LEMMA CallSubmitKeepsTruth ==
  ASSUME TypeInv, Core, Truth, CallSubmit
  PROVE  Truth'
<1>1. /\ wf.pc = "call_submit" /\ wf \in Workflows /\ KnowsOK(wf)
  BY DEF TypeInv, WorkflowOK, Truth, CallSubmit
<1>2. Carried /\ UNCHANGED <<op, calls, recorded, vouched, parent, late>>
  BY ProviderCarried
<1>3. wf'.attempt = wf.attempt /\ wf'.pc = "complete_submit"
  BY CallSubmitGoes
<1>4. PICK answer \in {"accepted", "rejected", "not_submitted", "lost"} :
        wf' = [wf EXCEPT !.pc = "complete_submit", !.report = SubmitReport(answer)]
  BY DEF CallSubmit
<1>5. wf'.task = wf.task /\ wf'.result = wf.result
  BY <1>1, <1>4 DEF Workflows
<1>6. KnowsOK(wf')
  BY <1>1, <1>3, <1>5 DEF KnowsOK, Attached, Querying, Succeeding
<1>7. /\ Silent /\ (MayHaveRun' <=> MayHaveRun) /\ (NoCalls' <=> NoCalls)
      /\ UNCHANGED <<submits, cancelCall>>
  BY <1>2 DEF calls, Silent, Conclusive, MayHaveRun, NoCalls
<1>8. ~NoCalls /\ parent = "idle" /\ ~Closed
  BY <1>1, CalledWhileSubmitting DEF Truth, RowOK
<1>9. KnowsOK(wf)' /\ LateTrue' /\ OutcomeVerified'
  BY <1>1, <1>2, <1>6, <1>7, <1>8, KnowsStays, SubmissionsStay, OutcomeStays
<1>10. cancelCall # "cancelled" /\ op.status \in Undispatched
       /\ op.failure # "provider_not_executed" /\ recorded # "foreign"
  BY <1>1, SubmissionAlone DEF Truth, RowOK
<1>11. wf'.pc \in Submitting /\ wf'.pc \notin Fresh \cup Behind
  BY <1>3, Phases DEF Submitting, BeforeSubmit, Fresh
<1>12. CallsOK'
  <2>1. submits[wf.attempt] = "open"
    BY <1>1 DEF Core, AttemptsOK
  <2> QED BY <1>3, <1>7, <1>10, <1>11, <2>1 DEF CallsOK
<1>13. RowOK'
  <2>1. op.status \in {"submitted", "succeeded", "ingesting"} => recorded = "own"
    BY DEF Truth, RowOK
  <2> QED BY <1>2, <1>7, <1>8, <1>10, <1>11, <2>1 DEF RowOK, Closed
<1> QED BY <1>9, <1>12, <1>13 DEF Truth

LEMMA AfterSubmitPhases ==
  ASSUME NEW w \in Workflows, NEW v, v = AfterSubmit(w)
  PROVE  /\ v.pc \in {"begin_submit", "settle", "provider_accepted", "provider_result_unknown"}
         /\ v.pc \in {"provider_accepted", "provider_result_unknown"}
              => w.report \notin {"not_submitted", "rejected"}
         /\ v.pc = "settle" => v.code # "provider_not_executed"
BY DEF AfterSubmit, MayResubmit, IsLastAttempt, Settle, Workflows

LEMMA CompleteSubmitKeepsTruth ==
  ASSUME TypeInv, Core, Truth, CompleteSubmit
  PROVE  Truth'
<1>1. /\ wf.pc = "complete_submit" /\ wf \in Workflows /\ KnowsOK(wf)
      /\ submits \in [1..MaxSubmits -> SubmitStates] /\ wf.attempt \in 1..MaxSubmits
      /\ submits' = [submits EXCEPT ![wf.attempt] = wf.report]
      /\ wf.report \in {"accepted", "rejected", "not_submitted", "unknown"}
      /\ wf' \in {AfterSubmit(wf), wf}
      /\ UNCHANGED <<op, queries, cancelCall, recorded, vouched, parent, provider, late>>
  BY DEF TypeInv, TypeOK, WorkflowOK, Workflows, Truth, CompleteSubmit, OthersUnchanged, Reply
<1>2. /\ wf'.pc \in {"begin_submit", "settle", "provider_accepted",
                     "provider_result_unknown", "complete_submit"}
      /\ wf'.pc \in {"provider_accepted", "provider_result_unknown"}
           => wf.report \in {"accepted", "unknown"}
      /\ wf'.pc = "complete_submit" => wf' = wf
  BY <1>1, AfterSubmitPhases
<1>3. KnowsOK(wf')
  BY <1>1, KnowsAfterSubmit
<1>4. Carried /\ Silent
  BY <1>1, ProviderStays DEF Silent, Conclusive
<1>5. KnowsOK(wf)' /\ LateTrue' /\ OutcomeVerified'
  BY <1>1, <1>3, <1>4, KnowsStays, SubmissionsStay, OutcomeStays
<1>6. ~NoCalls /\ parent = "idle" /\ ~Closed
  BY <1>1, CalledWhileSubmitting DEF Truth, RowOK
<1>7. cancelCall # "cancelled" /\ op.status \in Undispatched
       /\ op.failure # "provider_not_executed" /\ recorded # "foreign"
  BY <1>1, SubmissionAlone DEF Truth, RowOK
<1>8. wf'.pc \in Behind => MayHaveRun'
  <2>1. wf'.pc \in Behind => wf.report \in {"accepted", "unknown"}
    BY <1>2, Phases DEF Submitting, BeforeSubmit, Over
  <2> QED BY <1>1, <2>1 DEF MayHaveRun
<1>9. CallsOK'
  <2>1. wf'.pc \notin Fresh
    BY <1>2 DEF Fresh
  <2>2. wf'.pc = "complete_submit" => submits'[wf'.attempt] = wf'.report
    BY <1>1, <1>2
  <2> QED BY <1>1, <1>7, <1>8, <2>1, <2>2 DEF CallsOK
<1>10. RowOK'
  <2>1. op.status \in {"submitted", "succeeded", "ingesting"} => recorded = "own"
    BY DEF Truth, RowOK
  <2> QED BY <1>1, <1>6, <1>7, <2>1 DEF RowOK, Closed
<1> QED BY <1>5, <1>9, <1>10 DEF Truth

-----------------------------------------------------------------------------
(* The calls: queries and the cancellation.                                *)

\* A step behind the submission keeps what the row says, if the workflow
\* knows enough for where it goes.
LEMMA BehindKeepsTruth ==
  ASSUME TypeInv, Core, Truth, Carried, KnowsOK(wf)',
         wf.pc \in Behind, wf'.pc \in Behind \cup Over,
         UNCHANGED <<op, recorded, submits, vouched, parent, late>>,
         cancelCall' = "cancelled" =>
           wf'.pc \in Over \/ (wf'.pc = "complete_cancel" /\ wf'.report = "cancelled")
  PROVE  Truth'
<1>1. MayHaveRun /\ ~NoCalls /\ parent = "idle" /\ ~Closed
  BY BehindCalled
<1>2. MayHaveRun' /\ ~NoCalls'
  <2>1. MayHaveRun'
    BY <1>1 DEF MayHaveRun
  <2> QED BY <2>1 DEF MayHaveRun, NoCalls
<1>3. wf.pc \notin Over /\ wf.pc # "reuse" /\ wf'.pc \notin Submitting
  BY Phases DEF Submitting, BeforeSubmit
<1>4. OutcomeVerified'
  BY <1>1, <1>3, OutcomeStays
<1>5. LateTrue'
  <2>1. ASSUME NEW r \in late
        PROVE  RequestOK(r)' /\ r.name \notin {"settle", "reuse"}
    <3>1. RequestOK(r) /\ r.name \notin {"settle", "reuse"}
      BY <1>3 DEF Truth, LateTrue
    <3> QED BY <1>2, <3>1 DEF RequestOK, Carried
  <2> QED BY <1>3, <2>1 DEF LateTrue
<1>6. CallsOK'
  BY <1>2, <1>3, Phases DEF CallsOK, Submitting
<1>7. RowOK'
  BY <1>1, <1>2, <1>3 DEF Truth, RowOK, Closed
<1> QED BY <1>4, <1>5, <1>6, <1>7 DEF Truth

LEMMA PlainBehind == Plain \subseteq Behind \cup Over
<1>1. Submitting \cap Plain = {}
  BY DEF Plain, Submitting, Calls
<1> QED BY <1>1, Phases DEF Plain

LEMMA BeginQueryKeepsTruth ==
  ASSUME TypeInv, Core, Truth, BeginQuery
  PROVE  Truth'
<1>1. /\ wf.pc = "begin_query" /\ wf \in Workflows /\ KnowsOK(wf)
      /\ UNCHANGED <<op, recorded, submits, vouched, parent, late, provider, cancelCall>>
      /\ wf' \in {[wf EXCEPT !.pc = "call_query"], wf, NoAnswer(wf)}
      /\ queries' \in {queries, queries \cup {"open"}}
  BY DEF TypeInv, WorkflowOK, Truth, BeginQuery, OthersUnchanged, Reply
<1>2. KnowsOK(wf')
  <2> DEFINE v == [wf EXCEPT !.pc = "call_query"]
  <2>1. /\ v.pc = "call_query" /\ v.task = wf.task /\ v.result = wf.result
        /\ v.status = wf.status /\ v.purpose = wf.purpose
    BY <1>1 DEF Workflows
  <2>2. KnowsOK(NoAnswer(wf))
    BY <1>1, KnowsNoAnswer DEF Querying
  <2> HIDE DEF v
  <2>3. KnowsOK(v)
    BY <1>1, <2>1 DEF KnowsOK, Attached, Querying, Succeeding
  <2> QED BY <1>1, <2>2, <2>3 DEF v
<1>3. Carried /\ Silent
  BY <1>1, ProviderStays DEF Silent, Conclusive
<1>4. KnowsOK(wf)'
  BY <1>2, <1>3, KnowsStays
<1>5. wf.pc \in Behind /\ wf'.pc \in Behind
  <2>1. wf'.pc \in {"call_query", "begin_query", "reconcile_unresolved",
                    "poll_result_unknown", "manual"}
    BY <1>1 DEF NoAnswer, NextTry, StartQuery, Workflows
  <2> QED BY <1>1, <2>1, Phases DEF TransitionNames
<1>6. cancelCall' # "cancelled"
  BY <1>1, <1>5, Phases DEF Truth, CallsOK
<1> QED BY <1>1, <1>3, <1>4, <1>5, <1>6, BehindKeepsTruth

LEMMA CallQueryKeepsTruth ==
  ASSUME TypeInv, Core, Truth, CallQuery
  PROVE  Truth'
<1>1. /\ wf.pc = "call_query" /\ wf \in Workflows /\ KnowsOK(wf) /\ WorkflowOK(wf)
  BY DEF TypeInv, WorkflowOK, Truth, CallQuery
<1>2. PICK answer \in Answers, reported \in {"none", "own"} :
        wf' = [wf EXCEPT !.pc = "complete_query", !.answer = answer, !.reported = reported]
  BY DEF CallQuery
<1>3. /\ wf'.pc = "complete_query" /\ wf'.task = wf.task /\ wf'.result = wf.result
      /\ wf'.status = wf.status /\ wf'.purpose = wf.purpose /\ wf'.answer = answer
  BY <1>1, <1>2 DEF Workflows
<1>4. answer = "succeeded" => Succeeded
  <2>1. ~(wf.purpose = "manual_poll" /\ wf.task # "own")
    BY <1>1 DEF WorkflowOK
  <2> QED BY <1>2, <2>1 DEF Answers, Succeeded
<1>5. KnowsOK(wf')
  BY <1>1, <1>3, <1>4 DEF KnowsOK, Attached, Querying, Succeeding
<1>6. wf.pc \in Behind \ {"complete_cancel"} /\ wf'.pc \in Behind
  BY <1>1, <1>3, Phases
<1> QED BY <1>1, <1>5, <1>6, AloneActions, AdvanceKeepsTruth DEF Advances

\* An answer leads to no settlement that says the request was not executed.
LEMMA AfterQueryCode ==
  ASSUME NEW w \in Workflows, w.pc = "complete_query", NEW v \in AfterQuery(w)
  PROVE  v.pc = "settle" => v.code # "provider_not_executed"
<1> DEFINE known == [w EXCEPT !.result = w.answer]
<1>1. NoAnswer(w).pc # "settle" /\ NextTry(w).pc # "settle"
  BY DEF NoAnswer, NextTry, StartQuery, Workflows
<1>2. known \in Workflows
  BY DEF Workflows
<1>3. ASSUME NEW u \in Workflows
      PROVE  /\ Conclude(u).pc = "settle" => Conclude(u).code # "provider_not_executed"
             /\ ConcludeManual(u).pc = "settle" =>
                  ConcludeManual(u).code # "provider_not_executed"
             /\ StartQuery(u, "manual_poll").pc = "begin_query"
  BY <1>3 DEF Conclude, ConcludeManual, Settle, StartQuery, Workflows
<1>4. /\ [known EXCEPT !.pc = "reconciled_found", !.task = w.reported].pc # "settle"
      /\ [w EXCEPT !.pc = "manual"].pc # "settle"
      /\ [w EXCEPT !.pc = "submitted"].pc # "settle"
      /\ [w EXCEPT !.pc = "begin_query", !.retry = @ + 1].pc # "settle"
      /\ [w EXCEPT !.task = w.claim] \in Workflows
  BY <1>2 DEF Workflows
<1>5. CASE w.answer = "unknown"
  BY <1>1, <1>4, <1>5 DEF AfterQuery
<1>6. CASE w.answer # "unknown"
  <2>1. \/ v = [known EXCEPT !.pc = "reconciled_found", !.task = w.reported]
        \/ v = NextTry(w)
        \/ v = StartQuery([w EXCEPT !.task = w.claim], "manual_poll")
        \/ v = [w EXCEPT !.pc = "manual"]
        \/ v = [w EXCEPT !.pc = "submitted"]
        \/ v = NoAnswer(w)
        \/ v = Conclude(known)
        \/ v = StartQuery(w, "manual_poll")
        \/ v = ConcludeManual(known)
    BY <1>6 DEF AfterQuery, Answered
  <2> HIDE DEF known
  <2> QED BY <1>1, <1>2, <1>3, <1>4, <2>1
<1> QED BY <1>5, <1>6

LEMMA CompleteQueryKeepsTruth ==
  ASSUME TypeInv, Core, Truth, CompleteQuery
  PROVE  Truth'
<1>1. /\ wf.pc = "complete_query" /\ wf \in Workflows /\ KnowsOK(wf) /\ WorkflowOK(wf)
      /\ UNCHANGED <<op, recorded, submits, vouched, parent, late, provider, cancelCall>>
  BY DEF TypeInv, WorkflowOK, Truth, CompleteQuery, OthersUnchanged
<1>2. wf' = wf \/ wf' \in AfterQuery(wf)
  BY DEF CompleteQuery, Reply
<1>3. KnowsOK(wf') /\ (wf'.pc = "settle" => wf'.code # "provider_not_executed")
  BY <1>1, <1>2, KnowsAfterQuery, AfterQueryCode
<1>4. Carried
  BY <1>1, ProviderStays
<1>5. KnowsOK(wf)'
  BY <1>3, <1>4, KnowsStays
<1>6. wf.pc \in Behind /\ wf'.pc \in Behind \cup Over
  <2>1. wf.pc \in Behind /\ "call_query" \in Behind /\ "call_cancel" \in Behind
    BY <1>1, Phases
  <2>2. wf.pc \notin BeforeSubmit
    BY <1>1 DEF BeforeSubmit
  <2> QED BY <2>1, <2>2, CompleteQueryMoves, PlainBehind DEF Moved
<1>7. cancelCall' # "cancelled"
  BY <1>1, <1>6, Phases DEF Truth, CallsOK
<1> QED BY <1>1, <1>4, <1>5, <1>6, <1>7, BehindKeepsTruth

LEMMA BeginCancelKeepsTruth ==
  ASSUME TypeInv, Core, Truth, BeginCancel
  PROVE  Truth'
<1>1. /\ wf.pc = "begin_cancel" /\ wf \in Workflows /\ KnowsOK(wf)
      /\ UNCHANGED <<op, recorded, submits, queries, vouched, parent, late, provider>>
      /\ wf' \in {[wf EXCEPT !.pc = "call_cancel"], wf, [wf EXCEPT !.pc = "failed"]}
      /\ cancelCall' \in {cancelCall, "open"}
  BY DEF TypeInv, WorkflowOK, Truth, BeginCancel, OthersUnchanged, Reply
<1>2. KnowsOK(wf')
  <2> DEFINE v == [wf EXCEPT !.pc = "call_cancel"]
  <2>1. v.pc = "call_cancel" /\ v.task = wf.task /\ v.result = wf.result /\ wf.task = "own"
    BY <1>1 DEF Workflows, KnowsOK, Attached
  <2>2. KnowsOK([wf EXCEPT !.pc = "failed"])
    BY <1>1, KnowsElsewhere DEF Attached, Querying, Succeeding
  <2> HIDE DEF v
  <2>3. KnowsOK(v)
    BY <1>1, <2>1 DEF KnowsOK, Querying, Succeeding
  <2> QED BY <1>1, <2>2, <2>3 DEF v
<1>3. wf.pc \in Behind /\ wf'.pc \in Behind \cup Over
  BY <1>1, Phases DEF Over, Workflows
<1>4. cancelCall # "cancelled"
  BY <1>1, <1>3, Phases DEF Truth, CallsOK
<1>5. Carried /\ Silent /\ cancelCall' # "cancelled"
  BY <1>1, <1>4, ProviderStays DEF Silent, Conclusive
<1>6. KnowsOK(wf)'
  BY <1>2, <1>5, KnowsStays
<1> QED BY <1>1, <1>3, <1>5, <1>6, BehindKeepsTruth

LEMMA CallCancelKeepsTruth ==
  ASSUME TypeInv, Core, Truth, CallCancel
  PROVE  Truth'
<1>1. /\ wf.pc = "call_cancel" /\ wf \in Workflows /\ KnowsOK(wf) /\ wf.task = "own"
  BY DEF TypeInv, WorkflowOK, Truth, CallCancel, KnowsOK, Attached
<1>2. Carried /\ UNCHANGED <<op, calls, recorded, vouched, parent, late>>
  BY ProviderCarried
<1>3. PICK answer \in {"cancelled", "not_cancelled", "lost"} :
        wf' = [wf EXCEPT !.pc = "complete_cancel", !.report = CancelReport(answer)]
  BY DEF CallCancel
<1>4. wf'.pc = "complete_cancel" /\ wf'.task = "own" /\ wf'.result = wf.result
  BY <1>1, <1>3 DEF Workflows
<1>5. wf'.report = "cancelled" => Stopped'
  <2>1. SUFFICES ASSUME wf'.report = "cancelled" PROVE Stopped'
    OBVIOUS
  <2>2. provider.task \in {"running", "cancelled"} /\ provider'.task = "cancelled"
        /\ provider'.flying = provider.flying
    BY <2>1, CallCancelGoes DEF TypeInv, TypeOK, Providers
  <2>3. provider.executions # 0 /\ provider.executions + provider.flying <= 1
        /\ provider.executions \in Nat /\ provider.flying \in Nat
    BY <2>2 DEF Core, ExecutionsOK, TypeInv, TypeOK, Providers
  <2> QED BY <2>2, <2>3 DEF Stopped
<1>6. KnowsOK(wf)'
  BY <1>1, <1>2, <1>4, <1>5 DEF KnowsOK, Carried, Querying, Succeeding
<1>7. wf.pc \in Behind /\ wf'.pc \in Behind
  BY <1>1, <1>4, Phases
<1>8. cancelCall' # "cancelled" /\ UNCHANGED submits
  BY <1>1, <1>2, <1>7, Phases DEF Truth, CallsOK, calls
<1> QED BY <1>2, <1>6, <1>7, <1>8, BehindKeepsTruth

LEMMA CompleteCancelKeepsTruth ==
  ASSUME TypeInv, Core, Truth, CompleteCancel
  PROVE  Truth'
<1>1. /\ wf.pc = "complete_cancel" /\ wf \in Workflows /\ KnowsOK(wf) /\ wf.task = "own"
      /\ UNCHANGED <<op, recorded, submits, queries, vouched, parent, late, provider>>
      /\ cancelCall' = wf.report
      /\ wf' \in {IF wf.report = "cancelled" THEN Settle(wf, "cancelled", "none")
                  ELSE [wf EXCEPT !.pc = "cancel_not_confirmed"], wf}
  BY DEF TypeInv, WorkflowOK, Truth, CompleteCancel, OthersUnchanged, Reply, KnowsOK, Attached
<1>2. CASE wf' = wf
  <2>1. Carried /\ KnowsOK(wf)'
    BY <1>1, <1>2, ProviderStays, KnowsStays DEF Truth
  <2> QED BY <1>1, <1>2, <2>1, Phases, BehindKeepsTruth
<1>3. CASE wf.report = "cancelled" /\ wf' = Settle(wf, "cancelled", "none")
  <2>1. Justified(wf.status, "cancelled", "none")
    BY <1>1, <1>3 DEF Justified, KnowsOK
  <2>2. KnowsOK(wf') /\ wf'.pc = "settle" /\ wf'.code = "none"
    BY <1>1, <1>3, <2>1, KnowsSettle DEF Settle, Workflows
  <2>3. Carried /\ KnowsOK(wf)'
    BY <1>1, <2>2, ProviderStays, KnowsStays
  <2> QED BY <1>1, <2>2, <2>3, Phases, BehindKeepsTruth DEF Over
<1>4. CASE wf.report # "cancelled" /\ wf' = [wf EXCEPT !.pc = "cancel_not_confirmed"]
  <2>1. wf'.pc = "cancel_not_confirmed" /\ wf'.task = "own" /\ wf'.result = wf.result
    BY <1>1, <1>4 DEF Workflows
  <2>2. KnowsOK(wf')
    BY <1>1, <2>1 DEF KnowsOK, Querying, Succeeding
  <2>3. Carried /\ KnowsOK(wf)'
    BY <1>1, <2>1, <2>2, ProviderStays, KnowsStays
  <2>4. wf.pc \in Behind /\ wf'.pc \in Behind
    BY <1>1, <2>1, Phases DEF TransitionNames
  <2> QED BY <1>1, <1>4, <2>3, <2>4, BehindKeepsTruth
<1> QED BY <1>1, <1>2, <1>3, <1>4

-----------------------------------------------------------------------------
(* The invariant, and what it shows.                                       *)

LEMMA TruthInit == Init => Truth
<1> SUFFICES ASSUME Init PROVE Truth
  OBVIOUS
<1>1. /\ op.status = "confirmed" /\ op.failure = "none" /\ recorded = "none"
      /\ submits = [i \in 1..MaxSubmits |-> "none"] /\ queries = {} /\ cancelCall = "none"
      /\ ~vouched /\ parent = "idle" /\ late = {}
      /\ wf.pc = "load" /\ wf.task = "none" /\ wf.result = "none"
  BY DEF Init
<1>2. NoCalls /\ ~MayHaveRun
  BY <1>1 DEF NoCalls, MayHaveRun
<1>3. wf.pc \in Fresh /\ wf.pc \in Submitting /\ wf.pc \notin Behind \cup Over
  BY <1>1, Phases DEF Fresh, Submitting, BeforeSubmit
<1>4. KnowsOK(wf)
  BY <1>1 DEF KnowsOK, Attached, Querying, Succeeding
<1>5. LateTrue
  BY <1>1 DEF LateTrue
<1>6. RowOK
  BY <1>1, <1>2, <1>3 DEF RowOK, Undispatched, Closed, Terminal
<1>7. CallsOK
  BY <1>1, <1>2, <1>3 DEF CallsOK
<1>8. OutcomeVerified
  BY <1>1 DEF OutcomeVerified, CancelledMeansStopped, CompletedMeansSucceeded,
              ManualReleaseVerified
<1> QED BY <1>4, <1>5, <1>6, <1>7, <1>8 DEF Truth

LEMMA TruthStep ==
  ASSUME TypeInv, Core, Truth, [Next]_vars
  PROVE  Truth'
<1>1. CASE Load \/ CheckConsent \/ TakeCancel \/ UseResult \/ CheckManualNotExecuted
           \/ ReceiveResolution \/ IngestAndFinish
  BY <1>1, StartKeepsTruth, LoopKeepsTruth, ManualKeepsTruth, IngestKeepsTruth
<1>2. CASE CompleteFromReuse \/ Transition \/ SettleOperation
  BY <1>2, RequestsKeepTruth
<1>3. CASE BeginSubmit \/ CallSubmit \/ CompleteSubmit
  BY <1>3, BeginSubmitKeepsTruth, CallSubmitKeepsTruth, CompleteSubmitKeepsTruth
<1>4. CASE BeginQuery \/ CallQuery \/ CompleteQuery
  BY <1>4, BeginQueryKeepsTruth, CallQueryKeepsTruth, CompleteQueryKeepsTruth
<1>5. CASE BeginCancel \/ CallCancel \/ CompleteCancel
  BY <1>5, BeginCancelKeepsTruth, CallCancelKeepsTruth, CompleteCancelKeepsTruth
<1>6. CASE AttemptTimesOut \/ (\E r \in late : ExecuteLate(r))
  BY <1>6, TimeoutKeepsTruth, LateKeepsTruth
<1>7. CASE RecordManualNotExecuted \/ RequestCancel \/ DeliverCancel \/ ParentSignalsCancel
           \/ UNCHANGED vars
  BY <1>7, SignalsKeepTruth
<1>8. CASE ClaimQueued \/ SettleClaimed \/ RequestArrives \/ ProviderFinishes
  BY <1>8, ParentKeepsTruth, ProviderKeepsTruth
<1> QED BY <1>1, <1>2, <1>3, <1>4, <1>5, <1>6, <1>7, <1>8
        DEF Next, Workflow, Environment

LEMMA OutcomeInductive == Spec => []Outcome
<1>1. Init => IInv /\ Truth
  BY TypeInit, CoreInit, TruthInit DEF IInv
<1>2. Outcome /\ [Next]_vars => Outcome'
  BY TypeStep, CoreStep, ReleaseStep, TruthStep DEF Outcome, IInv
<1>3. Init => Outcome
  BY <1>1 DEF Outcome
<1> QED BY <1>2, <1>3, PTL DEF Spec

(* What an operation was closed as is what the provider did: a cancelled   *)
(* one was stopped, a completed one has a task of its own that succeeded,  *)
(* and no answer contradicts an administrator whose word released it.      *)
THEOREM OperationOutcomeVerified == Spec => []OutcomeVerified
<1>1. Outcome => OutcomeVerified
  BY DEF Outcome, Truth
<1> QED BY <1>1, OutcomeInductive, PTL

-----------------------------------------------------------------------------
(* The contract of the reservation, step by step.                          *)

\* Who changes neither row nor calls says nothing new to the billing context.
LEMMA ContractStutters ==
  ASSUME op'.status = op.status, UNCHANGED <<calls, vouched>>
  PROVE  UNCHANGED Contract!vars
BY DEF Contract!vars, Closed, Exposure, Conclusive, MayHaveRun, calls

LEMMA ContractCloses ==
  ASSUME TypeInv, NEW r, Commits(r), Commit(r), r.name = "reuse" => ~MayHaveRun,
         r.from \notin Terminal,
         r.name \notin {"settle", "reuse"} => r.to \notin Terminal
  PROVE  [Contract!Next]_(Contract!vars)
<1>1. op'.status = r.to /\ op.status = r.from /\ UNCHANGED <<calls, vouched>> /\ ~Closed
  BY DEF Commits, Expected, Commit, TypeInv, TypeOK, Rows, Closed
<1>2. Exposure' = Exposure
  BY <1>1 DEF Exposure, Conclusive, MayHaveRun, calls
<1>3. CASE r.to \notin Terminal
  BY <1>1, <1>2, <1>3 DEF Contract!vars, Closed
<1>4. CASE r.to \in Terminal
  <2>1. r.name = "settle" => Conclusive \/ vouched \/ ~MayHaveRun
    BY DEF Commits, CanFinalize, CostEstablished, ManualNotExecuted, NoCalls, MayHaveRun,
           HasSubmission
  <2>2. Exposure # "possible"
    BY <1>4, <2>1 DEF Exposure
  <2>3. Contract!Close
    BY <1>1, <1>2, <1>4, <2>2 DEF Contract!Close, Closed
  <2> QED BY <2>3 DEF Contract!Next
<1> QED BY <1>3, <1>4

LEMMA ContractCalls ==
  ASSUME TypeInv, Core, Truth, Truth',
         \/ BeginSubmit \/ CompleteSubmit \/ BeginQuery \/ CompleteQuery
         \/ BeginCancel \/ CompleteCancel \/ RecordManualNotExecuted
  PROVE  [Contract!Next]_(Contract!vars)
<1>1. UNCHANGED op /\ (Closed' <=> Closed)
  BY DEF BeginSubmit, CompleteSubmit, BeginQuery, CompleteQuery, BeginCancel,
         CompleteCancel, RecordManualNotExecuted, Closed
<1>2. CASE BeginSubmit
  <2>1. UNCHANGED <<queries, cancelCall, vouched>> /\ (submits' = submits \/ ~Closed)
    BY <1>2 DEF BeginSubmit, MayBegin, Closed
  <2>2. (Conclusive' <=> Conclusive) /\ (vouched' <=> vouched)
    BY <2>1 DEF Conclusive
  <2>3. CASE submits' = submits
    BY <1>1, <2>1, <2>3, ContractStutters DEF calls
  <2>4. CASE ~Closed /\ MayHaveRun => MayHaveRun'
    <3>1. CASE ~Closed
      <4>1. MayHaveRun => MayHaveRun'
        BY <1>2 DEF BeginSubmit, MayHaveRun, TypeInv, TypeOK
      <4>2. Exposure' = Exposure \/ (Exposure = "none" /\ Exposure' = "possible")
        BY <2>2, <4>1 DEF Exposure
      <4> QED BY <1>1, <3>1, <4>2 DEF Contract!vars, Contract!Next, Contract!Expose
    <3> QED BY <2>1, <2>3, <3>1
  <2>5. MayHaveRun => MayHaveRun'
    BY <1>2 DEF BeginSubmit, MayHaveRun, TypeInv, TypeOK
  <2> QED BY <2>1, <2>3, <2>4, <2>5
<1>3. CASE CompleteSubmit
  <2>1. UNCHANGED <<queries, cancelCall, vouched>>
    BY <1>3 DEF CompleteSubmit
  <2>2. (Conclusive' <=> Conclusive) /\ (vouched' <=> vouched)
    BY <2>1 DEF Conclusive
  <2>3. MayHaveRun' => MayHaveRun
    <3>1. /\ submits[wf.attempt] \in {"open", wf.report}
          /\ submits' = [submits EXCEPT ![wf.attempt] = wf.report]
      BY <1>3 DEF Truth, CallsOK, CompleteSubmit
    <3> QED BY <3>1 DEF MayHaveRun, TypeInv, TypeOK, WorkflowOK, Workflows
  <2>4. Exposure' = Exposure \/ (Exposure = "possible" /\ Exposure' = "none")
    BY <2>2, <2>3 DEF Exposure
  <2> QED BY <1>1, <2>4 DEF Contract!vars, Contract!Next, Contract!Withdraw
<1>4. CASE BeginQuery \/ BeginCancel
  <2>1. UNCHANGED <<submits, vouched>>
    BY <1>4 DEF BeginQuery, BeginCancel
  <2>2. /\ MayHaveRun' <=> MayHaveRun
        /\ Conclusive' <=> Conclusive
        /\ vouched' <=> vouched
    BY <1>4, <2>1 DEF BeginQuery, BeginCancel, MayHaveRun, Conclusive
  <2> QED BY <1>1, <2>2 DEF Contract!vars, Exposure
<1>5. CASE CompleteQuery \/ CompleteCancel
  <2>1. UNCHANGED <<submits, vouched>> /\ wf.pc \in {"complete_query", "complete_cancel"}
    BY <1>5 DEF CompleteQuery, CompleteCancel
  <2>2. MayHaveRun /\ ~Closed /\ (MayHaveRun' <=> MayHaveRun) /\ (vouched' <=> vouched)
    BY <2>1, Phases, BehindCalled DEF MayHaveRun
  <2>3. Conclusive => Conclusive'
    <3>1. CASE CompleteQuery
      BY <3>1 DEF CompleteQuery, Conclusive
    <3>2. CASE CompleteCancel
      <4>1. cancelCall = "cancelled" => wf.report = "cancelled"
        BY <3>2 DEF CompleteCancel, Truth, CallsOK, Over
      <4> QED BY <3>2, <4>1 DEF CompleteCancel, Conclusive
    <3> QED BY <1>5, <3>1, <3>2
  <2>4. Exposure' = Exposure
        \/ (Exposure \in {"possible", "vouched"} /\ Exposure' = "established")
    BY <2>2, <2>3 DEF Exposure
  <2> QED BY <1>1, <2>2, <2>4 DEF Contract!vars, Contract!Next, Contract!Establish
<1>6. CASE RecordManualNotExecuted
  <2>1. op.status = "manual" /\ ~Conclusive /\ UNCHANGED calls /\ vouched'
    BY <1>6 DEF RecordManualNotExecuted
  <2>2. MayHaveRun /\ ~Closed
    BY <2>1 DEF Truth, RowOK, Statuses, Undispatched, Terminal, Closed
  <2>3. ~Conclusive' /\ Exposure' = "vouched" /\ Exposure \in {"vouched", "possible"}
    BY <2>1, <2>2 DEF Conclusive, calls, Exposure
  <2> QED BY <1>1, <2>2, <2>3 DEF Contract!vars, Contract!Next, Contract!Vouch
<1> QED BY <1>2, <1>3, <1>4, <1>5, <1>6

LEMMA ContractStep ==
  ASSUME Outcome, Outcome', [Next]_vars
  PROVE  [Contract!Next]_(Contract!vars)
<1> USE DEF Outcome, IInv
<1>1. CASE Load \/ CheckConsent \/ CallSubmit \/ CallQuery \/ TakeCancel \/ UseResult
           \/ CallCancel \/ CheckManualNotExecuted \/ IngestAndFinish
           \/ AttemptTimesOut \/ ReceiveResolution \/ RequestCancel \/ DeliverCancel
           \/ ParentSignalsCancel \/ RequestArrives \/ ProviderFinishes \/ UNCHANGED vars
  <2>1. UNCHANGED <<op, calls, vouched>>
    BY <1>1 DEF Load, LoadWorkflowOperation, CheckConsent, CallSubmit, CallQuery, TakeCancel, UseResult,
       CallCancel, CheckManualNotExecuted, IngestAndFinish, AttemptTimesOut,
       ReceiveResolution, RequestCancel, DeliverCancel, ParentSignalsCancel,
       RequestArrives, ProviderFinishes, DbUnchanged, vars, calls
  <2> QED BY <2>1, ContractStutters
<1>2. CASE \/ BeginSubmit \/ CompleteSubmit \/ BeginQuery \/ CompleteQuery
           \/ BeginCancel \/ CompleteCancel \/ RecordManualNotExecuted
  BY <1>2, ContractCalls
<1>3. ASSUME NEW r, (Commits(r) /\ Commit(r)) \/ DbUnchanged, r.from \notin Terminal,
             r.name \notin {"settle", "reuse"} => r.to \notin Terminal
      PROVE  [Contract!Next]_(Contract!vars)
  <2>1. CASE DbUnchanged
    BY <2>1, ContractStutters DEF DbUnchanged
  <2>2. r.name = "reuse" /\ Commits(r) => ~MayHaveRun
    BY DEF Commits, NoCalls, MayHaveRun
  <2> QED BY <1>3, <2>1, <2>2, ContractCloses
<1>4. CASE CompleteFromReuse \/ Transition \/ SettleOperation
  <2>1. PICK r : r = Request(wf)
    OBVIOUS
  <2>2. (Commits(r) /\ Commit(r)) \/ DbUnchanged
    BY <1>4, <2>1 DEF CompleteFromReuse, Transition, SettleOperation
  <2>3. wf.pc \in DatabaseSteps
    BY <1>4 DEF CompleteFromReuse, Transition, SettleOperation, DatabaseSteps
  <2> QED BY <1>3, <2>1, <2>2, <2>3, RequestLateOK
<1>5. ASSUME NEW r \in late, ExecuteLate(r) PROVE [Contract!Next]_(Contract!vars)
  <2>1. (Commits(r) /\ Commit(r)) \/ DbUnchanged
    BY <1>5 DEF ExecuteLate
  <2> QED BY <1>3, <2>1 DEF TypeInv, LateOK
<1>6. CASE SettleClaimed
  <2>1. BatchCancel.from \notin Terminal /\ BatchCancel.name = "settle"
    BY DEF BatchCancel, Terminal
  <2> QED BY <1>3, <1>6, <2>1 DEF SettleClaimed
<1>7. CASE ClaimQueued
  <2>1. ~Closed /\ ~Closed' /\ UNCHANGED <<calls, vouched>>
    BY <1>7 DEF ClaimQueued, Queued, Closed, Terminal, TypeInv, TypeOK, Rows
  <2> QED BY <2>1 DEF Contract!vars, Exposure, Conclusive, MayHaveRun, calls
<1> QED BY <1>1, <1>2, <1>4, <1>5, <1>6, <1>7 DEF Next, Workflow, Environment

(* The operation implements the contract of its reservation: it is closed  *)
(* once, and never while a paid request may have run whose end neither the *)
(* provider nor an administrator has established.                          *)
THEOREM OperationKeepsContract == Spec => ContractKept
<1>1. Init => Contract!Init
  <2> SUFFICES ASSUME Init PROVE Contract!Init
    OBVIOUS
  <2>1. ~Closed /\ ~Conclusive /\ ~vouched /\ ~MayHaveRun
    BY DEF Init, Closed, Terminal, Conclusive, MayHaveRun
  <2> QED BY <2>1 DEF Contract!Init, Exposure
<1>2. Outcome /\ Outcome' /\ [Next]_vars => [Contract!Next]_(Contract!vars)
  BY ContractStep
<1> QED BY <1>1, <1>2, OutcomeInductive, PTL DEF Spec, ContractKept, Contract!Spec
=============================================================================
