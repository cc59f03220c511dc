------------------------------- MODULE Ingest -------------------------------
(***************************************************************************)
(* How one result of a provider becomes media: an activity downloads it,   *)
(* makes the previews, stores every object under a key that follows from   *)
(* the operation and registers the asset with the operation's output in    *)
(* one transaction; then the result is reviewed and the verdict recorded   *)
(* at both.  Activities are tried again while an earlier try, taken for    *)
(* dead, may still be going on.                                            *)
(***************************************************************************)
EXTENDS Naturals

CONSTANTS
    Parts,      \* number of objects of a result: the file and its previews
    Bytes,      \* contents that the provider may hand out for one result
    MaxTries,   \* bound: tries of the ingest activity
    MaxFaults   \* bound: calls that fail, answers lost and tries taken for dead

VARIABLES
    operation,  \* status of the operation
    output,     \* media_asset and operation_output of the result
    object,     \* [parts -> content of the stored object]
    late,       \* puts that were given up and may still happen
    try,        \* [Tries -> what a try of media.Ingest is doing]
    flow,       \* where the workflow is
    faults

vars == <<operation, output, object, late, try, flow, faults>>

Tries == 1..MaxTries
All == 1..Parts
Missing == "missing"
NoOutput == [content |-> Missing, asset |-> "none", review |-> "none"]
Idle == [step |-> "idle"]
Over == [step |-> "over"]

Init ==
    /\ operation = "ingesting"
    /\ output = NoOutput
    /\ object = [p \in All |-> Missing]
    /\ late = {}
    /\ try = [t \in Tries |-> Idle]
    /\ flow = [at |-> "ingest", try |-> 0, verdict |-> "none"]
    /\ faults = 0

Fail == faults < MaxFaults /\ faults' = faults + 1
Running(t) == try[t].step \notin {"idle", "over"}

(* What a try tells the workflow, if that still listens to it.              *)
Answered(t, answer) ==
    /\ try' = [try EXCEPT ![t] = Over]
    /\ flow' = IF flow.at = "ingest" /\ flow.try = t
               THEN [flow EXCEPT !.at = answer, !.try = 0] ELSE flow

-----------------------------------------------------------------------------
(* The activity                                                            *)

(* FindOutput: a result that is registered is only verified again.          *)
Ingest(t) ==
    /\ flow.at = "ingest" /\ flow.try = 0
    /\ try[t] = Idle /\ \A s \in 1..(t - 1) : try[s] # Idle
    /\ flow' = [flow EXCEPT !.try = t]
    /\ try' = [try EXCEPT ![t] = IF output # NoOutput THEN [step |-> "verify"]
                                 ELSE [step |-> "load"]]
    /\ UNCHANGED <<operation, output, object, late, faults>>

Verify(t) ==
    /\ try[t].step = "verify"
    /\ Answered(t, IF \A p \in All : object[p] = output.content THEN "review" ELSE "ingest")
    /\ UNCHANGED <<operation, output, object, late, faults>>

LoadOperation(t) ==
    /\ try[t].step = "load"
    /\ IF operation = "ingesting"
       THEN try' = [try EXCEPT ![t].step = "download"] /\ UNCHANGED flow
       ELSE Answered(t, "ingest")
    /\ UNCHANGED <<operation, output, object, late, faults>>

(* Downloaded, probed and rendered; what the provider hands out need not be *)
(* the same again.                                                         *)
Download(t) ==
    /\ try[t].step = "download"
    /\ \E b \in Bytes : try' = [try EXCEPT ![t] = [step |-> "put", content |-> b, next |-> 1]]
    /\ UNCHANGED <<operation, output, object, late, flow, faults>>

(* The result has expired, is unsafe, too large or of another kind: there   *)
(* is no point in trying again.                                            *)
DownloadRefused(t) ==
    /\ try[t].step = "download" /\ Fail
    /\ Answered(t, "refused")
    /\ UNCHANGED <<operation, output, object, late>>

(* PutIfAbsent and verifyObject                                             *)
Overwritten(p, b) == [object EXCEPT ![p] = b]
PutIfAbsent(p, b) == [object EXCEPT ![p] = IF @ = Missing THEN b ELSE @]

Unverified(t) == TRUE
Verified(t) == object[try[t].next] \in {Missing, try[t].content}

Put(t) ==
    /\ try[t].step = "put" /\ try[t].next <= Parts
    /\ object' = PutIfAbsent(try[t].next, try[t].content)
    /\ IF Verified(t)
       THEN try' = [try EXCEPT ![t].next = @ + 1] /\ UNCHANGED flow
       ELSE Answered(t, "ingest")
    /\ UNCHANGED <<operation, output, late, faults>>

(* No answer: the object may be created now, later or never.                *)
PutFails(t) ==
    /\ try[t].step = "put" /\ try[t].next <= Parts /\ Fail
    /\ \/ object' = PutIfAbsent(try[t].next, try[t].content) /\ UNCHANGED late
       \/ late' = late \cup {[part |-> try[t].next, content |-> try[t].content]}
          /\ UNCHANGED object
    /\ Answered(t, "ingest")
    /\ UNCHANGED <<operation, output>>

Land ==
    \E o \in late :
       /\ object' = PutIfAbsent(o.part, o.content)
       /\ late' = late \ {o}
       /\ UNCHANGED <<operation, output, try, flow, faults>>

(* SaveOutput                                                              *)
SaveAnyway(t) == IF output # NoOutput THEN output
                 ELSE [content |-> try[t].content, asset |-> "processing", review |-> "pending"]
Saved(t) ==
    IF output # NoOutput \/ operation # "ingesting" THEN output
    ELSE [content |-> try[t].content, asset |-> "processing", review |-> "pending"]

Saving(t) == try[t].step = "put" /\ try[t].next > Parts

SaveOutput(t) ==
    /\ Saving(t)
    /\ output' = Saved(t)
    /\ Answered(t, IF output' # NoOutput THEN "review" ELSE "ingest")
    /\ UNCHANGED <<operation, object, late, faults>>

SaveUnknown(t) ==
    /\ Saving(t) /\ Fail
    /\ output' \in {output, Saved(t)}
    /\ Answered(t, "ingest")
    /\ UNCHANGED <<operation, object, late>>

(* The worker dies; or the try is taken for dead and goes on.               *)
Die(t) ==
    /\ Running(t) /\ Fail
    /\ Answered(t, "ingest")
    /\ UNCHANGED <<operation, output, object, late>>

TimeOut(t) ==
    /\ Running(t) /\ flow.try = t /\ Fail
    /\ flow' = [flow EXCEPT !.try = 0]
    /\ UNCHANGED <<operation, output, object, late, try>>

-----------------------------------------------------------------------------
(* The workflow                                                            *)

(* reviewOutput: the verdict of the check, or a rejection when none was to  *)
(* be had for a day.                                                       *)
Review ==
    /\ flow.at = "review"
    /\ \E v \in {"passed", "rejected", "unavailable"} :
          flow' = [flow EXCEPT !.at = "record", !.verdict = v]
    /\ UNCHANGED <<operation, output, object, late, try, faults>>

Verdict == IF flow.verdict = "passed" THEN "passed" ELSE "rejected"

(* RecordModeration: the same verdict again is fine, another is refused.    *)
OutputOnly == [output EXCEPT !.review = Verdict]
Recorded ==
    [output EXCEPT !.review = Verdict,
                   !.asset = IF Verdict = "passed" THEN "ready" ELSE "rejected"]
MayRecord == operation = "ingesting" /\ output.asset = "processing" /\ output.review = "pending"

RecordModeration ==
    /\ flow.at = "record"
    /\ output' = IF MayRecord THEN Recorded ELSE output
    /\ \/ /\ flow' = IF output'.review = Verdict THEN [flow EXCEPT !.at = "settle"] ELSE flow
          /\ UNCHANGED faults
       \/ Fail /\ UNCHANGED flow
    /\ UNCHANGED <<operation, object, late, try>>

(* ingestAndFinish                                                         *)
Settle ==
    /\ flow.at \in {"settle", "refused"}
    /\ operation' = IF flow.at = "settle" /\ flow.verdict # "unavailable"
                    THEN "completed" ELSE "failed"
    /\ flow' = [flow EXCEPT !.at = "done"]
    /\ UNCHANGED <<output, object, late, try, faults>>

Next ==
    \/ \E t \in Tries :
          \/ Ingest(t) \/ Verify(t) \/ LoadOperation(t) \/ Download(t) \/ DownloadRefused(t)
          \/ Put(t) \/ PutFails(t) \/ SaveOutput(t) \/ SaveUnknown(t) \/ Die(t) \/ TimeOut(t)
    \/ Land \/ Review \/ RecordModeration \/ Settle

Spec == Init /\ [][Next]_vars

-----------------------------------------------------------------------------
(* A registered result is the content of all of its objects: whatever       *)
(* another try downloads or stores later does not reach it.                 *)
OutputWhole == output # NoOutput => \A p \in All : object[p] = output.content

(* An operation completes with its result reviewed, and the asset is ready  *)
(* exactly when the output passed.                                         *)
ReviewAgrees ==
    /\ operation = "completed" => output.review \in {"passed", "rejected"}
    /\ output.asset = "ready" <=> output.review = "passed"
    /\ output.asset = "rejected" <=> output.review = "rejected"
    /\ flow.at \in {"review", "record", "settle"} => output # NoOutput

IngestHonest == OutputWhole /\ ReviewAgrees

(* What is registered stays what it is, a verdict is never changed, and     *)
(* nothing is registered or reviewed after the operation has ended.         *)
OutputKept ==
    /\ output # NoOutput => output'.content = output.content
    /\ output.review \in {"passed", "rejected"} => output' = output
    /\ operation # "ingesting" => output' = output

=============================================================================
