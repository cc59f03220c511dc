------------------------------ MODULE MCMedia ------------------------------
(***************************************************************************)
(* The five long jobs on media files, on small instances: the purge, and   *)
(* four others that share the variables whose names they have in common.   *)
(* No two share state: a behaviour moves only one job, its "subject".      *)
(***************************************************************************)
EXTENDS MediaPurge

CONSTANTS MaxAttempts, MaxTries, MaxExecutions

VARIABLES subject, job2, item2, object2, stored2, run2, commands2, faults2,
          changed, media, asset, writing, removing, late, drafts,
          exec, native, asked, events, flow, open, stop, revoked, used

others == <<job2, item2, object2, stored2, run2, commands2, faults2,
            changed, media, asset, writing, removing, late, drafts,
            exec, native, asked, events, flow, open, stop, revoked, used>>

(* An asset with two files and one with a record only. *)
MCItems == <<"a", "b">>
MCParts == [a |-> <<"a0", "a1">>, b |-> <<>>]

(* A first item of one object and a second one of two. *)
T == INSTANCE MediaTransfer WITH
       Items <- <<"a", "b">>, Parts <- [a |-> <<"a0">>, b |-> <<"b0", "b1">>],
       job <- job2, item <- item2, object <- object2, stored <- stored2, run <- run2,
       commands <- commands2, faults <- faults2, MaxFaults <- MaxFaults + 1
X == INSTANCE MediaExport WITH job <- job2, stored <- stored2, faults <- faults2
S == INSTANCE Transcription WITH job <- job2, faults <- faults2, MaxFaults <- MaxFaults + 1
D == INSTANCE Depth WITH
       MaxObjects <- 2, MaxRuns <- MaxExecutions, MaxFaults <- MaxFaults + 1,
       job <- job2, object <- object2, stored <- stored2, faults <- faults2

ofTransfer == <<changed, writing, removing, item2, run2, commands2>>
ofTools == <<media, asset, late, drafts, exec, native, asked, events, flow, open, stop,
             revoked, used>>
NoTransfer == /\ changed = {} /\ writing = {} /\ removing = {}
              /\ item2 = {} /\ run2 = {} /\ commands2 = 0
NoTools == /\ media = {} /\ asset = {} /\ late = {} /\ drafts = {} /\ exec = {} /\ native = {}
           /\ asked = {} /\ events = {} /\ flow = {} /\ open = {} /\ stop = {} /\ revoked = {}
           /\ used = 0

PurgeInit ==
    /\ subject = "purge" /\ NoTransfer /\ NoTools
    /\ job2 = {} /\ object2 = {} /\ stored2 = {} /\ faults2 = 0
TransferInit == subject = "transfer" /\ T!Init /\ NoTools
ExportInit ==
    /\ subject = "export" /\ X!Init /\ NoTransfer
    /\ object2 = {} /\ asset = {} /\ drafts = {} /\ native = {} /\ asked = {}
    /\ open = {} /\ stop = {} /\ revoked = {}
InferenceInit ==
    /\ subject = "transcription" /\ S!Init /\ NoTransfer
    /\ object2 = {} /\ asset = {} /\ media = {} /\ stored2 = {}
    /\ open = {} /\ stop = {} /\ revoked = {}
DepthInit ==
    /\ subject = "depth" /\ D!Init /\ NoTransfer
    /\ media = {} /\ drafts = {} /\ asked = {} /\ flow = {}

MediaInit ==
    /\ Init
    /\ PurgeInit \/ TransferInit \/ ExportInit \/ InferenceInit \/ DepthInit

MediaNext ==
    /\ UNCHANGED subject
    /\ \/ subject = "purge" /\ Next /\ UNCHANGED others
       \/ /\ UNCHANGED vars
          /\ \/ subject = "transfer" /\ T!Next /\ UNCHANGED ofTools
             \/ /\ subject = "export" /\ X!Next
                /\ UNCHANGED <<ofTransfer, object2, asset, drafts, native, asked,
                               open, stop, revoked>>
             \/ /\ subject = "transcription" /\ S!Next
                /\ UNCHANGED <<ofTransfer, object2, asset, media, stored2,
                               open, stop, revoked>>
             \/ /\ subject = "depth" /\ D!Next
                /\ UNCHANGED <<ofTransfer, media, drafts, asked, flow>>

MediaSpec == MediaInit /\ [][MediaNext]_<<subject, vars, others>>

-----------------------------------------------------------------------------
(* The processes that may act on a job's objects, or on the job's behalf in *)
(* the recognition server, and whether the job has its final result.        *)
ToolHolders == CASE subject = "transfer" -> T!Holders
                 [] subject \in {"transcription", "depth"} -> native
                 [] OTHER -> {}
ToolSettled == subject = "transfer" /\ T!Ended
ToolWork == INSTANCE PhysicalWork WITH holders <- ToolHolders, settled <- ToolSettled

(* Storage holds what the jobs report: a published item of a transfer is    *)
(* complete and everything else it wrote is gone again; depth output that   *)
(* is shown is stored, and a cancelled run leaves nothing.  A render that   *)
(* is registered is the one stored; nothing is recognized twice or reported *)
(* as over while it is computed.                                            *)
ResultsHonest ==
    CASE subject = "transfer" -> T!TransferWhole
      [] subject = "export" -> X!ExportWhole
      [] subject = "transcription" -> S!InferenceWhole
      [] subject = "depth" -> D!DepthHonest

(* A job that was cancelled ends as cancelled. *)
CancelKept ==
    /\ subject = "export" => X!CancelKept
    /\ subject = "transcription" => S!CancelKept

(* What the four other jobs promise: one process works for a job at a time  *)
(* and none after its final result, whatever leases, heartbeats and workers *)
(* get lost; storage holds what the jobs report; a cancellation is final.   *)
JobsHonest ==
    /\ ToolWork!Spec
    /\ [](subject # "purge" => ResultsHonest)
    /\ [][CancelKept]_<<subject, others>>

-----------------------------------------------------------------------------
(* The transfer alone. *)
TransferSpec == Init /\ TransferInit /\ [][MediaNext]_<<subject, vars, others>>

(* "Cancellation cleans only unpublished rows": the run that a cancellation *)
(* starts leaves no item unsettled that it never looked at.                 *)
CancelReachesEveryItem == T!CancelReachesEveryItem
=============================================================================
