---------------------------- MODULE Credentials ----------------------------
(***************************************************************************)
(* One provider, its encrypted credentials and the tests of them.  A       *)
(* command of an administrator reads what it is about in one transaction   *)
(* and writes in another; a test loads the credential, asks the provider   *)
(* and records the answer some time later, perhaps more than once, while   *)
(* the credential is replaced, the provider disabled or the administrator  *)
(* loses his rights.                                                       *)
(***************************************************************************)
EXTENDS Naturals, Sequences

CONSTANTS
    Admins,  \* commands that may be under way at one time
    Tests,   \* requests of a test, each with its key
    MaxCredentials, MaxRevision, MaxTime, MaxFaults  \* bounds

VARIABLES
    provider,     \* its row: status, limit, revision
    credentials,  \* the rows of its credentials, oldest first
    test,         \* per test: its workflow, the credential and the observation
    late,         \* attempts to record that outlived their timeout
    recorded,     \* the tests whose events were written, in order
    command,      \* per administrator: what its first transaction saw
    admin,        \* they still have their rights
    now, faults

vars == <<provider, credentials, test, late, recorded, command, admin, now, faults>>

Results == {"ok", "auth_failed"}
Untested == [status |-> "active", result |-> "none", at |-> 0]
NoTest == [pc |-> "none", credential |-> 0, result |-> "none", at |-> 0]
NoCommand == [kind |-> "none"]

Init ==
    /\ provider = [status |-> "active", limit |-> 1, revision |-> 1]
    /\ credentials = <<>>
    /\ test = [t \in Tests |-> NoTest]
    /\ late = {} /\ recorded = <<>>
    /\ command = [a \in Admins |-> NoCommand]
    /\ admin = TRUE /\ now = 1 /\ faults = 0

Fault == faults < MaxFaults /\ faults' = faults + 1
ProviderActive == provider.status = "active"
CredentialActive(c) == credentials[c].status = "active"
Rows == UNCHANGED <<provider, credentials>>
Testing == UNCHANGED <<test, late, recorded, now>>

-----------------------------------------------------------------------------
(* The commands of the administrators *)

Idle(a) == command[a].kind = "none" /\ admin
Sees(a, seen) == command' = [command EXCEPT ![a] = seen] /\ Rows /\ Testing /\ UNCHANGED <<admin, faults>>
Ends(a) == command' = [command EXCEPT ![a] = NoCommand] /\ Testing /\ UNCHANGED <<admin, faults>>

FindProviderForAdmin(a) == Idle(a) /\ ProviderActive /\ Sees(a, [kind |-> "set"])

LeaveAll(rows) == rows
DisableAll(rows) == [c \in DOMAIN rows |-> [rows[c] EXCEPT !.status = "disabled"]]
Replaced == Append(DisableAll(credentials), Untested)

ReplaceWithEvents(a) ==
    /\ command[a].kind = "set" /\ Len(credentials) < MaxCredentials
    /\ IF admin /\ ProviderActive THEN credentials' = Replaced ELSE UNCHANGED credentials
    /\ Ends(a) /\ UNCHANGED provider

FindCredentialForAdmin(a, c) ==
    Idle(a) /\ CredentialActive(c) /\ Sees(a, [kind |-> "disable", credential |-> c])

Disable(a) ==
    LET c == command[a].credential IN
    /\ command[a].kind = "disable"
    /\ IF admin /\ CredentialActive(c)
       THEN credentials' = [credentials EXCEPT ![c].status = "disabled"]
       ELSE UNCHANGED credentials
    /\ Ends(a) /\ UNCHANGED provider

(* Any change of the status or the limit *)
Patched(status, limit) == [status |-> status, limit |-> limit, revision |-> provider.revision + 1]
FindToUpdate(a, status, limit) ==
    /\ Idle(a) /\ provider.revision < MaxRevision
    /\ <<status, limit>> # <<provider.status, provider.limit>>
    /\ Sees(a, [kind |-> "update", before |-> provider, after |-> Patched(status, limit)])

SeenBefore(a) == TRUE
StillSeen(a) == provider = command[a].before

UpdateProvider(a) ==
    /\ command[a].kind = "update"
    /\ provider' = IF admin /\ StillSeen(a) THEN command[a].after ELSE provider
    /\ Ends(a) /\ UNCHANGED credentials

(* A password reset or a change of role *)
Rights ==
    /\ Fault /\ admin' = ~admin
    /\ Rows /\ Testing /\ UNCHANGED command

-----------------------------------------------------------------------------
(* The test of a credential *)

Goes(t, pc) == test' = [test EXCEPT ![t].pc = pc]
At(t, pc) == test[t].pc = pc
TestOnly == UNCHANGED <<provider, command, admin>>

(* A repeated key answers as before, or is refused for another credential. *)
RequestCredentialTest(t, c) ==
    /\ At(t, "none") /\ admin /\ ProviderActive /\ CredentialActive(c)
    /\ test' = [test EXCEPT ![t] = [NoTest EXCEPT !.pc = "requested", !.credential = c]]
    /\ TestOnly /\ UNCHANGED <<credentials, late, recorded, now, faults>>

(* The event reaches the workflow engine, which knows the test's identity. *)
StartCredentialTest(t) ==
    /\ At(t, "requested") /\ Goes(t, "started")
    /\ TestOnly /\ UNCHANGED <<credentials, late, recorded, now, faults>>

Loadable(t) == admin /\ ProviderActive /\ CredentialActive(test[t].credential)
LoadForCredentialTest(t) ==
    /\ At(t, "started") /\ Goes(t, IF Loadable(t) THEN "loaded" ELSE "ended")
    /\ TestOnly /\ UNCHANGED <<credentials, late, recorded, now, faults>>

(* The time is the workflow's when it has the answer; clocks are coarse. *)
Probe(t, result) ==
    /\ At(t, "loaded")
    /\ now' \in {n \in {now, now + 1} : n <= MaxTime}
    /\ test' = [test EXCEPT ![t].pc = "probed", ![t].result = result, ![t].at = now']
    /\ TestOnly /\ UNCHANGED <<credentials, late, recorded, faults>>

ProbeFails(t) ==
    /\ At(t, "loaded") /\ Fault /\ Goes(t, "ended")
    /\ TestOnly /\ UNCHANGED <<credentials, late, recorded, now>>

(* RecordCredentialTest.  What was recorded is not recorded again. *)
IsRecorded(t) == \E i \in DOMAIN recorded : recorded[i] = t
SupersededNever(t) == FALSE
SupersededByTie(t) == credentials[test[t].credential].at = test[t].at
Superseded(t) == credentials[test[t].credential].at >= test[t].at

Records(t) ==
    /\ admin /\ ~IsRecorded(t) /\ ProviderActive
    /\ CredentialActive(test[t].credential) /\ ~Superseded(t)

Write(t) ==
    IF Records(t)
    THEN /\ credentials' = [credentials EXCEPT ![test[t].credential] = [@ EXCEPT !.result = test[t].result, !.at = test[t].at]]
         /\ recorded' = Append(recorded, t)
    ELSE UNCHANGED <<credentials, recorded>>

RecordCredentialTest(t) ==
    /\ At(t, "probed") /\ Write(t) /\ Goes(t, "ended")
    /\ TestOnly /\ UNCHANGED <<late, now, faults>>

(* An attempt that failed is repeated; one that got no answer in time may    *)
(* have written, or may write later, whatever the workflow does meanwhile.   *)
Unanswered(t) ==
    /\ At(t, "probed") /\ Fault
    /\ \/ Write(t) /\ UNCHANGED late
       \/ late' = late \cup {t} /\ UNCHANGED <<credentials, recorded>>
    /\ TestOnly /\ UNCHANGED <<test, now>>

LateAttempt(t) ==
    /\ t \in late /\ late' = late \ {t} /\ Write(t)
    /\ TestOnly /\ UNCHANGED <<test, now, faults>>

Next ==
    \/ \E a \in Admins :
         \/ FindProviderForAdmin(a) \/ ReplaceWithEvents(a) \/ Disable(a) \/ UpdateProvider(a)
         \/ \E c \in DOMAIN credentials : FindCredentialForAdmin(a, c)
         \/ \E status \in {"active", "disabled"}, limit \in {1, 2} : FindToUpdate(a, status, limit)
    \/ Rights
    \/ \E t \in Tests :
         \/ \E c \in DOMAIN credentials : RequestCredentialTest(t, c)
         \/ StartCredentialTest(t) \/ LoadForCredentialTest(t) \/ ProbeFails(t)
         \/ \E result \in Results : Probe(t, result)
         \/ RecordCredentialTest(t) \/ Unanswered(t) \/ LateAttempt(t)

Spec == Init /\ [][Next]_vars

-----------------------------------------------------------------------------
(* One credential at most can be used, whatever commands were under way at   *)
(* one time.                                                                 *)
OneActive ==
    \A c, d \in DOMAIN credentials : CredentialActive(c) /\ CredentialActive(d) => c = d

(* A credential shows the answer of the latest of its recorded tests, which  *)
(* told of it once, whatever order the tests ended in.                       *)
ShowsLatest ==
    /\ \A i, j \in DOMAIN recorded : recorded[i] = recorded[j] => i = j
    /\ \A i \in DOMAIN recorded :
         LET t == test[recorded[i]]
             c == credentials[t.credential]
         IN  t.at <= c.at /\ (t.at = c.at => t.result = c.result)
    /\ \A c \in DOMAIN credentials : credentials[c].at # 0 =>
         \E i \in DOMAIN recorded : test[recorded[i]].credential = c /\ test[recorded[i]].at = credentials[c].at

CredentialHonest == OneActive /\ ShowsLatest

(* A replaced or disabled credential stays as it was; an update of the       *)
(* provider changes nothing its administrator had not seen.                  *)
CredentialKept ==
    /\ \A c \in DOMAIN credentials : ~CredentialActive(c) => credentials'[c] = credentials[c]
    /\ provider' # provider => \E a \in Admins : command[a] # command'[a] /\ command[a].before = provider
=============================================================================
