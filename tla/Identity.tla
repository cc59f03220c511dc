------------------------------ MODULE Identity ------------------------------
(***************************************************************************)
(* Accounts, their sessions and the limit on failed logins.  Everything a  *)
(* user does with an own account happens in one transaction under that     *)
(* account's row; an administrator's command is prepared from an earlier   *)
(* read and committed under the organization's lock, with the actor's row  *)
(* shared and the target's row locked, after the administrators that would *)
(* be left were counted.  Names, display names and the texts of events are *)
(* left out.                                                               *)
(***************************************************************************)
EXTENDS Naturals, FiniteSets, FiniteSetsExt

CONSTANTS
    Accounts,     \* accounts of the organization
    Slots,        \* sessions
    LockFailures, \* failures that lock a login: 5 in the code
    LockDuration, \* 15 minutes, in ticks
    IdleTime,     \* 12 hours
    Lifetime,     \* 7 days
    MaxRevision, MaxClock, MaxTries  \* bounds; MaxRevision on all revisions together

ASSUME IdentityAssumption ==
    /\ IsFiniteSet(Accounts)
    /\ LockFailures \in Nat \ {0} /\ LockDuration \in Nat \ {0}
    /\ IdleTime \in Nat /\ Lifetime \in Nat
    /\ MaxRevision \in Nat /\ MaxClock \in Nat /\ MaxTries \in Nat

VARIABLES
    account,  \* identity.user
    session,  \* identity.user_session
    guard,    \* identity.login_guard, by the account of that login
    command,  \* [administrator -> the command being carried out]
    clock,
    tries     \* [account -> times of the failures since the last login]

identityVars == <<account, session, guard, command, clock, tries>>

NoAccount == [role |-> "none", status |-> "none", mustChange |-> FALSE, epoch |-> 0, revision |-> 0]
NoSession == [account |-> "none", epoch |-> 0, last |-> 0, ends |-> 0, revoked |-> FALSE, overtaken |-> FALSE]
NoCommand == [kind |-> "none", target |-> "none", seen |-> 0, phase |-> "none", role |-> "none", admins |-> 0]
NoGuard == [failures |-> {}, lockedUntil |-> 0]

Known(a) == account[a] # NoAccount
Active(a) == account[a].status = "active"
ActiveAdmins == {a \in Accounts : Active(a) /\ account[a].role = "admin"}

(* A new installation, or one whose administrators all chose their passwords. *)
IdentityInit ==
    /\ account \in {[a \in Accounts |-> NoAccount],
                    [a \in Accounts |-> [role |-> "admin", status |-> "active", mustChange |-> FALSE,
                                         epoch |-> 1, revision |-> 1]]}
    /\ session = [s \in Slots |-> NoSession]
    /\ guard = [a \in Accounts |-> NoGuard]
    /\ command = [a \in Accounts |-> NoCommand]
    /\ clock = 1
    /\ tries = [a \in Accounts |-> {}]

-----------------------------------------------------------------------------
(* Locks of the open transactions: the organization's and those on rows.     *)

Open == {a \in Accounts : command[a].phase = "open"}
OrgFree == Open = {}
RowFree(a) == \A o \in Open : o # a /\ command[o].target # a
RowShared(a) == \A o \in Open : command[o].target # a

(* RegisterLoginSuccess and every change of an account move its revision. *)
Revisions == MapThenSumSet(LAMBDA b : account[b].revision, Accounts)
Moved(a, row) == Revisions < MaxRevision
                 /\ account' = [account EXCEPT ![a] = [row EXCEPT !.revision = account[a].revision + 1]]

-----------------------------------------------------------------------------
(* Sessions *)

SessionMatches(a, epoch) == Active(a) /\ epoch > 0 /\ epoch = account[a].epoch

Valid(s) ==
    /\ session[s] # NoSession /\ ~session[s].revoked
    /\ SessionMatches(session[s].account, session[s].epoch)
    /\ session[s].last <= clock /\ clock < session[s].last + IdleTime /\ clock < session[s].ends

Free(s) == session[s] = NoSession
NewSession(a, epoch) ==
    [account |-> a, epoch |-> epoch, last |-> clock, ends |-> clock + Lifetime, revoked |-> FALSE, overtaken |-> FALSE]

(* overtaken remembers that the credential a session was opened with is gone. *)
Overtaken(sessions, a) ==
    [s \in Slots |-> IF sessions[s] # NoSession /\ sessions[s].account = a
                     THEN [sessions[s] EXCEPT !.overtaken = TRUE] ELSE sessions[s]]

(* withSession: the account is locked before the session is read again. *)
WithSession(s) == Valid(s) /\ RowFree(session[s].account)

Current(s) ==
    /\ WithSession(s)
    /\ session' = [session EXCEPT ![s].last = clock]
    /\ UNCHANGED <<account, guard, command, clock, tries>>

Logout(s) ==
    /\ WithSession(s)
    /\ session' = [session EXCEPT ![s].revoked = TRUE]
    /\ UNCHANGED <<account, guard, command, clock, tries>>

RevokeAccountSessions(a) ==
    [s \in Slots |-> IF session[s] # NoSession /\ session[s].account = a
                     THEN [session[s] EXCEPT !.revoked = TRUE] ELSE session[s]]

ChangePassword(s, new) ==
    LET a == session[s].account IN
    /\ WithSession(s) /\ Free(new)
    /\ Moved(a, [account[a] EXCEPT !.epoch = @ + 1, !.mustChange = FALSE])
    /\ session' = [Overtaken(RevokeAccountSessions(a), a) EXCEPT ![new] = NewSession(a, account[a].epoch + 1)]
    /\ UNCHANGED <<guard, command, clock, tries>>

-----------------------------------------------------------------------------
(* Login *)

Locked(g) == clock < g.lockedUntil

(* Fail keeps the failures of the window; one during a lock is not counted,  *)
(* and the first after a lock starts a new window.  Failures in one tick are *)
(* told apart by a number.                                                   *)
Recent(g) ==
    IF g.lockedUntil # 0 THEN {} ELSE {f \in g.failures : f.at + LockDuration > clock}
NewFailure(past) == [at |-> clock, number |-> Cardinality({f \in past : f.at = clock})]
FailLenient(g) ==
    IF Locked(g) THEN g
    ELSE LET failures == Recent(g) \cup {NewFailure(Recent(g))} IN
         [failures |-> failures,
          lockedUntil |-> IF Cardinality(failures) > LockFailures THEN clock + LockDuration ELSE 0]
Fail(g) ==
    IF Locked(g) THEN g
    ELSE LET failures == Recent(g) \cup {NewFailure(Recent(g))} IN
         [failures |-> failures,
          lockedUntil |-> IF Cardinality(failures) >= LockFailures THEN clock + LockDuration ELSE 0]

Guesses == MapThenSumSet(LAMBDA b : Cardinality(tries[b]), Accounts)

(* A login is refused for a wrong password, a disabled account or a lock.    *)
(* Only without a lock does the answer tell whether the password was right.  *)
LoginFails(a, correct) ==
    /\ Known(a) /\ RowFree(a) /\ Guesses < MaxTries
    /\ ~correct \/ ~Active(a) \/ Locked(guard[a])
    /\ guard' = [guard EXCEPT ![a] = Fail(@)]
    /\ tries' = IF Locked(guard[a]) THEN tries
                ELSE [tries EXCEPT ![a] = @ \cup {NewFailure(@)}]
    /\ UNCHANGED <<account, session, command, clock>>

Login(a, s) ==
    /\ Known(a) /\ RowFree(a) /\ Free(s)
    /\ Active(a) /\ ~Locked(guard[a])
    /\ guard' = [guard EXCEPT ![a] = NoGuard]
    /\ Moved(a, account[a])
    /\ session' = [session EXCEPT ![s] = NewSession(a, account[a].epoch)]
    /\ tries' = [tries EXCEPT ![a] = {}]
    /\ UNCHANGED <<command, clock>>

-----------------------------------------------------------------------------
(* New accounts *)

NewAccount(role, mustChange) ==
    [role |-> role, status |-> "active", mustChange |-> mustChange, epoch |-> 1, revision |-> 1]

Insert(a, row) == ~Known(a) /\ account' = [account EXCEPT ![a] = row]

(* The first account of an installation, made on the server's command line. *)
BootstrapAdmin(a) ==
    /\ \A b \in Accounts : ~Known(b)
    /\ Insert(a, NewAccount("admin", TRUE))
    /\ UNCHANGED <<session, guard, command, clock, tries>>

Register(a, s) ==
    /\ Free(s) /\ Insert(a, NewAccount("producer", FALSE))
    /\ session' = [session EXCEPT ![s] = NewSession(a, 1)]
    /\ UNCHANGED <<guard, command, clock, tries>>

(* requireCurrentAdmin, under the row's shared lock. *)
CurrentAdmin(a) ==
    RowShared(a) /\ Active(a) /\ account[a].role = "admin" /\ ~account[a].mustChange

CreateUser(actor, a, role) ==
    /\ CurrentAdmin(actor) /\ Insert(a, NewAccount(role, TRUE))
    /\ UNCHANGED <<session, guard, command, clock, tries>>

-----------------------------------------------------------------------------
(* An administrator's command on an account: what the application does       *)
(* before any lock is taken *)

Prepare(actor, kind, target, role) ==
    /\ command[actor] = NoCommand /\ Known(actor) /\ Known(target)
    /\ account[actor].role = "admin" /\ ~account[actor].mustChange
    /\ command' = [command EXCEPT ![actor] = [NoCommand EXCEPT !.kind = kind, !.target = target, !.role = role,
                                        !.seen = account[target].revision, !.phase = "read"]]
    /\ UNCHANGED <<account, session, guard, clock, tries>>

(* The revision is the one the administrator was shown. *)
DisableUser(actor, target) == Prepare(actor, "disable", target, "none")
EnableUser(actor, target) == Prepare(actor, "enable", target, "none")
UpdateUser(actor, target, role) == account[target].role # role /\ Prepare(actor, "update", target, role)
ResetUserPassword(actor, target) == Prepare(actor, "reset", target, "none")

-----------------------------------------------------------------------------
(* Its transaction *)

LockOrgNot == TRUE
LockOrg == OrgFree

Begin(actor) ==
    LET c == command[actor] IN
    /\ c.phase = "read" /\ LockOrg
    /\ CurrentAdmin(actor) /\ RowFree(c.target)
    /\ account[c.target].revision = c.seen
    /\ command' = [command EXCEPT ![actor].phase = "open", ![actor].admins = Cardinality(ActiveAdmins)]
    /\ UNCHANGED <<account, session, guard, clock, tries>>

(* The transaction finds the command stale or forbidden, or the connection   *)
(* is lost.                                                                  *)
Abandon(actor) ==
    /\ command[actor].phase \in {"read", "open"}
    /\ command' = [command EXCEPT ![actor] = NoCommand]
    /\ UNCHANGED <<account, session, guard, clock, tries>>

LastAdmin(row, admins) == row.role = "admin" /\ row.status = "active" /\ admins <= 1

MayDisable(row, admins) == row.status = "active" /\ ~LastAdmin(row, admins)
Disabled(row) == [row EXCEPT !.status = "disabled", !.epoch = @ + 1]

MayEnable(row) == row.status = "disabled"
Enabled(row) == [row EXCEPT !.status = "active", !.epoch = @ + 1]

MayUpdateUncounted(row, role, admins) == row.role # role
MayUpdate(row, role, admins) == row.role # role /\ (role = "admin" \/ ~LastAdmin(row, admins))
Updated(row, role) == [row EXCEPT !.role = role]

ResetOnly(row) == [row EXCEPT !.mustChange = TRUE]
Reset(row) == [row EXCEPT !.mustChange = TRUE, !.epoch = @ + 1]

(* The row is saved with its next revision and the command is over. *)
Committed(actor, row) ==
    /\ Moved(command[actor].target, row)
    /\ command' = [command EXCEPT ![actor] = NoCommand]
    /\ UNCHANGED <<guard, clock, tries>>

At(actor, kind) == command[actor].phase = "open" /\ command[actor].kind = kind
Target(actor) == account[command[actor].target]

(* disableUserInTx counted the administrators when it took the row. *)
DisableInTx(actor) == MayDisable(Target(actor), command[actor].admins) /\ Committed(actor, Disabled(Target(actor)))

DisableWithEvents(actor) ==
    /\ At(actor, "disable") /\ DisableInTx(actor)
    /\ session' = Overtaken(session, command[actor].target)

EnableWithEvents(actor) ==
    /\ At(actor, "enable") /\ MayEnable(Target(actor))
    /\ Committed(actor, Enabled(Target(actor)))
    /\ UNCHANGED session

UpdateProfileWithEvents(actor) ==
    LET c == command[actor] IN
    /\ At(actor, "update") /\ MayUpdate(Target(actor), c.role, c.admins)
    /\ Committed(actor, Updated(Target(actor), c.role))
    /\ UNCHANGED session

ResetPasswordWithEvents(actor) ==
    /\ At(actor, "reset") /\ Committed(actor, Reset(Target(actor)))
    /\ session' = Overtaken(session, command[actor].target)

ClockTick ==
    /\ clock < MaxClock /\ clock' = clock + 1
    /\ UNCHANGED <<account, session, guard, command, tries>>

IdentityNext ==
    \/ \E s \in Slots : Current(s) \/ Logout(s) \/ \E t \in Slots : ChangePassword(s, t)
    \/ \E a \in Accounts :
         \/ \E correct \in BOOLEAN : LoginFails(a, correct)
         \/ BootstrapAdmin(a) \/ Begin(a) \/ Abandon(a)
         \/ DisableWithEvents(a) \/ EnableWithEvents(a) \/ UpdateProfileWithEvents(a) \/ ResetPasswordWithEvents(a)
         \/ \E s \in Slots : Login(a, s) \/ Register(a, s)
         \/ \E b \in Accounts : \E role \in {"admin", "producer"} : CreateUser(a, b, role)
         \/ \E b \in Accounts :
              DisableUser(a, b) \/ EnableUser(a, b) \/ ResetUserPassword(a, b)
              \/ \E role \in {"admin", "producer"} : UpdateUser(a, b, role)
    \/ ClockTick

IdentitySpec == IdentityInit /\ [][IdentityNext]_identityVars

-----------------------------------------------------------------------------
(* Once there is an administrator there always is one that can log in,       *)
(* however the administrators remove one another or themselves.              *)
AdminKept == ActiveAdmins # {} => ActiveAdmins' # {}

(* Nobody is let in with a session opened with a password that was changed   *)
(* or reset since, or before the account was disabled.                       *)
SessionsFresh == \A s \in Slots : Valid(s) => ~session[s].overtaken

(* No more than LockFailures guesses at a password are answered in any       *)
(* stretch of time as long as a lock.                                        *)
GuessesLimited ==
    \A a \in Accounts : \A from \in 1..MaxClock :
        Cardinality({f \in tries[a] : from <= f.at /\ f.at < from + LockDuration}) <= LockFailures

(* A session that was refused is refused for ever, and the administrators'   *)
(* commands are carried out by accounts that are administrators then.        *)
RefusedForEver == \A s \in Slots : session[s] # NoSession /\ ~Valid(s) => ~Valid(s)'
AdminsAct ==
    \A a \in Open : command'[a] = NoCommand /\ account' # account =>
          a \in ActiveAdmins /\ ~account[a].mustChange

IdentityKept == AdminKept /\ RefusedForEver /\ AdminsAct

(* A session never outlives the password it was opened with, guesses are     *)
(* limited, and an organization never loses its last administrator.          *)
IdentityHonest == [](SessionsFresh /\ GuessesLimited) /\ [][IdentityKept]_identityVars
=============================================================================
