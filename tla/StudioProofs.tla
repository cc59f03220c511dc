---------------------------- MODULE StudioProofs ----------------------------
(* Theorems about the studio: its accounts, for every set of accounts and  *)
(* sessions and every setting of the limits, and the images of Codex, for  *)
(* every number of faults and signals.                                     *)
EXTENDS Identity, CodexImage, FiniteSetTheorems, TLAPS

-----------------------------------------------------------------------------
(* The inductive invariant of the accounts *)

Roles == {"none", "admin", "producer"}
AccountRow == [role : Roles, status : {"none", "active", "disabled"}, mustChange : BOOLEAN,
               epoch : Nat, revision : Nat]
SessionRow == [account : Accounts \cup {"none"}, epoch : Nat, last : Nat, ends : Nat,
               revoked : BOOLEAN, overtaken : BOOLEAN]
Failure == [at : Nat, number : Nat]
GuardRow == [failures : SUBSET Failure, lockedUntil : Nat]
CommandRow == [kind : {"none", "disable", "enable", "update", "reset"}, target : Accounts \cup {"none"},
               seen : Nat, phase : {"none", "read", "open"}, role : Roles, admins : Nat]

IdentityTypeOK ==
    /\ account \in [Accounts -> AccountRow]
    /\ session \in [Slots -> SessionRow]
    /\ guard \in [Accounts -> GuardRow]
    /\ command \in [Accounts -> CommandRow]
    /\ clock \in Nat
    /\ tries \in [Accounts -> SUBSET Failure]

(* A session belongs to an account, was not opened by a password to come, and *)
(* if its own is gone it is revoked or the account has counted on.            *)
SessionFollows(s) ==
    session[s] # NoSession =>
        /\ session[s].account \in Accounts /\ Known(session[s].account)
        /\ session[s].last <= clock
        /\ session[s].epoch <= account[session[s].account].epoch
        /\ session[s].overtaken =>
              session[s].revoked \/ session[s].epoch < account[session[s].account].epoch
SessionsFollow == \A s \in Slots : SessionFollows(s)

(* One command is open at a time, by an administrator, on an account; the     *)
(* administrators it counted are still there.                                 *)
CommandHolds(a) ==
    a \in Open =>
        /\ a \in ActiveAdmins /\ ~account[a].mustChange
        /\ command[a].admins <= Cardinality(ActiveAdmins)
CommandsHold ==
    /\ \A a, b \in Open : a = b
    /\ \A a \in Accounts : CommandHolds(a)
    /\ \A a \in Accounts : command[a].phase # "none" => command[a].target \in Accounts

(* The failures of the last LockDuration, as the guard and as the guesses     *)
(* have them.                                                                 *)
RecentTries(a) == {f \in tries[a] : f.at + LockDuration > clock}
Window(a, from) == {f \in tries[a] : from <= f.at /\ f.at < from + LockDuration}

(* Without a lock the guard has all recent guesses, and one more is allowed;  *)
(* a lock lasts longer than any window with a guess before it.                *)
GuardCounts(a) ==
    /\ IsFiniteSet(tries[a]) /\ \A f \in tries[a] : f.at <= clock
    /\ guard[a].lockedUntil = 0 =>
          /\ Recent(guard[a]) = RecentTries(a)
          /\ Cardinality(RecentTries(a)) < LockFailures
    /\ guard[a].lockedUntil # 0 => \A f \in tries[a] : f.at + LockDuration <= guard[a].lockedUntil
    /\ \A from \in Nat : Cardinality(Window(a, from)) <= LockFailures
GuardsCount == \A a \in Accounts : GuardCounts(a)

IdentityInv == IdentityTypeOK /\ SessionsFollow /\ CommandsHold /\ GuardsCount

-----------------------------------------------------------------------------
(* Facts used for several actions *)

LEMMA AdminsFinite ==
    /\ IsFiniteSet(ActiveAdmins) /\ Cardinality(ActiveAdmins) \in Nat
    /\ IsFiniteSet(ActiveAdmins') /\ Cardinality(ActiveAdmins)' \in Nat
<1>1. ActiveAdmins \subseteq Accounts /\ ActiveAdmins' \subseteq Accounts
    BY DEF ActiveAdmins
<1>2. IsFiniteSet(ActiveAdmins) /\ IsFiniteSet(ActiveAdmins')
    BY <1>1, IdentityAssumption, FS_Subset
<1> QED
    BY <1>2, FS_CardinalityType

(* Epochs only grow, an account that comes back has a later one, and no       *)
(* account disappears.                                                        *)
AccountsGrow ==
    \A a \in Accounts :
        /\ account[a].epoch <= account'[a].epoch
        /\ Known(a) => Known(a)'
        /\ Known(a) /\ ~Active(a) /\ Active(a)' => account[a].epoch < account'[a].epoch

LEMMA GrowsByStaying ==
    ASSUME IdentityTypeOK, UNCHANGED account
    PROVE AccountsGrow
BY DEF AccountsGrow, IdentityTypeOK, AccountRow, Known, Active

(* A row saved with its next revision. *)
LEMMA GrowsByMoving ==
    ASSUME IdentityTypeOK, NEW a \in Accounts, NEW row \in AccountRow, Moved(a, row),
           account[a].epoch <= row.epoch,
           ~Active(a) /\ row.status = "active" => account[a].epoch < row.epoch
    PROVE /\ AccountsGrow /\ account' \in [Accounts -> AccountRow]
          /\ account'[a] = [row EXCEPT !.revision = account[a].revision + 1]
          /\ \A b \in Accounts \ {a} : account'[b] = account[b]
<1>1. account' = [account EXCEPT ![a] = [row EXCEPT !.revision = account[a].revision + 1]]
    BY DEF Moved
<1>2. account \in [Accounts -> AccountRow]
    BY DEF IdentityTypeOK
<1>3. [row EXCEPT !.revision = account[a].revision + 1] \in AccountRow
    BY <1>2 DEF AccountRow
<1>4. /\ account' \in [Accounts -> AccountRow]
      /\ account'[a] = [row EXCEPT !.revision = account[a].revision + 1]
      /\ \A b \in Accounts \ {a} : account'[b] = account[b]
    BY <1>1, <1>2, <1>3
<1>5. account'[a].revision # 0 /\ account'[a].epoch = row.epoch /\ account'[a].status = row.status
    BY <1>2, <1>4 DEF AccountRow
<1>6. AccountsGrow
    BY <1>2, <1>4, <1>5 DEF AccountsGrow, Known, Active, NoAccount, AccountRow
<1> QED
    BY <1>4, <1>6

(* A new account. *)
LEMMA GrowsByInserting ==
    ASSUME IdentityTypeOK, NEW a \in Accounts, NEW role \in Roles, NEW mustChange \in BOOLEAN,
           Insert(a, NewAccount(role, mustChange))
    PROVE /\ AccountsGrow /\ account' \in [Accounts -> AccountRow]
          /\ ~Known(a) /\ account'[a] = NewAccount(role, mustChange)
          /\ \A b \in Accounts \ {a} : account'[b] = account[b]
<1>1. ~Known(a) /\ account' = [account EXCEPT ![a] = NewAccount(role, mustChange)]
    BY DEF Insert
<1>2. account \in [Accounts -> AccountRow]
    BY DEF IdentityTypeOK
<1>3. NewAccount(role, mustChange) \in AccountRow
    BY DEF AccountRow, NewAccount
<1>4. /\ account' \in [Accounts -> AccountRow]
      /\ account'[a] = NewAccount(role, mustChange)
      /\ \A b \in Accounts \ {a} : account'[b] = account[b]
    BY <1>1, <1>2, <1>3
<1>5. account[a].epoch = 0 /\ account'[a].epoch = 1
    BY <1>1, <1>4 DEF Known, NoAccount, NewAccount
<1> QED
    BY <1>1, <1>2, <1>4, <1>5 DEF AccountsGrow, Known, Active, AccountRow

(* A session that is not touched. *)
LEMMA SessionKeeps ==
    ASSUME IdentityTypeOK, IdentityTypeOK', AccountsGrow, clock <= clock',
           NEW s \in Slots, SessionFollows(s), session'[s] = session[s]
    PROVE SessionFollows(s)'
<1>1. session[s] \in SessionRow /\ clock \in Nat /\ clock' \in Nat
    BY DEF IdentityTypeOK
<1>2. CASE session[s] = NoSession
    BY <1>2 DEF SessionFollows, NoSession
<1>3. CASE session[s] # NoSession
  <2> DEFINE a == session[s].account
  <2>1. a \in Accounts /\ Known(a) /\ session'[s].account = a
      BY <1>3 DEF SessionFollows
  <2>2. account[a].epoch \in Nat /\ account'[a].epoch \in Nat
      BY <2>1 DEF IdentityTypeOK, AccountRow
  <2>3. Known(a)' /\ account[a].epoch <= account'[a].epoch
      BY <2>1 DEF AccountsGrow
  <2> QED
      BY <1>1, <1>3, <2>1, <2>2, <2>3 DEF SessionFollows, SessionRow
<1> QED
    BY <1>2, <1>3

LEMMA NewSessionIs ==
    ASSUME NEW a \in Accounts, NEW epoch \in Nat, clock \in Nat
    PROVE NewSession(a, epoch) \in SessionRow
<1>1. clock + Lifetime \in Nat
    BY IdentityAssumption
<1> QED
    BY <1>1 DEF NewSession, SessionRow

(* A session opened with the password that an account has. *)
LEMMA SessionOpened ==
    ASSUME IdentityTypeOK', UNCHANGED clock, NEW s \in Slots, NEW a \in Accounts,
           Known(a)', session'[s] = NewSession(a, account'[a].epoch)
    PROVE SessionFollows(s)'
<1>1. clock \in Nat /\ account'[a].epoch \in Nat
    BY DEF IdentityTypeOK, AccountRow
<1> QED
    BY <1>1 DEF SessionFollows, NewSession

LEMMA GuardsStay ==
    ASSUME GuardsCount, UNCHANGED <<guard, tries, clock>>
    PROVE GuardsCount'
BY DEF GuardsCount, GuardCounts, Recent, RecentTries, Window

LEMMA CommandsStay ==
    ASSUME CommandsHold, UNCHANGED <<account, command>>
    PROVE CommandsHold'
BY DEF CommandsHold, CommandHolds, Open, ActiveAdmins, Active

(* An account changes while a command is open: nobody stops being an          *)
(* administrator.                                                             *)
LEMMA CommandsOutlast ==
    ASSUME IdentityTypeOK, IdentityTypeOK', CommandsHold, UNCHANGED command,
           ActiveAdmins \subseteq ActiveAdmins',
           \A a \in Open : account'[a].mustChange = account[a].mustChange
    PROVE CommandsHold'
<1>1. Open' = Open
    BY DEF Open
<1>2. Cardinality(ActiveAdmins) <= Cardinality(ActiveAdmins')
    BY AdminsFinite, FS_Subset
<1>3. Cardinality(ActiveAdmins) \in Nat /\ Cardinality(ActiveAdmins') \in Nat
    BY AdminsFinite
<1>4. \A a \in Accounts : command[a].admins \in Nat
    BY DEF IdentityTypeOK, CommandRow
<1>5. ASSUME NEW a \in Accounts PROVE CommandHolds(a)'
  <2>1. SUFFICES ASSUME a \in Open
                 PROVE a \in ActiveAdmins' /\ ~account'[a].mustChange
                       /\ command[a].admins <= Cardinality(ActiveAdmins')
      BY <1>1 DEF CommandHolds
  <2>2. a \in ActiveAdmins /\ ~account[a].mustChange /\ command[a].admins <= Cardinality(ActiveAdmins)
      BY <2>1 DEF CommandsHold, CommandHolds
  <2> QED
      BY <1>2, <1>3, <1>4, <2>1, <2>2
<1> QED
    BY <1>1, <1>5 DEF CommandsHold

(* What a step promises beyond the invariant: a session that is refused keeps *)
(* its reason, and there still is an administrator.                           *)
SessionLasts(s) ==
    session[s] # NoSession /\ ~Valid(s) =>
        /\ session'[s].account = session[s].account /\ session'[s].epoch = session[s].epoch
        /\ session'[s].last = session[s].last /\ session'[s].ends = session[s].ends
        /\ session[s].revoked => session'[s].revoked
StepSound ==
    /\ IdentityInv' /\ AccountsGrow /\ clock <= clock' /\ AdminKept
    /\ \A s \in Slots : SessionLasts(s)

-----------------------------------------------------------------------------
(* Sessions *)

LEMMA CurrentKeeps ==
    ASSUME IdentityInv, NEW s \in Slots, Current(s)
    PROVE StepSound
<1> USE DEF IdentityInv
<1>1. /\ Valid(s) /\ session' = [session EXCEPT ![s].last = clock]
      /\ UNCHANGED <<account, guard, command, clock, tries>>
    BY DEF Current, WithSession
<1>2. IdentityTypeOK'
    BY <1>1 DEF IdentityTypeOK, SessionRow
<1>3. AccountsGrow
    BY <1>1, GrowsByStaying
<1>4. clock \in Nat /\ clock <= clock'
    BY <1>1 DEF IdentityTypeOK
<1>5. /\ session'[s] = [session[s] EXCEPT !.last = clock]
      /\ \A t \in Slots \ {s} : session'[t] = session[t]
    BY <1>1 DEF IdentityTypeOK
<1>6. ASSUME NEW t \in Slots PROVE SessionFollows(t)'
  <2>1. CASE t = s
      BY <1>1, <1>4, <1>5, <2>1 DEF SessionsFollow, SessionFollows, IdentityTypeOK, SessionRow, Known, Valid
  <2>2. CASE t # s
      BY <1>2, <1>3, <1>4, <1>5, <2>2, SessionKeeps DEF SessionsFollow
  <2> QED
      BY <2>1, <2>2
<1>7. CommandsHold' /\ GuardsCount' /\ AdminKept
    BY <1>1, CommandsStay, GuardsStay DEF AdminKept, ActiveAdmins, Active
<1>8. ASSUME NEW t \in Slots PROVE SessionLasts(t)
    BY <1>1, <1>5 DEF SessionLasts
<1> QED
    BY <1>2, <1>3, <1>4, <1>6, <1>7, <1>8 DEF StepSound, SessionsFollow

LEMMA LogoutKeeps ==
    ASSUME IdentityInv, NEW s \in Slots, Logout(s)
    PROVE StepSound
<1> USE DEF IdentityInv
<1>1. /\ Valid(s) /\ session' = [session EXCEPT ![s].revoked = TRUE]
      /\ UNCHANGED <<account, guard, command, clock, tries>>
    BY DEF Logout, WithSession
<1>2. IdentityTypeOK'
    BY <1>1 DEF IdentityTypeOK, SessionRow
<1>3. AccountsGrow
    BY <1>1, GrowsByStaying
<1>4. clock \in Nat /\ clock <= clock'
    BY <1>1 DEF IdentityTypeOK
<1>5. /\ session'[s] = [session[s] EXCEPT !.revoked = TRUE]
      /\ \A t \in Slots \ {s} : session'[t] = session[t]
    BY <1>1 DEF IdentityTypeOK
<1>6. ASSUME NEW t \in Slots PROVE SessionFollows(t)'
  <2>1. CASE t = s
      BY <1>1, <1>4, <1>5, <2>1 DEF SessionsFollow, SessionFollows, IdentityTypeOK, SessionRow, Known, Valid
  <2>2. CASE t # s
      BY <1>2, <1>3, <1>4, <1>5, <2>2, SessionKeeps DEF SessionsFollow
  <2> QED
      BY <2>1, <2>2
<1>7. CommandsHold' /\ GuardsCount' /\ AdminKept
    BY <1>1, CommandsStay, GuardsStay DEF AdminKept, ActiveAdmins, Active
<1>8. ASSUME NEW t \in Slots PROVE SessionLasts(t)
    BY <1>1, <1>5 DEF SessionLasts
<1> QED
    BY <1>2, <1>3, <1>4, <1>6, <1>7, <1>8 DEF StepSound, SessionsFollow

(* Only the account's own row is changed, and no open command is its. *)
LEMMA ChangePasswordKeeps ==
    ASSUME IdentityInv, NEW s \in Slots, NEW new \in Slots, ChangePassword(s, new)
    PROVE StepSound
<1> USE DEF IdentityInv
<1>a. PICK a : a = session[s].account
    OBVIOUS
<1> DEFINE row == [account[a] EXCEPT !.epoch = @ + 1, !.mustChange = FALSE]
<1>1. /\ Valid(s) /\ RowFree(a) /\ Free(new) /\ Moved(a, row)
      /\ session' = [Overtaken(RevokeAccountSessions(a), a) EXCEPT ![new] = NewSession(a, account[a].epoch + 1)]
      /\ UNCHANGED <<guard, command, clock, tries>>
    BY <1>a DEF ChangePassword, WithSession
<1>2. a \in Accounts /\ Known(a) /\ Active(a)
    BY <1>a, <1>1 DEF Valid, SessionMatches, SessionsFollow, SessionFollows
<1>3. account[a] \in AccountRow /\ row \in AccountRow /\ row.epoch = account[a].epoch + 1
  <2>1. account[a] \in AccountRow
      BY <1>2 DEF IdentityTypeOK
  <2>2. PICK n \in Nat : n = account[a].epoch + 1
      BY <2>1 DEF AccountRow
  <2>3. row = [account[a] EXCEPT !.epoch = n, !.mustChange = FALSE]
      BY <2>2, Zenon
  <2>4. row \in AccountRow /\ row.epoch = n
      BY <2>1, <2>3 DEF AccountRow
  <2> QED
      BY <2>1, <2>2, <2>4
<1>4. /\ AccountsGrow /\ account' \in [Accounts -> AccountRow]
      /\ account'[a] = [row EXCEPT !.revision = account[a].revision + 1]
      /\ \A b \in Accounts \ {a} : account'[b] = account[b]
  <2>1. account[a].epoch <= row.epoch /\ account[a].epoch < row.epoch
      BY <1>3 DEF AccountRow
  <2> QED
      BY <1>1, <1>2, <1>3, <2>1, GrowsByMoving
<1>5. /\ account'[a].epoch = account[a].epoch + 1 /\ account'[a].role = account[a].role
      /\ account'[a].status = account[a].status
    BY <1>3, <1>4 DEF AccountRow
<1>6. clock \in Nat /\ clock <= clock'
    BY <1>1 DEF IdentityTypeOK
<1>7. /\ session'[new] = NewSession(a, account[a].epoch + 1)
      /\ \A t \in Slots \ {new} :
            session'[t] = IF session[t] # NoSession /\ session[t].account = a
                          THEN [session[t] EXCEPT !.revoked = TRUE, !.overtaken = TRUE] ELSE session[t]
  <2> DEFINE sessions == RevokeAccountSessions(a)
  <2>1. \A t \in Slots : session[t] \in SessionRow
      BY DEF IdentityTypeOK
  <2>2. ASSUME NEW t \in Slots, session[t] # NoSession, session[t].account = a
        PROVE /\ sessions[t] = [session[t] EXCEPT !.revoked = TRUE]
              /\ sessions[t] # NoSession /\ sessions[t].account = a
      BY <2>1, <2>2 DEF RevokeAccountSessions, SessionRow, NoSession
  <2>3. ASSUME NEW t \in Slots, ~(session[t] # NoSession /\ session[t].account = a)
        PROVE sessions[t] = session[t]
      BY <2>3 DEF RevokeAccountSessions
  <2>4. session'[new] = NewSession(a, account[a].epoch + 1)
      BY <1>1 DEF Overtaken
  <2>5. ASSUME NEW t \in Slots \ {new}
        PROVE session'[t] = IF sessions[t] # NoSession /\ sessions[t].account = a
                            THEN [sessions[t] EXCEPT !.overtaken = TRUE] ELSE sessions[t]
      BY <1>1 DEF Overtaken
  <2> QED
      BY <2>1, <2>2, <2>3, <2>4, <2>5 DEF SessionRow
<1>8. IdentityTypeOK'
  <2>1. session'[new] \in SessionRow
    <3>1. account'[a].epoch \in Nat /\ session'[new] = NewSession(a, account'[a].epoch)
        BY <1>2, <1>4, <1>5, <1>7 DEF AccountRow
    <3> QED
        BY <1>2, <1>6, <3>1, NewSessionIs
  <2>2. ASSUME NEW t \in Slots PROVE session'[t] \in SessionRow
      BY <1>7, <2>1 DEF IdentityTypeOK, SessionRow
  <2>3. session' = [t \in Slots |-> session'[t]]
      BY <1>1 DEF Overtaken
  <2>4. session' \in [Slots -> SessionRow]
      BY <2>2, <2>3
  <2> QED
      BY <1>1, <1>4, <2>4 DEF IdentityTypeOK
<1>9. ASSUME NEW t \in Slots PROVE SessionFollows(t)'
  <2>1. CASE t = new
    <3>1. Known(a)'
        BY <1>2, <1>4 DEF AccountsGrow
    <3> QED
        BY <1>1, <1>2, <1>5, <1>7, <1>8, <2>1, <3>1, SessionOpened
  <2>2. CASE t # new /\ session[t] # NoSession /\ session[t].account = a
    <3>1. session[t] \in SessionRow /\ SessionFollows(t)
        BY DEF IdentityTypeOK, SessionsFollow
    <3>2. /\ session'[t].revoked = TRUE /\ session'[t].account = a
          /\ session'[t].epoch = session[t].epoch /\ session'[t].last = session[t].last
        BY <1>7, <2>2, <3>1 DEF SessionRow
    <3>3. session[t].epoch <= account[a].epoch /\ account[a].epoch \in Nat /\ session[t].epoch \in Nat
        BY <1>3, <2>2, <3>1 DEF SessionFollows, AccountRow, SessionRow
    <3>4. Known(a)' /\ session[t].last <= clock'
        BY <1>1, <1>2, <1>4, <2>2, <3>1 DEF AccountsGrow, SessionFollows
    <3> QED
        BY <1>2, <1>5, <3>2, <3>3, <3>4 DEF SessionFollows
  <2>3. CASE t # new /\ ~(session[t] # NoSession /\ session[t].account = a)
    <3>1. session'[t] = session[t]
        BY <1>7, <2>3
    <3> QED
        BY <1>4, <1>6, <1>8, <3>1, SessionKeeps DEF SessionsFollow
  <2> QED
      BY <2>1, <2>2, <2>3
<1>10. ActiveAdmins' = ActiveAdmins
    BY <1>4, <1>5 DEF ActiveAdmins, Active
<1>11. CommandsHold'
  <2>1. \A o \in Open : o # a
      BY <1>1 DEF RowFree
  <2>2. \A o \in Open : account'[o].mustChange = account[o].mustChange
      BY <1>4, <2>1 DEF Open
  <2> QED
      BY <1>1, <1>8, <1>10, <2>2, CommandsOutlast
<1>12. GuardsCount' /\ AdminKept
    BY <1>1, <1>10, GuardsStay DEF AdminKept
<1>13. ASSUME NEW t \in Slots PROVE SessionLasts(t)
  <2>1. session[t] \in SessionRow
      BY DEF IdentityTypeOK
  <2>2. CASE t = new
      BY <1>1, <2>2 DEF SessionLasts, Free
  <2>3. CASE t # new
      BY <1>7, <2>1, <2>3 DEF SessionLasts, SessionRow
  <2> QED
      BY <2>2, <2>3
<1> QED
    BY <1>4, <1>6, <1>8, <1>9, <1>11, <1>12, <1>13 DEF StepSound, SessionsFollow

-----------------------------------------------------------------------------
(* Logins *)

(* A guess is told apart from those before it by a number. *)
LEMMA NewFailureIs ==
    ASSUME IdentityTypeOK, NEW past \in SUBSET Failure, IsFiniteSet(past)
    PROVE NewFailure(past) \in Failure /\ NewFailure(past).at = clock
<1> DEFINE same == {f \in past : f.at = clock}
<1>1. IsFiniteSet(same)
    BY FS_Subset
<1>2. Cardinality(same) \in Nat /\ clock \in Nat
    BY <1>1, FS_CardinalityType DEF IdentityTypeOK
<1> HIDE DEF same
<1>3. [at |-> clock, number |-> Cardinality(same)] \in Failure
    BY <1>2 DEF Failure
<1>4. NewFailure(past) = [at |-> clock, number |-> Cardinality(same)]
    BY DEF NewFailure, same
<1> QED
    BY <1>3, <1>4

(* Without a lock the guard has just the guesses that are recent.             *)
LEMMA UnlockedIs ==
    ASSUME IdentityInv, NEW a \in Accounts, ~Locked(guard[a])
    PROVE /\ Recent(guard[a]) = RecentTries(a)
          /\ IsFiniteSet(RecentTries(a)) /\ Cardinality(RecentTries(a)) \in Nat
          /\ Cardinality(RecentTries(a)) < LockFailures
          /\ NewFailure(Recent(guard[a])) = NewFailure(tries[a])
<1>1. GuardCounts(a) /\ clock \in Nat /\ guard[a].lockedUntil \in Nat /\ tries[a] \subseteq Failure
    BY DEF IdentityInv, GuardsCount, IdentityTypeOK, GuardRow
<1>2. \A f \in tries[a] : f.at \in Nat
    BY <1>1 DEF Failure
<1>3. IsFiniteSet(RecentTries(a)) /\ Cardinality(RecentTries(a)) \in Nat
  <2>1. RecentTries(a) \subseteq tries[a] /\ IsFiniteSet(tries[a])
      BY <1>1 DEF RecentTries, GuardCounts
  <2> QED
      BY <2>1, FS_Subset, FS_CardinalityType
<1>4. Recent(guard[a]) = RecentTries(a) /\ Cardinality(RecentTries(a)) < LockFailures
  <2>1. CASE guard[a].lockedUntil = 0
      BY <1>1, <2>1 DEF GuardCounts
  <2>2. CASE guard[a].lockedUntil # 0
    <3>1. \A f \in tries[a] : f.at + LockDuration <= clock
        BY <1>1, <1>2, <2>2, IdentityAssumption DEF GuardCounts, Locked
    <3>2. RecentTries(a) = {} /\ Recent(guard[a]) = {}
        BY <1>1, <1>2, <2>2, <3>1, IdentityAssumption DEF RecentTries, Recent
    <3> QED
        BY <3>2, FS_EmptySet, IdentityAssumption
  <2> QED
      BY <2>1, <2>2
<1>5. {f \in RecentTries(a) : f.at = clock} = {f \in tries[a] : f.at = clock}
    BY <1>1, <1>2, IdentityAssumption DEF RecentTries
<1> QED
    BY <1>3, <1>4, <1>5 DEF NewFailure

(* One more guess, the last that is allowed if it makes LockFailures of them. *)
LEMMA GuessCounted ==
    ASSUME IdentityInv, NEW a \in Accounts, ~Locked(guard[a]),
           guard' = [guard EXCEPT ![a] = Fail(@)],
           tries' = [tries EXCEPT ![a] = @ \cup {NewFailure(@)}],
           UNCHANGED clock
    PROVE /\ guard' \in [Accounts -> GuardRow] /\ tries' \in [Accounts -> SUBSET Failure]
          /\ GuardCounts(a)'
<1>1. /\ GuardCounts(a) /\ clock \in Nat /\ tries[a] \subseteq Failure /\ IsFiniteSet(tries[a])
      /\ IdentityTypeOK
    BY DEF IdentityInv, GuardsCount, GuardCounts, IdentityTypeOK
<1>2. /\ Recent(guard[a]) = RecentTries(a)
      /\ IsFiniteSet(RecentTries(a)) /\ Cardinality(RecentTries(a)) \in Nat
      /\ Cardinality(RecentTries(a)) < LockFailures
      /\ NewFailure(Recent(guard[a])) = NewFailure(tries[a])
    BY UnlockedIs
<1>3. PICK new : new = NewFailure(tries[a])
    OBVIOUS
<1>4. new \in Failure /\ new.at = clock
    BY <1>1, <1>3, NewFailureIs
<1>5. PICK failures : failures = RecentTries(a) \cup {new}
    OBVIOUS
<1>6. IsFiniteSet(failures) /\ Cardinality(failures) \in Nat /\ Cardinality(failures) <= LockFailures
  <2>1. /\ IsFiniteSet(failures)
        /\ Cardinality(failures) = IF new \in RecentTries(a) THEN Cardinality(RecentTries(a))
                                   ELSE Cardinality(RecentTries(a)) + 1
      BY <1>2, <1>5, FS_AddElement
  <2> QED
      BY <1>2, <2>1, IdentityAssumption
<1>7. PICK until : until = IF Cardinality(failures) >= LockFailures THEN clock + LockDuration ELSE 0
    OBVIOUS
<1>8. guard'[a] = [failures |-> failures, lockedUntil |-> until] /\ tries'[a] = tries[a] \cup {new}
  <2>1. guard'[a] = Fail(guard[a]) /\ tries'[a] = tries[a] \cup {NewFailure(tries[a])}
      BY DEF IdentityInv, IdentityTypeOK
  <2> QED
      BY <1>2, <1>3, <1>5, <1>7, <2>1 DEF Fail
<1>9. until \in Nat /\ (until = 0 => Cardinality(failures) < LockFailures)
      /\ (until # 0 => until = clock + LockDuration)
    BY <1>1, <1>6, <1>7, IdentityAssumption
<1>10. guard' \in [Accounts -> GuardRow] /\ tries' \in [Accounts -> SUBSET Failure]
  <2>1. RecentTries(a) \subseteq Failure
      BY <1>1 DEF RecentTries
  <2>2. guard'[a] \in GuardRow /\ tries'[a] \in SUBSET Failure
      BY <1>1, <1>4, <1>5, <1>8, <1>9, <2>1 DEF GuardRow
  <2> QED
      BY <1>1, <2>2 DEF IdentityTypeOK
<1>11. \A f \in tries[a] : f.at \in Nat /\ f.at <= clock
    BY <1>1 DEF GuardCounts, Failure
<1>12. RecentTries(a)' = failures
    BY <1>1, <1>4, <1>5, <1>8, <1>11, IdentityAssumption DEF RecentTries
<1>13. until = 0 => Recent(guard[a])' = failures
  <2>1. \A f \in failures : f.at + LockDuration > clock
      BY <1>1, <1>4, <1>5, IdentityAssumption DEF RecentTries
  <2> QED
      BY <1>8, <2>1 DEF Recent
<1>14. until # 0 => \A f \in tries'[a] : f.at + LockDuration <= until
    BY <1>1, <1>4, <1>8, <1>9, <1>11, IdentityAssumption
<1>15. ASSUME NEW from \in Nat PROVE Cardinality(Window(a, from)') <= LockFailures
  <2>1. CASE from <= clock /\ clock < from + LockDuration
    <3>1. Window(a, from)' \subseteq failures
        BY <1>1, <1>5, <1>8, <1>11, <2>1, IdentityAssumption DEF Window, RecentTries
    <3>2. Cardinality(Window(a, from)') <= Cardinality(failures) /\ Cardinality(Window(a, from)') \in Nat
        BY <1>6, <3>1, FS_Subset, FS_CardinalityType
    <3> QED
        BY <1>6, <3>2, IdentityAssumption
  <2>2. CASE ~(from <= clock /\ clock < from + LockDuration)
    <3>1. Window(a, from)' = Window(a, from)
        BY <1>4, <1>8, <2>2 DEF Window
    <3> QED
        BY <1>1, <3>1 DEF GuardCounts
  <2> QED
      BY <2>1, <2>2
<1>16. IsFiniteSet(tries'[a]) /\ \A f \in tries'[a] : f.at <= clock
    BY <1>1, <1>4, <1>8, <1>11, FS_AddElement
<1> QED
    BY <1>8, <1>9, <1>10, <1>12, <1>13, <1>14, <1>15, <1>16 DEF GuardCounts

LEMMA LoginFailsKeeps ==
    ASSUME IdentityInv, NEW a \in Accounts, NEW correct \in BOOLEAN, LoginFails(a, correct)
    PROVE StepSound
<1> USE DEF IdentityInv
<1>1. /\ guard' = [guard EXCEPT ![a] = Fail(@)]
      /\ tries' = IF Locked(guard[a]) THEN tries ELSE [tries EXCEPT ![a] = @ \cup {NewFailure(@)}]
      /\ UNCHANGED <<account, session, command, clock>>
    BY DEF LoginFails
<1>2. guard' \in [Accounts -> GuardRow] /\ tries' \in [Accounts -> SUBSET Failure] /\ GuardsCount'
  <2>1. CASE Locked(guard[a])
    <3>1. Fail(guard[a]) = guard[a]
        BY <2>1 DEF Fail
    <3>2. guard' = guard /\ tries' = tries
        BY <1>1, <2>1, <3>1 DEF IdentityTypeOK
    <3> QED
        BY <1>1, <3>2, GuardsStay DEF IdentityTypeOK
  <2>2. CASE ~Locked(guard[a])
    <3>1. /\ guard' \in [Accounts -> GuardRow] /\ tries' \in [Accounts -> SUBSET Failure]
          /\ GuardCounts(a)'
        BY <1>1, <2>2, GuessCounted
    <3>2. ASSUME NEW b \in Accounts, b # a PROVE GuardCounts(b)'
      <4>1. guard'[b] = guard[b] /\ tries'[b] = tries[b]
          BY <1>1, <2>2, <3>2 DEF IdentityTypeOK
      <4> QED
          BY <1>1, <4>1 DEF GuardsCount, GuardCounts, Recent, RecentTries, Window
    <3> QED
        BY <3>1, <3>2 DEF GuardsCount
  <2> QED
      BY <2>1, <2>2
<1>3. IdentityTypeOK'
    BY <1>1, <1>2 DEF IdentityTypeOK
<1>4. AccountsGrow /\ clock \in Nat /\ clock <= clock'
    BY <1>1, GrowsByStaying DEF IdentityTypeOK
<1>5. SessionsFollow'
    BY <1>1, <1>3, <1>4, SessionKeeps DEF SessionsFollow
<1>6. CommandsHold' /\ AdminKept
    BY <1>1, CommandsStay DEF AdminKept, ActiveAdmins, Active
<1> QED
    BY <1>1, <1>2, <1>3, <1>4, <1>5, <1>6 DEF StepSound, SessionLasts

LEMMA LoginKeeps ==
    ASSUME IdentityInv, NEW a \in Accounts, NEW s \in Slots, Login(a, s)
    PROVE StepSound
<1> USE DEF IdentityInv
<1>1. /\ Known(a) /\ Free(s) /\ Moved(a, account[a])
      /\ guard' = [guard EXCEPT ![a] = NoGuard] /\ tries' = [tries EXCEPT ![a] = {}]
      /\ session' = [session EXCEPT ![s] = NewSession(a, account[a].epoch)]
      /\ UNCHANGED <<command, clock>>
    BY DEF Login
<1>2. account[a] \in AccountRow /\ account[a].epoch \in Nat
    BY DEF IdentityTypeOK, AccountRow
<1>3. /\ AccountsGrow /\ account' \in [Accounts -> AccountRow]
      /\ account'[a] = [account[a] EXCEPT !.revision = account[a].revision + 1]
      /\ \A b \in Accounts \ {a} : account'[b] = account[b]
    BY <1>1, <1>2, GrowsByMoving DEF Active
<1>4. \A b \in Accounts : /\ account'[b].role = account[b].role /\ account'[b].status = account[b].status
                          /\ account'[b].mustChange = account[b].mustChange
                          /\ account'[b].epoch = account[b].epoch
    BY <1>2, <1>3 DEF AccountRow
<1>5. clock \in Nat /\ clock <= clock' /\ NewSession(a, account[a].epoch) \in SessionRow
    BY <1>1, <1>2, NewSessionIs DEF IdentityTypeOK
<1>6. IdentityTypeOK'
  <2>1. NoGuard \in GuardRow
      BY DEF NoGuard, GuardRow
  <2> QED
      BY <1>1, <1>3, <1>5, <2>1 DEF IdentityTypeOK
<1>7. /\ session'[s] = NewSession(a, account'[a].epoch)
      /\ \A t \in Slots \ {s} : session'[t] = session[t]
    BY <1>1, <1>4 DEF IdentityTypeOK
<1>8. ASSUME NEW t \in Slots PROVE SessionFollows(t)'
  <2>1. CASE t = s
    <3>1. Known(a)'
        BY <1>1, <1>3 DEF AccountsGrow
    <3> QED
        BY <1>1, <1>6, <1>7, <2>1, <3>1, SessionOpened
  <2>2. CASE t # s
      BY <1>3, <1>5, <1>6, <1>7, <2>2, SessionKeeps DEF SessionsFollow
  <2> QED
      BY <2>1, <2>2
<1>9. ActiveAdmins' = ActiveAdmins
    BY <1>4 DEF ActiveAdmins, Active
<1>10. CommandsHold' /\ AdminKept
    BY <1>1, <1>4, <1>6, <1>9, CommandsOutlast DEF AdminKept, Open
<1>11. ASSUME NEW b \in Accounts PROVE GuardCounts(b)'
  <2>1. CASE b = a
    <3>1. guard'[a].lockedUntil = 0 /\ guard'[a].failures = {} /\ tries'[a] = {}
        BY <1>1 DEF IdentityTypeOK, NoGuard
    <3>2. Recent(guard[a])' = {} /\ RecentTries(a)' = {} /\ \A from \in Nat : Window(a, from)' = {}
        BY <3>1 DEF Recent, RecentTries, Window
    <3> QED
        BY <2>1, <3>1, <3>2, FS_EmptySet, IdentityAssumption DEF GuardCounts
  <2>2. CASE b # a
    <3>1. guard'[b] = guard[b] /\ tries'[b] = tries[b]
        BY <1>1, <2>2 DEF IdentityTypeOK
    <3> QED
        BY <1>1, <3>1 DEF GuardsCount, GuardCounts, Recent, RecentTries, Window
  <2> QED
      BY <2>1, <2>2
<1>12. ASSUME NEW t \in Slots PROVE SessionLasts(t)
    BY <1>1, <1>7 DEF SessionLasts, Free
<1> QED
    BY <1>3, <1>5, <1>6, <1>8, <1>10, <1>11, <1>12 DEF StepSound, SessionsFollow, GuardsCount

(* What was recent and is not any more leaves the guard and the guesses.      *)
LEMMA ClockTickKeeps ==
    ASSUME IdentityInv, ClockTick
    PROVE StepSound
<1> USE DEF IdentityInv
<1>1. clock' = clock + 1 /\ UNCHANGED <<account, session, guard, command, tries>>
    BY DEF ClockTick
<1>2. clock \in Nat /\ clock <= clock' /\ IdentityTypeOK'
    BY <1>1 DEF IdentityTypeOK
<1>3. AccountsGrow
    BY <1>1, GrowsByStaying
<1>4. SessionsFollow'
    BY <1>1, <1>2, <1>3, SessionKeeps DEF SessionsFollow
<1>5. CommandsHold' /\ AdminKept
    BY <1>1, CommandsStay DEF AdminKept, ActiveAdmins, Active
<1>6. ASSUME NEW a \in Accounts PROVE GuardCounts(a)'
  <2>1. GuardCounts(a) /\ tries[a] \subseteq Failure /\ guard[a].failures \subseteq Failure
      BY DEF GuardsCount, IdentityTypeOK, GuardRow
  <2>2. /\ \A f \in tries[a] : f.at \in Nat /\ f.at <= clock
        /\ \A f \in guard[a].failures : f.at \in Nat
      BY <2>1 DEF GuardCounts, Failure
  <2>3. RecentTries(a)' = {f \in RecentTries(a) : f.at + LockDuration > clock + 1}
      BY <1>1, <1>2, <2>2, IdentityAssumption DEF RecentTries
  <2>4. guard[a].lockedUntil = 0 =>
            Recent(guard[a])' = {f \in Recent(guard[a]) : f.at + LockDuration > clock + 1}
      BY <1>1, <1>2, <2>2, IdentityAssumption DEF Recent
  <2>5. guard[a].lockedUntil = 0 => Cardinality(RecentTries(a)') < LockFailures
    <3>1. SUFFICES ASSUME guard[a].lockedUntil = 0 PROVE Cardinality(RecentTries(a)') < LockFailures
        OBVIOUS
    <3>2. IsFiniteSet(RecentTries(a)) /\ RecentTries(a)' \subseteq RecentTries(a)
        BY <2>1, <2>3, FS_Subset DEF GuardCounts, RecentTries
    <3>3. Cardinality(RecentTries(a)') <= Cardinality(RecentTries(a)) /\ Cardinality(RecentTries(a)) \in Nat
          /\ Cardinality(RecentTries(a)') \in Nat
        BY <3>2, FS_Subset, FS_CardinalityType
    <3> QED
        BY <2>1, <3>1, <3>3, IdentityAssumption DEF GuardCounts
  <2>6. \A from \in Nat : Cardinality(Window(a, from)') <= LockFailures
      BY <1>1, <2>1 DEF GuardCounts, Window
  <2>7. \A f \in tries'[a] : f.at <= clock'
      BY <1>1, <1>2, <2>2
  <2> QED
      BY <1>1, <2>1, <2>3, <2>4, <2>5, <2>6, <2>7 DEF GuardCounts
<1> QED
    BY <1>1, <1>2, <1>3, <1>4, <1>5, <1>6 DEF StepSound, SessionLasts, GuardsCount

-----------------------------------------------------------------------------
(* New accounts *)

(* What an account that is new leaves as it was. *)
LEMMA InsertKeeps ==
    ASSUME IdentityInv, IdentityTypeOK', NEW a \in Accounts, NEW role \in Roles,
           NEW mustChange \in BOOLEAN, Insert(a, NewAccount(role, mustChange)),
           UNCHANGED <<guard, command, clock, tries>>
    PROVE AccountsGrow /\ CommandsHold' /\ GuardsCount' /\ AdminKept
<1> USE DEF IdentityInv
<1>1. /\ AccountsGrow /\ ~Known(a)
      /\ \A b \in Accounts \ {a} : account'[b] = account[b]
    BY GrowsByInserting
<1>2. a \notin ActiveAdmins
    BY <1>1 DEF ActiveAdmins, Active, Known, NoAccount
<1>3. ActiveAdmins \subseteq ActiveAdmins'
    BY <1>1, <1>2 DEF ActiveAdmins, Active
<1>4. \A o \in Open : account'[o].mustChange = account[o].mustChange
  <2>1. \A o \in Open : o \in ActiveAdmins
      BY DEF CommandsHold, CommandHolds, Open
  <2> QED
      BY <1>1, <1>2, <2>1 DEF Open
<1> QED
    BY <1>1, <1>3, <1>4, CommandsOutlast, GuardsStay DEF AdminKept

(* An account that an administrator makes has no session yet. *)
LEMMA InsertAloneKeeps ==
    ASSUME IdentityInv, NEW a \in Accounts, NEW role \in Roles, NEW mustChange \in BOOLEAN,
           Insert(a, NewAccount(role, mustChange)),
           UNCHANGED <<session, guard, command, clock, tries>>
    PROVE StepSound
<1> USE DEF IdentityInv
<1>1. IdentityTypeOK'
    BY GrowsByInserting DEF IdentityTypeOK
<1>2. AccountsGrow /\ CommandsHold' /\ GuardsCount' /\ AdminKept
    BY <1>1, InsertKeeps
<1>3. clock \in Nat /\ clock <= clock'
    BY DEF IdentityTypeOK
<1>4. SessionsFollow'
    BY <1>1, <1>2, <1>3, SessionKeeps DEF SessionsFollow
<1> QED
    BY <1>1, <1>2, <1>3, <1>4 DEF StepSound, SessionLasts

LEMMA BootstrapAdminKeeps ==
    ASSUME IdentityInv, NEW a \in Accounts, BootstrapAdmin(a)
    PROVE StepSound
BY InsertAloneKeeps DEF BootstrapAdmin, Roles

LEMMA CreateUserKeeps ==
    ASSUME IdentityInv, NEW actor \in Accounts, NEW a \in Accounts, NEW role \in {"admin", "producer"},
           CreateUser(actor, a, role)
    PROVE StepSound
BY InsertAloneKeeps DEF CreateUser, Roles

LEMMA RegisterKeeps ==
    ASSUME IdentityInv, NEW a \in Accounts, NEW s \in Slots, Register(a, s)
    PROVE StepSound
<1> USE DEF IdentityInv
<1>1. /\ Free(s) /\ Insert(a, NewAccount("producer", FALSE))
      /\ session' = [session EXCEPT ![s] = NewSession(a, 1)]
      /\ UNCHANGED <<guard, command, clock, tries>>
    BY DEF Register
<1>2. /\ account' \in [Accounts -> AccountRow]
      /\ account'[a] = NewAccount("producer", FALSE)
    BY <1>1, GrowsByInserting DEF Roles
<1>3. IdentityTypeOK'
  <2>1. NewSession(a, 1) \in SessionRow
      BY NewSessionIs DEF IdentityTypeOK
  <2> QED
      BY <1>1, <1>2, <2>1 DEF IdentityTypeOK
<1>4. AccountsGrow /\ CommandsHold' /\ GuardsCount' /\ AdminKept
    BY <1>1, <1>3, InsertKeeps DEF Roles
<1>5. clock \in Nat /\ clock <= clock'
    BY <1>1 DEF IdentityTypeOK
<1>6. /\ session'[s] = NewSession(a, account'[a].epoch)
      /\ \A t \in Slots \ {s} : session'[t] = session[t]
    BY <1>1, <1>2 DEF IdentityTypeOK, NewAccount
<1>7. ASSUME NEW t \in Slots PROVE SessionFollows(t)'
  <2>1. CASE t = s
    <3>1. Known(a)'
        BY <1>2 DEF Known, NewAccount, NoAccount
    <3> QED
        BY <1>1, <1>3, <1>6, <2>1, <3>1, SessionOpened
  <2>2. CASE t # s
      BY <1>3, <1>4, <1>5, <1>6, <2>2, SessionKeeps DEF SessionsFollow
  <2> QED
      BY <2>1, <2>2
<1>8. ASSUME NEW t \in Slots PROVE SessionLasts(t)
    BY <1>1, <1>6 DEF SessionLasts, Free
<1> QED
    BY <1>3, <1>4, <1>5, <1>7, <1>8 DEF StepSound, SessionsFollow

-----------------------------------------------------------------------------
(* The administrators' commands *)

(* A step that only moves a command. *)
LEMMA CommandMoves ==
    ASSUME IdentityInv, command' \in [Accounts -> CommandRow], CommandsHold',
           UNCHANGED <<account, session, guard, clock, tries>>
    PROVE StepSound
<1> USE DEF IdentityInv
<1>1. IdentityTypeOK' /\ clock \in Nat /\ clock <= clock'
    BY DEF IdentityTypeOK
<1>2. AccountsGrow
    BY GrowsByStaying
<1>3. SessionsFollow'
    BY <1>1, <1>2, SessionKeeps DEF SessionsFollow
<1>4. GuardsCount' /\ AdminKept
    BY GuardsStay DEF AdminKept, ActiveAdmins, Active
<1> QED
    BY <1>1, <1>2, <1>3, <1>4 DEF StepSound, SessionLasts

LEMMA PrepareKeeps ==
    ASSUME IdentityInv, NEW actor \in Accounts, NEW target \in Accounts, NEW role \in Roles,
           NEW kind \in {"disable", "enable", "update", "reset"}, Prepare(actor, kind, target, role)
    PROVE StepSound
<1> USE DEF IdentityInv
<1> DEFINE row == [NoCommand EXCEPT !.kind = kind, !.target = target, !.role = role,
                                    !.seen = account[target].revision, !.phase = "read"]
<1>1. /\ command[actor] = NoCommand /\ command' = [command EXCEPT ![actor] = row]
      /\ UNCHANGED <<account, session, guard, clock, tries>>
    BY DEF Prepare
<1>2. account[target].revision \in Nat
    BY DEF IdentityTypeOK, AccountRow
<1>3. row \in CommandRow /\ row.phase = "read" /\ row.target = target
    BY <1>2 DEF CommandRow, NoCommand
<1> HIDE DEF row
<1>4. /\ command' \in [Accounts -> CommandRow]
      /\ command'[actor] = row /\ \A b \in Accounts \ {actor} : command'[b] = command[b]
    BY <1>1, <1>3 DEF IdentityTypeOK
<1>5. Open' = Open
    BY <1>1, <1>3, <1>4 DEF Open, NoCommand
<1>6. ActiveAdmins' = ActiveAdmins
    BY <1>1 DEF ActiveAdmins, Active
<1>7. actor \notin Open
    BY <1>1 DEF Open, NoCommand
<1>8. CommandsHold'
  <2>1. ASSUME NEW a \in Accounts PROVE CommandHolds(a)'
      BY <1>1, <1>4, <1>5, <1>6, <1>7 DEF CommandsHold, CommandHolds
  <2>2. ASSUME NEW a \in Accounts, command'[a].phase # "none" PROVE command'[a].target \in Accounts
      BY <1>3, <1>4, <2>2 DEF CommandsHold
  <2> QED
      BY <1>5, <2>1, <2>2 DEF CommandsHold
<1> QED
    BY <1>1, <1>4, <1>8, CommandMoves

(* The organization's lock is free: this is the only command that is open.    *)
LEMMA BeginKeeps ==
    ASSUME IdentityInv, NEW actor \in Accounts, Begin(actor)
    PROVE StepSound
<1> USE DEF IdentityInv
<1>1. /\ command[actor].phase = "read" /\ Open = {} /\ CurrentAdmin(actor)
      /\ command' = [command EXCEPT ![actor].phase = "open", ![actor].admins = Cardinality(ActiveAdmins)]
      /\ UNCHANGED <<account, session, guard, clock, tries>>
    BY DEF Begin, LockOrg, OrgFree
<1>2. PICK count \in Nat : count = Cardinality(ActiveAdmins)
    BY AdminsFinite
<1>3. /\ command'[actor] = [command[actor] EXCEPT !.phase = "open", !.admins = count]
      /\ \A b \in Accounts \ {actor} : command'[b] = command[b]
      /\ command' \in [Accounts -> CommandRow]
    BY <1>1, <1>2 DEF IdentityTypeOK, CommandRow
<1>4. /\ command'[actor].phase = "open" /\ command'[actor].admins = count
      /\ command'[actor].target = command[actor].target
    BY <1>3 DEF IdentityTypeOK, CommandRow
<1>5. Open' = {actor}
    BY <1>1, <1>3, <1>4 DEF Open
<1>6. ActiveAdmins' = ActiveAdmins
    BY <1>1 DEF ActiveAdmins, Active
<1>7. actor \in ActiveAdmins /\ ~account[actor].mustChange
    BY <1>1 DEF CurrentAdmin, ActiveAdmins
<1>8. CommandsHold'
  <2>1. ASSUME NEW a \in Accounts PROVE CommandHolds(a)'
      BY <1>1, <1>2, <1>4, <1>5, <1>6, <1>7 DEF CommandHolds
  <2>2. ASSUME NEW a \in Accounts, command'[a].phase # "none" PROVE command'[a].target \in Accounts
      BY <1>1, <1>3, <1>4, <2>2 DEF CommandsHold
  <2> QED
      BY <1>5, <2>1, <2>2 DEF CommandsHold
<1> QED
    BY <1>1, <1>3, <1>8, CommandMoves

(* A command that is over. *)
LEMMA CommandOver ==
    ASSUME IdentityInv, NEW actor \in Accounts, command' = [command EXCEPT ![actor] = NoCommand]
    PROVE /\ command' \in [Accounts -> CommandRow]
          /\ command'[actor] = NoCommand /\ Open' = Open \ {actor}
          /\ \A b \in Accounts \ {actor} : command'[b] = command[b]
<1>1. NoCommand \in CommandRow /\ NoCommand.phase = "none"
    BY DEF NoCommand, CommandRow, Roles
<1>2. command \in [Accounts -> CommandRow]
    BY DEF IdentityInv, IdentityTypeOK
<1>3. /\ command' \in [Accounts -> CommandRow]
      /\ command'[actor] = NoCommand
      /\ \A b \in Accounts \ {actor} : command'[b] = command[b]
    BY <1>1, <1>2
<1>4. Open' = Open \ {actor}
    BY <1>1, <1>3 DEF Open
<1> QED
    BY <1>3, <1>4

LEMMA AbandonKeeps ==
    ASSUME IdentityInv, NEW actor \in Accounts, Abandon(actor)
    PROVE StepSound
<1> USE DEF IdentityInv
<1>1. /\ command' = [command EXCEPT ![actor] = NoCommand]
      /\ UNCHANGED <<account, session, guard, clock, tries>>
    BY DEF Abandon
<1>2. /\ command' \in [Accounts -> CommandRow]
      /\ command'[actor] = NoCommand /\ Open' = Open \ {actor}
      /\ \A b \in Accounts \ {actor} : command'[b] = command[b]
    BY <1>1, CommandOver
<1>3. ActiveAdmins' = ActiveAdmins
    BY <1>1 DEF ActiveAdmins, Active
<1>4. CommandsHold'
  <2>1. ASSUME NEW a \in Accounts PROVE CommandHolds(a)'
      BY <1>1, <1>2, <1>3 DEF CommandsHold, CommandHolds
  <2>2. ASSUME NEW a \in Accounts, command'[a].phase # "none" PROVE command'[a].target \in Accounts
      BY <1>2, <2>2 DEF CommandsHold, NoCommand
  <2> QED
      BY <1>2, <2>1, <2>2 DEF CommandsHold
<1> QED
    BY <1>1, <1>2, <1>4, CommandMoves

(* The administrators were counted under the lock that is still held: if the  *)
(* account that changes was one of several, another is left.                  *)
LEMMA AnotherIsLeft ==
    ASSUME IdentityInv, NEW actor \in Open, NEW t \in Accounts, command[actor].admins > 1
    PROVE \E b \in ActiveAdmins : b # t
<1>1. actor \in Accounts
    BY DEF Open
<1>2. command[actor].admins \in Nat /\ command[actor].admins <= Cardinality(ActiveAdmins)
    BY <1>1 DEF IdentityInv, IdentityTypeOK, CommandRow, CommandsHold, CommandHolds
<1>3. SUFFICES ASSUME ActiveAdmins \subseteq {t} PROVE FALSE
    OBVIOUS
<1>4. IsFiniteSet({t}) /\ Cardinality({t}) = 1
    BY FS_Singleton
<1>5. Cardinality(ActiveAdmins) <= 1 /\ Cardinality(ActiveAdmins) \in Nat
    BY <1>3, <1>4, FS_Subset, AdminsFinite
<1> QED
    BY <1>2, <1>5

LEMMA OvertakenIs ==
    ASSUME IdentityTypeOK, NEW a \in Accounts
    PROVE /\ Overtaken(session, a) \in [Slots -> SessionRow]
          /\ \A s \in Slots : session[s] # NoSession /\ session[s].account = a =>
                Overtaken(session, a)[s] = [session[s] EXCEPT !.overtaken = TRUE]
          /\ \A s \in Slots : ~(session[s] # NoSession /\ session[s].account = a) =>
                Overtaken(session, a)[s] = session[s]
<1>1. \A s \in Slots : session[s] \in SessionRow
    BY DEF IdentityTypeOK
<1>2. \A s \in Slots : [session[s] EXCEPT !.overtaken = TRUE] \in SessionRow
    BY <1>1 DEF SessionRow
<1> QED
    BY <1>1, <1>2 DEF Overtaken

(* A command commits: the epoch tells whether the password goes with it.      *)
LEMMA CommitKeeps ==
    ASSUME IdentityInv, NEW actor \in Accounts, command[actor].phase = "open",
           NEW t \in Accounts, t = command[actor].target,
           NEW row \in AccountRow, Committed(actor, row),
           account[t].epoch <= row.epoch,
           ~Active(t) /\ row.status = "active" => account[t].epoch < row.epoch,
           t \in ActiveAdmins /\ ~(row.role = "admin" /\ row.status = "active") =>
               command[actor].admins > 1,
           \/ UNCHANGED session
           \/ session' = Overtaken(session, t) /\ account[t].epoch < row.epoch
    PROVE StepSound
<1> USE DEF IdentityInv
<1>1. /\ Moved(t, row) /\ command' = [command EXCEPT ![actor] = NoCommand]
      /\ UNCHANGED <<guard, clock, tries>>
    BY DEF Committed
<1>2. /\ AccountsGrow /\ account' \in [Accounts -> AccountRow]
      /\ account'[t] = [row EXCEPT !.revision = account[t].revision + 1]
      /\ \A b \in Accounts \ {t} : account'[b] = account[b]
    BY <1>1, GrowsByMoving
<1>3. account'[t].epoch = row.epoch /\ account'[t].role = row.role /\ account'[t].status = row.status
    BY <1>2 DEF AccountRow
<1>4. /\ command' \in [Accounts -> CommandRow]
      /\ command'[actor] = NoCommand /\ Open' = Open \ {actor}
      /\ \A b \in Accounts \ {actor} : command'[b] = command[b]
    BY <1>1, CommandOver
<1>5. actor \in Open
    BY DEF Open
<1>6. Open' = {}
    BY <1>4, <1>5 DEF CommandsHold
<1>7. CommandsHold'
  <2>1. \A a \in Accounts : CommandHolds(a)'
      BY <1>6 DEF CommandHolds
  <2>2. ASSUME NEW a \in Accounts, command'[a].phase # "none" PROVE command'[a].target \in Accounts
      BY <1>4, <2>2 DEF CommandsHold, NoCommand
  <2> QED
      BY <1>6, <2>1, <2>2 DEF CommandsHold
<1>8. AdminKept
  <2>1. CASE t \in ActiveAdmins /\ ~(row.role = "admin" /\ row.status = "active")
    <3>1. PICK b \in ActiveAdmins : b # t
        BY <1>5, <2>1, AnotherIsLeft
    <3>2. b \in ActiveAdmins'
        BY <1>2, <3>1 DEF ActiveAdmins, Active
    <3> QED
        BY <3>2 DEF AdminKept
  <2>2. CASE ~(t \in ActiveAdmins /\ ~(row.role = "admin" /\ row.status = "active"))
    <3>1. ActiveAdmins \subseteq ActiveAdmins'
        BY <1>2, <1>3, <2>2 DEF ActiveAdmins, Active
    <3> QED
        BY <3>1 DEF AdminKept
  <2> QED
      BY <2>1, <2>2
<1>9. clock \in Nat /\ clock <= clock' /\ GuardsCount'
    BY <1>1, GuardsStay DEF IdentityTypeOK
<1>10. IdentityTypeOK'
    BY <1>1, <1>2, <1>4, OvertakenIs DEF IdentityTypeOK
<1>11. ASSUME NEW s \in Slots PROVE SessionFollows(s)' /\ SessionLasts(s)
  <2>1. CASE session'[s] = session[s]
      BY <1>2, <1>9, <1>10, <2>1, SessionKeeps DEF SessionsFollow, SessionLasts
  <2>2. CASE session'[s] # session[s]
    <3>1. /\ session[s] # NoSession /\ session[s].account = t /\ account[t].epoch < row.epoch
          /\ session'[s] = [session[s] EXCEPT !.overtaken = TRUE]
        BY <2>2, OvertakenIs
    <3>2. session[s] \in SessionRow /\ SessionFollows(s)
        BY DEF IdentityTypeOK, SessionsFollow
    <3>3. /\ session'[s].account = t /\ session'[s].epoch = session[s].epoch
          /\ session'[s].last = session[s].last /\ session'[s].ends = session[s].ends
          /\ session'[s].revoked = session[s].revoked
        BY <3>1, <3>2 DEF SessionRow
    <3>4. /\ session[s].epoch \in Nat /\ account[t].epoch \in Nat /\ row.epoch \in Nat
          /\ session[s].epoch <= account[t].epoch
        BY <3>1, <3>2 DEF SessionRow, SessionFollows, IdentityTypeOK, AccountRow
    <3>5. Known(t)' /\ session'[s].last <= clock'
        BY <1>1, <1>2, <3>1, <3>2, <3>3 DEF SessionFollows, AccountsGrow
    <3> QED
        BY <1>3, <3>1, <3>3, <3>4, <3>5 DEF SessionFollows, SessionLasts
  <2> QED
      BY <2>1, <2>2
<1> QED
    BY <1>2, <1>7, <1>8, <1>9, <1>10, <1>11 DEF StepSound, SessionsFollow

(* The row a command is open on. *)
LEMMA TargetIs ==
    ASSUME IdentityInv, NEW actor \in Accounts, NEW kind, At(actor, kind)
    PROVE /\ command[actor].phase = "open" /\ command[actor].target \in Accounts
          /\ command[actor].role \in Roles /\ command[actor].admins \in Nat
          /\ Target(actor) = account[command[actor].target]
          /\ Target(actor) \in AccountRow /\ Target(actor).epoch \in Nat
<1>1. command[actor].phase = "open" /\ command[actor].target \in Accounts
    BY DEF At, IdentityInv, CommandsHold
<1>2. command[actor].role \in Roles /\ command[actor].admins \in Nat
    BY DEF IdentityInv, IdentityTypeOK, CommandRow
<1>3. Target(actor) = account[command[actor].target] /\ Target(actor) \in AccountRow
    BY <1>1 DEF Target, IdentityInv, IdentityTypeOK
<1>4. Target(actor).epoch \in Nat
    BY <1>3 DEF AccountRow
<1> QED
    BY <1>1, <1>2, <1>3, <1>4

(* The rows that are saved. *)
LEMMA DisabledIs ==
    ASSUME NEW row \in AccountRow
    PROVE Disabled(row) \in AccountRow /\ row.epoch < Disabled(row).epoch /\ Disabled(row).status = "disabled"
<1>1. PICK n \in Nat : n = row.epoch + 1
    BY DEF AccountRow
<1>2. Disabled(row) = [row EXCEPT !.status = "disabled", !.epoch = n]
    BY <1>1, Zenon DEF Disabled
<1>3. Disabled(row) \in AccountRow /\ Disabled(row).epoch = n
      /\ Disabled(row).status = "disabled"
    BY <1>2 DEF AccountRow
<1>4. row.epoch < n
    BY <1>1 DEF AccountRow
<1> QED
    BY <1>3, <1>4

LEMMA EnabledIs ==
    ASSUME NEW row \in AccountRow
    PROVE Enabled(row) \in AccountRow /\ row.epoch < Enabled(row).epoch
          /\ Enabled(row).role = row.role /\ Enabled(row).status = "active"
<1>1. PICK n \in Nat : n = row.epoch + 1
    BY DEF AccountRow
<1>2. Enabled(row) = [row EXCEPT !.status = "active", !.epoch = n]
    BY <1>1, Zenon DEF Enabled
<1>3. Enabled(row) \in AccountRow /\ Enabled(row).epoch = n
      /\ Enabled(row).role = row.role /\ Enabled(row).status = "active"
    BY <1>2 DEF AccountRow
<1>4. row.epoch < n
    BY <1>1 DEF AccountRow
<1> QED
    BY <1>3, <1>4

LEMMA ResetIs ==
    ASSUME NEW row \in AccountRow
    PROVE Reset(row) \in AccountRow /\ row.epoch < Reset(row).epoch
          /\ Reset(row).role = row.role /\ Reset(row).status = row.status
<1>1. PICK n \in Nat : n = row.epoch + 1
    BY DEF AccountRow
<1>2. Reset(row) = [row EXCEPT !.mustChange = TRUE, !.epoch = n]
    BY <1>1, Zenon DEF Reset
<1>3. Reset(row) \in AccountRow /\ Reset(row).epoch = n
      /\ Reset(row).role = row.role /\ Reset(row).status = row.status
    BY <1>2 DEF AccountRow
<1>4. row.epoch < n
    BY <1>1 DEF AccountRow
<1> QED
    BY <1>3, <1>4

LEMMA UpdatedIs ==
    ASSUME NEW row \in AccountRow, NEW role \in Roles
    PROVE Updated(row, role) \in AccountRow /\ Updated(row, role).epoch = row.epoch
          /\ Updated(row, role).role = role /\ Updated(row, role).status = row.status
BY DEF Updated, AccountRow

LEMMA DisableKeeps ==
    ASSUME IdentityInv, NEW actor \in Accounts, DisableWithEvents(actor)
    PROVE StepSound
<1> DEFINE t == command[actor].target
           row == Disabled(Target(actor))
<1>1. /\ At(actor, "disable") /\ MayDisable(Target(actor), command[actor].admins)
      /\ Committed(actor, row) /\ session' = Overtaken(session, t)
    BY DEF DisableWithEvents, DisableInTx
<1>2. /\ command[actor].phase = "open" /\ t \in Accounts /\ command[actor].admins \in Nat
      /\ Target(actor) = account[t] /\ Target(actor) \in AccountRow /\ Target(actor).epoch \in Nat
    BY <1>1, TargetIs
<1>3. row \in AccountRow /\ Target(actor).epoch < row.epoch /\ row.status = "disabled"
    BY <1>2, DisabledIs
<1>4. row.epoch \in Nat
    BY <1>3 DEF AccountRow
<1>5. t \in ActiveAdmins => command[actor].admins > 1
    BY <1>1, <1>2 DEF MayDisable, LastAdmin, ActiveAdmins, Active
<1> HIDE DEF row, t
<1> QED
    BY <1>1, <1>2, <1>3, <1>4, <1>5, CommitKeeps DEF t

LEMMA EnableKeeps ==
    ASSUME IdentityInv, NEW actor \in Accounts, EnableWithEvents(actor)
    PROVE StepSound
<1> DEFINE t == command[actor].target
           row == Enabled(Target(actor))
<1>1. /\ At(actor, "enable") /\ MayEnable(Target(actor))
      /\ Committed(actor, row) /\ UNCHANGED session
    BY DEF EnableWithEvents
<1>2. /\ command[actor].phase = "open" /\ t \in Accounts
      /\ Target(actor) = account[t] /\ Target(actor) \in AccountRow /\ Target(actor).epoch \in Nat
    BY <1>1, TargetIs
<1>3. row \in AccountRow /\ Target(actor).epoch < row.epoch
    BY <1>2, EnabledIs
<1>4. row.epoch \in Nat
    BY <1>3 DEF AccountRow
<1>5. t \notin ActiveAdmins
    BY <1>1, <1>2 DEF MayEnable, ActiveAdmins, Active
<1> HIDE DEF row, t
<1> QED
    BY <1>1, <1>2, <1>3, <1>4, <1>5, CommitKeeps DEF t

LEMMA UpdateProfileKeeps ==
    ASSUME IdentityInv, NEW actor \in Accounts, UpdateProfileWithEvents(actor)
    PROVE StepSound
<1> DEFINE t == command[actor].target
           row == Updated(Target(actor), command[actor].role)
<1>1. /\ At(actor, "update") /\ MayUpdate(Target(actor), command[actor].role, command[actor].admins)
      /\ Committed(actor, row) /\ UNCHANGED session
    BY DEF UpdateProfileWithEvents
<1>2. /\ command[actor].phase = "open" /\ t \in Accounts
      /\ command[actor].role \in Roles /\ command[actor].admins \in Nat
      /\ Target(actor) = account[t] /\ Target(actor) \in AccountRow /\ Target(actor).epoch \in Nat
    BY <1>1, TargetIs
<1>3. /\ row \in AccountRow /\ row.epoch = Target(actor).epoch
      /\ row.role = command[actor].role /\ row.status = Target(actor).status
    BY <1>2, UpdatedIs
<1>4. t \in ActiveAdmins /\ ~(row.role = "admin" /\ row.status = "active") => command[actor].admins > 1
    BY <1>1, <1>2, <1>3 DEF MayUpdate, LastAdmin, ActiveAdmins, Active
<1>5. ~(~Active(t) /\ row.status = "active")
    BY <1>2, <1>3 DEF Active
<1> HIDE DEF row, t
<1> QED
    BY <1>1, <1>2, <1>3, <1>4, <1>5, CommitKeeps DEF t

LEMMA ResetPasswordKeeps ==
    ASSUME IdentityInv, NEW actor \in Accounts, ResetPasswordWithEvents(actor)
    PROVE StepSound
<1> DEFINE t == command[actor].target
           row == Reset(Target(actor))
<1>1. At(actor, "reset") /\ Committed(actor, row) /\ session' = Overtaken(session, t)
    BY DEF ResetPasswordWithEvents
<1>2. /\ command[actor].phase = "open" /\ t \in Accounts
      /\ Target(actor) = account[t] /\ Target(actor) \in AccountRow /\ Target(actor).epoch \in Nat
    BY <1>1, TargetIs
<1>3. /\ row \in AccountRow /\ Target(actor).epoch < row.epoch
      /\ row.role = Target(actor).role /\ row.status = Target(actor).status
    BY <1>2, ResetIs
<1>4. row.epoch \in Nat
    BY <1>3 DEF AccountRow
<1>5. ~(t \in ActiveAdmins /\ ~(row.role = "admin" /\ row.status = "active"))
    BY <1>2, <1>3 DEF ActiveAdmins, Active
<1> HIDE DEF row, t
<1> QED
    BY <1>1, <1>2, <1>3, <1>4, <1>5, CommitKeeps DEF t

-----------------------------------------------------------------------------
(* Every step, and every behaviour *)

LEMMA IdentityStarts ==
    ASSUME IdentityInit
    PROVE IdentityInv
<1>1. account \in [Accounts -> AccountRow]
  <2>1. NoAccount \in AccountRow /\ NewAccount("admin", FALSE) \in AccountRow
      BY DEF AccountRow, NoAccount, NewAccount, Roles
  <2>2. \/ account = [a \in Accounts |-> NoAccount]
        \/ account = [a \in Accounts |-> NewAccount("admin", FALSE)]
      BY Zenon DEF IdentityInit, NewAccount
  <2> QED
      BY <2>1, <2>2
<1>2. session \in [Slots -> SessionRow] /\ \A s \in Slots : session[s] = NoSession
    BY DEF IdentityInit, SessionRow, NoSession
<1>3. guard \in [Accounts -> GuardRow] /\ \A a \in Accounts : guard[a] = NoGuard /\ tries[a] = {}
    BY DEF IdentityInit, GuardRow, NoGuard
<1>4. command \in [Accounts -> CommandRow] /\ \A a \in Accounts : command[a] = NoCommand
    BY DEF IdentityInit, CommandRow, NoCommand, Roles
<1>5. clock \in Nat /\ tries \in [Accounts -> SUBSET Failure]
    BY DEF IdentityInit
<1>6. IdentityTypeOK
    BY <1>1, <1>2, <1>3, <1>4, <1>5 DEF IdentityTypeOK
<1>7. SessionsFollow
    BY <1>2 DEF SessionsFollow, SessionFollows
<1>8. Open = {} /\ CommandsHold
    BY <1>4 DEF CommandsHold, CommandHolds, Open, NoCommand
<1>9. ASSUME NEW a \in Accounts PROVE GuardCounts(a)
  <2>1. guard[a].lockedUntil = 0 /\ guard[a].failures = {} /\ tries[a] = {}
      BY <1>3 DEF NoGuard
  <2>2. Recent(guard[a]) = {} /\ RecentTries(a) = {} /\ \A from \in Nat : Window(a, from) = {}
      BY <2>1 DEF Recent, RecentTries, Window
  <2> QED
      BY <2>1, <2>2, FS_EmptySet, IdentityAssumption DEF GuardCounts
<1> QED
    BY <1>6, <1>7, <1>8, <1>9 DEF IdentityInv, GuardsCount

LEMMA IdentityStepSound ==
    ASSUME IdentityInv, IdentityNext
    PROVE StepSound
<1>1. ASSUME NEW s \in Slots, Current(s) \/ Logout(s) \/ \E t \in Slots : ChangePassword(s, t)
      PROVE StepSound
    BY <1>1, CurrentKeeps, LogoutKeeps, ChangePasswordKeeps
<1>2. ASSUME NEW a \in Accounts,
             \/ \E correct \in BOOLEAN : LoginFails(a, correct)
             \/ BootstrapAdmin(a) \/ Begin(a) \/ Abandon(a)
      PROVE StepSound
    BY <1>2, LoginFailsKeeps, BootstrapAdminKeeps, BeginKeeps, AbandonKeeps
<1>3. ASSUME NEW a \in Accounts,
             \/ DisableWithEvents(a) \/ EnableWithEvents(a)
             \/ UpdateProfileWithEvents(a) \/ ResetPasswordWithEvents(a)
      PROVE StepSound
    BY <1>3, DisableKeeps, EnableKeeps, UpdateProfileKeeps, ResetPasswordKeeps
<1>4. ASSUME NEW a \in Accounts, NEW s \in Slots, Login(a, s) \/ Register(a, s)
      PROVE StepSound
    BY <1>4, LoginKeeps, RegisterKeeps
<1>5. ASSUME NEW a \in Accounts, NEW b \in Accounts, NEW role \in {"admin", "producer"},
             CreateUser(a, b, role)
      PROVE StepSound
    BY <1>5, CreateUserKeeps
<1>6. ASSUME NEW a \in Accounts, NEW b \in Accounts,
             DisableUser(a, b) \/ EnableUser(a, b) \/ ResetUserPassword(a, b)
      PROVE StepSound
    BY <1>6, PrepareKeeps DEF DisableUser, EnableUser, ResetUserPassword, Roles
<1>7. ASSUME NEW a \in Accounts, NEW b \in Accounts, NEW role \in {"admin", "producer"},
             UpdateUser(a, b, role)
      PROVE StepSound
    BY <1>7, PrepareKeeps DEF UpdateUser, Roles
<1>8. ASSUME ClockTick PROVE StepSound
    BY <1>8, ClockTickKeeps
<1> QED
    BY <1>1, <1>2, <1>3, <1>4, <1>5, <1>6, <1>7, <1>8 DEF IdentityNext

LEMMA IdentityStutters ==
    ASSUME IdentityInv, UNCHANGED identityVars
    PROVE IdentityInv'
<1> USE DEF IdentityInv, identityVars
<1>1. IdentityTypeOK'
    BY DEF IdentityTypeOK
<1>2. SessionsFollow'
    BY DEF SessionsFollow, SessionFollows, Known
<1> QED
    BY <1>1, <1>2, CommandsStay, GuardsStay

(* The rows of the accounts, of their sessions, guards and commands are well  *)
(* formed, and the facts above hold, in every state.                          *)
THEOREM IdentityTypeCorrect == IdentitySpec => []IdentityInv
<1>1. IdentityInit => IdentityInv
    BY IdentityStarts
<1>2. IdentityInv /\ [IdentityNext]_identityVars => IdentityInv'
    BY IdentityStepSound, IdentityStutters DEF StepSound
<1> QED
    BY <1>1, <1>2, PTL DEF IdentitySpec

(* A session whose password is gone is not let in: its epoch was left behind. *)
LEMMA InvIsFresh ==
    ASSUME IdentityInv
    PROVE SessionsFresh
<1>1. SUFFICES ASSUME NEW s \in Slots, Valid(s), session[s].overtaken PROVE FALSE
    BY DEF SessionsFresh
<1>2. /\ session[s] # NoSession /\ ~session[s].revoked
      /\ session[s].epoch = account[session[s].account].epoch
    BY <1>1 DEF Valid, SessionMatches
<1>3. session[s].epoch \in Nat /\ session[s].epoch < account[session[s].account].epoch
    BY <1>1, <1>2 DEF IdentityInv, SessionsFollow, SessionFollows, IdentityTypeOK, SessionRow
<1> QED
    BY <1>2, <1>3

LEMMA InvIsLimited ==
    ASSUME IdentityInv
    PROVE GuessesLimited
<1>1. \A from \in 1..MaxClock : from \in Nat
    BY IdentityAssumption
<1> QED
    BY <1>1 DEF IdentityInv, GuardsCount, GuardCounts, GuessesLimited, Window

LEMMA StepIsKept ==
    ASSUME IdentityInv, IdentityNext
    PROVE IdentityKept
<1>1. StepSound
    BY IdentityStepSound
<1>2. clock \in Nat /\ clock' \in Nat /\ clock <= clock'
    BY <1>1 DEF StepSound, IdentityInv, IdentityTypeOK
<1>3. ASSUME NEW s \in Slots, session[s] # NoSession, ~Valid(s), Valid(s)' PROVE FALSE
  <2>1. /\ session'[s].account = session[s].account /\ session'[s].epoch = session[s].epoch
        /\ session'[s].last = session[s].last /\ session'[s].ends = session[s].ends
        /\ session[s].revoked => session'[s].revoked
      BY <1>1, <1>3 DEF StepSound, SessionLasts
  <2>2. SessionFollows(s) /\ session[s] \in SessionRow
      BY DEF IdentityInv, SessionsFollow, IdentityTypeOK
  <2>3. PICK a \in Accounts : a = session[s].account
      BY <1>3, <2>2 DEF SessionFollows
  <2>4. /\ Known(a) /\ session[s].last <= clock /\ session[s].epoch <= account[a].epoch
        /\ session[s].epoch \in Nat /\ session[s].last \in Nat /\ session[s].ends \in Nat
        /\ account[a].epoch \in Nat
      BY <1>3, <2>2, <2>3 DEF SessionFollows, SessionRow, IdentityInv, IdentityTypeOK, AccountRow
  <2>5. /\ account[a].epoch <= account'[a].epoch /\ account'[a].epoch \in Nat
        /\ ~Active(a) /\ Active(a)' => account[a].epoch < account'[a].epoch
      BY <1>1, <2>4 DEF StepSound, AccountsGrow, IdentityInv, IdentityTypeOK, AccountRow
  <2>6. /\ ~session'[s].revoked /\ SessionMatches(a, session[s].epoch)'
        /\ clock' < session[s].last + IdleTime /\ clock' < session[s].ends
      BY <1>3, <2>1, <2>3 DEF Valid, SessionMatches
  <2>7. SessionMatches(a, session[s].epoch)
    <3>1. Active(a)' /\ session[s].epoch > 0 /\ session[s].epoch = account'[a].epoch
        BY <2>1, <2>6, <1>3, <2>3 DEF Valid, SessionMatches
    <3>2. Active(a) /\ session[s].epoch = account[a].epoch
        BY <2>4, <2>5, <3>1
    <3> QED
        BY <3>1, <3>2 DEF SessionMatches
  <2>8. Valid(s)
      BY <1>2, <1>3, <2>1, <2>3, <2>4, <2>6, <2>7, IdentityAssumption DEF Valid
  <2> QED
      BY <1>3, <2>8
<1>4. RefusedForEver
    BY <1>3 DEF RefusedForEver
<1>5. AdminsAct
    BY DEF AdminsAct, IdentityInv, CommandsHold, CommandHolds, Open
<1> QED
    BY <1>1, <1>4, <1>5 DEF StepSound, IdentityKept

(* Nobody is let in with a session that was opened with a password that is    *)
(* gone, guesses are limited in every stretch of time, a session that was     *)
(* refused stays so, administrators' commands are carried out by them, and    *)
(* the last administrator is never lost.                                      *)
THEOREM IdentityIsHonest == IdentitySpec => IdentityHonest
<1>1. IdentityInv => SessionsFresh /\ GuessesLimited
    BY InvIsFresh, InvIsLimited
<1>2. IdentityInv /\ [IdentityNext]_identityVars => [IdentityKept]_identityVars
    BY StepIsKept
<1> QED
    BY <1>1, <1>2, IdentityTypeCorrect, PTL DEF IdentitySpec, IdentityHonest

-----------------------------------------------------------------------------
(* The inductive invariant of an image of Codex *)

Unsent == {"claimed", "launched", "ready"}
Sent == {"turning", "saved", "imaged", "staged", "published"}
RunRow == [pc : {"none", "called", "recovering", "answered", "dead"} \cup Unsent \cup Sent, turn : {0, 1},
           answer : {"none", "not_submitted", "cancelled", "unknown", "completed"}, last : BOOLEAN]
Statuses == {"confirmed", "submitting", "unknown", "reconciling", "manual", "cancelling",
             "failed", "cancelled", "completed", "expired"}

OperationRow == [status : Statuses, cancelled : BOOLEAN, decision : BOOLEAN]
CallRow == [begun : BOOLEAN, claimed : BOOLEAN,
            state : {"none", "unknown", "not_submitted", "completed"}, receipt : {0, 1}]
StagedRow == [image : {0, 1}, manifest : {0, 1}]
FlowRow == [pc : {"submit", "begin", "waiting", "complete", "decide", "recover", "manual", "check",
                  "release", "stranded", "ended"},
            answer : {"none", "not_submitted", "cancelled", "unknown", "completed"}]

CodexTypeOK ==
    /\ operation \in OperationRow /\ providerCall \in CallRow /\ staged \in StagedRow
    /\ run \in [Executions -> RunRow] /\ flow \in FlowRow
    /\ turns \in {0, 1} /\ faults \in Nat /\ signals \in Nat

(* Only the first execution sends, and the claim shows it.                    *)
SenderHolds ==
    /\ run[2].pc \notin Unsent \cup Sent /\ (run[2].pc # "none" => providerCall.claimed)
    /\ run[1].pc \in Unsent \cup Sent => providerCall.claimed
    /\ run[1].pc \in {"none", "called"} \cup Unsent => turns = 0
    /\ run[1].pc \in Sent => turns = 1 /\ run[1].turn = 1

(* A manifest follows its image, a receipt follows both.                      *)
EvidenceHolds ==
    /\ run[1].pc \in {"staged", "published"} => staged.image = 1
    /\ run[1].pc = "published" => staged.manifest = 1
    /\ staged.manifest = 1 => staged.image = 1
    /\ providerCall.receipt = 1 <=> providerCall.state = "completed"
    /\ providerCall.receipt = 1 => staged.manifest = 1
    /\ ~providerCall.begun => providerCall.state = "none" /\ ~providerCall.claimed /\ run[1].pc = "none"

(* An answer is given once, and what it says stays true.                      *)
AnswersHold ==
    /\ \A e \in Executions :
          /\ run[e].answer # "none" => run[e].pc = "answered"
          /\ run[e].answer = "completed" => providerCall.receipt = 1
    /\ run[1].answer \in {"not_submitted", "cancelled"} => turns = 0
    /\ flow.answer \in {"not_submitted", "cancelled"} => run[1].answer = flow.answer
    /\ flow.answer = "completed" => providerCall.receipt = 1

(* While the request may still be sent the workflow waits and the operation   *)
(* is open; what ended owes nothing, or an administrator decided so.          *)
FlowHolds ==
    /\ flow.pc = "submit" => ~providerCall.begun
    /\ flow.pc \notin {"submit", "begin", "ended"} => providerCall.begun
    /\ flow.pc \in {"submit", "begin"} => run[1].pc = "none" /\ ~run[1].last
    /\ run[1].pc \in {"called"} \cup Unsent /\ ~run[1].last => flow.pc = "waiting"
    /\ flow.pc = "waiting" => operation.status = "submitting"
    /\ flow.pc = "release" => operation.decision
    /\ Terminal(operation.status) =>
          providerCall.state # "completed" /\ (~operation.decision => turns = 0)

CodexInv == CodexTypeOK /\ SenderHolds /\ EvidenceHolds /\ AnswersHold /\ FlowHolds

CodexStepSound == CodexInv' /\ CodexKept

(* One execution moves on, or is cut short when its context has ended.        *)
LEMMA GoesIs ==
    ASSUME CodexTypeOK, NEW e \in Executions, NEW pc, Goes(e, pc),
           pc \in {"called", "recovering", "dead"} \cup Unsent \cup Sent
    PROVE /\ run' \in [Executions -> RunRow]
          /\ run'[e].pc = IF run[e].last THEN "dead" ELSE pc
          /\ run'[e].turn = run[e].turn /\ run'[e].answer = run[e].answer /\ run'[e].last = run[e].last
          /\ \A d \in Executions \ {e} : run'[d] = run[d]
<1>1. run \in [Executions -> RunRow]
    BY DEF CodexTypeOK
<1>2. PICK next \in {"called", "recovering", "dead"} \cup Unsent \cup Sent : next = IF run[e].last THEN "dead" ELSE pc
    OBVIOUS
<1>3. run' = [run EXCEPT ![e].pc = next]
    BY <1>2, Zenon DEF Goes
<1>4. run'[e] = [run[e] EXCEPT !.pc = next] /\ \A d \in Executions \ {e} : run'[d] = run[d]
    BY <1>1, <1>3
<1>5. run'[e] \in RunRow
    BY <1>1, <1>4 DEF RunRow
<1>6. run' \in [Executions -> RunRow]
    BY <1>1, <1>3, <1>5
<1> QED
    BY <1>1, <1>2, <1>4, <1>6 DEF RunRow

LEMMA AnswersIs ==
    ASSUME CodexTypeOK, NEW e \in Executions,
           NEW answer \in {"not_submitted", "cancelled", "unknown", "completed"}, Answers(e, answer)
    PROVE /\ run' \in [Executions -> RunRow]
          /\ run'[e].pc = "answered" /\ run'[e].answer = answer
          /\ run'[e].turn = run[e].turn /\ run'[e].last = run[e].last
          /\ \A d \in Executions \ {e} : run'[d] = run[d]
<1>1. run \in [Executions -> RunRow]
    BY DEF CodexTypeOK
<1>2. run' = [run EXCEPT ![e].pc = "answered", ![e].answer = answer]
    BY DEF Answers
<1>3. /\ run'[e] = [run[e] EXCEPT !.pc = "answered", !.answer = answer]
      /\ \A d \in Executions \ {e} : run'[d] = run[d]
    BY <1>1, <1>2
<1>4. run'[e] \in RunRow
    BY <1>1, <1>3 DEF RunRow
<1>5. run' \in [Executions -> RunRow]
    BY <1>1, <1>2, <1>4
<1> QED
    BY <1>1, <1>3, <1>5 DEF RunRow

(* What an execution needs to have done before it moves to the given place    *)
(* or gives the answer.                                                       *)
MayGo(e, pc) ==
    /\ pc \in Unsent \cup Sent => e = 1 /\ providerCall'.claimed
    /\ e = 2 => providerCall'.claimed
    /\ e = 1 /\ pc \in {"called"} \cup Unsent => turns' = 0 /\ run[1].pc \in {"called"} \cup Unsent
    /\ pc \in Sent => turns' = 1 /\ run'[1].turn = 1
    /\ pc \in {"staged", "published"} => staged'.image = 1
    /\ pc = "published" => staged'.manifest = 1
MayAnswer(e, answer) ==
    /\ answer = "completed" => providerCall'.receipt = 1
    /\ e = 2 => providerCall'.claimed /\ turns' = turns
    /\ e = 1 /\ answer \in {"not_submitted", "cancelled"} => turns' = 0

(* What the adapter may change: a receipt follows the evidence while the      *)
(* operation is open, objects stay, and only who is ready starts a turn.      *)
EvidenceGrows ==
    /\ providerCall' \in CallRow /\ staged' \in StagedRow /\ turns' \in {0, 1} /\ faults' \in Nat
    /\ providerCall'.begun = providerCall.begun
    /\ providerCall.claimed => providerCall'.claimed
    /\ providerCall'.claimed => providerCall.begun
    /\ providerCall'.receipt = 1 <=> providerCall'.state = "completed"
    /\ providerCall.receipt = 1 => providerCall'.receipt = 1
    /\ providerCall'.receipt = 1 /\ providerCall.receipt = 0 =>
          OpenOperation /\ staged.manifest = 1 /\ providerCall.begun
    /\ ~providerCall.begun => providerCall'.state = "none"
    /\ staged.image = 1 => staged'.image = 1
    /\ staged.manifest = 1 => staged'.manifest = 1
    /\ staged'.manifest = 1 => staged'.image = 1
    /\ turns' # turns => turns' = 1 /\ run[1].pc = "ready" /\ ~run[1].last

LEMMA AdapterKept ==
    ASSUME CodexInv, AdapterOnly, EvidenceGrows
    PROVE CodexKept
<1>1. Terminal(operation.status) => turns' = turns
    BY DEF CodexInv, FlowHolds, EvidenceGrows, Terminal, Unsent
<1>2. providerCall.receipt # 0 => providerCall'.receipt = providerCall.receipt
    BY DEF CodexInv, CodexTypeOK, CallRow, EvidenceGrows
<1>3. \A object \in {"image", "manifest"} : staged[object] # 0 => staged'[object] = staged[object]
    BY DEF CodexInv, CodexTypeOK, StagedRow, EvidenceGrows
<1> QED
    BY <1>1, <1>2, <1>3 DEF CodexKept, AdapterOnly, EvidenceGrows

LEMMA GoesKeeps ==
    ASSUME CodexInv, AdapterOnly, EvidenceGrows, NEW e \in Executions, NEW pc,
           pc \in {"called", "recovering", "dead"} \cup Unsent \cup Sent,
           run[e].answer = "none", Goes(e, pc), MayGo(e, pc), turns' = turns,
           run[e].pc # "none" \/ (e = 2 /\ pc = "called")
    PROVE CodexStepSound
<1> USE DEF CodexInv
<1>1. /\ run' \in [Executions -> RunRow]
      /\ run'[e].pc = IF run[e].last THEN "dead" ELSE pc
      /\ run'[e].turn = run[e].turn /\ run'[e].answer = run[e].answer /\ run'[e].last = run[e].last
      /\ \A d \in Executions \ {e} : run'[d] = run[d]
    BY GoesIs
<1>2. CodexTypeOK'
    BY <1>1 DEF CodexTypeOK, EvidenceGrows, AdapterOnly
<1>3. SenderHolds'
    BY <1>1 DEF SenderHolds, EvidenceGrows, MayGo, Unsent, Sent, Executions
<1>4. EvidenceHolds'
    BY <1>1 DEF EvidenceHolds, EvidenceGrows, MayGo, Unsent, Sent, Executions, CodexTypeOK, CallRow
<1>5. AnswersHold'
    BY <1>1 DEF AnswersHold, EvidenceGrows, AdapterOnly, Executions
<1>6. FlowHolds'
    BY <1>1 DEF FlowHolds, EvidenceGrows, EvidenceHolds, MayGo, AdapterOnly, OpenOperation, Unsent, Sent, Executions, CodexTypeOK, CallRow
<1> QED
    BY <1>2, <1>3, <1>4, <1>5, <1>6, AdapterKept DEF CodexStepSound

LEMMA AnswersKeeps ==
    ASSUME CodexInv, AdapterOnly, EvidenceGrows, NEW e \in Executions,
           NEW answer \in {"not_submitted", "cancelled", "unknown", "completed"},
           Answers(e, answer), MayAnswer(e, answer), run[e].pc \notin {"none", "answered"}
    PROVE CodexStepSound
<1> USE DEF CodexInv
<1>1. /\ run' \in [Executions -> RunRow]
      /\ run'[e].pc = "answered" /\ run'[e].answer = answer
      /\ run'[e].turn = run[e].turn /\ run'[e].last = run[e].last
      /\ \A d \in Executions \ {e} : run'[d] = run[d]
    BY AnswersIs
<1>2. CodexTypeOK'
    BY <1>1 DEF CodexTypeOK, EvidenceGrows, AdapterOnly
<1>3. SenderHolds'
    BY <1>1 DEF SenderHolds, EvidenceGrows, MayAnswer, Unsent, Sent, Executions
<1>4. EvidenceHolds'
    BY <1>1 DEF EvidenceHolds, EvidenceGrows, Executions, CodexTypeOK, CallRow
<1>5. AnswersHold'
    BY <1>1 DEF AnswersHold, EvidenceGrows, AdapterOnly, MayAnswer, Executions, Unsent
<1>6. FlowHolds'
    BY <1>1 DEF FlowHolds, EvidenceGrows, EvidenceHolds, AdapterOnly, OpenOperation, Terminal, Unsent, Sent, Executions, CodexTypeOK, CallRow
<1> QED
    BY <1>2, <1>3, <1>4, <1>5, <1>6, AdapterKept DEF CodexStepSound

-----------------------------------------------------------------------------
(* The steps of the adapter *)

LEMMA FaultsCount ==
    ASSUME CodexTypeOK, Fault \/ UNCHANGED faults
    PROVE faults' \in Nat
BY DEF CodexTypeOK, Fault

LEMMA EvidenceStays ==
    ASSUME CodexInv, UNCHANGED <<providerCall, staged, turns>>, Fault \/ UNCHANGED faults
    PROVE EvidenceGrows
<1>1. faults' \in Nat
    BY FaultsCount DEF CodexInv
<1> QED
    BY <1>1 DEF CodexInv, CodexTypeOK, EvidenceHolds, EvidenceGrows, CallRow, StagedRow

LEMMA RedeliverKeeps ==
    ASSUME CodexInv, Redeliver
    PROVE CodexStepSound
<1>1. EvidenceGrows
    BY EvidenceStays DEF Redeliver
<1>2. MayGo(2, "called")
    BY DEF Redeliver, MayGo, CodexInv, SenderHolds, AdapterAt, Unsent, Sent
<1> QED
    BY <1>1, <1>2, GoesKeeps DEF Redeliver, AdapterAt, CodexInv, AnswersHold, Executions

LEMMA RefuseKeeps ==
    ASSUME CodexInv, Refuse
    PROVE CodexStepSound
<1>1. EvidenceGrows
    BY EvidenceStays DEF Refuse
<1>2. MayAnswer(1, "not_submitted")
    BY DEF Refuse, MayAnswer, CodexInv, SenderHolds, AdapterAt
<1> QED
    BY <1>1, <1>2, AnswersKeeps DEF Refuse, AdapterAt, Executions

LEMMA ClaimKeeps ==
    ASSUME CodexInv, NEW e \in Executions, Claim(e)
    PROVE CodexStepSound
<1>1. /\ e = 1 /\ run[1].pc = "called" /\ turns = 0 /\ run[1].answer = "none"
      /\ providerCall' = [providerCall EXCEPT !.claimed = TRUE]
      /\ AdapterOnly /\ UNCHANGED <<staged, turns>> /\ faults' \in Nat
    BY FaultsCount DEF Claim, MayClaim, AdapterAt, CodexInv, SenderHolds, AnswersHold, Executions
<1>2. /\ providerCall' \in CallRow /\ providerCall'.claimed
      /\ providerCall'.begun = providerCall.begun /\ providerCall'.state = providerCall.state
      /\ providerCall'.receipt = providerCall.receipt
    BY <1>1 DEF CodexInv, CodexTypeOK, CallRow
<1>3. EvidenceGrows
    BY <1>1, <1>2 DEF EvidenceGrows, CodexInv, CodexTypeOK, EvidenceHolds, StagedRow
<1>4. MayGo(1, "claimed") /\ MayAnswer(1, "not_submitted") /\ MayAnswer(1, "unknown")
    BY <1>1, <1>2 DEF MayGo, MayAnswer, Unsent, Sent
<1>5. CASE Goes(e, "claimed")
    BY <1>1, <1>3, <1>4, <1>5, GoesKeeps DEF Unsent
<1>6. CASE Answers(e, "not_submitted") \/ Answers(e, "unknown")
    BY <1>1, <1>3, <1>4, <1>6, AnswersKeeps
<1> QED
    BY <1>5, <1>6 DEF Claim

LEMMA NotClaimedKeeps ==
    ASSUME CodexInv, NEW e \in Executions, NotClaimed(e)
    PROVE CodexStepSound
<1>1. /\ run[e].pc = "called" /\ run[e].answer = "none" /\ (e = 2 => providerCall.claimed)
      /\ (e = 1 => turns = 0) /\ AdapterOnly /\ UNCHANGED <<providerCall, staged, turns>>
    BY DEF NotClaimed, AdapterAt, CodexInv, SenderHolds, AnswersHold, Executions
<1>2. EvidenceGrows
    BY EvidenceStays DEF NotClaimed
<1>3. CASE providerCall.receipt # 0 /\ Answers(e, "completed")
  <2>1. MayAnswer(e, "completed")
      BY <1>1, <1>3 DEF MayAnswer, CodexInv, CodexTypeOK, CallRow
  <2> QED
      BY <1>1, <1>2, <1>3, <2>1, AnswersKeeps
<1>4. CASE Goes(e, "recovering")
  <2>1. MayGo(e, "recovering")
      BY <1>1 DEF MayGo, Unsent, Sent
  <2> QED
      BY <1>1, <1>2, <1>4, <2>1, GoesKeeps
<1>5. CASE Answers(e, "cancelled") \/ Answers(e, "unknown")
  <2>1. MayAnswer(e, "cancelled") /\ MayAnswer(e, "unknown")
      BY <1>1 DEF MayAnswer
  <2> QED
      BY <1>1, <1>2, <1>5, <2>1, AnswersKeeps
<1> QED
    BY <1>3, <1>4, <1>5 DEF NotClaimed

LEMMA AdapterStepKeeps ==
    ASSUME CodexInv, NEW e \in Executions,
           NEW from \in Unsent \cup Sent, NEW next \in {"launched", "ready", "saved", "imaged"},
           NEW answer \in {"not_submitted", "unknown"}, AdapterStep(e, from, next, answer),
           from \in Unsent <=> next \in {"launched", "ready"},
           answer = "not_submitted" => from \in Unsent
    PROVE CodexStepSound
<1>1. /\ e = 1 /\ run[1].pc = from /\ run[1].answer = "none" /\ providerCall.claimed
      /\ (from \in Unsent => turns = 0) /\ (from \notin Unsent => turns = 1 /\ run[1].turn = 1)
      /\ AdapterOnly /\ UNCHANGED <<providerCall, staged, turns>>
    BY DEF AdapterStep, AdapterAt, CodexInv, SenderHolds, AnswersHold, Executions, Unsent, Sent
<1>2. EvidenceGrows
    BY EvidenceStays DEF AdapterStep
<1>3. CASE Goes(e, next)
  <2>1. run'[1].turn = run[1].turn
      BY <1>1, <1>3, GoesIs DEF CodexInv, Unsent, Sent, Executions
  <2>2. MayGo(1, next)
      BY <1>1, <2>1 DEF MayGo, Unsent, Sent
  <2> QED
      BY <1>1, <1>2, <1>3, <2>2, GoesKeeps DEF Unsent, Sent
<1>4. CASE Answers(e, answer)
  <2>1. MayAnswer(1, answer)
      BY <1>1 DEF MayAnswer
  <2> QED
      BY <1>1, <1>2, <1>4, <2>1, AnswersKeeps DEF Unsent, Sent
<1> QED
    BY <1>3, <1>4 DEF AdapterStep

LEMMA SessionStepsKeep ==
    ASSUME CodexInv, NEW e \in Executions,
           Launch(e) \/ PrepareThread(e) \/ CompletedImage(e) \/ ReadImage(e)
    PROVE CodexStepSound
<1>1. CASE Launch(e)
    BY <1>1, AdapterStepKeeps DEF Launch, Unsent, Sent
<1>2. CASE PrepareThread(e)
    BY <1>2, AdapterStepKeeps DEF PrepareThread, Unsent, Sent
<1>3. CASE CompletedImage(e)
    BY <1>3, AdapterStepKeeps DEF CompletedImage, Unsent, Sent
<1>4. CASE ReadImage(e)
    BY <1>4, AdapterStepKeeps DEF ReadImage, Unsent, Sent
<1> QED
    BY <1>1, <1>2, <1>3, <1>4

LEMMA StartTurnKeeps ==
    ASSUME CodexInv, NEW e \in Executions, StartTurn(e)
    PROVE CodexStepSound
<1>1. /\ e = 1 /\ run[1].pc = "ready" /\ ~run[1].last /\ run[1].answer = "none" /\ turns = 0
      /\ providerCall.claimed /\ AdapterOnly /\ UNCHANGED <<providerCall, staged>>
    BY DEF StartTurn, AdapterAt, CodexInv, SenderHolds, AnswersHold, Executions, Unsent, Sent
<1>2. flow.pc = "waiting" /\ operation.status = "submitting"
    BY <1>1 DEF CodexInv, FlowHolds, Unsent
<1>3. turns' \in {0, 1} /\ faults' \in Nat
    BY <1>1, FaultsCount DEF StartTurn, Undelivered, CodexInv
<1>4. EvidenceGrows
    BY <1>1, <1>3 DEF EvidenceGrows, CodexInv, CodexTypeOK, EvidenceHolds, CallRow, StagedRow
<1>5. CASE Undelivered(e)
  <2>1. MayAnswer(1, "unknown")
      BY DEF MayAnswer
  <2> QED
      BY <1>1, <1>4, <1>5, <2>1, AnswersKeeps DEF Undelivered
<1>6. CASE turns' = turns + 1 /\ run' = [run EXCEPT ![e].pc = "turning", ![e].turn = turns + 1]
  <2>1. turns' = 1 /\ turns + 1 = 1
      BY <1>1, <1>6
  <2>2. run' = [run EXCEPT ![1].pc = "turning", ![1].turn = 1]
      BY <1>1, <1>6, <2>1, Zenon
  <2>3. run \in [Executions -> RunRow] /\ 1 \in Executions
      BY DEF CodexInv, CodexTypeOK, Executions
  <2>4. run'[1] = [run[1] EXCEPT !.pc = "turning", !.turn = 1] /\ run'[2] = run[2]
      BY <2>2, <2>3 DEF Executions
  <2>5. /\ run'[1].pc = "turning" /\ run'[1].turn = 1 /\ run'[1].answer = "none"
        /\ run'[1].last = run[1].last /\ run'[1] \in RunRow
    <3>1. run[1] \in RunRow
        BY <2>3
    <3>2. [run[1] EXCEPT !.pc = "turning", !.turn = 1] \in RunRow
        BY <3>1 DEF RunRow, Sent
    <3> QED
        BY <1>1, <2>4, <3>1, <3>2 DEF RunRow
  <2>6. run' \in [Executions -> RunRow]
      BY <2>2, <2>3, <2>5
  <2>7. CodexTypeOK'
      BY <1>1, <1>3, <2>6 DEF CodexInv, CodexTypeOK, AdapterOnly
  <2>8. SenderHolds'
      BY <1>1, <2>1, <2>4, <2>5 DEF CodexInv, SenderHolds, Unsent, Sent
  <2>9. EvidenceHolds'
      BY <1>1, <2>5 DEF CodexInv, EvidenceHolds
  <2>10. AnswersHold'
    <3>1. ASSUME NEW d \in Executions
          PROVE run'[d].answer # "none" => run'[d].pc = "answered" /\ (run'[d].answer = "completed" => providerCall'.receipt = 1)
      <4>1. CASE d = 1
          BY <2>5, <4>1
      <4>2. CASE d = 2
        <5>1. run'[d] = run[d]
            BY <2>4, <4>2
        <5>2. run[d].answer # "none" => run[d].pc = "answered" /\ (run[d].answer = "completed" => providerCall.receipt = 1)
            BY DEF CodexInv, AnswersHold
        <5> QED
            BY <1>1, <5>1, <5>2
      <4> QED
          BY <4>1, <4>2 DEF Executions
    <3> QED
        BY <1>1, <2>5, <3>1 DEF CodexInv, AnswersHold, AdapterOnly
  <2>11. FlowHolds'
      BY <1>1, <1>2, <2>5 DEF CodexInv, FlowHolds, EvidenceHolds, AdapterOnly, Terminal, Unsent
  <2> QED
      BY <1>1, <1>4, <2>7, <2>8, <2>9, <2>10, <2>11, AdapterKept DEF CodexStepSound, CodexInv
<1> QED
    BY <1>5, <1>6 DEF StartTurn

LEMMA PutKeeps ==
    ASSUME CodexInv, NEW e \in Executions, NEW object \in {"image", "manifest"},
           NEW next \in {"staged", "published"}, Put(e, object, next),
           AdapterOnly, UNCHANGED <<providerCall, turns>>,
           \/ run[e].pc = "imaged" /\ object = "image" /\ next = "staged"
           \/ run[e].pc = "staged" /\ object = "manifest" /\ next = "published"
    PROVE CodexStepSound
<1>1. /\ e = 1 /\ run[1].pc \in {"imaged", "staged"} /\ run[1].answer = "none"
      /\ turns = 1 /\ run[1].turn = 1 /\ providerCall.claimed
    BY DEF CodexInv, SenderHolds, AnswersHold, Executions, Unsent, Sent
<1>2. /\ staged \in StagedRow /\ staged[object] \in {0, 1} /\ faults' \in Nat
    BY FaultsCount DEF CodexInv, CodexTypeOK, StagedRow, Put, Fault
<1>3. staged' = staged \/ staged' = [staged EXCEPT ![object] = 1]
    BY <1>1, <1>2 DEF Put, Holds
<1>4. /\ staged' \in StagedRow /\ (staged.image = 1 => staged'.image = 1)
      /\ (staged.manifest = 1 => staged'.manifest = 1)
      /\ (staged'.manifest = 1 => staged.manifest = 1 \/ object = "manifest")
    BY <1>2, <1>3 DEF StagedRow
<1>5. object = "manifest" => staged.image = 1
    BY <1>1 DEF CodexInv, EvidenceHolds
<1>6. EvidenceGrows
    BY <1>2, <1>4, <1>5 DEF EvidenceGrows, CodexInv, CodexTypeOK, EvidenceHolds, CallRow
<1>7. CASE Answers(e, "unknown")
  <2>1. MayAnswer(1, "unknown")
      BY DEF MayAnswer
  <2> QED
      BY <1>1, <1>6, <1>7, <2>1, AnswersKeeps
<1>8. CASE staged' = [staged EXCEPT ![object] = run[e].turn] /\ Goes(e, next)
  <2>1. staged'[object] = 1
      BY <1>1, <1>2, <1>8 DEF StagedRow
  <2>2. run'[1].turn = run[1].turn
      BY <1>1, <1>8, GoesIs DEF CodexInv, Sent, Executions
  <2>3. MayGo(1, next)
      BY <1>1, <1>4, <1>5, <2>1, <2>2 DEF MayGo, Unsent, Sent
  <2> QED
      BY <1>1, <1>6, <1>8, <2>3, GoesKeeps DEF Sent
<1> QED
    BY <1>7, <1>8 DEF Put

LEMMA StagingKeeps ==
    ASSUME CodexInv, NEW e \in Executions, StageImage(e) \/ Publish(e)
    PROVE CodexStepSound
BY PutKeeps DEF StageImage, Publish, AdapterAt

(* A receipt is recorded only for a manifest that is stored.                  *)
LEMMA RecordKeeps ==
    ASSUME CodexInv, NEW e \in Executions, Record(e, 1), staged.manifest = 1,
           run[e].pc \notin {"none", "answered"}, AdapterOnly, UNCHANGED <<staged, turns>>
    PROVE CodexStepSound
<1>1. /\ run[e].answer = "none" /\ (e = 2 => providerCall.claimed) /\ faults' \in Nat
    BY FaultsCount DEF CodexInv, SenderHolds, AnswersHold, Record, Fault, Executions
<1>2. ASSUME Accepts("completed", 1), Save("completed", 1)
      PROVE EvidenceGrows /\ providerCall'.receipt = 1
  <2>1. /\ providerCall' \in CallRow /\ providerCall'.receipt = 1 /\ providerCall'.state = "completed"
        /\ providerCall'.begun = providerCall.begun /\ providerCall'.claimed = providerCall.claimed
      BY <1>2 DEF Save, CodexInv, CodexTypeOK, CallRow
  <2>2. providerCall.claimed /\ providerCall.begun /\ (providerCall.receipt = 0 => OpenOperation)
      BY <1>2 DEF Accepts, Repeated, CodexInv, EvidenceHolds
  <2> QED
      BY <1>1, <2>1, <2>2 DEF EvidenceGrows, CodexInv, CodexTypeOK, EvidenceHolds, StagedRow
<1>3. CASE Answers(e, "completed") /\ Accepts("completed", 1) /\ Save("completed", 1)
  <2>1. MayAnswer(e, "completed")
      BY <1>1, <1>2, <1>3 DEF MayAnswer, EvidenceGrows
  <2> QED
      BY <1>2, <1>3, <2>1, AnswersKeeps
<1>4. CASE Answers(e, "unknown")
  <2>1. EvidenceGrows
      BY <1>2, EvidenceStays DEF Record
  <2>2. MayAnswer(e, "unknown")
      BY <1>1, <2>1 DEF MayAnswer, EvidenceGrows
  <2> QED
      BY <1>4, <2>1, <2>2, AnswersKeeps
<1> QED
    BY <1>3, <1>4 DEF Record

LEMMA RecordReceiptKeeps ==
    ASSUME CodexInv, NEW e \in Executions, RecordReceipt(e)
    PROVE CodexStepSound
<1>1. e = 1 /\ run[1].pc = "published" /\ run[1].turn = 1 /\ staged.manifest = 1
    BY DEF RecordReceipt, AdapterAt, CodexInv, SenderHolds, EvidenceHolds, Executions, Unsent, Sent
<1> QED
    BY <1>1, RecordKeeps DEF RecordReceipt

LEMMA RecoverKeeps ==
    ASSUME CodexInv, NEW e \in Executions, Recover(e)
    PROVE CodexStepSound
<1>1. run[e].pc = "recovering" /\ (e = 2 => providerCall.claimed)
    BY DEF Recover, AdapterAt, CodexInv, SenderHolds, Executions
<1>2. CASE Recoverable
  <2>1. Manifest = 1 /\ staged.manifest = 1
      BY <1>2 DEF Recoverable, Manifest, CodexInv, CodexTypeOK, StagedRow
  <2> QED
      BY <1>1, <1>2, <2>1, RecordKeeps DEF Recover
<1>3. CASE ~Recoverable
  <2>1. EvidenceGrows
      BY <1>3, EvidenceStays DEF Recover
  <2>2. MayAnswer(e, "unknown")
      BY <1>1, <2>1 DEF MayAnswer, EvidenceGrows, Recover
  <2> QED
      BY <1>1, <1>3, <2>1, <2>2, AnswersKeeps DEF Recover
<1> QED
    BY <1>2, <1>3

LEMMA DieKeeps ==
    ASSUME CodexInv, NEW e \in Executions, Die(e)
    PROVE CodexStepSound
<1>1. run[e].answer = "none" /\ (e = 2 => providerCall.claimed)
    BY DEF Die, CodexInv, AnswersHold, SenderHolds, Executions
<1>2. EvidenceGrows
    BY EvidenceStays DEF Die
<1>3. MayGo(e, "dead")
    BY <1>1 DEF MayGo, Die, Unsent, Sent
<1> QED
    BY <1>1, <1>2, <1>3, GoesKeeps DEF Die

-----------------------------------------------------------------------------
(* The steps of the workflow, the user and the administrator *)

(* What such a step may change while the adapter rests.                       *)
FlowMoves ==
    /\ UNCHANGED <<staged, run, turns>> /\ faults' \in Nat /\ signals' \in Nat
    /\ operation' \in OperationRow /\ flow' \in FlowRow /\ providerCall' \in CallRow
    /\ providerCall'.claimed = providerCall.claimed /\ providerCall'.begun = providerCall.begun
    /\ providerCall.receipt = 1 => providerCall'.receipt = 1
    /\ providerCall'.receipt = 1 <=> providerCall'.state = "completed"
    /\ providerCall'.receipt = 1 => staged.manifest = 1
    /\ ~providerCall.begun => providerCall'.state = "none"
    /\ flow'.answer \in {"not_submitted", "cancelled"} => run[1].answer = flow'.answer
    /\ flow'.answer = "completed" => providerCall'.receipt = 1
    /\ Terminal(operation.status) => operation'.status = operation.status

LEMMA FlowMovesKeep ==
    ASSUME CodexInv, FlowMoves, FlowHolds'
    PROVE CodexStepSound
<1> USE DEF CodexInv, FlowMoves
<1>1. CodexTypeOK'
    BY DEF CodexTypeOK
<1>2. SenderHolds'
    BY DEF SenderHolds
<1>3. EvidenceHolds'
    BY DEF EvidenceHolds
<1>4. AnswersHold'
    BY DEF AnswersHold, CodexTypeOK, CallRow
<1>5. CodexKept
    BY DEF CodexKept, CodexTypeOK, CallRow
<1> QED
    BY <1>1, <1>2, <1>3, <1>4, <1>5 DEF CodexStepSound

(* The rows of the workflow and of the operation, field by field.             *)
LEMMA FlowGoesIs ==
    ASSUME CodexTypeOK, NEW pc, FlowGoes(pc),
           pc \in {"submit", "begin", "waiting", "complete", "decide", "recover", "manual", "check",
                   "release", "stranded", "ended"}
    PROVE flow' \in FlowRow /\ flow'.pc = pc /\ flow'.answer = flow.answer
BY DEF FlowGoes, CodexTypeOK, FlowRow

LEMMA TransitionIs ==
    ASSUME CodexTypeOK, NEW from, NEW to \in Statuses, Transition(from, to)
    PROVE /\ operation.status = from /\ operation' \in OperationRow /\ operation'.status = to
          /\ operation'.cancelled = operation.cancelled /\ operation'.decision = operation.decision
BY DEF Transition, CodexTypeOK, OperationRow

LEMMA SaveIs ==
    ASSUME CodexTypeOK, NEW state \in {"none", "unknown", "not_submitted", "completed"},
           NEW receipt \in {0, 1}, Save(state, receipt)
    PROVE /\ providerCall' \in CallRow /\ providerCall'.state = state /\ providerCall'.receipt = receipt
          /\ providerCall'.begun = providerCall.begun /\ providerCall'.claimed = providerCall.claimed
BY DEF Save, CodexTypeOK, CallRow

(* Such a step that leaves the call alone.                                    *)
LEMMA FlowMovesStay ==
    ASSUME CodexInv, UNCHANGED <<staged, run, turns, providerCall>>,
           faults' \in Nat, signals' \in Nat, operation' \in OperationRow,
           flow' \in FlowRow, flow'.answer = flow.answer,
           Terminal(operation.status) => operation'.status = operation.status
    PROVE FlowMoves
BY DEF FlowMoves, CodexInv, CodexTypeOK, EvidenceHolds, AnswersHold

LEMMA SubmitKeeps ==
    ASSUME CodexInv, Submit
    PROVE CodexStepSound
<1>1. /\ flow.pc = "submit" /\ operation.status = "confirmed" /\ turns = 0
      /\ ~providerCall.begun /\ providerCall.state = "none" /\ run[1].pc = "none" /\ ~run[1].last
    BY DEF Submit, FlowAt, Transition, CodexInv, FlowHolds, SenderHolds, EvidenceHolds
<1>2. /\ operation' \in OperationRow /\ flow' \in FlowRow /\ flow'.answer = flow.answer
      /\ \/ operation'.status = "submitting" /\ flow'.pc = "begin"
         \/ operation'.status = "failed" /\ flow'.pc = "ended"
    BY FlowGoesIs, TransitionIs DEF Submit, CodexInv, Statuses
<1>3. FlowMoves
    BY <1>1, <1>2, FlowMovesStay DEF Submit, FlowOnly, CodexInv, CodexTypeOK, Terminal
<1>4. FlowHolds'
    BY <1>1, <1>2 DEF Submit, FlowOnly, FlowHolds, Terminal, Unsent
<1> QED
    BY <1>3, <1>4, FlowMovesKeep

LEMMA TakeAnswerKeeps ==
    ASSUME CodexInv, TakeAnswer
    PROVE CodexStepSound
<1>1. /\ flow.pc = "waiting" /\ operation.status = "submitting" /\ run[1].pc = "answered"
      /\ run[1].answer \in {"none", "not_submitted", "cancelled", "unknown", "completed"}
    BY DEF TakeAnswer, FlowAt, AdapterAt, CodexInv, FlowHolds, CodexTypeOK, RunRow, Executions
<1>2. flow' \in FlowRow /\ flow'.pc = "complete" /\ flow'.answer = run[1].answer
    BY <1>1 DEF TakeAnswer, FlowRow
<1>3. FlowMoves
    BY <1>2 DEF TakeAnswer, FlowOnly, FlowMoves, CodexInv, CodexTypeOK, EvidenceHolds, AnswersHold, Executions
<1>4. FlowHolds'
    BY <1>1, <1>2 DEF TakeAnswer, FlowOnly, CodexInv, FlowHolds, Terminal, Unsent
<1> QED
    BY <1>3, <1>4, FlowMovesKeep

(* An answer is saved unless another one is there.                            *)
LEMMA CompleteProviderCallKeeps ==
    ASSUME CodexInv, CompleteProviderCall
    PROVE CodexStepSound
<1> DEFINE receipt == IF flow.answer = "completed" THEN providerCall.receipt ELSE 0
<1>1. /\ flow.pc = "complete" /\ UNCHANGED <<operation, run>> /\ FlowOnly /\ providerCall.begun
      /\ receipt \in {0, 1} /\ Answered \in {"none", "unknown", "not_submitted", "completed"}
      /\ Answered = "completed" <=> flow.answer = "completed"
      /\ receipt = 1 <=> flow.answer = "completed"
    BY DEF CompleteProviderCall, FlowAt, CodexInv, FlowHolds, AnswersHold, CodexTypeOK, CallRow, FlowRow, Answered
<1>2. /\ flow' \in FlowRow /\ flow'.answer = flow.answer /\ flow'.pc \in {"decide", "stranded"}
      /\ \/ Accepts(Answered, receipt) /\ Save(Answered, receipt)
         \/ UNCHANGED providerCall
    BY FlowGoesIs DEF CompleteProviderCall, CodexInv
<1> HIDE DEF receipt
<1>3. ASSUME Accepts(Answered, receipt), Save(Answered, receipt)
      PROVE /\ providerCall' \in CallRow /\ providerCall'.begun = providerCall.begun
            /\ providerCall'.claimed = providerCall.claimed
            /\ (providerCall'.receipt = 1 <=> providerCall'.state = "completed")
            /\ (providerCall'.receipt = 1 => providerCall.receipt = 1)
            /\ (providerCall.receipt = 1 => providerCall'.receipt = 1)
            /\ (providerCall.state = "completed" \/ ~Terminal(operation.status) \/ UNCHANGED providerCall.state)
  <2>1. /\ providerCall' \in CallRow /\ providerCall'.state = Answered /\ providerCall'.receipt = receipt
        /\ providerCall'.begun = providerCall.begun /\ providerCall'.claimed = providerCall.claimed
      BY <1>1, <1>3, SaveIs DEF CodexInv
  <2>2. receipt = 1 => providerCall.receipt = 1
      BY <1>1 DEF CodexInv, AnswersHold
  <2>3. providerCall.receipt = 1 => receipt = 1
      BY <1>3 DEF Accepts, Repeated, CodexInv, EvidenceHolds
  <2>4. Repeated(Answered, receipt) \/ ~Terminal(operation.status)
      BY <1>3 DEF Accepts, OpenOperation
  <2> QED
      BY <1>1, <2>1, <2>2, <2>3, <2>4 DEF Repeated
<1>4. FlowMoves
  <2>1. CASE Accepts(Answered, receipt) /\ Save(Answered, receipt)
      BY <1>1, <1>2, <1>3, <2>1 DEF FlowMoves, FlowOnly, CodexInv, CodexTypeOK, EvidenceHolds, AnswersHold
  <2>2. CASE UNCHANGED providerCall
      BY <1>1, <1>2, <2>2, FlowMovesStay DEF FlowOnly, CodexInv, CodexTypeOK
  <2> QED
      BY <1>2, <2>1, <2>2
<1>5. Terminal(operation.status) => providerCall'.state # "completed"
    BY <1>2, <1>3, <1>4 DEF CodexInv, FlowHolds, FlowMoves, EvidenceHolds
<1>6. FlowHolds'
    BY <1>1, <1>2, <1>4, <1>5 DEF FlowOnly, FlowMoves, CodexInv, FlowHolds, Terminal, Unsent
<1> QED
    BY <1>4, <1>6, FlowMovesKeep

(* The workflow ends an operation with nothing owed.                          *)
LEMMA NotSubmittedKeeps ==
    ASSUME CodexInv, NotSubmitted
    PROVE CodexStepSound
<1>1. /\ flow.pc = "decide" /\ turns = 0 /\ providerCall.begun /\ providerCall.state # "completed"
    BY DEF NotSubmitted, FlowAt, Settle, NothingOwed, CodexInv, AnswersHold, FlowHolds
<1>2. /\ operation.status = "submitting" /\ operation' \in OperationRow /\ operation'.status = "failed"
      /\ flow' \in FlowRow /\ flow'.answer = flow.answer /\ flow'.pc = "ended"
    BY FlowGoesIs, TransitionIs DEF NotSubmitted, Settle, CodexInv, Statuses
<1>3. FlowMoves
    BY <1>2, FlowMovesStay DEF NotSubmitted, FlowOnly, CodexInv, CodexTypeOK, Terminal
<1>4. FlowHolds'
    BY <1>1, <1>2 DEF NotSubmitted, FlowOnly, CodexInv, FlowHolds, Terminal, Unsent
<1> QED
    BY <1>3, <1>4, FlowMovesKeep

LEMMA CancelledBeforeDispatchKeeps ==
    ASSUME CodexInv, CancelledBeforeDispatch
    PROVE CodexStepSound
<1>1. /\ flow.pc = "decide" /\ turns = 0 /\ providerCall.begun /\ operation.status \in {"submitting", "cancelling"}
    BY DEF CancelledBeforeDispatch, FlowAt, Settle, Transition, CodexInv, AnswersHold, FlowHolds
<1>2. /\ operation' \in OperationRow /\ flow' \in FlowRow /\ flow'.answer = flow.answer
      /\ \/ operation'.status = "cancelling" /\ flow'.pc = "decide"
         \/ operation'.status = "cancelled" /\ flow'.pc = "ended" /\ providerCall.state # "completed"
  <2>1. CASE Transition("submitting", "cancelling") /\ UNCHANGED flow
      BY <1>1, <2>1, TransitionIs DEF CodexInv, CodexTypeOK, Statuses
  <2>2. CASE Settle("cancelling", "cancelled") /\ FlowGoes("ended")
      BY <1>1, <2>2, FlowGoesIs, TransitionIs DEF Settle, NothingOwed, CodexInv, Statuses
  <2> QED
      BY <2>1, <2>2 DEF CancelledBeforeDispatch
<1>3. FlowMoves
    BY <1>1, <1>2, FlowMovesStay DEF CancelledBeforeDispatch, FlowOnly, CodexInv, CodexTypeOK, Terminal
<1>4. FlowHolds'
    BY <1>1, <1>2 DEF CancelledBeforeDispatch, FlowOnly, CodexInv, FlowHolds, Terminal, Unsent
<1> QED
    BY <1>3, <1>4, FlowMovesKeep

LEMMA UnsettledKeeps ==
    ASSUME CodexInv, Unsettled
    PROVE CodexStepSound
<1>1. /\ flow.pc = "decide" /\ providerCall.begun /\ operation.status \in {"submitting", "unknown"}
    BY DEF Unsettled, FlowAt, Transition, CodexInv, FlowHolds
<1>2. /\ operation' \in OperationRow /\ operation'.status \in {"unknown", "reconciling"}
      /\ flow' \in FlowRow /\ flow'.answer = flow.answer /\ flow'.pc \in {"decide", "recover"}
  <2>1. CASE Transition("submitting", "unknown") /\ UNCHANGED flow
      BY <1>1, <2>1, TransitionIs DEF CodexInv, CodexTypeOK, Statuses
  <2>2. CASE Transition("unknown", "reconciling") /\ FlowGoes("recover")
      BY <2>2, FlowGoesIs, TransitionIs DEF CodexInv, Statuses
  <2> QED
      BY <2>1, <2>2 DEF Unsettled
<1>3. FlowMoves
    BY <1>1, <1>2, FlowMovesStay DEF Unsettled, FlowOnly, CodexInv, CodexTypeOK, Terminal
<1>4. FlowHolds'
    BY <1>1, <1>2 DEF Unsettled, FlowOnly, CodexInv, FlowHolds, Terminal, Unsent
<1> QED
    BY <1>3, <1>4, FlowMovesKeep

LEMMA RecoverProviderImageKeeps ==
    ASSUME CodexInv, RecoverProviderImage
    PROVE CodexStepSound
<1>1. /\ flow.pc = "recover" /\ providerCall.begun /\ FlowOnly /\ UNCHANGED run
      /\ operation.status \in {"reconciling", "manual"}
    BY DEF RecoverProviderImage, FlowAt, Transition, CodexInv, FlowHolds
<1>2. operation' \in OperationRow /\ operation'.status = "manual"
  <2>1. CASE Transition("reconciling", "manual")
      BY <2>1, TransitionIs DEF CodexInv, Statuses
  <2>2. CASE operation.status = "manual" /\ UNCHANGED operation
      BY <2>2 DEF CodexInv, CodexTypeOK
  <2> QED
      BY <2>1, <2>2 DEF RecoverProviderImage
<1>3. flow' \in FlowRow /\ flow'.answer = flow.answer /\ flow'.pc = "manual"
    BY FlowGoesIs DEF RecoverProviderImage, CodexInv
<1>4. /\ providerCall' \in CallRow /\ providerCall'.begun = providerCall.begun
      /\ providerCall'.claimed = providerCall.claimed
      /\ (providerCall'.receipt = 1 <=> providerCall'.state = "completed")
      /\ (providerCall.receipt = 1 => providerCall'.receipt = 1)
      /\ (providerCall'.receipt = 1 => staged.manifest = 1)
  <2>1. CASE Recoverable /\ Save("completed", Manifest)
    <3>1. Manifest = 1 /\ staged.manifest = 1
        BY <2>1 DEF Recoverable, Manifest, CodexInv, CodexTypeOK, StagedRow
    <3> QED
        BY <2>1, <3>1, SaveIs DEF CodexInv
  <2>2. CASE UNCHANGED providerCall
      BY <2>2 DEF CodexInv, CodexTypeOK, EvidenceHolds
  <2> QED
      BY <2>1, <2>2 DEF RecoverProviderImage, RecoverImage
<1>5. FlowMoves
    BY <1>1, <1>2, <1>3, <1>4 DEF FlowMoves, FlowOnly, CodexInv, CodexTypeOK, AnswersHold, Terminal
<1>6. FlowHolds'
    BY <1>1, <1>2, <1>3, <1>4 DEF FlowOnly, CodexInv, FlowHolds, Terminal, Unsent
<1> QED
    BY <1>5, <1>6, FlowMovesKeep

LEMMA SignalKeeps ==
    ASSUME CodexInv, NEW outcome, Signal(outcome)
    PROVE CodexStepSound
<1>1. flow.pc = "manual" /\ providerCall.begun /\ signals' \in Nat
    BY DEF Signal, FlowAt, CodexInv, CodexTypeOK, FlowHolds
<1>2. flow' \in FlowRow /\ flow'.answer = flow.answer /\ flow'.pc \in {"recover", "check"}
    BY FlowGoesIs DEF Signal, CodexInv
<1>3. FlowMoves
    BY <1>1, <1>2, FlowMovesStay DEF Signal, CodexInv, CodexTypeOK
<1>4. FlowHolds'
    BY <1>1, <1>2 DEF Signal, CodexInv, FlowHolds, Terminal, Unsent
<1> QED
    BY <1>3, <1>4, FlowMovesKeep

LEMMA CheckManualNotExecutedKeeps ==
    ASSUME CodexInv, CheckManualNotExecuted
    PROVE CodexStepSound
<1>1. flow.pc = "check" /\ providerCall.begun
    BY DEF CheckManualNotExecuted, FlowAt, CodexInv, FlowHolds
<1>2. /\ flow' \in FlowRow /\ flow'.answer = flow.answer /\ flow'.pc \in {"release", "manual"}
      /\ (flow'.pc = "release" => operation.decision)
    BY FlowGoesIs DEF CheckManualNotExecuted, CodexInv
<1>3. FlowMoves
    BY <1>2, FlowMovesStay DEF CheckManualNotExecuted, FlowOnly, CodexInv, CodexTypeOK
<1>4. FlowHolds'
    BY <1>1, <1>2 DEF CheckManualNotExecuted, FlowOnly, CodexInv, FlowHolds, Terminal, Unsent
<1> QED
    BY <1>3, <1>4, FlowMovesKeep

(* What an administrator released was stated before, and no image is there.   *)
LEMMA ReleaseKeeps ==
    ASSUME CodexInv, Release
    PROVE CodexStepSound
<1>1. flow.pc = "release" /\ providerCall.begun /\ operation.decision
    BY DEF Release, FlowAt, CodexInv, FlowHolds
<1>2. /\ operation' \in OperationRow /\ flow' \in FlowRow /\ flow'.answer = flow.answer
      /\ \/ /\ operation.status = "manual" /\ operation'.status = "failed" /\ operation'.decision
            /\ flow'.pc = "ended" /\ providerCall.state # "completed"
         \/ UNCHANGED operation /\ flow'.pc = "manual"
  <2>1. CASE NothingOwed
      BY <1>1, <2>1, FlowGoesIs, TransitionIs DEF Release, NothingOwed, CodexInv, Statuses
  <2>2. CASE ~NothingOwed
      BY <2>2, FlowGoesIs DEF Release, CodexInv, CodexTypeOK
  <2> QED
      BY <2>1, <2>2
<1>3. FlowMoves
    BY <1>2, FlowMovesStay DEF Release, FlowOnly, CodexInv, CodexTypeOK, Terminal
<1>4. FlowHolds'
    BY <1>1, <1>2 DEF Release, FlowOnly, CodexInv, FlowHolds, Terminal, Unsent
<1> QED
    BY <1>3, <1>4, FlowMovesKeep

LEMMA RequestCancelKeeps ==
    ASSUME CodexInv, RequestCancel
    PROVE CodexStepSound
<1>1. /\ operation' \in OperationRow /\ operation'.status = operation.status
      /\ operation'.decision = operation.decision
    BY DEF RequestCancel, CodexInv, CodexTypeOK, OperationRow
<1>2. FlowMoves
    BY <1>1, FlowMovesStay DEF RequestCancel, CodexInv, CodexTypeOK
<1>3. FlowHolds'
    BY <1>1 DEF RequestCancel, CodexInv, FlowHolds, Terminal
<1> QED
    BY <1>2, <1>3, FlowMovesKeep

LEMMA RecordManualNotExecutedKeeps ==
    ASSUME CodexInv, RecordManualNotExecuted
    PROVE CodexStepSound
<1>1. /\ operation' \in OperationRow /\ operation'.status = operation.status
      /\ operation.status = "manual" /\ operation'.decision
    BY DEF RecordManualNotExecuted, CodexInv, CodexTypeOK, OperationRow
<1>2. FlowMoves
    BY <1>1, FlowMovesStay DEF RecordManualNotExecuted, CodexInv, CodexTypeOK
<1>3. FlowHolds'
    BY <1>1 DEF RecordManualNotExecuted, CodexInv, FlowHolds, Terminal
<1> QED
    BY <1>2, <1>3, FlowMovesKeep

LEMMA BeginProviderCallKeeps ==
    ASSUME CodexInv, BeginProviderCall
    PROVE CodexStepSound
<1> USE DEF CodexInv
<1>1. /\ flow.pc = "begin" /\ operation.status = "submitting" /\ run[1].pc = "none" /\ ~run[1].last
      /\ run[1].answer = "none" /\ turns = 0 /\ FlowOnly /\ UNCHANGED operation
    BY DEF BeginProviderCall, FlowAt, FlowHolds, AnswersHold, SenderHolds, Executions
<1>2. /\ providerCall' \in CallRow /\ providerCall'.begun /\ providerCall'.claimed = providerCall.claimed
      /\ providerCall'.state = providerCall.state /\ providerCall'.receipt = providerCall.receipt
    BY DEF BeginProviderCall, CodexTypeOK, CallRow
<1>3. /\ run' \in [Executions -> RunRow] /\ run'[1].pc = "called" /\ run'[1].turn = run[1].turn
      /\ run'[1].answer = "none" /\ run'[1].last = run[1].last /\ run'[2] = run[2]
    BY <1>1, GoesIs DEF BeginProviderCall, Executions
<1>4. flow' \in FlowRow /\ flow'.answer = flow.answer /\ flow'.pc = "waiting"
    BY FlowGoesIs DEF BeginProviderCall
<1>5. CodexTypeOK'
    BY <1>1, <1>2, <1>3, <1>4 DEF CodexTypeOK, FlowOnly
<1>6. SenderHolds'
    BY <1>1, <1>2, <1>3 DEF SenderHolds, FlowOnly, Unsent, Sent
<1>7. EvidenceHolds'
    BY <1>1, <1>2, <1>3 DEF EvidenceHolds, FlowOnly
<1>8. AnswersHold'
    BY <1>1, <1>2, <1>3, <1>4 DEF AnswersHold, FlowOnly, Executions
<1>9. FlowHolds'
    BY <1>1, <1>2, <1>3, <1>4 DEF FlowHolds, FlowOnly, Terminal
<1>10. CodexKept
    BY <1>1, <1>2 DEF CodexKept, FlowOnly
<1> QED
    BY <1>5, <1>6, <1>7, <1>8, <1>9, <1>10 DEF CodexStepSound

(* The context of an execution that is no longer waited for ends.             *)
LEMMA TimeOutKeeps ==
    ASSUME CodexInv, TimeOut
    PROVE CodexStepSound
<1> USE DEF CodexInv
<1>1. /\ flow.pc = "waiting" /\ operation.status = "submitting" /\ providerCall.begun
      /\ UNCHANGED <<operation, providerCall, staged, turns, signals>> /\ faults' \in Nat
    BY FaultsCount DEF TimeOut, FlowAt, FlowHolds
<1>2. /\ run' \in [Executions -> RunRow] /\ run'[1].pc = run[1].pc /\ run'[1].turn = run[1].turn
      /\ run'[1].answer = run[1].answer /\ run'[1].last /\ run'[2] = run[2]
  <2>1. run \in [Executions -> RunRow] /\ 1 \in Executions
      BY DEF CodexTypeOK, Executions
  <2>2. [run[1] EXCEPT !.last = TRUE] \in RunRow
      BY <2>1 DEF RunRow
  <2>3. run' = [run EXCEPT ![1].last = TRUE]
      BY DEF TimeOut
  <2>4. run'[1] = [run[1] EXCEPT !.last = TRUE] /\ run'[2] = run[2]
      BY <2>1, <2>3 DEF Executions
  <2>5. run' \in [Executions -> RunRow]
      BY <2>1, <2>2, <2>3
  <2> QED
      BY <2>1, <2>4, <2>5 DEF RunRow
<1>3. flow' \in FlowRow /\ flow'.answer = "unknown" /\ flow'.pc = "complete"
    BY DEF TimeOut, FlowRow
<1>4. CodexTypeOK'
    BY <1>1, <1>2, <1>3 DEF CodexTypeOK
<1>5. SenderHolds'
    BY <1>1, <1>2 DEF SenderHolds
<1>6. EvidenceHolds'
    BY <1>1, <1>2 DEF EvidenceHolds
<1>7. AnswersHold'
    BY <1>1, <1>2, <1>3 DEF AnswersHold, Executions
<1>8. FlowHolds'
    BY <1>1, <1>2, <1>3 DEF FlowHolds, Terminal
<1>9. CodexKept
    BY <1>1 DEF CodexKept
<1> QED
    BY <1>4, <1>5, <1>6, <1>7, <1>8, <1>9 DEF CodexStepSound

-----------------------------------------------------------------------------
(* Every step of Codex, and every behaviour *)

LEMMA CodexStarts ==
    ASSUME CodexInit
    PROVE CodexInv
<1>1. /\ NoRun \in RunRow /\ NoRun.pc = "none" /\ NoRun.answer = "none" /\ NoRun.last = FALSE
      /\ run = [e \in Executions |-> NoRun]
    BY DEF NoRun, RunRow, CodexInit
<1>2. run \in [Executions -> RunRow] /\ run[1] = NoRun /\ run[2] = NoRun
    BY <1>1 DEF Executions
<1>3. CodexTypeOK
    BY <1>2 DEF CodexInit, CodexTypeOK, OperationRow, Statuses, CallRow, StagedRow, FlowRow
<1>4. SenderHolds
    BY <1>1, <1>2 DEF CodexInit, SenderHolds, Unsent, Sent
<1>5. EvidenceHolds
    BY <1>1, <1>2 DEF CodexInit, EvidenceHolds
<1>6. AnswersHold
    BY <1>1, <1>2 DEF CodexInit, AnswersHold, Executions
<1>7. FlowHolds
    BY <1>1, <1>2 DEF CodexInit, FlowHolds, Terminal, Unsent
<1> QED
    BY <1>3, <1>4, <1>5, <1>6, <1>7 DEF CodexInv

LEMMA CodexStepKeeps ==
    ASSUME CodexInv, CodexNext
    PROVE CodexStepSound
<1>1. ASSUME NEW e \in Executions,
             \/ Claim(e) \/ NotClaimed(e) \/ Launch(e) \/ PrepareThread(e) \/ StartTurn(e)
             \/ CompletedImage(e) \/ ReadImage(e) \/ StageImage(e)
             \/ Publish(e) \/ RecordReceipt(e) \/ Recover(e) \/ Die(e)
      PROVE CodexStepSound
    BY <1>1, ClaimKeeps, NotClaimedKeeps, SessionStepsKeep, StartTurnKeeps, StagingKeeps,
       RecordReceiptKeeps, RecoverKeeps, DieKeeps
<1>2. CASE Redeliver \/ Refuse
    BY <1>2, RedeliverKeeps, RefuseKeeps
<1>3. CASE Submit \/ BeginProviderCall \/ TakeAnswer \/ TimeOut \/ CompleteProviderCall
    BY <1>3, SubmitKeeps, BeginProviderCallKeeps, TakeAnswerKeeps, TimeOutKeeps, CompleteProviderCallKeeps
<1>4. CASE NotSubmitted \/ CancelledBeforeDispatch \/ Unsettled \/ RecoverProviderImage
    BY <1>4, NotSubmittedKeeps, CancelledBeforeDispatchKeeps, UnsettledKeeps, RecoverProviderImageKeeps
<1>5. CASE \/ \E outcome \in {"succeeded", "not_executed"} : Signal(outcome)
           \/ CheckManualNotExecuted \/ Release \/ RequestCancel \/ RecordManualNotExecuted
    BY <1>5, SignalKeeps, CheckManualNotExecutedKeeps, ReleaseKeeps, RequestCancelKeeps,
       RecordManualNotExecutedKeeps
<1> QED
    BY <1>1, <1>2, <1>3, <1>4, <1>5 DEF CodexNext

LEMMA CodexStutters ==
    ASSUME CodexInv, UNCHANGED codexVars
    PROVE CodexInv'
BY DEF CodexInv, codexVars, CodexTypeOK, SenderHolds, EvidenceHolds, AnswersHold, FlowHolds

(* Only the first execution of a request sends it, a receipt follows its      *)
(* objects, an answer stays true and the workflow waits while the request may *)
(* still be sent, in every state.                                             *)
THEOREM CodexTypeCorrect == CodexSpec => []CodexInv
<1>1. CodexInit => CodexInv
    BY CodexStarts
<1>2. CodexInv /\ [CodexNext]_codexVars => CodexInv'
    BY CodexStepKeeps, CodexStutters DEF CodexStepSound
<1> QED
    BY <1>1, <1>2, PTL DEF CodexSpec

(* One turn at most is paid for, none when the operation ended without an     *)
(* administrator's decision, and an image that was received is never released *)
(* as not executed; claims, receipts and staged objects are kept.             *)
THEOREM CodexIsHonest == CodexSpec => CodexHonest
<1>1. CodexInv => PaidOnce /\ ReceiptHonest
    BY DEF CodexInv, CodexTypeOK, CallRow, StagedRow, EvidenceHolds, FlowHolds, PaidOnce, ReceiptHonest
<1>2. CodexInv /\ [CodexNext]_codexVars => [CodexKept]_codexVars
    BY CodexStepKeeps DEF CodexStepSound
<1> QED
    BY <1>1, <1>2, CodexTypeCorrect, PTL DEF CodexSpec, CodexHonest
=============================================================================
