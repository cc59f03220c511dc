------------------------------ MODULE Projects ------------------------------
(***************************************************************************)
(* The life of projects and of one user's folders.  Every command carries  *)
(* a key and the revision its user has read; it takes the project's row    *)
(* lock, answers from the key's receipt if there is one, and otherwise     *)
(* changes the row when the revision still is the current one.  Work of    *)
(* the other contexts is admitted under the same row lock.                 *)
(***************************************************************************)
EXTENDS Naturals, FiniteSets

CONSTANTS
    Projects,       \* identities of projects
    Folders,        \* folders of the user
    LibraryKeys,    \* idempotency keys of the user's requests
    MaxProjectRevision, \* bound: revision of a project
    MaxContent,     \* bound: revision from which no content is written any more
    MaxTime         \* bound: the clock, in units of the recovery window

ASSUME ProjectsAssumption ==
    /\ "none" \notin Projects /\ "root" \notin Folders
    /\ MaxProjectRevision \in Nat /\ MaxContent \in Nat /\ MaxTime \in Nat \ {0}

VARIABLES
    project,    \* [Projects -> row of workspace.project]
    place,      \* [Projects -> row of workspace.project_folder_placement]
    folder,     \* [Folders -> row of workspace.project_folder]
    work,       \* [Projects -> the work of the other contexts]
    copy,       \* the job that copies a project
    asked,      \* [LibraryKeys -> the request that a key was used for]
    sent,       \* keys of requests that are under way, with the time they arrived at
    receipt,    \* [LibraryKeys -> the answer that was committed, and until when it is kept]
    answers,    \* [LibraryKeys -> answers that the user got]
    clock

projectsVars == <<project, place, folder, work, copy, asked, sent, receipt, answers, clock>>

Root == "root"
NoProject == [status |-> "none", deleted |-> FALSE, revision |-> 0, purge |-> 0]
NoCopy == [source |-> "none", target |-> "none", folder |-> Root, cancel |-> FALSE]
NothingAsked == [action |-> "none"]
NoReceipt == [answer |-> NoProject, until |-> 0]
Forever == MaxTime + 1

ProjectsInit ==
    /\ \E p \in Projects :
          project = [q \in Projects |-> IF q = p THEN [NoProject EXCEPT !.status = "active",
                                                                        !.revision = 1]
                                                 ELSE NoProject]
    /\ place = [p \in Projects |-> [folder |-> Root, revision |-> 0]]
    /\ folder = [f \in Folders |-> [live |-> TRUE, revision |-> 1]]
    /\ work = [p \in Projects |-> "none"]
    /\ copy = NoCopy
    /\ asked = [k \in LibraryKeys |-> NothingAsked]
    /\ sent = {}
    /\ receipt = [k \in LibraryKeys |-> NoReceipt]
    /\ answers = [k \in LibraryKeys |-> {}]
    /\ clock = 1

Live(p) == project[p].status \in {"active", "archived"} /\ ~project[p].deleted
CanWrite(p) == project[p].status = "active" /\ ~project[p].deleted

Busy == <<work, copy>>
Filing == <<place, folder>>
Traffic == <<asked, sent, receipt, answers>>

-----------------------------------------------------------------------------
(* A request is made from what the user has read, and may be repeated. *)

Changes == {"patch", "archive", "unarchive", "delete", "restore"}

AskChange(k) ==
    \E p \in Projects, a \in Changes \cup {"defaults"} :
       /\ project[p].status \in {"active", "archived"}
       /\ asked' = [asked EXCEPT ![k] =
             [action |-> a, project |-> p, revision |-> project[p].revision]]

AskFolder(k) ==
    \/ \E p \in Projects, f \in Folders \cup {Root} :
          /\ project[p].status # "none"
          /\ asked' = [asked EXCEPT ![k] =
                [action |-> "move", project |-> p, revision |-> project[p].revision, folder |-> f,
                 placed |-> place[p].revision,
                 filed |-> IF f = Root THEN 0 ELSE folder[f].revision]]
    \/ \E f \in Folders :
          asked' = [asked EXCEPT ![k] =
                [action |-> "recycle", folder |-> f, filed |-> folder[f].revision]]

AskProject(k) ==
    AskChange(k) \/ AskFolder(k) \/ asked' = [asked EXCEPT ![k] = [action |-> "create"]]

SendChange(k) ==
    /\ \A s \in sent : s.key # k
    /\ IF asked[k] = NothingAsked THEN AskProject(k) ELSE UNCHANGED asked
    /\ sent' = sent \cup {[key |-> k, at |-> clock]}
    /\ UNCHANGED <<project, Filing, Busy, receipt, answers, clock>>

(* The answer is given, and recorded when it is the first one. *)
Answer(s, answer) ==
    /\ answers' = [answers EXCEPT ![s.key] = @ \cup {answer}]
    /\ sent' = sent \ {s}
Record(s, answer, until) ==
    /\ receipt' = [receipt EXCEPT ![s.key] = [answer |-> answer, until |-> until]]
    /\ Answer(s, answer)
Refuse(s) == sent' = sent \ {s} /\ UNCHANGED <<receipt, answers>>
Replay(s) == Answer(s, receipt[s.key].answer) /\ UNCHANGED receipt

(* Answers to changes are kept for ever, those to creations and defaults    *)
(* for a day.                                                               *)
OnRecord(k) == receipt[k] # NoReceipt /\ clock < receipt[k].until
Retention == clock + 1

-----------------------------------------------------------------------------
(* Project changes *)

(* HasInflightWork of every owner, read under the project's lock.           *)
Inflight(p) == work[p] = "running" \/ copy.source = p \/ copy.target = p

(* The clock is read again when the lock is there: a restore that waited    *)
(* for it may be late.                                                      *)
UnlockedAt(s) == s.at
LockedAt(s) == clock

Archive(p) == [project[p] EXCEPT !.status = "archived", !.revision = @ + 1]
Unarchive(p) == [project[p] EXCEPT !.status = "active", !.revision = @ + 1]
Delete(p, now) == [project[p] EXCEPT !.deleted = TRUE, !.purge = now + 1, !.revision = @ + 1]
Restore(p) == [project[p] EXCEPT !.deleted = FALSE, !.purge = 0, !.revision = @ + 1]

(* PrepareProjectChange: what a change makes of the row, if it may.         *)
Prepare(a, p, now) ==
    {row \in {[project[p] EXCEPT !.revision = @ + 1], project[p]} : a = "patch" /\ CanWrite(p)}
    \cup {row \in {Archive(p)} : a = "archive" /\ CanWrite(p) /\ ~Inflight(p)}
    \cup {row \in {Unarchive(p)} : a = "unarchive" /\ Live(p) /\ project[p].status = "archived"
                                    /\ ~Inflight(p)}
    \cup {row \in {Delete(p, now)} : a = "delete" /\ Live(p) /\ ~Inflight(p)}
    \cup {row \in {Restore(p)} : a = "restore" /\ project[p].deleted
                                  /\ project[p].status # "copying" /\ now < project[p].purge
                                  /\ ~Inflight(p)}

ApplyProjectChange(s) ==
    LET r == asked[s.key] IN
    /\ r.action \in Changes
    /\ IF OnRecord(s.key) THEN Replay(s) /\ UNCHANGED project
       ELSE LET after == IF project[r.project].revision = r.revision
                           THEN Prepare(r.action, r.project, LockedAt(s)) ELSE {} IN
            IF after = {} THEN Refuse(s) /\ UNCHANGED project
            ELSE \E row \in after :
                    /\ row.revision <= MaxProjectRevision
                    /\ project' = [project EXCEPT ![r.project] = row]
                    /\ Record(s, row, Forever)
    /\ UNCHANGED <<Filing, Busy, asked, clock>>

(* SaveModelDefaults; a project that is deleted or archived is not found    *)
(* or refused even where the answer is on record.                           *)
SaveModelDefaults(s) ==
    LET r == asked[s.key] IN
    /\ r.action = "defaults"
    /\ IF ~CanWrite(r.project) THEN Refuse(s) /\ UNCHANGED project
       ELSE IF OnRecord(s.key) THEN Replay(s) /\ UNCHANGED project
       ELSE IF project[r.project].revision # r.revision THEN Refuse(s) /\ UNCHANGED project
       ELSE LET row == [project[r.project] EXCEPT !.revision = @ + 1] IN
            /\ row.revision <= MaxProjectRevision
            /\ project' = [project EXCEPT ![r.project] = row]
            /\ Record(s, [row EXCEPT !.status = "defaults"], Retention)
    /\ UNCHANGED <<Filing, Busy, asked, clock>>

(* CreateProjectIdempotently: one project for a key in a day.               *)
Shown(k) == ~project[receipt[k].answer.of].deleted
CreateProject(s) ==
    /\ asked[s.key].action = "create"
    /\ IF OnRecord(s.key)
         THEN (IF Shown(s.key) THEN Replay(s) ELSE Refuse(s)) /\ UNCHANGED project
         ELSE \E p \in Projects :
                 /\ project[p].status = "none"
                 /\ project' = [project EXCEPT ![p] = [NoProject EXCEPT !.status = "active",
                                                                        !.revision = 1]]
                 /\ Record(s, [of |-> p], Retention)
    /\ UNCHANGED <<Filing, Busy, asked, clock>>

-----------------------------------------------------------------------------
(* Folders; the user's own commands on them are serialized by one lock.     *)

Folder(r) == folder[r.folder].live /\ folder[r.folder].revision = r.filed
Bump(f, g) == [h \in Folders |-> IF h \in {f, g} THEN [folder[h] EXCEPT !.revision = @ + 1]
                                                 ELSE folder[h]]

MoveProject(s) ==
    LET r == asked[s.key] IN
    /\ r.action = "move"
    /\ IF /\ r.folder = Root \/ Folder(r)
          /\ CanWrite(r.project) /\ project[r.project].revision = r.revision
          /\ place[r.project].revision = r.placed
         THEN IF place[r.project].folder = r.folder
                THEN Record(s, place[r.project], Forever) /\ UNCHANGED Filing
                ELSE /\ folder' = Bump(place[r.project].folder, r.folder)
                     /\ place' = [place EXCEPT ![r.project] =
                                    [folder |-> r.folder, revision |-> r.placed + 1]]
                     /\ Record(s, place'[r.project], Forever)
         ELSE Refuse(s) /\ UNCHANGED Filing
    /\ UNCHANGED project

Members(f) == {p \in Projects : place[p].folder = f}

(* All or nothing: members in the recycle bin already are locked as well,   *)
(* so that none is restored meanwhile.                                      *)
RecycleIdle(f) == \A p \in Members(f) : work[p] # "running"
MayRecycle(f) == \A p \in Members(f) :
    ~Inflight(p) /\ (project[p].deleted \/ project[p].status # "copying")

RecycleFolder(s) ==
    LET r == asked[s.key]
        f == r.folder IN
    /\ r.action = "recycle"
    /\ IF Folder(r) /\ MayRecycle(f)
         THEN /\ project' = [p \in Projects |-> IF p \in Members(f) /\ ~project[p].deleted
                                                  THEN Delete(p, LockedAt(s)) ELSE project[p]]
              /\ \A p \in Projects : project'[p].revision <= MaxProjectRevision
              /\ place' = [p \in Projects |-> IF p \in Members(f)
                             THEN [folder |-> Root, revision |-> place[p].revision + 1]
                             ELSE place[p]]
              /\ folder' = [folder EXCEPT ![f] = [live |-> FALSE, revision |-> @.revision + 1]]
              /\ Record(s, [recycled |-> {p \in Members(f) : ~project[p].deleted}], Forever)
         ELSE Refuse(s) /\ UNCHANGED <<project, Filing>>

(* Under the library's lock; what is on record is answered as it was.       *)
ChangeFolder(s) ==
    /\ asked[s.key].action \in {"move", "recycle"}
    /\ IF OnRecord(s.key) THEN Replay(s) /\ UNCHANGED <<project, Filing>>
       ELSE MoveProject(s) \/ RecycleFolder(s)
    /\ UNCHANGED <<Busy, asked, clock>>

-----------------------------------------------------------------------------
(* Work of the other contexts: every admission and every control of it      *)
(* authorizes the project for writing and holds its lock.                   *)

AuthorizeRead(p) == Live(p)
Authorize(p) == CanWrite(p)

StartWork(p) ==
    /\ work[p] = "none" /\ Authorize(p)
    /\ work' = [work EXCEPT ![p] = "running"]
    /\ UNCHANGED <<project, Filing, copy, Traffic, clock>>

EndWork(p) ==
    /\ work[p] = "running"
    /\ work' = [work EXCEPT ![p] = "none"]
    /\ UNCHANGED <<project, Filing, copy, Traffic, clock>>

(* TouchContent: each write of the project's content takes a revision.      *)
TouchContent(p) ==
    /\ CanWrite(p) /\ project[p].revision < MaxContent
    /\ project' = [project EXCEPT ![p].revision = @ + 1]
    /\ UNCHANGED <<Filing, Busy, Traffic, clock>>

(* A copy takes its source's place in the folder, and may copy an archived  *)
(* project.                                                                 *)
StartCopy(p, q) ==
    /\ copy = NoCopy /\ Live(p) /\ ~Inflight(p) /\ project[q].status = "none"
    /\ copy' = [NoCopy EXCEPT !.source = p, !.target = q, !.folder = place[p].folder]
    /\ project' = [project EXCEPT ![q] = [NoProject EXCEPT !.status = "copying", !.revision = 1]]
    /\ place' = [place EXCEPT ![q] = [folder |-> place[p].folder, revision |-> 1]]
    /\ folder' = Bump(place[p].folder, place[p].folder)
    /\ UNCHANGED <<work, Traffic, clock>>

(* verifyCopyPlacement: the target is published where it was put. *)
PlacedAsFrozen == place[copy.target] = [folder |-> copy.folder, revision |-> 1]

PublishCopy ==
    /\ copy # NoCopy /\ PlacedAsFrozen
    /\ project' = [project EXCEPT ![copy.target].status = "active"]
    /\ copy' = NoCopy
    /\ UNCHANGED <<Filing, work, Traffic, clock>>

RetireTarget ==
    /\ copy # NoCopy
    /\ project' = [project EXCEPT ![copy.target].deleted = TRUE, ![copy.target].purge = clock + 1]
    /\ copy' = NoCopy
    /\ UNCHANGED <<Filing, work, Traffic, clock>>

Tick == clock < MaxTime /\ clock' = clock + 1
        /\ UNCHANGED <<project, Filing, Busy, Traffic>>

ProjectsNext ==
    \/ \E k \in LibraryKeys : SendChange(k)
    \/ \E s \in sent : \/ ApplyProjectChange(s) \/ SaveModelDefaults(s) \/ CreateProject(s)
                       \/ ChangeFolder(s)
    \/ \E p \in Projects : StartWork(p) \/ EndWork(p) \/ TouchContent(p)
    \/ \E p, q \in Projects : StartCopy(p, q)
    \/ PublishCopy \/ RetireTarget \/ Tick

ProjectsSpec == ProjectsInit /\ [][ProjectsNext]_projectsVars

-----------------------------------------------------------------------------
(* Nothing runs in a project that is archived or in the recycle bin, and    *)
(* a project in the bin is not being copied.                                *)
QuietWhenClosed == \A p \in Projects :
    /\ project[p].deleted \/ project[p].status = "archived" => work[p] # "running"
    /\ project[p].deleted => p \notin {copy.source, copy.target}

(* A copy under way finds its target where it was put when it publishes it, *)
(* and the folder still there.                                              *)
CopyPublishable == copy # NoCopy =>
    /\ PlacedAsFrozen
    /\ copy.folder = Root \/ folder[copy.folder].live

(* No project is filed in a folder that is gone. *)
FiledInLiveFolders == \A f \in Folders : Members(f) # {} => folder[f].live

(* Whatever happened since, the answer to a change does not depend on how   *)
(* often it was asked for.                                                  *)
OneAnswer == \A k \in LibraryKeys :
    asked[k].action \in Changes \cup {"move", "recycle"} => Cardinality(answers[k]) <= 1

(* Nothing returns from the recycle bin when its time is over. *)
RestoredInTime == \A p \in Projects :
    project[p].deleted /\ ~project'[p].deleted => clock < project[p].purge

(* No work goes on in a project the library does not show, whatever the     *)
(* order of recycling, restoring, moving and the requests repeated later;   *)
(* nothing is restored after its window.                                    *)
LibraryHonest ==
    /\ [](QuietWhenClosed /\ CopyPublishable /\ FiledInLiveFolders /\ OneAnswer)
    /\ [][RestoredInTime]_projectsVars
=============================================================================
