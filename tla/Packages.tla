------------------------------ MODULE Packages ------------------------------
(***************************************************************************)
(* The import of packages into one media library.  An import admits its    *)
(* job, with every object it is going to write, before it touches the      *)
(* store; then one transaction holds the library and the job while the     *)
(* objects are written and read back, and publishes all of them.  What     *)
(* goes wrong leaves the job to a later request: the same import again, a  *)
(* reconciliation, or a cancellation that removes the objects.  The locks  *)
(* belong to the database connection: when that is lost, the request goes  *)
(* on with the object store until it notices.                              *)
(***************************************************************************)
EXTENDS Naturals, FiniteSets

CONSTANTS
    Imports,        \* keys of import requests, each with a package of its own
    Services,       \* requests that are served at a time, numbered
    Size,           \* objects of a package
    MaxRevision,    \* bound: revision of the library
    MaxRequests,    \* bound: requests
    MaxMishaps      \* bound: calls to the store and connections that fail

ASSUME PackagesAssumption ==
    /\ Services \subseteq Nat /\ Size \in Nat
    /\ MaxRevision \in Nat /\ MaxRequests \in Nat /\ MaxMishaps \in Nat

VARIABLES
    library,    \* its revision, and the packages whose items it shows
    expected,   \* [Imports -> the library revision that the import was sent with]
    package,    \* [Imports -> media.package_job]
    packed,     \* [Imports -> objects of the package that are stored]
    server,     \* [Services -> a request being served]
    lateIO,     \* operations of the store that were given up and may still happen
    doubted,    \* [Imports -> effects of operations that may have outlived the locks]
    requests, mishaps   \* numbers of them

packageVars == <<library, expected, package, packed, server, lateIO, doubted, requests, mishaps>>

NoPackage == [status |-> "none", revision |-> 0]
Free == [kind |-> "none"]
packageBounds == <<requests, mishaps>>

PackageInit ==
    /\ library = [revision |-> 1, shown |-> {}]
    /\ expected = [k \in Imports |-> 0]
    /\ package = [k \in Imports |-> NoPackage]
    /\ packed = [k \in Imports |-> {}]
    /\ server = [c \in Services |-> Free]
    /\ lateIO = {}
    /\ doubted = [k \in Imports |-> {}]
    /\ requests = 0 /\ mishaps = 0

EndService(c) == server' = [server EXCEPT ![c] = Free]
BeginService(c, row) ==
    /\ server[c] = Free
    /\ \A b \in Services : server[b] = Free => c <= b
    /\ requests < MaxRequests
    /\ requests' = requests + 1
    /\ server' = [server EXCEPT ![c] = row]

-----------------------------------------------------------------------------
(* Requests *)

(* FindPackageImport: an import that was admitted before goes on with its   *)
(* job while that is open; a first one is sent with the revision it read.   *)
ImportPackage(c, k) ==
    /\ package[k].status \in {"none", "open"}
    /\ expected' = [expected EXCEPT ![k] = IF @ = 0 THEN library.revision ELSE @]
    /\ BeginService(c, [kind |-> "import", key |-> k, seen |-> package[k].revision, held |-> FALSE,
                        stage |-> IF package[k] = NoPackage THEN "admit" ELSE "lock", next |-> 1])
    /\ UNCHANGED <<library, package, packed, lateIO, doubted, mishaps>>

(* A control is sent with the job's revision.                               *)
PackageControl(c, k, kind) ==
    /\ package[k] # NoPackage
    /\ BeginService(c, [kind |-> kind, key |-> k, seen |-> package[k].revision, held |-> FALSE,
                        stage |-> "lock", next |-> 1])
    /\ UNCHANGED <<library, expected, package, packed, lateIO, doubted, mishaps>>

(* HasInflightPackageWork *)
OpenPackages == {k \in Imports : package[k].status = "open"}

AdmitAny(k) == library.revision = expected[k]
MayAdmit(k) == library.revision = expected[k] /\ OpenPackages = {}

AdmitPackageImport(c) ==
    LET k == server[c].key IN
    /\ server[c].kind = "import" /\ server[c].stage = "admit"
    /\ \A b \in Services : server[b].kind # "none" => ~server[b].held
    /\ IF package[k] # NoPackage
       THEN server' = [server EXCEPT ![c].stage = "lock"] /\ UNCHANGED package
       ELSE IF MayAdmit(k)
       THEN /\ package' = [package EXCEPT ![k] = [status |-> "open", revision |-> 1]]
            /\ server' = [server EXCEPT ![c].stage = "lock"]
       ELSE EndService(c) /\ UNCHANGED package
    /\ UNCHANGED <<library, expected, packed, lateIO, doubted, packageBounds>>

-----------------------------------------------------------------------------
(* runPackage: under the locks of the library and the job                   *)

Cancels(c) == server[c].kind = "cancel"
Effect(c) == IF Cancels(c) THEN "remove" ELSE "write"

(* The job is read again when it is locked: a control needs the revision    *)
(* it was sent with, work needs a job that still is open.                   *)
SeenBefore(c) == server[c].kind # "import" => server[c].seen = package[server[c].key].revision
Unchanged(c) ==
    LET k == server[c].key IN
    /\ server[c].kind # "import" => server[c].seen = package[k].revision
    /\ package[k].status = "open"
Publishable(c) == Cancels(c) \/ library.revision = expected[server[c].key]

LockPackage(c) ==
    /\ server[c].kind # "none" /\ server[c].stage = "lock"
    /\ \A b \in Services : server[b].kind # "none" => ~server[b].held
    /\ IF Unchanged(c) /\ Publishable(c)
       THEN server' = [server EXCEPT ![c].stage = "work", ![c].held = TRUE]
       ELSE EndService(c)
    /\ UNCHANGED <<library, expected, package, packed, lateIO, doubted, packageBounds>>

Working(c) == server[c].kind # "none" /\ server[c].stage = "work"

(* writePackageObjects: an object that is there already is as good as one   *)
(* that was written; either way it is read back.                            *)
Written(c) == [packed EXCEPT ![server[c].key] = @ \cup {server[c].next}]
Erased(c) == [packed EXCEPT ![server[c].key] = @ \ {server[c].next}]
After(c) == IF Cancels(c) THEN Erased(c) ELSE Written(c)

(* An operation that ends without the locks may undo what others did.       *)
Doubt(c) ==
    IF server[c].held THEN doubted
    ELSE [doubted EXCEPT ![server[c].key] = @ \cup {Effect(c)}]

ObjectStep(c) ==
    /\ Working(c) /\ server[c].next <= Size
    /\ packed' = After(c)
    /\ doubted' = Doubt(c)
    /\ server' = [server EXCEPT ![c].next = @ + 1]
    /\ UNCHANGED <<library, expected, package, lateIO, packageBounds>>

(* The store does not answer: the request ends with its job open, and what  *)
(* it asked for may happen now, later or never.                             *)
Unanswered(c) ==
    /\ Working(c) /\ server[c].next <= Size /\ mishaps < MaxMishaps
    /\ mishaps' = mishaps + 1
    /\ \/ packed' = After(c) /\ doubted' = Doubt(c) /\ UNCHANGED lateIO
       \/ /\ lateIO' = lateIO \cup {[key |-> server[c].key, number |-> server[c].next,
                                  effect |-> Effect(c)]}
          /\ doubted' = [doubted EXCEPT ![server[c].key] = @ \cup {Effect(c)}]
          /\ UNCHANGED packed
       \/ UNCHANGED <<packed, lateIO, doubted>>
    /\ EndService(c)
    /\ UNCHANGED <<library, expected, package, requests>>

LateLands ==
    \E o \in lateIO :
       /\ packed' = [packed EXCEPT ![o.key] = IF o.effect = "remove" THEN @ \ {o.number}
                                                                  ELSE @ \cup {o.number}]
       /\ lateIO' = lateIO \ {o}
       /\ UNCHANGED <<library, expected, package, server, doubted, packageBounds>>

(* preparePackage: the plan that is made from the package again may differ  *)
(* from the frozen one; then nothing is written.                            *)
Mismatch(c) ==
    /\ Working(c) /\ ~Cancels(c) /\ server[c].next = 1 /\ mishaps < MaxMishaps
    /\ mishaps' = mishaps + 1
    /\ EndService(c)
    /\ UNCHANGED <<library, expected, package, packed, lateIO, doubted, requests>>

(* The connection is lost: its locks are free, the request does not know.   *)
Disconnect(c) ==
    /\ Working(c) /\ server[c].held /\ mishaps < MaxMishaps
    /\ mishaps' = mishaps + 1
    /\ server' = [server EXCEPT ![c].held = FALSE]
    /\ UNCHANGED <<library, expected, package, packed, lateIO, doubted, requests>>

ServiceDies(c) ==
    /\ server[c] # Free /\ mishaps < MaxMishaps
    /\ mishaps' = mishaps + 1
    /\ EndService(c)
    /\ UNCHANGED <<library, expected, package, packed, lateIO, doubted, requests>>

(* The end of the transaction: all items and folders are published with the *)
(* library's next revision, or the job is cancelled.                        *)
FirstWritten(c) == server[c].next > 1
AllWritten(c) == server[c].next > Size

PublishPackage(c) ==
    LET k == server[c].key IN
    /\ package' = [package EXCEPT ![k] = [status |-> "succeeded", revision |-> @.revision + 1]]
    /\ library' = [revision |-> library.revision + 1, shown |-> library.shown \cup {k}]
Cancelled(c) ==
    LET k == server[c].key IN
    /\ package' = [package EXCEPT ![k] = [status |-> "cancelled", revision |-> @.revision + 1]]
    /\ UNCHANGED library

Finish(c) ==
    /\ Working(c) /\ AllWritten(c)
    /\ IF ~server[c].held THEN UNCHANGED <<package, library>>
       ELSE IF Cancels(c) THEN Cancelled(c) ELSE PublishPackage(c)
    /\ EndService(c)
    /\ UNCHANGED <<expected, packed, lateIO, doubted, packageBounds>>

(* Other work on the library, which a package does not exclude.             *)
Edit ==
    /\ library.revision < MaxRevision
    /\ \A c \in Services : server[c].kind # "none" => ~server[c].held
    /\ library' = [library EXCEPT !.revision = @ + 1]
    /\ UNCHANGED <<expected, package, packed, server, lateIO, doubted, packageBounds>>

PackageNext ==
    \/ \E c \in Services, k \in Imports :
          ImportPackage(c, k) \/ PackageControl(c, k, "reconcile") \/ PackageControl(c, k, "cancel")
    \/ \E c \in Services :
          \/ AdmitPackageImport(c) \/ LockPackage(c) \/ ObjectStep(c) \/ Unanswered(c) \/ Mismatch(c)
          \/ Disconnect(c) \/ ServiceDies(c) \/ Finish(c)
    \/ LateLands \/ Edit

PackageSpec == PackageInit /\ [][PackageNext]_packageVars

-----------------------------------------------------------------------------
AllObjects == 1..Size

(* A package is shown with all of its objects or not at all, and leaves     *)
(* none when it is cancelled, where no operation outlived the locks it was  *)
(* begun under.                                                             *)
ShownWhole ==
    /\ library.shown = {k \in Imports : package[k].status = "succeeded"}
    /\ \A k \in library.shown : "remove" \notin doubted[k] => packed[k] = AllObjects
CancelledClean ==
    \A k \in Imports : package[k].status = "cancelled" /\ "write" \notin doubted[k] => packed[k] = {}
(* Every stored object is one of a job that is on record.                   *)
ObjectsReserved == \A k \in Imports : packed[k] # {} => package[k] # NoPackage
(* A library has one open package at a time.                                *)
OneOpen == Cardinality(OpenPackages) <= 1

(* What is published stays so, what is cancelled is never published.        *)
OutcomeKept ==
    \A k \in Imports : package[k].status \in {"succeeded", "cancelled"} => package'[k] = package[k]

(* An import of a package shows all of it or nothing, and the outcome of a  *)
(* request is the one its repetitions hear.                                 *)
PackageHonest ==
    /\ [](ShownWhole /\ CancelledClean /\ ObjectsReserved /\ OneOpen)
    /\ [][OutcomeKept]_packageVars

(* "A package becomes visible only after every immutable object was read    *)
(* back", and its keys stay protected when something fails.  TLC refutes it  *)
(* (README, section 7).                                                      *)
ShownStays == \A k \in library.shown : packed[k] = AllObjects

=============================================================================
