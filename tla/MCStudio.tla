------------------------------ MODULE MCStudio ------------------------------
(***************************************************************************)
(* The studio around the operations, on small instances: media on their    *)
(* way in and in the library, the bible and the canvases that name them,   *)
(* the accounts, the image operations of Codex, the providers and models   *)
(* of the catalog, the stream of a project's events, and the quotes that   *)
(* come before an operation.  They share no state, so a behaviour moves    *)
(* only one, its "subject": quotes, accounts and the images of Codex have  *)
(* their own variables, and x1 to x10 hold those of any other subject in   *)
(* the order its instance names them.                                      *)
(***************************************************************************)
EXTENDS Quote, Identity, CodexImage, TLC

CONSTANTS
    key1, key2, key3, key4, media1,
    MaxEffort  \* bound on the changes of the accounts and the guesses together

VARIABLES subject, x1, x2, x3, x4, x5, x6, x7, x8, x9, x10

studioVars == <<x1, x2, x3, x4, x5, x6, x7, x8, x9, x10>>

(* A batch of two quotes, confirmed whole, without one, or one of them singly. *)
MCBodies == {[batch |-> TRUE, ops |-> {}], [batch |-> TRUE, ops |-> {"q1"}],
             [batch |-> FALSE, ops |-> {"q2"}]}

(* A recording may be stored as either of two contents. *)
Incoming == INSTANCE Upload WITH
    Keys <- {key1, key2},
    Canonical <- [video |-> {"video"}, recording |-> {"video", "other"}],
    Parts <- 2, MaxTries <- 2, MaxFaults <- 2, MaxChanges <- 2,
    active <- x1, asset <- x2, receipt <- x3, stored <- x4, upload <- x5, transaction <- x6,
    late <- x7, faults <- x8, changes <- x9

Result == INSTANCE Ingest WITH
    Parts <- 2, Bytes <- {"b", "c"}, MaxTries <- 3, MaxFaults <- 3,
    operation <- x1, output <- x2, object <- x3, late <- x4, try <- x5, flow <- x6, faults <- x7

(* Two of the names differ in case only. *)
Shelf == INSTANCE Library WITH
    Keys <- {key1, key2, key3, key4}, Assets <- {media1},
    NameKey <- [a |-> "a", b |-> "b", A |-> "a"],
    MaxDepth <- 2, MaxRevision <- 5,
    library <- x1, folder <- x2, item <- x3, purge <- x4, referenced <- x5, receipt <- x6

Cast == INSTANCE Bible WITH
    Characters <- {1, 2}, Assets <- {media1}, MaxChain <- 1, MaxLooks <- 2, MaxCommands <- 6,
    MaxMedia <- 2,
    head <- x1, versions <- x2, confirmation <- x3, redirect <- x4, split <- x5, media <- x6,
    pins <- x7, commands <- x8

(* Three characters that have been created and confirmed, enough for more   *)
(* merges in a row than a reader follows.                                    *)
Family == INSTANCE Bible WITH
    Characters <- {1, 2, 3}, Assets <- {}, MaxChain <- 1, MaxLooks <- 3, MaxCommands <- 4,
    MaxMedia <- 1,
    head <- x1, versions <- x2, confirmation <- x3, redirect <- x4, split <- x5, media <- x6,
    pins <- x7, commands <- x8
FamilyInit ==
    /\ x1 = [c \in {1, 2, 3} |-> [Family!NoHead EXCEPT !.revision = 2, !.confirmed = 1]]
    /\ x2 = [c \in {1, 2, 3} |-> <<Family!Created(c)>>]
    /\ x3 = [character : {1, 2, 3}, version : {1}, revision : {2}]
    /\ x4 = {} /\ x5 = {} /\ x6 = <<>> /\ x7 = {} /\ x8 = 0

Board == INSTANCE Canvas WITH
    Documents <- {key1, key2}, Ids <- {1, 2}, EdgeIds <- {1}, Assets <- {1}, MaxNodes <- 2,
    MaxEdges <- 1, MaxBatch <- 2, MaxRevision <- 3, MaxMedia <- 3,
    document <- x1, node <- x2, edge <- x3, log <- x4, answer <- x5, media <- x6, moves <- x7

Secrets == INSTANCE Credentials WITH
    Admins <- {key1, key2}, Tests <- {key3, key4}, MaxCredentials <- 2, MaxRevision <- 2, MaxTime <- 2,
    MaxFaults <- 1,
    provider <- x1, credentials <- x2, test <- x3, late <- x4, recorded <- x5, command <- x6,
    admin <- x7, now <- x8, faults <- x9

Models == INSTANCE ModelRegistry WITH
    Models <- {1, 2, 3}, Voices <- {1, 2}, Published <- {1, 3}, Limit <- 2, Batch <- 1,
    MaxRevision <- 5, MaxTime <- 2, MaxChanges <- 4,
    model <- x1, versions <- x2, prices <- x3, usable <- x4, now <- x5, changes <- x6,
    read <- x7, listed <- x8, steady <- x9, offered <- x10

Stream == INSTANCE ProjectStream WITH
    Topics <- {key1, key2}, MaxEvents <- 2, Limit <- 3, MaxRepeats <- 1, MaxTrims <- 1,
    MaxDrops <- 2,
    handled <- x1, published <- x2, stream <- x3, member <- x4, hidden <- x5, conn <- x6,
    browser <- x7, repeats <- x8, trims <- x9, drops <- x10

(* Accounts that are not looked at are those of a new installation. *)
StudioInit ==
    /\ Init /\ IdentityInit /\ CodexInit
    /\ \/ /\ subject \in {"quote", "identity", "codex"}
          /\ x1 = 0 /\ x2 = 0 /\ x3 = 0 /\ x4 = 0 /\ x5 = 0
          /\ x6 = 0 /\ x7 = 0 /\ x8 = 0 /\ x9 = 0 /\ x10 = 0
       \/ subject = "upload" /\ Incoming!Init /\ x10 = 0
       \/ subject = "ingest" /\ Result!Init /\ x8 = 0 /\ x9 = 0 /\ x10 = 0
       \/ subject = "library" /\ Shelf!Init /\ x7 = 0 /\ x8 = 0 /\ x9 = 0 /\ x10 = 0
       \/ subject = "bible" /\ Cast!Init /\ x9 = 0 /\ x10 = 0
       \/ subject = "merges" /\ FamilyInit /\ x9 = 0 /\ x10 = 0
       \/ subject = "canvas" /\ Board!Init /\ x8 = 0 /\ x9 = 0 /\ x10 = 0
       \/ subject = "credentials" /\ Secrets!Init /\ x10 = 0
       \/ subject = "models" /\ Models!Init
       \/ subject = "stream" /\ Stream!Init
    /\ subject # "identity" => \A a \in Accounts : ~Known(a)

(* One step of any other subject. *)
Studio ==
    \/ subject = "upload" /\ Incoming!Next /\ UNCHANGED x10
    \/ subject = "ingest" /\ Result!Next /\ UNCHANGED <<x8, x9, x10>>
    \/ subject = "library" /\ Shelf!Next /\ UNCHANGED <<x7, x8, x9, x10>>
    \/ subject = "bible" /\ Cast!Next /\ UNCHANGED <<x9, x10>>
    \/ subject = "merges" /\ Family!Next /\ UNCHANGED <<x9, x10>>
    \/ subject = "canvas" /\ Board!Next /\ UNCHANGED <<x8, x9, x10>>
    \/ subject = "credentials" /\ Secrets!Next /\ UNCHANGED x10
    \/ subject = "models" /\ Models!Next
    \/ subject = "stream" /\ Stream!Next

StudioNext ==
    /\ UNCHANGED subject
    /\ \/ subject = "quote" /\ Next /\ UNCHANGED <<identityVars, codexVars, studioVars>>
       \/ subject = "identity" /\ IdentityNext /\ (Revisions + Guesses)' <= MaxEffort
          /\ UNCHANGED <<vars, codexVars, studioVars>>
       \/ subject = "codex" /\ CodexNext /\ UNCHANGED <<vars, identityVars, studioVars>>
       \/ Studio /\ UNCHANGED <<vars, identityVars, codexVars>>

StudioSpec == StudioInit /\ [][StudioNext]_<<subject, vars, identityVars, codexVars, studioVars>>

Interchangeable == Permutations({key1, key2}) \cup Permutations({key3, key4})

-----------------------------------------------------------------------------
(* An asset has all its objects and one content, uploads of one file make   *)
(* one asset, a verdict of the review is about what is registered, and      *)
(* neither a receipt nor what is registered ever changes.                   *)
MediaHonest ==
    /\ [](subject = "upload" => Incoming!UploadHonest)
    /\ [](subject = "ingest" => Result!IngestHonest)
    /\ [][/\ subject = "upload" => Incoming!ReceiptKept
          /\ subject = "ingest" => Result!OutputKept]_<<subject, studioVars>>

(* The folders of a library are a tree with unique names, what something    *)
(* refers to is not purged, and nobody changes what another has seen under  *)
(* the same revision.                                                       *)
CatalogHonest ==
    /\ [](subject = "library" => Shelf!CatalogHonest)
    /\ [][subject = "library" => Shelf!CatalogKept]_<<subject, studioVars>>

(* The history of the characters stays whole and reachable, but for chains  *)
(* of merges that are too long, and a merged one changes no more.           *)
BibleHonest ==
    /\ [](subject = "bible" => Cast!BibleHonest)
    /\ [](subject = "merges" => Family!BibleHonest)
    /\ [][/\ subject = "bible" => Cast!BibleKept
          /\ subject = "merges" => Family!BibleKept]_<<subject, studioVars>>

(* A canvas and its log agree, a copy of both is a legal canvas, media that *)
(* are used are kept, and timelines go on playing what they were given.     *)
CanvasHonest ==
    /\ [](subject = "canvas" => Board!CanvasHonest)
    /\ [][subject = "canvas" => Board!CanvasKept]_<<subject, studioVars>>

(* A provider has one active credential with the result of its own latest   *)
(* test; the voices that are offered belong to models that can be used, and *)
(* the pages of a list skip none of those that were there all the time.     *)
RegistryHonest ==
    /\ [](subject = "credentials" => Secrets!CredentialHonest)
    /\ [](subject = "models" => Models!RegistryHonest)
    /\ [][subject = "credentials" => Secrets!CredentialKept]_<<subject, studioVars>>

(* A browser sees every event once and in order, or is told to read anew,   *)
(* and nothing of a project it may no longer see.                           *)
StreamHonest ==
    /\ [](subject = "stream" => Stream!StreamHonest)
    /\ [][subject = "stream" => Stream!OrderKept]_<<subject, studioVars>>
=============================================================================
