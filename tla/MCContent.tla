----------------------------- MODULE MCContent -----------------------------
(***************************************************************************)
(* What an author's projects and scripts go through, on small instances:   *)
(* the copy of a project, the projects of a library with their folders, a  *)
(* script's sources and the import of files, its division into episodes,   *)
(* and the packages of a media library.  They share no state, so a         *)
(* behaviour moves only one, its "subject"; imports and the review share   *)
(* x1 to x8, in the order their instances name them.                       *)
(***************************************************************************)
EXTENDS ScriptSource, Packages, Projects, ProjectCopy, TLC

CONSTANTS key1, key2, work1, work2, folder1, user1, user2

VARIABLES subject, x1, x2, x3, x4, x5, x6, x7, x8

others == <<x1, x2, x3, x4, x5, x6, x7, x8>>

MCKeys == {key1, key2}

Import == INSTANCE ScriptImport WITH
          Files <- {1, 2}, MaxAttempts <- 2, MaxCommands <- 3, MaxRuns <- 2, MaxEdits <- 1,
          MaxFaults <- 1,
          job <- x1, attempt <- x2, head <- x3, event <- x4, commands <- x5, flow <- x6,
          run <- x7, faults <- x8

(* Two versions, of three lines and of two; one structure of a whole episode *)
(* and one of two scenes.                                                    *)
Review == INSTANCE ScriptReview WITH
          Jobs <- {"j", "k"}, Titles <- {"a"}, MaxRevision <- 5, MaxLooks <- 1,
          Manuscripts <- <<<<"words", "empty", "heading">>, <<"blank", "heading">>>>,
          Documents <- {[scenes |-> {"s"}, whole |-> TRUE],
                        [scenes |-> {"s", "t"}, whole |-> FALSE]},
          state <- x1, version <- x2, decision <- x3, episode <- x4, structure <- x5,
          command <- x6, writing <- x7, looks <- x8

MCServices == {1, 2}
MCProjects == {work1, work2}
MCFolders == {folder1}

(* One object of media and one of script history. *)
MCMedia == <<"m">>
MCScript == <<"s">>
MCUsers == {user1, user2}

NoOther == /\ x1 = 0 /\ x2 = 0 /\ x3 = 0 /\ x4 = 0 /\ x5 = 0
           /\ x6 = 0 /\ x7 = 0 /\ x8 = 0

Own == <<vars, packageVars, projectsVars, copyVars>>

ContentInit ==
    /\ Init /\ PackageInit /\ ProjectsInit /\ CopyInit
    /\ \/ subject \in {"source", "packages", "projects", "copy"} /\ NoOther
       \/ subject = "import" /\ Import!Init
       \/ subject = "review" /\ Review!Init

ContentNext ==
    /\ UNCHANGED subject
    /\ \/ subject = "source" /\ Next /\ UNCHANGED <<packageVars, projectsVars, copyVars, others>>
       \/ subject = "packages" /\ PackageNext /\ UNCHANGED <<vars, projectsVars, copyVars, others>>
       \/ subject = "projects" /\ ProjectsNext /\ UNCHANGED <<vars, packageVars, copyVars, others>>
       \/ subject = "copy" /\ CopyNext /\ UNCHANGED <<vars, packageVars, projectsVars, others>>
       \/ subject = "import" /\ Import!Next /\ UNCHANGED Own
       \/ subject = "review" /\ Review!Next /\ UNCHANGED Own

ContentSpec == ContentInit /\ [][ContentNext]_<<subject, Own, others>>

Interchangeable == Permutations({key1, key2}) \cup Permutations({work1, work2})

-----------------------------------------------------------------------------
(* One process works for a copy, a source's write or an import at a time,   *)
(* and none after a copy's final result.                                    *)
JobHolders == CASE subject = "copy" -> CopyHolders
                [] subject = "source" -> Holders
                [] subject = "import" -> Import!Holders
                [] OTHER -> {}
JobSettled == subject = "copy" /\ CopyEnded
JobWork == INSTANCE PhysicalWork WITH holders <- JobHolders, settled <- JobSettled
OneWorkerAtATime == JobWork!Spec

(* What an import publishes was read from the files its user asked for, and *)
(* a cancelled import publishes nothing more.                               *)
ImportHonest ==
    /\ [](subject = "import" => Import!ImportHonest)
    /\ [][subject = "import" => Import!CancelKept]_others

(* Episodes cover the script they were confirmed for, a confirmation never  *)
(* changes, and a copy of the history says the same of every version.       *)
ReviewHonest ==
    /\ [](subject = "review" => Review!ReviewHonest /\ Review!ScriptCopied)
    /\ [][subject = "review" => Review!ReviewKept]_others
=============================================================================
