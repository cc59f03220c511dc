------------------------------ MODULE MCBatch ------------------------------
(***************************************************************************)
(* Instances of Batch for TLC.                                             *)
(***************************************************************************)
EXTENDS Batch, SequencesExt

CONSTANTS b1, b2, b3, b4, c1, c2, c3, c4, c5, c6, openai, home, studio, node

\* One batch of three children.
OneBatchOf == [c \in {c1, c2, c3} |-> b1]

\* The children of one batch are interchangeable.
Interchangeable == Permutations({c1, c2, c3})

\* One batch of two children.
PairOf == [c \in {c1, c2} |-> b1]

\* Two projects.  In the first a narrow and a wide batch of one canvas node
\* compete for the node, and the two children of the wide one for the
\* provider; in the second two batches without a common node compete for the
\* slots of the project.
SplitBatchOf == (c1 :> b1) @@ (c2 :> b2) @@ (c3 :> b2) @@ (c4 :> b3) @@ (c5 :> b3) @@ (c6 :> b4)
SplitProjectOf == [b \in Batches |-> IF b \in {b1, b2} THEN home ELSE studio]
SplitSourceOf == [b \in Batches |-> IF b \in {b1, b2} THEN node ELSE "none"]
SplitProviderOf == [c \in Children |-> IF c \in {c2, c3, c4} THEN openai ELSE "none"]

AllOpenai == [c \in Children |-> openai]
AllHome == [b \in Batches |-> home]
NoSource == [b \in Batches |-> "none"]

\* The newer batch was confirmed with the wider concurrency.
Widened == [b \in Batches |-> IF b = b1 THEN 1 ELSE 2]
Wide == [b \in Batches |-> 2]

One == [p \in Providers |-> 1]
Two == [p \in Providers |-> 2]
Three == [p \in Providers |-> 3]

\* Bound: the batches of one project are still to be started; those of the
\* others have come to their end.
Finished(b) ==
  [status |-> "finished", paused |-> "none", cancelled |-> FALSE,
   succeeded |-> Cardinality(Members(b)), failed |-> 0, events |-> 1]
Reused == [status |-> "completed", code |-> "none", called |-> FALSE, slot |-> "done",
           run |-> "done", signalled |-> FALSE]

CompetingInit ==
  \E p \in Projects :
    LET over == {b \in Batches : ProjectOf[b] # p}
    IN /\ batch = [b \in Batches |-> IF b \in over THEN Finished(b) ELSE ConfirmedBatch]
       /\ child = [c \in Children |-> IF BatchOf[c] \in over THEN Reused ELSE ConfirmedChild]
       /\ parent = [b \in Batches |->
                      [Unstarted(b) EXCEPT !.pc = IF b \in over THEN "done" ELSE "none"]]
       /\ settled = [b \in Batches |-> IF b \in over THEN SetToSeq(Members(b)) ELSE <<>>]
       /\ AtRest

\* AttendedSpec from there.
CompetingSpec == CompetingInit /\ [][Next]_vars /\ Attended
=============================================================================
