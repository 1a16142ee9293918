----------------------------- MODULE MCJobQueue -----------------------------
(* Small instances of JobQueue for TLC.                                    *)
EXTENDS JobQueue

OneStore == [j \in Jobs |-> CHOOSE s \in Stores : TRUE]
SamePriority == [j \in Jobs |-> 3]
TwoAttempts == [j \in Jobs |-> 2]
=============================================================================
