--------------------------- MODULE MCQueueClients ---------------------------
(***************************************************************************)
(* QueueClients for TLC.  Threads and values are interchangeable; the      *)
(* symmetry is used in the runs that check safety only.                    *)
(***************************************************************************)
EXTENDS QueueClients, TLC

Symmetry == Permutations(Putters) \cup Permutations(Takers)
                \cup Permutations(Values)
=============================================================================
