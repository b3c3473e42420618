----------------------------- MODULE MCDataPath -----------------------------
\* The instance of DataPath that TLC checks.
EXTENDS DataPath, TLC

CONSTANTS t, n, u

\* Of the topics a request can ask for, t is configured as Kafka has it, n with a
\* negative number of partitions, which ParseConfig accepts, and u not at all.
Configured == t :> 3 @@ n :> -2
InKafka == t :> 3 @@ n :> 1
Symmetry == Permutations(Requests)
=============================================================================
