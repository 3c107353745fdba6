-------------------------- MODULE MCClauseLifecycle --------------------------
(* An instance of ClauseLifecycle for TLC.                                  *)
EXTENDS ClauseLifecycle, TLC

CONSTANTS r1, r2, r3, d1, d2, original, nobody

\* Batches are visited in the order of their names.
MCRank == [b \in Batch |-> CASE b = original -> 0 [] b = r1 -> 1
                             [] b = r2 -> 2 [] b = r3 -> 3]

=============================================================================
