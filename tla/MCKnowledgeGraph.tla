-------------------------- MODULE MCKnowledgeGraph --------------------------
(* Two policies of one obligation each, in conflict, and a "missing" row.  *)
EXTENDS KnowledgeGraph, TLC

CONSTANTS p1, p2, a, a2, b, x, y, r, clash, gap, s1, s2

MCPolicyOf == (a :> p1) @@ (a2 :> p1) @@ (b :> p2)
MCClauseOf == (x :> a) @@ (y :> b)
MCSource == (clash :> x) @@ (gap :> None)
MCTarget == (clash :> y) @@ (gap :> y)
MCParties == (clash :> {p1, p2}) @@ (gap :> {p1, p2})
MCRelation == (clash :> "CONFLICT") @@ (gap :> "UNRELATED")

SyncSymmetry == Permutations(Syncs)

\* Bounds: p1 and its obligation are stored first, each policy has one clause;
\* only p1 is segmented anew or else deleted, and only its obligation is
\* mapped; the "missing" row comes second, without recommendation.
FewRows ==
    /\ p2 \in rows.policies => p1 \in rows.policies
    /\ a2 \in rows.clauses => a \in rows.clauses
    /\ p2 \in rows.policies => b \in rows.clauses
    /\ p2 \notin rows.deleted
    /\ p1 \in rows.deleted => a2 \notin rows.clauses
    /\ y \in rows.obligations => x \in rows.obligations
    /\ gap \in rows.conflicts => clash \in rows.conflicts
    /\ \A m \in rows.mappings : m[1] = x
    /\ gap \notin rows.recommendations

=============================================================================
