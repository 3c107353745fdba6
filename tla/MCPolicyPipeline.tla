-------------------------- MODULE MCPolicyPipeline --------------------------
(* Instances of PolicyPipeline for TLC.                                    *)
EXTENDS PolicyPipeline, TLC

CONSTANTS p1, p2, p3, p4, acme, globex, c1, c2, c3, c4, nil

\* p1 has two clauses, which re-segmentation replaces by c4, p2 has one, and
\* the others have none.  c1 and c3 are duplicates; c2 and c3 contradict each
\* other, though their score alone does not make them similar, and so do c4
\* and c3, which score high enough; nothing covers c2, nor anything in a
\* policy without clauses: every kind of row occurs.
MCPolicyOf == [c \in Clause |-> IF c = c3 THEN p2 ELSE p1]

MCSegmentationOf == [c \in Clause |-> IF c = c4 THEN 2 ELSE 1]

MCScore == [ab \in Clause \X Clause |->
              CASE {ab[1], ab[2]} = {c1, c3} -> 95
                [] {ab[1], ab[2]} = {c3, c4} -> 75
                [] OTHER -> 40]

MCTargetMatch == [ab \in Clause \X Clause |-> {ab[1], ab[2]} = {c2, c3}]

MCSameTerms == [ab \in Clause \X Clause |-> {ab[1], ab[2]} = {c1, c3}]

MCCompanyOf == (p1 :> acme) @@ (p2 :> acme) @@ (p3 :> globex) @@ (p4 :> acme)

MCSameCompanyOf == [p \in Policy |-> acme]

\* Bounds of the run "pipeline": p3, of another company, and p4, of the same
\* one, are there before the others; neither has clauses or a thread, so that
\* they are only peers to be left alone or to be compared with.
Bare == {p3, p4} \cap Policy

\* What goes wrong in a behaviour, where a failed comparison and a crash count
\* twice: two of the others may occur together, these two occur alone.  No
\* fairness is stated of any of them, so what is left is as fair as before.
Mishaps ==
    Cardinality({p \in Policy : row[p] = "deleted"})
        + Cardinality({p \in Policy : segmentations[p] > 1})
        + Cardinality({p \in Policy : fate[p] = "aborted" \/ logged[p] # {}})
        + Cardinality({p \in Policy : "comparison" \in logged[p]})
        + IF \E p \in Policy : fate[p] = "killed" THEN 2 ELSE 0

FewThreads ==
    /\ \A p \in Bare : pc[p] \in {"absent", "unsegmented"} /\ row[p] # "deleted"
    /\ (\A p \in Bare : row[p] = "live") \/ \A p \in Policy \ Bare : row[p] = "absent"
    /\ Mishaps <= 2

=============================================================================
