--------------------------- MODULE MCPolicyUpload ---------------------------
(* An instance of PolicyUpload for TLC.                                    *)
EXTENDS PolicyUpload, FiniteSets, Naturals

CONSTANTS u1, u2, u3, u4, acme, default

\* u1 and u2 name the same company, u3 gives its id, u4 gives nothing.  u2
\* also gives the id of its uploader, who may belong to another company.
MCNameOf == [u \in Upload |-> acme]
MCLookupOf == [u \in Upload |-> CASE u \in {u1, u2} -> "name"
                                  [] u = u3 -> "id" [] u = u4 -> "none"]

\* Bounds: how many of the four requests one behaviour contains, and how many
\* of those it fails or loses.
MaxRequests == 3
MaxLostRequests == 2

FewRequests ==
    /\ Cardinality({u \in Upload : pc[u] # "idle"}) <= MaxRequests
    /\ Cardinality({u \in Upload : answer[u] = "failed" \/ pc[u] = "dead"})
       <= MaxLostRequests

=============================================================================
