------------------------- MODULE MCComplianceReview -------------------------
(* Two policies, a contradiction and a "missing" row between them.         *)
EXTENDS ComplianceReview, TLC

CONSTANTS p1, p2, x, clash, gap, v1, v2, r1, r2

MCPolicyOf == x :> p1
MCSource == (clash :> p1) @@ (gap :> p1)
MCTarget == (clash :> p2) @@ (gap :> p2)
MCSeverity == (clash :> "medium") @@ (gap :> "high")
MCRevisions == (p1 :> 1) @@ (p2 :> 0)

\* Bounds: p1 is stored first, then its obligation and p2, then the conflicts,
\* clash no later than gap; only p2 is deleted; clash alone has a recommendation
\* and is resolved.  The first review is signed, the second not, and beside
\* both no score is asked for; beside a request a review accepts.  When time
\* passes or there is a second request, both requests are for p1, clash is all
\* there is and x stays mapped.
FewEvents ==
    /\ p2 \in db.policies => x \in db.obligations
    /\ p1 \notin db.deleted
    /\ gap \in db.conflicts => clash \in db.conflicts
    /\ gap \notin db.recommendations
    /\ db.status[gap] = "Open" /\ db.status[clash] # "Reviewed"
    /\ \A v \in Reviews : review[v].pc = "read" => review[v].named = (v = v1)
    /\ review[v2].pc # "idle" => review[v1].pc # "idle" /\ request[r1].pc = "idle"
    /\ review[v1].pc # "idle" /\ request[r1].pc # "idle" => review[v1].choice = "Accepted"
    /\ \A r \in Requests : request[r].kind = "health" => p2 \notin request[r].todo
    /\ request[r2].pc # "idle" \/ clock > 0 =>
         /\ \A r \in Requests : request[r].kind = "health"
         /\ db.recommendations = {} /\ gap \notin db.conflicts
         /\ db.status[clash] = "Open" /\ db.deleted = {} /\ db.obligations = db.mapped
=============================================================================
