-------------------------- MODULE UploadAtomicity --------------------------
(***************************************************************************)
(* What readers of the database and the client see of an upload: nothing,  *)
(* until one step shows the whole document, with its clauses or for good   *)
(* without; the client is answered afterwards, once.                       *)
(***************************************************************************)
CONSTANT Upload

VARIABLES
    shown,    \* what the database shows of an upload
    answer    \* what its client was told

Init ==
    /\ shown = [u \in Upload |-> "nothing"]
    /\ answer = [u \in Upload |-> "none"]

Publish(u) ==
    /\ shown[u] = "nothing"
    /\ answer[u] = "none"
    /\ \E s \in {"document", "document and clauses"} :
          shown' = [shown EXCEPT ![u] = s]
    /\ UNCHANGED answer

Answer(u) ==
    /\ answer[u] = "none"
    /\ \E a \in {"created", "failed"} : answer' = [answer EXCEPT ![u] = a]
    /\ UNCHANGED shown

Next == \E u \in Upload : Publish(u) \/ Answer(u)

Spec == Init /\ [][Next]_<<shown, answer>>

=============================================================================
