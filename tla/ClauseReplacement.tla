------------------------- MODULE ClauseReplacement -------------------------
(***************************************************************************)
(* What readers see of one policy's clauses while resegmentations and      *)
(* deletions overlap.  A request takes note of what is visible once, and   *)
(* later changes it in one step or not at all: a resegmentation puts its   *)
(* batch in the place of what it noted, a deletion removes that together   *)
(* with the policy.  There is nothing to wait for and nothing half done.   *)
(***************************************************************************)
CONSTANTS Resegment, Delete, Original

Request == Resegment \cup Delete

VARIABLES
    deleted,    \* whether the policy is
    visible,    \* the batches of clauses a reader finds
    noted,      \* what was visible when a request took note
    stage       \* how far a request is

Init ==
    /\ deleted = FALSE
    /\ visible \in {{}, {Original}}
    /\ noted = [r \in Request |-> {}]
    /\ stage = [r \in Request |-> "new"]

Move(r, from, to) == stage[r] = from /\ stage' = [stage EXCEPT ![r] = to]

TakeNote(r) ==
    /\ Move(r, "new", "noted")
    /\ noted' = [noted EXCEPT ![r] = visible]
    /\ UNCHANGED <<deleted, visible>>

\* A deletion that finds the policy deleted looks at no clauses.
TakeNoNote(d) ==
    /\ deleted
    /\ Move(d, "new", "noted")
    /\ UNCHANGED <<deleted, visible, noted>>

Replace(r) ==
    /\ Move(r, "noted", "done")
    /\ visible' = (visible \ noted[r]) \cup {r}
    /\ UNCHANGED <<deleted, noted>>

Remove(d) ==
    /\ Move(d, "noted", "done")
    /\ deleted' = TRUE
    /\ visible' = visible \ noted[d]
    /\ UNCHANGED noted

GiveUp(r) ==
    /\ \E from \in {"new", "noted"} : Move(r, from, "abandoned")
    /\ UNCHANGED <<deleted, visible, noted>>

Next ==
    \/ \E r \in Resegment : Replace(r)
    \/ \E d \in Delete : TakeNoNote(d) \/ Remove(d)
    \/ \E r \in Request : TakeNote(r) \/ GiveUp(r)

Spec == Init /\ [][Next]_<<deleted, visible, noted, stage>>

=============================================================================
