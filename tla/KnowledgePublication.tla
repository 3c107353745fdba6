------------------------ MODULE KnowledgePublication ------------------------
(***************************************************************************)
(* What readers of the database see of seeding and mapping.  One step       *)
(* publishes everything the program knows, and with it the obligation that  *)
(* the seeding call has extracted, if any; only then, and only for an       *)
(* obligation that is published, is there a mapping.  Nothing is withdrawn. *)
(***************************************************************************)
CONSTANTS Obligations, Catalogue

VARIABLES
    offered,    \* the citations a mapping can be resolved to
    published,  \* the obligations there are
    mapped      \* those of them that have a mapping

Init == offered = {} /\ published = {} /\ mapped = {}

Seed(O) ==
    /\ offered' = Catalogue
    /\ published' = published \cup O
    /\ UNCHANGED mapped

Map(o) ==
    /\ offered = Catalogue
    /\ o \in published
    /\ mapped' = mapped \cup {o}
    /\ UNCHANGED <<offered, published>>

Next ==
    \/ Seed({})
    \/ \E o \in Obligations : Seed({o}) \/ Map(o)

Spec == Init /\ [][Next]_<<offered, published, mapped>>

=============================================================================
