--------------------------- MODULE MCKnowledgeBase ---------------------------
(* Two obligations, one that the first rule matches and one that none does, *)
(* and a language model that cites the clause of another framework.         *)
EXTENDS KnowledgeBase, TLC

CONSTANTS o1, o2, r1, r2, l1

MCFirstRule == [o \in Obligations |-> IF o = o1 THEN 1 ELSE 0]
MCAnswers == {Cite("GDPR", "Article 32"), Cite("GDPR", "A.9.1.1")}

\* Bounds: two calls at a time.  r2 asks after r1; the two requests overlap
\* beside one thread and no listing, and the listing beside one request.
TwoAtATime ==
    /\ Cardinality({c \in Calls : Running(c)}) <= 2
    /\ \A r \in Remaps \ {r1} : call[r].pc # "idle" =>
          /\ call[r1].pc # "idle"
          /\ \A c \in (Obligations \ {o1}) \cup Listings : call[c].pc = "idle"
    /\ \A l \in Listings : call[l].pc # "idle" /\ call[r1].pc # "idle" =>
          \A o \in Obligations \ {o1} : call[o].pc = "idle"
=============================================================================
