----------------------- MODULE MCClauseSegmentation -----------------------
(* An instance of ClauseSegmentation for TLC.                              *)
EXTENDS ClauseSegmentation

\* Bounds: the lines of a document and the clauses of an answer.
MaxLines == 5
MaxAnswer == 4

ShortDocuments == Len(document) <= MaxLines /\ Len(answer) <= MaxAnswer

\* One level deeper than a heading, and one that skips a level.
MCDepth == {2, 3}

\* Also a level that is not positive.
MCAnswerLevel == {-1, 1, 2, 3}

=============================================================================
