--------------------------- MODULE MCLanguageModel ---------------------------
(* One service that looks at the breaker, and the two that do not.         *)
EXTENDS LanguageModel, TLC

CONSTANTS t1, t2

MCThreads == {t1, t2}
Sym == Permutations(MCThreads)
=============================================================================
