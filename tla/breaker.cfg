SPECIFICATION LmSpec
CONSTANTS
    t1 = t1
    t2 = t2
    Threads <- MCThreads
    Services = {"extract", "embed", "segment"}
SYMMETRY Sym
INVARIANTS
    QuotaErrorsAreFew
    MixedOnlyByTheFirstFailure
