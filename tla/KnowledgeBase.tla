---------------------------- MODULE KnowledgeBase ----------------------------
(***************************************************************************)
(* The regulatory knowledge base and the mapping of obligations to it.     *)
(*                                                                         *)
(* Every mapping of an obligation first seeds the frameworks the program   *)
(* knows, in the session of its caller, and commits them; so does the      *)
(* listing of the frameworks.  The callers are the threads of uploads, one *)
(* obligation at a time, and the requests to map an obligation again, and  *)
(* they run side by side: each statement sees what is committed when it    *)
(* runs and what its own session added.  No row is ever removed.           *)
(*                                                                         *)
(* Bounds: an obligation is extracted once, by a call of its own name.     *)
(***************************************************************************)
EXTENDS Integers, Sequences, FiniteSets

CONSTANTS
    Obligations,    \* each names the call that extracts and maps it
    Remaps,         \* requests to map an obligation again
    Listings,       \* requests for the frameworks
    FirstRule,      \* the first rule whose keywords an obligation holds, or 0
    ModelAnswers,   \* what the language model may cite
    None

\* DEFAULT_REGULATORY_DATA, in the order in which it is seeded.
DefaultRegulatoryData == <<
    [name |-> "GDPR", clauses |-> {"Article 5(1)(f)", "Article 17(1)", "Article 32"}],
    [name |-> "ISO 27001", clauses |-> {"A.12.4.1", "A.9.1.1", "A.18.1.1"}],
    [name |-> "RBI", clauses |-> {"Clause 23", "Clause 38"}],
    [name |-> "SEBI", clauses |-> {"Regulation 30", "Circular Clause 4"}]>>

Cite(f, c) == [framework |-> f, clause |-> c]

NoMatch == Cite("NONE", "NONE")

\* What the rules cite, in the order in which they are tried.
RuleCitations == <<
    Cite("ISO 27001", "A.9.1.1"), Cite("ISO 27001", "A.12.4.1"), Cite("GDPR", "Article 32"),
    Cite("GDPR", "Article 5(1)(f)"), Cite("GDPR", "Article 17(1)"), Cite("RBI", "Clause 38"),
    Cite("RBI", "Clause 23"), Cite("SEBI", "Regulation 30"), Cite("SEBI", "Circular Clause 4"),
    Cite("ISO 27001", "A.18.1.1")>>

Catalogue ==
    UNION {{Cite(DefaultRegulatoryData[i].name, c) : c \in DefaultRegulatoryData[i].clauses} :
              i \in DOMAIN DefaultRegulatoryData}

Answers == ModelAnswers \cup {RuleCitations[i] : i \in DOMAIN RuleCitations} \cup {NoMatch}

Calls == Obligations \cup Remaps \cup Listings

FrameworkNames == {DefaultRegulatoryData[i].name : i \in DOMAIN DefaultRegulatoryData}
FrameworkRows == [by : Calls, name : FrameworkNames]
ClauseRows == [framework : FrameworkRows, reference : {a.clause : a \in Catalogue}]
References == {a.clause : a \in Answers}
MappingRows == [obligation : Obligations, framework : {a.framework : a \in Answers},
                clause : References, regulation : References]

ASSUME CallsAssumption ==
    /\ Obligations \cap Remaps = {} /\ Obligations \cap Listings = {} /\ Remaps \cap Listings = {}
    /\ None \notin Calls \cup FrameworkRows \cup MappingRows
ASSUME AnswersAssumption ==
    /\ FirstRule \in [Obligations -> 0 .. Len(RuleCitations)]
    /\ \A a \in ModelAnswers : a = Cite(a.framework, a.clause)

VARIABLES
    frameworks,  \* committed frameworks, named by the call that added them
    clauses,     \* committed clauses, each with its framework
    published,   \* committed obligations
    mappings,    \* committed mappings, each named by the call that added it
    call,        \* how far each call is, and what its session holds
    overlapped   \* history: mappings written by a call that had read an older one

vars == <<frameworks, clauses, published, mappings, call, overlapped>>

Idle == [pc |-> "idle", obligation |-> None, at |-> 1, framework |-> None,
         frameworks |-> {}, clauses |-> {}, answer |-> NoMatch, regulation |-> "NONE",
         row |-> None, loaded |-> None, shown |-> {}, late |-> FALSE]

Running(c) == call[c].pc \notin {"idle", "done", "failed"}

Entry(c) == DefaultRegulatoryData[call[c].at]

\* What a statement of the call's session sees.
VisibleFrameworks(c) == frameworks \cup call[c].frameworks
\* Mutant: only the clauses of the own session are looked at.
VisibleClausesOwn(c) == call[c].clauses

VisibleClauses(c) == clauses \cup call[c].clauses

Names(F) == {f.name : f \in F}

\* The mapping a call is about to write.
Mapping(c) == [obligation |-> call[c].obligation, framework |-> call[c].answer.framework,
               clause |-> call[c].answer.clause, regulation |-> call[c].regulation]

Init ==
    /\ frameworks = {} /\ clauses = {} /\ published = {}
    /\ mappings = [c \in Calls |-> None]
    /\ call = [c \in Calls |-> Idle]
    /\ overlapped = {}

-----------------------------------------------------------------------------
\* Calls begin

Begin(c, o) ==
    /\ call[c] = Idle
    /\ call' = [call EXCEPT ![c] = [Idle EXCEPT !.pc = "framework", !.obligation = o,
                                                !.late = frameworks # {}]]
    /\ UNCHANGED <<frameworks, clauses, published, mappings, overlapped>>

\* The thread has flushed the obligation; only its session sees it.
BeginExtraction(o) == Begin(o, o)

BeginRemap(r, o) == o \in published /\ Begin(r, o)

BeginListing(l) == Begin(l, None)

\* Answered 404.
RefuseRemap(r) ==
    /\ call[r] = Idle
    /\ published # Obligations
    /\ call' = [call EXCEPT ![r].pc = "failed"]
    /\ UNCHANGED <<frameworks, clauses, published, mappings, overlapped>>

-----------------------------------------------------------------------------
\* Seeding

\* Mutant: a framework is committed as soon as it is added.
FindFrameworkCommitting(c) ==
    LET named == {f \in VisibleFrameworks(c) : f.name = Entry(c).name}
        new == [by |-> c, name |-> Entry(c).name]
    IN  /\ call[c].pc = "framework"
        /\ \E f \in IF named = {} THEN {new} ELSE named :
              /\ call' = [call EXCEPT ![c].pc = "clauses", ![c].framework = f]
              /\ frameworks' = frameworks \cup {f}
        /\ UNCHANGED <<clauses, published, mappings, overlapped>>

\* One of the frameworks of the name, or a new one, flushed.
FindFramework(c) ==
    LET named == {f \in VisibleFrameworks(c) : f.name = Entry(c).name}
        new == [by |-> c, name |-> Entry(c).name]
    IN  /\ call[c].pc = "framework"
        /\ \E f \in IF named = {} THEN {new} ELSE named :
              call' = [call EXCEPT ![c].pc = "clauses", ![c].framework = f,
                                   ![c].frameworks = @ \cup ({f} \ frameworks)]
        /\ UNCHANGED <<frameworks, clauses, published, mappings, overlapped>>

\* Mutant: the clauses of each framework are committed with it.
AddClausesCommitting(c) ==
    LET entries == [framework : {call[c].framework}, reference : Entry(c).clauses]
    IN  /\ call[c].pc = "clauses"
        /\ frameworks' = frameworks \cup call[c].frameworks
        /\ clauses' = clauses \cup entries
        /\ call' = [call EXCEPT
              ![c].pc = IF call[c].at < Len(DefaultRegulatoryData) THEN "framework" ELSE "commit",
              ![c].at = IF @ < Len(DefaultRegulatoryData) THEN @ + 1 ELSE @]
        /\ UNCHANGED <<published, mappings, overlapped>>

\* The clauses the framework lacks, and on to the next framework.
AddClauses(c) ==
    LET entries == [framework : {call[c].framework}, reference : Entry(c).clauses]
    IN  /\ call[c].pc = "clauses"
        /\ call' = [call EXCEPT
              ![c].clauses = @ \cup (entries \ VisibleClauses(c)),
              ![c].pc = IF call[c].at < Len(DefaultRegulatoryData) THEN "framework" ELSE "commit",
              ![c].at = IF @ < Len(DefaultRegulatoryData) THEN @ + 1 ELSE @]
        /\ UNCHANGED <<frameworks, clauses, published, mappings, overlapped>>

\* The commit publishes whatever else the session of the caller holds: the
\* obligation that a thread has flushed.
CommitSeed(c) ==
    /\ call[c].pc = "commit"
    /\ frameworks' = frameworks \cup call[c].frameworks
    /\ clauses' = clauses \cup call[c].clauses
    /\ published' = published \cup ({c} \cap Obligations)
    /\ call' = [call EXCEPT ![c].pc = IF c \in Listings THEN "list" ELSE "map",
                            ![c].frameworks = {}, ![c].clauses = {}, ![c].framework = None]
    /\ UNCHANGED <<mappings, overlapped>>

ListFrameworks(c) ==
    /\ call[c].pc = "list"
    /\ call' = [call EXCEPT ![c].pc = "done", ![c].shown = Names(frameworks)]
    /\ UNCHANGED <<frameworks, clauses, published, mappings, overlapped>>

-----------------------------------------------------------------------------
\* Mapping

RuleAnswer(o) == IF FirstRule[o] = 0 THEN NoMatch ELSE RuleCitations[FirstRule[o]]

\* By the language model or, without one or when it fails, by the rules.
MapObligation(c) ==
    /\ call[c].pc = "map"
    /\ \E a \in ModelAnswers \cup {RuleAnswer(call[c].obligation)} :
          call' = [call EXCEPT ![c].pc = "resolve", ![c].answer = a]
    /\ UNCHANGED <<frameworks, clauses, published, mappings, overlapped>>

\* Mutant: the framework of the clause is not compared.
ResolveAnywhere(a, C) ==
    IF \E cl \in C : cl.reference = a.clause THEN a.clause ELSE "NONE"

\* The clause of that reference in a framework of that name, if there is one.
Resolve(a, C) ==
    IF \E cl \in C : cl.reference = a.clause /\ cl.framework.name = a.framework
    THEN a.clause ELSE "NONE"

FetchRegulation(c) ==
    /\ call[c].pc = "resolve"
    /\ call' = [call EXCEPT ![c].regulation = Resolve(call[c].answer, clauses),
                            ![c].pc = IF c \in Remaps THEN "check" ELSE "insert"]
    /\ UNCHANGED <<frameworks, clauses, published, mappings, overlapped>>

\* Mutant: any mapping will do.
MappingsOfAny(o) == {m \in Calls : mappings[m] # None}

MappingsOf(o) == {m \in Calls : mappings[m] # None /\ mappings[m].obligation = o}

\* A request looks for a mapping of the obligation; a thread does not.
CheckExisting(r) ==
    LET found == MappingsOf(call[r].obligation)
    IN  /\ call[r].pc = "check"
        /\ \/ \E m \in found : call' = [call EXCEPT ![r].pc = "update", ![r].row = m,
                                                    ![r].loaded = mappings[m]]
           \/ found = {} /\ call' = [call EXCEPT ![r].pc = "insert"]
        /\ UNCHANGED <<frameworks, clauses, published, mappings, overlapped>>

InsertMapping(c) ==
    /\ call[c].pc = "insert"
    /\ mappings' = [mappings EXCEPT ![c] = Mapping(c)]
    /\ call' = [call EXCEPT ![c].pc = "done"]
    /\ UNCHANGED <<frameworks, clauses, published, overlapped>>

\* The session writes the columns that differ from what it loaded, and only
\* them.  The row stays locked from the flush to the commit.
UpdateMapping(r) ==
    LET row == call[r].row
        old == call[r].loaded
    IN  /\ call[r].pc = "update"
        /\ mappings' = [mappings EXCEPT ![row] =
              [k \in DOMAIN @ |-> IF Mapping(r)[k] # old[k] THEN Mapping(r)[k] ELSE @[k]]]
        /\ overlapped' = overlapped \cup (IF mappings[row] # old THEN {row} ELSE {})
        /\ call' = [call EXCEPT ![r].pc = "done"]
        /\ UNCHANGED <<frameworks, clauses, published>>

\* A statement fails, or the process ends: the session is rolled back.
Fail(c) ==
    /\ Running(c)
    /\ call' = [call EXCEPT ![c].pc = "failed", ![c].frameworks = {}, ![c].clauses = {}]
    /\ UNCHANGED <<frameworks, clauses, published, mappings, overlapped>>

Seed(c) == FindFramework(c) \/ AddClauses(c) \/ CommitSeed(c)

Next ==
    \/ \E o \in Obligations : BeginExtraction(o)
    \/ \E r \in Remaps : RefuseRemap(r) \/ CheckExisting(r) \/ UpdateMapping(r)
    \/ \E r \in Remaps, o \in Obligations : BeginRemap(r, o)
    \/ \E l \in Listings : BeginListing(l)
    \/ \E c \in Calls :
          \/ Seed(c)
          \/ ListFrameworks(c)
          \/ MapObligation(c)
          \/ FetchRegulation(c)
          \/ InsertMapping(c)
          \/ Fail(c)

Spec == Init /\ [][Next]_vars

-----------------------------------------------------------------------------
\* Properties

\* Every row names rows of its kind; only a running call holds rows back.
TypeOK ==
    /\ frameworks \subseteq FrameworkRows
    /\ clauses \subseteq [framework : frameworks, reference : {a.clause : a \in Catalogue}]
    /\ published \subseteq Obligations
    /\ mappings \in [Calls -> MappingRows \cup {None}]
    /\ overlapped \subseteq {c \in Calls : mappings[c] # None}
    /\ call \in [Calls ->
          [pc : {"idle", "framework", "clauses", "commit", "list", "map", "resolve",
                 "check", "insert", "update", "done", "failed"},
           obligation : Obligations \cup {None}, at : DOMAIN DefaultRegulatoryData,
           framework : FrameworkRows \cup {None}, frameworks : SUBSET FrameworkRows,
           clauses : SUBSET ClauseRows, answer : Answers, regulation : References,
           row : Calls \cup {None}, loaded : MappingRows \cup {None},
           shown : SUBSET FrameworkNames, late : BOOLEAN]]

\* However many calls seed at once, and whichever of them fail, a framework is
\* never visible with some of its clauses only: seed_default_frameworks
\* commits once, after the last clause.
FrameworksAreWhole ==
    \A f \in frameworks :
        {cl.reference : cl \in {cl \in clauses : cl.framework = f}}
            = {a.clause : a \in {a \in Catalogue : a.framework = f.name}}

\* Seeding a seeded knowledge base adds nothing: a call that began when some
\* framework was committed finds all of them and all of their clauses, even
\* where a name has several rows, and so never runs into the unique index on
\* the references of a framework.
SeedingIsIdempotent ==
    \A c \in Calls : call[c].late => call[c].frameworks = {} /\ call[c].clauses = {}

\* Who asks for the frameworks is shown all that the program knows, whoever
\* else is seeding.
ListingIsComplete ==
    \A l \in Listings : call[l].pc = "done" => call[l].shown = FrameworkNames

\* A call that has ended well leaves its obligation mapped, also where the
\* thread that extracted it failed before it stored a mapping.
MappedInTheEnd ==
    \A c \in Calls \ Listings :
        call[c].pc = "done" => \E m \in Calls :
            mappings[m] # None /\ mappings[m].obligation = call[c].obligation

\* A mapping that no two calls wrote at the same time names a regulation
\* exactly if the framework it names has the clause it names, for whatever the
\* language model cites; and what the rules cite is always found, although
\* the rules and the seeded data are two lists kept by hand.
MappingsAreHonest ==
    \A m \in Calls \ overlapped : mappings[m] # None =>
        LET a == Cite(mappings[m].framework, mappings[m].clause)
        IN  /\ mappings[m].regulation = IF a \in Catalogue THEN a.clause ELSE "NONE"
            /\ a \in {RuleCitations[i] : i \in DOMAIN RuleCitations} =>
                  mappings[m].regulation = a.clause

\* Readers see seeding as one step, which also publishes the obligation that
\* the session of the caller holds; a mapping is seen only after that, of an
\* obligation that is there; and whatever fails or overlaps, nothing seen is
\* withdrawn, nor is a framework ever offered in part.
Publication == INSTANCE KnowledgePublication WITH
    offered <- {Cite(cl.framework.name, cl.reference) : cl \in clauses},
    mapped <- {mappings[m].obligation : m \in {m \in Calls : mappings[m] # None}}

SeedsThenMaps == Publication!Spec

=============================================================================
