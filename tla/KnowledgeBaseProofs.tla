------------------------ MODULE KnowledgeBaseProofs --------------------------
(***************************************************************************)
(* For any number of extractions, requests and listings, any rules that    *)
(* match and any citations of the language model: the invariants, and that *)
(* readers see what KnowledgePublication promises.                         *)
(***************************************************************************)
EXTENDS KnowledgeBase, TLAPS

-----------------------------------------------------------------------------
\* The data

Entries == DOMAIN DefaultRegulatoryData
LastEntry == Len(DefaultRegulatoryData)

\* The references the program knows for a framework.
ReferencesOf(name) == {a.clause : a \in {a \in Catalogue : a.framework = name}}

LEMMA EntryFacts ==
    /\ Entries = 1 .. 4 /\ LastEntry = 4
    /\ \A i, j \in Entries : DefaultRegulatoryData[i].name = DefaultRegulatoryData[j].name => i = j
<1>1. Entries = 1 .. 4
  BY DEF Entries, DefaultRegulatoryData
<1>2. LastEntry = 4
  BY DEF LastEntry, DefaultRegulatoryData
<1>3. /\ DefaultRegulatoryData[1].name = "GDPR" /\ DefaultRegulatoryData[2].name = "ISO 27001"
      /\ DefaultRegulatoryData[3].name = "RBI" /\ DefaultRegulatoryData[4].name = "SEBI"
  BY DEF DefaultRegulatoryData
<1>4. \A i \in Entries : i = 1 \/ i = 2 \/ i = 3 \/ i = 4
  BY <1>1
<1>5. \A i, j \in Entries : DefaultRegulatoryData[i].name = DefaultRegulatoryData[j].name => i = j
  BY <1>3, <1>4
<1> QED BY <1>1, <1>2, <1>5

LEMMA CatalogueFacts ==
    /\ \A a \in Catalogue : a = Cite(a.framework, a.clause)
    /\ \A i \in Entries : ReferencesOf(DefaultRegulatoryData[i].name)
                            = DefaultRegulatoryData[i].clauses
    /\ \A n, r : Cite(n, r) \in Catalogue <=> r \in ReferencesOf(n)
<1>1. \A a : a \in Catalogue <=>
        \E i \in Entries : \E r \in DefaultRegulatoryData[i].clauses :
            a = Cite(DefaultRegulatoryData[i].name, r)
  BY DEF Catalogue, Entries
<1>2. \A n, r : Cite(n, r).framework = n /\ Cite(n, r).clause = r
  BY DEF Cite
<1>3. \A a \in Catalogue : a = Cite(a.framework, a.clause)
  BY <1>1, <1>2
<1>4. \A n, r : r \in ReferencesOf(n) <=> \E a \in Catalogue : a.framework = n /\ a.clause = r
  BY DEF ReferencesOf
<1>5. \A n, r : Cite(n, r) \in Catalogue <=> r \in ReferencesOf(n)
  BY <1>2, <1>3, <1>4
<1>6. ASSUME NEW i \in Entries
      PROVE  ReferencesOf(DefaultRegulatoryData[i].name) = DefaultRegulatoryData[i].clauses
  <2>1. \A r : r \in ReferencesOf(DefaultRegulatoryData[i].name)
                  <=> r \in DefaultRegulatoryData[i].clauses
    BY <1>1, <1>2, <1>4, EntryFacts
  <2> QED BY <2>1
<1> QED BY <1>3, <1>5, <1>6

\* The rules and the seeded data agree.
LEMMA RulesAreInCatalogue == \A i \in DOMAIN RuleCitations : RuleCitations[i] \in Catalogue
<1>1. /\ "Article 5(1)(f)" \in DefaultRegulatoryData[1].clauses
      /\ "Article 17(1)" \in DefaultRegulatoryData[1].clauses
      /\ "Article 32" \in DefaultRegulatoryData[1].clauses
      /\ DefaultRegulatoryData[1].name = "GDPR"
  BY DEF DefaultRegulatoryData
<1>2. /\ "A.12.4.1" \in DefaultRegulatoryData[2].clauses
      /\ "A.9.1.1" \in DefaultRegulatoryData[2].clauses
      /\ "A.18.1.1" \in DefaultRegulatoryData[2].clauses
      /\ DefaultRegulatoryData[2].name = "ISO 27001"
  BY DEF DefaultRegulatoryData
<1>3. /\ "Clause 23" \in DefaultRegulatoryData[3].clauses
      /\ "Clause 38" \in DefaultRegulatoryData[3].clauses
      /\ DefaultRegulatoryData[3].name = "RBI"
  BY DEF DefaultRegulatoryData
<1>4. /\ "Regulation 30" \in DefaultRegulatoryData[4].clauses
      /\ "Circular Clause 4" \in DefaultRegulatoryData[4].clauses
      /\ DefaultRegulatoryData[4].name = "SEBI"
  BY DEF DefaultRegulatoryData
<1>5. 1 \in Entries /\ 2 \in Entries /\ 3 \in Entries /\ 4 \in Entries
  BY EntryFacts
<1>6. \A i \in Entries : \A r \in DefaultRegulatoryData[i].clauses :
        Cite(DefaultRegulatoryData[i].name, r) \in Catalogue
  BY DEF Catalogue, Entries
<1>7. /\ Cite("GDPR", "Article 5(1)(f)") \in Catalogue
      /\ Cite("GDPR", "Article 17(1)") \in Catalogue
      /\ Cite("GDPR", "Article 32") \in Catalogue
      /\ Cite("ISO 27001", "A.12.4.1") \in Catalogue
      /\ Cite("ISO 27001", "A.9.1.1") \in Catalogue
      /\ Cite("ISO 27001", "A.18.1.1") \in Catalogue
      /\ Cite("RBI", "Clause 23") \in Catalogue
      /\ Cite("RBI", "Clause 38") \in Catalogue
      /\ Cite("SEBI", "Regulation 30") \in Catalogue
      /\ Cite("SEBI", "Circular Clause 4") \in Catalogue
  BY <1>1, <1>2, <1>3, <1>4, <1>5, <1>6
<1>8. DOMAIN RuleCitations = 1 .. 10
  BY DEF RuleCitations
<1>9. /\ RuleCitations[1] = Cite("ISO 27001", "A.9.1.1")
      /\ RuleCitations[2] = Cite("ISO 27001", "A.12.4.1")
      /\ RuleCitations[3] = Cite("GDPR", "Article 32")
      /\ RuleCitations[4] = Cite("GDPR", "Article 5(1)(f)")
      /\ RuleCitations[5] = Cite("GDPR", "Article 17(1)")
      /\ RuleCitations[6] = Cite("RBI", "Clause 38")
      /\ RuleCitations[7] = Cite("RBI", "Clause 23")
      /\ RuleCitations[8] = Cite("SEBI", "Regulation 30")
      /\ RuleCitations[9] = Cite("SEBI", "Circular Clause 4")
      /\ RuleCitations[10] = Cite("ISO 27001", "A.18.1.1")
  BY DEF RuleCitations
<1>10. ASSUME NEW i \in DOMAIN RuleCitations
       PROVE  i = 1 \/ i = 2 \/ i = 3 \/ i = 4 \/ i = 5 \/ i = 6 \/ i = 7 \/ i = 8 \/ i = 9 \/ i = 10
  BY <1>8
<1> QED BY <1>7, <1>9, <1>10, Zenon

-----------------------------------------------------------------------------
\* What each action does to the call that takes it

Stages == {"idle", "framework", "clauses", "commit", "list", "map", "resolve",
           "check", "insert", "update", "done", "failed"}

CallRows ==
    [pc : Stages, obligation : Obligations \cup {None}, at : DOMAIN DefaultRegulatoryData,
     framework : FrameworkRows \cup {None}, frameworks : SUBSET FrameworkRows,
     clauses : SUBSET ClauseRows, answer : Answers, regulation : References,
     row : Calls \cup {None}, loaded : MappingRows \cup {None},
     shown : SUBSET FrameworkNames, late : BOOLEAN]

CallsTyped == call \in [Calls -> CallRows]

\* Only one call moves.
Moves(c) == \A u \in Calls \ {c} : call'[u] = call[u]

KeepsSeeding(c) ==
    /\ call'[c].frameworks = call[c].frameworks /\ call'[c].clauses = call[c].clauses
    /\ call'[c].framework = call[c].framework /\ call'[c].at = call[c].at
    /\ call'[c].late = call[c].late

KeepsMapping(c) ==
    /\ call'[c].obligation = call[c].obligation /\ call'[c].answer = call[c].answer
    /\ call'[c].regulation = call[c].regulation
    /\ call'[c].row = call[c].row /\ call'[c].loaded = call[c].loaded
    /\ call'[c].shown = call[c].shown

LEMMA TypedData ==
    /\ NoMatch \in Answers /\ "NONE" \in References
    /\ \A a \in Answers : a = Cite(a.framework, a.clause) /\ a.clause \in References
                          /\ a.framework \in {b.framework : b \in Answers}
    /\ \A i \in Entries : /\ DefaultRegulatoryData[i].name \in FrameworkNames
                           /\ DefaultRegulatoryData[i].clauses \subseteq {a.clause : a \in Catalogue}
    /\ 1 \in Entries
<1>1. NoMatch \in Answers /\ NoMatch.clause = "NONE" /\ NoMatch = Cite(NoMatch.framework, NoMatch.clause)
  BY DEF Answers, NoMatch, Cite
<1>2. \A a \in Answers : a = Cite(a.framework, a.clause)
  <2>1. \A i \in DOMAIN RuleCitations :
          RuleCitations[i] = Cite(RuleCitations[i].framework, RuleCitations[i].clause)
    BY RulesAreInCatalogue, CatalogueFacts
  <2> QED BY <1>1, <2>1, AnswersAssumption DEF Answers
<1>3. ASSUME NEW i \in Entries
      PROVE  DefaultRegulatoryData[i].clauses \subseteq {a.clause : a \in Catalogue}
  <2>1. ReferencesOf(DefaultRegulatoryData[i].name) \subseteq {a.clause : a \in Catalogue}
    BY DEF ReferencesOf
  <2> QED BY <2>1, CatalogueFacts
<1>4. \A i \in Entries : DefaultRegulatoryData[i].name \in FrameworkNames
  BY DEF FrameworkNames, Entries
<1>5. \A a \in Answers : a.clause \in References
  BY DEF References
<1> QED BY <1>1, <1>2, <1>3, <1>4, <1>5, EntryFacts

\* A field of the right type leaves a call well typed.
LEMMA FieldTyped ==
    ASSUME NEW r \in CallRows
    PROVE  /\ \A x \in Stages : [r EXCEPT !.pc = x] \in CallRows
           /\ \A x \in Obligations \cup {None} : [r EXCEPT !.obligation = x] \in CallRows
           /\ \A x \in BOOLEAN : [r EXCEPT !.late = x] \in CallRows
           /\ \A x \in Entries : [r EXCEPT !.at = x] \in CallRows
           /\ \A x \in FrameworkRows \cup {None} : [r EXCEPT !.framework = x] \in CallRows
           /\ \A x \in SUBSET FrameworkRows : [r EXCEPT !.frameworks = x] \in CallRows
           /\ \A x \in SUBSET ClauseRows : [r EXCEPT !.clauses = x] \in CallRows
           /\ \A x \in Answers : [r EXCEPT !.answer = x] \in CallRows
           /\ \A x \in References : [r EXCEPT !.regulation = x] \in CallRows
           /\ \A x \in Calls : [r EXCEPT !.row = x] \in CallRows
           /\ \A x \in MappingRows : [r EXCEPT !.loaded = x] \in CallRows
           /\ \A x \in SUBSET FrameworkNames : [r EXCEPT !.shown = x] \in CallRows
BY DEF CallRows, Entries

LEMMA BeginFacts ==
    ASSUME CallsTyped, NEW c \in Calls, NEW o \in Obligations \cup {None}, Begin(c, o)
    PROVE  /\ CallsTyped' /\ Moves(c) /\ call[c] = Idle
           /\ call'[c].pc = "framework" /\ call'[c].obligation = o /\ call'[c].at = 1
           /\ call'[c].frameworks = {} /\ call'[c].clauses = {}
           /\ call'[c].late => frameworks # {}
           /\ UNCHANGED <<frameworks, clauses, published, mappings, overlapped>>
<1> DEFINE a == [Idle EXCEPT !.pc = "framework"]
           b == [a EXCEPT !.obligation = o]
           d == [b EXCEPT !.late = frameworks # {}]
<1>1. Idle \in CallRows
  BY TypedData DEF Idle, CallRows, Stages, Entries
<1>2. a \in CallRows /\ a.pc = "framework" /\ a.at = 1 /\ a.frameworks = {} /\ a.clauses = {}
  BY <1>1, FieldTyped DEF Idle, Stages
<1> HIDE DEF a
<1>3. /\ b \in CallRows /\ b.pc = "framework" /\ b.obligation = o
      /\ b.at = 1 /\ b.frameworks = {} /\ b.clauses = {}
  BY <1>2, FieldTyped DEF CallRows
<1> HIDE DEF b
<1>4. d \in CallRows
  BY <1>3, FieldTyped
<1>5. /\ d.pc = "framework" /\ d.obligation = o
      /\ d.at = 1 /\ d.frameworks = {} /\ d.clauses = {} /\ (d.late => frameworks # {})
  BY <1>3 DEF CallRows
<1>6. call' = [call EXCEPT ![c] = d]
  BY DEF Begin, a, b
<1> HIDE DEF d
<1> QED BY <1>4, <1>5, <1>6 DEF Begin, CallsTyped, Moves

LEMMA RefuseFacts ==
    ASSUME CallsTyped, NEW r \in Remaps, RefuseRemap(r)
    PROVE  /\ CallsTyped' /\ Moves(r) /\ KeepsSeeding(r) /\ KeepsMapping(r)
           /\ call[r] = Idle /\ call'[r].pc = "failed"
           /\ UNCHANGED <<frameworks, clauses, published, mappings, overlapped>>
BY DEF CallsTyped, CallRows, Stages, RefuseRemap, Calls, Moves, KeepsSeeding, KeepsMapping

LEMMA FindFacts ==
    ASSUME CallsTyped, frameworks \subseteq FrameworkRows, NEW c \in Calls, FindFramework(c)
    PROVE  /\ CallsTyped' /\ Moves(c) /\ KeepsMapping(c)
           /\ call[c].pc = "framework" /\ call'[c].pc = "clauses"
           /\ call'[c].at = call[c].at /\ call'[c].late = call[c].late
           /\ call'[c].clauses = call[c].clauses
           /\ call'[c].framework \in FrameworkRows /\ call'[c].framework.name = Entry(c).name
           /\ call'[c].frameworks = call[c].frameworks \cup ({call'[c].framework} \ frameworks)
           /\ \/ call'[c].framework \in VisibleFrameworks(c)
              \/ \A f \in VisibleFrameworks(c) : f.name # Entry(c).name
           /\ UNCHANGED <<frameworks, clauses, published, mappings, overlapped>>
<1> DEFINE named == {f \in VisibleFrameworks(c) : f.name = Entry(c).name}
           new == [by |-> c, name |-> Entry(c).name]
<1>1. PICK f \in IF named = {} THEN {new} ELSE named :
          call' = [call EXCEPT ![c].pc = "clauses", ![c].framework = f,
                               ![c].frameworks = @ \cup ({f} \ frameworks)]
  BY DEF FindFramework
<1>2. Entry(c).name \in FrameworkNames
  BY TypedData DEF Entry, CallsTyped, CallRows, Entries
<1>3. /\ f \in FrameworkRows /\ f.name = Entry(c).name
      /\ f \in VisibleFrameworks(c) \/ \A g \in VisibleFrameworks(c) : g.name # Entry(c).name
  <2>1. VisibleFrameworks(c) \subseteq FrameworkRows
    BY DEF VisibleFrameworks, CallsTyped, CallRows
  <2>2. new \in FrameworkRows /\ new.name = Entry(c).name
    BY <1>2 DEF FrameworkRows
  <2> HIDE DEF new
  <2> QED BY <2>1, <2>2
<1> HIDE DEF named, new
<1>4. /\ call'[c].pc = "clauses" /\ call'[c].framework = f
      /\ call'[c].frameworks = call[c].frameworks \cup ({f} \ frameworks)
      /\ call'[c].at = call[c].at /\ call'[c].late = call[c].late
      /\ call'[c].clauses = call[c].clauses
      /\ KeepsMapping(c) /\ Moves(c)
  BY <1>1 DEF CallsTyped, CallRows, KeepsMapping, Moves
<1>5. CallsTyped'
  <2> DEFINE a == [call[c] EXCEPT !.pc = "clauses"]
             b == [a EXCEPT !.framework = f]
             d == [b EXCEPT !.frameworks = b.frameworks \cup ({f} \ frameworks)]
  <2>1. a \in CallRows
    BY FieldTyped DEF CallsTyped, Stages
  <2>2. b \in CallRows /\ b.frameworks \in SUBSET FrameworkRows
    BY <1>3, <2>1, FieldTyped DEF CallRows
  <2>3. d \in CallRows
    BY <1>3, <2>2, FieldTyped
  <2>4. call' = [call EXCEPT ![c] = d]
    BY <1>1 DEF CallsTyped, CallRows
  <2> HIDE DEF d
  <2> QED BY <2>3, <2>4 DEF CallsTyped
<1> QED BY <1>3, <1>4, <1>5 DEF FindFramework

LEMMA AddFacts ==
    ASSUME CallsTyped, NEW c \in Calls, AddClauses(c), call[c].framework \in FrameworkRows
    PROVE  /\ CallsTyped' /\ Moves(c) /\ KeepsMapping(c)
           /\ call[c].pc = "clauses"
           /\ call'[c].frameworks = call[c].frameworks /\ call'[c].late = call[c].late
           /\ call'[c].framework = call[c].framework
           /\ call'[c].clauses = call[c].clauses \cup
                ([framework : {call[c].framework}, reference : Entry(c).clauses]
                    \ VisibleClauses(c))
           /\ IF call[c].at < LastEntry
              THEN call'[c].pc = "framework" /\ call'[c].at = call[c].at + 1
              ELSE call'[c].pc = "commit" /\ call'[c].at = call[c].at
           /\ UNCHANGED <<frameworks, clauses, published, mappings, overlapped>>
<1> DEFINE entries == [framework : {call[c].framework}, reference : Entry(c).clauses]
           more == entries \ VisibleClauses(c)
           pc == IF call[c].at < LastEntry THEN "framework" ELSE "commit"
           at == IF call[c].at < LastEntry THEN call[c].at + 1 ELSE call[c].at
           a == [call[c] EXCEPT !.clauses = call[c].clauses \cup more]
           b == [a EXCEPT !.pc = pc]
           d == [b EXCEPT !.at = at]
<1>0. call[c] \in CallRows /\ call[c].at \in Entries
  BY DEF CallsTyped, CallRows, Entries
<1>1. entries \subseteq ClauseRows
  BY <1>0, TypedData DEF ClauseRows, Entry
<1>2. pc \in Stages /\ at \in Entries
  BY <1>0, EntryFacts DEF Stages
<1>3. call' = [call EXCEPT ![c] = d]
  BY <1>0 DEF AddClauses, CallsTyped, CallRows, LastEntry
<1> HIDE DEF more, pc, at
<1>4. a \in CallRows
  BY <1>0, <1>1, FieldTyped DEF CallRows, more
<1>5. b \in CallRows
  BY <1>2, <1>4, FieldTyped
<1>6. d \in CallRows
  BY <1>2, <1>5, FieldTyped
<1>7. CallsTyped' /\ Moves(c) /\ call'[c] = d
  <2> HIDE DEF d
  <2> QED BY <1>3, <1>6 DEF CallsTyped, Moves
<1>8. /\ d.pc = pc /\ d.at = at /\ d.clauses = call[c].clauses \cup more
      /\ d.frameworks = call[c].frameworks /\ d.late = call[c].late
      /\ d.framework = call[c].framework
      /\ d.obligation = call[c].obligation /\ d.answer = call[c].answer
      /\ d.regulation = call[c].regulation /\ d.row = call[c].row
      /\ d.loaded = call[c].loaded /\ d.shown = call[c].shown
  BY <1>0 DEF CallRows
<1> HIDE DEF d
<1> QED BY <1>7, <1>8 DEF AddClauses, KeepsMapping, more, pc, at

LEMMA CommitFacts ==
    ASSUME CallsTyped, NEW c \in Calls, CommitSeed(c)
    PROVE  /\ CallsTyped' /\ Moves(c) /\ KeepsMapping(c)
           /\ call[c].pc = "commit"
           /\ call'[c].pc = IF c \in Listings THEN "list" ELSE "map"
           /\ call'[c].frameworks = {} /\ call'[c].clauses = {}
           /\ call'[c].late = call[c].late
           /\ frameworks' = frameworks \cup call[c].frameworks
           /\ clauses' = clauses \cup call[c].clauses
           /\ published' = published \cup ({c} \cap Obligations)
           /\ UNCHANGED <<mappings, overlapped>>
<1> DEFINE pc == IF c \in Listings THEN "list" ELSE "map"
           a == [call[c] EXCEPT !.pc = pc]
           b == [a EXCEPT !.frameworks = {}]
           d == [b EXCEPT !.clauses = {}]
           e == [d EXCEPT !.framework = None]
<1>0. call[c] \in CallRows /\ pc \in Stages
  BY DEF CallsTyped, Stages
<1>1. call' = [call EXCEPT ![c] = e]
  BY <1>0 DEF CommitSeed, CallsTyped, CallRows
<1> HIDE DEF pc
<1>2. a \in CallRows
  BY <1>0, FieldTyped
<1>3. b \in CallRows
  BY <1>2, FieldTyped
<1>4. d \in CallRows
  BY <1>3, FieldTyped
<1>5. e \in CallRows
  BY <1>4, FieldTyped
<1>6. /\ e.pc = pc /\ e.frameworks = {} /\ e.clauses = {} /\ e.late = call[c].late
      /\ e.obligation = call[c].obligation /\ e.answer = call[c].answer
      /\ e.regulation = call[c].regulation /\ e.row = call[c].row
      /\ e.loaded = call[c].loaded /\ e.shown = call[c].shown
  BY <1>0 DEF CallRows
<1>7. CallsTyped' /\ Moves(c) /\ call'[c] = e
  <2> HIDE DEF e
  <2> QED BY <1>1, <1>5 DEF CallsTyped, Moves
<1> HIDE DEF e
<1> QED BY <1>6, <1>7 DEF CommitSeed, KeepsMapping, pc

LEMMA ListFacts ==
    ASSUME CallsTyped, frameworks \subseteq FrameworkRows, NEW c \in Calls, ListFrameworks(c)
    PROVE  /\ CallsTyped' /\ Moves(c) /\ KeepsSeeding(c)
           /\ call'[c].obligation = call[c].obligation
           /\ call[c].pc = "list" /\ call'[c].pc = "done"
           /\ call'[c].shown = Names(frameworks)
           /\ UNCHANGED <<frameworks, clauses, published, mappings, overlapped>>
<1>1. Names(frameworks) \in SUBSET FrameworkNames
  BY DEF Names, FrameworkRows
<1> DEFINE a == [call[c] EXCEPT !.pc = "done"]
           b == [a EXCEPT !.shown = Names(frameworks)]
<1>2. a \in CallRows
  BY FieldTyped DEF CallsTyped, Stages
<1>3. b \in CallRows
  BY <1>1, <1>2, FieldTyped
<1>4. call' = [call EXCEPT ![c] = b]
  BY DEF ListFrameworks, CallsTyped, CallRows
<1>5. /\ b.pc = "done" /\ b.shown = Names(frameworks) /\ b.obligation = call[c].obligation
      /\ b.frameworks = call[c].frameworks /\ b.clauses = call[c].clauses
      /\ b.framework = call[c].framework /\ b.at = call[c].at /\ b.late = call[c].late
  BY DEF CallsTyped, CallRows
<1> HIDE DEF b
<1> QED BY <1>3, <1>4, <1>5 DEF ListFrameworks, CallsTyped, Moves, KeepsSeeding

LEMMA MapFacts ==
    ASSUME CallsTyped, NEW c \in Calls, MapObligation(c), call[c].obligation \in Obligations
    PROVE  /\ CallsTyped' /\ Moves(c) /\ KeepsSeeding(c)
           /\ call'[c].obligation = call[c].obligation
           /\ call[c].pc = "map" /\ call'[c].pc = "resolve"
           /\ UNCHANGED <<frameworks, clauses, published, mappings, overlapped>>
<1>1. PICK answer \in ModelAnswers \cup {RuleAnswer(call[c].obligation)} :
          call' = [call EXCEPT ![c].pc = "resolve", ![c].answer = answer]
  BY DEF MapObligation
<1>2. answer \in Answers
  <2>1. FirstRule[call[c].obligation] \in 0 .. Len(RuleCitations)
    BY AnswersAssumption
  <2>2. FirstRule[call[c].obligation] # 0 => FirstRule[call[c].obligation] \in DOMAIN RuleCitations
    BY <2>1 DEF RuleCitations
  <2> QED BY <1>1, <2>2 DEF RuleAnswer, Answers
<1> DEFINE a == [call[c] EXCEPT !.pc = "resolve"]
           b == [a EXCEPT !.answer = answer]
<1>3. a \in CallRows
  BY FieldTyped DEF CallsTyped, Stages
<1>4. b \in CallRows
  BY <1>2, <1>3, FieldTyped
<1>5. call' = [call EXCEPT ![c] = b]
  BY <1>1 DEF CallsTyped, CallRows
<1>6. /\ b.pc = "resolve" /\ b.obligation = call[c].obligation
      /\ b.frameworks = call[c].frameworks /\ b.clauses = call[c].clauses
      /\ b.framework = call[c].framework /\ b.at = call[c].at /\ b.late = call[c].late
  BY DEF CallsTyped, CallRows
<1> HIDE DEF b
<1> QED BY <1>4, <1>5, <1>6 DEF MapObligation, CallsTyped, Moves, KeepsSeeding

LEMMA FetchFacts ==
    ASSUME CallsTyped, NEW c \in Calls, FetchRegulation(c)
    PROVE  /\ CallsTyped' /\ Moves(c) /\ KeepsSeeding(c)
           /\ call'[c].obligation = call[c].obligation /\ call'[c].answer = call[c].answer
           /\ call'[c].regulation = Resolve(call[c].answer, clauses)
           /\ call[c].pc = "resolve"
           /\ call'[c].pc = IF c \in Remaps THEN "check" ELSE "insert"
           /\ UNCHANGED <<frameworks, clauses, published, mappings, overlapped>>
<1> DEFINE pc == IF c \in Remaps THEN "check" ELSE "insert"
           regulation == Resolve(call[c].answer, clauses)
           a == [call[c] EXCEPT !.regulation = regulation]
           b == [a EXCEPT !.pc = pc]
<1>1. call[c] \in CallRows /\ pc \in Stages /\ regulation \in References
  BY TypedData DEF CallsTyped, CallRows, Stages, Resolve
<1>2. call' = [call EXCEPT ![c] = b]
  BY DEF FetchRegulation, CallsTyped, CallRows
<1> HIDE DEF pc, regulation
<1>3. a \in CallRows
  BY <1>1, FieldTyped
<1>4. b \in CallRows
  BY <1>1, <1>3, FieldTyped
<1>5. /\ b.pc = pc /\ b.obligation = call[c].obligation /\ b.answer = call[c].answer
      /\ b.regulation = regulation
      /\ b.frameworks = call[c].frameworks /\ b.clauses = call[c].clauses
      /\ b.framework = call[c].framework /\ b.at = call[c].at /\ b.late = call[c].late
  BY <1>1 DEF CallRows
<1> HIDE DEF b
<1> QED BY <1>2, <1>4, <1>5 DEF FetchRegulation, CallsTyped, Moves, KeepsSeeding, pc, regulation

LEMMA CheckFacts ==
    ASSUME CallsTyped, mappings \in [Calls -> MappingRows \cup {None}],
           NEW r \in Remaps, CheckExisting(r)
    PROVE  /\ CallsTyped' /\ Moves(r) /\ KeepsSeeding(r)
           /\ call'[r].obligation = call[r].obligation /\ call'[r].answer = call[r].answer
           /\ call'[r].regulation = call[r].regulation
           /\ call[r].pc = "check"
           /\ \/ call'[r].pc = "insert"
              \/ /\ call'[r].pc = "update" /\ call'[r].row \in Calls
                 /\ call'[r].loaded = mappings[call'[r].row]
                 /\ call'[r].loaded \in MappingRows
                 /\ call'[r].loaded.obligation = call[r].obligation
           /\ UNCHANGED <<frameworks, clauses, published, mappings, overlapped>>
<1>0. r \in Calls /\ call[r] \in CallRows
  BY DEF Calls, CallsTyped
<1>1. CASE call' = [call EXCEPT ![r].pc = "insert"]
  <2> DEFINE a == [call[r] EXCEPT !.pc = "insert"]
  <2>1. a \in CallRows
    BY <1>0, FieldTyped DEF Stages
  <2> QED BY <1>0, <1>1, <2>1 DEF CheckExisting, CallsTyped, CallRows, Moves, KeepsSeeding
<1>2. ASSUME NEW m \in MappingsOf(call[r].obligation),
             call' = [call EXCEPT ![r].pc = "update", ![r].row = m, ![r].loaded = mappings[m]]
      PROVE  /\ CallsTyped' /\ Moves(r) /\ KeepsSeeding(r)
             /\ call'[r].obligation = call[r].obligation /\ call'[r].answer = call[r].answer
             /\ call'[r].regulation = call[r].regulation
             /\ call'[r].pc = "update" /\ call'[r].row = m /\ call'[r].loaded = mappings[m]
  <2> DEFINE a == [call[r] EXCEPT !.pc = "update"]
             b == [a EXCEPT !.row = m]
             d == [b EXCEPT !.loaded = mappings[m]]
  <2>1. a \in CallRows
    BY <1>0, FieldTyped DEF Stages
  <2>2. b \in CallRows
    BY <2>1, FieldTyped DEF MappingsOf
  <2>3. d \in CallRows
    BY <2>2, FieldTyped DEF MappingsOf
  <2>4. call' = [call EXCEPT ![r] = d]
    BY <1>0, <1>2 DEF CallsTyped, CallRows
  <2>5. /\ d.pc = "update" /\ d.row = m /\ d.loaded = mappings[m]
        /\ d.obligation = call[r].obligation /\ d.answer = call[r].answer
        /\ d.regulation = call[r].regulation
        /\ d.frameworks = call[r].frameworks /\ d.clauses = call[r].clauses
        /\ d.framework = call[r].framework /\ d.at = call[r].at /\ d.late = call[r].late
    BY <1>0 DEF CallRows
  <2> HIDE DEF d
  <2> QED BY <1>0, <2>3, <2>4, <2>5 DEF CallsTyped, Moves, KeepsSeeding
<1>3. \A m \in MappingsOf(call[r].obligation) :
        m \in Calls /\ mappings[m] \in MappingRows /\ mappings[m].obligation = call[r].obligation
  BY DEF MappingsOf
<1> QED BY <1>1, <1>2, <1>3 DEF CheckExisting

\* Insertion, update and failure end a call.
LEMMA EndFacts ==
    ASSUME CallsTyped, NEW c \in Calls, NEW pc \in {"done", "failed"},
           call' = [call EXCEPT ![c].pc = pc]
    PROVE  /\ CallsTyped' /\ Moves(c) /\ KeepsSeeding(c) /\ KeepsMapping(c)
           /\ call'[c].pc = pc
<1> DEFINE a == [call[c] EXCEPT !.pc = pc]
<1>1. a \in CallRows
  BY FieldTyped DEF CallsTyped, Stages
<1> QED BY <1>1 DEF CallsTyped, CallRows, Moves, KeepsSeeding, KeepsMapping

LEMMA FailFacts ==
    ASSUME CallsTyped, NEW c \in Calls, Fail(c)
    PROVE  /\ CallsTyped' /\ Moves(c) /\ KeepsMapping(c)
           /\ call'[c].pc = "failed"
           /\ call'[c].frameworks = {} /\ call'[c].clauses = {}
           /\ call'[c].late = call[c].late
           /\ UNCHANGED <<frameworks, clauses, published, mappings, overlapped>>
<1> DEFINE a == [call[c] EXCEPT !.pc = "failed"]
           b == [a EXCEPT !.frameworks = {}]
           d == [b EXCEPT !.clauses = {}]
<1>0. call[c] \in CallRows
  BY DEF CallsTyped
<1>1. a \in CallRows
  BY <1>0, FieldTyped DEF Stages
<1>2. b \in CallRows
  BY <1>1, FieldTyped
<1>3. d \in CallRows
  BY <1>2, FieldTyped
<1>4. call' = [call EXCEPT ![c] = d]
  BY <1>0 DEF Fail, CallsTyped, CallRows
<1>5. /\ d.pc = "failed" /\ d.frameworks = {} /\ d.clauses = {} /\ d.late = call[c].late
      /\ d.obligation = call[c].obligation /\ d.answer = call[c].answer
      /\ d.regulation = call[c].regulation /\ d.row = call[c].row
      /\ d.loaded = call[c].loaded /\ d.shown = call[c].shown
  BY <1>0 DEF CallRows
<1> HIDE DEF d
<1> QED BY <1>3, <1>4, <1>5 DEF Fail, CallsTyped, Moves, KeepsMapping

-----------------------------------------------------------------------------
\* The inductive invariant

\* A framework has all its clauses among C.
WholeIn(f, C) == \A r \in ReferencesOf(f.name) : [framework |-> f, reference |-> r] \in C

\* Every framework the program knows is named among F.
AllNamed(F) == \A i \in Entries : \E f \in F : f.name = DefaultRegulatoryData[i].name

\* Committed clauses belong to committed frameworks and are known references of
\* them; committed frameworks are whole, and once there is one there are all.
StoreInv ==
    /\ frameworks \subseteq FrameworkRows
    /\ \A cl \in clauses : /\ cl \in ClauseRows /\ cl.framework \in frameworks
                          /\ cl.reference \in ReferencesOf(cl.framework.name)
    /\ \A f \in frameworks : WholeIn(f, clauses)
    /\ frameworks # {} => AllNamed(frameworks)

\* What the session of a call holds back is whole but for the framework it is
\* at; it has seen to the frameworks before that; and a call that began after
\* a commit holds nothing back.
SessionInv(c) ==
    /\ \A cl \in call[c].clauses :
          /\ cl.framework \in VisibleFrameworks(c)
          /\ cl.reference \in ReferencesOf(cl.framework.name)
    /\ \A f \in call[c].frameworks :
          \/ WholeIn(f, VisibleClauses(c))
          \/ call[c].pc = "clauses" /\ f = call[c].framework
    /\ call[c].pc = "clauses" =>
          /\ call[c].framework \in VisibleFrameworks(c)
          /\ call[c].framework.name = Entry(c).name
    /\ call[c].pc \in {"framework", "clauses", "commit"} =>
          \A i \in Entries : i < call[c].at \/ call[c].pc = "commit" =>
              \E f \in VisibleFrameworks(c) : f.name = DefaultRegulatoryData[i].name
    /\ call[c].late => frameworks # {} /\ call[c].frameworks = {} /\ call[c].clauses = {}
    /\ call[c].pc \in {"list", "map", "resolve", "check", "insert", "update"} => frameworks # {}

\* The regulation of a citation that is known.
Known(a) == IF a \in Catalogue THEN a.clause ELSE "NONE"

\* What a call is about to write, and what it leaves behind.
MappingInv(c) ==
    /\ c \notin Listings /\ call[c].pc \notin {"idle", "failed"} =>
          call[c].obligation \in Obligations
    /\ call[c].pc \in {"map", "resolve", "check", "insert", "update"} => c \notin Listings
    /\ call[c].pc = "list" => c \in Listings
    /\ call[c].pc \in {"check", "insert", "update"} =>
          call[c].regulation = Known(call[c].answer)
    /\ call[c].pc = "update" =>
          /\ call[c].row \in Calls /\ call[c].loaded \in MappingRows
          /\ call[c].loaded.obligation = call[c].obligation
          /\ mappings[call[c].row] \in MappingRows
          /\ mappings[call[c].row].obligation = call[c].obligation
    /\ call[c].pc = "done" =>
          IF c \in Listings THEN call[c].shown = FrameworkNames
          ELSE \E m \in Calls :
                  mappings[m] \in MappingRows /\ mappings[m].obligation = call[c].obligation
    /\ mappings[c] # None => call[c].pc = "done" /\ mappings[c].obligation = call[c].obligation

RowsInv ==
    /\ mappings \in [Calls -> MappingRows \cup {None}]
    /\ overlapped \subseteq {m \in Calls : mappings[m] # None}
    /\ \A m \in Calls \ overlapped : mappings[m] # None =>
          mappings[m].regulation = Known(Cite(mappings[m].framework, mappings[m].clause))

Inv ==
    /\ CallsTyped /\ StoreInv /\ RowsInv /\ published \subseteq Obligations
    /\ \A c \in Calls : SessionInv(c) /\ MappingInv(c)

-----------------------------------------------------------------------------
\* What does not move stays as it was

LEMMA SessionStays ==
    ASSUME NEW u \in Calls, SessionInv(u), call'[u] = call[u],
           frameworks \subseteq frameworks', clauses \subseteq clauses'
    PROVE  SessionInv(u)'
<1>1. VisibleFrameworks(u) \subseteq VisibleFrameworks(u)'
  BY DEF VisibleFrameworks
<1>2. VisibleClauses(u) \subseteq VisibleClauses(u)'
  BY DEF VisibleClauses
<1>3. Entry(u)' = Entry(u)
  BY DEF Entry
<1>4. \A f : WholeIn(f, VisibleClauses(u)) => WholeIn(f, VisibleClauses(u)')
  BY <1>2 DEF WholeIn
<1> QED BY <1>1, <1>3, <1>4 DEF SessionInv

\* A call that moves on after seeding, or before it.
LEMMA SessionKept ==
    ASSUME NEW c \in Calls, SessionInv(c), KeepsSeeding(c),
           frameworks' = frameworks, clauses' = clauses,
           call[c].pc \notin {"framework", "clauses", "commit"},
           call'[c].pc \notin {"framework", "clauses", "commit"},
           call'[c].pc \in {"list", "map", "resolve", "check", "insert", "update"}
             => frameworks # {}
    PROVE  SessionInv(c)'
<1>1. VisibleFrameworks(c)' = VisibleFrameworks(c) /\ VisibleClauses(c)' = VisibleClauses(c)
  BY DEF VisibleFrameworks, VisibleClauses, KeepsSeeding
<1> QED BY <1>1 DEF SessionInv, KeepsSeeding

\* Mappings are added, or written again for the same obligation.
MappingsGrow ==
    \A m \in Calls : mappings[m] \in MappingRows =>
        mappings'[m] \in MappingRows /\ mappings'[m].obligation = mappings[m].obligation

LEMMA MappingStays ==
    ASSUME RowsInv, NEW u \in Calls, MappingInv(u), call'[u] = call[u], MappingsGrow,
           mappings[u] = None => mappings'[u] = None
    PROVE  MappingInv(u)'
BY DEF MappingInv, MappingsGrow, RowsInv

LEMMA InvMove ==
    ASSUME Inv, NEW c \in Calls, Moves(c), CallsTyped',
           frameworks \subseteq frameworks', clauses \subseteq clauses',
           mappings' = mappings, overlapped' = overlapped,
           StoreInv', published' \subseteq Obligations, SessionInv(c)', MappingInv(c)'
    PROVE  Inv'
<1>1. RowsInv'
  BY DEF Inv, RowsInv
<1>2. ASSUME NEW u \in Calls \ {c} PROVE SessionInv(u)' /\ MappingInv(u)'
  BY SessionStays, MappingStays DEF Inv, Moves, MappingsGrow
<1> QED BY <1>1, <1>2 DEF Inv

-----------------------------------------------------------------------------
\* Every step keeps it

LEMMA BeginKeeps ==
    ASSUME Inv, NEW c \in Calls, NEW o \in Obligations \cup {None}, Begin(c, o),
           c \notin Listings => o \in Obligations
    PROVE  Inv'
<1>1. CallsTyped BY DEF Inv
<1>2. SessionInv(c)'
  BY <1>1, BeginFacts, EntryFacts DEF SessionInv
<1>3. MappingInv(c)'
  <2>1. call[c].pc = "idle"
    BY <1>1, BeginFacts DEF Idle
  <2> QED BY <1>1, <2>1, BeginFacts DEF Inv, MappingInv
<1>4. StoreInv' /\ published' \subseteq Obligations
  BY <1>1, BeginFacts DEF Inv, StoreInv
<1> QED BY <1>1, <1>2, <1>3, <1>4, BeginFacts, InvMove

LEMMA RefuseKeeps ==
    ASSUME Inv, NEW r \in Remaps, RefuseRemap(r) PROVE Inv'
<1>1. CallsTyped /\ r \in Calls BY DEF Inv, Calls
<1>2. call[r].pc = "idle"
  BY <1>1, RefuseFacts DEF Idle
<1>3. SessionInv(r)'
  BY <1>1, <1>2, RefuseFacts, SessionKept DEF Inv
<1>4. MappingInv(r)'
  BY <1>1, <1>2, RefuseFacts DEF Inv, MappingInv, KeepsMapping
<1>5. StoreInv' /\ published' \subseteq Obligations
  BY <1>1, RefuseFacts DEF Inv, StoreInv
<1> QED BY <1>1, <1>3, <1>4, <1>5, RefuseFacts, InvMove

LEMMA FindKeeps ==
    ASSUME Inv, NEW c \in Calls, FindFramework(c) PROVE Inv'
<1>1. CallsTyped /\ frameworks \subseteq FrameworkRows /\ SessionInv(c) /\ MappingInv(c)
  BY DEF Inv, StoreInv
<1> DEFINE f == call'[c].framework
<1>2. /\ call[c].pc = "framework" /\ call'[c].pc = "clauses"
      /\ call'[c].at = call[c].at /\ call'[c].late = call[c].late
      /\ call'[c].clauses = call[c].clauses
      /\ f.name = Entry(c).name
      /\ call'[c].frameworks = call[c].frameworks \cup ({f} \ frameworks)
      /\ f \in VisibleFrameworks(c) \/ \A g \in VisibleFrameworks(c) : g.name # Entry(c).name
      /\ UNCHANGED <<frameworks, clauses, published, mappings, overlapped>>
  BY <1>1, FindFacts
<1>3. /\ VisibleFrameworks(c)' = VisibleFrameworks(c) \cup {f}
      /\ VisibleClauses(c)' = VisibleClauses(c) /\ Entry(c)' = Entry(c)
  BY <1>2 DEF VisibleFrameworks, VisibleClauses, Entry
<1>4. call[c].late => call'[c].frameworks = {}
  <2> SUFFICES ASSUME call[c].late PROVE f \in frameworks
    BY <1>1, <1>2 DEF SessionInv
  <2>1. VisibleFrameworks(c) = frameworks /\ AllNamed(frameworks)
    BY <1>1 DEF SessionInv, VisibleFrameworks, Inv, StoreInv
  <2>2. call[c].at \in Entries
    BY <1>1 DEF CallsTyped, CallRows, Entries
  <2> QED BY <1>2, <2>1, <2>2 DEF AllNamed, Entry
<1>5. SessionInv(c)'
  <2>1. \A cl \in call'[c].clauses :
          cl.framework \in VisibleFrameworks(c)' /\ cl.reference \in ReferencesOf(cl.framework.name)
    BY <1>1, <1>2, <1>3 DEF SessionInv
  <2>2. \A g \in call'[c].frameworks : WholeIn(g, VisibleClauses(c)') \/ g = f
    BY <1>1, <1>2, <1>3 DEF SessionInv
  <2>3. f \in VisibleFrameworks(c)' /\ f.name = Entry(c)'.name
    BY <1>2, <1>3
  <2>4. \A i \in Entries : i < call'[c].at =>
          \E g \in VisibleFrameworks(c)' : g.name = DefaultRegulatoryData[i].name
    BY <1>1, <1>2, <1>3 DEF SessionInv
  <2>5. call'[c].late => frameworks' # {} /\ call'[c].frameworks = {} /\ call'[c].clauses = {}
    BY <1>1, <1>2, <1>4 DEF SessionInv
  <2> HIDE DEF f
  <2> QED BY <1>2, <2>1, <2>2, <2>3, <2>4, <2>5 DEF SessionInv, f
<1>6. MappingInv(c)'
  BY <1>1, <1>2, FindFacts DEF MappingInv, KeepsMapping
<1>7. StoreInv' /\ published' \subseteq Obligations
  BY <1>2 DEF Inv, StoreInv
<1> QED BY <1>1, <1>2, <1>5, <1>6, <1>7, FindFacts, InvMove

LEMMA AddKeeps ==
    ASSUME Inv, NEW c \in Calls, AddClauses(c) PROVE Inv'
<1>1. CallsTyped /\ SessionInv(c) /\ MappingInv(c) /\ StoreInv
  BY DEF Inv
<1> DEFINE f == call[c].framework
           entries == [framework : {f}, reference : Entry(c).clauses]
<1>2. call[c].pc = "clauses"
  BY DEF AddClauses
<1>3. f \in VisibleFrameworks(c) /\ f.name = Entry(c).name /\ f \in FrameworkRows
  BY <1>1, <1>2 DEF SessionInv, VisibleFrameworks, StoreInv, CallsTyped, CallRows
<1>4. call[c].at \in Entries /\ Entry(c).clauses = ReferencesOf(f.name)
  BY <1>1, <1>3, CatalogueFacts DEF CallsTyped, CallRows, Entries, Entry
<1>5. /\ call'[c].frameworks = call[c].frameworks /\ call'[c].late = call[c].late
      /\ call'[c].clauses = call[c].clauses \cup (entries \ VisibleClauses(c))
      /\ IF call[c].at < LastEntry
         THEN call'[c].pc = "framework" /\ call'[c].at = call[c].at + 1
         ELSE call'[c].pc = "commit" /\ call'[c].at = call[c].at
      /\ UNCHANGED <<frameworks, clauses, published, mappings, overlapped>>
  BY <1>1, <1>3, AddFacts
<1>6. /\ VisibleFrameworks(c)' = VisibleFrameworks(c)
      /\ VisibleClauses(c)' = VisibleClauses(c) \cup entries
  BY <1>5 DEF VisibleFrameworks, VisibleClauses
<1>7. WholeIn(f, VisibleClauses(c)')
  BY <1>4, <1>6 DEF WholeIn
<1>8. \A cl \in entries : cl.framework = f /\ cl.reference \in ReferencesOf(f.name)
  BY <1>4
<1>9. call[c].late => entries \subseteq clauses
  <2> SUFFICES ASSUME call[c].late PROVE entries \subseteq clauses OBVIOUS
  <2>1. f \in frameworks
    BY <1>1, <1>3 DEF SessionInv, VisibleFrameworks
  <2>2. WholeIn(f, clauses)
    BY <1>1, <2>1 DEF StoreInv
  <2>3. \A cl \in entries : cl = [framework |-> f, reference |-> cl.reference]
    OBVIOUS
  <2> QED BY <1>8, <2>2, <2>3 DEF WholeIn
<1>10. call[c].late => call'[c].clauses = {}
  BY <1>1, <1>5, <1>9 DEF SessionInv, VisibleClauses
<1>11. \A i \in Entries : i < call'[c].at \/ call'[c].pc = "commit" =>
          \E g \in VisibleFrameworks(c) : g.name = DefaultRegulatoryData[i].name
  <2> SUFFICES ASSUME NEW i \in Entries, i < call'[c].at \/ call'[c].pc = "commit"
               PROVE  \E g \in VisibleFrameworks(c) : g.name = DefaultRegulatoryData[i].name
    OBVIOUS
  <2>1. i < call[c].at \/ i = call[c].at
    BY <1>4, <1>5, EntryFacts
  <2>2. CASE i < call[c].at
    BY <1>1, <1>2, <2>2 DEF SessionInv
  <2>3. CASE i = call[c].at
    BY <1>3, <2>3 DEF Entry
  <2> QED BY <2>1, <2>2, <2>3
<1>12. SessionInv(c)'
  <2>1. \A cl \in call'[c].clauses :
          cl.framework \in VisibleFrameworks(c)' /\ cl.reference \in ReferencesOf(cl.framework.name)
    BY <1>1, <1>3, <1>5, <1>6, <1>8 DEF SessionInv
  <2>2. \A g \in call'[c].frameworks : WholeIn(g, VisibleClauses(c)')
    BY <1>1, <1>5, <1>6, <1>7 DEF SessionInv, WholeIn
  <2>3. call'[c].late => frameworks' # {} /\ call'[c].frameworks = {} /\ call'[c].clauses = {}
    BY <1>1, <1>5, <1>10 DEF SessionInv
  <2>4. call'[c].pc \in {"framework", "commit"}
    BY <1>5
  <2> HIDE DEF entries, f
  <2> QED BY <1>6, <1>11, <2>1, <2>2, <2>3, <2>4 DEF SessionInv
<1>13. MappingInv(c)'
  <2>1. KeepsMapping(c) /\ call'[c].pc \in {"framework", "commit"}
    BY <1>1, <1>3, AddFacts
  <2> QED BY <1>1, <1>2, <1>5, <2>1 DEF MappingInv, KeepsMapping
<1>14. StoreInv' /\ published' \subseteq Obligations
  BY <1>5 DEF Inv, StoreInv
<1>15. Moves(c) /\ CallsTyped'
  BY <1>1, <1>3, AddFacts
<1> QED BY <1>5, <1>12, <1>13, <1>14, <1>15, InvMove

LEMMA CommitKeeps ==
    ASSUME Inv, NEW c \in Calls, CommitSeed(c) PROVE Inv'
<1>1. CallsTyped /\ SessionInv(c) /\ MappingInv(c) /\ StoreInv
  BY DEF Inv
<1>2. /\ call[c].pc = "commit" /\ call'[c].pc = IF c \in Listings THEN "list" ELSE "map"
      /\ call'[c].frameworks = {} /\ call'[c].clauses = {} /\ call'[c].late = call[c].late
      /\ frameworks' = frameworks \cup call[c].frameworks
      /\ clauses' = clauses \cup call[c].clauses
      /\ published' = published \cup ({c} \cap Obligations)
      /\ UNCHANGED <<mappings, overlapped>>
  BY <1>1, CommitFacts
<1>3. /\ VisibleFrameworks(c) = frameworks' /\ VisibleClauses(c) = clauses'
  BY <1>2 DEF VisibleFrameworks, VisibleClauses
<1>4. AllNamed(frameworks') /\ frameworks' # {}
  <2>1. AllNamed(frameworks')
    BY <1>1, <1>2, <1>3 DEF SessionInv, AllNamed
  <2> QED BY <2>1, EntryFacts DEF AllNamed
<1>5. StoreInv'
  <2>1. frameworks' \subseteq FrameworkRows
    BY <1>1, <1>2 DEF StoreInv, CallsTyped, CallRows
  <2>2. \A cl \in clauses' : /\ cl \in ClauseRows /\ cl.framework \in frameworks'
                            /\ cl.reference \in ReferencesOf(cl.framework.name)
    <3>1. call[c].clauses \subseteq ClauseRows
      BY <1>1 DEF CallsTyped, CallRows
    <3> QED BY <1>1, <1>2, <1>3, <3>1 DEF StoreInv, SessionInv
  <2>3. \A f \in frameworks' : WholeIn(f, clauses')
    <3>1. \A f \in frameworks : WholeIn(f, clauses')
      BY <1>1, <1>2 DEF StoreInv, WholeIn
    <3>2. \A f \in call[c].frameworks : WholeIn(f, clauses')
      BY <1>1, <1>2, <1>3 DEF SessionInv
    <3> QED BY <1>2, <3>1, <3>2
  <2> QED BY <1>4, <2>1, <2>2, <2>3 DEF StoreInv
<1>6. SessionInv(c)'
  <2>1. call'[c].pc \in {"list", "map"}
    BY <1>2
  <2> QED BY <1>2, <1>4, <2>1 DEF SessionInv
<1>7. MappingInv(c)'
  <2>1. KeepsMapping(c)
    BY <1>1, CommitFacts
  <2>2. call'[c].pc \in {"list", "map"} /\ (call'[c].pc = "list" <=> c \in Listings)
    BY <1>2
  <2> QED BY <1>1, <1>2, <2>1, <2>2 DEF MappingInv, KeepsMapping
<1>8. published' \subseteq Obligations
  BY <1>2 DEF Inv
<1>9. Moves(c) /\ CallsTyped'
  BY <1>1, CommitFacts
<1> QED BY <1>2, <1>5, <1>6, <1>7, <1>8, <1>9, InvMove

LEMMA ListKeeps ==
    ASSUME Inv, NEW c \in Calls, ListFrameworks(c) PROVE Inv'
<1>1. CallsTyped /\ SessionInv(c) /\ MappingInv(c) /\ StoreInv /\ frameworks \subseteq FrameworkRows
  BY DEF Inv, StoreInv
<1>2. SessionInv(c)'
  BY <1>1, ListFacts, SessionKept
<1>3. Names(frameworks) = FrameworkNames
  <2>1. AllNamed(frameworks)
    BY <1>1, ListFacts DEF SessionInv, StoreInv
  <2>2. FrameworkNames \subseteq Names(frameworks)
    BY <2>1 DEF AllNamed, Names, FrameworkNames, Entries
  <2>3. Names(frameworks) \subseteq FrameworkNames
    BY <1>1 DEF Names, FrameworkRows
  <2> QED BY <2>2, <2>3
<1>4. MappingInv(c)'
  BY <1>1, <1>3, ListFacts DEF MappingInv
<1>5. StoreInv' /\ published' \subseteq Obligations
  BY <1>1, ListFacts DEF Inv, StoreInv
<1> QED BY <1>1, <1>2, <1>4, <1>5, ListFacts, InvMove

LEMMA MapKeeps ==
    ASSUME Inv, NEW c \in Calls, MapObligation(c) PROVE Inv'
<1>1. CallsTyped /\ SessionInv(c) /\ MappingInv(c) /\ StoreInv
  BY DEF Inv
<1>2. call[c].pc = "map"
  BY DEF MapObligation
<1>3. call[c].obligation \in Obligations /\ frameworks # {}
  BY <1>1, <1>2 DEF MappingInv, SessionInv
<1>4. SessionInv(c)'
  BY <1>1, <1>3, MapFacts, SessionKept
<1>5. MappingInv(c)'
  BY <1>1, <1>3, MapFacts DEF MappingInv
<1>6. StoreInv' /\ published' \subseteq Obligations
  BY <1>1, <1>3, MapFacts DEF Inv, StoreInv
<1> QED BY <1>1, <1>3, <1>4, <1>5, <1>6, MapFacts, InvMove

\* A regulation is found exactly for a known citation, once all is seeded.
LEMMA ResolveIsKnown ==
    ASSUME StoreInv, frameworks # {}, NEW a \in Answers
    PROVE  Resolve(a, clauses) = Known(a)
<1>1. a = Cite(a.framework, a.clause)
  BY TypedData
<1>2. ASSUME a \in Catalogue
      PROVE  \E cl \in clauses : cl.reference = a.clause /\ cl.framework.name = a.framework
  <2>1. PICK i \in Entries : a.framework = DefaultRegulatoryData[i].name
    BY <1>2 DEF Catalogue, Entries, Cite
  <2>2. PICK f \in frameworks : f.name = a.framework
    BY <2>1 DEF StoreInv, AllNamed
  <2>3. a.clause \in ReferencesOf(f.name)
    BY <1>1, <1>2, <2>2, CatalogueFacts
  <2>4. [framework |-> f, reference |-> a.clause] \in clauses
    BY <2>2, <2>3 DEF StoreInv, WholeIn
  <2> QED BY <2>2, <2>4
<1>3. ASSUME NEW cl \in clauses, cl.reference = a.clause, cl.framework.name = a.framework
      PROVE  a \in Catalogue
  BY <1>1, <1>3, CatalogueFacts DEF StoreInv
<1> QED BY <1>2, <1>3 DEF Resolve, Known

LEMMA FetchKeeps ==
    ASSUME Inv, NEW c \in Calls, FetchRegulation(c) PROVE Inv'
<1>1. CallsTyped /\ SessionInv(c) /\ MappingInv(c) /\ StoreInv
  BY DEF Inv
<1>2. call[c].pc = "resolve" /\ frameworks # {} /\ call[c].answer \in Answers
  BY <1>1, FetchFacts DEF SessionInv, CallsTyped, CallRows
<1>3. call'[c].regulation = Known(call'[c].answer) /\ call'[c].pc \in {"check", "insert"}
  BY <1>1, <1>2, ResolveIsKnown, FetchFacts
<1>4. SessionInv(c)'
  BY <1>1, <1>2, <1>3, FetchFacts, SessionKept
<1>5. MappingInv(c)'
  BY <1>1, <1>2, <1>3, FetchFacts DEF MappingInv
<1>6. StoreInv' /\ published' \subseteq Obligations
  BY <1>1, FetchFacts DEF Inv, StoreInv
<1> QED BY <1>1, <1>4, <1>5, <1>6, FetchFacts, InvMove

LEMMA CheckKeeps ==
    ASSUME Inv, NEW r \in Remaps, CheckExisting(r) PROVE Inv'
<1>1. /\ CallsTyped /\ SessionInv(r) /\ MappingInv(r) /\ StoreInv /\ r \in Calls
      /\ mappings \in [Calls -> MappingRows \cup {None}]
  BY DEF Inv, RowsInv, Calls
<1>2. call[r].pc = "check" /\ frameworks # {} /\ call'[r].pc \in {"insert", "update"}
  BY <1>1, CheckFacts DEF SessionInv
<1>3. SessionInv(r)'
  BY <1>1, <1>2, CheckFacts, SessionKept
<1>4. MappingInv(r)'
  BY <1>1, <1>2, CheckFacts DEF MappingInv
<1>5. StoreInv' /\ published' \subseteq Obligations
  BY <1>1, CheckFacts DEF Inv, StoreInv
<1> QED BY <1>1, <1>3, <1>4, <1>5, CheckFacts, InvMove

\* What a call found out about its obligation is a row.
LEMMA MappingFacts ==
    ASSUME CallsTyped, NEW c \in Calls, MappingInv(c), call[c].pc \in {"insert", "update"}
    PROVE  /\ Mapping(c) \in MappingRows /\ Mapping(c).obligation = call[c].obligation
           /\ Mapping(c).framework = call[c].answer.framework
           /\ Mapping(c).clause = call[c].answer.clause
           /\ Mapping(c).regulation = Known(Cite(Mapping(c).framework, Mapping(c).clause))
<1>1. /\ call[c].answer \in Answers /\ call[c].regulation \in References
      /\ call[c].obligation \in Obligations /\ call[c].regulation = Known(call[c].answer)
  BY DEF CallsTyped, CallRows, MappingInv
<1> QED BY <1>1, TypedData DEF Mapping, MappingRows

\* The end of a call that has written a row for its obligation.
LEMMA WriteKeeps ==
    ASSUME Inv, NEW c \in Calls, call[c].pc \in {"insert", "update"}, c \notin Listings,
           call' = [call EXCEPT ![c].pc = "done"], RowsInv', MappingsGrow,
           \A u \in Calls \ {c} : mappings[u] = None => mappings'[u] = None,
           mappings'[c] # None => mappings'[c].obligation = call[c].obligation,
           \E m \in Calls : mappings'[m] \in MappingRows
                              /\ mappings'[m].obligation = call[c].obligation,
           UNCHANGED <<frameworks, clauses, published>>
    PROVE  Inv'
<1>1. CallsTyped /\ SessionInv(c) /\ MappingInv(c) /\ StoreInv /\ RowsInv
  BY DEF Inv
<1>2. /\ CallsTyped' /\ Moves(c) /\ KeepsSeeding(c) /\ KeepsMapping(c) /\ call'[c].pc = "done"
  BY <1>1, EndFacts
<1>3. SessionInv(c)'
  BY <1>1, <1>2, SessionKept
<1>4. MappingInv(c)'
  BY <1>1, <1>2 DEF MappingInv, KeepsMapping
<1>5. ASSUME NEW u \in Calls \ {c} PROVE SessionInv(u)' /\ MappingInv(u)'
  BY <1>1, <1>2, SessionStays, MappingStays DEF Inv, Moves
<1>6. StoreInv' /\ published' \subseteq Obligations
  BY <1>1 DEF Inv, StoreInv
<1> QED BY <1>2, <1>3, <1>4, <1>5, <1>6 DEF Inv

LEMMA InsertKeeps ==
    ASSUME Inv, NEW c \in Calls, InsertMapping(c) PROVE Inv'
<1>1. CallsTyped /\ MappingInv(c) /\ RowsInv /\ call[c].pc = "insert"
  BY DEF Inv, InsertMapping
<1>2. c \notin Listings /\ mappings[c] = None
  BY <1>1 DEF MappingInv
<1>3. /\ Mapping(c) \in MappingRows /\ Mapping(c) # None
      /\ Mapping(c).obligation = call[c].obligation
      /\ Mapping(c).regulation = Known(Cite(Mapping(c).framework, Mapping(c).clause))
  BY <1>1, MappingFacts, CallsAssumption
<1>4. /\ mappings' \in [Calls -> MappingRows \cup {None}] /\ overlapped' = overlapped
      /\ mappings'[c] = Mapping(c) /\ \A u \in Calls \ {c} : mappings'[u] = mappings[u]
  BY <1>1, <1>3 DEF InsertMapping, RowsInv
<1>5. RowsInv'
  BY <1>1, <1>3, <1>4 DEF RowsInv
<1>6. MappingsGrow
  BY <1>2, <1>4, CallsAssumption DEF MappingsGrow
<1> QED BY <1>1, <1>2, <1>3, <1>4, <1>5, <1>6, WriteKeeps DEF InsertMapping

LEMMA UpdateKeeps ==
    ASSUME Inv, NEW r \in Remaps, UpdateMapping(r)
    PROVE  Inv' /\ MappingsGrow /\ \A u \in Calls : mappings[u] = None => mappings'[u] = None
<1> DEFINE row == call[r].row
           old == call[r].loaded
           new == Mapping(r)
           written == [k \in DOMAIN mappings[row] |->
                          IF new[k] # old[k] THEN new[k] ELSE mappings[row][k]]
<1>1. /\ CallsTyped /\ MappingInv(r) /\ RowsInv /\ call[r].pc = "update" /\ r \in Calls
  BY DEF Inv, UpdateMapping, Calls
<1>2. /\ row \in Calls /\ old \in MappingRows /\ old.obligation = call[r].obligation
      /\ mappings[row] \in MappingRows /\ mappings[row].obligation = call[r].obligation
      /\ r \notin Listings
  BY <1>1 DEF MappingInv
<1>3. /\ new \in MappingRows /\ new.obligation = call[r].obligation
      /\ new.regulation = Known(Cite(new.framework, new.clause))
  BY <1>1, MappingFacts
<1>4. /\ mappings' = [mappings EXCEPT ![row] = written]
      /\ overlapped' = overlapped \cup (IF mappings[row] # old THEN {row} ELSE {})
  BY DEF UpdateMapping
<1> HIDE DEF row, old, new
<1>5. written \in MappingRows /\ written.obligation = call[r].obligation
  BY <1>2, <1>3 DEF MappingRows
<1>6. mappings[row] = old => written = new
  BY <1>2, <1>3 DEF MappingRows
<1> HIDE DEF written
<1>7. /\ mappings' \in [Calls -> MappingRows \cup {None}]
      /\ mappings'[row] = written /\ \A u \in Calls \ {row} : mappings'[u] = mappings[u]
  BY <1>1, <1>2, <1>4, <1>5 DEF RowsInv
<1>8. RowsInv'
  <2>1. written # None
    BY <1>5, CallsAssumption
  <2>2. overlapped' \subseteq {m \in Calls : mappings'[m] # None}
    BY <1>1, <1>2, <1>4, <1>7, <2>1 DEF RowsInv
  <2>3. ASSUME NEW m \in Calls \ overlapped', mappings'[m] # None
        PROVE  mappings'[m].regulation
                  = Known(Cite(mappings'[m].framework, mappings'[m].clause))
    <3>1. CASE m = row
      BY <1>3, <1>4, <1>6, <1>7, <2>3, <3>1
    <3>2. CASE m # row
      BY <1>1, <1>4, <1>7, <2>3, <3>2 DEF RowsInv
    <3> QED BY <3>1, <3>2
  <2> QED BY <1>7, <2>2, <2>3 DEF RowsInv
<1>9. MappingsGrow
  BY <1>2, <1>5, <1>7 DEF MappingsGrow
<1>10. \A u \in Calls : mappings[u] = None => mappings'[u] = None
  <2>1. mappings[row] # None
    BY <1>2, CallsAssumption
  <2> QED BY <1>7, <2>1
<1>11. mappings'[r] # None => mappings'[r].obligation = call[r].obligation
  BY <1>1, <1>5, <1>7 DEF MappingInv
<1> QED
  BY <1>1, <1>2, <1>5, <1>7, <1>8, <1>9, <1>10, <1>11, WriteKeeps DEF UpdateMapping

LEMMA FailKeeps ==
    ASSUME Inv, NEW c \in Calls, Fail(c) PROVE Inv'
<1>1. CallsTyped /\ SessionInv(c) /\ MappingInv(c) /\ StoreInv
  BY DEF Inv
<1>2. call[c].pc # "done"
  BY DEF Fail, Running
<1>3. SessionInv(c)'
  BY <1>1, FailFacts DEF SessionInv
<1>4. MappingInv(c)'
  BY <1>1, <1>2, FailFacts DEF MappingInv, KeepsMapping
<1>5. StoreInv' /\ published' \subseteq Obligations
  BY <1>1, FailFacts DEF Inv, StoreInv
<1> QED BY <1>1, <1>3, <1>4, <1>5, FailFacts, InvMove

LEMMA InvInit == Init => Inv
<1> SUFFICES ASSUME Init PROVE Inv OBVIOUS
<1>1. Idle \in CallRows
  BY TypedData DEF Idle, CallRows, Stages, Entries
<1>2. CallsTyped /\ \A c \in Calls : call[c] = Idle
  BY <1>1 DEF Init, CallsTyped
<1>3. /\ Idle.pc = "idle" /\ Idle.frameworks = {} /\ Idle.clauses = {} /\ ~Idle.late
  BY DEF Idle
<1>4. \A c \in Calls : SessionInv(c)
  BY <1>2, <1>3 DEF SessionInv
<1>5. RowsInv /\ \A c \in Calls : mappings[c] = None
  BY DEF Init, RowsInv
<1>6. \A c \in Calls : MappingInv(c)
  BY <1>2, <1>3, <1>5 DEF MappingInv
<1>7. StoreInv /\ published \subseteq Obligations
  BY DEF Init, StoreInv
<1> QED BY <1>2, <1>4, <1>5, <1>6, <1>7 DEF Inv

LEMMA InvStep == Inv /\ [Next]_vars => Inv'
<1> SUFFICES ASSUME Inv, [Next]_vars PROVE Inv' OBVIOUS
<1>1. ASSUME NEW o \in Obligations, BeginExtraction(o) PROVE Inv'
  BY <1>1, BeginKeeps DEF BeginExtraction, Calls
<1>2. ASSUME NEW r \in Remaps, NEW o \in Obligations, BeginRemap(r, o) PROVE Inv'
  BY <1>2, BeginKeeps DEF BeginRemap, Calls
<1>3. ASSUME NEW l \in Listings, BeginListing(l) PROVE Inv'
  BY <1>3, BeginKeeps DEF BeginListing, Calls
<1>4. ASSUME NEW r \in Remaps, RefuseRemap(r) \/ CheckExisting(r) \/ UpdateMapping(r)
      PROVE  Inv'
  BY <1>4, RefuseKeeps, CheckKeeps, UpdateKeeps
<1>5. ASSUME NEW c \in Calls, Seed(c) PROVE Inv'
  BY <1>5, FindKeeps, AddKeeps, CommitKeeps DEF Seed
<1>6. ASSUME NEW c \in Calls,
             ListFrameworks(c) \/ MapObligation(c) \/ FetchRegulation(c) \/ InsertMapping(c)
               \/ Fail(c)
      PROVE  Inv'
  BY <1>6, ListKeeps, MapKeeps, FetchKeeps, InsertKeeps, FailKeeps
<1>7. CASE UNCHANGED vars
  BY <1>7 DEF vars, Inv, CallsTyped, StoreInv, RowsInv, SessionInv, MappingInv, WholeIn,
      AllNamed, VisibleFrameworks, VisibleClauses, Entry
<1> QED BY <1>1, <1>2, <1>3, <1>4, <1>5, <1>6, <1>7 DEF Next

LEMMA InvariantHolds == Spec => []Inv
<1> QED BY InvInit, InvStep, PTL DEF Spec

-----------------------------------------------------------------------------
\* Theorems

\* Every row names rows that exist, and what a call holds is of its kind.
THEOREM TypesHold == Spec => []TypeOK
<1>1. Inv => TypeOK
  <2> SUFFICES ASSUME Inv PROVE TypeOK OBVIOUS
  <2>1. CallsTyped /\ StoreInv /\ RowsInv /\ published \subseteq Obligations
    BY DEF Inv
  <2>2. clauses \subseteq [framework : frameworks, reference : {a.clause : a \in Catalogue}]
    BY <2>1 DEF StoreInv, ClauseRows
  <2> QED BY <2>1, <2>2 DEF TypeOK, CallsTyped, CallRows, Stages, StoreInv, RowsInv
<1> QED BY <1>1, InvariantHolds, PTL

\* However many calls seed at once and whichever fail, a committed framework has
\* all its clauses.
THEOREM FrameworksStayWhole == Spec => []FrameworksAreWhole
<1>1. Inv => FrameworksAreWhole
  <2> SUFFICES ASSUME Inv, NEW f \in frameworks
               PROVE  {cl.reference : cl \in {cl \in clauses : cl.framework = f}}
                        = {a.clause : a \in {a \in Catalogue : a.framework = f.name}}
    BY DEF FrameworksAreWhole
  <2>1. /\ \A cl \in clauses : cl.reference \in ReferencesOf(cl.framework.name)
        /\ WholeIn(f, clauses)
    BY DEF Inv, StoreInv
  <2>2. ReferencesOf(f.name) = {a.clause : a \in {a \in Catalogue : a.framework = f.name}}
    BY DEF ReferencesOf
  <2>3. {cl.reference : cl \in {cl \in clauses : cl.framework = f}} \subseteq ReferencesOf(f.name)
    BY <2>1
  <2>4. ASSUME NEW r \in ReferencesOf(f.name)
        PROVE  r \in {cl.reference : cl \in {cl \in clauses : cl.framework = f}}
    <3>1. [framework |-> f, reference |-> r] \in clauses
      BY <2>1 DEF WholeIn
    <3> QED BY <3>1
  <2> QED BY <2>2, <2>3, <2>4
<1> QED BY <1>1, InvariantHolds, PTL

\* Seeding what is seeded adds nothing, also where a name has several rows.
THEOREM SeedingAddsOnce == Spec => []SeedingIsIdempotent
<1>1. Inv => SeedingIsIdempotent
  BY DEF Inv, SessionInv, SeedingIsIdempotent
<1> QED BY <1>1, InvariantHolds, PTL

\* A listing shows every framework the program knows.
THEOREM ListingsAreComplete == Spec => []ListingIsComplete
<1>1. Inv => ListingIsComplete
  BY DEF Inv, MappingInv, ListingIsComplete, Calls
<1> QED BY <1>1, InvariantHolds, PTL

\* A call that ends well leaves its obligation mapped.
THEOREM ObligationsGetMapped == Spec => []MappedInTheEnd
<1>1. Inv => MappedInTheEnd
  BY CallsAssumption DEF Inv, MappingInv, MappedInTheEnd
<1> QED BY <1>1, InvariantHolds, PTL

\* A mapping written by one call at a time names a regulation exactly if the
\* framework has the clause, whatever the language model cites; what the rules
\* cite always exists.
THEOREM MappingsStayHonest == Spec => []MappingsAreHonest
<1>1. Inv => MappingsAreHonest
  <2> SUFFICES ASSUME Inv, NEW m \in Calls \ overlapped, mappings[m] # None,
                      NEW a, a = Cite(mappings[m].framework, mappings[m].clause)
               PROVE  /\ mappings[m].regulation = IF a \in Catalogue THEN a.clause ELSE "NONE"
                      /\ a \in {RuleCitations[i] : i \in DOMAIN RuleCitations} =>
                            mappings[m].regulation = a.clause
    BY DEF MappingsAreHonest
  <2>1. mappings[m].regulation = Known(a)
    BY DEF Inv, RowsInv
  <2>2. a \in {RuleCitations[i] : i \in DOMAIN RuleCitations} => a \in Catalogue
    BY RulesAreInCatalogue
  <2> QED BY <2>1, <2>2 DEF Known
<1> QED BY <1>1, InvariantHolds, PTL

-----------------------------------------------------------------------------
\* What readers see

Offered == {Cite(cl.framework.name, cl.reference) : cl \in clauses}

Mapped == {mappings[m].obligation : m \in {m \in Calls : mappings[m] # None}}

\* Whose obligation a call is at, and that it is published once the call maps:
\* a thread's by the commit of its own seeding, a request's before it began.
MapsPublished(c) ==
    /\ c \in Obligations /\ call[c].pc \notin {"idle", "failed"} => call[c].obligation = c
    /\ c \in Obligations /\ call[c].pc \in {"map", "resolve", "check", "insert", "update"} =>
          c \in published
    /\ c \in Remaps /\ call[c].pc \notin {"idle", "failed"} => call[c].obligation \in published

PublishedInv == \A c \in Calls : MapsPublished(c)

\* It is enough to look at the call that moves.
LEMMA PublishedMove ==
    ASSUME PublishedInv, NEW c \in Calls, Moves(c), published \subseteq published',
           MapsPublished(c)'
    PROVE  PublishedInv'
<1>1. ASSUME NEW u \in Calls, u # c PROVE MapsPublished(u)'
  BY <1>1 DEF PublishedInv, MapsPublished, Moves
<1> QED BY <1>1 DEF PublishedInv

\* A call that goes on with its obligation.
LEMMA PublishedKept ==
    ASSUME PublishedInv, NEW c \in Calls, Moves(c), published' = published,
           call[c].pc \notin {"idle", "failed"},
           call'[c].obligation = call[c].obligation,
           call'[c].pc \in {"map", "resolve", "check", "insert", "update"} =>
              call[c].pc \in {"map", "resolve", "check", "insert", "update"}
    PROVE  PublishedInv'
<1>1. MapsPublished(c)'
  BY DEF PublishedInv, MapsPublished
<1> QED BY <1>1, PublishedMove

\* At first nothing is offered and no request is under way.
LEMMA PublishedInit == Init => PublishedInv
BY DEF Init, PublishedInv, MapsPublished, Idle

\* No step maps an obligation that is not published.
LEMMA PublishedStep == Inv /\ PublishedInv /\ [Next]_vars => PublishedInv'
<1> SUFFICES ASSUME Inv, PublishedInv, [Next]_vars PROVE PublishedInv'
  OBVIOUS
<1>0. CallsTyped /\ frameworks \subseteq FrameworkRows /\ mappings \in [Calls -> MappingRows \cup {None}]
  BY DEF Inv, StoreInv, RowsInv
<1>1. ASSUME NEW o \in Obligations, BeginExtraction(o) PROVE PublishedInv'
  <2>1. o \in Calls /\ o \notin Remaps /\ Begin(o, o)
    BY <1>1, CallsAssumption DEF Calls, BeginExtraction
  <2>2. Moves(o) /\ call'[o].pc = "framework" /\ call'[o].obligation = o /\ published' = published
    BY <1>0, <2>1, BeginFacts
  <2>3. MapsPublished(o)'
    BY <2>1, <2>2 DEF MapsPublished
  <2> QED BY <2>1, <2>2, <2>3, PublishedMove
<1>2. ASSUME NEW r \in Remaps, NEW o \in Obligations, BeginRemap(r, o) PROVE PublishedInv'
  <2>1. r \in Calls /\ r \notin Obligations /\ Begin(r, o) /\ o \in published
    BY <1>2, CallsAssumption DEF Calls, BeginRemap
  <2>2. Moves(r) /\ call'[r].obligation = o /\ published' = published
    BY <1>0, <2>1, BeginFacts
  <2>3. MapsPublished(r)'
    BY <2>1, <2>2 DEF MapsPublished
  <2> QED BY <2>1, <2>2, <2>3, PublishedMove
<1>3. ASSUME NEW l \in Listings, BeginListing(l) PROVE PublishedInv'
  <2>1. l \in Calls /\ l \notin Obligations \cup Remaps /\ Begin(l, None)
    BY <1>3, CallsAssumption DEF Calls, BeginListing
  <2>2. Moves(l) /\ published' = published
    BY <1>0, <2>1, BeginFacts
  <2>3. MapsPublished(l)'
    BY <2>1 DEF MapsPublished
  <2> QED BY <2>1, <2>2, <2>3, PublishedMove
<1>4. ASSUME NEW r \in Remaps, RefuseRemap(r) PROVE PublishedInv'
  <2>1. r \in Calls
    BY DEF Calls
  <2>2. Moves(r) /\ call'[r].pc = "failed" /\ published' = published
    BY <1>0, <1>4, RefuseFacts
  <2>3. MapsPublished(r)'
    BY <2>2 DEF MapsPublished
  <2> QED BY <2>1, <2>2, <2>3, PublishedMove
<1>5. ASSUME NEW r \in Remaps, CheckExisting(r) PROVE PublishedInv'
  <2>1. r \in Calls
    BY DEF Calls
  <2>2. /\ Moves(r) /\ call[r].pc = "check" /\ call'[r].obligation = call[r].obligation
        /\ published' = published
    BY <1>0, <1>5, CheckFacts
  <2> QED BY <2>1, <2>2, PublishedKept
<1>6. ASSUME NEW r \in Remaps, UpdateMapping(r) PROVE PublishedInv'
  <2>1. r \in Calls
    BY DEF Calls
  <2>2. call[r].pc = "update" /\ call' = [call EXCEPT ![r].pc = "done"] /\ published' = published
    BY <1>6 DEF UpdateMapping
  <2>3. Moves(r) /\ KeepsMapping(r) /\ call'[r].pc = "done"
    BY <1>0, <2>1, <2>2, EndFacts
  <2> QED BY <2>1, <2>2, <2>3, PublishedKept DEF KeepsMapping
<1>7. ASSUME NEW c \in Calls, Seed(c) PROVE PublishedInv'
  <2>1. CASE FindFramework(c)
    <3>1. /\ Moves(c) /\ KeepsMapping(c) /\ call[c].pc = "framework"
          /\ call'[c].pc = "clauses" /\ published' = published
      BY <1>0, <2>1, FindFacts
    <3> QED BY <3>1, PublishedKept DEF KeepsMapping
  <2>2. CASE AddClauses(c)
    <3>1. call[c].framework \in FrameworkRows
      <4>1. call[c].pc = "clauses" /\ SessionInv(c)
        BY <2>2 DEF AddClauses, Inv
      <4> QED BY <1>0, <4>1 DEF SessionInv, VisibleFrameworks, CallsTyped, CallRows
    <3>2. /\ Moves(c) /\ KeepsMapping(c) /\ call[c].pc = "clauses"
          /\ call'[c].pc \in {"framework", "commit"} /\ published' = published
      BY <1>0, <2>2, <3>1, AddFacts
    <3> QED BY <3>2, PublishedKept DEF KeepsMapping
  <2>3. CASE CommitSeed(c)
    <3>1. /\ Moves(c) /\ KeepsMapping(c) /\ call[c].pc = "commit"
          /\ published' = published \cup ({c} \cap Obligations)
      BY <1>0, <2>3, CommitFacts
    <3>2. MapsPublished(c)'
      BY <3>1 DEF PublishedInv, MapsPublished, KeepsMapping
    <3> QED BY <3>1, <3>2, PublishedMove
  <2> QED BY <1>7, <2>1, <2>2, <2>3 DEF Seed
<1>8. ASSUME NEW c \in Calls, ListFrameworks(c) PROVE PublishedInv'
  <2>1. /\ Moves(c) /\ call'[c].obligation = call[c].obligation
        /\ call[c].pc = "list" /\ call'[c].pc = "done" /\ published' = published
    BY <1>0, <1>8, ListFacts
  <2> QED BY <2>1, PublishedKept
<1>9. ASSUME NEW c \in Calls, MapObligation(c) PROVE PublishedInv'
  <2>1. call[c].pc = "map" /\ call[c].obligation \in Obligations
    BY <1>9 DEF MapObligation, Inv, MappingInv
  <2>2. /\ Moves(c) /\ call'[c].obligation = call[c].obligation /\ published' = published
    BY <1>0, <1>9, <2>1, MapFacts
  <2> QED BY <2>1, <2>2, PublishedKept
<1>10. ASSUME NEW c \in Calls, FetchRegulation(c) PROVE PublishedInv'
  <2>1. /\ Moves(c) /\ call'[c].obligation = call[c].obligation
        /\ call[c].pc = "resolve" /\ published' = published
    BY <1>0, <1>10, FetchFacts
  <2> QED BY <2>1, PublishedKept
<1>11. ASSUME NEW c \in Calls, InsertMapping(c) PROVE PublishedInv'
  <2>1. call[c].pc = "insert" /\ call' = [call EXCEPT ![c].pc = "done"] /\ published' = published
    BY <1>11 DEF InsertMapping
  <2>2. Moves(c) /\ KeepsMapping(c) /\ call'[c].pc = "done"
    BY <1>0, <2>1, EndFacts
  <2> QED BY <2>1, <2>2, PublishedKept DEF KeepsMapping
<1>12. ASSUME NEW c \in Calls, Fail(c) PROVE PublishedInv'
  <2>1. Moves(c) /\ call'[c].pc = "failed" /\ published' = published
    BY <1>0, <1>12, FailFacts
  <2>2. MapsPublished(c)'
    BY <2>1 DEF MapsPublished
  <2> QED BY <2>1, <2>2, PublishedMove
<1>13. CASE UNCHANGED vars
  BY <1>13 DEF vars, PublishedInv, MapsPublished
<1> QED
  BY <1>1, <1>2, <1>3, <1>4, <1>5, <1>6, <1>7, <1>8, <1>9, <1>10, <1>11, <1>12, <1>13 DEF Next

\* The two invariants hold together in every reachable state.
LEMMA SeenInvariantHolds == Spec => [](Inv /\ PublishedInv)
<1> QED BY InvInit, InvStep, PublishedInit, PublishedStep, PTL DEF Spec

\* Once whole frameworks of all names are committed, everything the program
\* knows is offered.
LEMMA AllIsOffered ==
    ASSUME NEW F, NEW C, AllNamed(F), \A f \in F : WholeIn(f, C),
           \A cl \in C : cl.reference \in ReferencesOf(cl.framework.name)
    PROVE  {Cite(cl.framework.name, cl.reference) : cl \in C} = Catalogue
<1>1. \A cl \in C : Cite(cl.framework.name, cl.reference) \in Catalogue
  BY CatalogueFacts
<1>2. ASSUME NEW a \in Catalogue
      PROVE  \E cl \in C : a = Cite(cl.framework.name, cl.reference)
  <2>1. PICK i \in Entries : a.framework = DefaultRegulatoryData[i].name
    <3>1. PICK i \in Entries : \E r \in DefaultRegulatoryData[i].clauses :
              a = Cite(DefaultRegulatoryData[i].name, r)
      BY DEF Catalogue, Entries
    <3> QED BY <3>1 DEF Cite
  <2>2. PICK f \in F : f.name = a.framework
    BY <2>1 DEF AllNamed
  <2>3. a = Cite(f.name, a.clause) /\ a.clause \in ReferencesOf(f.name)
    BY <2>2, CatalogueFacts
  <2>4. [framework |-> f, reference |-> a.clause] \in C
    BY <2>2, <2>3 DEF WholeIn
  <2> QED BY <2>3, <2>4
<1> QED BY <1>1, <1>2

\* What readers see of a step that writes nothing: nothing.
LEMMA SeenStays ==
    ASSUME UNCHANGED <<clauses, published, mappings>>
    PROVE  UNCHANGED <<Offered, published, Mapped>>
BY DEF Offered, Mapped

\* The commit of the seeding.
LEMMA CommitIsSeed ==
    ASSUME Inv, NEW c \in Calls, CommitSeed(c)
    PROVE  Publication!Next
<1>1. Offered' = Catalogue
  <2>1. StoreInv' /\ SessionInv(c)'
    BY CommitKeeps DEF Inv
  <2>2. call'[c].pc \in {"list", "map"}
    BY CommitFacts DEF Inv
  <2>3. frameworks' # {}
    BY <2>1, <2>2 DEF SessionInv
  <2>4. /\ AllNamed(frameworks') /\ \A f \in frameworks' : WholeIn(f, clauses')
        /\ \A cl \in clauses' : cl.reference \in ReferencesOf(cl.framework.name)
    BY <2>1, <2>3 DEF StoreInv
  <2>5. {Cite(cl.framework.name, cl.reference) : cl \in clauses'} = Catalogue
    BY <2>4, AllIsOffered
  <2> QED BY <2>5 DEF Offered
<1>2. published' = published \cup ({c} \cap Obligations) /\ Mapped' = Mapped
  BY DEF CommitSeed, Mapped
<1>3. CASE c \in Obligations
  <2>1. published' = published \cup {c}
    BY <1>2, <1>3
  <2>2. Publication!Seed({c})
    BY <1>1, <1>2, <2>1 DEF Publication!Seed, Offered, Mapped
  <2> QED BY <1>3, <2>2 DEF Publication!Next
<1>4. CASE c \notin Obligations
  <2>1. published' = published \cup {}
    BY <1>2, <1>4
  <2>2. Publication!Seed({})
    BY <1>1, <1>2, <2>1 DEF Publication!Seed, Offered, Mapped
  <2> QED BY <2>2 DEF Publication!Next
<1> QED BY <1>3, <1>4

\* The commit of a mapping.
LEMMA InsertIsMap ==
    ASSUME Inv, PublishedInv, NEW c \in Calls, InsertMapping(c)
    PROVE  Publication!Next
<1>1. /\ call[c].pc = "insert" /\ SessionInv(c) /\ MappingInv(c) /\ MapsPublished(c)
      /\ StoreInv /\ CallsTyped /\ mappings \in [Calls -> MappingRows \cup {None}]
  BY DEF InsertMapping, Inv, PublishedInv, RowsInv
<1>2. mappings' = [mappings EXCEPT ![c] = Mapping(c)] /\ UNCHANGED <<clauses, published>>
  BY DEF InsertMapping
<1>3. c \notin Listings /\ mappings[c] = None /\ call[c].obligation \in Obligations
  BY <1>1 DEF MappingInv
<1> PICK o \in Obligations : o = call[c].obligation
  BY <1>3
<1>4. o \in published
  BY <1>1, <1>3 DEF MapsPublished, Calls
<1>5. Mapping(c) # None /\ Mapping(c).obligation = o
  BY <1>1, <1>3, MappingFacts, CallsAssumption
<1>6. Mapped' = Mapped \cup {o}
  <2>1. mappings'[c] = Mapping(c) /\ \A u \in Calls \ {c} : mappings'[u] = mappings[u]
    BY <1>1, <1>2
  <2>2. {m \in Calls : mappings'[m] # None} = {m \in Calls : mappings[m] # None} \cup {c}
    BY <1>3, <1>5, <2>1
  <2>3. Mapped' = {mappings'[m].obligation : m \in {m \in Calls : mappings[m] # None} \cup {c}}
    BY <2>2 DEF Mapped
  <2> QED BY <1>3, <1>5, <2>1, <2>3 DEF Mapped
<1>7. Offered = Catalogue
  <2>1. frameworks # {}
    BY <1>1 DEF SessionInv
  <2>2. /\ AllNamed(frameworks) /\ \A f \in frameworks : WholeIn(f, clauses)
        /\ \A cl \in clauses : cl.reference \in ReferencesOf(cl.framework.name)
    BY <1>1, <2>1 DEF StoreInv
  <2>3. {Cite(cl.framework.name, cl.reference) : cl \in clauses} = Catalogue
    BY <2>2, AllIsOffered
  <2> QED BY <2>3 DEF Offered
<1>8. Publication!Map(o)
  BY <1>2, <1>4, <1>6, <1>7 DEF Publication!Map, Offered, Mapped
<1> QED BY <1>3, <1>8 DEF Publication!Next

\* A mapping that is written again stays one of the same obligation.
LEMMA UpdateIsUnseen ==
    ASSUME Inv, NEW r \in Remaps, UpdateMapping(r)
    PROVE  UNCHANGED <<Offered, published, Mapped>>
<1>1. MappingsGrow /\ \A u \in Calls : mappings[u] = None => mappings'[u] = None
  BY UpdateKeeps
<1>2. mappings \in [Calls -> MappingRows \cup {None}]
  BY DEF Inv, RowsInv
<1>3. \A m \in Calls : /\ mappings'[m] # None <=> mappings[m] # None
                       /\ mappings[m] # None => mappings'[m].obligation = mappings[m].obligation
  BY <1>1, <1>2, CallsAssumption DEF MappingsGrow
<1>4. Mapped' = Mapped
  <2>1. {m \in Calls : mappings'[m] # None} = {m \in Calls : mappings[m] # None}
    BY <1>3
  <2> QED BY <1>3, <2>1 DEF Mapped
<1>5. Offered' = Offered /\ published' = published
  BY DEF UpdateMapping, Offered
<1> QED BY <1>4, <1>5

\* KnowledgeBase implements KnowledgePublication: however many calls seed, map
\* and fail side by side, readers see the knowledge base, the obligations and
\* their mappings appear in this order, each in one step, and none of them go
\* (seed_default_frameworks and map_obligation in the session of their caller).
THEOREM PublicationIsOrdered == Spec => SeedsThenMaps
<1>1. Init => Publication!Init
  BY DEF Init, Publication!Init
<1>2. Inv /\ PublishedInv /\ [Next]_vars => [Publication!Next]_<<Offered, published, Mapped>>
  <2> SUFFICES ASSUME Inv, PublishedInv, [Next]_vars
               PROVE  Publication!Next \/ UNCHANGED <<Offered, published, Mapped>>
    OBVIOUS
  <2>1. ASSUME NEW c \in Calls, NEW o, Begin(c, o)
        PROVE  UNCHANGED <<Offered, published, Mapped>>
    BY <2>1, SeenStays DEF Begin
  <2>2. ASSUME NEW o \in Obligations, BeginExtraction(o)
        PROVE  UNCHANGED <<Offered, published, Mapped>>
    BY <2>1, <2>2 DEF BeginExtraction, Calls
  <2>3. ASSUME NEW r \in Remaps, NEW o \in Obligations, BeginRemap(r, o)
        PROVE  UNCHANGED <<Offered, published, Mapped>>
    BY <2>1, <2>3 DEF BeginRemap, Calls
  <2>4. ASSUME NEW l \in Listings, BeginListing(l)
        PROVE  UNCHANGED <<Offered, published, Mapped>>
    BY <2>1, <2>4 DEF BeginListing, Calls
  <2>5. ASSUME NEW r \in Remaps, RefuseRemap(r) \/ CheckExisting(r)
        PROVE  UNCHANGED <<Offered, published, Mapped>>
    BY <2>5, SeenStays DEF RefuseRemap, CheckExisting
  <2>6. ASSUME NEW r \in Remaps, UpdateMapping(r)
        PROVE  UNCHANGED <<Offered, published, Mapped>>
    BY <2>6, UpdateIsUnseen
  <2>7. ASSUME NEW c \in Calls, Seed(c)
        PROVE  Publication!Next \/ UNCHANGED <<Offered, published, Mapped>>
    <3>1. CASE FindFramework(c) \/ AddClauses(c)
      BY <3>1, SeenStays DEF FindFramework, AddClauses
    <3>2. CASE CommitSeed(c)
      BY <3>2, CommitIsSeed
    <3> QED BY <2>7, <3>1, <3>2 DEF Seed
  <2>8. ASSUME NEW c \in Calls,
               ListFrameworks(c) \/ MapObligation(c) \/ FetchRegulation(c) \/ Fail(c)
        PROVE  UNCHANGED <<Offered, published, Mapped>>
    BY <2>8, SeenStays DEF ListFrameworks, MapObligation, FetchRegulation, Fail
  <2>9. ASSUME NEW c \in Calls, InsertMapping(c)
        PROVE  Publication!Next
    BY <2>9, InsertIsMap
  <2>10. CASE UNCHANGED vars
    BY <2>10, SeenStays DEF vars
  <2> QED BY <2>2, <2>3, <2>4, <2>5, <2>6, <2>7, <2>8, <2>9, <2>10 DEF Next
<1> QED
  BY <1>1, <1>2, SeenInvariantHolds, PTL
  DEF Spec, SeedsThenMaps, Publication!Spec, Offered, Mapped

=============================================================================
