------------------------- MODULE ClauseSegmentation -------------------------
(***************************************************************************)
(* How the normalized text of a policy becomes a list of nested clauses.   *)
(*                                                                         *)
(* The rules read the text line by line.  A line is blank, a marker (a     *)
(* heading, a subheading with decimal numbering, a numbered list item, a   *)
(* bullet), or text.  A marker opens a clause; a stack of open ancestors   *)
(* gives the parent.  Text collects in a paragraph, which is flushed to    *)
(* the last clause at the next blank line or marker.                       *)
(*                                                                         *)
(* When the rules find no structure in a long text, a language model is    *)
(* asked for clauses with levels, which are nested with another algorithm: *)
(* a map from each level to the last clause of that level.  When the model *)
(* cannot be asked, each paragraph becomes a clause of its own.            *)
(*                                                                         *)
(* A clause is named by its position, and 0 stands for no parent.  A line  *)
(* of text is named by its number in the document.                         *)
(***************************************************************************)
EXTENDS FiniteSetsExt, Sequences

CONSTANTS
    Depth,       \* how deep the decimal numbering of a subheading may be
    AnswerLevel  \* the levels the model may give to a clause

ASSUME LevelAssumption ==
    /\ Depth \subseteq Nat \ {0, 1}
    /\ AnswerLevel \subseteq Int

VARIABLES
    builders,   \* the clauses the rules opened
    stack,      \* the open ancestors
    paragraph,  \* the pending lines of text
    answer,     \* the clauses made of what the model answered
    parentByLevel,  \* parent_id_by_level
    phase       \* what is going on

\* Auxiliary: the lines read so far.  No action looks at it except for the
\* number of the next line.
VARIABLE document

vars == <<builders, stack, paragraph, answer, parentByLevel, phase, document>>

-----------------------------------------------------------------------------
HeadingKinds == {"heading", "subheading"}
ListAnchorKinds == HeadingKinds \cup {"item"}

\* What _match_marker makes of a line.  Only a keyword heading may be all
\* there is on its line; every other marker is followed by some content.
Marker ==
    [kind : {"heading"}, level_hint : {1}, content : BOOLEAN]
    \cup [kind : {"subheading"}, level_hint : Depth, content : {TRUE}]
    \cup [kind : {"item", "bullet"}, level_hint : {0}, content : {TRUE}]

BlankLine == [kind |-> "blank", level_hint |-> 0, content |-> FALSE]
TextLine == [kind |-> "text", level_hint |-> 0, content |-> TRUE]

Line == Marker \cup {BlankLine, TextLine}

NearestAncestorLevel(st, kinds) ==
    LET matching == {k \in 1 .. Len(st) : st[k].kind \in kinds}
    IN  IF matching = {} THEN 0 ELSE st[Max(matching)].level

\* Mutant: an item is placed below the item before it.
ResolveLevelDrifting(m, st) ==
    CASE m.kind \in HeadingKinds -> m.level_hint
      [] m.kind \in {"item", "bullet"} ->
            NearestAncestorLevel(st, ListAnchorKinds) + 1

ResolveLevel(m, st) ==
    CASE m.kind \in HeadingKinds -> m.level_hint
      [] m.kind = "item" -> NearestAncestorLevel(st, HeadingKinds) + 1
      [] m.kind = "bullet" -> NearestAncestorLevel(st, ListAnchorKinds) + 1

\* Mutant: ancestors of the same level stay open.
PoppedKeepingSiblings(st, level) ==
    SubSeq(st, 1, Max({0} \cup {k \in 1 .. Len(st) : st[k].level <= level}))

\* Entries are popped until the top one has a lower level.
Popped(st, level) ==
    SubSeq(st, 1, Max({0} \cup {k \in 1 .. Len(st) : st[k].level < level}))

Top(st) == IF st = <<>> THEN 0 ELSE st[Len(st)].clause

\* flush_paragraph and _append_body: the paragraph goes to the last clause
\* or, before the first marker, into a clause of its own.
AppendBody(clauses, lines) ==
    IF lines = <<>> THEN clauses
    ELSE IF clauses = <<>>
    THEN <<[parent |-> 0, level |-> 1, kind |-> "body", text |-> lines,
            line |-> lines[1]]>>
    ELSE [clauses EXCEPT ![Len(clauses)].text = @ \o lines]

Flushed == AppendBody(builders, paragraph)

\* The number of the line being read.
Here == Len(document) + 1

-----------------------------------------------------------------------------
Init ==
    /\ builders = <<>>
    /\ stack = <<>>
    /\ paragraph = <<>>
    /\ answer = <<>>
    /\ parentByLevel = <<>>
    /\ phase = "rules"
    /\ document = <<>>

ReadBlank ==
    /\ phase = "rules"
    /\ document' = Append(document, BlankLine)
    /\ builders' = Flushed
    /\ paragraph' = <<>>
    /\ UNCHANGED <<stack, answer, parentByLevel, phase>>

ReadText ==
    /\ phase = "rules"
    /\ document' = Append(document, TextLine)
    /\ paragraph' = Append(paragraph, Here)
    /\ UNCHANGED <<builders, stack, answer, parentByLevel, phase>>

\* Mutant: the pending paragraph is not flushed before the clause is opened.
ReadMarkerUnflushed(m) ==
    /\ phase = "rules"
    /\ document' = Append(document, m)
    /\ LET level == ResolveLevel(m, stack)
           open == Popped(stack, level)
       IN  /\ builders' = Append(builders, [parent |-> Top(open),
                  level |-> level, kind |-> m.kind, text |-> <<>>,
                  line |-> Here])
           /\ stack' = Append(open, [level |-> level, kind |-> m.kind,
                                     clause |-> Len(builders) + 1])
    /\ paragraph' = IF m.content THEN Append(paragraph, Here) ELSE paragraph
    /\ UNCHANGED <<answer, parentByLevel, phase>>

\* The line of the clause is kept (`line') only to be able to speak of it.
\* What follows the marker goes to the paragraph; a title that is split off a
\* heading stays with the clause, as its heading.
ReadMarker(m) ==
    /\ phase = "rules"
    /\ document' = Append(document, m)
    /\ LET level == ResolveLevel(m, stack)
           open == Popped(stack, level)
       IN  /\ builders' = Append(Flushed, [parent |-> Top(open),
                  level |-> level, kind |-> m.kind, text |-> <<>>,
                  line |-> Here])
           /\ stack' = Append(open, [level |-> level, kind |-> m.kind,
                                     clause |-> Len(Flushed) + 1])
    /\ paragraph' = IF m.content THEN <<Here>> ELSE <<>>
    /\ UNCHANGED <<answer, parentByLevel, phase>>

\* (The text of a document has at least one line.)
EndOfText ==
    /\ phase = "rules"
    /\ document # <<>>
    /\ builders' = Flushed
    /\ paragraph' = <<>>
    /\ phase' = "segmented"
    /\ UNCHANGED <<stack, answer, parentByLevel, document>>

-----------------------------------------------------------------------------
\* The length of the text (over 200 and over 500 characters) is not a matter
\* of the number of lines.
PoorSegmentation(length) ==
    \/ builders = <<>>
    \/ /\ Len(builders) = 1
       /\ builders[1].kind = "body"
       /\ length \in {"over 200", "over 500"}
    \/ /\ \A i \in 1 .. Len(builders) : builders[i].kind \notin ListAnchorKinds
       /\ length = "over 500"

\* The rules did well; or an exception of the other segmenter is swallowed,
\* or there is nothing to segment.
KeepRules ==
    /\ phase = "segmented"
    /\ phase' = "done"
    /\ UNCHANGED <<builders, stack, paragraph, answer, parentByLevel, document>>

\* segment_with_ai: the model answers ("answer"), or there is no client or
\* the call fails for good ("fallback").
AskModel ==
    /\ phase = "segmented"
    /\ \E length \in {"short", "over 200", "over 500"} : PoorSegmentation(length)
    /\ builders # <<>>
    /\ phase' \in {"answer", "fallback"}
    /\ UNCHANGED <<builders, stack, paragraph, answer, parentByLevel, document>>

Deepest(levels) == IF levels = {} THEN 0 ELSE parentByLevel[Max(levels)]

\* Mutant: deeper levels are not forgotten.
ToPolicyClauseKeepingDeeper(l) ==
    /\ phase = "answer"
    /\ LET level == Max({1, l})
           shallower == {k \in DOMAIN parentByLevel : k < level}
       IN  /\ answer' = Append(answer, [parent |-> Deepest(shallower),
                                        level |-> level])
           /\ parentByLevel' = [k \in DOMAIN parentByLevel \cup {level} |->
                  IF k = level THEN Len(answer) + 1 ELSE parentByLevel[k]]
    /\ UNCHANGED <<builders, stack, paragraph, phase, document>>

\* One turn of the loop of _to_policy_clauses.
ToPolicyClause(l) ==
    /\ phase = "answer"
    /\ LET level == Max({1, l})
           shallower == {k \in DOMAIN parentByLevel : k < level}
       IN  /\ answer' = Append(answer, [parent |-> Deepest(shallower),
                                        level |-> level])
           /\ parentByLevel' = [k \in shallower \cup {level} |->
                  IF k = level THEN Len(answer) + 1 ELSE parentByLevel[k]]
    /\ UNCHANGED <<builders, stack, paragraph, phase, document>>

\* One turn of the loop of _heuristic_segmentation_fallback.
ParagraphClause ==
    /\ phase = "fallback"
    /\ answer' = Append(answer, [parent |-> 0, level |-> 1])
    /\ UNCHANGED <<builders, stack, paragraph, parentByLevel, phase, document>>

\* An answer without clauses is not used.  (A text that is not blank has a
\* paragraph.)
EndOfAnswer ==
    /\ \/ phase = "answer"
       \/ phase = "fallback" /\ answer # <<>>
    /\ phase' = IF answer = <<>> THEN "done" ELSE "replaced"
    /\ UNCHANGED <<builders, stack, paragraph, answer, parentByLevel, document>>

-----------------------------------------------------------------------------
Next ==
    \/ ReadBlank
    \/ ReadText
    \/ \E m \in Marker : ReadMarker(m)
    \/ EndOfText
    \/ KeepRules
    \/ AskModel
    \/ \E l \in AnswerLevel : ToPolicyClause(l)
    \/ ParagraphClause
    \/ EndOfAnswer

Spec == Init /\ [][Next]_vars

-----------------------------------------------------------------------------
ClauseKind == {"heading", "subheading", "item", "bullet", "body"}

PositiveNat == Nat \ {0}

Clause ==
    [parent : Nat, level : PositiveNat, kind : ClauseKind,
     text : Seq(PositiveNat), line : PositiveNat]

Ancestor ==
    [level : PositiveNat, kind : ClauseKind \ {"body"}, clause : PositiveNat]

\* Type invariant: levels are positive, and what is remembered of each level
\* is a clause of the answer.
TypeOK ==
    /\ builders \in Seq(Clause)
    /\ stack \in Seq(Ancestor)
    /\ paragraph \in Seq(PositiveNat)
    /\ answer \in Seq([parent : Nat, level : PositiveNat])
    /\ DOMAIN parentByLevel \subseteq PositiveNat
    /\ parentByLevel \in [DOMAIN parentByLevel -> 1 .. Len(answer)]
    /\ phase \in {"rules", "segmented", "done", "answer", "fallback", "replaced"}
    /\ document \in Seq(Line)

Clauses == 1 .. Len(builders)

\* Every line with content is the text of a clause, or still pending.
NothingDropped ==
    \A n \in 1 .. Len(document) : document[n].content =>
        n \in Range(paragraph) \cup UNION {Range(builders[i].text) : i \in Clauses}

\* The markers of the text are the clauses (but for the one that collects the
\* text before the first marker), in the same order and of the same kind.
MarkersAreClauses ==
    /\ \A i, j \in Clauses : i < j => builders[i].line < builders[j].line
    /\ \A i \in Clauses :
          /\ builders[i].line \in 1 .. Len(document)
          /\ builders[i].kind # "body" =>
                document[builders[i].line].kind = builders[i].kind
          /\ builders[i].kind = "body" =>
                i = 1 /\ document[builders[i].line].kind = "text"
    /\ \A n \in 1 .. Len(document) : document[n] \in Marker =>
          \E i \in Clauses : builders[i].line = n

Increasing(s) == \A k, l \in 1 .. Len(s) : k < l => s[k] < s[l]

\* The text of a clause begins at its marker, ends before the next one, and
\* has its lines in their order; so has the pending paragraph.
TextUnderItsMarker ==
    /\ \A i \in Clauses :
          /\ Increasing(builders[i].text)
          /\ \A n \in Range(builders[i].text) :
                /\ builders[i].line <= n
                /\ i < Len(builders) => n < builders[i + 1].line
    /\ Increasing(paragraph)
    /\ \A n \in Range(paragraph) :
          /\ n <= Len(document)
          /\ builders # <<>> =>
                /\ builders[Len(builders)].line <= n
                /\ \A o \in Range(builders[Len(builders)].text) : o < n

\* No text of the document is dropped, moved or given to another clause than
\* the one whose marker comes last before it, however blank lines, paragraphs
\* and markers without content follow each other: what the docstring of
\* clause_segmentation_service.py promises.
TextKeepsItsPlace ==
    NothingDropped /\ MarkersAreClauses /\ TextUnderItsMarker

\* The stack nests every clause below the nearest clause before it that has a
\* lower level, and leaves it at the top if there is none.  The clause that
\* collects the text before the first marker is nobody's parent.
RulesNest ==
    \A i \in Clauses :
        builders[i].parent =
            IF builders[i].kind = "body" THEN 0
            ELSE Max({0} \cup {j \in 1 .. i - 1 :
                                 /\ builders[j].kind # "body"
                                 /\ builders[j].level < builders[i].level})

\* The clause of one of these kinds that comes last before clause i.
LastBefore(i, kinds) == Max({0} \cup {j \in 1 .. i - 1 : builders[j].kind \in kinds})

\* List items belong to the heading or subheading that comes last before them
\* and bullets to the last heading, subheading or item, however long the list
\* is: items do not drift to deeper levels, and none ends up under a section
\* that is closed.
ListsStayUnderTheirHeading ==
    \A i \in Clauses :
        /\ builders[i].kind = "item" =>
              builders[i].parent = LastBefore(i, HeadingKinds)
        /\ builders[i].kind = "bullet" =>
              builders[i].parent = LastBefore(i, ListAnchorKinds)

\* The map from levels to clauses nests what the model answers by the same
\* rule as the stack, whatever levels it gives: skipped, repeated, or not
\* even positive.
AnswerNests ==
    \A i \in 1 .. Len(answer) :
        answer[i].parent =
            Max({0} \cup {j \in 1 .. i - 1 : answer[j].level < answer[i].level})

=============================================================================
