---------------------------- MODULE ClauseProofs ----------------------------
(***************************************************************************)
(* Proofs about the clauses of a policy.                                   *)
(*                                                                         *)
(* ClauseSegmentation: the nesting of the clauses is the one the levels    *)
(* call for, and no text is dropped or moved, for documents and answers of *)
(* every length.                                                           *)
(*                                                                         *)
(* LanguageModel, which segments and serves every other task too: for any  *)
(* number of threads and any of the services, types, the bound on refusals *)
(* for quota, and what may be mixed in a comparison.                       *)
(*                                                                         *)
(* ClauseLifecycle: its safety invariants hold for every set of            *)
(* resegmentations and deletions and every order of visiting rows; its     *)
(* transactions never all wait for one another; and it implements          *)
(* ClauseReplacement.                                                      *)
(***************************************************************************)
EXTENDS ClauseSegmentation, LanguageModel, ClauseLifecycle,
        FiniteSetTheorems, WellFoundedInduction, TLAPS

(* Segmentation.                                                           *)

\* Every set of natural numbers has a least element.
LEMMA HasLeast ==
    ASSUME NEW T \in SUBSET Nat, T # {}
    PROVE  \E m \in T : \A k \in T : m <= k
<1> DEFINE R == {x \in Nat \X Nat : x[1] < x[2]}
<1>1. IsWellFoundedOn(R, Nat)
  <2>1. OpToRel(<, Nat) = R
    BY DEF OpToRel
  <2> QED BY <2>1, NatLessThanWellFounded
<1>2. PICK m \in T : \A k \in T : <<k, m>> \notin R
  BY <1>1, WFMin
<1>3. ASSUME NEW k \in T PROVE m <= k
  <2>1. <<k, m>> \in Nat \X Nat /\ <<k, m>>[1] = k /\ <<k, m>>[2] = m
    OBVIOUS
  <2> QED BY <1>2, <2>1
<1> QED BY <1>3

\* Max is what it is called on bounded sets of natural numbers.
LEMMA MaxIsGreatest ==
    ASSUME NEW n \in Nat, NEW T \in SUBSET (0 .. n), T # {}
    PROVE  Max(T) \in T /\ \A k \in T : k <= Max(T)
<1> DEFINE U == {j \in 0 .. n : n - j \in T}
<1>1. U \in SUBSET Nat /\ U # {}
  <2>1. PICK t \in T : TRUE
    OBVIOUS
  <2>2. n - t \in 0 .. n /\ n - (n - t) = t
    OBVIOUS
  <2> QED BY <2>1, <2>2
<1>2. PICK m \in U : \A j \in U : m <= j
  BY <1>1, HasLeast
<1>3. ASSUME NEW k \in T PROVE n - m >= k
  <2>1. n - k \in 0 .. n /\ n - (n - k) = k
    OBVIOUS
  <2>2. n - k \in U
    BY <2>1
  <2>3. m <= n - k
    BY <1>2, <2>2
  <2> QED BY <2>3
<1>4. \E x \in T : \A y \in T : x >= y
  BY <1>2, <1>3
<1>5. Max(T) \in T /\ \A y \in T : Max(T) >= y
  BY <1>4, Zenon DEF Max
<1> QED BY <1>5

\* With 0 for "none": the greatest of a set of positions.
LEMMA MaxOfPositions ==
    ASSUME NEW n \in Nat, NEW T \in SUBSET (1 .. n)
    PROVE  /\ Max({0} \cup T) \in {0} \cup T
           /\ \A k \in T : k <= Max({0} \cup T)
<1> DEFINE U == {0} \cup T
<1>1. U \in SUBSET (0 .. n) /\ U # {}
  OBVIOUS
<1> HIDE DEF U
<1>2. Max(U) \in U /\ \A k \in U : k <= Max(U)
  BY <1>1, MaxIsGreatest
<1> QED BY <1>2 DEF U

\* Only one position is the greatest of a set.
LEMMA MaxIs ==
    ASSUME NEW n \in Nat, NEW T \in SUBSET (1 .. n),
           NEW m \in {0} \cup T, \A k \in T : k <= m
    PROVE  Max({0} \cup T) = m
<1> DEFINE x == Max({0} \cup T)
<1>1. x \in {0} \cup T /\ \A k \in T : k <= x
  BY MaxOfPositions
<1> HIDE DEF x
<1>2. x \in Nat /\ m \in Nat /\ x <= m /\ m <= x
  BY <1>1
<1> QED BY <1>2 DEF x

-----------------------------------------------------------------------------
\* The stack after popping is the part of it below the level: what is left
\* ends in a lower level, and what is gone has none.
LEMMA PoppedIsLower ==
    ASSUME NEW st \in Seq(Ancestor), NEW level \in Nat
    PROVE  /\ Popped(st, level) \in Seq(Ancestor)
           /\ Len(Popped(st, level)) \in 0 .. Len(st)
           /\ \A k \in 1 .. Len(Popped(st, level)) : Popped(st, level)[k] = st[k]
           /\ Popped(st, level) # <<>> =>
                 st[Len(Popped(st, level))].level < level
           /\ \A k \in Len(Popped(st, level)) + 1 .. Len(st) : st[k].level >= level
<1> DEFINE lower == {k \in 1 .. Len(st) : st[k].level < level}
           m == Max({0} \cup lower)
<1>1. m \in {0} \cup lower /\ \A k \in lower : k <= m
  <2>1. Len(st) \in Nat /\ lower \in SUBSET (1 .. Len(st))
    OBVIOUS
  <2> HIDE DEF lower
  <2> QED BY <2>1, MaxOfPositions
<1>2. m \in 0 .. Len(st)
  BY <1>1
<1>3. Popped(st, level) = SubSeq(st, 1, m)
  BY DEF Popped
<1> HIDE DEF m
<1>4. /\ Popped(st, level) \in Seq(Ancestor)
      /\ Len(Popped(st, level)) = m
      /\ \A k \in 1 .. m : Popped(st, level)[k] = st[k]
  BY <1>2, <1>3
<1>5. ASSUME NEW k \in m + 1 .. Len(st) PROVE st[k].level >= level
  <2>1. k \in 1 .. Len(st) /\ ~ (k <= m)
    BY <1>2
  <2>2. k \notin lower
    BY <1>1, <2>1
  <2>3. st[k].level \in Nat
    <3>1. st[k] \in Ancestor
      BY <2>1
    <3> QED BY <3>1 DEF Ancestor, PositiveNat
  <2> QED BY <2>1, <2>2, <2>3
<1> QED BY <1>1, <1>2, <1>4, <1>5

\* The level of the last entry of one of the kinds.
LEMMA NearestAncestor ==
    ASSUME NEW st \in Seq(Ancestor), NEW kinds
    PROVE  \/ /\ NearestAncestorLevel(st, kinds) = 0
              /\ \A k \in 1 .. Len(st) : st[k].kind \notin kinds
           \/ \E m \in 1 .. Len(st) :
                 /\ st[m].kind \in kinds
                 /\ NearestAncestorLevel(st, kinds) = st[m].level
                 /\ \A k \in m + 1 .. Len(st) : st[k].kind \notin kinds
<1> DEFINE matching == {k \in 1 .. Len(st) : st[k].kind \in kinds}
<1>1. CASE matching = {}
  BY <1>1 DEF NearestAncestorLevel
<1>2. CASE matching # {}
  <2>1. Max(matching) \in matching /\ \A k \in matching : k <= Max(matching)
    <3>1. Len(st) \in Nat /\ matching \in SUBSET (0 .. Len(st))
      OBVIOUS
    <3> HIDE DEF matching
    <3> QED BY <1>2, <3>1, MaxIsGreatest
  <2>2. NearestAncestorLevel(st, kinds) = st[Max(matching)].level
    BY <1>2 DEF NearestAncestorLevel
  <2> DEFINE m == Max(matching)
  <2> HIDE DEF m
  <2>3. m \in 1 .. Len(st) /\ st[m].kind \in kinds
    BY <2>1 DEF m
  <2>4. ASSUME NEW k \in m + 1 .. Len(st) PROVE st[k].kind \notin kinds
    <3>1. k \in 1 .. Len(st) /\ ~ (k <= m)
      BY <2>3
    <3> QED BY <2>1, <3>1 DEF m
  <2>5. NearestAncestorLevel(st, kinds) = st[m].level
    BY <2>2 DEF m
  <2> QED BY <2>3, <2>4, <2>5
<1> QED BY <1>1, <1>2

\* What a flush does to the clauses: the lines are appended to the last one,
\* or make up the first one.
LEMMA AppendBodyExtends ==
    ASSUME NEW b \in Seq(Clause), NEW p \in Seq(PositiveNat)
    PROVE  /\ AppendBody(b, p) \in Seq(Clause)
           /\ p = <<>> => AppendBody(b, p) = b
           /\ b = <<>> /\ p # <<>> =>
                 /\ Len(AppendBody(b, p)) = 1
                 /\ AppendBody(b, p)[1] = [parent |-> 0, level |-> 1,
                       kind |-> "body", text |-> p, line |-> p[1]]
           /\ b # <<>> =>
                 /\ Len(AppendBody(b, p)) = Len(b)
                 /\ \A i \in 1 .. Len(b) :
                       /\ AppendBody(b, p)[i].parent = b[i].parent
                       /\ AppendBody(b, p)[i].level = b[i].level
                       /\ AppendBody(b, p)[i].kind = b[i].kind
                       /\ AppendBody(b, p)[i].line = b[i].line
                       /\ AppendBody(b, p)[i].text =
                             IF i = Len(b) THEN b[i].text \o p ELSE b[i].text
<1>1. CASE p = <<>>
  <2>1. AppendBody(b, p) = b
    BY <1>1 DEF AppendBody
  <2>2. \A i \in 1 .. Len(b) : b[i].text \o p = b[i].text
    BY <1>1 DEF Clause
  <2> QED BY <1>1, <2>1, <2>2
<1>2. CASE p # <<>> /\ b = <<>>
  <2>1. p[1] \in PositiveNat
    BY <1>2
  <2>2. AppendBody(b, p) = <<[parent |-> 0, level |-> 1, kind |-> "body",
                              text |-> p, line |-> p[1]]>>
    BY <1>2 DEF AppendBody
  <2>3. [parent |-> 0, level |-> 1, kind |-> "body", text |-> p,
         line |-> p[1]] \in Clause
    BY <2>1 DEF Clause, ClauseKind, PositiveNat
  <2> DEFINE first == [parent |-> 0, level |-> 1, kind |-> "body",
                       text |-> p, line |-> p[1]]
  <2>4. AppendBody(b, p) = <<first>> /\ first \in Clause
    BY <2>2, <2>3
  <2> HIDE DEF first
  <2>5. /\ AppendBody(b, p) \in Seq(Clause)
        /\ Len(AppendBody(b, p)) = 1
        /\ AppendBody(b, p)[1] = first
    BY <2>4
  <2> QED BY <1>2, <2>5 DEF first
<1>3. CASE p # <<>> /\ b # <<>>
  <2> DEFINE n == Len(b)
             last == [b[n] EXCEPT !.text = b[n].text \o p]
  <2>1. n \in 1 .. Len(b) /\ b[n] \in Clause
    BY <1>3
  <2>2. b[n].text \o p \in Seq(PositiveNat)
    BY <2>1 DEF Clause
  <2>3. /\ last \in Clause
        /\ last.parent = b[n].parent /\ last.level = b[n].level
        /\ last.kind = b[n].kind /\ last.line = b[n].line
        /\ last.text = b[n].text \o p
    BY <2>1, <2>2 DEF Clause
  <2>4. AppendBody(b, p) = [b EXCEPT ![n] = last]
    BY <1>3 DEF AppendBody
  <2> HIDE DEF last
  <2>5. /\ AppendBody(b, p) \in Seq(Clause)
        /\ Len(AppendBody(b, p)) = n
        /\ \A i \in 1 .. n :
              AppendBody(b, p)[i] = IF i = n THEN last ELSE b[i]
    BY <2>1, <2>3, <2>4
  <2> QED BY <1>3, <2>1, <2>3, <2>5
<1> QED BY <1>1, <1>2, <1>3

-----------------------------------------------------------------------------
(***************************************************************************)
(* The nesting of the rules.  The properties compare a parent with the Max *)
(* of a set; the inductive invariant says the same without Max, and what   *)
(* the stack knows of the clauses.                                         *)
(***************************************************************************)
IsLastOf(parent, S) == parent \in {0} \cup S /\ \A j \in S : j <= parent

LowerBefore(b, i) ==
    {j \in 1 .. i - 1 : b[j].kind # "body" /\ b[j].level < b[i].level}

KindBefore(b, i, kinds) == {j \in 1 .. i - 1 : b[j].kind \in kinds}

ParentsAreLast(b) ==
    \A i \in 1 .. Len(b) :
        /\ b[i].kind = "body" => b[i].parent = 0
        /\ b[i].kind # "body" => IsLastOf(b[i].parent, LowerBefore(b, i))
        /\ b[i].kind = "item" =>
              IsLastOf(b[i].parent, KindBefore(b, i, HeadingKinds))
        /\ b[i].kind = "bullet" =>
              IsLastOf(b[i].parent, KindBefore(b, i, ListAnchorKinds))

\* The entries of the stack are clauses, later and deeper towards the top.
StackMatches(b, st) ==
    /\ \A k \in 1 .. Len(st) :
          /\ st[k].clause \in 1 .. Len(b)
          /\ b[st[k].clause].level = st[k].level
          /\ b[st[k].clause].kind = st[k].kind
    /\ \A k, l \in 1 .. Len(st) :
          k < l => st[k].clause < st[l].clause /\ st[k].level < st[l].level

\* A clause that is off the stack was popped by one of the same or a lower
\* level, and that one, or one that popped it, is still there.
LevelsCovered(b, st) ==
    \A i \in 1 .. Len(b) : b[i].kind # "body" =>
        \E k \in 1 .. Len(st) : st[k].clause >= i /\ st[k].level <= b[i].level

\* The last clause of these kinds is still on the stack.
KindCovered(b, st, kinds) ==
    \A i \in 1 .. Len(b) : b[i].kind \in kinds =>
        \E k \in 1 .. Len(st) : st[k].clause >= i /\ st[k].kind \in kinds

Nested(b, st) ==
    /\ ParentsAreLast(b)
    /\ StackMatches(b, st)
    /\ LevelsCovered(b, st)
    /\ KindCovered(b, st, HeadingKinds)
    /\ KindCovered(b, st, ListAnchorKinds)

\* A flush changes no level, no kind and no parent.
LEMMA FlushKeepsNesting ==
    ASSUME NEW b \in Seq(Clause), NEW st \in Seq(Ancestor),
           NEW p \in Seq(PositiveNat), Nested(b, st)
    PROVE  Nested(AppendBody(b, p), st)
<1> DEFINE c == AppendBody(b, p)
<1>1. CASE b = <<>>
  <2>1. st = <<>>
    BY <1>1 DEF Nested, StackMatches
  <2>2. CASE p = <<>>
    BY <2>2, AppendBodyExtends
  <2>3. CASE p # <<>>
    <3>1. Len(c) = 1 /\ c[1].kind = "body" /\ c[1].parent = 0
      <4>1. Len(c) = 1 /\ c[1] = [parent |-> 0, level |-> 1, kind |-> "body",
                                   text |-> p, line |-> p[1]]
        BY <1>1, <2>3, AppendBodyExtends
      <4> QED BY <4>1
    <3> HIDE DEF c
    <3>2. ParentsAreLast(c)
      BY <3>1 DEF ParentsAreLast
    <3>3. StackMatches(c, st)
      BY <2>1 DEF StackMatches
    <3>4. LevelsCovered(c, st)
      BY <3>1 DEF LevelsCovered
    <3>5. KindCovered(c, st, HeadingKinds) /\ KindCovered(c, st, ListAnchorKinds)
      BY <3>1 DEF KindCovered, HeadingKinds, ListAnchorKinds
    <3> QED BY <3>2, <3>3, <3>4, <3>5 DEF Nested, c
  <2> QED BY <2>2, <2>3
<1>2. CASE b # <<>>
  <2>1. /\ Len(c) = Len(b)
        /\ \A i \in 1 .. Len(b) : /\ c[i].parent = b[i].parent
                                  /\ c[i].level = b[i].level
                                  /\ c[i].kind = b[i].kind
    BY <1>2, AppendBodyExtends
  <2> HIDE DEF c
  <2>2. ParentsAreLast(c)
    <3>1. ASSUME NEW i \in 1 .. Len(b)
          PROVE  /\ LowerBefore(c, i) = LowerBefore(b, i)
                 /\ KindBefore(c, i, HeadingKinds) = KindBefore(b, i, HeadingKinds)
                 /\ KindBefore(c, i, ListAnchorKinds)
                       = KindBefore(b, i, ListAnchorKinds)
      <4>1. \A j \in 1 .. i - 1 : j \in 1 .. Len(b)
        OBVIOUS
      <4> QED BY <2>1, <4>1 DEF LowerBefore, KindBefore
    <3> QED BY <2>1, <3>1 DEF Nested, ParentsAreLast
  <2>3. StackMatches(c, st)
    BY <2>1 DEF Nested, StackMatches
  <2>4. LevelsCovered(c, st)
    BY <2>1 DEF Nested, LevelsCovered
  <2>5. KindCovered(c, st, HeadingKinds) /\ KindCovered(c, st, ListAnchorKinds)
    BY <2>1 DEF Nested, KindCovered
  <2> QED BY <2>2, <2>3, <2>4, <2>5 DEF Nested, c
<1> QED BY <1>1, <1>2

\* Popping to one level below the last entry of some kinds leaves that entry
\* on top, and it is the last clause of these kinds.
LEMMA AnchorStaysOnTop ==
    ASSUME NEW b \in Seq(Clause), NEW st \in Seq(Ancestor), NEW kinds,
           StackMatches(b, st), KindCovered(b, st, kinds),
           NEW level, level = NearestAncestorLevel(st, kinds) + 1
    PROVE  /\ level \in PositiveNat
           /\ \A k \in 1 .. Len(st) : st[k].kind \in kinds => st[k].level < level
           /\ IsLastOf(Top(Popped(st, level)), {j \in 1 .. Len(b) : b[j].kind \in kinds})
<1> DEFINE open == Popped(st, level)
           q == Len(open)
           S == {j \in 1 .. Len(b) : b[j].kind \in kinds}
<1>0. \A k \in 1 .. Len(st) : st[k].level \in PositiveNat
  <2>1. \A k \in 1 .. Len(st) : st[k] \in Ancestor
    OBVIOUS
  <2> QED BY <2>1 DEF Ancestor
<1>1. CASE /\ NearestAncestorLevel(st, kinds) = 0
           /\ \A k \in 1 .. Len(st) : st[k].kind \notin kinds
  <2>1. level = 1
    BY <1>1
  <2>2. /\ q \in 0 .. Len(st)
        /\ open # <<>> => st[q].level < level
        /\ open \in Seq(Ancestor)
    BY <2>1, PoppedIsLower
  <2>3. open = <<>>
    <3> HIDE DEF open
    <3>1. SUFFICES ASSUME open # <<>> PROVE FALSE
      OBVIOUS
    <3>2. q \in 1 .. Len(st)
      BY <2>2, <3>1
    <3> QED BY <1>0, <2>1, <2>2, <3>1, <3>2 DEF PositiveNat
  <2>4. Top(open) = 0
    BY <2>3 DEF Top
  <2>5. S = {}
    BY <1>1 DEF KindCovered
  <2> QED BY <1>1, <2>1, <2>4, <2>5 DEF IsLastOf, PositiveNat
<1>2. CASE \E m \in 1 .. Len(st) :
              /\ st[m].kind \in kinds
              /\ NearestAncestorLevel(st, kinds) = st[m].level
              /\ \A k \in m + 1 .. Len(st) : st[k].kind \notin kinds
  <2>1. PICK m \in 1 .. Len(st) :
              /\ st[m].kind \in kinds
              /\ NearestAncestorLevel(st, kinds) = st[m].level
              /\ \A k \in m + 1 .. Len(st) : st[k].kind \notin kinds
    BY <1>2
  <2>2. level = st[m].level + 1 /\ level \in PositiveNat
    BY <1>0, <2>1 DEF PositiveNat
  <2>3. \A k \in 1 .. Len(st) : st[k].kind \in kinds => k <= m
    BY <2>1
  <2>4. ASSUME NEW k \in 1 .. m PROVE st[k].level <= st[m].level
    <3>1. k = m \/ st[k].level < st[m].level
      BY DEF StackMatches
    <3>2. k \in 1 .. Len(st) /\ m \in 1 .. Len(st)
      OBVIOUS
    <3>3. st[k].level \in Nat /\ st[m].level \in Nat
      BY <1>0, <3>2 DEF PositiveNat
    <3> QED BY <3>1, <3>3
  <2>5. \A k \in 1 .. Len(st) : st[k].kind \in kinds => st[k].level < level
    BY <1>0, <2>2, <2>3, <2>4 DEF PositiveNat
  <2>6. /\ q \in 0 .. Len(st)
        /\ open # <<>> => st[q].level < level
        /\ open \in Seq(Ancestor)
        /\ \A k \in 1 .. q : open[k] = st[k]
        /\ \A k \in q + 1 .. Len(st) : st[k].level >= level
    BY <2>2, PoppedIsLower DEF PositiveNat
  <2> HIDE DEF open
  <2>7. q = m
    <3>1. ~ (m \in q + 1 .. Len(st))
      BY <1>0, <2>2, <2>6 DEF PositiveNat
    <3>2. m <= q
      BY <2>6, <3>1
    <3>3. ~ (m < q)
      <4>1. SUFFICES ASSUME m < q PROVE FALSE
        OBVIOUS
      <4>2. q \in 1 .. Len(st) /\ open # <<>>
        BY <2>6, <4>1
      <4>3. st[m].level < st[q].level /\ st[q].level < level
        BY <2>6, <4>1, <4>2 DEF StackMatches
      <4> QED BY <1>0, <2>2, <4>2, <4>3 DEF PositiveNat
    <3> QED BY <2>6, <3>2, <3>3
  <2>8. Top(open) = st[m].clause
    BY <2>6, <2>7 DEF Top
  <2>9. st[m].clause \in S
    BY <2>1 DEF StackMatches
  <2>10. ASSUME NEW j \in S PROVE j <= st[m].clause
    <3>1. PICK k \in 1 .. Len(st) : st[k].clause >= j /\ st[k].kind \in kinds
      BY DEF KindCovered
    <3>2. k <= m
      BY <2>3, <3>1
    <3>3. st[k].clause <= st[m].clause
      BY <3>2 DEF StackMatches
    <3>4. st[k].clause \in 1 .. Len(b) /\ st[m].clause \in 1 .. Len(b)
      BY DEF StackMatches
    <3> QED BY <3>1, <3>3, <3>4
  <2> QED BY <2>2, <2>5, <2>8, <2>9, <2>10 DEF IsLastOf, open
<1> QED BY <1>1, <1>2, NearestAncestor

\* The parent that is left on the stack is the last clause of a lower level.
LEMMA PoppedFindsParent ==
    ASSUME NEW b \in Seq(Clause), NEW st \in Seq(Ancestor), NEW level \in PositiveNat,
           StackMatches(b, st), LevelsCovered(b, st)
    PROVE  IsLastOf(Top(Popped(st, level)),
                    {j \in 1 .. Len(b) : b[j].kind # "body" /\ b[j].level < level})
<1> DEFINE open == Popped(st, level)
           q == Len(open)
           S == {j \in 1 .. Len(b) : b[j].kind # "body" /\ b[j].level < level}
<1>0. \A k \in 1 .. Len(st) : st[k].level \in PositiveNat /\ st[k].kind # "body"
  <2>1. \A k \in 1 .. Len(st) : st[k] \in Ancestor
    OBVIOUS
  <2> QED BY <2>1 DEF Ancestor
<1>1. /\ q \in 0 .. Len(st)
      /\ open # <<>> => st[q].level < level
      /\ open \in Seq(Ancestor)
      /\ \A k \in 1 .. q : open[k] = st[k]
      /\ \A k \in q + 1 .. Len(st) : st[k].level >= level
  BY PoppedIsLower DEF PositiveNat
<1> HIDE DEF open
<1>2. ASSUME NEW j \in S
      PROVE  \E k \in 1 .. q : st[k].clause >= j
  <2>1. PICK k \in 1 .. Len(st) : st[k].clause >= j /\ st[k].level <= b[j].level
    BY DEF LevelsCovered
  <2>2. b[j].level \in Nat /\ b[j].level < level
    <3>1. b[j] \in Clause
      OBVIOUS
    <3> QED BY <3>1 DEF Clause, PositiveNat
  <2>3. ~ (k \in q + 1 .. Len(st))
    BY <1>0, <1>1, <2>1, <2>2 DEF PositiveNat
  <2> QED BY <1>1, <2>1, <2>3
<1>3. CASE q = 0
  <2>1. Top(open) = 0
    BY <1>1, <1>3 DEF Top
  <2>2. S = {}
    BY <1>2, <1>3
  <2> QED BY <2>1, <2>2 DEF IsLastOf, open
<1>4. CASE q # 0
  <2>1. q \in 1 .. Len(st) /\ open # <<>>
    BY <1>1, <1>4
  <2>2. Top(open) = st[q].clause
    BY <1>1, <2>1 DEF Top
  <2>3. st[q].clause \in S
    BY <1>0, <1>1, <2>1 DEF StackMatches
  <2>4. ASSUME NEW j \in S PROVE j <= st[q].clause
    <3>1. PICK k \in 1 .. q : st[k].clause >= j
      BY <1>2
    <3>2. st[k].clause <= st[q].clause
      BY <1>1, <2>1 DEF StackMatches
    <3>3. st[k].clause \in 1 .. Len(b) /\ st[q].clause \in 1 .. Len(b)
      BY <1>1, <2>1 DEF StackMatches
    <3> QED BY <3>1, <3>2, <3>3
  <2> QED BY <2>2, <2>3, <2>4 DEF IsLastOf, open
<1> QED BY <1>1, <1>3, <1>4

\* Opening a clause keeps the nesting.
LEMMA MarkerKeepsNesting ==
    ASSUME NEW b \in Seq(Clause), NEW st \in Seq(Ancestor), NEW m \in Marker,
           NEW h \in PositiveNat, Nested(b, st),
           NEW nb, NEW ns, NEW level, NEW open,
           level = ResolveLevel(m, st), open = Popped(st, level),
           nb = Append(b, [parent |-> Top(open), level |-> level,
                           kind |-> m.kind, text |-> <<>>, line |-> h]),
           ns = Append(open, [level |-> level, kind |-> m.kind,
                              clause |-> Len(b) + 1])
    PROVE  nb \in Seq(Clause) /\ ns \in Seq(Ancestor) /\ Nested(nb, ns)
<1> DEFINE n == Len(b)
           q == Len(open)
<1>1. /\ m.kind \in {"heading", "subheading", "item", "bullet"}
      /\ m.kind \in HeadingKinds => m.level_hint \in PositiveNat
  <2>1. CASE m \in [kind : {"heading"}, level_hint : {1}, content : BOOLEAN]
    BY <2>1 DEF PositiveNat
  <2>2. CASE m \in [kind : {"subheading"}, level_hint : Depth, content : {TRUE}]
    <3>1. m.kind = "subheading" /\ m.level_hint \in Depth
      BY <2>2
    <3> QED BY <3>1, LevelAssumption DEF PositiveNat
  <2>3. CASE m \in [kind : {"item", "bullet"}, level_hint : {0}, content : {TRUE}]
    BY <2>3 DEF HeadingKinds
  <2> QED BY <2>1, <2>2, <2>3 DEF Marker
<1>2. /\ level \in PositiveNat
      /\ m.kind = "item" =>
            /\ \A k \in 1 .. Len(st) : st[k].kind \in HeadingKinds
                                          => st[k].level < level
            /\ IsLastOf(Top(open), {j \in 1 .. n : b[j].kind \in HeadingKinds})
      /\ m.kind = "bullet" =>
            /\ \A k \in 1 .. Len(st) : st[k].kind \in ListAnchorKinds
                                          => st[k].level < level
            /\ IsLastOf(Top(open), {j \in 1 .. n : b[j].kind \in ListAnchorKinds})
  <2>1. CASE m.kind \in HeadingKinds
    BY <1>1, <2>1 DEF ResolveLevel, HeadingKinds
  <2>2. CASE m.kind = "item"
    <3>1. level = NearestAncestorLevel(st, HeadingKinds) + 1
      BY <2>2 DEF ResolveLevel, HeadingKinds
    <3> QED BY <2>2, <3>1, AnchorStaysOnTop DEF Nested
  <2>3. CASE m.kind = "bullet"
    <3>1. level = NearestAncestorLevel(st, ListAnchorKinds) + 1
      BY <2>3 DEF ResolveLevel, HeadingKinds
    <3> QED BY <2>3, <3>1, AnchorStaysOnTop DEF Nested
  <2> QED BY <1>1, <2>1, <2>2, <2>3 DEF HeadingKinds
<1>3. /\ open \in Seq(Ancestor)
      /\ q \in 0 .. Len(st)
      /\ \A k \in 1 .. q : open[k] = st[k]
      /\ open # <<>> => st[q].level < level
      /\ \A k \in q + 1 .. Len(st) : st[k].level >= level
  BY <1>2, PoppedIsLower DEF PositiveNat
<1>4. Top(open) \in 0 .. n
  BY <1>3 DEF Top, Nested, StackMatches
<1>5. IsLastOf(Top(open),
               {j \in 1 .. n : b[j].kind # "body" /\ b[j].level < level})
  BY <1>2, PoppedFindsParent DEF Nested
<1> DEFINE c == [parent |-> Top(open), level |-> level, kind |-> m.kind,
                 text |-> <<>>, line |-> h]
           e == [level |-> level, kind |-> m.kind, clause |-> n + 1]
<1>6. /\ c \in Clause /\ e \in Ancestor
      /\ c.parent = Top(open) /\ c.level = level /\ c.kind = m.kind
      /\ e.clause = n + 1 /\ e.level = level /\ e.kind = m.kind
  BY <1>1, <1>2, <1>4 DEF Clause, Ancestor, ClauseKind, PositiveNat
<1>7. nb = Append(b, c) /\ ns = Append(open, e)
  OBVIOUS
<1> HIDE DEF c, e
<1>8. /\ nb \in Seq(Clause) /\ Len(nb) = n + 1
      /\ nb[n + 1] = c /\ \A i \in 1 .. n : nb[i] = b[i]
  BY <1>6, <1>7
<1>9. /\ ns \in Seq(Ancestor) /\ Len(ns) = q + 1
      /\ ns[q + 1] = e /\ \A k \in 1 .. q : ns[k] = st[k]
  BY <1>3, <1>6, <1>7
<1> USE DEF Nested
<1>10. StackMatches(nb, ns)
  <2>1. \A k \in 1 .. q : /\ st[k].clause \in 1 .. n
                          /\ st[k].level < level
    <3>1. SUFFICES ASSUME NEW k \in 1 .. q
                   PROVE  st[k].clause \in 1 .. n /\ st[k].level < level
      OBVIOUS
    <3>2. k \in 1 .. Len(st) /\ q \in 1 .. Len(st) /\ open # <<>>
      BY <1>3
    <3>3. k = q \/ st[k].level < st[q].level
      BY <1>3, <3>2 DEF StackMatches
    <3>4. st[k] \in Ancestor /\ st[q] \in Ancestor
      BY <3>2
    <3>5. st[k].level \in Nat /\ st[q].level \in Nat
      BY <3>4 DEF Ancestor, PositiveNat
    <3>6. st[k].level < level
      BY <1>2, <1>3, <3>2, <3>3, <3>5 DEF PositiveNat
    <3> QED BY <3>2, <3>6 DEF StackMatches
  <2>2. ASSUME NEW k \in 1 .. Len(ns)
        PROVE  /\ ns[k].clause \in 1 .. Len(nb)
               /\ nb[ns[k].clause].level = ns[k].level
               /\ nb[ns[k].clause].kind = ns[k].kind
    <3>1. CASE k = q + 1
      BY <1>6, <1>8, <1>9, <3>1
    <3>2. CASE k \in 1 .. q
      BY <1>3, <1>8, <1>9, <2>1, <3>2 DEF StackMatches
    <3> QED BY <1>3, <1>9, <3>1, <3>2
  <2>3. ASSUME NEW k \in 1 .. Len(ns), NEW l \in 1 .. Len(ns), k < l
        PROVE  ns[k].clause < ns[l].clause /\ ns[k].level < ns[l].level
    <3>1. k \in 1 .. q
      BY <1>3, <1>9, <2>3
    <3>2. CASE l = q + 1
      BY <1>6, <1>9, <2>1, <3>1, <3>2
    <3>3. CASE l \in 1 .. q
      <4>1. ns[k] = st[k] /\ ns[l] = st[l]
        BY <1>9, <3>1, <3>3
      <4>2. k \in 1 .. Len(st) /\ l \in 1 .. Len(st)
        BY <1>3, <3>1, <3>3
      <4>3. StackMatches(b, st)
        OBVIOUS
      <4> QED BY <2>3, <4>1, <4>2, <4>3 DEF StackMatches
    <3> QED BY <1>3, <1>9, <3>2, <3>3
  <2> QED BY <2>2, <2>3 DEF StackMatches
<1>11. LevelsCovered(nb, ns)
  <2>1. q + 1 \in 1 .. Len(ns) /\ level \in Nat /\ n \in Nat
    BY <1>2, <1>3, <1>9 DEF PositiveNat
  <2>2. ASSUME NEW i \in 1 .. n, b[i].kind # "body"
        PROVE  \E k \in 1 .. Len(ns) : ns[k].clause >= i /\ ns[k].level <= b[i].level
    <3>1. PICK k \in 1 .. Len(st) : st[k].clause >= i /\ st[k].level <= b[i].level
      BY <2>2 DEF LevelsCovered
    <3>2. CASE k \in 1 .. q
      <4>1. k \in 1 .. Len(ns) /\ ns[k] = st[k]
        BY <1>3, <1>9, <3>2
      <4> QED BY <3>1, <4>1
    <3>3. CASE k \in q + 1 .. Len(st)
      <4>1. st[k] \in Ancestor /\ b[i] \in Clause
        OBVIOUS
      <4>2. st[k].level \in Nat /\ b[i].level \in Nat
        BY <4>1 DEF Ancestor, Clause, PositiveNat
      <4>3. st[k].level >= level
        BY <1>3, <3>3
      <4>4. level <= b[i].level
        BY <2>1, <3>1, <4>2, <4>3
      <4>5. ns[q + 1].clause >= i
        BY <1>6, <1>9, <2>1
      <4>6. ns[q + 1].level <= b[i].level
        BY <1>6, <1>9, <4>4
      <4> QED BY <2>1, <4>5, <4>6
    <3>4. k \in 1 .. q \/ k \in q + 1 .. Len(st)
      BY <1>3
    <3> QED BY <3>2, <3>3, <3>4
  <2>3. ns[q + 1].clause >= n + 1 /\ ns[q + 1].level <= nb[n + 1].level
    BY <1>6, <1>8, <1>9, <2>1
  <2>4. ASSUME NEW i \in 1 .. Len(nb), nb[i].kind # "body"
        PROVE  \E k \in 1 .. Len(ns) : ns[k].clause >= i /\ ns[k].level <= nb[i].level
    <3>1. CASE i = n + 1
      BY <2>1, <2>3, <3>1
    <3>2. CASE i \in 1 .. n
      <4>1. nb[i] = b[i]
        BY <1>8, <3>2
      <4> QED BY <2>2, <2>4, <3>2, <4>1
    <3>3. i = n + 1 \/ i \in 1 .. n
      BY <1>8, <2>1
    <3> QED BY <3>1, <3>2, <3>3
  <2> QED BY <2>4 DEF LevelsCovered
<1>12. ASSUME NEW kinds, KindCovered(b, st, kinds),
              m.kind \in kinds \/ \A k \in 1 .. Len(st) :
                                      st[k].kind \in kinds => st[k].level < level
       PROVE  KindCovered(nb, ns, kinds)
  <2>1. q + 1 \in 1 .. Len(ns) /\ level \in Nat /\ n \in Nat
    BY <1>2, <1>3, <1>9 DEF PositiveNat
  <2>2. ASSUME NEW i \in 1 .. Len(nb), nb[i].kind \in kinds
        PROVE  \E k \in 1 .. Len(ns) : ns[k].clause >= i /\ ns[k].kind \in kinds
    <3>1. CASE m.kind \in kinds
      <4>1. ns[q + 1].clause >= i
        BY <1>6, <1>8, <1>9, <2>1
      <4>2. ns[q + 1].kind \in kinds
        BY <1>6, <1>9, <3>1
      <4> QED BY <2>1, <4>1, <4>2
    <3>2. CASE m.kind \notin kinds
      <4>1. i # n + 1
        BY <1>6, <1>8, <2>2, <3>2
      <4>2. i \in 1 .. n /\ b[i].kind \in kinds
        BY <1>8, <2>1, <2>2, <4>1
      <4>3. PICK k \in 1 .. Len(st) : st[k].clause >= i /\ st[k].kind \in kinds
        BY <1>12, <4>2 DEF KindCovered
      <4>4. st[k].level < level /\ st[k] \in Ancestor
        BY <1>12, <3>2, <4>3
      <4>5. st[k].level \in Nat
        BY <4>4 DEF Ancestor, PositiveNat
      <4>6. ~ (k \in q + 1 .. Len(st))
        BY <1>3, <2>1, <4>4, <4>5
      <4>7. k \in 1 .. q /\ k \in 1 .. Len(ns)
        BY <1>3, <1>9, <4>6
      <4> QED BY <1>9, <4>3, <4>7
    <3> QED BY <3>1, <3>2
  <2> QED BY <2>2 DEF KindCovered
<1>13. KindCovered(nb, ns, HeadingKinds)
  <2>1. m.kind = "bullet" => \A k \in 1 .. Len(st) :
            st[k].kind \in HeadingKinds => st[k].level < level
    BY <1>2 DEF ListAnchorKinds
  <2>2. m.kind \in HeadingKinds \/ \A k \in 1 .. Len(st) :
            st[k].kind \in HeadingKinds => st[k].level < level
    BY <1>1, <1>2, <2>1 DEF HeadingKinds
  <2> QED BY <1>12, <2>2
<1>14. KindCovered(nb, ns, ListAnchorKinds)
  <2>1. m.kind \in ListAnchorKinds \/ \A k \in 1 .. Len(st) :
            st[k].kind \in ListAnchorKinds => st[k].level < level
    BY <1>1, <1>2 DEF HeadingKinds, ListAnchorKinds
  <2> QED BY <1>12, <2>1
<1>15. ParentsAreLast(nb)
  <2>1. ASSUME NEW i \in 1 .. n
        PROVE  /\ LowerBefore(nb, i) = LowerBefore(b, i)
               /\ KindBefore(nb, i, HeadingKinds) = KindBefore(b, i, HeadingKinds)
               /\ KindBefore(nb, i, ListAnchorKinds)
                     = KindBefore(b, i, ListAnchorKinds)
    <3>1. \A j \in 1 .. i - 1 : j \in 1 .. n
      OBVIOUS
    <3> QED BY <1>8, <3>1 DEF LowerBefore, KindBefore
  <2>2. n + 1 - 1 = n /\ n + 1 \in 1 .. n + 1
    OBVIOUS
  <2>3. /\ LowerBefore(nb, n + 1) =
              {j \in 1 .. n : b[j].kind # "body" /\ b[j].level < level}
        /\ KindBefore(nb, n + 1, HeadingKinds) =
              {j \in 1 .. n : b[j].kind \in HeadingKinds}
        /\ KindBefore(nb, n + 1, ListAnchorKinds) =
              {j \in 1 .. n : b[j].kind \in ListAnchorKinds}
    BY <1>6, <1>8, <2>2 DEF LowerBefore, KindBefore
  <2>4. ASSUME NEW i \in 1 .. n + 1
        PROVE  /\ nb[i].kind = "body" => nb[i].parent = 0
               /\ nb[i].kind # "body" =>
                     IsLastOf(nb[i].parent, LowerBefore(nb, i))
               /\ nb[i].kind = "item" =>
                     IsLastOf(nb[i].parent, KindBefore(nb, i, HeadingKinds))
               /\ nb[i].kind = "bullet" =>
                     IsLastOf(nb[i].parent, KindBefore(nb, i, ListAnchorKinds))
    <3>1. CASE i = n + 1
      BY <1>1, <1>2, <1>5, <1>6, <1>8, <2>3, <3>1
    <3>2. CASE i \in 1 .. n
      BY <1>8, <2>1, <3>2 DEF ParentsAreLast
    <3> QED BY <3>1, <3>2
  <2> QED BY <1>8, <2>4 DEF ParentsAreLast
<1> QED BY <1>8, <1>9, <1>10, <1>11, <1>13, <1>14, <1>15

-----------------------------------------------------------------------------
(***************************************************************************)
(* The nesting of an answer.  The map from levels to clauses knows of the  *)
(* answer what the stack knows of the clauses.                             *)
(***************************************************************************)
AnswerClause == [parent : Nat, level : PositiveNat]

LowerInAnswer(a, i) == {j \in 1 .. i - 1 : a[j].level < a[i].level}

MapMatches(a, map) ==
    /\ \A k \in DOMAIN map : map[k] \in 1 .. Len(a) /\ a[map[k]].level = k
    /\ \A k, l \in DOMAIN map : k < l => map[k] < map[l]

MapCovers(a, map) ==
    \A i \in 1 .. Len(a) : \E k \in DOMAIN map : k <= a[i].level /\ map[k] >= i

Shallower(map, level) == {k \in DOMAIN map : k < level}

\* The map after one turn of the loop, with n clauses before it.
MapAfter(map, level, n) ==
    [k \in Shallower(map, level) \cup {level} |->
        IF k = level THEN n + 1 ELSE map[k]]

AnswerParentsAreLast(a) ==
    \A i \in 1 .. Len(a) : IsLastOf(a[i].parent, LowerInAnswer(a, i))

\* The greatest level of the map below another one is that of the last clause
\* of a lower level.
LEMMA DeepestFindsParent ==
    ASSUME NEW a \in Seq(AnswerClause), NEW map, DOMAIN map \subseteq PositiveNat,
           NEW level \in PositiveNat,
           MapMatches(a, map), MapCovers(a, map),
           NEW parent,
           parent = IF Shallower(map, level) = {} THEN 0
                    ELSE map[Max(Shallower(map, level))]
    PROVE  IsLastOf(parent, {j \in 1 .. Len(a) : a[j].level < level})
<1> DEFINE shallower == Shallower(map, level)
<1> USE DEF Shallower
<1> DEFINE S == {j \in 1 .. Len(a) : a[j].level < level}
<1>1. \A j \in 1 .. Len(a) : a[j].level \in Nat
  <2>1. \A j \in 1 .. Len(a) : a[j] \in AnswerClause
    OBVIOUS
  <2> QED BY <2>1 DEF AnswerClause, PositiveNat
<1>2. level \in Nat /\ \A k \in DOMAIN map : k \in Nat
  BY DEF PositiveNat
<1>3. ASSUME NEW j \in S PROVE \E k \in shallower : map[k] >= j
  <2>1. PICK k \in DOMAIN map : k <= a[j].level /\ map[k] >= j
    BY DEF MapCovers
  <2>2. k < level
    BY <1>1, <1>2, <2>1
  <2> QED BY <2>1, <2>2
<1>4. CASE shallower = {}
  <2>1. S = {} /\ parent = 0
    BY <1>3, <1>4
  <2> QED BY <2>1 DEF IsLastOf
<1>5. CASE shallower # {}
  <2> DEFINE m == Max(shallower)
  <2>1. m \in shallower /\ \A k \in shallower : k <= m
    <3>1. shallower \in SUBSET (0 .. level)
      BY <1>2
    <3> QED BY <1>2, <1>5, <3>1, MaxIsGreatest
  <2>2. parent = map[m]
    BY <1>5
  <2> HIDE DEF m
  <2>3. m \in DOMAIN map /\ m < level /\ parent \in 1 .. Len(a) /\ a[parent].level = m
    BY <2>1, <2>2 DEF MapMatches
  <2>4. ASSUME NEW j \in S PROVE j <= parent
    <3>1. PICK k \in shallower : map[k] >= j
      BY <1>3
    <3>2. k \in DOMAIN map /\ map[k] \in 1 .. Len(a) /\ (k = m \/ k < m)
      BY <1>2, <2>1, <2>3 DEF MapMatches
    <3>3. map[k] <= parent
      BY <2>2, <2>3, <3>2 DEF MapMatches
    <3> QED BY <2>3, <3>1, <3>2, <3>3
  <2> QED BY <2>3, <2>4 DEF IsLastOf
<1> QED BY <1>4, <1>5

\* A clause of the answer keeps the nesting.
LEMMA ToPolicyClauseKeepsNesting ==
    ASSUME NEW a \in Seq(AnswerClause), NEW map, DOMAIN map \subseteq PositiveNat,
           NEW level \in PositiveNat,
           MapMatches(a, map), MapCovers(a, map), AnswerParentsAreLast(a),
           NEW parent,
           parent = IF Shallower(map, level) = {} THEN 0
                    ELSE map[Max(Shallower(map, level))],
           NEW na, na = Append(a, [parent |-> parent, level |-> level]),
           NEW nmap, nmap = MapAfter(map, level, Len(a))
    PROVE  /\ na \in Seq(AnswerClause) /\ DOMAIN nmap \subseteq PositiveNat
           /\ MapMatches(na, nmap) /\ MapCovers(na, nmap)
           /\ AnswerParentsAreLast(na)
<1> DEFINE n == Len(a)
           c == [parent |-> parent, level |-> level]
           shallower == Shallower(map, level)
<1>1. IsLastOf(parent, {j \in 1 .. n : a[j].level < level})
  BY DeepestFindsParent
<1>2. parent \in Nat
  BY <1>1 DEF IsLastOf
<1>3. c \in AnswerClause /\ c.parent = parent /\ c.level = level
  BY <1>2 DEF AnswerClause
<1> HIDE DEF c
<1>4. /\ na \in Seq(AnswerClause) /\ Len(na) = n + 1
      /\ na[n + 1] = c /\ \A i \in 1 .. n : na[i] = a[i]
  BY <1>3 DEF c
<1>5. /\ DOMAIN nmap = shallower \cup {level}
      /\ nmap[level] = n + 1
      /\ \A k \in shallower : nmap[k] = map[k] /\ k \in DOMAIN map /\ k < level
  BY DEF PositiveNat, MapAfter, Shallower
<1>6. n \in Nat /\ level \in Nat /\ \A k \in DOMAIN map : k \in Nat
  BY DEF PositiveNat
<1>7. MapMatches(na, nmap)
  <2>1. ASSUME NEW k \in DOMAIN nmap
        PROVE  nmap[k] \in 1 .. Len(na) /\ na[nmap[k]].level = k
    <3>1. CASE k = level
      BY <1>3, <1>4, <1>5, <1>6, <3>1
    <3>2. CASE k \in shallower
      BY <1>4, <1>5, <1>6, <3>2 DEF MapMatches
    <3> QED BY <1>5, <3>1, <3>2
  <2>2. ASSUME NEW k \in DOMAIN nmap, NEW l \in DOMAIN nmap, k < l
        PROVE  nmap[k] < nmap[l]
    <3>1. k \in shallower
      BY <1>5, <1>6, <2>2
    <3>2. nmap[k] \in 1 .. n
      BY <1>5, <3>1 DEF MapMatches
    <3>3. CASE l = level
      BY <1>5, <1>6, <3>2, <3>3
    <3>4. CASE l \in shallower
      BY <1>5, <2>2, <3>1, <3>4 DEF MapMatches
    <3> QED BY <1>5, <3>3, <3>4
  <2> QED BY <2>1, <2>2 DEF MapMatches
<1>8. MapCovers(na, nmap)
  <2>1. ASSUME NEW i \in 1 .. Len(na)
        PROVE  \E k \in DOMAIN nmap : k <= na[i].level /\ nmap[k] >= i
    <3>1. CASE i = n + 1
      <4>1. level <= na[i].level
        BY <1>3, <1>4, <1>6, <3>1
      <4>2. nmap[level] >= i
        BY <1>5, <1>6, <3>1
      <4> QED BY <1>5, <4>1, <4>2
    <3>2. CASE i \in 1 .. n
      <4>1. PICK k \in DOMAIN map : k <= a[i].level /\ map[k] >= i
        BY <3>2 DEF MapCovers
      <4>2. na[i] = a[i] /\ a[i] \in AnswerClause
        BY <1>4, <3>2
      <4>3. a[i].level \in Nat
        BY <4>2 DEF AnswerClause, PositiveNat
      <4>4. CASE k < level
        <5>1. k \in shallower
          BY <4>4 DEF Shallower
        <5> QED BY <1>5, <4>1, <4>2, <5>1
      <4>5. CASE ~ (k < level)
        <5>1. level <= a[i].level
          BY <1>6, <4>1, <4>3, <4>5
        <5>2. nmap[level] >= i
          BY <1>5, <1>6, <3>2
        <5> QED BY <1>5, <4>2, <5>1, <5>2
      <4> QED BY <4>4, <4>5
    <3>3. i = n + 1 \/ i \in 1 .. n
      BY <1>4, <1>6
    <3> QED BY <3>1, <3>2, <3>3
  <2> QED BY <2>1 DEF MapCovers
<1>9. AnswerParentsAreLast(na)
  <2>1. ASSUME NEW i \in 1 .. n PROVE LowerInAnswer(na, i) = LowerInAnswer(a, i)
    <3>1. \A j \in 1 .. i - 1 : j \in 1 .. n
      OBVIOUS
    <3> QED BY <1>4, <3>1 DEF LowerInAnswer
  <2>2. LowerInAnswer(na, n + 1) = {j \in 1 .. n : a[j].level < level}
    <3>1. n + 1 - 1 = n
      OBVIOUS
    <3> QED BY <1>3, <1>4, <3>1 DEF LowerInAnswer
  <2>3. ASSUME NEW i \in 1 .. Len(na) PROVE IsLastOf(na[i].parent, LowerInAnswer(na, i))
    <3>1. CASE i = n + 1
      BY <1>1, <1>3, <1>4, <2>2, <3>1
    <3>2. CASE i \in 1 .. n
      BY <1>4, <2>1, <3>2 DEF AnswerParentsAreLast
    <3> QED BY <1>4, <1>6, <3>1, <3>2
  <2> QED BY <2>3 DEF AnswerParentsAreLast
<1>10. DOMAIN nmap \subseteq PositiveNat
  BY <1>5
<1> QED BY <1>4, <1>7, <1>8, <1>9, <1>10

-----------------------------------------------------------------------------
(***************************************************************************)
(* The inductive invariant of the nesting.  The map covers the answer only *)
(* while the model's answer is read: a fallback does not use it.           *)
(***************************************************************************)
AnswerNested ==
    /\ AnswerParentsAreLast(answer)
    /\ MapMatches(answer, parentByLevel)
    /\ phase = "answer" => MapCovers(answer, parentByLevel)
    /\ phase = "fallback" => \A i \in 1 .. Len(answer) : answer[i].level = 1
    /\ phase \in {"rules", "segmented"} => answer = <<>>

NestInv == TypeOK /\ Nested(builders, stack) /\ AnswerNested

LEMMA InitNestInv == Init => NestInv
<1> SUFFICES ASSUME Init PROVE NestInv
  OBVIOUS
<1>1. TypeOK
  BY DEF Init, TypeOK
<1>2. Nested(builders, stack)
  BY DEF Init, Nested, ParentsAreLast, StackMatches, LevelsCovered, KindCovered
<1>3. AnswerNested
  BY DEF Init, AnswerNested, AnswerParentsAreLast, MapMatches
<1> QED BY <1>1, <1>2, <1>3 DEF NestInv

LEMMA FlushTypes ==
    ASSUME TypeOK PROVE Flushed \in Seq(Clause)
BY AppendBodyExtends DEF TypeOK, Flushed

LEMMA HereIsPositive ==
    ASSUME TypeOK PROVE Here \in PositiveNat
BY DEF TypeOK, Here, PositiveNat

LEMMA NextNestInv == NestInv /\ [Next]_vars => NestInv'
<1> SUFFICES ASSUME NestInv, [Next]_vars PROVE NestInv'
  OBVIOUS
<1> USE DEF NestInv
<1>1. CASE ReadBlank
  <2>1. TypeOK'
    BY <1>1, FlushTypes DEF ReadBlank, TypeOK, Line
  <2>2. Nested(builders, stack)'
    BY <1>1, FlushKeepsNesting DEF ReadBlank, TypeOK, Flushed
  <2>3. AnswerNested'
    BY <1>1 DEF ReadBlank, AnswerNested
  <2> QED BY <2>1, <2>2, <2>3
<1>2. CASE ReadText
  <2>1. TypeOK'
    BY <1>2, HereIsPositive DEF ReadText, TypeOK, Line
  <2>2. Nested(builders, stack)'
    BY <1>2 DEF ReadText
  <2>3. AnswerNested'
    BY <1>2 DEF ReadText, AnswerNested
  <2> QED BY <2>1, <2>2, <2>3
<1>3. ASSUME NEW m \in Marker, ReadMarker(m) PROVE NestInv'
  <2> DEFINE level == ResolveLevel(m, stack)
             open == Popped(stack, level)
  <2>1. Flushed \in Seq(Clause) /\ Nested(Flushed, stack)
    BY FlushTypes, FlushKeepsNesting DEF TypeOK, Flushed
  <2>2. /\ builders' = Append(Flushed, [parent |-> Top(open), level |-> level,
                          kind |-> m.kind, text |-> <<>>, line |-> Here])
        /\ stack' = Append(open, [level |-> level, kind |-> m.kind,
                                  clause |-> Len(Flushed) + 1])
    BY <1>3 DEF ReadMarker
  <2>3. stack \in Seq(Ancestor)
    BY DEF TypeOK
  <2> HIDE DEF level, open
  <2>4. /\ builders' \in Seq(Clause) /\ stack' \in Seq(Ancestor)
        /\ Nested(builders', stack')
    BY <2>1, <2>2, <2>3, HereIsPositive, MarkerKeepsNesting DEF level, open
  <2>5. TypeOK'
    <3>1. document' \in Seq(Line)
      BY <1>3 DEF ReadMarker, TypeOK, Line
    <3>2. paragraph' \in Seq(PositiveNat)
      BY <1>3, HereIsPositive DEF ReadMarker
    <3> QED BY <1>3, <2>4, <3>1, <3>2 DEF ReadMarker, TypeOK
  <2>6. AnswerNested'
    BY <1>3 DEF ReadMarker, AnswerNested
  <2> QED BY <2>4, <2>5, <2>6
<1>4. CASE EndOfText
  <2>1. TypeOK'
    BY <1>4, FlushTypes DEF EndOfText, TypeOK
  <2>2. Nested(builders, stack)'
    BY <1>4, FlushKeepsNesting DEF EndOfText, TypeOK, Flushed
  <2>3. AnswerNested'
    BY <1>4 DEF EndOfText, AnswerNested
  <2> QED BY <2>1, <2>2, <2>3
<1>5. CASE KeepRules
  <2>1. TypeOK'
    BY <1>5 DEF KeepRules, TypeOK
  <2>2. Nested(builders, stack)'
    BY <1>5 DEF KeepRules
  <2>3. AnswerNested'
    BY <1>5 DEF KeepRules, AnswerNested
  <2> QED BY <2>1, <2>2, <2>3
<1>6. CASE AskModel
  <2>1. TypeOK'
    BY <1>6 DEF AskModel, TypeOK
  <2>2. Nested(builders, stack)'
    BY <1>6 DEF AskModel
  <2>3. AnswerNested'
    <3>1. answer' = answer /\ parentByLevel' = parentByLevel /\ answer = <<>>
      BY <1>6 DEF AskModel, AnswerNested
    <3>2. MapCovers(answer', parentByLevel')
      BY <3>1 DEF MapCovers
    <3>3. phase' \in {"answer", "fallback"}
      BY <1>6 DEF AskModel
    <3>4. AnswerParentsAreLast(answer') /\ MapMatches(answer', parentByLevel')
      BY <3>1 DEF AnswerNested
    <3>5. \A i \in 1 .. Len(answer') : answer'[i].level = 1
      BY <3>1
    <3> QED BY <3>2, <3>3, <3>4, <3>5 DEF AnswerNested
  <2> QED BY <2>1, <2>2, <2>3
<1>7. ASSUME NEW l \in AnswerLevel, ToPolicyClause(l) PROVE NestInv'
  <2> DEFINE level == Max({1, l})
             parent == Deepest(Shallower(parentByLevel, level))
  <2>1. level \in PositiveNat
    <3>1. l \in Int
      BY LevelAssumption
    <3>2. PICK x \in {1, l} : \A y \in {1, l} : x >= y
      BY <3>1
    <3>3. level \in {1, l} /\ \A y \in {1, l} : level >= y
      BY <3>2, Zenon DEF Max
    <3> HIDE DEF level
    <3> QED BY <3>1, <3>3 DEF PositiveNat
  <2>2. /\ phase = "answer"
        /\ answer' = Append(answer, [parent |-> parent, level |-> level])
        /\ parentByLevel' = MapAfter(parentByLevel, level, Len(answer))
        /\ UNCHANGED <<builders, stack, paragraph, phase, document>>
    BY <1>7 DEF ToPolicyClause, Shallower, MapAfter
  <2>3. parent = IF Shallower(parentByLevel, level) = {} THEN 0
                 ELSE parentByLevel[Max(Shallower(parentByLevel, level))]
    BY DEF Deepest
  <2>4. answer \in Seq(AnswerClause) /\ DOMAIN parentByLevel \subseteq PositiveNat
    BY DEF TypeOK, AnswerClause
  <2> HIDE DEF level, parent
  <2>5. /\ MapMatches(answer, parentByLevel) /\ MapCovers(answer, parentByLevel)
        /\ AnswerParentsAreLast(answer)
    BY <2>2 DEF AnswerNested
  <2>6. /\ answer' \in Seq(AnswerClause) /\ DOMAIN parentByLevel' \subseteq PositiveNat
        /\ MapMatches(answer', parentByLevel') /\ MapCovers(answer', parentByLevel')
        /\ AnswerParentsAreLast(answer')
    BY <2>1, <2>2, <2>3, <2>4, <2>5, ToPolicyClauseKeepsNesting
  <2>7. TypeOK'
    <3>1. parentByLevel' \in [DOMAIN parentByLevel' -> 1 .. Len(answer')]
      BY <2>2, <2>6 DEF MapMatches, MapAfter
    <3> QED BY <2>2, <2>6, <3>1 DEF TypeOK, AnswerClause
  <2>8. Nested(builders, stack)'
    BY <2>2
  <2>9. AnswerNested'
    BY <2>2, <2>6 DEF AnswerNested
  <2> QED BY <2>7, <2>8, <2>9
<1>8. CASE ParagraphClause
  <2> DEFINE c == [parent |-> 0, level |-> 1]
             n == Len(answer)
  <2>1. answer \in Seq(AnswerClause)
    BY DEF TypeOK, AnswerClause
  <2>2. c \in AnswerClause /\ c.parent = 0 /\ c.level = 1
    BY DEF AnswerClause, PositiveNat
  <2>3. answer' = Append(answer, c)
    BY <1>8 DEF ParagraphClause
  <2> HIDE DEF c
  <2>4. /\ answer' \in Seq(AnswerClause) /\ Len(answer') = n + 1
        /\ answer'[n + 1] = c /\ \A i \in 1 .. n : answer'[i] = answer[i]
    BY <2>1, <2>2, <2>3
  <2>5. \A i \in 1 .. n : answer[i].level = 1
    BY <1>8 DEF ParagraphClause, AnswerNested
  <2>6. \A i \in 1 .. n + 1 : answer'[i].level = 1
    BY <2>1, <2>2, <2>4, <2>5
  <2>7. ASSUME NEW i \in 1 .. n + 1
        PROVE  IsLastOf(answer'[i].parent, LowerInAnswer(answer', i))
    <3>1. \A j \in 1 .. i - 1 : j \in 1 .. n + 1
      BY <2>1
    <3>2. LowerInAnswer(answer', i) = {}
      BY <2>6, <3>1 DEF LowerInAnswer
    <3>3. answer'[i].parent = 0
      <4>1. CASE i = n + 1
        BY <2>2, <2>4, <4>1
      <4>2. CASE i \in 1 .. n
        <5>1. \A j \in 1 .. i - 1 : j \in 1 .. n
          BY <4>2
        <5>2. LowerInAnswer(answer, i) = {}
          BY <2>5, <4>2, <5>1 DEF LowerInAnswer
        <5> QED BY <2>4, <4>2, <5>2
              DEF AnswerNested, AnswerParentsAreLast, IsLastOf
      <4> QED BY <2>1, <4>1, <4>2
    <3> QED BY <3>2, <3>3 DEF IsLastOf
  <2>8. AnswerParentsAreLast(answer')
    BY <2>4, <2>7 DEF AnswerParentsAreLast
  <2>9. MapMatches(answer', parentByLevel')
    BY <1>8, <2>1, <2>4 DEF ParagraphClause, AnswerNested, MapMatches
  <2>10. TypeOK'
    <3>1. parentByLevel' \in [DOMAIN parentByLevel' -> 1 .. Len(answer')]
      BY <1>8, <2>1, <2>4 DEF ParagraphClause, TypeOK
    <3> QED BY <1>8, <2>4, <3>1 DEF ParagraphClause, TypeOK, AnswerClause
  <2>11. AnswerNested'
    BY <1>8, <2>4, <2>6, <2>8, <2>9 DEF ParagraphClause, AnswerNested
  <2>12. Nested(builders, stack)'
    BY <1>8 DEF ParagraphClause
  <2> QED BY <2>10, <2>11, <2>12
<1>9. CASE EndOfAnswer
  <2>1. TypeOK'
    BY <1>9 DEF EndOfAnswer, TypeOK
  <2>2. Nested(builders, stack)'
    BY <1>9 DEF EndOfAnswer
  <2>3. AnswerNested'
    BY <1>9 DEF EndOfAnswer, AnswerNested
  <2> QED BY <2>1, <2>2, <2>3
<1>10. CASE UNCHANGED vars
  <2>1. TypeOK'
    BY <1>10 DEF vars, TypeOK
  <2>2. Nested(builders, stack)'
    BY <1>10 DEF vars
  <2>3. AnswerNested'
    BY <1>10 DEF vars, AnswerNested
  <2> QED BY <2>1, <2>2, <2>3
<1> QED BY <1>1, <1>2, <1>3, <1>4, <1>5, <1>6, <1>7, <1>8, <1>9, <1>10 DEF Next

LEMMA NestInvAlways == Spec => []NestInv
BY InitNestInv, NextNestInv, PTL DEF Spec

\* Levels are positive, parents are numbers and every level of the map is that
\* of a clause of the answer, whatever is read and answered.
THEOREM TypeCorrect == Spec => []TypeOK
<1>1. NestInv => TypeOK
  BY DEF NestInv
<1> QED BY <1>1, NestInvAlways, PTL

\* The rules nest every clause below the nearest clause before it that has a
\* lower level, in documents of every length and with every numbering.
THEOREM RulesNestAlways == Spec => []RulesNest
<1>1. NestInv => RulesNest
  <2> SUFFICES ASSUME NestInv, NEW i \in Clauses
               PROVE  builders[i].parent =
                        IF builders[i].kind = "body" THEN 0
                        ELSE Max({0} \cup {j \in 1 .. i - 1 :
                                   /\ builders[j].kind # "body"
                                   /\ builders[j].level < builders[i].level})
    BY DEF RulesNest
  <2>1. i \in 1 .. Len(builders) /\ ParentsAreLast(builders) /\ i - 1 \in Nat
    BY DEF Clauses, NestInv, Nested, TypeOK
  <2>2. CASE builders[i].kind = "body"
    BY <2>1, <2>2 DEF ParentsAreLast
  <2>3. CASE builders[i].kind # "body"
    <3> DEFINE S == LowerBefore(builders, i)
    <3>1. IsLastOf(builders[i].parent, S)
      BY <2>1, <2>3 DEF ParentsAreLast
    <3>2. S \in SUBSET (1 .. i - 1)
      BY DEF LowerBefore
    <3> HIDE DEF S
    <3>3. Max({0} \cup S) = builders[i].parent
      BY <2>1, <3>1, <3>2, MaxIs DEF IsLastOf
    <3> QED BY <2>3, <3>3 DEF S, LowerBefore
  <2> QED BY <2>2, <2>3
<1> QED BY <1>1, NestInvAlways, PTL

\* Items and bullets belong to the last heading (or, for a bullet, item)
\* before them, however long the list and whatever was closed in between.
THEOREM ListsStay == Spec => []ListsStayUnderTheirHeading
<1>1. NestInv => ListsStayUnderTheirHeading
  <2> SUFFICES ASSUME NestInv, NEW i \in Clauses
               PROVE  /\ builders[i].kind = "item" =>
                            builders[i].parent = LastBefore(i, HeadingKinds)
                      /\ builders[i].kind = "bullet" =>
                            builders[i].parent = LastBefore(i, ListAnchorKinds)
    BY DEF ListsStayUnderTheirHeading
  <2>1. i \in 1 .. Len(builders) /\ ParentsAreLast(builders) /\ i - 1 \in Nat
    BY DEF Clauses, NestInv, Nested, TypeOK
  <2>2. ASSUME NEW kinds, IsLastOf(builders[i].parent, KindBefore(builders, i, kinds))
        PROVE  builders[i].parent = LastBefore(i, kinds)
    <3> DEFINE S == KindBefore(builders, i, kinds)
    <3>1. S \in SUBSET (1 .. i - 1)
      BY DEF KindBefore
    <3>2. IsLastOf(builders[i].parent, S)
      BY <2>2
    <3> HIDE DEF S
    <3>3. Max({0} \cup S) = builders[i].parent
      BY <2>1, <3>1, <3>2, MaxIs DEF IsLastOf
    <3> QED BY <3>3 DEF S, KindBefore, LastBefore
  <2> QED BY <2>1, <2>2 DEF ParentsAreLast
<1> QED BY <1>1, NestInvAlways, PTL

\* The map from levels to clauses nests the model's answer as a stack would,
\* for answers of every length and with any levels.
THEOREM AnswerNestsAlways == Spec => []AnswerNests
<1>1. NestInv => AnswerNests
  <2> SUFFICES ASSUME NestInv, NEW i \in 1 .. Len(answer)
               PROVE  answer[i].parent = Max({0} \cup
                         {j \in 1 .. i - 1 : answer[j].level < answer[i].level})
    BY DEF AnswerNests
  <2> DEFINE S == LowerInAnswer(answer, i)
  <2>1. S \in SUBSET (1 .. i - 1) /\ i - 1 \in Nat
    BY DEF LowerInAnswer
  <2>2. IsLastOf(answer[i].parent, S)
    BY DEF NestInv, AnswerNested, AnswerParentsAreLast
  <2> HIDE DEF S
  <2>3. Max({0} \cup S) = answer[i].parent
    BY <2>1, <2>2, MaxIs DEF IsLastOf
  <2> QED BY <2>3 DEF S, LowerInAnswer
<1> QED BY <1>1, NestInvAlways, PTL

-----------------------------------------------------------------------------
(***************************************************************************)
(* The text.  Besides what TextKeepsItsPlace says, a step relies on this:  *)
(* the text of a clause and the pending lines have been read, and a        *)
(* pending line has content.                                               *)
(***************************************************************************)
InText(b, n) ==
    \E i \in 1 .. Len(b) : \E k \in 1 .. Len(b[i].text) : b[i].text[k] = n

Kept(b, p, d) ==
    \A n \in 1 .. Len(d) : d[n].content =>
        (\E k \in 1 .. Len(p) : p[k] = n) \/ InText(b, n)

MarkersKept(b, d) ==
    /\ \A i, j \in 1 .. Len(b) : i < j => b[i].line < b[j].line
    /\ \A i \in 1 .. Len(b) :
          /\ b[i].line \in 1 .. Len(d)
          /\ b[i].kind # "body" => d[b[i].line].kind = b[i].kind
          /\ b[i].kind = "body" => i = 1 /\ d[b[i].line].kind = "text"
    /\ \A n \in 1 .. Len(d) : d[n] \in Marker =>
          \E i \in 1 .. Len(b) : b[i].line = n

TextPlaced(b, d) ==
    \A i \in 1 .. Len(b) :
        /\ Increasing(b[i].text)
        /\ \A k \in 1 .. Len(b[i].text) :
              /\ b[i].line <= b[i].text[k]
              /\ i < Len(b) => b[i].text[k] < b[i + 1].line
              /\ b[i].text[k] <= Len(d)

PendingPlaced(b, p, d) ==
    /\ Increasing(p)
    /\ \A k \in 1 .. Len(p) :
          /\ p[k] <= Len(d)
          /\ d[p[k]].content
          /\ b # <<>> =>
                /\ b[Len(b)].line <= p[k]
                /\ \A l \in 1 .. Len(b[Len(b)].text) : b[Len(b)].text[l] < p[k]

Placed(b, p, d) ==
    /\ Kept(b, p, d)
    /\ MarkersKept(b, d)
    /\ TextPlaced(b, d)
    /\ PendingPlaced(b, p, d)

\* Before the first marker there is only text.
LEMMA OnlyTextPending ==
    ASSUME NEW p \in Seq(PositiveNat), NEW d \in Seq(Line), Placed(<<>>, p, d),
           NEW k \in 1 .. Len(p)
    PROVE  p[k] \in 1 .. Len(d) /\ d[p[k]].kind = "text"
<1>1. p[k] \in 1 .. Len(d) /\ d[p[k]].content
  BY DEF Placed, PendingPlaced, PositiveNat
<1>2. d[p[k]] \notin Marker
  <2>1. Len(<<>>) = 0
    OBVIOUS
  <2> QED BY <1>1, <2>1 DEF Placed, MarkersKept
<1>3. d[p[k]] \in Line
  BY <1>1
<1>4. d[p[k]] = TextLine
  BY <1>1, <1>2, <1>3 DEF Line, BlankLine
<1> QED BY <1>1, <1>4 DEF TextLine

\* A flush gives the pending lines to the clause they belong to.
LEMMA FlushKeepsText ==
    ASSUME NEW b \in Seq(Clause), NEW p \in Seq(PositiveNat), NEW d \in Seq(Line),
           Placed(b, p, d)
    PROVE  Placed(AppendBody(b, p), <<>>, d)
<1> DEFINE c == AppendBody(b, p)
<1>0. /\ Len(<<>>) = 0
      /\ \A q : PendingPlaced(q, <<>>, d)
  BY DEF PendingPlaced, Increasing
<1>1. CASE p = <<>>
  BY <1>1, AppendBodyExtends
<1>2. CASE p # <<>> /\ b = <<>>
  <2>1. /\ c \in Seq(Clause) /\ Len(c) = 1
        /\ c[1].kind = "body" /\ c[1].text = p /\ c[1].line = p[1]
    <3>1. /\ c \in Seq(Clause) /\ Len(c) = 1
          /\ c[1] = [parent |-> 0, level |-> 1, kind |-> "body",
                     text |-> p, line |-> p[1]]
      BY <1>2, AppendBodyExtends
    <3> QED BY <3>1
  <2> HIDE DEF c
  <2>2. 1 \in 1 .. Len(p) /\ 1 \in 1 .. Len(c)
    BY <1>2, <2>1
  <2>3. Kept(c, <<>>, d)
    <3>1. ASSUME NEW n \in 1 .. Len(d), d[n].content PROVE InText(c, n)
      <4>1. PICK k \in 1 .. Len(p) : p[k] = n
        BY <1>0, <1>2, <3>1 DEF Placed, Kept, InText
      <4> QED BY <2>1, <2>2, <4>1 DEF InText
    <3> QED BY <3>1 DEF Kept
  <2>4. MarkersKept(c, d)
    <3>1. p[1] \in 1 .. Len(d) /\ d[p[1]].kind = "text"
      BY <1>2, <2>2, OnlyTextPending
    <3>2. \A n \in 1 .. Len(d) : d[n] \notin Marker
      BY <1>0, <1>2 DEF Placed, MarkersKept
    <3> QED BY <2>1, <3>1, <3>2 DEF MarkersKept
  <2>5. TextPlaced(c, d)
    <3>1. \A k \in 1 .. Len(p) : p[1] <= p[k] /\ p[k] <= Len(d)
      <4>1. SUFFICES ASSUME NEW k \in 1 .. Len(p) PROVE p[1] <= p[k] /\ p[k] <= Len(d)
        OBVIOUS
      <4>2. p[1] \in Nat /\ p[k] \in Nat /\ (1 = k \/ 1 < k)
        BY <2>2 DEF PositiveNat
      <4> QED BY <2>2, <4>2 DEF Placed, PendingPlaced, Increasing
    <3>2. Increasing(p)
      BY DEF Placed, PendingPlaced
    <3> QED BY <2>1, <3>1, <3>2 DEF TextPlaced
  <2> QED BY <1>0, <2>3, <2>4, <2>5 DEF Placed, c
<1>3. CASE p # <<>> /\ b # <<>>
  <2> DEFINE m == Len(b)
  <2>1. /\ c \in Seq(Clause) /\ Len(c) = m /\ m \in 1 .. m
        /\ \A i \in 1 .. m :
              /\ c[i].kind = b[i].kind
              /\ c[i].line = b[i].line
              /\ c[i].text = IF i = m THEN b[i].text \o p ELSE b[i].text
    <3>1. m \in 1 .. m
      BY <1>3
    <3>2. c \in Seq(Clause)
      BY AppendBodyExtends
    <3>3. /\ Len(c) = m
          /\ \A i \in 1 .. m :
                /\ c[i].kind = b[i].kind
                /\ c[i].line = b[i].line
                /\ c[i].text = IF i = m THEN b[i].text \o p ELSE b[i].text
      BY <1>3, AppendBodyExtends
    <3> QED BY <3>1, <3>2, <3>3
  <2> HIDE DEF c
  <2>2. ASSUME NEW i \in 1 .. m
        PROVE  b[i].text \in Seq(PositiveNat) /\ b[i].line \in Nat
    <3>1. b[i] \in Clause
      OBVIOUS
    <3> QED BY <3>1 DEF Clause, PositiveNat
  <2> DEFINE t == b[m].text
             u == t \o p
  <2>3. t \in Seq(PositiveNat)
    BY <2>1, <2>2
  <2>4. /\ Len(u) = Len(t) + Len(p)
        /\ \A k \in 1 .. Len(t) : u[k] = t[k]
        /\ \A k \in 1 .. Len(p) : u[Len(t) + k] = p[k]
        /\ \A k \in 1 .. Len(u) : k \in 1 .. Len(t)
                                  \/ \E l \in 1 .. Len(p) : k = Len(t) + l
    <3>1. ASSUME NEW k \in 1 .. Len(t) + Len(p), k \notin 1 .. Len(t)
          PROVE  \E l \in 1 .. Len(p) : k = Len(t) + l
      <4>1. k - Len(t) \in 1 .. Len(p) /\ k = Len(t) + (k - Len(t))
        BY <2>3, <3>1
      <4> QED BY <4>1
    <3> QED BY <2>3, <3>1
  <2>5. c[m].text = u /\ \A i \in 1 .. m - 1 : c[i].text = b[i].text
    <3>1. \A i \in 1 .. m - 1 : i \in 1 .. m /\ i # m
      OBVIOUS
    <3> QED BY <2>1, <3>1
  <2> HIDE DEF t, u
  <2>6. Kept(c, <<>>, d)
    <3>1. ASSUME NEW n \in 1 .. Len(d), d[n].content PROVE InText(c, n)
      <4>1. CASE \E k \in 1 .. Len(p) : p[k] = n
        <5>1. PICK k \in 1 .. Len(p) : p[k] = n
          BY <4>1
        <5>2. Len(t) + k \in 1 .. Len(u) /\ u[Len(t) + k] = n
          BY <2>3, <2>4, <5>1
        <5> QED BY <2>1, <2>5, <5>2 DEF InText
      <4>2. CASE InText(b, n)
        <5>1. PICK i \in 1 .. m : \E k \in 1 .. Len(b[i].text) : b[i].text[k] = n
          BY <4>2 DEF InText
        <5>2. PICK k \in 1 .. Len(b[i].text) : b[i].text[k] = n
          BY <5>1
        <5>3. CASE i = m
          <6>1. k \in 1 .. Len(t) /\ t[k] = n
            BY <5>2, <5>3 DEF t
          <6>2. k \in 1 .. Len(u) /\ u[k] = n
            BY <2>3, <2>4, <6>1
          <6> QED BY <2>1, <2>5, <6>2 DEF InText
        <5>4. CASE i # m
          BY <2>1, <5>2, <5>4 DEF InText
        <5> QED BY <5>3, <5>4
      <4> QED BY <3>1, <4>1, <4>2 DEF Placed, Kept
    <3> QED BY <3>1 DEF Kept
  <2>7. MarkersKept(c, d)
    <3>1. MarkersKept(b, d)
      BY DEF Placed
    <3>2. ASSUME NEW i \in 1 .. m
          PROVE  /\ c[i].line \in 1 .. Len(d)
                 /\ c[i].kind # "body" => d[c[i].line].kind = c[i].kind
                 /\ c[i].kind = "body" => i = 1 /\ d[c[i].line].kind = "text"
                 /\ \A j \in 1 .. m : i < j => c[i].line < c[j].line
      <4>1. c[i].line = b[i].line /\ c[i].kind = b[i].kind
        BY <2>1
      <4>2. \A j \in 1 .. m : c[j].line = b[j].line
        BY <2>1
      <4> QED BY <3>1, <4>1, <4>2 DEF MarkersKept
    <3>3. ASSUME NEW n \in 1 .. Len(d), d[n] \in Marker
          PROVE  \E i \in 1 .. m : c[i].line = n
      <4>1. PICK i \in 1 .. m : b[i].line = n
        BY <3>1, <3>3 DEF MarkersKept
      <4> QED BY <2>1, <4>1
    <3> QED BY <2>1, <3>2, <3>3 DEF MarkersKept
  <2>8. /\ Increasing(u)
        /\ \A k \in 1 .. Len(u) : b[m].line <= u[k] /\ u[k] <= Len(d)
    <3>1. \A k \in 1 .. Len(t) : /\ b[m].line <= t[k] /\ t[k] <= Len(d)
                                 /\ t[k] \in Nat
                                 /\ \A l \in 1 .. Len(p) : t[k] < p[l]
      <4>1. \A k \in 1 .. Len(t) : b[m].line <= t[k] /\ t[k] <= Len(d)
        BY <2>1 DEF Placed, TextPlaced, t
      <4>2. \A l \in 1 .. Len(p), k \in 1 .. Len(t) : t[k] < p[l]
        BY <1>3 DEF Placed, PendingPlaced, t
      <4>3. \A k \in 1 .. Len(t) : t[k] \in Nat
        BY <2>3 DEF PositiveNat
      <4> QED BY <4>1, <4>2, <4>3
    <3>2. \A l \in 1 .. Len(p) : b[m].line <= p[l] /\ p[l] <= Len(d)
      BY <1>3 DEF Placed, PendingPlaced
    <3>3. Increasing(t) /\ Increasing(p)
      BY <2>1 DEF Placed, TextPlaced, PendingPlaced, t
    <3>4. ASSUME NEW k \in 1 .. Len(u), NEW l \in 1 .. Len(u), k < l PROVE u[k] < u[l]
      <4>1. CASE l \in 1 .. Len(t)
        <5>1. k \in 1 .. Len(t)
          BY <2>3, <3>4, <4>1
        <5> QED BY <2>4, <3>3, <3>4, <4>1, <5>1 DEF Increasing
      <4>2. CASE l \notin 1 .. Len(t)
        <5>1. PICK y \in 1 .. Len(p) : l = Len(t) + y
          BY <2>4, <4>2
        <5>2. CASE k \in 1 .. Len(t)
          BY <2>4, <3>1, <5>1, <5>2
        <5>3. CASE k \notin 1 .. Len(t)
          <6>1. PICK x \in 1 .. Len(p) : k = Len(t) + x
            BY <2>4, <5>3
          <6>2. x < y
            BY <2>3, <3>4, <5>1, <6>1
          <6>3. p[x] < p[y]
            BY <3>3, <6>2 DEF Increasing
          <6> QED BY <2>4, <5>1, <6>1, <6>3
        <5> QED BY <5>2, <5>3
      <4> QED BY <4>1, <4>2
    <3>5. ASSUME NEW k \in 1 .. Len(u) PROVE b[m].line <= u[k] /\ u[k] <= Len(d)
      BY <2>4, <3>1, <3>2
    <3> QED BY <3>4, <3>5 DEF Increasing
  <2>9. TextPlaced(c, d)
    <3>1. ASSUME NEW i \in 1 .. m
          PROVE  /\ Increasing(c[i].text)
                 /\ \A k \in 1 .. Len(c[i].text) :
                       /\ c[i].line <= c[i].text[k]
                       /\ i < m => c[i].text[k] < c[i + 1].line
                       /\ c[i].text[k] <= Len(d)
      <4>1. CASE i = m
        BY <2>1, <2>5, <2>8, <4>1
      <4>2. CASE i # m
        <5>1. i + 1 \in 1 .. m /\ i < m
          BY <4>2
        <5>2. c[i].text = b[i].text /\ c[i].line = b[i].line /\ c[i + 1].line = b[i + 1].line
          BY <2>1, <4>2, <5>1
        <5> QED BY <5>1, <5>2 DEF Placed, TextPlaced
      <4> QED BY <4>1, <4>2
    <3> QED BY <2>1, <3>1 DEF TextPlaced
  <2> QED BY <1>0, <2>6, <2>7, <2>9 DEF Placed, c
<1> QED BY <1>1, <1>2, <1>3

\* A line that is not a marker.
LEMMA LineKeepsText ==
    ASSUME NEW b \in Seq(Clause), NEW p \in Seq(PositiveNat), NEW d \in Seq(Line),
           Placed(b, p, d), NEW x \in {BlankLine, TextLine},
           NEW np, np = IF x = TextLine THEN Append(p, Len(d) + 1) ELSE p
    PROVE  Placed(b, np, Append(d, x))
<1> DEFINE e == Append(d, x)
           n == Len(d)
<1>1. /\ Len(e) = n + 1 /\ n \in Nat /\ e[n + 1] = x
      /\ \A i \in 1 .. n : e[i] = d[i]
  BY DEF Line
<1>2. x \notin Marker /\ (x.content => x = TextLine)
  <2>1. x.kind \in {"blank", "text"}
    BY DEF BlankLine, TextLine
  <2>2. \A y \in Marker : y.kind \in {"heading", "subheading", "item", "bullet"}
    BY DEF Marker
  <2>3. x \notin Marker
    BY <2>1, <2>2
  <2> QED BY <2>3 DEF BlankLine
<1>3. TextLine.content
  BY DEF TextLine
<1> HIDE DEF e
<1>4. MarkersKept(b, e)
  <2>1. ASSUME NEW i \in 1 .. Len(b)
        PROVE  /\ b[i].line \in 1 .. n + 1
               /\ b[i].kind # "body" => e[b[i].line].kind = b[i].kind
               /\ b[i].kind = "body" => i = 1 /\ e[b[i].line].kind = "text"
    <3>1. b[i].line \in 1 .. n
      BY DEF Placed, MarkersKept
    <3>2. e[b[i].line] = d[b[i].line] /\ b[i].line \in 1 .. n + 1
      BY <1>1, <3>1
    <3> QED BY <3>2 DEF Placed, MarkersKept
  <2>2. ASSUME NEW k \in 1 .. n + 1, e[k] \in Marker
        PROVE  \E i \in 1 .. Len(b) : b[i].line = k
    <3>1. k # n + 1
      BY <1>1, <1>2, <2>2
    <3>2. k \in 1 .. n /\ d[k] \in Marker
      BY <1>1, <2>2, <3>1
    <3> QED BY <3>2 DEF Placed, MarkersKept
  <2> QED BY <1>1, <2>1, <2>2 DEF Placed, MarkersKept
<1>5. TextPlaced(b, e)
  <2>1. ASSUME NEW i \in 1 .. Len(b), NEW k \in 1 .. Len(b[i].text)
        PROVE  b[i].text[k] <= n + 1
    <3>1. b[i] \in Clause
      OBVIOUS
    <3>2. b[i].text \in Seq(PositiveNat)
      BY <3>1 DEF Clause
    <3>3. b[i].text[k] \in Nat /\ b[i].text[k] <= n
      BY <3>2 DEF Placed, TextPlaced, PositiveNat
    <3> QED BY <1>1, <3>3
  <2> QED BY <1>1, <2>1 DEF Placed, TextPlaced
<1>6. /\ np \in Seq(PositiveNat)
      /\ \A k \in 1 .. Len(p) : k \in 1 .. Len(np) /\ np[k] = p[k]
      /\ \A k \in 1 .. Len(np) : k \in 1 .. Len(p) \/ (np[k] = n + 1 /\ k = Len(p) + 1
                                                         /\ x = TextLine)
      /\ x = TextLine => \E k \in 1 .. Len(np) : np[k] = n + 1
  <2>1. CASE x # TextLine
    BY <2>1
  <2>2. CASE x = TextLine
    <3>1. np = Append(p, n + 1) /\ n + 1 \in PositiveNat
      BY <1>1, <2>2 DEF PositiveNat
    <3>2. /\ np \in Seq(PositiveNat) /\ Len(np) = Len(p) + 1 /\ np[Len(p) + 1] = n + 1
          /\ \A k \in 1 .. Len(p) : np[k] = p[k]
      BY <3>1
    <3>3. Len(p) + 1 \in 1 .. Len(np)
      BY <3>2
    <3> QED BY <2>2, <3>2, <3>3
  <2> QED BY <2>1, <2>2
<1>7. Kept(b, np, e)
  <2>1. ASSUME NEW k \in 1 .. n + 1, e[k].content
        PROVE  (\E l \in 1 .. Len(np) : np[l] = k) \/ InText(b, k)
    <3>1. CASE k = n + 1
      BY <1>1, <1>2, <1>6, <2>1, <3>1
    <3>2. CASE k \in 1 .. n
      BY <1>1, <1>6, <2>1, <3>2 DEF Placed, Kept
    <3> QED BY <1>1, <3>1, <3>2
  <2> QED BY <1>1, <2>1 DEF Kept
<1>8. PendingPlaced(b, np, e)
  <2>1. \A k \in 1 .. Len(p) : p[k] \in 1 .. n
    BY DEF Placed, PendingPlaced, PositiveNat
  <2>2. ASSUME NEW k \in 1 .. Len(np), NEW l \in 1 .. Len(np), k < l
        PROVE  np[k] < np[l]
    <3>1. k \in 1 .. Len(p)
      BY <1>6, <2>2
    <3>2. CASE l \in 1 .. Len(p)
      BY <1>6, <2>2, <3>1, <3>2 DEF Placed, PendingPlaced, Increasing
    <3>3. CASE l \notin 1 .. Len(p)
      BY <1>1, <1>6, <2>1, <3>1, <3>3
    <3> QED BY <3>2, <3>3
  <2>3. b # <<>> => /\ b[Len(b)].line \in 1 .. n
                    /\ b[Len(b)].text \in Seq(PositiveNat)
                    /\ \A l \in 1 .. Len(b[Len(b)].text) : b[Len(b)].text[l] \in 1 .. n
    <3>1. SUFFICES ASSUME b # <<>>
                   PROVE  /\ b[Len(b)].line \in 1 .. n
                          /\ b[Len(b)].text \in Seq(PositiveNat)
                          /\ \A l \in 1 .. Len(b[Len(b)].text) :
                                b[Len(b)].text[l] \in 1 .. n
      OBVIOUS
    <3>2. Len(b) \in 1 .. Len(b) /\ b[Len(b)] \in Clause
      BY <3>1
    <3>3. b[Len(b)].text \in Seq(PositiveNat)
      BY <3>2 DEF Clause
    <3> QED BY <3>2, <3>3 DEF Placed, MarkersKept, TextPlaced, PositiveNat
  <2>4. ASSUME NEW k \in 1 .. Len(np)
        PROVE  /\ np[k] <= n + 1
               /\ e[np[k]].content
               /\ b # <<>> =>
                     /\ b[Len(b)].line <= np[k]
                     /\ \A l \in 1 .. Len(b[Len(b)].text) :
                           b[Len(b)].text[l] < np[k]
    <3>1. CASE k \in 1 .. Len(p)
      <4>1. np[k] = p[k] /\ p[k] \in 1 .. n /\ e[p[k]] = d[p[k]]
        BY <1>1, <1>6, <2>1, <3>1
      <4> QED BY <1>1, <3>1, <4>1 DEF Placed, PendingPlaced
    <3>2. CASE k \notin 1 .. Len(p)
      <4>1. np[k] = n + 1 /\ x = TextLine
        BY <1>6, <3>2
      <4> QED BY <1>1, <1>3, <2>3, <4>1
    <3> QED BY <3>1, <3>2
  <2> QED BY <1>1, <2>2, <2>4 DEF PendingPlaced, Increasing
<1> QED BY <1>4, <1>5, <1>7, <1>8 DEF Placed, e

\* A marker, after the flush: its clause comes last and has no text yet.
LEMMA MarkerKeepsText ==
    ASSUME NEW b \in Seq(Clause), NEW d \in Seq(Line), Placed(b, <<>>, d),
           NEW m \in Marker, NEW c \in Clause,
           c.kind = m.kind, c.text = <<>>, c.line = Len(d) + 1,
           NEW np, np = IF m.content THEN <<Len(d) + 1>> ELSE <<>>
    PROVE  Placed(Append(b, c), np, Append(d, m))
<1> DEFINE e == Append(d, m)
           a == Append(b, c)
           n == Len(d)
           q == Len(b)
<1>1. /\ Len(e) = n + 1 /\ n \in Nat /\ e[n + 1] = m
      /\ \A i \in 1 .. n : e[i] = d[i]
  BY DEF Line
<1>2. /\ Len(a) = q + 1 /\ q \in Nat /\ a[q + 1] = c /\ a # <<>>
      /\ \A i \in 1 .. q : a[i] = b[i]
  OBVIOUS
<1>3. m.kind \in {"heading", "subheading", "item", "bullet"}
  BY DEF Marker
<1> HIDE DEF e, a
<1>4. ASSUME NEW i \in 1 .. q
      PROVE  /\ b[i].line \in 1 .. n
             /\ b[i].text \in Seq(PositiveNat)
             /\ \A k \in 1 .. Len(b[i].text) : b[i].text[k] \in 1 .. n
  <2>1. b[i] \in Clause
    OBVIOUS
  <2>2. b[i].text \in Seq(PositiveNat)
    BY <2>1 DEF Clause
  <2> QED BY <2>2 DEF Placed, MarkersKept, TextPlaced, PositiveNat
<1>5. /\ Len(np) \in {0, 1}
      /\ \A k \in 1 .. Len(np) : np[k] = n + 1 /\ m.content
      /\ m.content => 1 \in 1 .. Len(np) /\ np[1] = n + 1
  BY <1>1
<1>6. Kept(a, np, e)
  <2>1. ASSUME NEW k \in 1 .. n + 1, e[k].content
        PROVE  (\E l \in 1 .. Len(np) : np[l] = k) \/ InText(a, k)
    <3>1. CASE k = n + 1
      BY <1>1, <1>5, <2>1, <3>1
    <3>2. CASE k \in 1 .. n
      <4>1. d[k].content
        BY <1>1, <2>1, <3>2
      <4>2. InText(b, k)
        <5>1. Len(<<>>) = 0
          OBVIOUS
        <5> QED BY <3>2, <4>1, <5>1 DEF Placed, Kept
      <4>3. PICK i \in 1 .. q : \E l \in 1 .. Len(b[i].text) : b[i].text[l] = k
        BY <4>2 DEF InText
      <4>4. i \in 1 .. Len(a) /\ a[i] = b[i]
        BY <1>2
      <4> QED BY <4>3, <4>4 DEF InText
    <3> QED BY <1>1, <3>1, <3>2
  <2> QED BY <1>1, <2>1 DEF Kept
<1>7. MarkersKept(a, e)
  <2>1. ASSUME NEW i \in 1 .. q + 1, NEW j \in 1 .. q + 1, i < j
        PROVE  a[i].line < a[j].line
    <3>1. i \in 1 .. q
      BY <1>2, <2>1
    <3>2. CASE j = q + 1
      BY <1>1, <1>2, <1>4, <3>1, <3>2
    <3>3. CASE j \in 1 .. q
      BY <1>2, <2>1, <3>1, <3>3 DEF Placed, MarkersKept
    <3> QED BY <1>2, <3>2, <3>3
  <2>2. ASSUME NEW i \in 1 .. q + 1
        PROVE  /\ a[i].line \in 1 .. n + 1
               /\ a[i].kind # "body" => e[a[i].line].kind = a[i].kind
               /\ a[i].kind = "body" => i = 1 /\ e[a[i].line].kind = "text"
    <3>1. CASE i = q + 1
      <4>1. a[i].line = n + 1 /\ a[i].kind = m.kind /\ e[n + 1].kind = m.kind
        BY <1>1, <1>2, <3>1
      <4> QED BY <1>1, <1>3, <4>1
    <3>2. CASE i \in 1 .. q
      <4>1. a[i] = b[i] /\ e[b[i].line] = d[b[i].line] /\ b[i].line \in 1 .. n + 1
        BY <1>1, <1>2, <1>4, <3>2
      <4> QED BY <3>2, <4>1 DEF Placed, MarkersKept
    <3> QED BY <1>2, <3>1, <3>2
  <2>3. ASSUME NEW k \in 1 .. n + 1, e[k] \in Marker
        PROVE  \E i \in 1 .. q + 1 : a[i].line = k
    <3>1. CASE k = n + 1
      <4>1. q + 1 \in 1 .. q + 1
        BY <1>2
      <4> QED BY <1>2, <3>1, <4>1
    <3>2. CASE k \in 1 .. n
      <4>1. PICK i \in 1 .. q : b[i].line = k
        BY <1>1, <2>3, <3>2 DEF Placed, MarkersKept
      <4>2. i \in 1 .. q + 1 /\ a[i] = b[i]
        BY <1>2
      <4> QED BY <4>1, <4>2
    <3> QED BY <1>1, <3>1, <3>2
  <2> QED BY <1>1, <1>2, <2>1, <2>2, <2>3 DEF MarkersKept
<1>8. TextPlaced(a, e)
  <2>1. ASSUME NEW i \in 1 .. q + 1
        PROVE  /\ Increasing(a[i].text)
               /\ \A k \in 1 .. Len(a[i].text) :
                     /\ a[i].line <= a[i].text[k]
                     /\ i < q + 1 => a[i].text[k] < a[i + 1].line
                     /\ a[i].text[k] <= n + 1
    <3>1. CASE i = q + 1
      BY <1>2, <3>1 DEF Increasing
    <3>2. CASE i \in 1 .. q
      <4>1. a[i] = b[i] /\ Increasing(b[i].text)
        BY <1>2, <3>2 DEF Placed, TextPlaced
      <4>2. ASSUME NEW k \in 1 .. Len(b[i].text)
            PROVE  /\ b[i].line <= b[i].text[k]
                   /\ b[i].text[k] < a[i + 1].line
                   /\ b[i].text[k] <= n + 1
        <5>1. b[i].text[k] \in 1 .. n /\ b[i].line <= b[i].text[k]
          BY <1>4, <3>2 DEF Placed, TextPlaced
        <5>2. CASE i = q
          BY <1>1, <1>2, <5>1, <5>2
        <5>3. CASE i # q
          <6>1. i < q /\ i + 1 \in 1 .. q
            BY <3>2, <5>3
          <6>2. a[i + 1] = b[i + 1] /\ b[i].text[k] < b[i + 1].line
            BY <1>2, <3>2, <6>1 DEF Placed, TextPlaced
          <6> QED BY <1>1, <5>1, <6>2
        <5> QED BY <5>2, <5>3
      <4> QED BY <4>1, <4>2
    <3> QED BY <1>2, <3>1, <3>2
  <2> QED BY <1>1, <1>2, <2>1 DEF TextPlaced
<1>9. PendingPlaced(a, np, e)
  <2>1. Increasing(np)
    BY <1>5 DEF Increasing
  <2>2. a[Len(a)].line = n + 1 /\ Len(a[Len(a)].text) = 0
    BY <1>2
  <2>3. ASSUME NEW k \in 1 .. Len(np)
        PROVE  np[k] = n + 1 /\ e[np[k]].content
    BY <1>1, <1>5
  <2> QED BY <1>1, <2>1, <2>2, <2>3 DEF PendingPlaced
<1> QED BY <1>6, <1>7, <1>8, <1>9 DEF Placed, a, e

TextInv == TypeOK /\ Placed(builders, paragraph, document)

LEMMA InitTextInv == Init => TextInv
<1> SUFFICES ASSUME Init PROVE TextInv
  OBVIOUS
<1>1. TypeOK
  BY InitNestInv DEF NestInv
<1>2. Placed(<<>>, <<>>, <<>>)
  BY DEF Placed, Kept, MarkersKept, TextPlaced, PendingPlaced, Increasing
<1> QED BY <1>1, <1>2 DEF Init, TextInv

LEMMA NextTextInv == NestInv /\ TextInv /\ [Next]_vars /\ NestInv' => TextInv'
<1> SUFFICES ASSUME NestInv, TextInv, [Next]_vars, NestInv' PROVE TextInv'
  OBVIOUS
<1>1. /\ builders \in Seq(Clause) /\ paragraph \in Seq(PositiveNat)
      /\ document \in Seq(Line)
      /\ Placed(builders, paragraph, document)
      /\ TypeOK'
  BY DEF NestInv, TextInv, TypeOK
<1>2. Flushed \in Seq(Clause) /\ Placed(Flushed, <<>>, document)
  BY <1>1, AppendBodyExtends, FlushKeepsText DEF Flushed
<1>3. CASE ReadBlank
  <2>1. /\ builders' = Flushed /\ paragraph' = <<>>
        /\ document' = Append(document, BlankLine)
    BY <1>3 DEF ReadBlank
  <2>2. BlankLine # TextLine
    BY DEF BlankLine, TextLine
  <2>3. Placed(Flushed, <<>>, Append(document, BlankLine))
    <3> DEFINE p == <<>>
               np == IF BlankLine = TextLine THEN Append(p, Len(document) + 1) ELSE p
    <3>1. p \in Seq(PositiveNat) /\ np = p /\ Placed(Flushed, p, document)
      BY <1>2, <2>2
    <3>2. np = IF BlankLine = TextLine THEN Append(p, Len(document) + 1) ELSE p
      OBVIOUS
    <3> HIDE DEF p, np
    <3>3. Placed(Flushed, np, Append(document, BlankLine))
      BY <1>1, <1>2, <3>1, <3>2, LineKeepsText
    <3> QED BY <3>1, <3>3 DEF p
  <2> QED BY <1>1, <2>1, <2>3 DEF TextInv
<1>4. CASE ReadText
  <2>1. /\ builders' = builders /\ paragraph' = Append(paragraph, Len(document) + 1)
        /\ document' = Append(document, TextLine)
    BY <1>4 DEF ReadText, Here
  <2>2. Placed(builders, Append(paragraph, Len(document) + 1),
               Append(document, TextLine))
    BY <1>1, LineKeepsText
  <2> QED BY <1>1, <2>1, <2>2 DEF TextInv
<1>5. ASSUME NEW m \in Marker, ReadMarker(m) PROVE TextInv'
  <2> DEFINE level == ResolveLevel(m, stack)
             open == Popped(stack, level)
             c == [parent |-> Top(open), level |-> level, kind |-> m.kind,
                   text |-> <<>>, line |-> Here]
             np == IF m.content THEN <<Len(document) + 1>> ELSE <<>>
  <2>1. /\ builders' = Append(Flushed, c)
        /\ paragraph' = np
        /\ document' = Append(document, m)
    BY <1>5 DEF ReadMarker, Here
  <2>2. c.kind = m.kind /\ c.text = <<>> /\ c.line = Len(document) + 1
    BY DEF Here
  <2>3. np = IF m.content THEN <<Len(document) + 1>> ELSE <<>>
    OBVIOUS
  <2> HIDE DEF c, np
  <2>4. c \in Clause
    <3>1. builders' \in Seq(Clause)
      BY <1>1 DEF TypeOK
    <3>2. Len(builders') = Len(Flushed) + 1 /\ builders'[Len(Flushed) + 1] = c
      BY <1>2, <2>1
    <3> QED BY <1>2, <3>1, <3>2
  <2>5. Placed(Append(Flushed, c), np, Append(document, m))
    BY <1>1, <1>2, <2>2, <2>3, <2>4, MarkerKeepsText
  <2> QED BY <1>1, <2>1, <2>5 DEF TextInv
<1>6. CASE EndOfText
  BY <1>1, <1>2, <1>6 DEF EndOfText, TextInv
<1>7. CASE UNCHANGED <<builders, paragraph, document>>
  BY <1>1, <1>7 DEF TextInv
<1>8. UNCHANGED vars => UNCHANGED <<builders, paragraph, document>>
  BY DEF vars
<1>9. KeepRules \/ AskModel \/ ParagraphClause \/ EndOfAnswer
      \/ (\E l \in AnswerLevel : ToPolicyClause(l))
          => UNCHANGED <<builders, paragraph, document>>
  BY DEF KeepRules, AskModel, ParagraphClause, EndOfAnswer, ToPolicyClause
<1> QED BY <1>3, <1>4, <1>5, <1>6, <1>7, <1>8, <1>9 DEF Next

\* No text is dropped, moved or given to another clause than the one whose
\* marker comes last before it, in documents of every length.
THEOREM TextStaysInPlace == Spec => []TextKeepsItsPlace
<1>1. TextInv => TextKeepsItsPlace
  <2> SUFFICES ASSUME TextInv PROVE TextKeepsItsPlace
    OBVIOUS
  <2>1. /\ Kept(builders, paragraph, document) /\ MarkersKept(builders, document)
        /\ TextPlaced(builders, document)
        /\ PendingPlaced(builders, paragraph, document)
        /\ paragraph \in Seq(PositiveNat)
        /\ builders \in Seq(Clause)
    BY DEF TextInv, Placed, TypeOK
  <2>2. ASSUME NEW i \in Clauses
        PROVE  builders[i].text \in Seq(PositiveNat) /\ i \in 1 .. Len(builders)
    <3>1. builders[i] \in Clause /\ i \in 1 .. Len(builders)
      BY <2>1 DEF Clauses
    <3> QED BY <3>1 DEF Clause
  <2>3. ASSUME NEW s \in Seq(PositiveNat)
        PROVE  Range(s) = {s[k] : k \in 1 .. Len(s)}
    BY DEF Range
  <2>4. NothingDropped
    <3>1. ASSUME NEW n \in 1 .. Len(document), document[n].content,
                 n \notin Range(paragraph)
          PROVE  \E i \in Clauses : n \in Range(builders[i].text)
      <4>1. ~ \E k \in 1 .. Len(paragraph) : paragraph[k] = n
        BY <2>1, <2>3, <3>1
      <4>2. InText(builders, n)
        BY <2>1, <3>1, <4>1 DEF Kept
      <4>3. PICK i \in Clauses :
                \E k \in 1 .. Len(builders[i].text) : builders[i].text[k] = n
        BY <4>2 DEF InText, Clauses
      <4> QED BY <2>2, <2>3, <4>3
    <3> QED BY <3>1 DEF NothingDropped
  <2>5. MarkersAreClauses
    BY <2>1 DEF MarkersKept, MarkersAreClauses, Clauses
  <2>6. TextUnderItsMarker
    <3>1. ASSUME NEW i \in Clauses
          PROVE  /\ Increasing(builders[i].text)
                 /\ \A n \in Range(builders[i].text) :
                       /\ builders[i].line <= n
                       /\ i < Len(builders) => n < builders[i + 1].line
      <4>1. Range(builders[i].text) =
              {builders[i].text[k] : k \in 1 .. Len(builders[i].text)}
        BY <2>2, <2>3
      <4> QED BY <2>1, <2>2, <4>1 DEF TextPlaced
    <3>2. ASSUME NEW n \in Range(paragraph), builders # <<>>
          PROVE  /\ builders[Len(builders)].line <= n
                 /\ \A o \in Range(builders[Len(builders)].text) : o < n
      <4>1. PICK k \in 1 .. Len(paragraph) : paragraph[k] = n
        BY <2>1, <2>3
      <4>2. Len(builders) \in Clauses
        BY <2>1, <3>2 DEF Clauses
      <4>3. Range(builders[Len(builders)].text) =
              {builders[Len(builders)].text[l] :
                  l \in 1 .. Len(builders[Len(builders)].text)}
        BY <2>2, <2>3, <4>2
      <4> QED BY <2>1, <3>2, <4>1, <4>3 DEF PendingPlaced
    <3>3. \A n \in Range(paragraph) : n <= Len(document)
      BY <2>1, <2>3 DEF PendingPlaced
    <3>4. Increasing(paragraph)
      BY <2>1 DEF PendingPlaced
    <3> QED BY <3>1, <3>2, <3>3, <3>4 DEF TextUnderItsMarker
  <2> QED BY <2>4, <2>5, <2>6 DEF TextKeepsItsPlace
<1>2. Spec => [](NestInv /\ TextInv)
  <2>1. Init => NestInv /\ TextInv
    BY InitNestInv, InitTextInv
  <2>2. (NestInv /\ TextInv) /\ [Next]_vars => (NestInv /\ TextInv)'
    BY NextNestInv, NextTextInv
  <2> QED BY <2>1, <2>2, PTL DEF Spec
<1> QED BY <1>1, <1>2, PTL

-----------------------------------------------------------------------------
(* The language model.                                                     *)

\* Services that trip the breaker look at it, and every task may call at least once.
LEMMA PolicyFacts ==
    ASSUME NEW s \in Services
    PROVE  /\ Policy[s].checks \in BOOLEAN /\ Policy[s].trips \in BOOLEAN
           /\ Policy[s].attempts \in Nat \ {0}
           /\ Policy[s].trips => Policy[s].checks
<1>1. Policy[s] \in {AskOnce, SegmentWithAI, GetEmbedding}
  BY ServicesAssumption DEF Policy, ExtractObligation, MapObligation, GenerateExplanation,
      ClassifyRelationship, DetectTemporalConflict, DetectStrengthConflict, DetectStaleness,
      GenerateRecommendation, GenerateRedline
<1>2. \A p \in {AskOnce, SegmentWithAI, GetEmbedding} :
        /\ p.checks \in BOOLEAN /\ p.trips \in BOOLEAN
        /\ p.attempts \in Nat \ {0}
        /\ p.trips => p.checks
  <2>1. AskOnce.checks = TRUE /\ AskOnce.trips = TRUE /\ AskOnce.attempts = 1
    BY DEF AskOnce
  <2>2. SegmentWithAI.checks = FALSE /\ SegmentWithAI.trips = FALSE /\ SegmentWithAI.attempts = 2
    BY DEF SegmentWithAI
  <2>3. GetEmbedding.checks = FALSE /\ GetEmbedding.trips = FALSE /\ GetEmbedding.attempts = 1
    BY DEF GetEmbedding
  <2>4. \A p \in {AskOnce, SegmentWithAI, GetEmbedding} : p.attempts \in Nat \ {0}
    BY <2>1, <2>2, <2>3
  <2> QED BY <2>1, <2>2, <2>3, <2>4, Zenon
<1> QED BY <1>1, <1>2

\* Embeddings never look at the breaker and never trip it.
LEMMA EmbeddingFacts == ~Policy["embed"].checks /\ ~Policy["embed"].trips
BY DEF Policy, GetEmbedding

-----------------------------------------------------------------------------
\* Types.

Comparisons == [open : BOOLEAN, vectors : SUBSET {"model", "local"}, after : BOOLEAN]
Running == [pc : {"calling", "waiting"}, service : Services, attempt : Nat]

\* A thread that does something is not idle, and does it for a service.
LEMMA RunningTask ==
    ASSUME LmTypeOK, NEW t \in Threads, task[t].pc \in {"calling", "waiting"}
    PROVE  task[t] # Idle /\ task[t] \in Running /\ task[t].service \in Services
<1>1. task[t] # Idle
  BY DEF Idle
<1>2. task[t] \in Running
  BY <1>1 DEF LmTypeOK, Running
<1> QED BY <1>1, <1>2 DEF Running

\* A vector more leaves a comparison as open as it was.
LEMMA VectorType ==
    ASSUME LmTypeOK, NEW t \in Threads, NEW s, NEW kind \in {"model", "local"}
    PROVE  /\ WithVector(t, s, kind) \in [Threads -> Comparisons]
           /\ \A u \in Threads :
                /\ WithVector(t, s, kind)[u].open = comparison[u].open
                /\ WithVector(t, s, kind)[u].after = comparison[u].after
                /\ u # t \/ s # "embed" => WithVector(t, s, kind)[u] = comparison[u]
                /\ WithVector(t, s, kind)[u].vectors \subseteq comparison[u].vectors \cup {kind}
BY DEF LmTypeOK, WithVector, Comparisons

\* What the typing of tasks says of one thread.
TaskFits(t) ==
    task[t] # Idle =>
        /\ task[t].attempt \in 1 .. Policy[task[t].service].attempts
        /\ task[t].pc = "waiting" => task[t].attempt < Policy[task[t].service].attempts
        /\ comparison[t].open <=> task[t].service = "embed"

TasksOK == /\ comparison \in [Threads -> Comparisons]
           /\ task \in [Threads -> {Idle} \cup Running]
           /\ \A t \in Threads : TaskFits(t)

\* A task ends, with one vector more if it was an embedding.
LEMMA EndOfTask ==
    ASSUME LmTypeOK, NEW t \in Threads, NEW kind \in {"model", "local"},
           task[t].pc = "calling", task' = [task EXCEPT ![t] = Idle],
           comparison' = WithVector(t, task[t].service, kind)
    PROVE  TasksOK'
<1>1. /\ comparison' \in [Threads -> Comparisons]
      /\ \A u \in Threads : comparison'[u].open = comparison[u].open
  BY VectorType
<1>2. task' \in [Threads -> {Idle} \cup Running]
  BY DEF LmTypeOK, Running
<1>3. \A u \in Threads : task'[u] = IF u = t THEN Idle ELSE task[u]
  BY DEF LmTypeOK
<1>4. ASSUME NEW u \in Threads PROVE TaskFits(u)'
  BY <1>1, <1>3 DEF LmTypeOK, TaskFits
<1> QED BY <1>1, <1>2, <1>4 DEF TasksOK

LEMMA TypeIsTasks ==
    LmTypeOK <=> /\ tripped \in BOOLEAN /\ apiFailed \in BOOLEAN
               /\ client \in [Threads -> [Services -> {"none", "absent", "present"}]]
               /\ refused \in Nat
               /\ TasksOK
BY DEF LmTypeOK, TasksOK, TaskFits, Comparisons, Running

LEMMA TypeStep == LmTypeOK /\ [LmNext]_lmVars => LmTypeOK'
<1> SUFFICES ASSUME LmTypeOK, [LmNext]_lmVars PROVE LmTypeOK' OBVIOUS
<1>0. /\ tripped \in BOOLEAN /\ apiFailed \in BOOLEAN
      /\ client \in [Threads -> [Services -> {"none", "absent", "present"}]]
      /\ refused \in Nat
      /\ comparison \in [Threads -> Comparisons]
      /\ task \in [Threads -> {Idle} \cup Running]
      /\ \A t \in Threads : TaskFits(t)
  BY TypeIsTasks DEF TasksOK
<1>1. ASSUME NEW t \in Threads, NEW s \in Services, Construct(t, s) PROVE LmTypeOK'
  BY <1>1 DEF LmTypeOK, Construct
<1>2. ASSUME NEW t \in Threads, BeginComparison(t) \/ EndComparison(t) PROVE LmTypeOK'
  <2>1. comparison' \in [Threads -> Comparisons]
    <3>1. [open |-> TRUE, vectors |-> {}, after |-> apiFailed] \in Comparisons
      BY <1>0 DEF Comparisons
    <3>2. [comparison[t] EXCEPT !.open = FALSE] \in Comparisons
      BY <1>0 DEF Comparisons
    <3> QED BY <1>0, <1>2, <3>1, <3>2 DEF BeginComparison, EndComparison
  <2>2. task[t] = Idle /\ \A u \in Threads : u # t => comparison'[u] = comparison[u]
    BY <1>0, <1>2 DEF BeginComparison, EndComparison
  <2>3. UNCHANGED <<tripped, apiFailed, client, task, refused>>
    BY <1>2 DEF BeginComparison, EndComparison
  <2>4. ASSUME NEW u \in Threads PROVE TaskFits(u)'
    BY <1>0, <2>2, <2>3 DEF TaskFits
  <2>5. TasksOK'
    BY <1>0, <2>1, <2>3, <2>4 DEF TasksOK
  <2> QED BY <1>0, <2>3, <2>5, TypeIsTasks DEF LmTypeOK, TasksOK, TaskFits, Comparisons, Running
<1>3. ASSUME NEW t \in Threads, NEW s \in Services, AnswerLocally(t, s) PROVE LmTypeOK'
  <2>1. comparison' = WithVector(t, s, "local")
    BY <1>3 DEF AnswerLocally
  <2>2. UNCHANGED <<tripped, apiFailed, client, task, refused>>
    BY <1>3 DEF AnswerLocally
  <2>3. /\ comparison' \in [Threads -> Comparisons]
        /\ \A u \in Threads : comparison'[u].open = comparison[u].open
    BY <2>1, VectorType
  <2> QED BY <1>0, <2>2, <2>3 DEF LmTypeOK, TaskFits, Comparisons, Running
<1>4. ASSUME NEW t \in Threads, NEW s \in Services, Call(t, s) PROVE LmTypeOK'
  <2>1. 1 \in 1 .. Policy[s].attempts
    BY PolicyFacts
  <2>2. [pc |-> "calling", service |-> s, attempt |-> 1] \in Running
    BY <1>0 DEF Running
  <2>3. /\ task' \in [Threads -> {Idle} \cup Running]
        /\ \A u \in Threads : task'[u] = IF u = t
              THEN [pc |-> "calling", service |-> s, attempt |-> 1]
              ELSE task[u]
    BY <1>0, <1>4, <2>2 DEF Call
  <2>4. /\ UNCHANGED <<tripped, apiFailed, client, comparison, refused>>
        /\ comparison[t].open <=> s = "embed"
    BY <1>4 DEF Call, MayStart
  <2>5. ASSUME NEW u \in Threads PROVE TaskFits(u)'
    <3>1. CASE u = t
      BY <2>1, <2>3, <2>4, <3>1 DEF TaskFits
    <3>2. CASE u # t
      BY <1>0, <2>3, <2>4, <3>2 DEF TaskFits
    <3> QED BY <3>1, <3>2
  <2> QED BY <1>0, <2>3, <2>4, <2>5 DEF LmTypeOK, TaskFits, Comparisons, Running
<1>5. ASSUME NEW t \in Threads, Reply(t) PROVE LmTypeOK'
  <2>1. TasksOK'
    BY <1>5, EndOfTask DEF Reply
  <2> QED BY <1>0, <1>5, <2>1 DEF Reply, LmTypeOK, TasksOK, TaskFits, Comparisons, Running
<1>6. ASSUME NEW t \in Threads, task[t].pc = "calling", FallBack(t)
      PROVE  TasksOK' /\ apiFailed' \in BOOLEAN /\ client' = client
  BY <1>0, <1>6, EndOfTask DEF FallBack
<1>7. ASSUME NEW t \in Threads, RefuseForQuota(t) PROVE LmTypeOK'
  <2>1. Policy[task[t].service].trips \in BOOLEAN
    BY <1>7, RunningTask, PolicyFacts DEF RefuseForQuota
  <2>2. tripped' \in BOOLEAN /\ refused' \in Nat
    BY <1>0, <1>7, <2>1 DEF RefuseForQuota
  <2>3. TasksOK' /\ apiFailed' \in BOOLEAN /\ client' = client
    BY <1>6, <1>7 DEF RefuseForQuota
  <2> QED BY <1>0, <2>2, <2>3 DEF LmTypeOK, TasksOK, TaskFits, Comparisons, Running
<1>8. ASSUME NEW t \in Threads, task[t].pc \in {"calling", "waiting"},
             task'[t] \in Running, task'[t].service = task[t].service,
             task'[t].attempt \in 1 .. Policy[task[t].service].attempts,
             task'[t].pc = "waiting" => task'[t].attempt < Policy[task[t].service].attempts,
             task' \in [Threads -> {Idle} \cup Running],
             \A u \in Threads \ {t} : task'[u] = task[u],
             UNCHANGED <<tripped, apiFailed, client, comparison, refused>>
      PROVE  LmTypeOK'
  <2>2. comparison[t].open <=> task'[t].service = "embed"
    BY <1>0, <1>8, RunningTask DEF TaskFits
  <2>3. ASSUME NEW u \in Threads PROVE TaskFits(u)'
    <3>1. CASE u = t
      BY <1>8, <2>2, <3>1 DEF TaskFits
    <3>2. CASE u # t
      BY <1>0, <1>8, <3>2 DEF TaskFits
    <3> QED BY <3>1, <3>2
  <2> QED BY <1>0, <1>8, <2>3 DEF LmTypeOK, TaskFits, Comparisons, Running
<1>9. ASSUME NEW t \in Threads, FailTransiently(t) PROVE LmTypeOK'
  <2>1. CASE FallBack(t)
    BY <1>0, <1>6, <1>9, <2>1
       DEF FailTransiently, LmTypeOK, TasksOK, TaskFits, Comparisons, Running
  <2>2. CASE /\ task[t].attempt < Policy[task[t].service].attempts
             /\ task' = [task EXCEPT ![t].pc = "waiting"]
             /\ UNCHANGED <<apiFailed, client, comparison>>
    <3> DEFINE a == [task[t] EXCEPT !.pc = "waiting"]
    <3>1. task[t].pc = "calling" /\ task[t] \in Running /\ task[t] # Idle
      BY <1>9, RunningTask DEF FailTransiently
    <3>2. /\ a \in Running /\ a.service = task[t].service /\ a.attempt = task[t].attempt
          /\ task' = [task EXCEPT ![t] = a]
      BY <2>2, <3>1 DEF Running
    <3>3. a.attempt \in 1 .. Policy[a.service].attempts
      BY <1>0, <3>1, <3>2 DEF TaskFits
    <3>4. /\ UNCHANGED <<tripped, apiFailed, client, comparison, refused>>
      BY <1>9, <2>2 DEF FailTransiently
    <3> HIDE DEF a
    <3>5. a.attempt < Policy[a.service].attempts
      BY <2>2, <3>2
    <3>6. /\ task' \in [Threads -> {Idle} \cup Running]
          /\ task'[t] = a /\ \A u \in Threads \ {t} : task'[u] = task[u]
      BY <1>0, <3>2
    <3> QED BY <1>8, <3>1, <3>2, <3>3, <3>4, <3>5, <3>6
  <2> QED BY <1>9, <2>1, <2>2 DEF FailTransiently
<1>10. ASSUME NEW t \in Threads, CallAgain(t) PROVE LmTypeOK'
  <2> DEFINE a == [task[t] EXCEPT !.pc = "calling", !.attempt = @ + 1]
  <2>1. task[t].pc = "waiting" /\ task[t] \in Running /\ task[t] # Idle
    BY <1>10, RunningTask DEF CallAgain
  <2>2. Policy[task[t].service].attempts \in Nat
    BY <1>10, RunningTask, PolicyFacts DEF CallAgain
  <2>3. /\ a \in Running /\ a.pc = "calling" /\ a.service = task[t].service
        /\ a.attempt = task[t].attempt + 1
    <3> DEFINE b == [task[t] EXCEPT !.pc = "calling"]
    <3>1. /\ b \in Running /\ b.pc = "calling" /\ b.service = task[t].service
          /\ b.attempt = task[t].attempt
      BY <2>1 DEF Running
    <3>2. a = [b EXCEPT !.attempt = b.attempt + 1]
      BY <2>1, <3>1 DEF Running
    <3> HIDE DEF a, b
    <3> QED BY <3>1, <3>2 DEF Running
  <2>6. task' = [task EXCEPT ![t] = a]
    BY <1>0, <1>10 DEF CallAgain
  <2>4. a.attempt \in 1 .. Policy[a.service].attempts
    BY <1>0, <2>1, <2>2, <2>3 DEF TaskFits, Running
  <2>5. /\ UNCHANGED <<tripped, apiFailed, client, comparison, refused>>
    BY <1>0, <1>10 DEF CallAgain
  <2> HIDE DEF a
  <2>7. /\ task' \in [Threads -> {Idle} \cup Running]
        /\ task'[t] = a /\ \A u \in Threads \ {t} : task'[u] = task[u]
    BY <1>0, <2>3, <2>6
  <2> QED BY <1>8, <2>1, <2>3, <2>4, <2>5, <2>7
<1>11. ASSUME NEW t \in Threads, FailOtherwise(t) PROVE LmTypeOK'
  BY <1>0, <1>6, <1>11 DEF FailOtherwise, LmTypeOK, TasksOK, TaskFits, Comparisons, Running
<1>12. CASE Restart
  <2>1. NoComparison \in Comparisons
    BY DEF NoComparison, Comparisons
  <2>2. /\ comparison' \in [Threads -> Comparisons]
        /\ task' \in [Threads -> {Idle} \cup Running]
        /\ \A t \in Threads : task'[t] = Idle
    BY <1>12, <2>1 DEF Restart
  <2>3. client' \in [Threads -> [Services -> {"none", "absent", "present"}]]
    BY <1>12 DEF Restart
  <2>4. /\ tripped' \in BOOLEAN /\ apiFailed' \in BOOLEAN
        /\ refused' \in Nat
    BY <1>12 DEF Restart
  <2> QED BY <2>2, <2>3, <2>4 DEF LmTypeOK, Comparisons, Running
<1>13. CASE UNCHANGED lmVars
  BY <1>13 DEF LmTypeOK, lmVars
<1> QED
  BY <1>1, <1>2, <1>3, <1>4, <1>5, <1>7, <1>9, <1>10, <1>11, <1>12, <1>13 DEF LmNext

LEMMA TypeInit == LmInit => LmTypeOK
<1>1. NoComparison \in Comparisons
  BY DEF NoComparison, Comparisons
<1> SUFFICES ASSUME LmInit PROVE LmTypeOK OBVIOUS
<1>2. /\ comparison \in [Threads -> Comparisons]
      /\ task \in [Threads -> {Idle} \cup Running]
      /\ \A t \in Threads : task[t] = Idle
  BY <1>1 DEF LmInit
<1>3. client \in [Threads -> [Services -> {"none", "absent", "present"}]]
  BY DEF LmInit
<1>4. /\ tripped \in BOOLEAN /\ apiFailed \in BOOLEAN
      /\ refused \in Nat
  BY DEF LmInit
<1> QED BY <1>2, <1>3, <1>4 DEF LmTypeOK, Comparisons, Running

\* Tasks are made within the attempts their services allow, and in a
\* comparison only embeddings run.
THEOREM TypesHold == LmSpec => []LmTypeOK
<1> QED BY TypeInit, TypeStep, PTL DEF LmSpec

-----------------------------------------------------------------------------
\* Refusals for quota.

\* The threads whose call may still be refused.
InFlight == {t \in Threads : task[t] # Idle /\ Policy[task[t].service].trips}

\* Before the breaker trips nothing was refused; after that the refused calls
\* and those that still may be are of different threads.
QuotaInv ==
    /\ ~tripped => refused = 0
    /\ tripped => refused + Cardinality(InFlight) <= Cardinality(Threads)

LEMMA InFlightIsFinite ==
    /\ IsFiniteSet(InFlight) /\ Cardinality(InFlight) \in Nat
    /\ Cardinality(InFlight) <= Cardinality(Threads)
<1>1. InFlight \subseteq Threads
  BY DEF InFlight
<1> QED BY <1>1, ThreadsAssumption, FS_Subset, FS_CardinalityType

\* Whatever neither trips the breaker nor starts a call that may be refused.
LEMMA QuotaKept ==
    ASSUME LmTypeOK, QuotaInv, tripped' = tripped, refused' = refused,
           InFlight' \subseteq InFlight
    PROVE  QuotaInv'
<1>1. Cardinality(InFlight') <= Cardinality(InFlight) /\ Cardinality(InFlight') \in Nat
  BY InFlightIsFinite, FS_Subset, FS_CardinalityType
<1>2. Cardinality(Threads) \in Nat
  BY ThreadsAssumption, FS_CardinalityType
<1> QED BY <1>1, <1>2, InFlightIsFinite DEF QuotaInv, LmTypeOK

LEMMA QuotaStep == LmTypeOK /\ QuotaInv /\ [LmNext]_lmVars => QuotaInv'
<1> SUFFICES ASSUME LmTypeOK, QuotaInv, [LmNext]_lmVars PROVE QuotaInv' OBVIOUS
<1>1. ASSUME NEW t \in Threads, task' = [task EXCEPT ![t] = Idle],
             tripped' = tripped, refused' = refused
      PROVE  QuotaInv'
  <2>1. \A u \in Threads : task'[u] = Idle \/ task'[u] = task[u]
    BY <1>1 DEF LmTypeOK
  <2>2. InFlight' \subseteq InFlight
    BY <2>1 DEF InFlight
  <2> QED BY <1>1, <2>2, QuotaKept
<1>2. ASSUME task' = task, tripped' = tripped, refused' = refused
      PROVE  QuotaInv'
  <2>1. InFlight' = InFlight
    BY <1>2 DEF InFlight
  <2> QED BY <1>2, <2>1, QuotaKept
<1>3. ASSUME NEW t \in Threads, NEW s \in Services, Call(t, s) PROVE QuotaInv'
  <2>1. tripped' = tripped /\ refused' = refused
    BY <1>3 DEF Call
  <2>2. CASE ~tripped
    BY <2>1, <2>2 DEF QuotaInv
  <2>3. CASE tripped
    <3>1. ~Policy[s].trips
      BY <1>3, <2>3, PolicyFacts DEF Call, AnswersLocally
    <3>2. /\ task'[t].service = s
          /\ \A u \in Threads : u # t => task'[u] = task[u]
      BY <1>3 DEF Call, LmTypeOK
    <3>3. InFlight' \subseteq InFlight
      BY <3>1, <3>2 DEF InFlight
    <3> QED BY <2>1, <3>3, QuotaKept
  <2> QED BY <2>2, <2>3 DEF LmTypeOK
<1>4. ASSUME NEW t \in Threads, RefuseForQuota(t) PROVE QuotaInv'
  <2>1. task[t] # Idle /\ task[t].service \in Services
    BY <1>4, RunningTask DEF RefuseForQuota
  <2>2. \A u \in Threads : task'[u] = IF u = t THEN Idle ELSE task[u]
    BY <1>4 DEF RefuseForQuota, FallBack, LmTypeOK
  <2>3. CASE ~Policy[task[t].service].trips
    <3>1. tripped' = tripped /\ refused' = refused
      BY <1>4, <2>3 DEF RefuseForQuota, LmTypeOK
    <3>2. task' = [task EXCEPT ![t] = Idle]
      BY <1>4 DEF RefuseForQuota, FallBack
    <3> QED BY <1>1, <3>1, <3>2
  <2>4. CASE Policy[task[t].service].trips
    <3>1. tripped' /\ refused' = refused + 1
      BY <1>4, <2>4 DEF RefuseForQuota
    <3>2. t \in InFlight /\ InFlight' = InFlight \ {t}
      BY <2>1, <2>2, <2>4 DEF InFlight
    <3>3. Cardinality(InFlight') = Cardinality(InFlight) - 1
      BY <3>2, InFlightIsFinite, FS_RemoveElement
    <3>4. Cardinality(Threads) \in Nat
      BY ThreadsAssumption, FS_CardinalityType
    <3> QED BY <3>1, <3>3, <3>4, InFlightIsFinite DEF QuotaInv, LmTypeOK
  <2> QED BY <2>3, <2>4
<1>5. ASSUME NEW t \in Threads, FailTransiently(t) PROVE QuotaInv'
  <2>1. tripped' = tripped /\ refused' = refused
    BY <1>5 DEF FailTransiently
  <2>2. CASE FallBack(t)
    BY <1>1, <2>1, <2>2 DEF FallBack
  <2>3. CASE task' = [task EXCEPT ![t].pc = "waiting"]
    <3>1. task[t] # Idle /\ task[t] \in Running
      BY <1>5, RunningTask DEF FailTransiently
    <3>2. \A u \in Threads : task'[u].service = task[u].service
      BY <2>3, <3>1 DEF LmTypeOK, Running
    <3>3. \A u \in Threads : task'[u] # Idle => task[u] # Idle
      BY <2>3, <3>1 DEF LmTypeOK
    <3>4. InFlight' \subseteq InFlight
      BY <3>2, <3>3 DEF InFlight
    <3> QED BY <2>1, <3>4, QuotaKept
  <2> QED BY <1>5, <2>2, <2>3 DEF FailTransiently
<1>6. ASSUME NEW t \in Threads, CallAgain(t) PROVE QuotaInv'
  <2>1. tripped' = tripped /\ refused' = refused
    BY <1>6 DEF CallAgain
  <2>2. task[t] # Idle /\ task[t] \in Running
    BY <1>6, RunningTask DEF CallAgain
  <2>3. \A u \in Threads : task'[u].service = task[u].service
    BY <1>6, <2>2 DEF CallAgain, LmTypeOK, Running
  <2>4. \A u \in Threads : task'[u] # Idle => task[u] # Idle
    BY <1>6, <2>2 DEF CallAgain, LmTypeOK
  <2>5. InFlight' \subseteq InFlight
    BY <2>3, <2>4 DEF InFlight
  <2> QED BY <2>1, <2>5, QuotaKept
<1>7. ASSUME NEW t \in Threads, Reply(t) \/ FailOtherwise(t) PROVE QuotaInv'
  BY <1>1, <1>7 DEF Reply, FailOtherwise, FallBack
<1>8. ASSUME NEW t \in Threads, NEW s \in Services, Construct(t, s) \/ AnswerLocally(t, s)
      PROVE  QuotaInv'
  BY <1>2, <1>8 DEF Construct, AnswerLocally
<1>9. ASSUME NEW t \in Threads, BeginComparison(t) \/ EndComparison(t) PROVE QuotaInv'
  BY <1>2, <1>9 DEF BeginComparison, EndComparison
<1>10. CASE Restart
  BY <1>10 DEF Restart, QuotaInv
<1>11. CASE UNCHANGED lmVars
  BY <1>2, <1>11 DEF lmVars
<1> QED
  BY <1>3, <1>4, <1>5, <1>6, <1>7, <1>8, <1>9, <1>10, <1>11 DEF LmNext

\* However calls overlap with the unlocked breaker, at most one is refused for
\* quota per thread.
THEOREM QuotaErrorsStayFew == LmSpec => []QuotaErrorsAreFew
<1>1. LmInit => QuotaInv
  BY DEF LmInit, QuotaInv
<1>2. LmTypeOK /\ QuotaInv => QuotaErrorsAreFew
  <2>1. Cardinality(Threads) \in Nat
    BY ThreadsAssumption, FS_CardinalityType
  <2> QED BY <2>1, InFlightIsFinite DEF LmTypeOK, QuotaInv, QuotaErrorsAreFew
<1> QED BY <1>1, <1>2, TypeInit, TypeStep, QuotaStep, PTL DEF LmSpec

-----------------------------------------------------------------------------
\* Vectors of two kinds.

\* Where the vectors of a comparison come from: only locally without a client,
\* or when the embedding call had failed before it began; from the model until
\* the call fails.
ComparisonInv(t) ==
    /\ comparison[t].open =>
        /\ "embed" \in Services /\ client[t]["embed"] # "none"
        /\ client[t]["embed"] = "absent" => "model" \notin comparison[t].vectors
        /\ client[t]["embed"] = "present" /\ "local" \in comparison[t].vectors => apiFailed
    /\ comparison[t].after => apiFailed /\ "model" \notin comparison[t].vectors
    /\ {"model", "local"} \subseteq comparison[t].vectors => apiFailed
    /\ task[t] # Idle /\ task[t].service = "embed" =>
        client[t]["embed"] = "present" /\ ~comparison[t].after

MixInv == \A t \in Threads : ComparisonInv(t)

\* A thread is as it was, or has only ended its task, and the flag was not reset.
Undisturbed(t) ==
    /\ client'[t] = client[t] /\ comparison'[t] = comparison[t]
    /\ task'[t] = Idle \/ (task[t] # Idle /\ task'[t].service = task[t].service)
    /\ apiFailed => apiFailed'

LEMMA UndisturbedKeeps ==
    ASSUME NEW t \in Threads, ComparisonInv(t), Undisturbed(t)
    PROVE  ComparisonInv(t)'
BY DEF ComparisonInv, Undisturbed

\* A thread gets a vector, and ends the task that made it if there was one.
GetsVector(t, kind) ==
    /\ client' = client
    /\ comparison'[t].vectors = comparison[t].vectors \cup {kind}
    /\ comparison'[t].open = comparison[t].open
    /\ comparison'[t].after = comparison[t].after
    /\ task'[t] = Idle

LEMMA ModelVectorKeeps ==
    ASSUME NEW t \in Threads, ComparisonInv(t), comparison[t].open,
           task[t] # Idle, task[t].service = "embed",
           GetsVector(t, "model"), apiFailed' = apiFailed
    PROVE  ComparisonInv(t)'
BY DEF ComparisonInv, GetsVector

\* A local vector is harmless once the call has failed, or without a client.
LEMMA LocalVectorKeeps ==
    ASSUME NEW t \in Threads, ComparisonInv(t), comparison[t].open,
           GetsVector(t, "local"), apiFailed => apiFailed',
           apiFailed' \/ client[t]["embed"] = "absent"
    PROVE  ComparisonInv(t)'
BY DEF ComparisonInv, GetsVector

LEMMA VectorFacts ==
    ASSUME LmTypeOK, NEW t \in Threads, NEW kind \in {"model", "local"}, comparison[t].open,
           comparison' = WithVector(t, "embed", kind)
    PROVE  /\ comparison'[t].vectors = comparison[t].vectors \cup {kind}
           /\ comparison'[t].open = comparison[t].open
           /\ comparison'[t].after = comparison[t].after
           /\ \A u \in Threads \ {t} : comparison'[u] = comparison[u]
BY DEF LmTypeOK, WithVector

\* A call that fails.
LEMMA FallBackKeepsMix ==
    ASSUME LmTypeOK, MixInv, NEW t \in Threads, task[t].pc = "calling", FallBack(t)
    PROVE  MixInv'
<1>1. task[t] # Idle /\ task[t].service \in Services
  BY RunningTask
<1>2. /\ \A u \in Threads : task'[u] = IF u = t THEN Idle ELSE task[u]
      /\ client' = client /\ (apiFailed => apiFailed')
      /\ comparison' = WithVector(t, task[t].service, "local")
  BY DEF FallBack, LmTypeOK
<1>3. CASE task[t].service # "embed"
  <2>1. comparison' = comparison
    BY <1>2, <1>3 DEF WithVector
  <2>2. \A u \in Threads : Undisturbed(u)
    BY <1>2, <2>1 DEF Undisturbed
  <2> QED BY <2>2, UndisturbedKeeps DEF MixInv
<1>4. CASE task[t].service = "embed"
  <2>1. apiFailed' /\ comparison[t].open
    BY <1>1, <1>4 DEF FallBack, LmTypeOK
  <2>2. /\ GetsVector(t, "local")
        /\ \A u \in Threads \ {t} : comparison'[u] = comparison[u]
    BY <1>2, <1>4, <2>1, VectorFacts DEF GetsVector
  <2>3. ComparisonInv(t)'
    BY <2>1, <2>2, LocalVectorKeeps DEF MixInv
  <2>4. \A u \in Threads \ {t} : Undisturbed(u)
    BY <1>2, <2>2 DEF Undisturbed
  <2> QED BY <2>3, <2>4, UndisturbedKeeps DEF MixInv
<1> QED BY <1>3, <1>4

LEMMA MixStep == LmTypeOK /\ MixInv /\ [LmNext]_lmVars => MixInv'
<1> SUFFICES ASSUME LmTypeOK, MixInv, [LmNext]_lmVars PROVE MixInv' OBVIOUS
<1>1. ASSUME NEW t \in Threads, NEW s \in Services, Construct(t, s) PROVE MixInv'
  <2>1. /\ task[t] = Idle /\ ~comparison[t].open
        /\ UNCHANGED <<apiFailed, task, comparison>>
        /\ \A u \in Threads \ {t} : client'[u] = client[u]
    BY <1>1 DEF Construct, LmTypeOK
  <2>2. ComparisonInv(t)'
    BY <2>1 DEF MixInv, ComparisonInv
  <2>3. \A u \in Threads \ {t} : Undisturbed(u)
    BY <2>1 DEF Undisturbed
  <2> QED BY <2>2, <2>3, UndisturbedKeeps DEF MixInv
<1>2. ASSUME NEW t \in Threads, BeginComparison(t) PROVE MixInv'
  <2>1. /\ task[t] = Idle /\ "embed" \in Services /\ client[t]["embed"] # "none"
        /\ UNCHANGED <<apiFailed, client, task>>
        /\ comparison'[t] = [open |-> TRUE, vectors |-> {}, after |-> apiFailed]
        /\ \A u \in Threads \ {t} : comparison'[u] = comparison[u]
    BY <1>2 DEF BeginComparison, LmTypeOK
  <2>2. ComparisonInv(t)'
    BY <2>1 DEF ComparisonInv
  <2>3. \A u \in Threads \ {t} : Undisturbed(u)
    BY <2>1 DEF Undisturbed
  <2> QED BY <2>2, <2>3, UndisturbedKeeps DEF MixInv
<1>3. ASSUME NEW t \in Threads, EndComparison(t) PROVE MixInv'
  <2>1. /\ task[t] = Idle /\ UNCHANGED <<apiFailed, client, task>>
        /\ comparison'[t].open = FALSE
        /\ comparison'[t].vectors = comparison[t].vectors
        /\ comparison'[t].after = comparison[t].after
        /\ \A u \in Threads \ {t} : comparison'[u] = comparison[u]
    BY <1>3 DEF EndComparison, LmTypeOK
  <2>2. ComparisonInv(t)'
    BY <2>1 DEF MixInv, ComparisonInv
  <2>3. \A u \in Threads \ {t} : Undisturbed(u)
    BY <2>1 DEF Undisturbed
  <2> QED BY <2>2, <2>3, UndisturbedKeeps DEF MixInv
<1>4. ASSUME NEW t \in Threads, NEW s \in Services, AnswerLocally(t, s) PROVE MixInv'
  <2>1. /\ task[t] = Idle /\ UNCHANGED <<apiFailed, client, task>>
        /\ comparison' = WithVector(t, s, "local")
        /\ comparison[t].open <=> s = "embed"
    BY <1>4 DEF AnswerLocally, MayStart
  <2>2. CASE s # "embed"
    <3>1. comparison' = comparison
      BY <2>1, <2>2 DEF WithVector
    <3>2. \A u \in Threads : Undisturbed(u)
      BY <2>1, <3>1 DEF Undisturbed
    <3> QED BY <3>2, UndisturbedKeeps DEF MixInv
  <2>3. CASE s = "embed"
    <3>1. apiFailed' \/ client[t]["embed"] = "absent"
      BY <1>4, <2>1, <2>3, EmbeddingFacts DEF AnswerLocally, AnswersLocally
    <3>2. /\ GetsVector(t, "local")
          /\ \A u \in Threads \ {t} : comparison'[u] = comparison[u]
      BY <2>1, <2>3, VectorFacts DEF GetsVector
    <3>3. ComparisonInv(t)'
      BY <2>1, <2>3, <3>1, <3>2, LocalVectorKeeps DEF MixInv
    <3>4. \A u \in Threads \ {t} : Undisturbed(u)
      BY <2>1, <3>2 DEF Undisturbed
    <3> QED BY <3>3, <3>4, UndisturbedKeeps DEF MixInv
  <2> QED BY <2>2, <2>3
<1>5. ASSUME NEW t \in Threads, NEW s \in Services, Call(t, s) PROVE MixInv'
  <2>1. /\ task[t] = Idle /\ UNCHANGED <<apiFailed, client, comparison>>
        /\ task'[t].service = s
        /\ \A u \in Threads \ {t} : task'[u] = task[u]
    BY <1>5 DEF Call, MayStart, LmTypeOK
  <2>2. s = "embed" => client[t]["embed"] = "present" /\ ~apiFailed
    BY <1>5 DEF Call, MayStart, AnswersLocally, LmTypeOK
  <2>3. ComparisonInv(t)'
    BY <2>1, <2>2 DEF MixInv, ComparisonInv
  <2>4. \A u \in Threads \ {t} : Undisturbed(u)
    BY <2>1 DEF Undisturbed
  <2> QED BY <2>3, <2>4, UndisturbedKeeps DEF MixInv
<1>6. ASSUME NEW t \in Threads, Reply(t) PROVE MixInv'
  <2>1. task[t] # Idle /\ task[t].service \in Services
    BY <1>6, RunningTask DEF Reply
  <2>2. /\ \A u \in Threads : task'[u] = IF u = t THEN Idle ELSE task[u]
        /\ client' = client /\ apiFailed' = apiFailed
        /\ comparison' = WithVector(t, task[t].service, "model")
    BY <1>6 DEF Reply, LmTypeOK
  <2>3. CASE task[t].service # "embed"
    <3>1. comparison' = comparison
      BY <2>2, <2>3 DEF WithVector
    <3>2. \A u \in Threads : Undisturbed(u)
      BY <2>2, <3>1 DEF Undisturbed
    <3> QED BY <3>2, UndisturbedKeeps DEF MixInv
  <2>4. CASE task[t].service = "embed"
    <3>1. comparison[t].open
      BY <2>1, <2>4 DEF LmTypeOK
    <3>2. /\ GetsVector(t, "model")
          /\ \A u \in Threads \ {t} : comparison'[u] = comparison[u]
      BY <2>2, <2>4, <3>1, VectorFacts DEF GetsVector
    <3>3. ComparisonInv(t)'
      BY <2>1, <2>2, <2>4, <3>1, <3>2, ModelVectorKeeps DEF MixInv
    <3>4. \A u \in Threads \ {t} : Undisturbed(u)
      BY <2>2, <3>2 DEF Undisturbed
    <3> QED BY <3>3, <3>4, UndisturbedKeeps DEF MixInv
  <2> QED BY <2>3, <2>4
<1>7. ASSUME NEW t \in Threads, RefuseForQuota(t) \/ FailOtherwise(t) PROVE MixInv'
  BY <1>7, FallBackKeepsMix DEF RefuseForQuota, FailOtherwise
<1>8. ASSUME NEW t \in Threads, task[t].pc \in {"calling", "waiting"},
             \A u \in Threads : task'[u].service = task[u].service,
             \A u \in Threads \ {t} : task'[u] = task[u],
             UNCHANGED <<apiFailed, client, comparison>>
      PROVE  MixInv'
  <2>1. task[t] # Idle
    BY <1>8, RunningTask
  <2>2. \A u \in Threads : Undisturbed(u)
    BY <1>8, <2>1 DEF Undisturbed
  <2> QED BY <2>2, UndisturbedKeeps DEF MixInv
<1>9. ASSUME NEW t \in Threads, FailTransiently(t) PROVE MixInv'
  <2>1. CASE FallBack(t)
    BY <1>9, <2>1, FallBackKeepsMix DEF FailTransiently
  <2>2. CASE /\ task' = [task EXCEPT ![t].pc = "waiting"]
             /\ UNCHANGED <<apiFailed, client, comparison>>
    <3>1. task[t].pc = "calling" /\ task[t] \in Running
      BY <1>9, RunningTask DEF FailTransiently
    <3> QED BY <1>8, <2>2, <3>1 DEF LmTypeOK, Running
  <2> QED BY <1>9, <2>1, <2>2 DEF FailTransiently
<1>10. ASSUME NEW t \in Threads, CallAgain(t) PROVE MixInv'
  <2>1. task[t].pc = "waiting" /\ task[t] \in Running
    BY <1>10, RunningTask DEF CallAgain
  <2> QED BY <1>8, <1>10, <2>1 DEF CallAgain, LmTypeOK, Running
<1>11. CASE Restart
  BY <1>11 DEF Restart, MixInv, ComparisonInv, NoComparison
<1>12. CASE UNCHANGED lmVars
  BY <1>12 DEF lmVars, MixInv, ComparisonInv
<1> QED
  BY <1>1, <1>2, <1>3, <1>4, <1>5, <1>6, <1>7, <1>9, <1>10, <1>11, <1>12 DEF LmNext

\* Two kinds of vectors meet in no comparison but the one during which the
\* embedding call failed first.
THEOREM MixingIsConfined == LmSpec => []MixedOnlyByTheFirstFailure
<1>1. LmInit => MixInv
  BY DEF LmInit, MixInv, ComparisonInv, NoComparison
<1>2. LmTypeOK /\ MixInv => MixedOnlyByTheFirstFailure
  <2> SUFFICES ASSUME LmTypeOK, MixInv, NEW t \in Threads,
                      Cardinality(comparison[t].vectors) > 1
               PROVE  apiFailed /\ ~comparison[t].after
    BY DEF MixedOnlyByTheFirstFailure
  <2>1. comparison[t].vectors \subseteq {"model", "local"}
    BY DEF LmTypeOK
  <2>2. ASSUME NEW kind \in {"model", "local"}, kind \notin comparison[t].vectors
        PROVE  FALSE
    <3>1. PICK other : comparison[t].vectors \subseteq {other}
      BY <2>1, <2>2
    <3>2. IsFiniteSet({other}) /\ Cardinality({other}) = 1
      BY FS_Singleton
    <3>3. /\ Cardinality(comparison[t].vectors) <= 1
          /\ Cardinality(comparison[t].vectors) \in Nat
      BY <3>1, <3>2, FS_Subset, FS_CardinalityType
    <3> QED BY <3>3
  <2> QED BY <2>2 DEF MixInv, ComparisonInv
<1> QED BY <1>1, <1>2, TypeInit, TypeStep, MixStep, PTL DEF LmSpec

-----------------------------------------------------------------------------
(* Resegmentation and deletion.                                            *)

\* A batch is stored by the commit of its request, and only then.
StoredAtCommit ==
    \A r \in Resegment : batch[r] # "none" <=> pc[r] = "done"

\* Before its UPDATE a request has seen nothing.
NothingSeenBefore ==
    \A r \in Request :
        pc[r] \in {"idle", "versions", "update versions", "update"} =>
            seen[r] = {} /\ todo[r] = {}

\* Each batch the UPDATE saw was stored; while the transaction is open it is
\* still to be visited, or locked, or found deleted.
EachSeenAccounted ==
    \A r \in Request :
        /\ todo[r] \subseteq seen[r]
        /\ \A b \in seen[r] :
              /\ batch[b] # "none"
              /\ pc[r] = "scan" =>
                    b \in todo[r] \/ lock[b] = r \/ batch[b] = "deleted"
              /\ pc[r] = "commit" => lock[b] = r \/ batch[b] = "deleted"

\* A deletion past its UPDATE of the versions has the version to itself, or
\* another deletion completed before.
VersionIsGoing ==
    \A d \in Delete : pc[d] \in {"update", "scan", "commit"} =>
        versionLock = d \/ version = "deleted"

\* The inductive invariant.
Inv ==
    /\ LifecycleTypeOK
    /\ StoredAtCommit
    /\ NothingSeenBefore
    /\ EachSeenAccounted
    /\ VersionIsGoing
    /\ DeletedTogether
    /\ NeverWithoutClauses
    /\ ReplacesWhatItSaw

\* The sets that every step below needs expanded.
USE DEF Request, Batch, Ended, Stage

-----------------------------------------------------------------------------
\* The invariant holds when the policy has just been uploaded.
LEMMA InitInv == LifecycleInit => Inv
<1> SUFFICES ASSUME LifecycleInit PROVE Inv
  OBVIOUS
<1>1. LifecycleTypeOK
  BY RequestAssumption DEF LifecycleInit, LifecycleTypeOK
<1>2. StoredAtCommit /\ NothingSeenBefore /\ EachSeenAccounted /\ VersionIsGoing
  BY RequestAssumption
  DEF LifecycleInit, StoredAtCommit, NothingSeenBefore, EachSeenAccounted, VersionIsGoing
<1>3. DeletedTogether /\ NeverWithoutClauses /\ ReplacesWhatItSaw
  BY RequestAssumption
  DEF LifecycleInit, DeletedTogether, NeverWithoutClauses, ReplacesWhatItSaw, Visible
<1> QED BY <1>1, <1>2, <1>3 DEF Inv

\* Steps that change neither rows nor what an UPDATE saw.
LEMMA KeepsRows ==
  ASSUME Inv, NEW r \in Request,
         NEW s \in {"update", "refused", "versions", "update versions"},
         pc[r] \in {"idle", "versions"}, pc' = [pc EXCEPT ![r] = s],
         r \in Delete => s # "update",
         listed' \in [Delete -> BOOLEAN],
         UNCHANGED <<policy, version, batch, versionLock, lock, seen, todo>>
  PROVE  Inv'
<1>1. LifecycleTypeOK'
  BY DEF Inv, LifecycleTypeOK
<1>2. /\ StoredAtCommit' /\ NothingSeenBefore'
     /\ EachSeenAccounted' /\ VersionIsGoing'
  <2>1. StoredAtCommit'
    BY RequestAssumption DEF Inv, LifecycleTypeOK, StoredAtCommit
  <2>2. NothingSeenBefore'
    BY RequestAssumption DEF Inv, LifecycleTypeOK, NothingSeenBefore
  <2>3. EachSeenAccounted'
    BY RequestAssumption DEF Inv, LifecycleTypeOK, EachSeenAccounted
  <2>4. VersionIsGoing'
    BY RequestAssumption DEF Inv, LifecycleTypeOK, VersionIsGoing
  <2> QED BY <2>1, <2>2, <2>3, <2>4
<1>3. DeletedTogether' /\ NeverWithoutClauses' /\ ReplacesWhatItSaw'
  BY DEF Inv, LifecycleTypeOK, DeletedTogether, NeverWithoutClauses, ReplacesWhatItSaw, Visible
<1> QED BY <1>1, <1>2, <1>3 DEF Inv

\* The UPDATE of the clauses.
LEMMA ClauseUpdateInv ==
  ASSUME Inv, NEW r \in Request, ClauseUpdate(r) PROVE Inv'
<1>1. CASE StartUpdate(r)
  <2>1. LifecycleTypeOK'
    BY <1>1 DEF Inv, LifecycleTypeOK, StartUpdate, Go, Visible
  <2>2. StoredAtCommit' /\ NothingSeenBefore' /\ VersionIsGoing'
    <3>1. StoredAtCommit'
      BY <1>1, RequestAssumption DEF Inv, LifecycleTypeOK, StartUpdate, Go, StoredAtCommit
    <3>2. NothingSeenBefore'
      BY <1>1, RequestAssumption DEF Inv, LifecycleTypeOK, StartUpdate, Go, NothingSeenBefore
    <3>3. VersionIsGoing'
      BY <1>1, RequestAssumption DEF Inv, LifecycleTypeOK, StartUpdate, Go, VersionIsGoing
    <3> QED BY <3>1, <3>2, <3>3
  <2>3. EachSeenAccounted'
    BY <1>1 DEF Inv, LifecycleTypeOK, EachSeenAccounted, StartUpdate, Go, Visible
  <2>4. DeletedTogether' /\ NeverWithoutClauses' /\ ReplacesWhatItSaw'
    BY <1>1 DEF Inv, LifecycleTypeOK, DeletedTogether, NeverWithoutClauses,
                ReplacesWhatItSaw, Visible, StartUpdate, Go
  <2> QED BY <2>1, <2>2, <2>3, <2>4 DEF Inv
<1>2. CASE VisitBatch(r)
  <2> PICK b \in todo[r] :
        /\ lock[b] = Nobody
        /\ todo' = [todo EXCEPT ![r] = @ \ {b}]
        /\ lock' = IF batch[b] = "live" THEN [lock EXCEPT ![b] = r] ELSE lock
    BY <1>2 DEF VisitBatch
  <2>s. pc[r] = "scan" /\ pc' = [pc EXCEPT ![r] = "scan"]
    BY <1>2 DEF VisitBatch, Go
  <2>t. pc \in [Request -> Stage]
    BY DEF Inv, LifecycleTypeOK
  <2>a. /\ pc[r] = "scan" /\ pc' = pc
        /\ UNCHANGED <<policy, version, batch, versionLock, listed, seen>>
    BY <1>2, <2>s, <2>t DEF VisitBatch
  <2>b. b \in Batch
    BY DEF Inv, LifecycleTypeOK
  <2>1. LifecycleTypeOK'
    BY <2>a, <2>b DEF Inv, LifecycleTypeOK
  <2>2. StoredAtCommit' /\ NothingSeenBefore' /\ VersionIsGoing'
    <3>1. StoredAtCommit'
      BY <2>a DEF Inv, LifecycleTypeOK, StoredAtCommit
    <3>2. NothingSeenBefore'
      BY <2>a DEF Inv, LifecycleTypeOK, NothingSeenBefore
    <3>3. VersionIsGoing'
      BY <2>a DEF Inv, LifecycleTypeOK, VersionIsGoing
    <3> QED BY <3>1, <3>2, <3>3
  <2>3. EachSeenAccounted'
    <3>1. todo'[r] \subseteq seen[r] /\ batch[b] # "none"
      BY <2>b DEF Inv, LifecycleTypeOK, EachSeenAccounted
    <3>2. ASSUME NEW c \in seen[r]
          PROVE  c \in todo'[r] \/ lock'[c] = r \/ batch[c] = "deleted"
      <4>1. CASE c = b
        BY <2>b, <3>1, <4>1 DEF Inv, LifecycleTypeOK
      <4>2. CASE c # b
        <5>1. c \in Batch /\ (c \in todo[r] => c \in todo'[r])
          BY <4>2 DEF Inv, LifecycleTypeOK
        <5>2. lock'[c] = lock[c]
          BY <2>b, <4>2, <5>1 DEF Inv, LifecycleTypeOK
        <5> QED BY <2>a, <5>1, <5>2 DEF Inv, EachSeenAccounted
      <4> QED BY <4>1, <4>2
    <3>3. ASSUME NEW q \in Request, q # r
          PROVE  /\ todo'[q] = todo[q]
                 /\ \A c \in seen[q] : lock[c] = q => lock'[c] = q
      BY <2>b, <3>3, RequestAssumption DEF Inv, LifecycleTypeOK
    <3>4. EachSeenAccounted
      BY DEF Inv
    <3> QED BY <2>a, <3>1, <3>2, <3>3, <3>4 DEF EachSeenAccounted
  <2>4. DeletedTogether' /\ NeverWithoutClauses' /\ ReplacesWhatItSaw'
    BY <2>a
    DEF Inv, DeletedTogether, NeverWithoutClauses, ReplacesWhatItSaw, Visible
  <2> QED BY <2>1, <2>2, <2>3, <2>4 DEF Inv
<1>3. CASE FinishUpdate(r)
  <2>1. LifecycleTypeOK'
    <3>1. LifecycleTypeOK
      BY DEF Inv
    <3>2. /\ pc' = [pc EXCEPT ![r] = "commit"] /\ pc[r] = "scan"
          /\ UNCHANGED <<policy, version, batch, versionLock, lock, listed, seen, todo>>
      BY <1>3 DEF FinishUpdate, Go
    <3> QED
      BY <3>1, <3>2 DEF LifecycleTypeOK
  <2>2. StoredAtCommit' /\ NothingSeenBefore' /\ VersionIsGoing'
    <3>1. StoredAtCommit'
      BY <1>3 DEF Inv, LifecycleTypeOK, FinishUpdate, Go, StoredAtCommit
    <3>2. NothingSeenBefore'
      BY <1>3 DEF Inv, LifecycleTypeOK, FinishUpdate, Go, NothingSeenBefore
    <3>3. VersionIsGoing'
      BY <1>3 DEF Inv, LifecycleTypeOK, FinishUpdate, Go, VersionIsGoing
    <3> QED BY <3>1, <3>2, <3>3
  <2>3. EachSeenAccounted'
    BY <1>3 DEF Inv, LifecycleTypeOK, EachSeenAccounted, FinishUpdate, Go
  <2>4. DeletedTogether' /\ NeverWithoutClauses' /\ ReplacesWhatItSaw'
    BY <1>3 DEF Inv, LifecycleTypeOK, DeletedTogether, NeverWithoutClauses,
                ReplacesWhatItSaw, Visible, FinishUpdate, Go
  <2> QED BY <2>1, <2>2, <2>3, <2>4 DEF Inv
<1> QED BY <1>1, <1>2, <1>3 DEF ClauseUpdate

\* The commit of a resegmentation.
LEMMA CommitResegmentInv ==
  ASSUME Inv, NEW r \in Resegment, CommitResegment(r) PROVE Inv'
<1>a. /\ pc[r] = "commit" /\ pc' = [pc EXCEPT ![r] = "done"]
      /\ batch' = [b \in Batch |-> IF b = r THEN "live"
                                   ELSE IF lock[b] = r THEN "deleted" ELSE batch[b]]
      /\ lock' = [b \in Batch |-> IF lock[b] = r THEN Nobody ELSE lock[b]]
      /\ versionLock' = versionLock
      /\ UNCHANGED <<policy, version, listed, seen, todo>>
  BY RequestAssumption DEF CommitResegment, Go, Mine, Unlock, Inv, LifecycleTypeOK
<1>b. batch[r] = "none" /\ lock[r] = Nobody
  BY <1>a DEF Inv, LifecycleTypeOK, StoredAtCommit
<1>1. LifecycleTypeOK'
  BY <1>a, <1>b, RequestAssumption DEF Inv, LifecycleTypeOK
<1>2. StoredAtCommit' /\ NothingSeenBefore' /\ VersionIsGoing'
  <2>1. StoredAtCommit'
    <3>1. ASSUME NEW q \in Resegment, q # r
          PROVE  (batch'[q] # "none" <=> batch[q] # "none") /\ pc'[q] = pc[q]
      BY <1>a, <3>1, RequestAssumption DEF Inv, LifecycleTypeOK
    <3> QED BY <1>a, <3>1 DEF Inv, LifecycleTypeOK, StoredAtCommit
  <2>2. NothingSeenBefore'
    BY <1>a, RequestAssumption DEF Inv, LifecycleTypeOK, NothingSeenBefore
  <2>3. VersionIsGoing'
    BY <1>a, RequestAssumption DEF Inv, LifecycleTypeOK, VersionIsGoing
  <2> QED BY <2>1, <2>2, <2>3
<1>3. EachSeenAccounted'
  <2>1. ASSUME NEW q \in Request, NEW b \in seen[q]
        PROVE  /\ batch'[b] # "none"
               /\ q # r /\ batch[b] = "deleted" => batch'[b] = "deleted"
               /\ q # r /\ lock[b] = q => lock'[b] = q
    BY <1>a, <1>b DEF Inv, LifecycleTypeOK, EachSeenAccounted
  <2>2. ASSUME NEW q \in Request PROVE q # r => pc'[q] = pc[q]
    BY <1>a DEF Inv, LifecycleTypeOK
  <2>3. pc'[r] = "done"
    BY <1>a DEF Inv, LifecycleTypeOK
  <2>4. ASSUME NEW q \in Request, NEW b \in seen[q]
        PROVE  /\ pc'[q] = "scan" => \/ b \in todo[q] \/ lock'[b] = q
                                      \/ batch'[b] = "deleted"
               /\ pc'[q] = "commit" => lock'[b] = q \/ batch'[b] = "deleted"
    <3>1. /\ pc[q] = "scan" => b \in todo[q] \/ lock[b] = q \/ batch[b] = "deleted"
          /\ pc[q] = "commit" => lock[b] = q \/ batch[b] = "deleted"
      BY DEF Inv, EachSeenAccounted
    <3> QED
      BY <2>1, <2>2, <2>3, <3>1
  <2> QED BY <1>a, <2>1, <2>4 DEF Inv, EachSeenAccounted
<1>4. DeletedTogether' /\ NeverWithoutClauses'
  BY <1>a DEF Inv, DeletedTogether, NeverWithoutClauses, Visible
<1>5. ReplacesWhatItSaw'
  <2>1. LifecycleTypeOK /\ ReplacesWhatItSaw /\ EachSeenAccounted
    BY DEF Inv
  <2>2. ASSUME NEW q \in Request, pc'[q] = "done", NEW b \in seen[q]
        PROVE  batch'[b] = "deleted"
    <3>1. b \in Batch /\ batch[b] # "none" /\ b # r
      BY <1>b, <2>1 DEF LifecycleTypeOK, EachSeenAccounted
    <3>2. CASE q = r
      BY <1>a, <2>1, <3>1, <3>2 DEF EachSeenAccounted
    <3>3. CASE q # r
      <4>1. pc[q] = "done"
        BY <1>a, <2>1, <2>2, <3>3 DEF LifecycleTypeOK
      <4> QED
        BY <1>a, <2>1, <3>1, <4>1 DEF ReplacesWhatItSaw
    <3> QED
      BY <3>2, <3>3
  <2> QED
    BY <1>a, <2>2 DEF ReplacesWhatItSaw
<1> QED BY <1>1, <1>2, <1>3, <1>4, <1>5 DEF Inv

\* The commit of a deletion.
LEMMA CommitDeleteInv ==
  ASSUME Inv, NEW d \in Delete, CommitDelete(d) PROVE Inv'
<1>a. /\ pc[d] = "commit" /\ pc' = [pc EXCEPT ![d] = "done"]
      /\ batch' = [b \in Batch |-> IF lock[b] = d THEN "deleted" ELSE batch[b]]
      /\ lock' = [b \in Batch |-> IF lock[b] = d THEN Nobody ELSE lock[b]]
      /\ versionLock' = IF versionLock = d THEN Nobody ELSE versionLock
      /\ policy' = "deleted"
      /\ UNCHANGED <<listed, seen, todo>>
  BY DEF CommitDelete, Go, Mine, Unlock
<1>b. version' = "deleted"
  BY <1>a DEF CommitDelete, Inv, VersionIsGoing
<1>1. LifecycleTypeOK'
  BY <1>a, <1>b, RequestAssumption DEF Inv, LifecycleTypeOK
<1>2. StoredAtCommit' /\ NothingSeenBefore' /\ VersionIsGoing'
  <2>1. StoredAtCommit'
    <3>1. ASSUME NEW q \in Resegment
          PROVE  (batch'[q] # "none" <=> batch[q] # "none") /\ pc'[q] = pc[q]
      BY <1>a, RequestAssumption DEF Inv, LifecycleTypeOK
    <3> QED BY <3>1 DEF Inv, StoredAtCommit
  <2>2. NothingSeenBefore'
    BY <1>a, <1>b, RequestAssumption DEF Inv, LifecycleTypeOK, NothingSeenBefore
  <2>3. VersionIsGoing'
    BY <1>a, <1>b, RequestAssumption DEF Inv, LifecycleTypeOK, VersionIsGoing
  <2> QED BY <2>1, <2>2, <2>3
<1>3. EachSeenAccounted'
  BY <1>a, RequestAssumption DEF Inv, LifecycleTypeOK, EachSeenAccounted
<1>4. DeletedTogether' /\ NeverWithoutClauses'
  BY <1>a, <1>b DEF DeletedTogether, NeverWithoutClauses
<1>5. ReplacesWhatItSaw'
  BY <1>a DEF Inv, LifecycleTypeOK, ReplacesWhatItSaw, EachSeenAccounted
<1> QED BY <1>1, <1>2, <1>3, <1>4, <1>5 DEF Inv

\* A rollback.
LEMMA FailInv ==
  ASSUME Inv, NEW r \in Request, Fail(r) PROVE Inv'
<1>a. /\ pc[r] \notin Ended /\ pc' = [pc EXCEPT ![r] = "failed"]
      /\ lock' = [b \in Batch |-> IF lock[b] = r THEN Nobody ELSE lock[b]]
      /\ versionLock' = IF versionLock = r THEN Nobody ELSE versionLock
      /\ UNCHANGED <<policy, version, batch, listed, seen, todo>>
  BY DEF Fail, Unlock
<1>1. LifecycleTypeOK'
  BY <1>a, RequestAssumption DEF Inv, LifecycleTypeOK
<1>2. StoredAtCommit' /\ NothingSeenBefore' /\ VersionIsGoing'
  <2>1. StoredAtCommit'
    BY <1>a, RequestAssumption DEF Inv, LifecycleTypeOK, StoredAtCommit
  <2>2. NothingSeenBefore'
    BY <1>a, RequestAssumption DEF Inv, LifecycleTypeOK, NothingSeenBefore
  <2>3. VersionIsGoing'
    BY <1>a, RequestAssumption DEF Inv, LifecycleTypeOK, VersionIsGoing
  <2> QED BY <2>1, <2>2, <2>3
<1>3. EachSeenAccounted'
  BY <1>a, RequestAssumption DEF Inv, LifecycleTypeOK, EachSeenAccounted
<1>4. DeletedTogether' /\ NeverWithoutClauses' /\ ReplacesWhatItSaw'
  BY <1>a DEF Inv, LifecycleTypeOK, DeletedTogether, NeverWithoutClauses,
              ReplacesWhatItSaw, Visible
<1> QED BY <1>1, <1>2, <1>3, <1>4 DEF Inv

\* The UPDATE of the versions gives a deletion the version for itself.
LEMMA UpdateVersionsInv ==
  ASSUME Inv, NEW d \in Delete, UpdateVersions(d) PROVE Inv'
<1> PICK s \in {"update", "commit"} : pc' = [pc EXCEPT ![d] = s]
  BY DEF UpdateVersions, Go
<1>a. /\ pc[d] = "update versions"
      /\ \/ version = "live" /\ versionLock = Nobody /\ versionLock' = d
         \/ version = "deleted" /\ versionLock' = versionLock
      /\ UNCHANGED <<policy, version, batch, lock, listed, seen, todo>>
  BY DEF UpdateVersions, Go
<1>1. LifecycleTypeOK'
  BY <1>a DEF Inv, LifecycleTypeOK
<1>2. StoredAtCommit' /\ NothingSeenBefore' /\ EachSeenAccounted'
  <2>1. StoredAtCommit'
    BY <1>a, RequestAssumption DEF Inv, LifecycleTypeOK, StoredAtCommit
  <2>2. NothingSeenBefore'
    BY <1>a, RequestAssumption DEF Inv, LifecycleTypeOK, NothingSeenBefore
  <2>3. EachSeenAccounted'
    <3>1. seen[d] = {} /\ todo[d] = {}
      BY <1>a DEF Inv, NothingSeenBefore
    <3>2. ASSUME NEW q \in Request, q # d PROVE pc'[q] = pc[q]
      BY <1>a, <3>2 DEF Inv, LifecycleTypeOK
    <3> QED BY <1>a, <3>1, <3>2 DEF Inv, EachSeenAccounted
  <2> QED BY <2>1, <2>2, <2>3
<1>3. VersionIsGoing'
  <2>1. LifecycleTypeOK /\ VersionIsGoing
    BY DEF Inv
  <2>2. versionLock'= d \/ version' = "deleted"
    BY <1>a
  <2>3. ASSUME NEW e \in Delete, e # d
        PROVE  /\ pc'[e] = pc[e]
               /\ versionLock = e => versionLock' = e
    BY <1>a, <2>1, <2>3, RequestAssumption DEF LifecycleTypeOK
  <2> QED
    BY <1>a, <2>1, <2>2, <2>3 DEF VersionIsGoing
<1>4. DeletedTogether' /\ NeverWithoutClauses' /\ ReplacesWhatItSaw'
  BY <1>a DEF Inv, LifecycleTypeOK, DeletedTogether, NeverWithoutClauses,
              ReplacesWhatItSaw, Visible
<1> QED BY <1>1, <1>2, <1>3, <1>4 DEF Inv

\* Every step keeps the invariant.
LEMMA NextInv == Inv /\ [LifecycleNext]_lifecycleVars => Inv'
<1> SUFFICES ASSUME Inv, [LifecycleNext]_lifecycleVars PROVE Inv'
  OBVIOUS
<1>1. ASSUME NEW r \in Resegment, Resegmentation(r) PROVE Inv'
  <2>1. CASE ReadVersion(r)
    BY <2>1, KeepsRows, RequestAssumption DEF ReadVersion, Go, Inv, LifecycleTypeOK
  <2>2. CASE ClauseUpdate(r)
    BY <2>2, ClauseUpdateInv
  <2>3. CASE CommitResegment(r)
    BY <2>3, CommitResegmentInv
  <2> QED BY <1>1, <2>1, <2>2, <2>3 DEF Resegmentation
<1>2. ASSUME NEW d \in Delete, Deletion(d) PROVE Inv'
  <2>1. CASE ReadPolicy(d)
    BY <2>1, KeepsRows, RequestAssumption DEF ReadPolicy, Go, Inv, LifecycleTypeOK
  <2>2. CASE ReadVersions(d)
    <3>1. listed' \in [Delete -> BOOLEAN]
      BY <2>2, Zenon DEF ReadVersions, Inv, LifecycleTypeOK
    <3> QED BY <2>2, <3>1, KeepsRows, RequestAssumption DEF ReadVersions, Go
  <2>3. CASE UpdateVersions(d)
    BY <2>3, UpdateVersionsInv
  <2>4. CASE ClauseUpdate(d)
    BY <2>4, ClauseUpdateInv
  <2>5. CASE CommitDelete(d)
    BY <2>5, CommitDeleteInv
  <2> QED BY <1>2, <2>1, <2>2, <2>3, <2>4, <2>5 DEF Deletion
<1>3. ASSUME NEW r \in Request, Fail(r) PROVE Inv'
  BY <1>3, FailInv
<1>4. CASE UNCHANGED lifecycleVars
  <2>1. LifecycleTypeOK' /\ StoredAtCommit' /\ NothingSeenBefore' /\ EachSeenAccounted'
    BY <1>4
    DEF lifecycleVars, Inv, LifecycleTypeOK, StoredAtCommit, NothingSeenBefore, EachSeenAccounted
  <2>2. /\ VersionIsGoing' /\ DeletedTogether' /\ NeverWithoutClauses'
        /\ ReplacesWhatItSaw'
    BY <1>4 DEF lifecycleVars, Inv, VersionIsGoing, DeletedTogether, NeverWithoutClauses,
                ReplacesWhatItSaw, Visible
  <2> QED BY <2>1, <2>2 DEF Inv
<1> QED BY <1>1, <1>2, <1>3, <1>4 DEF LifecycleNext

\* So it always holds.
LEMMA Invariance == LifecycleSpec => []Inv
  BY InitInv, NextInv, PTL DEF LifecycleSpec

-----------------------------------------------------------------------------
\* The rows, locks and handlers keep their kinds, and no lock outlives the
\* transaction that took it.
THEOREM UpdatesAreTyped == LifecycleSpec => []LifecycleTypeOK
<1>1. Inv => LifecycleTypeOK
  BY DEF Inv
<1> QED BY <1>1, Invariance, PTL

\* However many deletions overlap and fail, the policy and its version are
\* deleted together.
THEOREM DeletionIsAtomic == LifecycleSpec => []DeletedTogether
<1>1. Inv => DeletedTogether
  BY DEF Inv
<1> QED BY <1>1, Invariance, PTL

\* However many resegmentations and deletions overlap and fail, readers never
\* find a version whose clauses are gone.
THEOREM ClausesAreReplacedAtomically == LifecycleSpec => []NeverWithoutClauses
<1>1. Inv => NeverWithoutClauses
  BY DEF Inv
<1> QED BY <1>1, Invariance, PTL

\* A completed request removed every clause its UPDATE saw.
THEOREM UpdatesAreComplete == LifecycleSpec => []ReplacesWhatItSaw
<1>1. Inv => ReplacesWhatItSaw
  BY DEF Inv
<1> QED BY <1>1, Invariance, PTL

-----------------------------------------------------------------------------
(* The locks.  An UPDATE visits batches by rising rank, so what a request has
   locked ranks below what it has still to visit; the batches stored so far,
   hence the locked ones, are finitely many.  *)

\* What a request has locked its UPDATE saw, and ranks below the rest of it.
LocksAreBehind ==
    \A b \in Batch : lock[b] # Nobody =>
        /\ b \in seen[lock[b]]
        /\ \A c \in todo[lock[b]] : Rank[b] < Rank[c]

\* The version row is locked by a deletion past its UPDATE of the versions.
VersionOwnerIsActive ==
    versionLock # Nobody => pc[versionLock] \in {"update", "scan", "commit"}

\* A deletion that did not list the version found it deleted, and goes on
\* without looking at clauses.
UnlistedIsDeleted ==
    \A d \in Delete : pc[d] = "update versions" /\ ~listed[d] => version = "deleted"

\* Only finitely many batches have been stored, however many may come.
FewStored == IsFiniteSet({b \in Batch : batch[b] # "none"})

LockInv ==
    /\ LocksAreBehind
    /\ VersionOwnerIsActive
    /\ UnlistedIsDeleted
    /\ FewStored

\* The end of a transaction keeps all four: the others' locks stay.
LEMMA EndKeepsLocks ==
    ASSUME Inv, LockInv, NEW r \in Request, NEW s \in Ended, Unlock(r),
           pc' = [pc EXCEPT ![r] = s], UNCHANGED <<listed, seen, todo>>,
           version' \in {version, "deleted"}, FewStored'
    PROVE  LockInv'
<1>1. LocksAreBehind'
  <2>1. \A b \in Batch : lock'[b] # Nobody => lock'[b] = lock[b]
    BY RequestAssumption DEF Unlock
  <2> QED
    BY <2>1 DEF LockInv, LocksAreBehind
<1>2. VersionOwnerIsActive'
  BY RequestAssumption DEF Unlock, LockInv, VersionOwnerIsActive, Inv, LifecycleTypeOK
<1>3. UnlistedIsDeleted'
  BY DEF LockInv, UnlistedIsDeleted, Inv, LifecycleTypeOK
<1> QED
  BY <1>1, <1>2, <1>3 DEF LockInv

\* So does a step that takes and leaves no lock.
LEMMA StepKeepsLocks ==
    ASSUME Inv, LockInv, NEW r \in Request, NEW s \in Stage,
           pc' = [pc EXCEPT ![r] = s],
           versionLock = r => s \in {"update", "scan", "commit"},
           s = "update versions" => listed'[r] \/ version = "deleted",
           \A d \in Delete \ {r} : listed'[d] = listed[d],
           UNCHANGED <<version, batch, lock, versionLock, seen, todo>>
    PROVE  LockInv'
<1>1. LocksAreBehind' /\ FewStored'
  BY DEF LockInv, LocksAreBehind, FewStored
<1>2. VersionOwnerIsActive'
  BY RequestAssumption DEF LockInv, VersionOwnerIsActive, Inv, LifecycleTypeOK
<1>3. UnlistedIsDeleted'
  BY RequestAssumption DEF LockInv, UnlistedIsDeleted, Inv, LifecycleTypeOK
<1> QED
  BY <1>1, <1>2, <1>3 DEF LockInv

\* So does the UPDATE of the clauses.
LEMMA ClauseUpdateLocks ==
    ASSUME Inv, LockInv, NEW r \in Request, ClauseUpdate(r)
    PROVE  LockInv'
<1>0. LifecycleTypeOK
  BY DEF Inv
<1>1. CASE StartUpdate(r)
  <2>1. /\ pc[r] = "update" /\ pc' = [pc EXCEPT ![r] = "scan"]
        /\ UNCHANGED <<version, batch, versionLock, lock, listed>>
        /\ seen' = [seen EXCEPT ![r] = Visible] /\ todo' = [todo EXCEPT ![r] = Visible]
    BY <1>1 DEF StartUpdate, Go
  <2>2. \A b \in Batch : lock[b] # Nobody =>
          seen'[lock[b]] = seen[lock[b]] /\ todo'[lock[b]] = todo[lock[b]]
    BY <1>0, <2>1 DEF LifecycleTypeOK
  <2>3. LocksAreBehind' /\ FewStored'
    BY <2>1, <2>2 DEF LockInv, LocksAreBehind, FewStored
  <2>4. VersionOwnerIsActive'
    BY <1>0, <2>1 DEF LockInv, VersionOwnerIsActive, LifecycleTypeOK
  <2>5. UnlistedIsDeleted'
    BY <1>0, <2>1 DEF LockInv, UnlistedIsDeleted, LifecycleTypeOK
  <2> QED
    BY <2>3, <2>4, <2>5 DEF LockInv
<1>2. CASE VisitBatch(r)
  <2>1. PICK b \in todo[r] :
          /\ \A c \in todo[r] : Rank[b] <= Rank[c]
          /\ lock[b] = Nobody
          /\ todo' = [todo EXCEPT ![r] = @ \ {b}]
          /\ lock' = IF batch[b] = "live" THEN [lock EXCEPT ![b] = r] ELSE lock
    BY <1>2 DEF VisitBatch
  <2>2. /\ pc[r] = "scan" /\ pc' = [pc EXCEPT ![r] = "scan"]
        /\ UNCHANGED <<version, batch, versionLock, listed, seen>>
    BY <1>2 DEF VisitBatch, Go
  <2>3. b \in Batch /\ b \in seen[r] /\ todo[r] \subseteq Batch
    BY <1>0 DEF Inv, LifecycleTypeOK, EachSeenAccounted
  <2>4. \A c \in todo[r] \ {b} : Rank[b] < Rank[c]
    <3>1. \A x, y \in Nat : x <= y /\ x # y => x < y
      OBVIOUS
    <3>2. \A c \in todo[r] \ {b} : Rank[b] \in Nat /\ Rank[c] \in Nat /\ Rank[b] # Rank[c]
      BY <2>3, ScanAssumption
    <3> QED
      BY <2>1, <3>1, <3>2
  <2>5. todo'[r] = todo[r] \ {b} /\ \A q \in Request \ {r} : todo'[q] = todo[q]
    BY <1>0, <2>1 DEF LifecycleTypeOK
  <2>6. \A c \in Batch : lock'[c] = lock[c] \/ (c = b /\ lock'[c] = r)
    BY <1>0, <2>1, <2>3 DEF LifecycleTypeOK
  <2>7. LocksAreBehind'
    <3> SUFFICES ASSUME NEW c \in Batch, lock'[c] # Nobody
                 PROVE  c \in seen[lock'[c]] /\ \A e \in todo'[lock'[c]] : Rank[c] < Rank[e]
      BY <2>2 DEF LocksAreBehind
    <3>1. CASE c = b /\ lock'[c] = r
      BY <2>3, <2>4, <2>5, <3>1
    <3>2. CASE lock'[c] = lock[c]
      <4>1. lock[c] \in Request /\ c \in seen[lock[c]] /\ \A e \in todo[lock[c]] : Rank[c] < Rank[e]
        BY <1>0, <3>2 DEF LockInv, LocksAreBehind, LifecycleTypeOK
      <4>2. todo'[lock[c]] \subseteq todo[lock[c]]
        BY <2>5, <4>1
      <4> QED
        BY <3>2, <4>1, <4>2
    <3> QED
      BY <2>6, <3>1, <3>2
  <2>8. pc' = pc
    BY <1>0, <2>2 DEF LifecycleTypeOK
  <2>9. VersionOwnerIsActive' /\ UnlistedIsDeleted' /\ FewStored'
    BY <2>2, <2>8 DEF LockInv, VersionOwnerIsActive, UnlistedIsDeleted, FewStored
  <2> QED
    BY <2>7, <2>9 DEF LockInv
<1>3. CASE FinishUpdate(r)
  BY <1>3, StepKeepsLocks DEF FinishUpdate, Go
<1> QED
  BY <1>1, <1>2, <1>3 DEF ClauseUpdate

\* What a request has locked is live.
LEMMA MineAreLive ==
    ASSUME LifecycleTypeOK, NEW r \in Request
    PROVE  \A b \in Mine(r) : batch[b] = "live"
<1>1. \A b \in Batch : lock[b] # Nobody => batch[b] = "live"
  BY Zenon DEF LifecycleTypeOK
<1>2. r # Nobody
  BY RequestAssumption
<1> QED
  BY <1>1, <1>2 DEF Mine

\* The invariant of the locks always holds.
LEMMA LocksHold == LifecycleSpec => [](Inv /\ LockInv)
<1>1. LifecycleInit => LockInv
  <2> SUFFICES ASSUME LifecycleInit
               PROVE  LockInv
    OBVIOUS
  <2>1. {b \in Batch : batch[b] # "none"} \subseteq {Original}
    BY DEF LifecycleInit
  <2>2. FewStored
    BY <2>1, FS_Singleton, FS_Subset DEF FewStored
  <2> QED
    BY <2>2, RequestAssumption
    DEF LockInv, LocksAreBehind, VersionOwnerIsActive, UnlistedIsDeleted, LifecycleInit
<1>2. ASSUME Inv, LockInv, [LifecycleNext]_lifecycleVars
      PROVE  LockInv'
  <2>0. LifecycleTypeOK
    BY <1>2 DEF Inv
  <2>1. ASSUME NEW r \in Resegment, Resegmentation(r)
        PROVE  LockInv'
    <3>1. CASE ReadVersion(r)
      <4>1. versionLock # r
        BY <2>0, RequestAssumption DEF LifecycleTypeOK
      <4>2. PICK s \in {"update", "refused"} : pc' = [pc EXCEPT ![r] = s]
        BY <3>1 DEF ReadVersion, Go
      <4> QED
        BY <1>2, <3>1, <4>1, <4>2, StepKeepsLocks DEF ReadVersion
    <3>2. CASE CommitResegment(r)
      <4>1. FewStored'
        <5>1. {b \in Batch : batch'[b] # "none"} \subseteq {b \in Batch : batch[b] # "none"} \cup {r}
          <6>1. \A b \in Batch : batch'[b] # "none" => batch[b] # "none" \/ b = r
            <7>1. \A b \in Mine(r) : batch[b] = "live"
              BY <2>0, MineAreLive
            <7>2. batch' = [b \in Batch |-> IF b = r THEN "live"
                                            ELSE IF b \in Mine(r) THEN "deleted" ELSE batch[b]]
              BY <3>2 DEF CommitResegment
            <7> QED
              BY <7>1, <7>2
          <6> QED
            BY <6>1
        <5>2. IsFiniteSet({b \in Batch : batch[b] # "none"} \cup {r})
          BY <1>2, FS_AddElement DEF LockInv, FewStored
        <5> QED
          BY <5>1, <5>2, FS_Subset DEF FewStored
      <4> QED
        BY <1>2, <3>2, <4>1, EndKeepsLocks DEF CommitResegment, Go
    <3> QED
      BY <1>2, <2>1, <3>1, <3>2, ClauseUpdateLocks DEF Resegmentation
  <2>2. ASSUME NEW d \in Delete, Deletion(d)
        PROVE  LockInv'
    <3>1. CASE ReadPolicy(d)
      <4>1. versionLock # d
        BY <1>2, <3>1, RequestAssumption DEF ReadPolicy, Go, LockInv, VersionOwnerIsActive
      <4>2. PICK s \in {"versions", "refused"} : pc' = [pc EXCEPT ![d] = s]
        BY <3>1 DEF ReadPolicy, Go
      <4> QED
        BY <1>2, <3>1, <4>1, <4>2, StepKeepsLocks DEF ReadPolicy
    <3>2. CASE ReadVersions(d)
      <4>1. versionLock # d
        BY <1>2, <3>2, RequestAssumption DEF ReadVersions, Go, LockInv, VersionOwnerIsActive
      <4>2. listed'[d] = (version = "live") /\ \A e \in Delete \ {d} : listed'[e] = listed[e]
        BY <2>0, <3>2 DEF ReadVersions, LifecycleTypeOK
      <4>3. listed'[d] \/ version = "deleted"
        BY <2>0, <4>2 DEF LifecycleTypeOK
      <4> QED
        BY <1>2, <3>2, <4>1, <4>2, <4>3, StepKeepsLocks DEF ReadVersions, Go
    <3>3. CASE UpdateVersions(d)
      <4>1. PICK s \in {"update", "commit"} : pc' = [pc EXCEPT ![d] = s]
        BY <3>3 DEF UpdateVersions, Go
      <4>2. /\ pc[d] = "update versions"
            /\ versionLock' \in {versionLock, d}
            /\ UNCHANGED <<version, batch, lock, listed, seen, todo>>
        BY <3>3 DEF UpdateVersions, Go
      <4>3. LocksAreBehind' /\ FewStored'
        BY <1>2, <4>2 DEF LockInv, LocksAreBehind, FewStored
      <4>4. VersionOwnerIsActive'
        BY <1>2, <2>0, <4>1, <4>2 DEF LockInv, VersionOwnerIsActive, LifecycleTypeOK
      <4>5. UnlistedIsDeleted'
        BY <1>2, <2>0, <4>1, <4>2 DEF LockInv, UnlistedIsDeleted, LifecycleTypeOK
      <4> QED
        BY <4>3, <4>4, <4>5 DEF LockInv
    <3>4. CASE CommitDelete(d)
      <4>1. FewStored'
        <5>1. {b \in Batch : batch'[b] # "none"} \subseteq {b \in Batch : batch[b] # "none"}
          <6>1. \A b \in Batch : batch'[b] # "none" => batch[b] # "none"
            <7>1. \A b \in Mine(d) : batch[b] = "live"
              BY <2>0, MineAreLive
            <7>2. batch' = [b \in Batch |-> IF b \in Mine(d) THEN "deleted" ELSE batch[b]]
              BY <3>4 DEF CommitDelete
            <7> QED
              BY <7>1, <7>2
          <6> QED
            BY <6>1
        <5> QED
          BY <1>2, <5>1, FS_Subset DEF LockInv, FewStored
      <4>2. version' \in {version, "deleted"}
        BY <3>4 DEF CommitDelete
      <4> QED
        BY <1>2, <3>4, <4>1, <4>2, EndKeepsLocks DEF CommitDelete, Go
    <3> QED
      BY <1>2, <2>2, <3>1, <3>2, <3>3, <3>4, ClauseUpdateLocks DEF Deletion
  <2>3. ASSUME NEW r \in Request, Fail(r)
        PROVE  LockInv'
    <3>1. FewStored'
      BY <1>2, <2>3 DEF Fail, LockInv, FewStored
    <3> QED
      BY <1>2, <2>3, <3>1, EndKeepsLocks DEF Fail
  <2>4. CASE UNCHANGED lifecycleVars
    BY <1>2, <2>4
    DEF lifecycleVars, LockInv, LocksAreBehind, VersionOwnerIsActive, UnlistedIsDeleted, FewStored
  <2> QED
    BY <1>2, <2>1, <2>2, <2>3, <2>4 DEF LifecycleNext
<1> QED
  BY <1>1, <1>2, Invariance, PTL DEF LifecycleSpec

\* One of finitely many batches ranks highest: the one below the fewest.
LEMMA HasHighest ==
    ASSUME NEW S \in SUBSET Batch, IsFiniteSet(S), S # {}
    PROVE  \E b \in S : \A c \in S : Rank[c] <= Rank[b]
<1> DEFINE Above(b) == {c \in S : Rank[b] < Rank[c]}
           T == {Cardinality(Above(b)) : b \in S}
<1>1. \A b \in S : IsFiniteSet(Above(b)) /\ Cardinality(Above(b)) \in Nat
  BY FS_Subset, FS_CardinalityType
<1>2. T \in SUBSET Nat /\ T # {}
  BY <1>1
<1>3. PICK m \in T : \A k \in T : m <= k
  BY <1>2, HasLeast
<1>4. PICK b \in S : m = Cardinality(Above(b))
  BY <1>3
<1>5. ASSUME NEW c \in S, Rank[b] < Rank[c]
      PROVE  FALSE
  <2>1. \A x \in S : Rank[x] \in Nat
    BY ScanAssumption
  <2>2. Above(c) \subseteq Above(b) /\ c \in Above(b) /\ c \notin Above(c)
    BY <1>5, <2>1
  <2>3. Cardinality(Above(c)) <= Cardinality(Above(b)) /\ Cardinality(Above(c)) # Cardinality(Above(b))
    BY <1>1, <2>2, FS_Subset
  <2>4. Cardinality(Above(b)) <= Cardinality(Above(c))
    BY <1>3, <1>4, <1>5
  <2>5. Cardinality(Above(b)) \in Nat /\ Cardinality(Above(c)) \in Nat
    BY <1>1, <1>5
  <2> HIDE DEF Above
  <2> QED
    BY <2>3, <2>4, <2>5
<1>6. \A c \in S : Rank[c] <= Rank[b]
  <2>1. \A x \in S : Rank[x] \in Nat
    BY ScanAssumption
  <2> QED
    BY <1>5, <2>1
<1> QED
  BY <1>6

\* Among any number of requests, whatever order they come in, one under way can
\* go on: if all waited, the owner of the highest batch that is locked would
\* wait for one that ranks higher still (delete_for_policy_version).
THEOREM NoCircularWait == LifecycleSpec => []NeverAllWaiting
<1>1. ASSUME Inv, LockInv
      PROVE  NeverAllWaiting
  <2> DEFINE active == {r \in Request : pc[r] \notin Ended \cup {"idle"}}
             locked == {b \in Batch : lock[b] # Nobody}
  <2> SUFFICES ASSUME NEW q \in active, \A r \in active : Waits(r)
               PROVE  FALSE
    BY DEF NeverAllWaiting
  <2>0. LifecycleTypeOK
    BY <1>1 DEF Inv
  <2>1. ASSUME NEW r \in active, pc[r] # "update versions"
        PROVE  \E c \in locked : c \in todo[r]
    <3>1. PICK c \in todo[r] : lock[c] # Nobody
      BY <2>1 DEF Waits
    <3> QED
      BY <2>0, <3>1 DEF LifecycleTypeOK
  <2>2. ASSUME NEW b \in locked
        PROVE  \E c \in locked : Rank[b] < Rank[c]
    <3>1. lock[b] \in active /\ pc[lock[b]] # "update versions"
      BY <2>0 DEF LifecycleTypeOK
    <3>2. PICK c \in locked : c \in todo[lock[b]]
      BY <2>1, <3>1
    <3> QED
      BY <1>1, <3>2 DEF LockInv, LocksAreBehind
  <2>3. locked # {}
    <3>1. CASE pc[q] # "update versions"
      BY <2>1, <3>1
    <3>2. CASE pc[q] = "update versions"
      <4>1. versionLock # Nobody
        BY <3>2 DEF Waits
      <4>2. versionLock \in active /\ pc[versionLock] # "update versions"
        BY <1>1, <2>0, <4>1 DEF LockInv, VersionOwnerIsActive, LifecycleTypeOK
      <4> QED
        BY <2>1, <4>2
    <3> QED
      BY <3>1, <3>2
  <2>4. IsFiniteSet(locked)
    <3>1. locked \subseteq {b \in Batch : batch[b] # "none"}
      BY <2>0 DEF LifecycleTypeOK
    <3> QED
      BY <1>1, <3>1, FS_Subset DEF LockInv, FewStored
  <2>5. PICK b \in locked : \A c \in locked : Rank[c] <= Rank[b]
    BY <2>3, <2>4, HasHighest
  <2>6. PICK c \in locked : Rank[b] < Rank[c]
    BY <2>2
  <2>7. Rank[c] <= Rank[b] /\ Rank[b] \in Nat /\ Rank[c] \in Nat
    BY <2>5, <2>6, ScanAssumption
  <2> QED
    BY <2>6, <2>7
<1> QED
  BY <1>1, LocksHold, PTL

-----------------------------------------------------------------------------
(* The refinement. *)

\* How far readers see a request to be that is at a stage.
SeenAs(s) ==
    IF s \in {"idle", "versions", "update versions", "update"} THEN "new"
    ELSE IF s \in {"scan", "commit"} THEN "noted"
    ELSE IF s = "done" THEN "done" ELSE "abandoned"

StageSeen == [r \in Request |-> SeenAs(pc[r])]

Readers == <<version = "deleted", Visible, seen, StageSeen>>

\* A request that goes to a stage is seen to go there, and no other is.
LEMMA SeenMoves ==
    ASSUME LifecycleTypeOK, NEW r \in Request, NEW s \in Stage, pc' = [pc EXCEPT ![r] = s]
    PROVE  /\ StageSeen' = [StageSeen EXCEPT ![r] = SeenAs(s)]
           /\ StageSeen[r] = SeenAs(pc[r])
<1>1. pc' \in [Request -> Stage] /\ pc'[r] = s /\ \A q \in Request \ {r} : pc'[q] = pc[q]
  BY DEF LifecycleTypeOK
<1>2. StageSeen' = [q \in Request |-> SeenAs(pc'[q])]
  BY DEF StageSeen
<1> QED
  BY <1>1, <1>2 DEF StageSeen

\* What a request has locked is what is visible of the clauses its UPDATE saw,
\* when it is about to commit.
LEMMA MineAreSeen ==
    ASSUME Inv, LockInv, NEW r \in Request, pc[r] = "commit"
    PROVE  \A b \in Visible : b \in Mine(r) <=> b \in seen[r]
<1>1. LifecycleTypeOK /\ EachSeenAccounted /\ LocksAreBehind
  BY DEF Inv, LockInv
<1>2. ASSUME NEW b \in Visible, lock[b] = r
      PROVE  b \in seen[r]
  BY <1>1, <1>2, RequestAssumption DEF LocksAreBehind, Visible
<1>3. ASSUME NEW b \in Visible, b \in seen[r]
      PROVE  lock[b] = r
  BY <1>1, <1>3 DEF EachSeenAccounted, Visible
<1> QED
  BY <1>2, <1>3 DEF Mine, Visible

\* ClauseLifecycle implements ClauseReplacement: whatever interleaving of
\* statements, row locks and rollbacks, readers see every request as a single
\* step that replaces or removes exactly what its UPDATE's snapshot matched
\* (delete_for_policy_version and the one transaction around it).
THEOREM ReadersSeeSteps == LifecycleSpec => RequestsAreSteps
<1>1. LifecycleInit => Replacement!Init
  <2> SUFFICES ASSUME LifecycleInit
               PROVE  Replacement!Init
    OBVIOUS
  <2>1. Visible \in {{}, {Original}}
    BY DEF LifecycleInit, Visible
  <2>2. StageSeen = [r \in Request |-> "new"]
    BY DEF LifecycleInit, StageSeen, SeenAs
  <2> QED
    BY <2>1, <2>2 DEF LifecycleInit, Replacement!Init, Replacement!Request, StageSeen, SeenAs
<1>2. ASSUME Inv, LockInv, [LifecycleNext]_lifecycleVars
      PROVE  [Replacement!Next]_Readers
  <2>0. LifecycleTypeOK
    BY <1>2 DEF Inv
  \* Reading rows, waiting and locking are not seen.
  <2>1. ASSUME NEW r \in Request, NEW s \in Stage, pc' = [pc EXCEPT ![r] = s],
               SeenAs(s) = SeenAs(pc[r]), UNCHANGED <<version, batch, seen>>
        PROVE  UNCHANGED Readers
    <3>1. StageSeen' = [StageSeen EXCEPT ![r] = StageSeen[r]]
      BY <2>0, <2>1, SeenMoves
    <3>2. StageSeen' = StageSeen /\ Visible' = Visible
      BY <2>1, <3>1 DEF StageSeen, Visible
    <3> QED
      BY <2>1, <3>2 DEF Readers
  \* The end of a request without a commit.
  <2>2. ASSUME NEW r \in Request, NEW s \in {"refused", "failed"}, pc' = [pc EXCEPT ![r] = s],
               pc[r] \notin Ended, UNCHANGED <<version, batch, seen>>
        PROVE  Replacement!Next
    <3>1. s \in Stage /\ StageSeen' = [StageSeen EXCEPT ![r] = SeenAs(s)] /\ StageSeen[r] = SeenAs(pc[r])
      BY <2>0, <2>2, SeenMoves
    <3>2. pc[r] \in {"idle", "versions", "update versions", "update"} \/ pc[r] \in {"scan", "commit"}
      BY <2>0, <2>2 DEF LifecycleTypeOK
    <3>3. SeenAs(s) = "abandoned" /\ SeenAs(pc[r]) \in {"new", "noted"}
      BY <2>2, <3>2 DEF SeenAs
    <3>4. Visible' = Visible
      BY <2>2 DEF Visible
    <3>5. Replacement!GiveUp(r)
      BY <2>2, <3>1, <3>3, <3>4 DEF Replacement!GiveUp, Replacement!Move, StageSeen, SeenAs
    <3> QED
      BY <3>5 DEF Replacement!Next, Replacement!Request
  <2>3. ASSUME NEW r \in Request, ClauseUpdate(r)
        PROVE  [Replacement!Next]_Readers
    <3>1. CASE StartUpdate(r)
      <4>1. /\ pc[r] = "update" /\ pc' = [pc EXCEPT ![r] = "scan"]
            /\ seen' = [seen EXCEPT ![r] = Visible] /\ UNCHANGED <<version, batch>>
        BY <3>1 DEF StartUpdate, Go
      <4>2. StageSeen' = [StageSeen EXCEPT ![r] = "noted"] /\ StageSeen[r] = "new"
        <5>1. "scan" \in Stage
          OBVIOUS
        <5>2. StageSeen' = [StageSeen EXCEPT ![r] = SeenAs("scan")] /\ StageSeen[r] = SeenAs("update")
          BY <2>0, <4>1, <5>1, SeenMoves
        <5>3. SeenAs("scan") = "noted" /\ SeenAs("update") = "new"
          BY DEF SeenAs
        <5> QED
          BY <5>2, <5>3
      <4>3. Visible' = Visible
        BY <4>1 DEF Visible
      <4>4. Replacement!TakeNote(r)
        BY <4>1, <4>2, <4>3 DEF Replacement!TakeNote, Replacement!Move, StageSeen, SeenAs
      <4> QED
        BY <4>4 DEF Replacement!Next, Replacement!Request
    <3>2. CASE VisitBatch(r)
      <4>1. pc[r] = "scan" /\ pc' = [pc EXCEPT ![r] = "scan"] /\ UNCHANGED <<version, batch, seen>>
        BY <3>2 DEF VisitBatch, Go
      <4>2. "scan" \in Stage
        OBVIOUS
      <4> QED
        BY <2>1, <4>1, <4>2
    <3>3. CASE FinishUpdate(r)
      <4>1. pc[r] = "scan" /\ pc' = [pc EXCEPT ![r] = "commit"] /\ UNCHANGED <<version, batch, seen>>
        BY <3>3 DEF FinishUpdate, Go
      <4>2. "commit" \in Stage /\ SeenAs("commit") = SeenAs("scan")
        BY DEF SeenAs
      <4> QED
        BY <2>1, <4>1, <4>2
    <3> QED
      BY <2>3, <3>1, <3>2, <3>3 DEF ClauseUpdate
  <2>4. ASSUME NEW r \in Resegment, Resegmentation(r)
        PROVE  [Replacement!Next]_Readers
    <3>1. CASE ReadVersion(r)
      <4>1. pc[r] = "idle" /\ UNCHANGED <<version, batch, seen>>
        BY <3>1 DEF ReadVersion, Go
      <4>2. CASE pc' = [pc EXCEPT ![r] = "update"]
        <5>1. "update" \in Stage /\ SeenAs("update") = SeenAs("idle")
          BY DEF SeenAs
        <5> QED
          BY <2>1, <4>1, <4>2, <5>1
      <4>3. CASE pc' = [pc EXCEPT ![r] = "refused"]
        <5>1. pc[r] \notin Ended
          BY <4>1
        <5> QED
          BY <2>2, <4>1, <4>3, <5>1
      <4> QED
        BY <3>1, <4>2, <4>3 DEF ReadVersion, Go
    <3>2. CASE CommitResegment(r)
      <4>1. /\ pc[r] = "commit" /\ pc' = [pc EXCEPT ![r] = "done"] /\ UNCHANGED <<version, seen>>
            /\ batch' = [b \in Batch |-> IF b = r THEN "live"
                                         ELSE IF b \in Mine(r) THEN "deleted" ELSE batch[b]]
        BY <3>2 DEF CommitResegment, Go
      <4>2. StageSeen' = [StageSeen EXCEPT ![r] = "done"] /\ StageSeen[r] = "noted"
        <5>1. "done" \in Stage
          OBVIOUS
        <5>2. StageSeen' = [StageSeen EXCEPT ![r] = SeenAs("done")] /\ StageSeen[r] = SeenAs("commit")
          BY <2>0, <4>1, <5>1, SeenMoves
        <5>3. SeenAs("done") = "done" /\ SeenAs("commit") = "noted"
          BY DEF SeenAs
        <5> QED
          BY <5>2, <5>3
      <4>3. Visible' = (Visible \ seen[r]) \cup {r}
        <5>1. Visible' = {b \in Visible : b \notin Mine(r)} \cup {r}
          BY <4>1 DEF Visible
        <5> QED
          BY <1>2, <4>1, <5>1, MineAreSeen
      <4>4. Replacement!Replace(r)
        BY <4>1, <4>2, <4>3 DEF Replacement!Replace, Replacement!Move, StageSeen, SeenAs
      <4> QED
        BY <4>4 DEF Replacement!Next
    <3> QED
      BY <2>3, <2>4, <3>1, <3>2 DEF Resegmentation
  <2>5. ASSUME NEW d \in Delete, Deletion(d)
        PROVE  [Replacement!Next]_Readers
    <3>1. CASE ReadPolicy(d)
      <4>1. pc[d] = "idle" /\ UNCHANGED <<version, batch, seen>>
        BY <3>1 DEF ReadPolicy, Go
      <4>2. CASE pc' = [pc EXCEPT ![d] = "versions"]
        <5>1. "versions" \in Stage /\ SeenAs("versions") = SeenAs("idle")
          BY DEF SeenAs
        <5> QED
          BY <2>1, <4>1, <4>2, <5>1
      <4>3. CASE pc' = [pc EXCEPT ![d] = "refused"]
        <5>1. pc[d] \notin Ended
          BY <4>1
        <5> QED
          BY <2>2, <4>1, <4>3, <5>1
      <4> QED
        BY <3>1, <4>2, <4>3 DEF ReadPolicy, Go
    <3>2. CASE ReadVersions(d)
      <4>1. /\ pc[d] = "versions" /\ pc' = [pc EXCEPT ![d] = "update versions"]
            /\ UNCHANGED <<version, batch, seen>>
        BY <3>2 DEF ReadVersions, Go
      <4>2. "update versions" \in Stage /\ SeenAs("update versions") = SeenAs("versions")
        BY DEF SeenAs
      <4> QED
        BY <2>1, <4>1, <4>2
    <3>3. CASE UpdateVersions(d)
      <4>1. pc[d] = "update versions" /\ UNCHANGED <<version, batch, seen>>
        BY <3>3 DEF UpdateVersions, Go
      <4>2. CASE listed[d]
        <5>1. pc' = [pc EXCEPT ![d] = "update"]
          BY <3>3, <4>2 DEF UpdateVersions, Go
        <5>2. "update" \in Stage /\ SeenAs("update") = SeenAs("update versions")
          BY DEF SeenAs
        <5> QED
          BY <2>1, <4>1, <5>1, <5>2
      <4>3. CASE ~listed[d]
        <5>1. pc' = [pc EXCEPT ![d] = "commit"]
          BY <3>3, <4>3 DEF UpdateVersions, Go
        <5>2. version = "deleted"
          BY <1>2, <4>1, <4>3 DEF LockInv, UnlistedIsDeleted
        <5>3. StageSeen' = [StageSeen EXCEPT ![d] = "noted"] /\ StageSeen[d] = "new"
          <6>1. "commit" \in Stage
            OBVIOUS
          <6>2. StageSeen' = [StageSeen EXCEPT ![d] = SeenAs("commit")] /\ StageSeen[d] = SeenAs("update versions")
            BY <2>0, <4>1, <5>1, <6>1, SeenMoves
          <6>3. SeenAs("commit") = "noted" /\ SeenAs("update versions") = "new"
            BY DEF SeenAs
          <6> QED
            BY <6>2, <6>3
        <5>4. Visible' = Visible
          BY <4>1 DEF Visible
        <5>5. Replacement!TakeNoNote(d)
          BY <4>1, <5>2, <5>3, <5>4
          DEF Replacement!TakeNoNote, Replacement!Move, StageSeen, SeenAs
        <5> QED
          BY <5>5 DEF Replacement!Next
      <4> QED
        BY <4>2, <4>3
    <3>4. CASE CommitDelete(d)
      <4>1. /\ pc[d] = "commit" /\ pc' = [pc EXCEPT ![d] = "done"] /\ UNCHANGED seen
            /\ version' = IF versionLock = d THEN "deleted" ELSE version
            /\ batch' = [b \in Batch |-> IF b \in Mine(d) THEN "deleted" ELSE batch[b]]
        BY <3>4 DEF CommitDelete, Go
      <4>2. StageSeen' = [StageSeen EXCEPT ![d] = "done"] /\ StageSeen[d] = "noted"
        <5>1. "done" \in Stage
          OBVIOUS
        <5>2. StageSeen' = [StageSeen EXCEPT ![d] = SeenAs("done")] /\ StageSeen[d] = SeenAs("commit")
          BY <2>0, <4>1, <5>1, SeenMoves
        <5>3. SeenAs("done") = "done" /\ SeenAs("commit") = "noted"
          BY DEF SeenAs
        <5> QED
          BY <5>2, <5>3
      <4>3. version' = "deleted"
        BY <1>2, <4>1 DEF Inv, VersionIsGoing
      <4>4. Visible' = Visible \ seen[d]
        <5>1. Visible' = {b \in Visible : b \notin Mine(d)}
          BY <4>1 DEF Visible
        <5> QED
          BY <1>2, <4>1, <5>1, MineAreSeen
      <4>5. Replacement!Remove(d)
        BY <4>1, <4>2, <4>3, <4>4 DEF Replacement!Remove, Replacement!Move, StageSeen, SeenAs
      <4> QED
        BY <4>5 DEF Replacement!Next
    <3> QED
      BY <2>3, <2>5, <3>1, <3>2, <3>3, <3>4 DEF Deletion
  <2>6. ASSUME NEW r \in Request, Fail(r)
        PROVE  [Replacement!Next]_Readers
    BY <2>2, <2>6 DEF Fail
  <2>7. CASE UNCHANGED lifecycleVars
    <3>1. StageSeen' = StageSeen /\ Visible' = Visible
      BY <2>7 DEF lifecycleVars, StageSeen, Visible
    <3> QED
      BY <2>7, <3>1 DEF lifecycleVars, Readers
  <2> QED
    BY <1>2, <2>4, <2>5, <2>6, <2>7 DEF LifecycleNext
<1> QED
  BY <1>1, <1>2, LocksHold, PTL DEF LifecycleSpec, RequestsAreSteps, Replacement!Spec, Readers, StageSeen, SeenAs
=============================================================================
