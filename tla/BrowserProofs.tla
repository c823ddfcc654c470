---------------------------- MODULE BrowserProofs ----------------------------
(***************************************************************************)
(* What is proved of the pages of the client, for any number of requests,  *)
(* mounts, accounts and events: the reconciliation page shows what belongs *)
(* to its form, the audit trail skips no event, and a movement that is     *)
(* confirmed again and again is posted once.                               *)
(***************************************************************************)
EXTENDS TransactionForm, ReconciliationPage, AuditPages, FiniteSetTheorems,
        WellFoundedInduction, TLAPS

-----------------------------------------------------------------------------
(* The reconciliation page.                                                *)

Choices ==
    [account : PageAccounts \cup {Nothing}, cutoff : Cutoffs \cup {Nothing},
     actual : Balances \cup {Nothing}, selected : SUBSET PageEntries]

Question ==
    [what : {"accounts", "candidates", "preview"}, of : Choices, active : BOOLEAN]

Completions == [of : Choices, is : {"sent", "done"}, current : BOOLEAN]

PageTypeOK ==
    /\ accounts \subseteq PageAccounts
    /\ choice \in Choices
    /\ asked \subseteq Question
    /\ candidates # Nothing => candidates.entries \subseteq PageEntries
    /\ completing # Nothing => completing \in Completions

(* A question whose flag is still set is about the form as it is, and was  *)
(* worth asking.                                                           *)
ActiveIsCurrent ==
    \A q \in asked : q.active =>
       /\ q.what = "preview" => q.of = choice /\ IsRequest(choice)
       /\ q.what = "candidates" =>
            q.of = Scope(choice) /\ choice.account # Nothing /\ choice.cutoff # Nothing

(* A completion whose version is the current one is of the form as it is.  *)
CompletionInv ==
    completing # Nothing =>
       /\ completing.current => completing.of = choice /\ IsRequest(choice)
       /\ completing.is = "done" => completing.of \in covered

PageInv == PageTypeOK /\ ActiveIsCurrent /\ CompletionInv /\ ShownIsCurrent /\ CompletedIsTrue

\* A page that has just been opened shows nothing it was not told.
LEMMA PageInvInit == PageInit => PageInv
<1> SUFFICES ASSUME PageInit PROVE PageInv
  OBVIOUS
<1>1. EmptyChoice \in Choices
  BY DEF EmptyChoice, Choices
<1> QED
  BY <1>1 DEF PageInit, PageInv, PageTypeOK, ActiveIsCurrent, CompletionInv, ShownIsCurrent,
              CompletedIsTrue, Question

(* What the candidates depend on is a form without balance and selection.  *)
LEMMA ScopeIsChoice ==
    ASSUME NEW c \in Choices
    PROVE  /\ Scope(c) \in Choices
           /\ Scope(c).account = c.account /\ Scope(c).cutoff = c.cutoff
  BY DEF Scope, EmptyChoice, Choices

(* After a change of the form the questions that keep their flag are the   *)
(* new ones and those it does not concern.                                 *)
LEMMA ChangeAsks ==
    ASSUME PageInv, NEW c \in Choices, Change(c)
    PROVE  asked' \subseteq Question /\ ActiveIsCurrent'
<1> DEFINE moved == Scope(c) # Scope(choice)
           stale == Questions("preview") \cup (IF moved THEN Questions("candidates") ELSE {})
           previews == [what : IF IsRequest(c) THEN {"preview"} ELSE {}, of : {c}, active : {TRUE}]
           offers == [what : IF moved /\ Nothing \notin {c.account, c.cutoff}
                             THEN {"candidates"} ELSE {},
                      of : {Scope(c)}, active : {TRUE}]
<1>1. choice' = c /\ asked' = (asked \ stale) \cup Abandoned(stale) \cup (previews \cup offers)
  BY DEF Change
<1>2. asked \subseteq Question /\ choice \in Choices /\ Scope(c) \in Choices
  BY ScopeIsChoice DEF PageInv, PageTypeOK
<1>3. \A q \in Abandoned(stale) : q \in Question /\ ~q.active
  BY <1>2 DEF Abandoned, Questions, Question
<1>4. \A q \in previews :
         q \in Question /\ q.what = "preview" /\ q.of = c /\ IsRequest(c)
  BY <1>2 DEF Question
<1>5. \A q \in offers :
         /\ q \in Question /\ q.what = "candidates" /\ q.of = Scope(c)
         /\ c.account # Nothing /\ c.cutoff # Nothing
  BY <1>2 DEF Question
<1>6. ASSUME NEW q \in asked \ stale, q.active
      PROVE  /\ q.what # "preview"
             /\ q.what = "candidates" =>
                   q.of = Scope(c) /\ c.account # Nothing /\ c.cutoff # Nothing
  <2>1. q.what # "preview" /\ (q.what = "candidates" => ~moved)
    BY <1>6 DEF Questions
  <2>2. /\ Scope(choice).account = choice.account /\ Scope(choice).cutoff = choice.cutoff
        /\ Scope(c).account = c.account /\ Scope(c).cutoff = c.cutoff
    BY <1>2, ScopeIsChoice
  <2>3. q.what = "candidates" =>
          q.of = Scope(choice) /\ choice.account # Nothing /\ choice.cutoff # Nothing
    BY <1>6 DEF PageInv, ActiveIsCurrent
  <2> QED
    BY <2>1, <2>2, <2>3
<1> HIDE DEF stale, previews, offers
<1>7. asked' \subseteq Question
  BY <1>1, <1>2, <1>3, <1>4, <1>5
<1>8. ActiveIsCurrent'
  <2> SUFFICES ASSUME NEW q \in asked', q.active
               PROVE  /\ q.what = "preview" => q.of = c /\ IsRequest(c)
                      /\ q.what = "candidates" =>
                           q.of = Scope(c) /\ c.account # Nothing /\ c.cutoff # Nothing
    BY <1>1 DEF ActiveIsCurrent, Scope, IsRequest
  <2> QED
    BY <1>1, <1>3, <1>4, <1>5, <1>6
<1> QED
  BY <1>7, <1>8

(* A change of the user.                                                   *)
LEMMA UserChangesKeep ==
    ASSUME PageInv, NEW c \in Choices, UserChanges(c)
    PROVE  PageInv'
<1>1. /\ choice' = c /\ Change(c) /\ UNCHANGED <<accounts, covered>>
      /\ candidates' = (IF Scope(c) # Scope(choice) THEN Nothing ELSE candidates)
      /\ loading' = IsRequest(c) /\ completed' = FALSE
      /\ preview' = (IF IsRequest(c) THEN preview ELSE Nothing)
      /\ completing' = Invalidated
  BY DEF UserChanges, Change
<1>2. asked' \subseteq Question /\ ActiveIsCurrent'
  BY <1>1, ChangeAsks
<1>3. completing' # Nothing =>
        /\ completing # Nothing /\ completing' \in Completions /\ ~completing'.current
        /\ completing'.of = completing.of /\ completing'.is = completing.is
  BY <1>1 DEF Invalidated, PageInv, PageTypeOK, Completions
<1>4. PageTypeOK'
  BY <1>1, <1>2, <1>3 DEF PageInv, PageTypeOK
<1>5. CompletionInv'
  BY <1>1, <1>3 DEF PageInv, CompletionInv
<1>6. ShownIsCurrent'
  <2>1. candidates' # Nothing => candidates'.of = Scope(c)
    BY <1>1 DEF PageInv, ShownIsCurrent
  <2>2. preview' # Nothing => loading'
    BY <1>1
  <2> QED
    BY <1>1, <2>1, <2>2 DEF ShownIsCurrent, Scope
<1>7. CompletedIsTrue'
  BY <1>1 DEF CompletedIsTrue
<1> QED
  BY <1>2, <1>4, <1>5, <1>6, <1>7 DEF PageInv

(* An answer, of any kind and in any order.                                *)
LEMMA AnswersKeep ==
    ASSUME PageInv, NEW q \in asked,
           \/ AnswerAbandoned(q) \/ AnswerFailed(q)
           \/ \E first \in PageAccounts : AnswerAccounts(q, first)
           \/ AnswerCandidates(q) \/ AnswerPreview(q)
    PROVE  PageInv'
<1>0. q \in Question
  BY DEF PageInv, PageTypeOK
<1>1. CASE AnswerAbandoned(q)
  BY <1>1 DEF AnswerAbandoned, Settle, PageInv, PageTypeOK, ActiveIsCurrent, CompletionInv,
              ShownIsCurrent, CompletedIsTrue, Scope, IsRequest
<1>2. CASE AnswerFailed(q)
  <2>1. asked' = asked \ {q} /\ UNCHANGED <<accounts, choice, candidates, completed, completing, covered>>
    BY <1>2 DEF AnswerFailed, Settle
  <2>2. preview' # Nothing /\ ~loading' => preview' = preview /\ ~loading
    BY <1>2 DEF AnswerFailed
  <2> QED
    BY <2>1, <2>2 DEF PageInv, PageTypeOK, ActiveIsCurrent, CompletionInv, ShownIsCurrent,
                      CompletedIsTrue, Scope, IsRequest
<1>3. ASSUME NEW first \in PageAccounts, AnswerAccounts(q, first) PROVE PageInv'
  <2> DEFINE offers == [what : IF choice.cutoff # Nothing THEN {"candidates"} ELSE {},
                        of : {Scope(choice')}, active : {TRUE}]
  <2>1. /\ choice' = [choice EXCEPT !.account = first] /\ asked' = (asked \ {q}) \cup offers
        /\ accounts' = PageAccounts /\ candidates' = Nothing /\ preview' = Nothing
        /\ completed' = FALSE /\ UNCHANGED <<completing, covered>> /\ choice.account = Nothing
    BY <1>3 DEF AnswerAccounts
  <2>2. choice' \in Choices /\ choice'.account = first /\ choice'.cutoff = choice.cutoff
    BY <2>1 DEF PageInv, PageTypeOK, Choices
  <2>3. Scope(choice') \in Choices
    BY <2>2, ScopeIsChoice
  <2>4. \A p \in offers :
           p \in Question /\ p.what = "candidates" /\ p.of = Scope(choice') /\ choice.cutoff # Nothing
    BY <2>3 DEF Question
  <2>5. \A p \in asked : p.active => p.what \notin {"preview", "candidates"}
    BY <2>1 DEF PageInv, ActiveIsCurrent, IsRequest
  <2> HIDE DEF offers
  <2>7. PageTypeOK'
    BY <2>1, <2>2, <2>4 DEF PageInv, PageTypeOK
  <2>8. ActiveIsCurrent'
    BY <2>1, <2>2, <2>4, <2>5, NothingIsNoAccount DEF ActiveIsCurrent, Scope
  <2>9. CompletionInv'
    BY <2>1 DEF PageInv, CompletionInv, IsRequest
  <2> QED
    BY <2>1, <2>7, <2>8, <2>9 DEF PageInv, ShownIsCurrent, CompletedIsTrue
<1>4. CASE AnswerCandidates(q)
  <2>1. /\ candidates' = [of |-> q.of, entries |-> Open(q.of.account)] /\ asked' = asked \ {q}
        /\ UNCHANGED <<accounts, choice, preview, loading, completed, completing, covered>>
        /\ q.of = Scope(choice)
    BY <1>4 DEF AnswerCandidates, Settle, PageInv, ActiveIsCurrent
  <2>2. candidates'.of = Scope(choice) /\ candidates'.entries \subseteq PageEntries
    BY <2>1 DEF Open
  <2> QED
    BY <2>1, <2>2 DEF PageInv, PageTypeOK, ActiveIsCurrent, CompletionInv, ShownIsCurrent,
                      CompletedIsTrue, Scope, IsRequest
<1>5. CASE AnswerPreview(q)
  <2>1. PICK agrees \in BOOLEAN : preview' = [of |-> q.of, agrees |-> agrees]
    BY <1>5 DEF AnswerPreview
  <2>2. /\ asked' = asked \ {q} /\ q.of = choice
        /\ UNCHANGED <<accounts, choice, candidates, completed, completing, covered>>
    BY <1>5 DEF AnswerPreview, Settle, PageInv, ActiveIsCurrent
  <2>3. preview'.of = choice
    BY <2>1, <2>2
  <2> QED
    BY <2>2, <2>3 DEF PageInv, PageTypeOK, ActiveIsCurrent, CompletionInv, ShownIsCurrent,
                      CompletedIsTrue, Scope, IsRequest
<1> QED
  BY <1>1, <1>2, <1>3, <1>4, <1>5

(* Every step of the page keeps the invariant.                             *)
LEMMA PageInvNext == PageInv /\ [PageNext]_pageVars => PageInv'
<1> SUFFICES ASSUME PageInv, [PageNext]_pageVars PROVE PageInv'
  OBVIOUS
<1>0. choice \in Choices
  BY DEF PageInv, PageTypeOK
<1>1. ASSUME NEW a \in PageAccounts, ChooseAccount(a) PROVE PageInv'
  <2>1. [choice EXCEPT !.account = a, !.selected = {}] \in Choices
    BY <1>0 DEF Choices
  <2> QED
    BY <1>1, <2>1, UserChangesKeep DEF ChooseAccount
<1>2. ASSUME NEW d \in Cutoffs \cup {Nothing}, ChooseCutoff(d) PROVE PageInv'
  <2>1. [choice EXCEPT !.cutoff = d, !.selected = {}] \in Choices
    BY <1>0 DEF Choices
  <2> QED
    BY <1>2, <2>1, UserChangesKeep DEF ChooseCutoff
<1>3. ASSUME NEW b \in Balances \cup {Nothing}, TypeBalance(b) PROVE PageInv'
  <2>1. [choice EXCEPT !.actual = b] \in Choices
    BY <1>0 DEF Choices
  <2> QED
    BY <1>3, <2>1, UserChangesKeep DEF TypeBalance
<1>4. ASSUME NEW e \in PageEntries, Select(e) PROVE PageInv'
  <2>1. PICK chosen \in SUBSET PageEntries : UserChanges([choice EXCEPT !.selected = chosen])
    <3>1. PICK chosen : chosen = (IF e \in choice.selected THEN choice.selected \ {e}
                                  ELSE choice.selected \cup {e})
      OBVIOUS
    <3>2. chosen \in SUBSET PageEntries
      BY <1>0, <3>1 DEF Choices
    <3>3. UserChanges([choice EXCEPT !.selected = chosen])
      BY <1>4, <3>1 DEF Select
    <3> QED
      BY <3>2, <3>3
  <2>2. [choice EXCEPT !.selected = chosen] \in Choices
    BY <1>0 DEF Choices
  <2> QED
    BY <2>1, <2>2, UserChangesKeep
<1>5. ASSUME NEW q \in asked,
             \/ AnswerAbandoned(q) \/ AnswerFailed(q)
             \/ \E first \in PageAccounts : AnswerAccounts(q, first)
             \/ AnswerCandidates(q) \/ AnswerPreview(q)
      PROVE  PageInv'
  BY <1>5, AnswersKeep
<1>6. CASE ClickComplete
  <2>1. /\ completing' = [of |-> choice, is |-> "sent", current |-> TRUE] /\ IsRequest(choice)
        /\ UNCHANGED <<accounts, choice, candidates, preview, loading, completed, asked, covered>>
    BY <1>6 DEF ClickComplete
  <2>2. CompletionInv'
    BY <2>1 DEF CompletionInv, IsRequest
  <2> QED
    BY <1>0, <2>1, <2>2 DEF PageInv, PageTypeOK, ActiveIsCurrent, ShownIsCurrent,
                            CompletedIsTrue, Scope, IsRequest, Completions
<1>7. CASE ServeCompletion
  <2>1. /\ completing # Nothing /\ covered' = covered \cup {completing.of}
        /\ completing' = [completing EXCEPT !.is = "done"] /\ completing \in Completions
        /\ UNCHANGED <<accounts, choice, candidates, preview, loading, completed, asked>>
    BY <1>7 DEF ServeCompletion, PageInv, PageTypeOK
  <2>2. /\ completing' \in Completions /\ completing'.of = completing.of
        /\ completing'.current = completing.current
    BY <2>1 DEF Completions
  <2>3. CompletionInv'
    BY <2>1, <2>2 DEF PageInv, CompletionInv, IsRequest
  <2> QED
    BY <2>1, <2>2, <2>3 DEF PageInv, PageTypeOK, ActiveIsCurrent, ShownIsCurrent,
                            CompletedIsTrue, Scope, IsRequest
<1>8. CASE FailCompletion
  BY <1>8 DEF FailCompletion, PageInv, PageTypeOK, ActiveIsCurrent, CompletionInv,
              ShownIsCurrent, CompletedIsTrue, Scope, IsRequest
<1>9. CASE HandleCompletion
  <2>1. /\ completing # Nothing /\ completing.is = "done" /\ completing' = Nothing
        /\ UNCHANGED <<accounts, choice, candidates, loading, asked, covered>>
    BY <1>9 DEF HandleCompletion
  <2>2. CASE completing.current
    <3>1. /\ preview' = [of |-> completing.of, agrees |-> TRUE] /\ completed' = TRUE
          /\ completing.of = choice /\ choice \in covered
      BY <1>9, <2>1, <2>2 DEF HandleCompletion, PageInv, CompletionInv
    <3>2. preview'.of = choice
      BY <3>1
    <3> QED
      BY <2>1, <3>1, <3>2 DEF PageInv, PageTypeOK, ActiveIsCurrent, CompletionInv,
                              ShownIsCurrent, CompletedIsTrue, Scope, IsRequest
  <2>3. CASE ~completing.current
    <3>1. UNCHANGED <<preview, completed>>
      BY <1>9, <2>3 DEF HandleCompletion
    <3> QED
      BY <2>1, <3>1 DEF PageInv, PageTypeOK, ActiveIsCurrent, CompletionInv,
                        ShownIsCurrent, CompletedIsTrue, Scope, IsRequest
  <2> QED
    BY <2>2, <2>3
<1>10. CASE UNCHANGED pageVars
  BY <1>10 DEF pageVars, PageInv, PageTypeOK, ActiveIsCurrent, CompletionInv,
               ShownIsCurrent, CompletedIsTrue, Scope, IsRequest
<1> QED
  BY <1>1, <1>2, <1>3, <1>4, <1>5, <1>6, <1>7, <1>8, <1>9, <1>10 DEF PageNext

(* What the reconciliation page shows belongs to the form as it is, in     *)
(* whatever order the answers of its effects come.                         *)
THEOREM PageShowsTheForm == PageSpec => []ShownIsCurrent
<1>1. PageInv => ShownIsCurrent
  BY DEF PageInv
<1> QED
  BY <1>1, PageInvInit, PageInvNext, PTL DEF PageSpec

(* The page announces no completion but of the request in its form, and of *)
(* one the server has completed.                                           *)
THEOREM AnnouncedIsCompleted == PageSpec => []CompletedIsTrue
<1>1. PageInv => CompletedIsTrue
  BY DEF PageInv
<1> QED
  BY <1>1, PageInvInit, PageInvNext, PTL DEF PageSpec

-----------------------------------------------------------------------------
(* The audit trail.                                                        *)

\* Of two events one is newer than the other, and the order is transitive.
LEMMA NewerIsTotal ==
    ASSUME NEW a \in Event, NEW b \in Event
    PROVE  /\ a = b \/ Newer(a, b) \/ Newer(b, a)
           /\ ~(Newer(a, b) /\ Newer(b, a)) /\ ~Newer(a, a)
           /\ \A c \in Event : Newer(a, b) /\ Newer(b, c) => Newer(a, c)
<1>1. \A c \in Event : c.time \in Int /\ c.id \in Int
  BY AuditPagesAssumption DEF Event
<1>2. a.time = b.time /\ a.id = b.id => a = b
  BY DEF Event
<1> QED
  BY <1>1, <1>2 DEF Newer

\* A finite set of events has a newest and an oldest one.
LEMMA NewestAndOldest ==
    ASSUME NEW S \in SUBSET Event, S # {}, IsFiniteSet(S)
    PROVE  /\ \E e \in S : \A f \in S : f = e \/ Newer(e, f)
           /\ \E e \in S : \A f \in S : f = e \/ Newer(f, e)
<1> DEFINE R == StrictSubsetOrdering(S)
           Ahead(e) == {f \in S : Newer(f, e)}
           Behind(e) == {f \in S : Newer(e, f)}
<1>1. IsWellFoundedOn(R, SUBSET S)
  BY FS_FiniteSubsetsOfFinite, FS_StrictSubsetOrderingWellFounded
<1>2. \E e \in S : \A f \in S : f = e \/ Newer(e, f)
  <2> DEFINE T == {Ahead(e) : e \in S}
  <2>1. T \subseteq SUBSET S /\ T # {}
    OBVIOUS
  <2>2. \E X \in T : \A Y \in T : ~(<<Y, X>> \in R)
    <3> HIDE DEF T, R
    <3> QED
      BY <1>1, <2>1, WFMin
  <2>3. PICK e \in S : \A f \in S : ~(<<Ahead(f), Ahead(e)>> \in R)
    BY <2>2
  <2>4. ASSUME NEW f \in S, Newer(f, e) PROVE FALSE
    <3>1. Ahead(f) \subseteq Ahead(e) /\ f \in Ahead(e) /\ f \notin Ahead(f)
      BY <2>4, NewerIsTotal
    <3> QED
      BY <2>3, <3>1 DEF StrictSubsetOrdering
  <2> QED
    BY <2>4, NewerIsTotal
<1>3. \E e \in S : \A f \in S : f = e \/ Newer(f, e)
  <2> DEFINE T == {Behind(e) : e \in S}
  <2>1. T \subseteq SUBSET S /\ T # {}
    OBVIOUS
  <2>2. \E X \in T : \A Y \in T : ~(<<Y, X>> \in R)
    <3> HIDE DEF T, R
    <3> QED
      BY <1>1, <2>1, WFMin
  <2>3. PICK e \in S : \A f \in S : ~(<<Behind(f), Behind(e)>> \in R)
    BY <2>2
  <2>4. ASSUME NEW f \in S, Newer(e, f) PROVE FALSE
    <3>1. Behind(f) \subseteq Behind(e) /\ f \in Behind(e) /\ f \notin Behind(f)
      BY <2>4, NewerIsTotal
    <3> QED
      BY <2>3, <3>1 DEF StrictSubsetOrdering
  <2> QED
    BY <2>4, NewerIsTotal
<1> QED
  BY <1>2, <1>3

(* What the list holds, as far back as it goes.                            *)
Reaches(next, list, S) == \A e \in S : next = NoCursor \/ ~Newer(next, e) => e \in list

\* A page holds every event between its cursor and the next one.
LEMMA PageIsWhole ==
    ASSUME trail \subseteq Event, IsFiniteSet(trail), NEW from \in Event \cup {NoCursor}
    PROVE  /\ PageFrom(from) \subseteq trail
           /\ NextCursor(from) \in Event \cup {NoCursor}
           /\ Reaches(NextCursor(from), PageFrom(from), After(from))
<1> DEFINE S == After(from)
           Ahead(e) == {f \in S : Newer(f, e)}
           P == {e \in S : Cardinality(Ahead(e)) < Limit}
<1>1. S \subseteq trail /\ IsFiniteSet(S) /\ Cardinality(S) \in Nat
  <2>1. S \in SUBSET trail
    BY DEF After
  <2> QED
    BY <2>1, FS_Subset, FS_CardinalityType
<1>2. PageFrom(from) = P
  BY DEF PageFrom
<1>3. \A e \in S : IsFiniteSet(Ahead(e)) /\ Cardinality(Ahead(e)) \in Nat
  <2> TAKE e \in S
  <2>1. Ahead(e) \in SUBSET S
    OBVIOUS
  <2> HIDE DEF Ahead, S
  <2> QED
    BY <1>1, <2>1, FS_Subset, FS_CardinalityType
<1>4. CASE Cardinality(S) <= Limit
  <2>1. NextCursor(from) = NoCursor
    BY <1>4 DEF NextCursor
  <2>2. ASSUME NEW e \in S PROVE e \in P
    <3>1. Ahead(e) \in SUBSET (S \ {e})
      BY <1>1, NewerIsTotal
    <3>2. IsFiniteSet(S \ {e}) /\ Cardinality(S \ {e}) = Cardinality(S) - 1
      <4> HIDE DEF S, P, Ahead
      <4> QED
        BY <1>1, FS_RemoveElement
    <3>3. Cardinality(Ahead(e)) <= Cardinality(S \ {e})
      <4> HIDE DEF S, P, Ahead
      <4> QED
        BY <3>1, <3>2, FS_Subset
    <3>4. Cardinality(Ahead(e)) < Limit
      <4> HIDE DEF S, P, Ahead
      <4> QED
        BY <1>1, <1>3, <1>4, <3>2, <3>3, AuditPagesAssumption
    <3> QED
      BY <3>4
  <2> QED
    BY <1>1, <1>2, <2>1, <2>2 DEF Reaches
<1>5. CASE ~(Cardinality(S) <= Limit)
  <2>1. S # {}
    <3> HIDE DEF S
    <3> QED
      BY <1>5, FS_EmptySet, AuditPagesAssumption
  <2>2. PICK e \in S : \A f \in S : f = e \/ Newer(e, f)
    <3> HIDE DEF S
    <3> QED
      BY <1>1, <2>1, NewestAndOldest
  <2>3. e \in P
    <3>1. Ahead(e) = {}
      BY <1>1, <2>2, NewerIsTotal
    <3> HIDE DEF Ahead
    <3> QED
      BY <3>1, FS_EmptySet, AuditPagesAssumption
  <2>4. P \in SUBSET S /\ IsFiniteSet(P)
    <3>1. P \in SUBSET S
      OBVIOUS
    <3> HIDE DEF P, S
    <3> QED
      BY <1>1, <3>1, FS_Subset
  <2>5. \E g \in P : \A f \in P : f = g \/ Newer(f, g)
    <3> HIDE DEF P, S
    <3> QED
      BY <1>1, <2>3, <2>4, NewestAndOldest
  <2>6. PICK g : g = NextCursor(from)
    OBVIOUS
  <2>7. g \in P /\ \A f \in P : f = g \/ Newer(f, g)
    <3>1. NextCursor(from) = CHOOSE h \in P : \A f \in P : f = h \/ Newer(f, h)
      BY <1>2, <1>5 DEF NextCursor
    <3> HIDE DEF P, S
    <3> QED
      BY <2>5, <2>6, <3>1
  <2>8. ASSUME NEW h \in S, ~Newer(g, h) PROVE h \in P
    <3>1. g \in Event /\ h \in Event
      BY <1>1, <2>7
    <3>2. CASE h = g
      BY <2>7, <3>2
    <3>3. CASE Newer(h, g)
      <4>1. Ahead(h) \in SUBSET Ahead(g)
        BY <1>1, <3>1, <3>3, NewerIsTotal
      <4>2. g \in S /\ Cardinality(Ahead(g)) < Limit
        BY <2>7
      <4>3. Cardinality(Ahead(h)) <= Cardinality(Ahead(g))
        <5> HIDE DEF Ahead, S, P
        <5> QED
          BY <1>3, <4>1, <4>2, FS_Subset
      <4>4. Cardinality(Ahead(h)) < Limit
        <5> HIDE DEF Ahead, S, P
        <5> QED
          BY <1>3, <4>2, <4>3, AuditPagesAssumption
      <4> QED
        BY <4>4
    <3> QED
      BY <2>8, <3>1, <3>2, <3>3, NewerIsTotal
  <2>9. NoCursor \notin Event /\ g \in Event
    BY <1>1, <2>7, AuditPagesAssumption
  <2> QED
    BY <1>1, <1>2, <2>6, <2>8, <2>9 DEF Reaches
<1> QED
  BY <1>4, <1>5

-----------------------------------------------------------------------------
Cursors == Event \cup {NoCursor}

Pages ==
    [is : {"page"}, events : SUBSET Event, next : Cursors, all : SUBSET Event, first : BOOLEAN]

Reads == {Idle} \cup [is : {"asked"}, from : Cursors] \cup Pages

TrailTypeOK ==
    /\ trail \subseteq Event /\ IsFiniteSet(trail) /\ loaded \subseteq trail
    /\ cursor \in Cursors
    /\ unread \in [PageCalls -> Reads]

(* The first page is asked for once, and nothing else until it has come.   *)
IsFirst(r) == (r.is = "asked" /\ r.from = NoCursor) \/ (r.is = "page" /\ r.first)

FirstAlone ==
    \A s \in PageCalls : IsFirst(unread[s]) =>
       loaded = {} /\ cursor = NoCursor /\ \A t \in PageCalls : t # s => unread[t] = Idle

(* A page that is asked for begins where the list was whole; once it has   *)
(* come, the list and the page together are whole.                         *)
ReadReaches(r, list, S) ==
    /\ r.is = "asked" /\ r.from # NoCursor => Reaches(r.from, list, S)
    /\ r.is = "page" => IF r.first THEN Reaches(r.next, r.events, r.all) /\ r.all \subseteq trail
                        ELSE Reaches(r.next, list \cup r.events, S)

TrailInv ==
    /\ TrailTypeOK /\ FirstAlone
    /\ \A s \in PageCalls : ReadReaches(unread[s], shown, loaded)
    /\ Reaches(cursor, shown, loaded)

\* What a request that is idle or asks says of itself.
LEMMA IdleIsIdle ==
    /\ Idle \in Reads /\ Idle.is = "idle" /\ ~IsFirst(Idle)
    /\ \A list, S : ReadReaches(Idle, list, S)
    /\ \A f \in Cursors : Asking(f) \in Reads /\ Asking(f).is = "asked" /\ Asking(f).from = f
  BY DEF Idle, Asking, Reads, IsFirst, ReadReaches

\* A trail that nobody has read yet has no page of it on show.
LEMMA TrailInvInit == TrailInit => TrailInv
<1> SUFFICES ASSUME TrailInit PROVE TrailInv
  OBVIOUS
<1>1. PICK c : unread = [s \in PageCalls |-> IF s = c THEN Asking(NoCursor) ELSE Idle]
  BY DEF TrailInit
<1>2. trail = {} /\ shown = {} /\ cursor = NoCursor /\ loaded = {} /\ NoCursor \in Cursors
  BY DEF TrailInit, Cursors
<1>3. TrailTypeOK
  BY <1>1, <1>2, IdleIsIdle, FS_EmptySet DEF TrailTypeOK
<1>4. FirstAlone
  BY <1>1, <1>2, IdleIsIdle DEF FirstAlone
<1>5. \A s \in PageCalls : ReadReaches(unread[s], shown, loaded)
  BY <1>1, <1>2, IdleIsIdle DEF ReadReaches
<1> QED
  BY <1>2, <1>3, <1>4, <1>5 DEF TrailInv, Reaches

(* Every step of the trail and of its page keeps the invariant.            *)
LEMMA TrailInvNext == TrailInv /\ [TrailNext]_trailVars => TrailInv'
<1> SUFFICES ASSUME TrailInv, [TrailNext]_trailVars PROVE TrailInv'
  OBVIOUS
<1>0. TrailTypeOK /\ FirstAlone
  BY DEF TrailInv
<1>1. ASSUME NEW e \in Event, Append(e) PROVE TrailInv'
  <2>1. trail' = trail \cup {e} /\ UNCHANGED <<shown, cursor, unread, hidden, loaded>>
    BY <1>1 DEF Append
  <2>2. TrailTypeOK'
    BY <1>0, <2>1, FS_AddElement DEF TrailTypeOK
  <2> QED
    BY <2>1, <2>2 DEF TrailInv, FirstAlone, IsFirst, ReadReaches, Reaches, Newer
<1>2. ASSUME NEW s \in PageCalls, ReadPage(s) PROVE TrailInv'
  <2>1. PICK from \in Cursors : unread[s].from = from /\ unread[s].is = "asked"
    BY <1>0, <1>2 DEF ReadPage, TrailTypeOK, Reads, Pages, Idle
  <2>2. PICK r : r = [is |-> "page", events |-> PageFrom(from), next |-> NextCursor(from),
                      all |-> IF from = NoCursor THEN trail ELSE {}, first |-> from = NoCursor]
    OBVIOUS
  <2>3. unread' = [unread EXCEPT ![s] = r] /\ UNCHANGED <<trail, shown, cursor, hidden, loaded>>
    BY <1>2, <2>1, <2>2 DEF ReadPage
  <2>4. /\ PageFrom(from) \subseteq trail /\ NextCursor(from) \in Cursors
        /\ Reaches(NextCursor(from), PageFrom(from), After(from))
    BY <1>0, PageIsWhole DEF TrailTypeOK, Cursors
  <2>5. /\ r.is = "page" /\ r.events = PageFrom(from) /\ r.next = NextCursor(from)
        /\ r.all = (IF from = NoCursor THEN trail ELSE {}) /\ r.first = (from = NoCursor)
    BY <2>2
  <2>6. r \in Reads
    BY <1>0, <2>2, <2>4 DEF TrailTypeOK, Reads, Pages
  <2>7. TrailTypeOK'
    BY <1>0, <2>3, <2>6 DEF TrailTypeOK
  <2>8. FirstAlone'
    <3>1. IsFirst(r) <=> IsFirst(unread[s])
      BY <2>1, <2>5 DEF IsFirst
    <3>2. unread'[s] = r /\ \A t \in PageCalls : t # s => unread'[t] = unread[t]
      BY <1>0, <2>3 DEF TrailTypeOK
    <3>3. \A t \in PageCalls : unread[t] = Idle => t # s
      BY <2>1, IdleIsIdle
    <3> QED
      BY <1>0, <2>3, <3>1, <3>2, <3>3, IdleIsIdle DEF FirstAlone
  <2>9. ReadReaches(r, shown, loaded)
    <3>1. CASE from = NoCursor
      BY <2>4, <2>5, <3>1 DEF ReadReaches, After
    <3>2. CASE from # NoCursor
      <4>1. Reaches(from, shown, loaded)
        BY <2>1, <3>2 DEF TrailInv, ReadReaches
      <4>2. \A e \in loaded : e \in After(from) \/ ~Newer(from, e)
        BY <1>0, <3>2 DEF After, TrailTypeOK
      <4>3. Reaches(NextCursor(from), shown \cup PageFrom(from), loaded)
        BY <2>4, <3>2, <4>1, <4>2 DEF Reaches
      <4> QED
        BY <2>5, <3>2, <4>3 DEF ReadReaches
    <3> QED
      BY <3>1, <3>2
  <2>10. \A t \in PageCalls : ReadReaches(unread[t], shown, loaded)'
    BY <1>0, <2>3, <2>9 DEF TrailInv, TrailTypeOK, ReadReaches, Reaches, Newer
  <2> QED
    BY <2>3, <2>7, <2>8, <2>10 DEF TrailInv, Reaches, Newer
<1>3. ASSUME NEW s \in PageCalls, LoadMore(s) PROVE TrailInv'
  <2>1. /\ unread' = [unread EXCEPT ![s] = Asking(cursor)] /\ cursor # NoCursor
        /\ UNCHANGED <<trail, shown, cursor, hidden, loaded>> /\ cursor \in Cursors
    BY <1>0, <1>3 DEF LoadMore, TrailTypeOK
  <2>2. TrailTypeOK'
    BY <1>0, <2>1, IdleIsIdle DEF TrailTypeOK
  <2>3. \A t \in PageCalls : ~IsFirst(unread[t])
    BY <1>0, <2>1 DEF FirstAlone
  <2>4. ~IsFirst(Asking(cursor)) /\ ReadReaches(Asking(cursor), shown, loaded)
    BY <2>1, IdleIsIdle DEF IsFirst, ReadReaches, TrailInv
  <2>5. \A t \in PageCalls : unread'[t] = unread[t] \/ unread'[t] = Asking(cursor)
    BY <1>0, <2>1 DEF TrailTypeOK
  <2>6. FirstAlone'
    BY <2>3, <2>4, <2>5 DEF FirstAlone
  <2>7. \A t \in PageCalls : ReadReaches(unread[t], shown, loaded)'
    BY <2>1, <2>4, <2>5 DEF TrailInv, ReadReaches, Reaches, Newer
  <2> QED
    BY <2>1, <2>2, <2>6, <2>7 DEF TrailInv, Reaches, Newer
<1>4. ASSUME NEW s \in PageCalls, ShowPage(s) PROVE TrailInv'
  <2>1. /\ unread[s] \in Pages
        /\ shown' = unread[s].events \cup (IF unread[s].first THEN {} ELSE shown)
        /\ cursor' = unread[s].next
        /\ loaded' = IF unread[s].first THEN unread[s].all ELSE loaded
        /\ unread' = [unread EXCEPT ![s] = Idle]
        /\ UNCHANGED trail
    BY <1>0, <1>4 DEF ShowPage, TrailTypeOK, Reads, Idle
  <2>2. unread[s].is = "page" /\ unread[s].next \in Cursors /\ ReadReaches(unread[s], shown, loaded)
    BY <2>1 DEF Pages, TrailInv
  <2>3. loaded' \subseteq trail
    BY <1>0, <2>1, <2>2 DEF ReadReaches, TrailTypeOK
  <2>4. TrailTypeOK'
    BY <1>0, <2>1, <2>2, <2>3, IdleIsIdle DEF TrailTypeOK
  <2>5. unread'[s] = Idle /\ \A t \in PageCalls : t # s => unread'[t] = unread[t]
    BY <1>0, <2>1 DEF TrailTypeOK
  <2>6. Reaches(cursor, shown, loaded)'
    BY <2>1, <2>2 DEF ReadReaches, Reaches, Newer
  <2>7. CASE unread[s].first
    <3>1. \A t \in PageCalls : unread'[t] = Idle
      BY <1>0, <2>2, <2>5, <2>7 DEF FirstAlone, IsFirst
    <3> QED
      BY <2>4, <2>6, <3>1, IdleIsIdle DEF TrailInv, FirstAlone, ReadReaches
  <2>8. CASE ~unread[s].first
    <3>1. \A t \in PageCalls : t # s => ~IsFirst(unread[t])
      BY <1>0, <2>2, IdleIsIdle DEF FirstAlone
    <3>2. FirstAlone'
      BY <2>5, <3>1, IdleIsIdle DEF FirstAlone
    <3>3. \A t \in PageCalls : ReadReaches(unread[t], shown', loaded)
      BY <2>1, <2>8 DEF TrailInv, ReadReaches, Reaches
    <3>4. \A t \in PageCalls : ReadReaches(unread[t], shown, loaded)'
      BY <2>1, <2>5, <2>8, <3>3, IdleIsIdle DEF ReadReaches, Reaches, Newer
    <3> QED
      BY <2>4, <2>6, <3>2, <3>4 DEF TrailInv
  <2> QED
    BY <2>7, <2>8
<1>5. ASSUME NEW s \in PageCalls, FailPage(s) PROVE TrailInv'
  <2>1. unread' = [unread EXCEPT ![s] = Idle] /\ UNCHANGED <<trail, shown, cursor, loaded>>
    BY <1>5 DEF FailPage
  <2>2. TrailTypeOK'
    BY <1>0, <2>1, IdleIsIdle DEF TrailTypeOK
  <2>3. \A t \in PageCalls : unread'[t] = unread[t] \/ unread'[t] = Idle
    BY <1>0, <2>1 DEF TrailTypeOK
  <2>4. FirstAlone'
    BY <1>0, <2>1, <2>3, IdleIsIdle DEF FirstAlone
  <2>5. \A t \in PageCalls : ReadReaches(unread[t], shown, loaded)'
    BY <2>1, <2>3, IdleIsIdle DEF TrailInv, ReadReaches, Reaches, Newer
  <2> QED
    BY <2>1, <2>2, <2>4, <2>5 DEF TrailInv, Reaches, Newer
<1>6. CASE UNCHANGED trailVars
  BY <1>6 DEF trailVars, TrailInv, TrailTypeOK, FirstAlone, IsFirst, ReadReaches, Reaches, Newer
<1> QED
  BY <1>1, <1>2, <1>3, <1>4, <1>5, <1>6 DEF TrailNext

(* As far back as the list of the audit trail goes, no event is missing    *)
(* that was committed when it was opened, whatever is appended meanwhile.  *)
THEOREM ListSkipsNoEvent == TrailSpec => []NoEventSkipped
<1>1. TrailInv => NoEventSkipped
  BY DEF TrailInv, Reaches, NoEventSkipped
<1> QED
  BY <1>1, TrailInvInit, TrailInvNext, PTL DEF TrailSpec

-----------------------------------------------------------------------------
(* The movements page.                                                     *)

Requests ==
    [op : {"post", "create_draft", "update_draft", "discard_draft", "post_draft"},
     then : {"draft", "post"}, draft : Drafts \cup {Null}, content : Contents \cup {Null},
     key : FormKeys \cup {Null}, mount : Nat, number : Nat,
     is : {"sent", "done", "failed"}, heard : BOOLEAN]

Refs == [signature : Contents, key : FormKeys]

Wishes ==
    [number : Nat, content : Contents \cup {Null}, open : BOOLEAN, disturbed : SUBSET Nat]

FormTypeOK ==
    /\ drafts \in [Drafts -> Contents \cup {"none", "gone"}]
    /\ \A p \in posted : p.draft \in Drafts \cup {Null} /\ p.number \in Nat
    /\ form \in [mount : Mounts, editing : Drafts \cup {Null}, summary : Contents \cup {Null}]
    /\ retry \in [Mounts -> Refs \cup {Null}]
    /\ sent \in [FormCalls -> Requests \cup {Null}]
    /\ wish \in Wishes

(* A request of the page says what its click said: no movement behind a    *)
(* draft that is only saved; one that posts a new movement has no draft.   *)
RequestOK(r) ==
    /\ r.mount \in Mounts /\ r.mount <= form.mount /\ r.number <= wish.number
    /\ r.op # "discard_draft" => r.content \in Contents
    /\ r.number = 0 => r.then = "draft" /\ r.op \notin {"post", "post_draft"}
    /\ r.number # 0 => /\ r.op \in {"post", "update_draft", "post_draft"} /\ r.then = "post"
                       /\ r.draft = Null <=> r.op = "post"
                       /\ r.number = wish.number /\ wish.open => r.mount = form.mount

(* What tells the attempts to post a movement apart: the draft, or the key *)
(* where there is none.                                                    *)
Mark(x) ==
    [number |-> x.number, draft |-> x.draft, key |-> IF x.draft = Null THEN x.key ELSE Null]

Pending == {s \in FormCalls : sent[s] # Null /\ sent[s].number # 0}

Marks == {Mark(p) : p \in posted} \cup {Mark(sent[s]) : s \in Pending}

(* All attempts of one movement are the same attempt, and those of the     *)
(* movement the user is about are made with the draft and key of the form. *)
MarksAgree ==
    /\ \A x, y \in Marks : x.number = y.number =>
         x.draft = y.draft /\ (x.number \notin wish.disturbed => x.key = y.key)
    /\ \A x \in Marks : x.number = wish.number /\ wish.open =>
         /\ x.draft = form.editing
         /\ x.draft = Null /\ x.number \notin wish.disturbed => x.key = retry[form.mount].key
    /\ \A x \in Marks : x.number <= wish.number

(* The ref of the mounted form is the one of the movement under way.       *)
RefOK ==
    /\ \A m \in Mounts : m > form.mount => retry[m] = Null
    /\ wish.open => wish.number # 0
    /\ retry[form.mount] # Null => wish.open /\ retry[form.mount].signature = wish.content
    /\ wish.open /\ wish.number \notin wish.disturbed => retry[form.mount] # Null

(* The ledger posts a key once and a draft once.                           *)
PostedOnce ==
    /\ \A p, q \in posted : p.key = q.key => p = q
    /\ \A p, q \in posted : p.draft # Null /\ p.draft = q.draft => p = q
    /\ \A p \in posted : p.draft # Null => drafts[p.draft] = "gone"

FormInv ==
    /\ FormTypeOK /\ MarksAgree /\ RefOK /\ PostedOnce
    /\ \A s \in FormCalls : sent[s] # Null => RequestOK(sent[s])

\* A form that has sent nothing has posted nothing.
LEMMA FormInvInit == FormInit => FormInv
<1> SUFFICES ASSUME FormInit PROVE FormInv
  OBVIOUS
<1>1. /\ drafts = [d \in Drafts |-> "none"] /\ posted = {}
      /\ form = InForm(1, Null, Null) /\ retry = [m \in Mounts |-> Null]
      /\ sent = [s \in FormCalls |-> Null]
      /\ wish = [number |-> 0, content |-> Null, open |-> FALSE, disturbed |-> {}]
  BY DEF FormInit
<1>2. 1 \in Mounts
  BY FormAssumption DEF Mounts
<1>3. FormTypeOK
  BY <1>1, <1>2 DEF FormTypeOK, InForm, Wishes
<1>4. Marks = {}
  BY <1>1 DEF Marks, Pending
<1>5. form.mount = 1 /\ ~wish.open
  BY <1>1 DEF InForm
<1> QED
  BY <1>1, <1>2, <1>3, <1>4, <1>5 DEF FormInv, MarksAgree, RefOK, PostedOnce

(* What a step does to the form, the refs and the wish when nothing new is *)
(* attempted: the movement under way goes on, or is over.                  *)
WishGoesOn ==
    /\ wish'.number = wish.number /\ wish'.content = wish.content
    /\ wish.disturbed \subseteq wish'.disturbed
    /\ form'.mount \in Mounts /\ form'.mount >= form.mount
    /\ wish'.open => wish.open /\ form'.mount = form.mount /\ form'.editing = form.editing
    /\ \A m \in Mounts : retry'[m] = retry[m] \/ retry'[m] = Null
    /\ wish.open /\ ~wish'.open => form'.mount > form.mount \/ retry'[form.mount] = Null
    /\ wish'.open /\ retry'[form.mount] # retry[form.mount] => wish.number \in wish'.disturbed

\* Such a step keeps what is said of the attempts and of the ref.
LEMMA GoesOn ==
    ASSUME FormInv, WishGoesOn, Marks' \subseteq Marks
    PROVE  MarksAgree' /\ RefOK'
<1>0. form.mount \in Mounts /\ Mounts \subseteq Nat /\ MarksAgree /\ RefOK
  BY DEF FormInv, FormTypeOK, Mounts
<1>1. MarksAgree'
  <2>1. ASSUME NEW x \in Marks', NEW y \in Marks', x.number = y.number
        PROVE  x.draft = y.draft /\ (x.number \notin wish'.disturbed => x.key = y.key)
    BY <1>0, <2>1 DEF MarksAgree, WishGoesOn
  <2>2. ASSUME NEW x \in Marks', x.number = wish'.number, wish'.open
        PROVE  /\ x.draft = form'.editing
               /\ x.draft = Null /\ x.number \notin wish'.disturbed =>
                    x.key = retry'[form'.mount].key
    <3>1. /\ x \in Marks /\ x.number = wish.number /\ wish.open
          /\ form'.mount = form.mount /\ form'.editing = form.editing
          /\ wish.number \notin wish'.disturbed =>
               wish.number \notin wish.disturbed /\ retry'[form.mount] = retry[form.mount]
      BY <2>2 DEF WishGoesOn
    <3>2. /\ x.draft = form.editing
          /\ x.draft = Null /\ x.number \notin wish.disturbed => x.key = retry[form.mount].key
      BY <1>0, <3>1 DEF MarksAgree
    <3> QED
      BY <3>1, <3>2
  <2>3. \A x \in Marks' : x.number <= wish'.number
    BY <1>0 DEF MarksAgree, WishGoesOn
  <2> QED
    BY <2>1, <2>2, <2>3 DEF MarksAgree
<1>2. RefOK'
  <2>1. \A m \in Mounts : m > form'.mount => retry'[m] = Null
    <3> TAKE m \in Mounts
    <3>1. m > form'.mount => m > form.mount
      BY <1>0 DEF WishGoesOn
    <3> QED
      BY <1>0, <3>1 DEF RefOK, WishGoesOn
  <2>2. retry'[form'.mount] # Null =>
          wish'.open /\ retry'[form'.mount].signature = wish'.content
    <3>1. form'.mount > form.mount => retry'[form'.mount] = Null
      BY <1>0 DEF RefOK, WishGoesOn
    <3>2. form'.mount > form.mount \/ form'.mount = form.mount
      <4>1. form'.mount \in Nat /\ form.mount \in Nat /\ form'.mount >= form.mount
        BY <1>0 DEF WishGoesOn
      <4> QED
        BY <4>1
    <3> QED
      BY <1>0, <3>1, <3>2 DEF RefOK, WishGoesOn
  <2>3. wish'.open /\ wish'.number \notin wish'.disturbed => retry'[form'.mount] # Null
    BY <1>0 DEF RefOK, WishGoesOn
  <2>4. wish'.open => wish'.number # 0
    BY <1>0 DEF RefOK, WishGoesOn
  <2> QED
    BY <2>1, <2>2, <2>3, <2>4 DEF RefOK
<1> QED
  BY <1>1, <1>2

\* A request is what it was when the form and the wish go on.
LEMMA RequestGoesOn ==
    ASSUME FormInv, NEW r \in Requests, RequestOK(r),
           form'.mount \in Mounts, form'.mount >= form.mount, wish'.number \in Nat,
           \/ wish'.number > wish.number
           \/ wish'.number = wish.number
              /\ (wish'.open => wish.open /\ form'.mount = form.mount)
    PROVE  RequestOK(r)'
<1>1. /\ form.mount \in Nat /\ form'.mount \in Nat /\ r.mount \in Nat /\ wish.number \in Nat
      /\ r.number \in Nat /\ r.number <= wish.number
  BY DEF FormInv, FormTypeOK, Mounts, Wishes, RequestOK, Requests
<1>2. r.mount <= form'.mount
  BY <1>1 DEF RequestOK
<1>3. CASE wish'.number = wish.number /\ (wish'.open => wish.open /\ form'.mount = form.mount)
  BY <1>1, <1>2, <1>3 DEF RequestOK
<1>4. CASE wish'.number > wish.number
  <2>1. r.number <= wish'.number /\ r.number # wish'.number
    BY <1>1, <1>4
  <2> QED
    BY <1>2, <1>4, <2>1 DEF RequestOK
<1> QED
  BY <1>3, <1>4

\* A step that changes one request at most, and attempts nothing new.
LEMMA OneRequest ==
    ASSUME FormInv, WishGoesOn, posted' = posted, NEW s \in FormCalls, NEW r,
           sent' = [sent EXCEPT ![s] = r],
           \/ r = Null
           \/ /\ r \in Requests /\ RequestOK(r)'
              /\ r.number # 0 => /\ sent[s] # Null /\ r.number = sent[s].number
                                 /\ r.draft = sent[s].draft
                                 /\ r.draft = Null => r.key = sent[s].key
    PROVE  /\ sent' \in [FormCalls -> Requests \cup {Null}]
           /\ Marks' \subseteq Marks
           /\ (\A t \in FormCalls : sent[t] # Null => RequestOK(sent[t]))'
<1>0. sent \in [FormCalls -> Requests \cup {Null}] /\ wish.number \in Nat
  BY DEF FormInv, FormTypeOK, Wishes
<1>1. sent'[s] = r /\ \A t \in FormCalls : t # s => sent'[t] = sent[t]
  BY <1>0
<1>2. sent' \in [FormCalls -> Requests \cup {Null}]
  BY <1>0
<1>3. ASSUME NEW t \in FormCalls, sent'[t] # Null, sent'[t].number # 0
      PROVE  Mark(sent'[t]) \in Marks
  <2>1. CASE t = s
    <3>1. Mark(sent'[t]) = Mark(sent[s]) /\ s \in Pending
      BY <1>1, <1>3, <2>1 DEF Mark, Pending
    <3> QED
      BY <3>1 DEF Marks
  <2>2. CASE t # s
    BY <1>1, <1>3, <2>2 DEF Marks, Pending
  <2> QED
    BY <2>1, <2>2
<1>4. Marks' \subseteq Marks
  BY <1>3 DEF Marks, Pending, Mark
<1>5. ASSUME NEW t \in FormCalls, NEW q, q = sent'[t], q # Null PROVE RequestOK(q)'
  <2>1. CASE t = s
    BY <1>1, <1>5, <2>1
  <2>2. CASE t # s
    <3>1. q = sent[t] /\ q \in Requests /\ RequestOK(q)
      BY <1>0, <1>1, <1>5, <2>2 DEF FormInv
    <3>2. wish'.number \in Nat
      BY <1>0 DEF WishGoesOn
    <3> QED
      BY <3>1, <3>2, RequestGoesOn DEF WishGoesOn
  <2> QED
    BY <2>1, <2>2
<1>6. (\A t \in FormCalls : sent[t] # Null => RequestOK(sent[t]))'
  BY <1>5 DEF RequestOK
<1> QED
  BY <1>2, <1>4, <1>6


(* A step of the user in the form attempts nothing.                        *)
LEMMA UserStepsKeep ==
    ASSUME FormInv,
           \/ \E c \in Contents : Prepare(c)
           \/ BackToEdit \/ Leave
           \/ \E d \in Drafts : Edit(d)
    PROVE  FormInv'
<1>0. /\ FormTypeOK /\ MaxMounts \in Nat /\ Mounts = 1..MaxMounts
      /\ wish \in Wishes /\ form.mount \in Mounts
  BY FormAssumption DEF FormInv, FormTypeOK, Mounts
<1>1. UNCHANGED <<drafts, posted, retry, sent>>
  BY DEF Prepare, BackToEdit, Leave, Edit
<1>2. FormTypeOK' /\ WishGoesOn
  <2>1. CASE (\E c \in Contents : Prepare(c)) \/ BackToEdit
    <3>1. PICK c \in Contents \cup {Null} : form' = [form EXCEPT !.summary = c] /\ wish' = wish
      BY <2>1 DEF Prepare, BackToEdit
    <3> QED
      BY <1>0, <1>1, <3>1 DEF FormTypeOK, WishGoesOn, Mounts, Wishes
  <2>2. CASE Leave \/ \E d \in Drafts : Edit(d)
    <3>1. PICK d \in Drafts \cup {Null} : Mounted(d)
      BY <2>2 DEF Leave, Edit
    <3>2. /\ form' = InForm(form.mount + 1, d, Null) /\ form.mount < MaxMounts
          /\ wish' = [wish EXCEPT !.open = FALSE]
      BY <3>1 DEF Mounted
    <3>3. form.mount + 1 \in Mounts /\ form.mount + 1 > form.mount
      BY <1>0, <3>2
    <3>4. /\ wish'.number = wish.number /\ wish'.content = wish.content /\ ~wish'.open
          /\ wish'.disturbed = wish.disturbed /\ wish' \in Wishes
      BY <1>0, <3>2 DEF Wishes
    <3>5. form' \in [mount : Mounts, editing : Drafts \cup {Null}, summary : Contents \cup {Null}]
          /\ form'.mount = form.mount + 1
      BY <3>2, <3>3 DEF InForm
    <3>6. FormTypeOK'
      BY <1>0, <1>1, <3>4, <3>5 DEF FormTypeOK
    <3>7. WishGoesOn
      BY <1>0, <1>1, <3>3, <3>4, <3>5 DEF WishGoesOn
    <3> QED
      BY <3>6, <3>7
  <2> QED
    BY <2>1, <2>2
<1>3. Marks' = Marks
  BY <1>1 DEF Marks, Pending, Mark
<1>4. MarksAgree' /\ RefOK'
  BY <1>2, <1>3, GoesOn
<1>5. (\A t \in FormCalls : sent[t] # Null => RequestOK(sent[t]))'
  <2>1. ASSUME NEW t \in FormCalls, NEW q, q = sent[t], q # Null PROVE RequestOK(q)'
    <3>1. q \in Requests /\ RequestOK(q) /\ wish'.number \in Nat
      BY <1>0, <1>2, <2>1 DEF FormInv, FormTypeOK, Wishes
    <3> QED
      BY <1>2, <3>1, RequestGoesOn DEF WishGoesOn
  <2> QED
    BY <1>1, <2>1 DEF RequestOK
<1>6. PostedOnce'
  BY <1>1 DEF FormInv, PostedOnce
<1> QED
  BY <1>2, <1>4, <1>5, <1>6 DEF FormInv

\* A step that leaves form, refs and wish alone lets the wish go on.
LEMMA NothingGoesOn ==
    ASSUME FormInv, UNCHANGED <<form, retry, wish>>
    PROVE  WishGoesOn
<1>1. form.mount \in Mounts /\ form.mount \in Nat
  BY DEF FormInv, FormTypeOK, Mounts
<1> QED
  BY <1>1 DEF WishGoesOn

\* Saving and discarding drafts sends requests that post nothing.
LEMMA DraftClicksKeep ==
    ASSUME FormInv, NEW s \in FormCalls, ClickSaveDraft(s) \/ \E d \in Drafts : Discard(s, d)
    PROVE  FormInv'
<1>0. FormTypeOK /\ form.mount \in Mounts /\ wish.number \in Nat /\ form.mount \in Nat
  BY DEF FormInv, FormTypeOK, Wishes, Mounts
<1>1. UNCHANGED <<drafts, posted, form, retry, wish>>
  BY DEF ClickSaveDraft, Discard
<1>2. PICK r : Send(s, r) /\ r \in Requests /\ r.number = 0 /\ r.then = "draft"
               /\ r.op \notin {"post", "post_draft"} /\ r.mount = form.mount
               /\ (r.op # "discard_draft" => r.content \in Contents)
  <2>1. CASE ClickSaveDraft(s)
    <3> WITNESS Request(IF form.editing = Null THEN "create_draft" ELSE "update_draft", "draft",
                        form.editing, form.summary, Null, 0)
    <3> QED
      BY <1>0, <2>1 DEF ClickSaveDraft, Request, Requests, FormTypeOK
  <2>2. ASSUME NEW d \in Drafts, Discard(s, d)
        PROVE  \E r : Send(s, r) /\ r \in Requests /\ r.number = 0 /\ r.then = "draft"
                      /\ r.op \notin {"post", "post_draft"} /\ r.mount = form.mount
                      /\ (r.op # "discard_draft" => r.content \in Contents)
    <3> WITNESS Request("discard_draft", "draft", d, Null, Null, 0)
    <3> QED
      BY <1>0, <2>2 DEF Discard, Request, Requests, FormTypeOK
  <2> QED
    BY <2>1, <2>2
<1>3. sent' = [sent EXCEPT ![s] = r]
  BY <1>2 DEF Send
<1>4. RequestOK(r)'
  BY <1>0, <1>1, <1>2 DEF RequestOK
<1>5. WishGoesOn
  BY <1>1, NothingGoesOn
<1>6. /\ sent' \in [FormCalls -> Requests \cup {Null}]
      /\ Marks' \subseteq Marks
      /\ (\A t \in FormCalls : sent[t] # Null => RequestOK(sent[t]))'
  BY <1>1, <1>2, <1>3, <1>4, <1>5, OneRequest
<1>7. MarksAgree' /\ RefOK'
  BY <1>5, <1>6, GoesOn
<1> QED
  BY <1>0, <1>1, <1>6, <1>7 DEF FormInv, FormTypeOK, PostedOnce

\* A request on its way, and what it is to be once it is answered.
LEMMA AnsweredRow ==
    ASSUME FormInv, UNCHANGED <<form, wish>>, NEW s \in FormCalls, sent[s] # Null,
           NEW is \in {"done", "failed"}, Answered(s, is)
    PROVE  \E r : /\ sent' = [sent EXCEPT ![s] = r]
                  /\ \/ r = Null
                     \/ /\ r \in Requests /\ RequestOK(r)'
                        /\ r.number = sent[s].number /\ r.draft = sent[s].draft
                        /\ r.key = sent[s].key
<1>1. sent[s] \in Requests /\ RequestOK(sent[s])
  BY DEF FormInv, FormTypeOK
<1>2. CASE ~sent[s].heard
  BY <1>2 DEF Answered
<1>3. CASE sent[s].heard
  <2>1. PICK r : r = [sent[s] EXCEPT !.is = is]
    OBVIOUS
  <2>2. /\ r \in Requests /\ r.number = sent[s].number /\ r.draft = sent[s].draft
        /\ r.key = sent[s].key /\ r.mount = sent[s].mount /\ r.op = sent[s].op
        /\ r.then = sent[s].then /\ r.content = sent[s].content
    BY <1>1, <2>1 DEF Requests
  <2>3. RequestOK(r)'
    BY <1>1, <2>2 DEF RequestOK
  <2>4. sent' = [sent EXCEPT ![s] = r]
    BY <1>3, <2>1 DEF Answered
  <2> QED
    BY <2>2, <2>3, <2>4
<1> QED
  BY <1>2, <1>3

\* A step of one request that leaves the ledger and the form alone.
LEMMA RequestStepKeeps ==
    ASSUME FormInv, UNCHANGED <<drafts, posted, form, retry, wish>>, NEW s \in FormCalls, NEW r,
           sent' = [sent EXCEPT ![s] = r],
           \/ r = Null
           \/ /\ r \in Requests /\ RequestOK(r)'
              /\ r.number # 0 => /\ sent[s] # Null /\ r.number = sent[s].number
                                 /\ r.draft = sent[s].draft
                                 /\ r.draft = Null => r.key = sent[s].key
    PROVE  FormInv'
<1>1. WishGoesOn
  BY NothingGoesOn
<1>2. /\ sent' \in [FormCalls -> Requests \cup {Null}]
      /\ Marks' \subseteq Marks
      /\ (\A t \in FormCalls : sent[t] # Null => RequestOK(sent[t]))'
  BY <1>1, OneRequest
<1>3. MarksAgree' /\ RefOK'
  BY <1>1, <1>2, GoesOn
<1> QED
  BY <1>2, <1>3 DEF FormInv, FormTypeOK, PostedOnce

\* Losses, errors and the answers that change nothing in the form.
LEMMA NetworkKeeps ==
    ASSUME FormInv, NEW s \in FormCalls,
           FailRequest(s) \/ Disconnect(s) \/ HandleOther(s) \/ HandleUpdated(s)
    PROVE  FormInv'
<1>1. UNCHANGED <<drafts, posted, form, retry, wish>> /\ sent[s] # Null
  BY DEF FailRequest, Disconnect, HandleOther, HandleUpdated
<1>2. sent[s] \in Requests /\ RequestOK(sent[s])
  BY <1>1 DEF FormInv, FormTypeOK
<1>3. CASE FailRequest(s)
  <2>1. PICK r : /\ sent' = [sent EXCEPT ![s] = r]
                 /\ \/ r = Null
                    \/ /\ r \in Requests /\ RequestOK(r)'
                       /\ r.number = sent[s].number /\ r.draft = sent[s].draft
                       /\ r.key = sent[s].key
    <3>1. Answered(s, "failed")
      BY <1>3 DEF FailRequest
    <3> QED
      BY <1>1, <3>1, AnsweredRow
  <2> QED
    BY <1>1, <2>1, RequestStepKeeps
<1>4. CASE Disconnect(s)
  <2>1. PICK r : r = [sent[s] EXCEPT !.heard = FALSE]
    OBVIOUS
  <2>2. /\ r \in Requests /\ r.number = sent[s].number /\ r.draft = sent[s].draft
        /\ r.key = sent[s].key /\ r.mount = sent[s].mount /\ r.op = sent[s].op
        /\ r.then = sent[s].then /\ r.content = sent[s].content
    BY <1>2, <2>1 DEF Requests
  <2>3. RequestOK(r)' /\ sent' = [sent EXCEPT ![s] = r]
    BY <1>1, <1>2, <1>4, <2>1, <2>2 DEF RequestOK, Disconnect
  <2> QED
    BY <1>1, <2>2, <2>3, RequestStepKeeps
<1>5. CASE HandleOther(s)
  <2>1. sent' = [sent EXCEPT ![s] = Null]
    BY <1>5 DEF HandleOther
  <2> QED
    BY <1>1, <2>1, RequestStepKeeps
<1>6. CASE HandleUpdated(s)
  <2>1. CASE retry[sent[s].mount] = Null
    <3>1. sent' = [sent EXCEPT ![s] = Null]
      BY <1>6, <2>1 DEF HandleUpdated
    <3> QED
      BY <1>1, <3>1, RequestStepKeeps
  <2>2. CASE retry[sent[s].mount] # Null
    <3>0. retry[sent[s].mount] \in Refs /\ sent[s].op = "update_draft" /\ sent[s].then = "post"
      BY <1>2, <1>6, <2>2 DEF FormInv, FormTypeOK, RequestOK, HandleUpdated
    <3>1. PICK k \in FormKeys : k = retry[sent[s].mount].key
      BY <3>0 DEF Refs
    <3>2. PICK r : r = [sent[s] EXCEPT !.op = "post_draft", !.key = k, !.is = "sent"]
      OBVIOUS
    <3>3. /\ r \in Requests /\ r.number = sent[s].number /\ r.draft = sent[s].draft
          /\ r.mount = sent[s].mount /\ r.op = "post_draft"
          /\ r.then = sent[s].then /\ r.content = sent[s].content
      BY <1>2, <3>2 DEF Requests
    <3>4. r.number # 0 /\ r.draft # Null
      BY <1>2, <3>0, <3>3 DEF RequestOK
    <3>5. RequestOK(r)'
      BY <1>1, <1>2, <3>0, <3>3, <3>4 DEF RequestOK
    <3>6. sent' = [sent EXCEPT ![s] = r]
      BY <1>6, <2>2, <3>1, <3>2 DEF HandleUpdated
    <3> QED
      BY <1>1, <3>3, <3>4, <3>5, <3>6, RequestStepKeeps
  <2> QED
    BY <2>1, <2>2
<1> QED
  BY <1>3, <1>4, <1>5, <1>6

\* The ledger serves a request of a draft: none that was posted comes back.
LEMMA ServeDraftKeeps ==
    ASSUME FormInv, NEW s \in FormCalls, ServeDraft(s)
    PROVE  FormInv'
<1>1. UNCHANGED <<posted, form, retry, wish>> /\ sent[s] # Null /\ Answered(s, "done")
  BY DEF ServeDraft
<1>2. sent[s] \in Requests /\ RequestOK(sent[s])
  BY <1>1 DEF FormInv, FormTypeOK
<1>3. PICK d \in Drafts, c \in Contents \cup {"gone"} :
         drafts' = [drafts EXCEPT ![d] = c] /\ drafts[d] # "gone"
  <2>0. \A d \in Stored : d \in Drafts /\ drafts[d] # "gone"
    BY FormAssumption DEF Stored
  <2>1. CASE sent[s].op = "create_draft"
    BY <1>2, <2>1 DEF ServeDraft, RequestOK
  <2>2. CASE sent[s].op = "update_draft"
    BY <1>2, <2>0, <2>2 DEF ServeDraft, RequestOK
  <2>3. CASE sent[s].op = "discard_draft"
    BY <1>2, <2>0, <2>3 DEF ServeDraft, RequestOK
  <2> QED
    BY <2>1, <2>2, <2>3 DEF ServeDraft
<1>4. PICK r : /\ sent' = [sent EXCEPT ![s] = r]
               /\ \/ r = Null
                  \/ /\ r \in Requests /\ RequestOK(r)'
                     /\ r.number = sent[s].number /\ r.draft = sent[s].draft
                     /\ r.key = sent[s].key
  BY <1>1, AnsweredRow
<1>5. WishGoesOn
  BY <1>1, NothingGoesOn
<1>6. /\ sent' \in [FormCalls -> Requests \cup {Null}]
      /\ Marks' \subseteq Marks
      /\ (\A t \in FormCalls : sent[t] # Null => RequestOK(sent[t]))'
  BY <1>1, <1>4, <1>5, OneRequest
<1>7. MarksAgree' /\ RefOK'
  BY <1>5, <1>6, GoesOn
<1>8. drafts' \in [Drafts -> Contents \cup {"none", "gone"}]
  BY <1>3 DEF FormInv, FormTypeOK
<1>9. PostedOnce'
  BY <1>1, <1>3 DEF FormInv, FormTypeOK, PostedOnce
<1> QED
  BY <1>1, <1>6, <1>7, <1>8, <1>9 DEF FormInv, FormTypeOK

\* The ledger posts a movement: under a key and of a draft that posted none.
LEMMA ServePostingKeeps ==
    ASSUME FormInv, NEW s \in FormCalls, ServePosting(s)
    PROVE  FormInv'
<1>1. /\ UNCHANGED <<form, retry, wish>> /\ sent[s] # Null /\ Answered(s, "done")
      /\ sent[s].op \in {"post", "post_draft"}
  BY DEF ServePosting
<1>2. sent[s] \in Requests /\ RequestOK(sent[s]) /\ sent[s].number # 0
  BY <1>1 DEF FormInv, FormTypeOK, RequestOK
<1>3. PICK r : /\ sent' = [sent EXCEPT ![s] = r]
               /\ \/ r = Null
                  \/ /\ r \in Requests /\ RequestOK(r)'
                     /\ r.number = sent[s].number /\ r.draft = sent[s].draft
                     /\ r.key = sent[s].key
  BY <1>1, AnsweredRow
<1>4. WishGoesOn
  BY <1>1, NothingGoesOn
<1>5. CASE UNCHANGED <<drafts, posted>>
  BY <1>1, <1>3, <1>5, RequestStepKeeps
<1>6. CASE /\ {p \in posted : p.key = sent[s].key} = {}
           /\ ~UNCHANGED <<drafts, posted>>
  <2>1. PICK x : /\ x.key = sent[s].key /\ x.draft = sent[s].draft /\ x.number = sent[s].number
                 /\ posted' = posted \cup {x}
    BY <1>6 DEF ServePosting
  <2>2. /\ sent[s].op = "post_draft" => sent[s].draft \in Stored
        /\ drafts' = IF sent[s].op = "post" THEN drafts
                     ELSE [drafts EXCEPT ![sent[s].draft] = "gone"]
    BY <1>6 DEF ServePosting
  <2>3. /\ sent' \in [FormCalls -> Requests \cup {Null}]
        /\ (\A t \in FormCalls : sent[t] # Null => RequestOK(sent[t]))'
        /\ {Mark(sent[t]) : t \in Pending}' \subseteq Marks
    <3>0. sent \in [FormCalls -> Requests \cup {Null}]
      BY DEF FormInv, FormTypeOK
    <3>1. sent'[s] = r /\ \A t \in FormCalls : t # s => sent'[t] = sent[t]
      BY <1>3, <3>0
    <3>2. ASSUME NEW t \in FormCalls, NEW q, q = sent'[t], q # Null
          PROVE  RequestOK(q)' /\ (q.number # 0 => Mark(q) \in Marks)
      <4>1. CASE t = s
        <5>1. q = r /\ Mark(q) = Mark(sent[s]) /\ s \in Pending
          BY <1>1, <1>2, <1>3, <3>1, <3>2, <4>1 DEF Mark, Pending
        <5> QED
          BY <1>3, <3>2, <5>1 DEF Marks
      <4>2. CASE t # s
        <5>1. q = sent[t] /\ RequestOK(q) /\ (q.number # 0 => t \in Pending)
          BY <3>1, <3>2, <4>2 DEF FormInv, Pending
        <5> QED
          BY <1>1, <5>1 DEF Marks, RequestOK
      <4> QED
        BY <4>1, <4>2
    <3>3. sent' \in [FormCalls -> Requests \cup {Null}]
      BY <1>3, <3>0
    <3>4. (\A t \in FormCalls : sent[t] # Null => RequestOK(sent[t]))'
      BY <3>2 DEF RequestOK
    <3>5. {Mark(sent[t]) : t \in Pending}' \subseteq Marks
      BY <3>2 DEF Pending, Mark
    <3> QED
      BY <3>3, <3>4, <3>5
  <2>4. Marks' \subseteq Marks
    <3>1. Mark(x) = Mark(sent[s]) /\ s \in Pending
      BY <1>1, <1>2, <2>1 DEF Mark, Pending
    <3>2. Mark(x) \in Marks
      BY <3>1 DEF Marks
    <3>3. {Mark(p) : p \in posted'} \subseteq Marks
      BY <2>1, <3>2 DEF Marks
    <3> QED
      BY <2>3, <3>3 DEF Marks, Mark
  <2>5. MarksAgree' /\ RefOK'
    BY <1>4, <2>4, GoesOn
  <2>6. /\ sent[s].draft # Null => sent[s].op = "post_draft" /\ sent[s].draft \in Drafts
                                   /\ drafts[sent[s].draft] # "gone"
        /\ sent[s].draft = Null => sent[s].op = "post"
    BY <1>1, <1>2, <2>2, FormAssumption DEF RequestOK, Stored
  <2>7. /\ drafts' \in [Drafts -> Contents \cup {"none", "gone"}]
        /\ \A d \in Drafts : drafts[d] = "gone" => drafts'[d] = "gone"
        /\ sent[s].draft # Null => drafts'[sent[s].draft] = "gone"
    BY <2>2, <2>6 DEF FormInv, FormTypeOK
  <2>8. PostedOnce'
    <3>1. \A p \in posted : p.key # x.key /\ (x.draft # Null => p.draft # x.draft)
      BY <1>6, <2>1, <2>6 DEF FormInv, PostedOnce
    <3>2. \A p \in posted' : p.draft # Null => drafts'[p.draft] = "gone"
      BY <2>1, <2>7 DEF FormInv, FormTypeOK, PostedOnce
    <3> QED
      BY <2>1, <3>1, <3>2 DEF FormInv, PostedOnce
  <2>9. \A p \in posted' : p.draft \in Drafts \cup {Null} /\ p.number \in Nat
    BY <1>2, <2>1 DEF FormInv, FormTypeOK, Requests
  <2> QED
    BY <1>1, <2>3, <2>5, <2>7, <2>8, <2>9 DEF FormInv, FormTypeOK
<1> QED
  BY <1>5, <1>6 DEF ServePosting

\* What onSaved makes of the form: the same one, or the next mount.
LEMMA SavedForm ==
    ASSUME FormInv, NEW mine \in BOOLEAN, form' = Saved(mine),
           form.editing # Null => form.mount < MaxMounts
    PROVE  /\ form' \in [mount : Mounts, editing : Drafts \cup {Null}, summary : Contents \cup {Null}]
           /\ form.editing = Null => form'.mount = form.mount /\ form'.editing = form.editing
           /\ form.editing # Null => form'.mount = form.mount + 1
           /\ form'.mount \in Mounts /\ form'.mount >= form.mount
<1>0. /\ form \in [mount : Mounts, editing : Drafts \cup {Null}, summary : Contents \cup {Null}]
      /\ form.mount \in Nat /\ Mounts = 1..MaxMounts /\ MaxMounts \in Nat
  BY FormAssumption DEF FormInv, FormTypeOK, Mounts
<1>1. CASE form.editing # Null
  <2>1. form' = InForm(form.mount + 1, Null, Null) /\ form.mount + 1 \in Mounts
    BY <1>0, <1>1 DEF Saved
  <2> QED
    BY <1>0, <1>1, <2>1 DEF InForm
<1>2. CASE form.editing = Null
  <2>1. form' = [form EXCEPT !.summary = Null] \/ form' = form
    BY <1>2 DEF Saved
  <2> QED
    BY <1>0, <1>2, <2>1
<1> QED
  BY <1>1, <1>2

\* A draft was saved: the form goes on, or is replaced.
LEMMA DraftSavedKeeps ==
    ASSUME FormInv, NEW s \in FormCalls, HandleDraftSaved(s)
    PROVE  FormInv'
<1>1. /\ sent' = [sent EXCEPT ![s] = Null] /\ UNCHANGED <<drafts, posted, retry>>
      /\ wish' = [wish EXCEPT !.open = wish.open /\ form.editing = Null]
      /\ wish \in Wishes
  BY DEF HandleDraftSaved, FormInv, FormTypeOK
<1>2. /\ form' \in [mount : Mounts, editing : Drafts \cup {Null}, summary : Contents \cup {Null}]
      /\ form.editing = Null => form'.mount = form.mount /\ form'.editing = form.editing
      /\ form.editing # Null => form'.mount = form.mount + 1
      /\ form'.mount \in Mounts /\ form'.mount >= form.mount
  <2>1. PICK mine \in BOOLEAN : form' = Saved(mine)
    BY DEF HandleDraftSaved
  <2>2. form.editing # Null => form.mount < MaxMounts
    BY DEF HandleDraftSaved
  <2> QED
    BY <2>1, <2>2, SavedForm
<1>3. /\ wish' \in Wishes /\ wish'.number = wish.number /\ wish'.content = wish.content
      /\ wish'.disturbed = wish.disturbed /\ (wish'.open <=> wish.open /\ form.editing = Null)
  BY <1>1 DEF Wishes
<1>4. form.mount \in Nat
  BY DEF FormInv, FormTypeOK, Mounts
<1>5. WishGoesOn
  BY <1>1, <1>2, <1>3, <1>4 DEF WishGoesOn
<1>6. /\ sent' \in [FormCalls -> Requests \cup {Null}]
      /\ Marks' \subseteq Marks
      /\ (\A t \in FormCalls : sent[t] # Null => RequestOK(sent[t]))'
  BY <1>1, <1>5, OneRequest
<1>7. MarksAgree' /\ RefOK'
  BY <1>5, <1>6, GoesOn
<1> QED
  BY <1>1, <1>2, <1>3, <1>6, <1>7 DEF FormInv, FormTypeOK, PostedOnce

\* A movement was posted: its mount forgets its key; if another movement is
\* under way in the same form, that one is disturbed.
LEMMA PostedKeeps ==
    ASSUME FormInv, NEW s \in FormCalls, HandlePosted(s)
    PROVE  FormInv'
<1>0. PICK r : r = sent[s]
  OBVIOUS
<1>1. /\ sent' = [sent EXCEPT ![s] = Null] /\ UNCHANGED <<drafts, posted>>
      /\ retry' = [retry EXCEPT ![r.mount] = Null] /\ wish' = Resolved(r)
      /\ r # Null /\ r.op \in {"post", "post_draft"}
  BY <1>0 DEF HandlePosted
<1>2. /\ wish \in Wishes /\ r \in Requests /\ RequestOK(r) /\ r.mount \in Mounts /\ r.number # 0
      /\ retry \in [Mounts -> Refs \cup {Null}] /\ form.mount \in Nat /\ form.mount \in Mounts
  BY <1>0, <1>1 DEF FormInv, FormTypeOK, RequestOK, Mounts
<1>3. /\ form' \in [mount : Mounts, editing : Drafts \cup {Null}, summary : Contents \cup {Null}]
      /\ form.editing = Null => form'.mount = form.mount /\ form'.editing = form.editing
      /\ form.editing # Null => form'.mount = form.mount + 1
      /\ form'.mount \in Mounts /\ form'.mount >= form.mount
  <2>1. PICK mine \in BOOLEAN : form' = Saved(mine)
    BY DEF HandlePosted
  <2>2. form.editing # Null => form.mount < MaxMounts
    BY DEF HandlePosted
  <2> QED
    BY <2>1, <2>2, SavedForm
<1>4. /\ wish' \in Wishes /\ wish'.number = wish.number /\ wish'.content = wish.content
      /\ wish'.open <=> wish.open /\ form.editing = Null /\ r.number # wish.number
      /\ wish.disturbed \subseteq wish'.disturbed
      /\ wish.open /\ r.number # wish.number /\ r.mount = form.mount =>
            wish.number \in wish'.disturbed
  <2>1. PICK D : D = IF wish.open /\ r.number # wish.number /\ r.mount = form.mount
                     THEN wish.disturbed \cup {wish.number} ELSE wish.disturbed
    OBVIOUS
  <2>2. PICK open \in BOOLEAN :
           open <=> wish.open /\ form.editing = Null /\ r.number # wish.number
    OBVIOUS
  <2>3. wish' = [wish EXCEPT !.open = open, !.disturbed = D]
    BY <1>1, <2>1, <2>2 DEF Resolved
  <2>4. D \in SUBSET Nat
    BY <1>2, <2>1 DEF Wishes
  <2> QED
    BY <1>2, <2>1, <2>2, <2>3, <2>4 DEF Wishes
<1>5. /\ retry' \in [Mounts -> Refs \cup {Null}] /\ retry'[r.mount] = Null
      /\ \A m \in Mounts : m # r.mount => retry'[m] = retry[m]
  BY <1>1, <1>2
<1>6. wish.open /\ r.number = wish.number => r.mount = form.mount
  BY <1>2 DEF RequestOK
<1>7. WishGoesOn
  BY <1>2, <1>3, <1>4, <1>5, <1>6 DEF WishGoesOn
<1>8. /\ sent' \in [FormCalls -> Requests \cup {Null}]
      /\ Marks' \subseteq Marks
      /\ (\A t \in FormCalls : sent[t] # Null => RequestOK(sent[t]))'
  BY <1>1, <1>7, OneRequest
<1>9. MarksAgree' /\ RefOK'
  BY <1>7, <1>8, GoesOn
<1> QED
  BY <1>1, <1>3, <1>4, <1>5, <1>8, <1>9 DEF FormInv, FormTypeOK, PostedOnce

\* A click to post: the movement under way again, or a new one.
LEMMA ClickPostKeeps ==
    ASSUME FormInv, NEW s \in FormCalls, NEW k \in FormKeys, ClickPost(s, k)
    PROVE  FormInv'
<1> DEFINE again == wish.open /\ wish.content = form.summary
<1>0. /\ FormTypeOK /\ MarksAgree /\ RefOK /\ PostedOnce
      /\ wish \in Wishes /\ wish.number \in Nat /\ form.mount \in Mounts /\ form.mount \in Nat
      /\ form.editing \in Drafts \cup {Null} /\ form.summary \in Contents
      /\ retry \in [Mounts -> Refs \cup {Null}]
  BY DEF FormInv, FormTypeOK, Wishes, Mounts, ClickPost
<1>1. PICK ref : ref = [signature |-> form.summary, key |-> k]
  OBVIOUS
<1>2. ref \in Refs /\ ref # Null /\ ref.signature = form.summary /\ ref.key = k
  BY <1>0, <1>1, FormAssumption DEF Refs
<1>3. /\ retry' = [retry EXCEPT ![form.mount] = ref] /\ wish' = Wished(form.summary)
      /\ UNCHANGED <<drafts, posted, form>> /\ sent[s] = Null
  BY <1>1 DEF ClickPost, Send
<1>4. /\ retry' \in [Mounts -> Refs \cup {Null}] /\ retry'[form.mount] = ref
      /\ \A m \in Mounts : m # form.mount => retry'[m] = retry[m]
  BY <1>0, <1>2, <1>3
<1>5. /\ wish' \in Wishes /\ wish'.open /\ wish'.content = form.summary
      /\ wish'.disturbed = wish.disturbed
      /\ again => wish'.number = wish.number
      /\ ~again => wish'.number = wish.number + 1
      /\ wish'.number # 0 /\ wish'.number \in Nat /\ wish'.number >= wish.number
  <2>1. CASE again
    BY <1>0, <1>3, <2>1 DEF Wished, RefOK
  <2>2. CASE ~again
    <3>1. PICK n \in Nat : n = wish.number + 1 /\ n # 0 /\ n >= wish.number
      BY <1>0
    <3>2. wish' = [wish EXCEPT !.number = n, !.content = form.summary, !.open = TRUE]
      BY <1>3, <2>2, <3>1 DEF Wished
    <3>3. /\ wish'.number = n /\ wish'.open /\ wish'.content = form.summary
          /\ wish'.disturbed = wish.disturbed /\ wish' \in Wishes
      BY <1>0, <3>2 DEF Wishes
    <3> QED
      BY <2>2, <3>1, <3>3
  <2> QED
    BY <2>1, <2>2
<1>6. PICK r :
         r = Request(IF form.editing = Null THEN "post" ELSE "update_draft", "post",
                     form.editing, form.summary, IF form.editing = Null THEN k ELSE Null,
                     wish'.number)
  OBVIOUS
<1>7. /\ sent' = [sent EXCEPT ![s] = r] /\ r \in Requests
      /\ r.number = wish'.number /\ r.draft = form.editing /\ r.mount = form.mount
      /\ r.op = (IF form.editing = Null THEN "post" ELSE "update_draft") /\ r.then = "post"
      /\ r.content = form.summary /\ (form.editing = Null => r.key = k)
  <2>1. sent' = [sent EXCEPT ![s] = r]
    BY <1>6 DEF ClickPost, Send
  <2> QED
    BY <1>0, <1>5, <1>6, <2>1 DEF Request, Requests
<1>8. RequestOK(r)'
  BY <1>0, <1>3, <1>5, <1>7 DEF RequestOK
<1>9. /\ sent' \in [FormCalls -> Requests \cup {Null}]
      /\ (\A t \in FormCalls : sent[t] # Null => RequestOK(sent[t]))'
  <2>0. sent \in [FormCalls -> Requests \cup {Null}]
    BY <1>0 DEF FormTypeOK
  <2>1. ASSUME NEW t \in FormCalls, NEW q, q = sent'[t], q # Null PROVE RequestOK(q)'
    <3>1. CASE t = s
      BY <1>7, <1>8, <2>0, <2>1, <3>1
    <3>2. CASE t # s
      <4>1. q = sent[t] /\ q \in Requests /\ RequestOK(q)
        BY <1>7, <2>0, <2>1, <3>2 DEF FormInv
      <4>2. \/ wish'.number > wish.number
            \/ wish'.number = wish.number
               /\ (wish'.open => wish.open /\ form'.mount = form.mount)
        BY <1>0, <1>3, <1>5
      <4> QED
        BY <1>0, <1>3, <1>5, <4>1, <4>2, RequestGoesOn
    <3> QED
      BY <3>1, <3>2
  <2>2. sent' \in [FormCalls -> Requests \cup {Null}]
    BY <1>7, <2>0
  <2> QED
    BY <2>1, <2>2 DEF RequestOK
<1>10. Marks' \subseteq Marks \cup {Mark(r)}
  <2>0. sent \in [FormCalls -> Requests \cup {Null}]
    BY <1>0 DEF FormTypeOK
  <2>1. ASSUME NEW t \in FormCalls, sent'[t] # Null, sent'[t].number # 0
        PROVE  Mark(sent'[t]) \in Marks \cup {Mark(r)}
    <3>1. CASE t = s
      BY <1>7, <2>0, <2>1, <3>1
    <3>2. CASE t # s
      BY <1>7, <2>0, <2>1, <3>2 DEF Marks, Pending
    <3> QED
      BY <3>1, <3>2
  <2> QED
    BY <1>3, <2>1 DEF Marks, Pending, Mark
<1>11. /\ Mark(r).number = wish'.number /\ Mark(r).draft = form.editing
       /\ Mark(r).key = IF form.editing = Null THEN k ELSE Null
  BY <1>7 DEF Mark
<1>12. \A x \in Marks : x.draft # Null => x.key = Null
  BY DEF Marks, Mark
<1>13. \A x \in Marks : x.number \in Nat /\ x.number <= wish.number
  <2>1. \A x \in Marks : x.number \in Nat
    BY <1>0 DEF Marks, Mark, Pending, FormTypeOK, Requests
  <2> QED
    BY <1>0, <2>1 DEF MarksAgree
<1>14. ASSUME NEW x \in Marks, x.number = wish'.number
       PROVE  /\ again /\ x.draft = form.editing
              /\ x.number \notin wish.disturbed => x.key = Mark(r).key
  <2>1. again
    BY <1>0, <1>5, <1>13, <1>14
  <2>2. /\ x.draft = form.editing
        /\ x.draft = Null /\ x.number \notin wish.disturbed => x.key = retry[form.mount].key
    BY <1>0, <1>5, <1>14, <2>1 DEF MarksAgree
  <2>3. x.number \notin wish.disturbed => k = retry[form.mount].key
    <3> SUFFICES ASSUME wish.number \notin wish.disturbed PROVE k = retry[form.mount].key
      BY <1>5, <1>14, <2>1
    <3>1. retry[form.mount] # Null /\ retry[form.mount].signature = form.summary
      BY <1>0, <2>1 DEF RefOK
    <3> QED
      BY <3>1 DEF ClickPost, KeyFor
  <2> QED
    BY <1>11, <1>12, <2>1, <2>2, <2>3
<1> HIDE DEF again
<1>15. MarksAgree'
  <2>1. ASSUME NEW x \in Marks', NEW y \in Marks', x.number = y.number
        PROVE  x.draft = y.draft /\ (x.number \notin wish.disturbed => x.key = y.key)
    <3>1. CASE x \in Marks /\ y \in Marks
      BY <1>0, <2>1, <3>1 DEF MarksAgree
    <3>2. CASE x \in Marks /\ y = Mark(r)
      BY <1>11, <1>14, <2>1, <3>2
    <3>3. CASE x = Mark(r) /\ y \in Marks
      BY <1>11, <1>14, <2>1, <3>3
    <3> QED
      BY <1>10, <3>1, <3>2, <3>3
  <2>2. ASSUME NEW x \in Marks', x.number = wish'.number
        PROVE  /\ x.draft = form'.editing
               /\ x.draft = Null /\ x.number \notin wish.disturbed =>
                     x.key = retry'[form'.mount].key
    <3>1. CASE x \in Marks
      BY <1>2, <1>3, <1>4, <1>11, <1>14, <2>2, <3>1
    <3>2. CASE x = Mark(r)
      BY <1>2, <1>3, <1>4, <1>11, <3>2
    <3> QED
      BY <1>10, <3>1, <3>2
  <2>3. \A x \in Marks' : x.number <= wish'.number
    BY <1>0, <1>5, <1>10, <1>11, <1>13
  <2> QED
    BY <1>5, <2>1, <2>2, <2>3 DEF MarksAgree
<1>16. RefOK'
  BY <1>0, <1>2, <1>3, <1>4, <1>5 DEF RefOK
<1>17. FormTypeOK'
  BY <1>0, <1>3, <1>4, <1>5, <1>9 DEF FormTypeOK
<1> QED
  BY <1>0, <1>3, <1>9, <1>15, <1>16, <1>17 DEF FormInv, PostedOnce

(* Every step of the form, the network and the ledger keeps the invariant. *)
LEMMA FormInvNext == FormInv /\ [FormNext]_formVars => FormInv'
<1> SUFFICES ASSUME FormInv, [FormNext]_formVars PROVE FormInv'
  OBVIOUS
<1>1. CASE (\E c \in Contents : Prepare(c)) \/ BackToEdit \/ Leave \/ \E d \in Drafts : Edit(d)
  BY <1>1, UserStepsKeep
<1>2. ASSUME NEW s \in FormCalls, NEW k \in FormKeys, ClickPost(s, k) PROVE FormInv'
  BY <1>2, ClickPostKeeps
<1>3. ASSUME NEW s \in FormCalls, ClickSaveDraft(s) \/ \E d \in Drafts : Discard(s, d)
      PROVE  FormInv'
  BY <1>3, DraftClicksKeep
<1>4. ASSUME NEW s \in FormCalls, ServeDraft(s) \/ ServePosting(s) PROVE FormInv'
  BY <1>4, ServeDraftKeeps, ServePostingKeeps
<1>5. ASSUME NEW s \in FormCalls,
             FailRequest(s) \/ Disconnect(s) \/ HandleOther(s) \/ HandleUpdated(s)
      PROVE  FormInv'
  BY <1>5, NetworkKeeps
<1>6. ASSUME NEW s \in FormCalls, HandleDraftSaved(s) \/ HandlePosted(s) PROVE FormInv'
  BY <1>6, DraftSavedKeeps, PostedKeeps
<1>7. CASE UNCHANGED formVars
  BY <1>7 DEF formVars, FormInv, FormTypeOK, MarksAgree, Marks, Pending, Mark, RefOK, PostedOnce,
              RequestOK
<1> QED
  BY <1>1, <1>2, <1>3, <1>4, <1>5, <1>6, <1>7 DEF FormNext

(* A movement the user confirms again and again until it is heard of is    *)
(* posted once, unless the late success of another one took its key away.  *)
THEOREM ConfirmedPostsOnce == FormSpec => []RetriedMovementPostsOnce
<1>1. ASSUME FormInv, NEW n, n \notin wish.disturbed
      PROVE  Cardinality({p \in posted : p.number = n}) <= 1
  <2> DEFINE S == {p \in posted : p.number = n}
  <2>1. ASSUME NEW p \in S, NEW q \in S PROVE p = q
    <3>1. Mark(p) \in Marks /\ Mark(q) \in Marks
      BY DEF Marks
    <3>2. /\ Mark(p).number = n /\ Mark(p).draft = p.draft
          /\ Mark(p).key = IF p.draft = Null THEN p.key ELSE Null
          /\ Mark(q).number = n /\ Mark(q).draft = q.draft
          /\ Mark(q).key = IF q.draft = Null THEN q.key ELSE Null
      BY DEF Mark
    <3>3. p.draft = q.draft /\ Mark(p).key = Mark(q).key
      BY <1>1, <3>1, <3>2 DEF FormInv, MarksAgree
    <3> QED
      BY <1>1, <3>2, <3>3 DEF FormInv, PostedOnce
  <2>2. S = {} \/ \E p : S = {p}
    BY <2>1
  <2> HIDE DEF S
  <2>3. Cardinality(S) = 0 \/ Cardinality(S) = 1
    BY <2>2, FS_EmptySet, FS_Singleton
  <2> QED
    BY <2>3 DEF S
<1>2. FormInv => RetriedMovementPostsOnce
  <2> SUFFICES ASSUME FormInv
               PROVE  \A n \in 1..MaxIntents \ wish.disturbed :
                         Cardinality({p \in posted : p.number = n}) <= 1
    BY DEF RetriedMovementPostsOnce
  <2> TAKE n \in 1..MaxIntents \ wish.disturbed
  <2>1. n \notin wish.disturbed
    OBVIOUS
  <2> QED
    BY <1>1, <2>1
<1> QED
  BY <1>2, FormInvInit, FormInvNext, PTL DEF FormSpec
=============================================================================
