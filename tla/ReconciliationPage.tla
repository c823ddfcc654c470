-------------------------- MODULE ReconciliationPage --------------------------
(***************************************************************************)
(* The reconciliation page (frontend/src/features/reconciliation/page.tsx):*)
(* its effects ask again whenever the form changes, answers come late and  *)
(* in any order, and the user goes on changing the form while a completion *)
(* is on its way.  An effect runs with the change that calls for it.       *)
(***************************************************************************)
EXTENDS FiniteSets, Naturals

CONSTANTS
    PageAccounts,   \* the accounts the server offers, reconcilable and in use
    Cutoffs, Balances, PageEntries,
    MaxAsked,       \* bound: questions still out, the abandoned ones included
    Nothing         \* no account, no date, no readable balance, no answer

ASSUME NothingIsNoAccount == Nothing \notin PageAccounts

VARIABLES
    accounts,    \* the accounts that can be chosen
    choice,      \* account, cutoff, actual and selected: what the form says
    candidates,  \* the entries offered and the question they answer, or Nothing
    preview,     \* the preview shown, the request it answers, or Nothing
    loading,     \* isPreviewLoading
    completed,   \* "Conciliación completada" is shown
    asked,       \* questions out: what, of what, and the effect's flag "active"
    completing,  \* the completion under way, or Nothing
    covered      \* the requests the server has completed

pageVars == <<accounts, choice, candidates, preview, loading, completed, asked, completing, covered>>

EmptyChoice == [account |-> Nothing, cutoff |-> Nothing, actual |-> Nothing, selected |-> {}]

PageInit ==
    /\ accounts = {}
    /\ choice = EmptyChoice
    /\ candidates = Nothing /\ preview = Nothing
    /\ loading = FALSE /\ completed = FALSE
    /\ asked = {[what |-> "accounts", of |-> EmptyChoice, active |-> TRUE]}
    /\ completing = Nothing
    /\ covered = {}

(* createRequest, and a selection that is not empty. *)
IsRequest(c) == Nothing \notin {c.account, c.cutoff, c.actual} /\ c.selected # {}

(* What the candidates effect depends on. *)
Scope(c) == [EmptyChoice EXCEPT !.account = c.account, !.cutoff = c.cutoff]

-----------------------------------------------------------------------------
(* A change of the form: the cleanup of an effect clears its flag, and the *)
(* effect asks anew, if there is anything to ask.                          *)
Questions(what) == {q \in asked : q.what = what}

(* Fault: an effect whose cleanup leaves the flag as it was. *)
NeverAbandoned(questions) == questions

Abandoned(questions) == {[q EXCEPT !.active = FALSE] : q \in questions}

Change(c) ==
    LET moved == Scope(c) # Scope(choice)
        stale == Questions("preview") \cup (IF moved THEN Questions("candidates") ELSE {})
        fresh == [what : IF IsRequest(c) THEN {"preview"} ELSE {}, of : {c}, active : {TRUE}]
            \cup [what : IF moved /\ Nothing \notin {c.account, c.cutoff} THEN {"candidates"} ELSE {},
                  of : {Scope(c)}, active : {TRUE}]
    IN  /\ choice' = c
        /\ candidates' = IF moved THEN Nothing ELSE candidates
        /\ asked' = (asked \ stale) \cup Abandoned(stale) \cup fresh
        /\ Cardinality(asked') <= MaxAsked
        /\ loading' = IsRequest(c)
        /\ preview' = IF IsRequest(c) THEN preview ELSE Nothing
        /\ completed' = FALSE

(* invalidateCurrentRequest: a completion under way is of an older version.*)
Invalidated == IF completing = Nothing THEN Nothing ELSE [completing EXCEPT !.current = FALSE]

UserChanges(c) ==
    /\ c # choice
    /\ Change(c)
    /\ completing' = Invalidated
    /\ UNCHANGED <<accounts, covered>>

ChooseAccount(a) ==
    /\ a \in accounts
    /\ UserChanges([choice EXCEPT !.account = a, !.selected = {}])

ChooseCutoff(d) == UserChanges([choice EXCEPT !.cutoff = d, !.selected = {}])

TypeBalance(b) == UserChanges([choice EXCEPT !.actual = b])

Select(e) ==
    /\ candidates # Nothing /\ e \in candidates.entries
    /\ UserChanges([choice EXCEPT !.selected = IF e \in @ THEN @ \ {e} ELSE @ \cup {e}])

-----------------------------------------------------------------------------
(* Answers.  One that fails shows an error only; a preview that fails goes.*)
Settle(q) == asked' = asked \ {q}

AnswerAbandoned(q) ==
    /\ ~q.active
    /\ Settle(q)
    /\ UNCHANGED <<accounts, choice, candidates, preview, loading, completed, completing, covered>>

AnswerFailed(q) ==
    /\ q.active
    /\ Settle(q)
    /\ preview' = IF q.what = "preview" THEN Nothing ELSE preview
    /\ loading' = (loading /\ q.what # "preview")
    /\ UNCHANGED <<accounts, choice, candidates, completed, completing, covered>>

(* The first account is chosen for the user, by a change that invalidates  *)
(* nothing: there is nothing to invalidate yet.                            *)
AnswerAccounts(q, first) ==
    /\ q.active /\ q.what = "accounts" /\ choice.account = Nothing
    /\ accounts' = PageAccounts
    /\ choice' = [choice EXCEPT !.account = first]
    /\ asked' = (asked \ {q}) \cup
         [what : IF choice.cutoff # Nothing THEN {"candidates"} ELSE {},
          of : {Scope(choice')}, active : {TRUE}]
    /\ candidates' = Nothing /\ preview' = Nothing
    /\ loading' = FALSE /\ completed' = FALSE
    /\ UNCHANGED <<completing, covered>>

(* The entries of the account that no reconciliation covers.               *)
Open(account) == {e \in PageEntries : \A r \in covered : r.account = account => e \notin r.selected}

AnswerCandidates(q) ==
    /\ q.active /\ q.what = "candidates"
    /\ candidates' = [of |-> q.of, entries |-> Open(q.of.account)]
    /\ Settle(q)
    /\ UNCHANGED <<accounts, choice, preview, loading, completed, completing, covered>>

AnswerPreview(q) ==
    /\ q.active /\ q.what = "preview"
    /\ \E agrees \in BOOLEAN : preview' = [of |-> q.of, agrees |-> agrees]
    /\ loading' = FALSE
    /\ Settle(q)
    /\ UNCHANGED <<accounts, choice, candidates, completed, completing, covered>>

-----------------------------------------------------------------------------
(* complete().                                                             *)
ClickComplete ==
    /\ IsRequest(choice)
    /\ preview # Nothing /\ preview.agrees /\ preview.of = choice
    /\ ~loading /\ completing = Nothing
    /\ completing' = [of |-> choice, is |-> "sent", current |-> TRUE]
    /\ UNCHANGED <<accounts, choice, candidates, preview, loading, completed, asked, covered>>

(* The server completes it, if what is selected is still open: two of them *)
(* cover no entry twice (Reconciliation!EntryReconciledOnce).              *)
ServeCompletion ==
    /\ completing # Nothing /\ completing.is = "sent"
    /\ completing.of.selected \subseteq Open(completing.of.account)
    /\ covered' = covered \cup {completing.of}
    /\ completing' = [completing EXCEPT !.is = "done"]
    /\ UNCHANGED <<accounts, choice, candidates, preview, loading, completed, asked>>

(* Refused, or the request or its answer is lost: an error is shown.       *)
FailCompletion ==
    /\ completing # Nothing
    /\ completing' = Nothing
    /\ UNCHANGED <<accounts, choice, candidates, preview, loading, completed, asked, covered>>

(* Fault: the version is not looked at. *)
HandleAnyCompletion ==
    /\ completing # Nothing /\ completing.is = "done"
    /\ preview' = [of |-> completing.of, agrees |-> TRUE]
    /\ completed' = TRUE
    /\ completing' = Nothing
    /\ UNCHANGED <<accounts, choice, candidates, loading, asked, covered>>

HandleCompletion ==
    /\ completing # Nothing /\ completing.is = "done"
    /\ IF completing.current
       THEN /\ preview' = [of |-> completing.of, agrees |-> TRUE]
            /\ completed' = TRUE
       ELSE UNCHANGED <<preview, completed>>
    /\ completing' = Nothing
    /\ UNCHANGED <<accounts, choice, candidates, loading, asked, covered>>

PageNext ==
    \/ \E a \in PageAccounts : ChooseAccount(a)
    \/ \E d \in Cutoffs \cup {Nothing} : ChooseCutoff(d)
    \/ \E b \in Balances \cup {Nothing} : TypeBalance(b)
    \/ \E e \in PageEntries : Select(e)
    \/ \E q \in asked :
         \/ AnswerAbandoned(q) \/ AnswerFailed(q)
         \/ \E first \in PageAccounts : AnswerAccounts(q, first)
         \/ AnswerCandidates(q) \/ AnswerPreview(q)
    \/ ClickComplete \/ ServeCompletion \/ FailCompletion \/ HandleCompletion

PageSpec == PageInit /\ [][PageNext]_pageVars

-----------------------------------------------------------------------------
(* Spec AC-006: what the user selects from and confirms belongs to the     *)
(* form as it is.  The entries offered are those of its account and date,  *)
(* and a preview that is not being loaded answers its very request, in     *)
(* whatever order the answers of earlier ones come.                        *)
ShownIsCurrent ==
    /\ candidates # Nothing => candidates.of = Scope(choice)
    /\ preview # Nothing /\ ~loading => preview.of = choice

(* "Conciliación completada" is only shown of the request in the form, and *)
(* that one is completed: the answer of an earlier one says nothing of it. *)
CompletedIsTrue == completed => choice \in covered
=============================================================================
