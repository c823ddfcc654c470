--------------------------- MODULE Reconciliation ---------------------------
(***************************************************************************)
(* Completing reconciliations (backend/app/reconciliation) by concurrent   *)
(* callers, over the ledger's books.                                       *)
(*                                                                         *)
(* A completion reads the candidates and the prior balance outside any     *)
(* transaction, each SELECT seeing what is committed by then; its first    *)
(* INSERT takes the database's write lock, under which it stores the       *)
(* reconciliation, projects the transaction states and audits.  Nobody     *)
(* sees that part before the commit, and a failure or a crash in it leaves *)
(* nothing: it is one action, Complete, or did not happen.  For the same   *)
(* reason a command of the ledger is one action here (module Ledger takes  *)
(* it apart).  list_candidates and preview only read.                      *)
(***************************************************************************)
EXTENDS LedgerStore, FiniteSetsExt

CONSTANTS
    Reconcilable,   \* the household accounts opened with is_reconcilable
    Ids,            \* reconciliation ids uuid4 may draw
    Callers,        \* completions in flight
    Observed,       \* the balances callers find on their statements
    LongIds,        \* whether their correlation ids are over-long
    Commands,       \* the ledger commands sent meanwhile
    OpenAtStart,    \* accounts and categories set up before
    Changing        \* accounts archived and unarchived meanwhile

ASSUME ReconcilableAccounts == Reconcilable \subseteq HouseholdAccounts
ASSUME ObservedCents == Observed \subseteq Int
ASSUME LongIdsBoolean == LongIds \subseteq BOOLEAN
ASSUME CommandsTyped == \A c \in Commands : c \in AllCommands /\ WellFormed(c)
ASSUME CatalogueTyped ==
    /\ OpenAtStart \subseteq HouseholdAccounts \cup Categories
    /\ Changing \subseteq HouseholdAccounts

VARIABLES
    books,          \* the committed tables of the ledger
    completed,      \* per id: the completed reconciliation, or Null
    evidence,       \* the complete_reconciliation audit events
    calls           \* where each caller is in complete()

vars == <<books, completed, evidence, calls>>

EntryIds == TxIds \X {1, 2}

(* ReconciliationRequest.  A correlation id over 120 characters comes from *)
(* an over-long X-Request-ID header.                                       *)
Requests ==
    [account : Accounts, cutoff : Dates, observed : Observed,
     entries : SUBSET EntryIds, longId : BOOLEAN]

Rows == [account : Accounts, cutoff : Dates, observed : Observed, entries : SUBSET EntryIds]
Events == [outcome : {"SUCCESS"}, id : Ids] \cup [outcome : {"FAILURE"}, id : {Null}]

ASSUME NullIsNoReconciliation == Null \notin Rows /\ Null \notin Requests /\ Null \notin Ids

-----------------------------------------------------------------------------
(* What the repository reads.                                              *)

EntryOf(s, e) == s.transactions[e[1]].entries[e[2]]

EligibilityDate(row) ==
    IF row.kind = "OPENING" \/ row.cash = NoDate THEN row.economic ELSE row.cash

EffectOf(s, entries) == MapThenSumSet(LAMBDA e : SignedCents(EntryOf(s, e)), entries)

(* The entries of an account that its statement of the cutoff shows.       *)
UpToCutoff(s, account, cutoff) ==
    {e \in EntryIds : /\ IsPosted(s, e[1])
                      /\ EntryOf(s, e).target = account
                      /\ EligibilityDate(s.transactions[e[1]]) <= cutoff}

CompletedIds == {i \in Ids : completed[i] # Null}
CompletedEntries == UNION {completed[i].entries : i \in CompletedIds}

EligibleAccounts(s) == {a \in Reconcilable : s.accounts[a] = "active"}

Candidates(account, cutoff) == UpToCutoff(books, account, cutoff) \ CompletedEntries

(* Fault: the cutoff is not asked of entries completed before. *)
PriorOfAnyDate(account, cutoff) ==
    EffectOf(books, {e \in CompletedEntries : EntryOf(books, e).target = account})

PriorCompletedCents(account, cutoff) ==
    EffectOf(books, UpToCutoff(books, account, cutoff) \cap CompletedEntries)

-----------------------------------------------------------------------------
(* The projection of a transaction's state from the entries covered by     *)
(* completed reconciliations.                                              *)

SettlingEntries(s, t) ==
    {e \in {t} \X {1, 2} : EntryOf(s, e).target \in EligibleAccounts(s)}

(* Fault: one covered entry is enough. *)
ProjectedOnAnyEntry(s, t, covered) ==
    LET state == s.transactions[t].state
        settling == SettlingEntries(s, t)
    IN  IF state = "VOIDED" \/ settling = {} THEN state
        ELSE IF settling \cap covered # {} THEN "RECONCILED" ELSE "POSTED"

ProjectedState(s, t, covered) ==
    LET state == s.transactions[t].state
        settling == SettlingEntries(s, t)
    IN  IF state = "VOIDED" \/ settling = {} THEN state
        ELSE IF settling \subseteq covered THEN "RECONCILED" ELSE "POSTED"

(* Fault: only the memberships of this reconciliation. *)
CoveredBySelection(selected) == selected

(* completed_entry_ids: every completed membership, those the same unit of *)
(* work has just added included.                                           *)
Covered(selected) == CompletedEntries \cup selected

TransactionsOf(entries) == {e[1] : e \in entries}

WithProjectedStates(s, selected) ==
    [s EXCEPT !.transactions =
        [t \in TxIds |->
            IF t \in TransactionsOf(selected)
            THEN [@[t] EXCEPT !.state = ProjectedState(s, t, Covered(selected))]
            ELSE @[t]]]

(* guard_posted_transaction_lifecycle lets these state updates through.    *)
LifecycleAllows(before, after) ==
    \A t \in TxIds : IsPosted(before, t) =>
        LET old == before.transactions[t].state
            new == after.transactions[t].state
        IN  \/ new = old
            \/ old = "POSTED" /\ new \in {"RECONCILED", "VOIDED"}
            \/ old = "RECONCILED" /\ new = "VOIDED"

(* Fault: neither the lookup nor the index of completed memberships. *)
MembershipsUnchecked(selected) == TRUE

(* add_completed looks for a duplicate and the unique index                *)
(* uq_completed_reconciliation_entry refuses one; memberships are never    *)
(* removed, so what the lookup finds the index would refuse too.           *)
MembershipsFree(selected) == selected \cap CompletedEntries = {}

-----------------------------------------------------------------------------
(* complete().                                                             *)

IdleCall == [pc |-> "idle", request |-> Null, effect |-> 0]

At(p, pc) == calls[p].pc = pc
Goto(p, pc) == calls' = [calls EXCEPT ![p].pc = pc]
EndCall(p) == calls' = [calls EXCEPT ![p] = IdleCall]

(* Bound: a call starts only while Ids has an id for it.                   *)
Submit(p, request) ==
    /\ At(p, "idle")
    /\ Cardinality({q \in Callers : ~At(q, "idle")}) < Cardinality(Ids \ CompletedIds)
    /\ calls' = [calls EXCEPT ![p] = [pc |-> "asked", request |-> request, effect |-> 0]]
    /\ UNCHANGED <<books, completed, evidence>>

CandidatesFit(request) ==
    /\ request.account \in EligibleAccounts(books)
    /\ request.entries \subseteq Candidates(request.account, request.cutoff)

ReadCandidates(p) ==
    LET request == calls[p].request
    IN  /\ At(p, "asked") /\ CandidatesFit(request)
        /\ calls' = [calls EXCEPT ![p] = [pc |-> "selected", request |-> request,
                                          effect |-> EffectOf(books, request.entries)]]
        /\ UNCHANGED <<books, completed, evidence>>

(* complete() of the draft: the difference must be zero.                   *)
BalanceFits(request, effect) ==
    /\ request.account \in EligibleAccounts(books)
    /\ request.entries # {}
    /\ request.observed = PriorCompletedCents(request.account, request.cutoff) + effect

ReadPrior(p) ==
    /\ At(p, "selected") /\ BalanceFits(calls[p].request, calls[p].effect)
    /\ Goto(p, "writing")
    /\ UNCHANGED <<books, completed, evidence>>

Writable(request) ==
    /\ MembershipsFree(request.entries)
    /\ LifecycleAllows(books, WithProjectedStates(books, request.entries))
    /\ ~request.longId

Row(request) ==
    [account |-> request.account, cutoff |-> request.cutoff, observed |-> request.observed,
     entries |-> request.entries]

(* Fault: the SUCCESS event does not name the reconciliation. *)
SuccessOfNone(i) == [outcome |-> "SUCCESS", id |-> Null]

Success(i) == [outcome |-> "SUCCESS", id |-> i]
Failure == [outcome |-> "FAILURE", id |-> Null]

Complete(p, i) ==
    LET request == calls[p].request
    IN  /\ At(p, "writing") /\ completed[i] = Null /\ Writable(request)
        /\ completed' = [completed EXCEPT ![i] = Row(request)]
        /\ books' = WithProjectedStates(books, request.entries)
        /\ evidence' = evidence \cup {Success(i)}
        /\ EndCall(p)

(* Whatever raises rolls back, and its failure is audited by itself.       *)
Refuse(p) ==
    /\ \/ At(p, "asked") /\ ~CandidatesFit(calls[p].request)
       \/ At(p, "selected") /\ ~BalanceFits(calls[p].request, calls[p].effect)
       \/ At(p, "writing") /\ ~Writable(calls[p].request)
    /\ Goto(p, "failing")
    /\ UNCHANGED <<books, completed, evidence>>

RecordFailure(p) ==
    /\ At(p, "failing") /\ ~calls[p].request.longId
    /\ evidence' = evidence \cup {Failure}
    /\ EndCall(p)
    /\ UNCHANGED <<books, completed>>

(* The lock may not come free within busy_timeout.                         *)
LockTimeout(p) ==
    /\ At(p, "writing")
    /\ Goto(p, "failing")
    /\ UNCHANGED <<books, completed, evidence>>

FailureUnrecorded(p) ==
    /\ At(p, "failing")
    /\ EndCall(p)
    /\ UNCHANGED <<books, completed, evidence>>

Crash ==
    /\ calls' = [p \in Callers |-> IdleCall]
    /\ UNCHANGED <<books, completed, evidence>>

-----------------------------------------------------------------------------
(* Beside them: committed commands of the ledger, and the catalogue.       *)

PostMovement(c, t) ==
    /\ c.name \in CreateNames /\ t \in FreshIn(books) /\ AcceptsPosting(books, c)
    /\ books' = Post(books, c, t)
    /\ UNCHANGED <<completed, evidence, calls>>

ReverseTransaction(c, t, today) ==
    /\ c.name = "reverse_transaction" /\ c.selection = Null
    /\ t \in FreshIn(books) /\ AcceptsReversal(books, c)
    /\ LinkAllowed(books, c.tx, t)
    /\ books' = Reverse(books, c, t, today, Null)
    /\ UNCHANGED <<completed, evidence, calls>>

SetArchived(a, state) ==
    /\ books.accounts[a] # "absent"
    /\ books' = SetAccount(books, a, state)
    /\ UNCHANGED <<completed, evidence, calls>>

-----------------------------------------------------------------------------
Init ==
    /\ books = EmptyStore(OpenAtStart)
    /\ completed = [i \in Ids |-> Null]
    /\ evidence = {}
    /\ calls = [p \in Callers |-> IdleCall]

(* Bound: callers name entries of the ledger on the account they ask for,  *)
(* whatever their date and whether completed by then or not, or none.      *)
KnownEntries == {e \in EntryIds : IsPosted(books, e[1])}
EntriesOn(account) == {e \in KnownEntries : EntryOf(books, e).target = account}

RequestsNow ==
    UNION {{[account |-> a, cutoff |-> d, observed |-> n, entries |-> es, longId |-> b] :
               d \in Dates, n \in Observed, es \in SUBSET EntriesOn(a), b \in LongIds}
           : a \in Accounts}

Call(p) ==
    \/ \E request \in RequestsNow : Submit(p, request)
    \/ ReadCandidates(p) \/ ReadPrior(p) \/ Refuse(p)
    \/ \E i \in Ids : Complete(p, i)
    \/ LockTimeout(p) \/ RecordFailure(p) \/ FailureUnrecorded(p)

Beside ==
    \/ \E c \in Commands, t \in TxIds :
           PostMovement(c, t) \/ \E today \in Dates : ReverseTransaction(c, t, today)
    \/ \E a \in Changing, state \in {"active", "archived"} : SetArchived(a, state)

Next == (\E p \in Callers : Call(p)) \/ Beside \/ Crash

Spec == Init /\ [][Next]_vars
=============================================================================
