----------------------- MODULE ReconciliationProperties -----------------------
(***************************************************************************)
(* What reconciliation promises (AC-008).                                  *)
(***************************************************************************)
EXTENDS Reconciliation, Reports

(* AC-008.7: an entry belongs to at most one completed reconciliation,     *)
(* however callers race, time out, crash and retry.                        *)
EntryReconciledOnce ==
    \A i, j \in CompletedIds : i # j => completed[i].entries \cap completed[j].entries = {}

(* AC-008.5, AC-008.6: when a reconciliation is completed the observed     *)
(* balance is that of the entries completed by then, up to its cutoff, its *)
(* own included.                                                           *)
CheckedBalance(i) ==
    EffectOf(books, UpToCutoff(books, completed[i].account, completed[i].cutoff)
                        \cap CompletedEntries)

BalanceMatches ==
    [][\A i \in Ids : completed[i] = Null /\ completed'[i] # Null =>
           completed'[i].observed = CheckedBalance(i)']_vars

(* Every completed reconciliation, and no other, has its SUCCESS event,    *)
(* though both are written by different services in one unit of work.      *)
CompletionsEvidenced ==
    {i \in Ids : Success(i) \in evidence} = CompletedIds

(* The trigger on the lifecycle of posted transactions never stops a       *)
(* completion: what is projected under the lock is a step forward, whatever*)
(* was archived, unarchived, reversed or completed since the checks.       *)
ProjectionNeverMovesBack ==
    \A p \in Callers : At(p, "writing") /\ MembershipsFree(calls[p].request.entries) =>
        LifecycleAllows(books, WithProjectedStates(books, calls[p].request.entries))

(* AC-008.9, AC-008.10: a transaction becomes RECONCILED only when some    *)
(* entry of it is covered and none on an account reconcilable at that      *)
(* moment is missing, whoever completed the other side.                    *)
InState(s, t, state) == IsPosted(s, t) /\ s.transactions[t].state = state

ReconciledEarned ==
    [][\A t \in TxIds : ~InState(books, t, "RECONCILED") /\ InState(books, t, "RECONCILED")' =>
           /\ \E e \in {t} \X {1, 2} : e \in CompletedEntries'
           /\ SettlingEntries(books, t)' \subseteq CompletedEntries']_vars

(* AC-008.10, AC-008.11: while nothing is archived a transaction shows as  *)
(* RECONCILED exactly when all its entries on reconcilable accounts are    *)
(* covered: an expense, income or opening once its one such entry is, a    *)
(* transfer once both are, in whichever order they are completed.          *)
Settling(t) == {e \in {t} \X {1, 2} : EntryOf(books, e).target \in Reconcilable}

ReconciledExactlyWhenCovered ==
    \A t \in TxIds :
        LET covered == Settling(t) # {} /\ Settling(t) \subseteq CompletedEntries
        IN  /\ InState(books, t, "POSTED") => ~covered
            /\ InState(books, t, "RECONCILED") => covered

(* The reports of module Reports, asked at any moment of these books, over *)
(* any interval: the economic result explains the net worth, the cash flow *)
(* the movements of the accounts, and a voided pair counts for nothing.    *)
ReportsAgree ==
    /\ ResultExplainsNetWorth(books)
    /\ CashAgreesOverAll(books)
    /\ VoidedCancels(books)

(* The module implements Statements: the facts are the posted entries, the *)
(* statements the completed reconciliations.                               *)
Fact(e) ==
    [entry |-> e, account |-> EntryOf(books, e).target,
     date |-> EligibilityDate(books.transactions[e[1]]),
     cents |-> SignedCents(EntryOf(books, e))]

Facts(entries) == {Fact(e) : e \in entries}

Statement(row) ==
    [account |-> row.account, cutoff |-> row.cutoff, observed |-> row.observed,
     facts |-> Facts(row.entries)]

Abstract == INSTANCE Statements WITH
    ledger <- Facts(KnownEntries),
    statements <- {Statement(completed[i]) : i \in CompletedIds}

StatementsSpec == Abstract!Spec
=============================================================================
