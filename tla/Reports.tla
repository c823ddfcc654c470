------------------------------ MODULE Reports -------------------------------
(***************************************************************************)
(* The three reports and the account balances, as functions of a store:    *)
(* ReportQueryService (backend/app/reporting/application/queries.py) over  *)
(* SqlAlchemyReportingLedgerReader (reporting/adapters/sql_queries.py),    *)
(* and account_balance_cents (ledger/adapters/repositories.py).  Each is   *)
(* computed from one SELECT, so from one committed store.                  *)
(***************************************************************************)
EXTENDS LedgerStore, FiniteSetsExt

ReportEntries == TxIds \X {1, 2}

(* A row of the base statement: an entry of a posted transaction, joined   *)
(* with its transaction, its account and its category.                     *)
Visible(s) == {e \in ReportEntries : IsPosted(s, e[1])}

Of(s, e) == s.transactions[e[1]]
EntryAt(s, e) == Of(s, e).entries[e[2]]
SumOf(s, entries) == MapThenSumSet(LAMBDA e : SignedCents(EntryAt(s, e)), entries)

On(s, entries, targets) == {e \in entries : EntryAt(s, e).target \in targets}

EconomicEntries(s, first, last) ==
    {e \in Visible(s) : Of(s, e).economic \in first..last}

(* The amount of a category entry is its signed cents, turned for income.  *)
Economic(s, first, last) ==
    LET entries == EconomicEntries(s, first, last)
        income == -SumOf(s, On(s, entries, IncomeCategories))
        expense == SumOf(s, On(s, entries, ExpenseCategories))
    IN  [income |-> income, expense |-> expense, result |-> income - expense]

CashEntries(s, first, last) ==
    {e \in Visible(s) : Of(s, e).cash # NoDate /\ Of(s, e).cash \in first..last}

(* Grouped by transaction: the first category entry decides what it is,    *)
(* the first account entry how much moved.                                 *)
CashFlowEntries(s, first, last, categories) ==
    {e \in On(s, CashEntries(s, first, last), Accounts) :
        \E i \in {1, 2} : EntryAt(s, <<e[1], i>>).target \in categories}

(* Fault: payments keep the sign of the account. *)
CashFlowUnsigned(s, first, last) ==
    LET receipts == SumOf(s, CashFlowEntries(s, first, last, IncomeCategories))
        payments == SumOf(s, CashFlowEntries(s, first, last, ExpenseCategories))
    IN  [receipts |-> receipts, payments |-> payments, net |-> receipts - payments]

CashFlow(s, first, last) ==
    LET receipts == SumOf(s, CashFlowEntries(s, first, last, IncomeCategories))
        payments == -SumOf(s, CashFlowEntries(s, first, last, ExpenseCategories))
    IN  [receipts |-> receipts, payments |-> payments, net |-> receipts - payments]

NetWorth(s, asOf) ==
    LET entries == {e \in Visible(s) : Of(s, e).economic <= asOf}
        assets == SumOf(s, On(s, entries, AssetAccounts))
        liabilities == -SumOf(s, On(s, entries, LiabilityAccounts))
    IN  [assets |-> assets, liabilities |-> liabilities, net |-> assets - liabilities]

AccountBalance(s, a) == SumOf(s, On(s, Visible(s), {a}))

-----------------------------------------------------------------------------
FirstDay == Min(Dates)
LastDay == Max(Dates)

(* What was opened by a day: the other side of the equity account.         *)
Opened(s, asOf) == -SumOf(s, On(s, EconomicEntries(s, FirstDay, asOf), {Equity}))

(* AC-009.3, AC-009.4, AC-003: by any day the net worth is what was opened *)
(* and the economic result since; transfers and reversals add nothing of   *)
(* their own, whatever was posted, voided or reconciled and when.          *)
ResultExplainsNetWorth(s) ==
    \A d \in Dates :
        NetWorth(s, d).net = Opened(s, d) + Economic(s, FirstDay, d).result

(* AC-009.1, AC-009.2: over all days the cash flow and the economic result *)
(* are the same money, though they use different dates and sides, and the  *)
(* balances of the accounts add up to the net worth.                       *)
CashAgreesOverAll(s) ==
    /\ CashFlow(s, FirstDay, LastDay).net = Economic(s, FirstDay, LastDay).result
    /\ MapThenSumSet(LAMBDA a : AccountBalance(s, a), HouseholdAccounts)
         = NetWorth(s, LastDay).net

(* AC-007.4, AC-007.7: an interval that holds a voided transaction and its *)
(* reversal shows neither in its economic result nor in its cash flow; a   *)
(* reversal in another period shows there.  NetOf is the effect of the two *)
(* in a report, the rest of the books left out.                            *)
Only(s, txs) ==
    [s EXCEPT !.transactions = [t \in TxIds |-> IF t \in txs THEN @[t] ELSE Null]]

VoidedCancels(s) ==
    \A link \in s.reversals :
        LET pair == Only(s, {link.original, link.reversal})
            voided == s.transactions[link.original]
            reversal == s.transactions[link.reversal]
        IN  \A first, last \in Dates :
              /\ {voided.economic, reversal.economic} \subseteq first..last =>
                   Economic(pair, first, last) = [income |-> 0, expense |-> 0, result |-> 0]
              /\ {voided.cash, reversal.cash} \subseteq first..last =>
                   CashFlow(pair, first, last) = [receipts |-> 0, payments |-> 0, net |-> 0]
=============================================================================
