-------------------------- MODULE MCReconciliation --------------------------
(***************************************************************************)
(* Small books for the reconciliation runs: two reconcilable accounts that *)
(* a transfer joins, an expense on one of them, and reversals.             *)
(***************************************************************************)
EXTENDS ReconciliationProperties, TLC

CONSTANTS checking, card, salary, food, k1

Create(name, kind, economic, category, destination, cents) ==
    [name |-> name, key |-> k1, tx |-> Null, economic |-> NoDate, cash |-> NoDate,
     selection |-> [kind |-> kind, economic |-> economic, cents |-> cents,
                    account |-> checking, category |-> category,
                    destination |-> destination, cash |-> NoDate]]

Expense(date, cents) == Create("create_expense", "EXPENSE", date, food, Null, cents)
Transfer == Create("create_transfer", "TRANSFER", 1, Null, card, 1)
Opening == Create("create_opening", "OPENING", 1, Null, Null, 2)
ReverseOf(t) ==
    [name |-> "reverse_transaction", key |-> k1, tx |-> t, economic |-> NoDate,
     cash |-> NoDate, selection |-> Null]
Reversals == {ReverseOf(t) : t \in TxIds}

(* One caller: an opening, and expenses paid on another day than they      *)
(* were made, reversed on either day and settled.                          *)
PaidOn(c, date) == [c EXCEPT !.selection.cash = date]
StatementCommands ==
    {Opening, PaidOn(Expense(1, 1), 2), PaidOn(Expense(2, 1), 1)} \cup Reversals

(* A transfer whose sides two callers settle, and an expense.              *)
TransferCommands == {Transfer, Expense(1, 1)} \cup Reversals

(* Two expenses of one cent that two callers settle, one each.             *)
ExpenseCommands == {Expense(1, 1)}

TransferBalances == {-1, 1}

Symmetry == Permutations(TxIds) \cup Permutations(Ids) \cup Permutations(Callers)

=============================================================================
