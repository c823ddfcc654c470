-------------------------------- MODULE Books --------------------------------
(***************************************************************************)
(* What is promised of any store of the ledger, and of two stores one      *)
(* after the other, whoever writes: the commands (module LedgerProperties) *)
(* or a completed reconciliation (module ReconciliationProperties).        *)
(***************************************************************************)
EXTENDS LedgerStore

(* Double entry at every commit: a posted transaction balances, moves only *)
(* accounts and categories that exist, and has a cash date when it moves   *)
(* money; a draft has no entries and keeps its details until it is posted  *)
(* or discarded.                                                           *)
Exists(s, target) ==
    IF target \in Accounts THEN s.accounts[target] # "absent"
    ELSE s.categories[target] # "absent"

Balances(s, t) ==
    LET row == s.transactions[t]
    IN  /\ Balanced(row.entries) /\ CashDateFits(row.kind, row.cash, NoDate)
        /\ Exists(s, row.entries[1].target) /\ Exists(s, row.entries[2].target)

BooksOf(s) ==
    \A t \in TxIds :
        /\ IsDraft(s, t) <=> s.drafts[t] # Null
        /\ IsDraft(s, t) => s.transactions[t].entries = <<>>
        /\ IsPosted(s, t) => Balances(s, t)

(* The books balance and every posted transaction has its pair of entries. *)
StoreWhole(s) ==
    /\ BooksOf(s)
    /\ \A t \in TxIds : IsPosted(s, t) => s.transactions[t].entries \in EntryPairs

(* Posted history is immutable (AC-006, AC-007.2; triggers of migration    *)
(* 0002): a posted transaction never disappears, never changes its         *)
(* contents, and moves only from POSTED to RECONCILED and to VOIDED.       *)
SameHistory(before, after) ==
    /\ [after EXCEPT !.state = before.state] = before
    /\ <<before.state, after.state>> \in
         {<<"POSTED", "RECONCILED">>, <<"POSTED", "VOIDED">>, <<"RECONCILED", "VOIDED">>}
         \cup {<<state, state>> : state \in PostedStates}

KeepsHistory(before, after) ==
    \A t \in TxIds : IsPosted(before, t) =>
        IsPosted(after, t) /\ SameHistory(before.transactions[t], after.transactions[t])

(* What a new operation may be posted on.                                  *)
InUse(s, target) ==
    IF target \in Categories THEN s.categories[target] = "active"
    ELSE target = Equity \/ s.accounts[target] = "active"
=============================================================================
