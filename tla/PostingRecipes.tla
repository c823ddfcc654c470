--------------------------- MODULE PostingRecipes ---------------------------
(***************************************************************************)
(* Double entry: the closed recipes that turn a financial intention into   *)
(* ledger entries (backend/app/ledger/domain/posting_recipes.py) and the   *)
(* checks a posted transaction has to pass (domain/transaction.py,         *)
(* domain/entry.py).                                                       *)
(*                                                                         *)
(* An entry names the account or the category it moves by one identifier,  *)
(* because the two identifier sets are disjoint.  Entry ids are left out:  *)
(* an entry is known by its transaction and its place in it.  Every recipe *)
(* of the code yields exactly two entries.                                 *)
(***************************************************************************)
EXTENDS Integers

Entry(side, target, cents) == [side |-> side, target |-> target, cents |-> cents]
Debit(target, cents) == Entry("DEBIT", target, cents)
Credit(target, cents) == Entry("CREDIT", target, cents)

SignedCents(entry) ==
    IF entry.side = "DEBIT" THEN entry.cents ELSE -entry.cents

ReversedEntry(entry) ==
    [entry EXCEPT !.side = IF entry.side = "DEBIT" THEN "CREDIT" ELSE "DEBIT"]

-----------------------------------------------------------------------------
(* The recipes.                                                            *)

OpeningEntries(account, accountKind, equity, cents) ==
    IF accountKind = "ASSET"
    THEN <<Debit(account, cents), Credit(equity, cents)>>
    ELSE <<Debit(equity, cents), Credit(account, cents)>>

IncomeEntries(account, category, cents) ==
    <<Debit(account, cents), Credit(category, cents)>>

ExpenseEntries(account, category, cents) ==
    <<Debit(category, cents), Credit(account, cents)>>

(* Fault: source and destination swapped. *)
TransferEntriesSwapped(source, destination, cents) ==
    <<Debit(source, cents), Credit(destination, cents)>>

TransferEntries(source, destination, cents) ==
    <<Debit(destination, cents), Credit(source, cents)>>

ReversalEntries(entries) ==
    <<ReversedEntry(entries[1]), ReversedEntry(entries[2])>>

-----------------------------------------------------------------------------
(* What Transaction.posted demands.                                        *)

Balanced(entries) == SignedCents(entries[1]) + SignedCents(entries[2]) = 0

CashDateFits(kind, cashDate, noDate) ==
    /\ kind = "OPENING" => cashDate = noDate
    /\ kind \notin {"OPENING", "REVERSAL"} => cashDate # noDate

(* The signed movement a pair of entries makes on one account or category. *)
Movement(entries, target) ==
      (IF entries[1].target = target THEN SignedCents(entries[1]) ELSE 0)
    + (IF entries[2].target = target THEN SignedCents(entries[2]) ELSE 0)
=============================================================================
