------------------------------ MODULE MCLedger ------------------------------
(***************************************************************************)
(* Small households and command sets for the ledger runs.  One asset and   *)
(* one liability account, one income and one expense category, one or two  *)
(* dates and amounts are enough to tell the recipes, kinds and payloads    *)
(* apart; two request slots give every pairwise race.                      *)
(***************************************************************************)
EXTENDS LedgerInvariant, TLC

CONSTANTS checking, card, salary, food, k1, k2, t1

Selection(kind, account, category, destination, cents) ==
    [kind |-> kind, economic |-> 1, cents |-> cents, account |-> account,
     category |-> category, destination |-> destination, cash |-> NoDate]

Opening == Selection("OPENING", card, Null, Null, 1)
Income(cents) == Selection("INCOME", checking, salary, Null, cents)
Expense == Selection("EXPENSE", checking, food, Null, 1)
Transfer == Selection("TRANSFER", checking, Null, card, 1)

Command(name, key, tx, selection) ==
    [name |-> name, key |-> key, tx |-> tx, economic |-> NoDate, cash |-> NoDate,
     selection |-> selection]

Create(name, key, selection) == Command(name, key, Null, selection)
PostDraft(key, t) == Command("post_draft", key, t, Null)
ReverseOf(key, t) == Command("reverse_transaction", key, t, Null)

(* One key reused: for the same payload, for another payload and for       *)
(* another command, beside a second key, with archiving under way.         *)
RetryCommands ==
    {Create("create_income", k1, Income(1)), Create("create_income", k1, Income(2)),
     Create("create_transfer", k2, Transfer)}

(* Any posted transaction reversed under two further keys: twice, at once  *)
(* or one after the other, and the reversal itself reversed back.          *)
ReversalCommands ==
    {Create("create_opening", k1, Opening), Create("create_expense", k1, Expense)}
    \cup {ReverseOf(k, t) : k \in Keys \ {k1}, t \in TxIds}

(* A draft created, edited, discarded and posted under either key.         *)
DraftCommands ==
    {Command("create_draft", Null, Null, s) : s \in {Transfer, Selection("OPENING", checking, Null, Null, 1)}}
    \cup {Command("update_draft", Null, t, s) : t \in TxIds, s \in {Transfer, Income(2)}}
    \cup {Command("discard_draft", Null, t, Null) : t \in TxIds}
    \cup {PostDraft(k, t) : k \in Keys, t \in TxIds}

TxSymmetry == Permutations(TxIds)
RequestSymmetry == Permutations(Requests)
BothSymmetries == TxSymmetry \cup RequestSymmetry
ReversalSymmetry == BothSymmetries \cup Permutations(Keys \ {k1})

=============================================================================
