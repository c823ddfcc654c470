-------------------------- MODULE LedgerStoreProofs --------------------------
(***************************************************************************)
(* What each store operation preserves: the types of the tables, the books *)
(* and the history.  Module LedgerProofs builds on these lemmas.           *)
(***************************************************************************)
EXTENDS Books, TLAPS

-----------------------------------------------------------------------------
(* Recipes (posting_recipes.py).                                           *)

(* Entries of opposite sides and one amount balance.                       *)
LEMMA OppositesBalance ==
    ASSUME NEW a \in Accounts \cup Categories, NEW b \in Accounts \cup Categories,
           NEW n \in Cents
    PROVE  /\ Balanced(<<Debit(a, n), Credit(b, n)>>)
           /\ <<Debit(a, n), Credit(b, n)>> \in EntryPairs
<1>1. n \in Int
  BY DatesAndCents
<1>2. Balanced(<<Debit(a, n), Credit(b, n)>>)
  BY <1>1 DEF Balanced, SignedCents, Debit, Credit, Entry
<1>3. Debit(a, n) \in EntryRows /\ Credit(b, n) \in EntryRows
  BY DEF Debit, Credit, Entry, EntryRows
<1> QED
  BY <1>2, <1>3 DEF EntryPairs

(* Reversing a balanced pair of entries gives a balanced pair on the same  *)
(* accounts and categories.                                                *)
LEMMA ReversalBalances ==
    ASSUME NEW entries \in EntryPairs
    PROVE  /\ ReversalEntries(entries) \in EntryPairs
           /\ Balanced(entries) => Balanced(ReversalEntries(entries))
           /\ ReversalEntries(entries)[1].target = entries[1].target
           /\ ReversalEntries(entries)[2].target = entries[2].target
<1>1. /\ entries[1] \in EntryRows /\ entries[2] \in EntryRows
      /\ entries = <<entries[1], entries[2]>>
  BY DEF EntryPairs
<1>2. ASSUME NEW e \in EntryRows
      PROVE  /\ ReversedEntry(e) \in EntryRows
             /\ SignedCents(ReversedEntry(e)) = -SignedCents(e)
             /\ SignedCents(e) \in Int
             /\ ReversedEntry(e).target = e.target
  BY DatesAndCents DEF ReversedEntry, SignedCents, EntryRows
<1>3. /\ ReversalEntries(entries)[1] = ReversedEntry(entries[1])
      /\ ReversalEntries(entries)[2] = ReversedEntry(entries[2])
      /\ ReversalEntries(entries) = <<ReversedEntry(entries[1]), ReversedEntry(entries[2])>>
  BY DEF ReversalEntries
<1>4. ReversalEntries(entries) \in EntryPairs
  BY <1>1, <1>2, <1>3 DEF EntryPairs
<1>5. Balanced(entries) => Balanced(ReversalEntries(entries))
  BY <1>1, <1>2, <1>3 DEF Balanced
<1> QED
  BY <1>1, <1>2, <1>3, <1>4, <1>5

(* A movement whose selections were validated gets a balanced pair of      *)
(* entries on accounts and categories that exist.                          *)
LEMMA RecipeEntriesWhole ==
    ASSUME NEW s \in Stores, NEW selection \in Selections,
           ValidSelections(s, selection), selection.kind # "REVERSAL",
           selection.kind = "OPENING" => s.accounts[Equity] # "absent"
    PROVE  LET entries == RecipeEntries(selection)
           IN  /\ entries \in EntryPairs /\ Balanced(entries)
               /\ Exists(s, entries[1].target) /\ Exists(s, entries[2].target)
<1> DEFINE entries == RecipeEntries(selection)
<1>a. /\ selection.account \in HouseholdAccounts /\ s.accounts[selection.account] = "active"
      /\ selection.cents \in Cents
      /\ selection.kind \in {"OPENING", "INCOME", "EXPENSE", "TRANSFER"}
  BY DEF ValidSelections, ActiveAccount, Selections, TransactionKinds
<1>b. Equity \in Accounts /\ HouseholdAccounts \subseteq Accounts
  BY DEF Accounts
<1>1. CASE selection.kind = "OPENING"
  <2>1. Exists(s, Equity) /\ Exists(s, selection.account)
    BY <1>1, <1>a, <1>b DEF Exists
  <2>2. \/ entries = <<Debit(selection.account, selection.cents), Credit(Equity, selection.cents)>>
        \/ entries = <<Debit(Equity, selection.cents), Credit(selection.account, selection.cents)>>
    BY <1>1 DEF RecipeEntries, OpeningEntries
  <2> QED
    BY <2>1, <2>2, <1>a, <1>b, OppositesBalance DEF Debit, Credit, Entry
<1>2. CASE selection.kind \in {"INCOME", "EXPENSE"}
  <2>1. selection.category \in Categories /\ s.categories[selection.category] = "active"
    BY <1>2 DEF ValidSelections, ActiveCategory
  <2>2. Exists(s, selection.category) /\ Exists(s, selection.account)
    BY <2>1, <1>a, <1>b, IdentifiersDisjoint DEF Exists
  <2>3. \/ entries = <<Debit(selection.account, selection.cents),
                       Credit(selection.category, selection.cents)>>
        \/ entries = <<Debit(selection.category, selection.cents),
                       Credit(selection.account, selection.cents)>>
    BY <1>2 DEF RecipeEntries, IncomeEntries, ExpenseEntries
  <2> QED
    BY <2>1, <2>2, <2>3, <1>a, <1>b, OppositesBalance DEF Debit, Credit, Entry
<1>3. CASE selection.kind = "TRANSFER"
  <2>1. /\ selection.destination \in HouseholdAccounts
        /\ s.accounts[selection.destination] = "active"
    BY <1>3 DEF ValidSelections, ActiveAccount
  <2>2. Exists(s, selection.destination) /\ Exists(s, selection.account)
    BY <2>1, <1>a, <1>b DEF Exists
  <2>3. entries = <<Debit(selection.destination, selection.cents),
                    Credit(selection.account, selection.cents)>>
    BY <1>3 DEF RecipeEntries, TransferEntries
  <2> QED
    BY <2>1, <2>2, <2>3, <1>a, <1>b, OppositesBalance DEF Debit, Credit, Entry
<1> QED
  BY <1>1, <1>2, <1>3, <1>a

-----------------------------------------------------------------------------
(* Steps on the store that leave the books alone.                          *)

(* A posted row that is left alone, or only voided or reconciled, keeps    *)
(* its history.                                                            *)
LEMMA SameRowSameHistory ==
    ASSUME NEW row \in TransactionRows, row.state \in PostedStates
    PROVE  /\ SameHistory(row, row)
           /\ row.state # "VOIDED" => SameHistory(row, [row EXCEPT !.state = "VOIDED"])
           /\ row.state = "POSTED" => SameHistory(row, [row EXCEPT !.state = "RECONCILED"])
  BY DEF SameHistory, TransactionRows, PostedStates

(* Stores with the same transactions, drafts and catalogue are whole       *)
(* together.                                                               *)
LEMMA BooksUntouched ==
    ASSUME NEW s \in Stores, NEW s2 \in Stores, StoreWhole(s),
           s2.transactions = s.transactions, s2.drafts = s.drafts,
           \A a \in Accounts : s.accounts[a] # "absent" => s2.accounts[a] # "absent",
           \A k \in Categories : s.categories[k] # "absent" => s2.categories[k] # "absent"
    PROVE  /\ StoreWhole(s2) /\ KeepsHistory(s, s2)
           /\ \A t \in TxIds : IsPosted(s2, t) <=> IsPosted(s, t)
<1>1. \A t \in TxIds : /\ IsPosted(s2, t) <=> IsPosted(s, t)
                       /\ IsDraft(s2, t) <=> IsDraft(s, t)
  BY DEF IsPosted, IsDraft
<1>2. ASSUME NEW x \in Accounts \cup Categories, Exists(s, x)
      PROVE  Exists(s2, x)
  BY <1>2 DEF Exists
<1>3. ASSUME NEW t \in TxIds, IsPosted(s, t)
      PROVE  Balances(s2, t)
  <2>1. Balances(s, t) /\ s.transactions[t].entries \in EntryPairs
    BY <1>3 DEF StoreWhole, BooksOf
  <2>2. /\ s.transactions[t].entries[1].target \in Accounts \cup Categories
        /\ s.transactions[t].entries[2].target \in Accounts \cup Categories
    BY <2>1 DEF EntryPairs, EntryRows
  <2> QED
    BY <2>1, <2>2, <1>2 DEF Balances
<1>4. StoreWhole(s2)
  BY <1>1, <1>3 DEF StoreWhole, BooksOf
<1>5. KeepsHistory(s, s2)
  BY <1>1, SameRowSameHistory DEF KeepsHistory, IsPosted, Stores
<1> QED
  BY <1>1, <1>4, <1>5

(* Reserving a key changes nothing but the record of that key. *)
LEMMA ReservedWhole ==
    ASSUME NEW s \in Stores, StoreWhole(s), NEW c \in AllCommands, c.key \in Keys
    PROVE  LET s2 == Reserved(s, c)
           IN  /\ s2 \in Stores /\ StoreWhole(s2) /\ KeepsHistory(s, s2)
               /\ \A t \in TxIds : IsPosted(s2, t) <=> IsPosted(s, t)
               /\ s2.records = [s.records EXCEPT ![c.key] = [command |-> c, result |-> Null]]
<1>1. [command |-> c, result |-> Null] \in IdempotencyRows
  BY DEF IdempotencyRows
<1>2. Reserved(s, c) \in Stores
  BY <1>1 DEF Reserved, Stores
<1> QED
  BY <1>2, BooksUntouched DEF Reserved, Stores

(* Storing the result and the event of a command whose record is there.    *)
LEMMA RecordedWhole ==
    ASSUME NEW s \in Stores, StoreWhole(s), NEW c \in AllCommands, c.key \in Keys,
           c.name \in KeyedNames, s.records[c.key] # Null, NEW result \in Results
    PROVE  LET s2 == Recorded(s, c, result)
           IN  /\ s2 \in Stores /\ StoreWhole(s2) /\ KeepsHistory(s, s2)
               /\ \A t \in TxIds : IsPosted(s2, t) <=> IsPosted(s, t)
               /\ s2.transactions = s.transactions
               /\ s2.records = [s.records EXCEPT ![c.key] = [@ EXCEPT !.result = result]]
<1> DEFINE s2 == Recorded(s, c, result)
           row == [s.records[c.key] EXCEPT !.result = result]
           event == AuditEvent(c, "SUCCESS", result.tx)
<1>1. row \in IdempotencyRows
  BY DEF Stores, IdempotencyRows
<1>2. event \in AuditEvents
  BY DEF AuditEvent, AuditEvents, Results
<1>3. s2 = [s EXCEPT !.records = [s.records EXCEPT ![c.key] = row],
                     !.audit = s.audit \cup {event}]
  BY DEF Recorded, Audited, Completed, Stores
<1>4. s2 \in Stores
  <2> HIDE DEF row, event
  <2>1. [s.records EXCEPT ![c.key] = row] \in [Keys -> IdempotencyRows \cup {Null}]
    BY <1>1 DEF Stores
  <2>2. s.audit \cup {event} \in SUBSET AuditEvents
    BY <1>2 DEF Stores
  <2> QED
    BY <2>1, <2>2, <1>3 DEF Stores
<1>5. /\ s2.transactions = s.transactions /\ s2.drafts = s.drafts
      /\ s2.accounts = s.accounts /\ s2.categories = s.categories
      /\ s2.records = [s.records EXCEPT ![c.key] = row]
  <2> HIDE DEF row, event
  <2> QED  BY <1>3 DEF Stores
<1> HIDE DEF s2
<1>6. /\ StoreWhole(s2) /\ KeepsHistory(s, s2)
      /\ \A t \in TxIds : IsPosted(s2, t) <=> IsPosted(s, t)
  BY <1>4, <1>5, BooksUntouched
<1> QED
  BY <1>4, <1>5, <1>6 DEF s2

(* Auditing a failure leaves the books and the records alone. *)
LEMMA FailureAuditedWhole ==
    ASSUME NEW s \in Stores, StoreWhole(s), NEW c \in AllCommands, c.key \in Keys,
           c.name \in KeyedNames
    PROVE  LET s2 == Audited(s, c, "FAILURE", Null)
           IN  /\ s2 \in Stores /\ StoreWhole(s2) /\ KeepsHistory(s, s2)
               /\ \A t \in TxIds : IsPosted(s2, t) <=> IsPosted(s, t)
               /\ s2.transactions = s.transactions /\ s2.records = s.records
<1> DEFINE s2 == Audited(s, c, "FAILURE", Null)
<1>1. AuditEvent(c, "FAILURE", Null) \in AuditEvents
  BY DEF AuditEvent, AuditEvents
<1>2. /\ s2 \in Stores
      /\ s2.transactions = s.transactions /\ s2.drafts = s.drafts
      /\ s2.accounts = s.accounts /\ s2.categories = s.categories /\ s2.records = s.records
  BY <1>1 DEF Audited, Stores
<1> HIDE DEF s2
<1>3. /\ StoreWhole(s2) /\ KeepsHistory(s, s2)
      /\ \A t \in TxIds : IsPosted(s2, t) <=> IsPosted(s, t)
  BY <1>2, BooksUntouched
<1> QED
  BY <1>2, <1>3 DEF s2

(* Setting up, archiving and unarchiving never removes a catalogue row.    *)
LEMMA CatalogueWhole ==
    ASSUME NEW s \in Stores, StoreWhole(s), NEW state \in {"active", "archived"}, NEW s2,
           \/ \E a \in Accounts : s2 = SetAccount(s, a, state)
           \/ \E k \in Categories : s2 = SetCategory(s, k, state)
    PROVE  /\ s2 \in Stores /\ StoreWhole(s2) /\ KeepsHistory(s, s2)
           /\ \A t \in TxIds : IsPosted(s2, t) <=> IsPosted(s, t)
           /\ s2.transactions = s.transactions /\ s2.records = s.records
<1>1. /\ s2 \in Stores
      /\ s2.transactions = s.transactions /\ s2.drafts = s.drafts /\ s2.records = s.records
      /\ \A a \in Accounts : s.accounts[a] # "absent" => s2.accounts[a] # "absent"
      /\ \A k \in Categories : s.categories[k] # "absent" => s2.categories[k] # "absent"
  <2>1. CASE \E a \in Accounts : s2 = SetAccount(s, a, state)
    BY <2>1 DEF SetAccount, Stores, CatalogStates
  <2>2. CASE \E k \in Categories : s2 = SetCategory(s, k, state)
    BY <2>2 DEF SetCategory, Stores, CatalogStates
  <2> QED
    BY <2>1, <2>2
<1> QED
  BY <1>1, BooksUntouched

-----------------------------------------------------------------------------
(* Drafts.                                                                 *)

(* Stores s and s2 differ in one transaction t at most, which is posted in *)
(* neither and in s2 has details exactly if it is a draft without entries. *)
OnlyDraftDiffers(s, s2, t) ==
    /\ s2.accounts = s.accounts /\ s2.categories = s.categories
    /\ \A x \in TxIds \ {t} : /\ s2.transactions[x] = s.transactions[x]
                              /\ s2.drafts[x] = s.drafts[x]
    /\ ~IsPosted(s, t) /\ ~IsPosted(s2, t)
    /\ IsDraft(s2, t) <=> s2.drafts[t] # Null
    /\ IsDraft(s2, t) => s2.transactions[t].entries = <<>>

(* Such a change leaves the store whole and its history as it was.         *)
LEMMA DraftsWhole ==
    ASSUME NEW s \in Stores, NEW s2 \in Stores, StoreWhole(s),
           NEW t \in TxIds, OnlyDraftDiffers(s, s2, t)
    PROVE  /\ StoreWhole(s2) /\ KeepsHistory(s, s2)
           /\ \A x \in TxIds : IsPosted(s2, x) <=> IsPosted(s, x)
<1>1. \A x \in TxIds \ {t} : /\ s2.transactions[x] = s.transactions[x]
                             /\ s2.drafts[x] = s.drafts[x]
  BY DEF OnlyDraftDiffers
<1>2. s2.accounts = s.accounts /\ s2.categories = s.categories
  BY DEF OnlyDraftDiffers
<1>3. /\ ~IsPosted(s2, t) /\ ~IsPosted(s, t)
      /\ IsDraft(s2, t) <=> s2.drafts[t] # Null
      /\ IsDraft(s2, t) => s2.transactions[t].entries = <<>>
  BY DEF OnlyDraftDiffers
<1>4. \A x \in TxIds : IsPosted(s2, x) <=> IsPosted(s, x)
  BY <1>1, <1>3 DEF IsPosted
<1>5. BooksOf(s2)
  <2>1. ASSUME NEW x \in TxIds \ {t}
        PROVE  /\ IsDraft(s2, x) <=> IsDraft(s, x)
               /\ Balances(s2, x) <=> Balances(s, x)
    BY <1>1, <1>2 DEF IsDraft, Balances, Exists
  <2>2. ASSUME NEW x \in TxIds \ {t}
        PROVE  /\ IsDraft(s2, x) <=> s2.drafts[x] # Null
               /\ IsDraft(s2, x) => s2.transactions[x].entries = <<>>
               /\ IsPosted(s2, x) => Balances(s2, x)
    BY <2>1, <1>1, <1>4 DEF StoreWhole, BooksOf
  <2> QED
    BY <2>2, <1>3 DEF BooksOf
<1>6. StoreWhole(s2)
  BY <1>1, <1>3, <1>4, <1>5 DEF StoreWhole
<1>7. KeepsHistory(s, s2)
  BY <1>1, <1>2, <1>3, <1>4, SameRowSameHistory DEF KeepsHistory, IsPosted, Stores
<1> QED
  BY <1>4, <1>6, <1>7

(* A draft at a fresh id keeps the store whole and posts nothing. *)
LEMMA AddDraftWhole ==
    ASSUME NEW s \in Stores, StoreWhole(s), NEW t \in FreshIn(s),
           NEW selection \in Selections, NEW original \in TxIds \cup {Null}
    PROVE  LET s2 == AddDraft(s, t, selection, original)
           IN  /\ s2 \in Stores /\ StoreWhole(s2) /\ KeepsHistory(s, s2)
               /\ \A x \in TxIds : IsPosted(s2, x) <=> IsPosted(s, x)
               /\ s2.records = s.records
<1> DEFINE s2 == AddDraft(s, t, selection, original)
           row == DraftRow(selection)
           details == Details(selection, original)
<1>1. /\ row \in TransactionRows /\ row.state = "DRAFT" /\ row.entries = <<>>
      /\ details \in DetailRows
  BY DEF DraftRow, Details, TransactionRows, DetailRows, Selections, NoDate
<1>2. t \in TxIds /\ ~IsPosted(s, t)
  BY DEF FreshIn, IsPosted
<1>3. s2 = [s EXCEPT !.transactions = [s.transactions EXCEPT ![t] = row],
                     !.drafts = [s.drafts EXCEPT ![t] = details]]
  BY DEF AddDraft
<1> HIDE DEF row, details
<1>4. /\ [s.transactions EXCEPT ![t] = row] \in [TxIds -> TransactionRows \cup {Null}]
      /\ [s.drafts EXCEPT ![t] = details] \in [TxIds -> DetailRows \cup {Null}]
  BY <1>1, <1>2 DEF Stores
<1>5. s2 \in Stores
  BY <1>3, <1>4 DEF Stores
<1>6. /\ s2.transactions = [s.transactions EXCEPT ![t] = row]
      /\ s2.drafts = [s.drafts EXCEPT ![t] = details]
      /\ s2.accounts = s.accounts /\ s2.categories = s.categories /\ s2.records = s.records
  BY <1>3 DEF Stores
<1> HIDE DEF s2
<1>7. OnlyDraftDiffers(s, s2, t)
  <2>1. s2.transactions[t] = row /\ s2.drafts[t] = details
    BY <1>2, <1>6 DEF Stores
  <2>2. \A x \in TxIds \ {t} : /\ s2.transactions[x] = s.transactions[x]
                               /\ s2.drafts[x] = s.drafts[x]
    BY <1>6 DEF Stores
  <2>3. IsDraft(s2, t) /\ ~IsPosted(s2, t) /\ details # Null
    BY <1>1, <2>1, NullIsNoRow DEF IsDraft, IsPosted, PostedStates
  <2> QED
    BY <1>1, <1>2, <1>6, <2>1, <2>2, <2>3 DEF OnlyDraftDiffers
<1>8. /\ StoreWhole(s2) /\ KeepsHistory(s, s2)
      /\ \A x \in TxIds : IsPosted(s2, x) <=> IsPosted(s, x)
  BY <1>2, <1>5, <1>7, DraftsWhole
<1> QED
  BY <1>5, <1>6, <1>8 DEF s2

(* An update whose statements reach their rows leaves a draft a draft,     *)
(* whichever columns it carries; one that carries none changes nothing.    *)
LEMMA UpdateDraftWhole ==
    ASSUME NEW s \in Stores, StoreWhole(s), NEW t \in TxIds,
           NEW selection \in Selections,
           NEW seenRow \in TransactionRows, NEW seenDetails \in DetailRows,
           UpdateReaches(s, t, selection, seenRow, seenDetails),
           RowChanged(selection, seenRow) \/ DetailsChanged(selection, seenDetails)
    PROVE  LET s2 == UpdateDraft(s, t, selection, seenRow, seenDetails)
           IN  /\ s2 \in Stores /\ StoreWhole(s2) /\ KeepsHistory(s, s2)
               /\ \A x \in TxIds : IsPosted(s2, x) <=> IsPosted(s, x)
               /\ s2.records = s.records
<1> DEFINE s2 == UpdateDraft(s, t, selection, seenRow, seenDetails)
           row == IF RowChanged(selection, seenRow)
                  THEN MergedRow(DraftRow(selection), seenRow, s.transactions[t])
                  ELSE s.transactions[t]
           details == IF DetailsChanged(selection, seenDetails)
                      THEN MergedDetails(Details(selection, Null), seenDetails, s.drafts[t])
                      ELSE s.drafts[t]
<1>1. IsDraft(s, t) /\ s.drafts[t] # Null
  BY DEF UpdateReaches, StoreWhole, BooksOf
<1>2. /\ s.transactions[t] \in TransactionRows /\ s.transactions[t].state = "DRAFT"
      /\ s.transactions[t].entries = <<>> /\ s.drafts[t] \in DetailRows /\ ~IsPosted(s, t)
  BY <1>1 DEF Stores, IsDraft, IsPosted, StoreWhole, BooksOf, PostedStates
<1>3. row \in TransactionRows /\ row.state = "DRAFT" /\ row.entries = <<>>
  BY <1>2 DEF MergedRow, Emitted, DraftRow, TransactionRows, Selections
<1>4. details \in DetailRows
  <2>1. Details(selection, Null) \in DetailRows
    BY DEF Details, DetailRows, Selections
  <2>2. MergedDetails(Details(selection, Null), seenDetails, s.drafts[t]) \in DetailRows
    BY <2>1, <1>2 DEF MergedDetails, Emitted, DetailRows
  <2> QED
    BY <2>2, <1>2
<1>5. s2 = [s EXCEPT !.transactions = [s.transactions EXCEPT ![t] = row],
                     !.drafts = [s.drafts EXCEPT ![t] = details]]
  BY DEF UpdateDraft
<1> HIDE DEF row, details
<1>6. /\ [s.transactions EXCEPT ![t] = row] \in [TxIds -> TransactionRows \cup {Null}]
      /\ [s.drafts EXCEPT ![t] = details] \in [TxIds -> DetailRows \cup {Null}]
  BY <1>3, <1>4 DEF Stores
<1>7. s2 \in Stores
  BY <1>5, <1>6 DEF Stores
<1>8. /\ s2.transactions = [s.transactions EXCEPT ![t] = row]
      /\ s2.drafts = [s.drafts EXCEPT ![t] = details]
      /\ s2.accounts = s.accounts /\ s2.categories = s.categories /\ s2.records = s.records
  BY <1>5 DEF Stores
<1> HIDE DEF s2
<1>9. OnlyDraftDiffers(s, s2, t)
  <2>1. s2.transactions[t] = row /\ s2.drafts[t] = details
    BY <1>8 DEF Stores
  <2>2. \A x \in TxIds \ {t} : /\ s2.transactions[x] = s.transactions[x]
                               /\ s2.drafts[x] = s.drafts[x]
    BY <1>8 DEF Stores
  <2>3. IsDraft(s2, t) /\ ~IsPosted(s2, t) /\ details # Null
    BY <1>3, <1>4, <2>1, NullIsNoRow DEF IsDraft, IsPosted, PostedStates
  <2> QED
    BY <1>2, <1>3, <1>8, <2>1, <2>2, <2>3 DEF OnlyDraftDiffers
<1>10. /\ StoreWhole(s2) /\ KeepsHistory(s, s2)
       /\ \A x \in TxIds : IsPosted(s2, x) <=> IsPosted(s, x)
  BY <1>7, <1>9, DraftsWhole
<1> QED
  BY <1>7, <1>8, <1>10 DEF s2

(* Discarding a row that the delete trigger lets go of, whether it is      *)
(* still there or not, keeps the store whole and posts nothing.            *)
LEMMA DiscardDraftWhole ==
    ASSUME NEW s \in Stores, StoreWhole(s), NEW t \in TxIds, DeleteReaches(s, t)
    PROVE  LET s2 == DiscardDraft(s, t)
           IN  /\ s2 \in Stores /\ StoreWhole(s2) /\ KeepsHistory(s, s2)
               /\ \A x \in TxIds : IsPosted(s2, x) <=> IsPosted(s, x)
               /\ s2.records = s.records
<1> DEFINE s2 == DiscardDraft(s, t)
<1>1. /\ [s.transactions EXCEPT ![t] = Null] \in [TxIds -> TransactionRows \cup {Null}]
      /\ [s.drafts EXCEPT ![t] = Null] \in [TxIds -> DetailRows \cup {Null}]
      /\ s.deleted \cup {t} \in SUBSET TxIds
  BY DEF Stores
<1>2. s2 = [s EXCEPT !.transactions = [s.transactions EXCEPT ![t] = Null],
                     !.drafts = [s.drafts EXCEPT ![t] = Null],
                     !.deleted = s.deleted \cup {t}]
  BY DEF DiscardDraft
<1>3. s2 \in Stores
  BY <1>1, <1>2 DEF Stores
<1>4. /\ s2.transactions = [s.transactions EXCEPT ![t] = Null]
      /\ s2.drafts = [s.drafts EXCEPT ![t] = Null]
      /\ s2.accounts = s.accounts /\ s2.categories = s.categories /\ s2.records = s.records
  BY <1>2 DEF Stores
<1> HIDE DEF s2
<1>5. OnlyDraftDiffers(s, s2, t)
  <2>1. s2.transactions[t] = Null /\ s2.drafts[t] = Null
    BY <1>4 DEF Stores
  <2>2. \A x \in TxIds \ {t} : /\ s2.transactions[x] = s.transactions[x]
                               /\ s2.drafts[x] = s.drafts[x]
    BY <1>4 DEF Stores
  <2>3. ~IsDraft(s2, t) /\ ~IsPosted(s2, t)
    BY <2>1 DEF IsDraft, IsPosted
  <2> QED
    BY <1>4, <2>1, <2>2, <2>3 DEF OnlyDraftDiffers, DeleteReaches
<1>6. /\ StoreWhole(s2) /\ KeepsHistory(s, s2)
      /\ \A x \in TxIds : IsPosted(s2, x) <=> IsPosted(s, x)
  BY <1>3, <1>5, DraftsWhole
<1> QED
  BY <1>3, <1>4, <1>6 DEF s2

-----------------------------------------------------------------------------
(* Posting and reversal.                                                   *)

(* A store in which one transaction t, not posted before, is now posted    *)
(* with a balanced pair of entries on existing rows is still whole.        *)
LEMMA PostedAtWhole ==
    ASSUME NEW s \in Stores, NEW s2 \in Stores, StoreWhole(s),
           NEW t \in TxIds, ~IsPosted(s, t), NEW row \in TransactionRows,
           s2.transactions = [s.transactions EXCEPT ![t] = row],
           s2.drafts = [s.drafts EXCEPT ![t] = Null],
           \A a \in Accounts : s.accounts[a] # "absent" => s2.accounts[a] # "absent",
           s2.categories = s.categories,
           row.state = "POSTED", row.entries \in EntryPairs, Balances(s2, t)
    PROVE  /\ StoreWhole(s2) /\ KeepsHistory(s, s2)
           /\ \A x \in TxIds : IsPosted(s2, x) <=> IsPosted(s, x) \/ x = t
<1>1. \A x \in TxIds \ {t} : /\ s2.transactions[x] = s.transactions[x]
                             /\ s2.drafts[x] = s.drafts[x]
  BY DEF Stores
<1>2. s2.transactions[t] = row /\ s2.drafts[t] = Null
  BY DEF Stores
<1>3. IsPosted(s2, t) /\ ~IsDraft(s2, t)
  BY <1>2, NullIsNoRow DEF IsPosted, IsDraft, PostedStates
<1>4. \A x \in TxIds : IsPosted(s2, x) <=> IsPosted(s, x) \/ x = t
  BY <1>1, <1>3 DEF IsPosted
<1>5. ASSUME NEW x \in Accounts \cup Categories, Exists(s, x)
      PROVE  Exists(s2, x)
  BY <1>5 DEF Exists
<1>6. ASSUME NEW x \in TxIds \ {t}
      PROVE  /\ IsDraft(s2, x) <=> s2.drafts[x] # Null
             /\ IsDraft(s2, x) => s2.transactions[x].entries = <<>>
             /\ IsPosted(s2, x) => /\ s2.transactions[x].entries \in EntryPairs
                                  /\ Balances(s2, x)
  <2>1. /\ IsDraft(s2, x) <=> IsDraft(s, x)
        /\ IsPosted(s2, x) <=> IsPosted(s, x)
    BY <1>1 DEF IsDraft, IsPosted
  <2>2. ASSUME IsPosted(s, x)
        PROVE  /\ s2.transactions[x].entries \in EntryPairs
               /\ Balances(s2, x)
    <3>1. Balances(s, x) /\ s.transactions[x].entries \in EntryPairs
      BY <2>2 DEF StoreWhole, BooksOf
    <3>2. /\ s.transactions[x].entries[1].target \in Accounts \cup Categories
          /\ s.transactions[x].entries[2].target \in Accounts \cup Categories
      BY <3>1 DEF EntryPairs, EntryRows
    <3> QED
      BY <3>1, <3>2, <1>1, <1>5 DEF Balances
  <2> QED
    BY <2>1, <2>2, <1>1 DEF StoreWhole, BooksOf
<1>7. StoreWhole(s2)
  BY <1>2, <1>3, <1>6 DEF StoreWhole, BooksOf
<1>8. KeepsHistory(s, s2)
  BY <1>1, <1>4, SameRowSameHistory DEF KeepsHistory, IsPosted, Stores
<1> QED
  BY <1>4, <1>7, <1>8

(* Voiding or reconciling a posted transaction.                            *)
LEMMA AdvancedWhole ==
    ASSUME NEW s \in Stores, StoreWhole(s), NEW t \in TxIds, IsPosted(s, t),
           NEW state \in {"VOIDED", "RECONCILED"},
           s.transactions[t].state = "POSTED" \/
               (state = "VOIDED" /\ s.transactions[t].state = "RECONCILED"),
           NEW s2, s2 = [s EXCEPT !.transactions[t].state = state]
    PROVE  /\ s2 \in Stores /\ StoreWhole(s2) /\ KeepsHistory(s, s2)
           /\ \A x \in TxIds : IsPosted(s2, x) <=> IsPosted(s, x)
           /\ \A x \in TxIds \ {t} : s2.transactions[x] = s.transactions[x]
           /\ s2.records = s.records /\ s2.reversals = s.reversals
<1> DEFINE row == [s.transactions[t] EXCEPT !.state = state]
<1>1. s.transactions[t] \in TransactionRows
  BY DEF IsPosted, Stores
<1>2. /\ row \in TransactionRows /\ row.state = state
      /\ row.entries = s.transactions[t].entries /\ row.kind = s.transactions[t].kind
      /\ row.cash = s.transactions[t].cash
  BY <1>1 DEF TransactionRows, PostedStates
<1>3. SameHistory(s.transactions[t], row)
  BY <1>1, SameRowSameHistory DEF PostedStates
<1>4. s2 = [s EXCEPT !.transactions = [s.transactions EXCEPT ![t] = row]]
  OBVIOUS
<1> HIDE DEF row
<1>5. [s.transactions EXCEPT ![t] = row] \in [TxIds -> TransactionRows \cup {Null}]
  BY <1>2 DEF Stores
<1>6. /\ s2 \in Stores /\ s2.transactions = [s.transactions EXCEPT ![t] = row]
      /\ s2.drafts = s.drafts /\ s2.accounts = s.accounts /\ s2.categories = s.categories
      /\ s2.records = s.records /\ s2.reversals = s.reversals
  BY <1>4, <1>5 DEF Stores
<1>7. /\ \A x \in TxIds \ {t} : s2.transactions[x] = s.transactions[x]
      /\ s2.transactions[t] = row
  BY <1>6 DEF Stores
<1>8. \A x \in TxIds : /\ IsPosted(s2, x) <=> IsPosted(s, x)
                       /\ IsDraft(s2, x) <=> IsDraft(s, x)
  <2>1. row # Null /\ row.state \in PostedStates /\ row.state # "DRAFT"
    BY <1>2, NullIsNoRow DEF PostedStates
  <2>2. IsPosted(s2, t) /\ ~IsDraft(s2, t)
    BY <2>1, <1>7 DEF IsPosted, IsDraft
  <2>3. ~IsDraft(s, t)
    BY DEF IsPosted, IsDraft, PostedStates
  <2>4. \A x \in TxIds \ {t} : /\ IsPosted(s2, x) <=> IsPosted(s, x)
                              /\ IsDraft(s2, x) <=> IsDraft(s, x)
    BY <1>7 DEF IsPosted, IsDraft
  <2>5. \A x \in TxIds : x = t \/ x \in TxIds \ {t}
    OBVIOUS
  <2> QED
    BY <2>2, <2>3, <2>4, <2>5 DEF IsPosted, IsDraft
<1>9. \A x \in TxIds : IsPosted(s, x) =>
         /\ s2.transactions[x].entries \in EntryPairs /\ Balances(s2, x)
  <2>1. \A x : Exists(s2, x) <=> Exists(s, x)
    BY <1>6 DEF Exists
  <2>2. ASSUME NEW x \in TxIds, IsPosted(s, x)
        PROVE  /\ s2.transactions[x].entries \in EntryPairs /\ Balances(s2, x)
    <3>1. /\ s2.transactions[x].entries = s.transactions[x].entries
          /\ s2.transactions[x].kind = s.transactions[x].kind
          /\ s2.transactions[x].cash = s.transactions[x].cash
      BY <1>2, <1>7
    <3>2. Balances(s, x) /\ s.transactions[x].entries \in EntryPairs
      BY <2>2 DEF StoreWhole, BooksOf
    <3> QED
      BY <3>1, <3>2, <2>1 DEF Balances
  <2> QED
    BY <2>2
<1>10. StoreWhole(s2)
  <2>1. ASSUME NEW x \in TxIds, IsDraft(s, x)
        PROVE  s2.transactions[x].entries = <<>>
    BY <2>1, <1>2, <1>7 DEF StoreWhole, BooksOf
  <2> QED
    BY <2>1, <1>6, <1>8, <1>9 DEF StoreWhole, BooksOf
<1>11. KeepsHistory(s, s2)
  <2>1. ASSUME NEW x \in TxIds, IsPosted(s, x)
        PROVE  SameHistory(s.transactions[x], s2.transactions[x])
    <3>1. CASE x = t
      BY <3>1, <1>3, <1>7
    <3>2. CASE x # t
      <4>1. s2.transactions[x] = s.transactions[x]
        BY <3>2, <1>7
      <4> QED
        BY <2>1, <4>1, SameRowSameHistory DEF IsPosted, Stores
    <3> QED
      BY <3>1, <3>2
  <2> QED
    BY <2>1, <1>8 DEF KeepsHistory
<1> QED
  BY <1>6, <1>7, <1>8, <1>10, <1>11

(* The store in which only the catalogue is set up is whole. *)
LEMMA EmptyStoreWhole ==
    ASSUME NEW open \in SUBSET (HouseholdAccounts \cup Categories)
    PROVE  LET s == EmptyStore(open)
           IN  s \in Stores /\ StoreWhole(s)
<1> DEFINE s == EmptyStore(open)
<1>1. s \in Stores
  BY DEF EmptyStore, Stores, CatalogStates
<1>2. \A t \in TxIds : ~IsPosted(s, t) /\ ~IsDraft(s, t) /\ s.drafts[t] = Null
  BY DEF EmptyStore, IsPosted, IsDraft
<1> HIDE DEF s
<1>4. StoreWhole(s)
  BY <1>2 DEF StoreWhole, BooksOf
<1> QED
  BY <1>1, <1>4 DEF s

(* The selections and the row of a posting that was accepted are rows of   *)
(* the tables.                                                             *)
LEMMA PostedRowWhole ==
    ASSUME NEW s \in Stores, StoreWhole(s), NEW c \in AllCommands, c.name \in KeyedNames,
           c.name # "reverse_transaction", WellFormed(c), AcceptsPosting(s, c)
    PROVE  LET selection == PostedSelection(s, c)
           IN  /\ selection \in Selections /\ selection.kind # "REVERSAL"
               /\ ValidSelections(s, selection)
               /\ Balanced(PostedRow(selection).entries)
               /\ CashDateFits(selection.kind, PostedRow(selection).cash, NoDate)
               /\ PostedCashDate(selection) \in Dates \cup {NoDate}
<1> DEFINE selection == PostedSelection(s, c)
<1>1. selection \in Selections
  <2>1. CASE c.name = "post_draft"
    <3>1. c.tx \in TxIds /\ c.cash \in Dates \cup {NoDate}
      BY <2>1, NullIsNoIdentifier DEF WellFormed, AllCommands
    <3>2. s.transactions[c.tx] \in TransactionRows /\ s.drafts[c.tx] \in DetailRows
      BY <2>1, <3>1 DEF AcceptsPosting, IsDraft, Stores
    <3>3. DraftSelection(s, c) \in Selections
      BY <3>1, <3>2 DEF DraftSelection, Selections, TransactionRows, DetailRows
    <3> QED
      BY <2>1, <3>3 DEF PostedSelection
  <2>2. CASE c.name # "post_draft"
    <3>1. c.name \in CreateNames
      BY <2>2 DEF KeyedNames
    <3>2. c.selection \in Selections
      BY <3>1 DEF WellFormed, AllCommands
    <3> QED
      BY <2>2, <3>2 DEF PostedSelection
  <2> QED
    BY <2>1, <2>2
<1>2. /\ selection.kind # "REVERSAL" /\ ValidSelections(s, selection)
      /\ Balanced(PostedRow(selection).entries)
      /\ CashDateFits(selection.kind, PostedRow(selection).cash, NoDate)
  BY DEF AcceptsPosting
<1> HIDE DEF selection
<1>3. PostedCashDate(selection) \in Dates \cup {NoDate}
  BY <1>1 DEF PostedCashDate, Selections
<1> QED
  BY <1>1, <1>2, <1>3 DEF selection

(* Posting makes exactly one transaction posted, keeps the books and the   *)
(* history, and leaves the records alone.                                  *)
LEMMA PostWhole ==
    ASSUME NEW s \in Stores, StoreWhole(s), NEW c \in AllCommands, c.name \in KeyedNames,
           c.name # "reverse_transaction", WellFormed(c), AcceptsPosting(s, c),
           NEW t \in IF c.name = "post_draft" THEN {c.tx} ELSE FreshIn(s)
    PROVE  LET s2 == Post(s, c, t)
           IN  /\ s2 \in Stores /\ StoreWhole(s2) /\ KeepsHistory(s, s2)
               /\ t \in TxIds /\ ~IsPosted(s, t)
               /\ \A x \in TxIds : IsPosted(s2, x) <=> IsPosted(s, x) \/ x = t
               /\ s2.records = s.records
<1> DEFINE s2 == Post(s, c, t)
           selection == PostedSelection(s, c)
           row == PostedRow(selection)
           s1 == EnsureEquity(s, selection)
<1>1. /\ selection \in Selections /\ selection.kind # "REVERSAL"
      /\ ValidSelections(s, selection)
      /\ CashDateFits(selection.kind, row.cash, NoDate)
      /\ PostedCashDate(selection) \in Dates \cup {NoDate}
  BY PostedRowWhole
<1>2. t \in TxIds /\ ~IsPosted(s, t)
  <2>1. CASE c.name = "post_draft"
    <3>1. t \in TxIds
      BY <2>1, NullIsNoIdentifier DEF WellFormed, AllCommands
    <3>2. IsDraft(s, t)
      BY <2>1 DEF AcceptsPosting
    <3> QED
      BY <3>1, <3>2 DEF IsDraft, IsPosted, PostedStates
  <2>2. CASE c.name # "post_draft"
    BY <2>2 DEF FreshIn, IsPosted
  <2> QED
    BY <2>1, <2>2
<1>3. c.name # "post_draft" => s.drafts[t] = Null
  <2>1. c.name # "post_draft" => ~IsDraft(s, t)
    BY DEF FreshIn, IsDraft
  <2> QED
    BY <2>1, <1>2 DEF StoreWhole, BooksOf
<1>4. /\ s1 \in Stores
      /\ s1.transactions = s.transactions /\ s1.drafts = s.drafts
      /\ s1.categories = s.categories /\ s1.records = s.records
      /\ \A a \in Accounts : s.accounts[a] # "absent" => s1.accounts[a] # "absent"
      /\ selection.kind = "OPENING" => s1.accounts[Equity] # "absent"
      /\ \A a \in HouseholdAccounts : s1.accounts[a] = s.accounts[a]
  <2>1. Equity \in Accounts /\ Equity \notin HouseholdAccounts
    BY IdentifiersDisjoint DEF Accounts
  <2> HIDE DEF selection
  <2>2. CASE selection.kind = "OPENING" /\ s.accounts[Equity] = "absent"
    <3>1. s1 = [s EXCEPT !.accounts = [s.accounts EXCEPT ![Equity] = "active"]]
      BY <2>2 DEF EnsureEquity, SetAccount
    <3>2. [s.accounts EXCEPT ![Equity] = "active"] \in [Accounts -> CatalogStates]
      BY <2>1 DEF Stores, CatalogStates
    <3> HIDE DEF s1
    <3>3. /\ s1 \in Stores
          /\ s1.transactions = s.transactions /\ s1.drafts = s.drafts
          /\ s1.categories = s.categories /\ s1.records = s.records
          /\ s1.accounts = [s.accounts EXCEPT ![Equity] = "active"]
      BY <3>1, <3>2 DEF Stores
    <3>4. /\ s1.accounts[Equity] = "active"
          /\ \A a \in Accounts \ {Equity} : s1.accounts[a] = s.accounts[a]
      BY <3>3, <2>1 DEF Stores
    <3> QED
      BY <3>3, <3>4, <2>1 DEF Accounts
  <2>3. CASE ~(selection.kind = "OPENING" /\ s.accounts[Equity] = "absent")
    BY <2>3 DEF EnsureEquity
  <2> QED
    BY <2>2, <2>3
<1>5. ValidSelections(s1, selection)
  BY <1>1, <1>4 DEF ValidSelections, ActiveAccount, ActiveCategory
<1>6. /\ RecipeEntries(selection) \in EntryPairs /\ Balanced(RecipeEntries(selection))
      /\ Exists(s1, RecipeEntries(selection)[1].target)
      /\ Exists(s1, RecipeEntries(selection)[2].target)
  <2> HIDE DEF selection, s1
  <2> QED
    BY <1>1, <1>4, <1>5, RecipeEntriesWhole
<1>7. /\ row \in TransactionRows /\ row.state = "POSTED" /\ row.kind = selection.kind
      /\ row.entries = RecipeEntries(selection)
  <2> HIDE DEF selection
  <2>1. selection.kind \in TransactionKinds /\ selection.economic \in Dates
    BY <1>1 DEF Selections
  <2> QED
    BY <2>1, <1>1, <1>6 DEF PostedRow, TransactionRows, PostedStates
<1>8. /\ s2 \in Stores
      /\ s2.transactions = [s.transactions EXCEPT ![t] = row]
      /\ s2.drafts = [s.drafts EXCEPT ![t] = Null]
      /\ s2.accounts = s1.accounts /\ s2.categories = s.categories /\ s2.records = s.records
  <2>1. /\ [s.transactions EXCEPT ![t] = row] \in [TxIds -> TransactionRows \cup {Null}]
        /\ [s.drafts EXCEPT ![t] = Null] \in [TxIds -> DetailRows \cup {Null}]
    BY <1>7 DEF Stores
  <2>2. s2 = IF c.name = "post_draft"
             THEN [s1 EXCEPT !.transactions = [s1.transactions EXCEPT ![t] = row],
                             !.drafts = [s1.drafts EXCEPT ![t] = Null]]
             ELSE [s1 EXCEPT !.transactions = [s1.transactions EXCEPT ![t] = row]]
    BY DEF Post, AddPosted
  <2>3. c.name # "post_draft" => [s.drafts EXCEPT ![t] = Null] = s.drafts
    BY <1>2, <1>3 DEF Stores
  <2> HIDE DEF s2, s1, row, selection
  <2>4. CASE c.name = "post_draft"
    BY <2>4, <2>1, <2>2, <1>4 DEF Stores
  <2>5. CASE c.name # "post_draft"
    BY <2>5, <2>1, <2>2, <2>3, <1>4 DEF Stores
  <2> QED
    BY <2>4, <2>5
<1>9. Balances(s2, t)
  <2> HIDE DEF s2, s1, row, selection
  <2>1. s2.transactions[t] = row
    BY <1>8, <1>2 DEF Stores
  <2>2. \A x : Exists(s1, x) => Exists(s2, x)
    BY <1>4, <1>8 DEF Exists
  <2> QED
    BY <2>1, <2>2, <1>1, <1>6, <1>7 DEF Balances
<1> HIDE DEF s2, s1, row, selection
<1>10. \A a \in Accounts : s.accounts[a] # "absent" => s2.accounts[a] # "absent"
  BY <1>4, <1>8
<1>11. row.entries \in EntryPairs
  BY <1>6, <1>7
<1>12. /\ StoreWhole(s2) /\ KeepsHistory(s, s2)
       /\ \A x \in TxIds : IsPosted(s2, x) <=> IsPosted(s, x) \/ x = t
  BY <1>2, <1>7, <1>8, <1>9, <1>10, <1>11, PostedAtWhole
<1> QED
  BY <1>2, <1>8, <1>12 DEF s2

(* History is kept from store to store. *)
LEMMA HistoryTransitive ==
    ASSUME NEW s1 \in Stores, NEW s2 \in Stores, NEW s3 \in Stores,
           KeepsHistory(s1, s2), KeepsHistory(s2, s3)
    PROVE  KeepsHistory(s1, s3)
<1>1. ASSUME NEW t \in TxIds, IsPosted(s1, t)
      PROVE  IsPosted(s3, t) /\ SameHistory(s1.transactions[t], s3.transactions[t])
  <2>1. /\ IsPosted(s2, t) /\ SameHistory(s1.transactions[t], s2.transactions[t])
        /\ IsPosted(s3, t) /\ SameHistory(s2.transactions[t], s3.transactions[t])
    BY <1>1 DEF KeepsHistory
  <2>2. /\ s1.transactions[t] \in TransactionRows /\ s2.transactions[t] \in TransactionRows
        /\ s3.transactions[t] \in TransactionRows
    BY <1>1, <2>1 DEF IsPosted, Stores
  <2>3. ASSUME NEW x \in TransactionRows, NEW y \in TransactionRows, NEW z \in TransactionRows,
               SameHistory(x, y), SameHistory(y, z)
        PROVE  SameHistory(x, z)
    <3>1. /\ y.kind = x.kind /\ y.economic = x.economic /\ y.cash = x.cash
          /\ y.entries = x.entries
          /\ z.kind = y.kind /\ z.economic = y.economic /\ z.cash = y.cash
          /\ z.entries = y.entries
      BY <2>3 DEF SameHistory, TransactionRows
    <3>2. [z EXCEPT !.state = x.state] = x
      BY <3>1 DEF TransactionRows
    <3>3. <<x.state, z.state>> \in
             {<<"POSTED", "RECONCILED">>, <<"POSTED", "VOIDED">>, <<"RECONCILED", "VOIDED">>}
             \cup {<<state, state>> : state \in PostedStates}
      BY <2>3 DEF SameHistory, PostedStates
    <3> QED
      BY <3>2, <3>3 DEF SameHistory
  <2> QED
    BY <2>1, <2>2, <2>3
<1> QED
  BY <1>1 DEF KeepsHistory

(* The reversal row of a posted, balanced transaction, put at a fresh id.  *)
LEMMA AddReversalWhole ==
    ASSUME NEW s \in Stores, StoreWhole(s), NEW c \in AllCommands, c.tx \in TxIds,
           AcceptsReversal(s, c), NEW t \in FreshIn(s), NEW today \in Dates, NEW s2,
           s2 = AddPosted(s, t, ReversalRow(s.transactions[c.tx], c, today))
    PROVE  /\ s2 \in Stores /\ StoreWhole(s2) /\ KeepsHistory(s, s2)
           /\ t \in TxIds /\ ~IsPosted(s, t) /\ t # c.tx
           /\ \A x \in TxIds : IsPosted(s2, x) <=> IsPosted(s, x) \/ x = t
           /\ s2.transactions[c.tx] = s.transactions[c.tx]
           /\ \A x \in TxIds \ {t} : s2.transactions[x] = s.transactions[x]
           /\ s2.records = s.records /\ s2.deleted = s.deleted
<1> DEFINE original == s.transactions[c.tx]
           row == ReversalRow(original, c, today)
<1>1. /\ t \in TxIds /\ ~IsPosted(s, t) /\ ~IsDraft(s, t) /\ t # c.tx
  BY DEF FreshIn, IsPosted, IsDraft, AcceptsReversal
<1>2. s.drafts[t] = Null
  BY <1>1 DEF StoreWhole, BooksOf
<1>3. /\ original \in TransactionRows /\ original.entries \in EntryPairs
      /\ Exists(s, original.entries[1].target) /\ Exists(s, original.entries[2].target)
  BY DEF AcceptsReversal, IsPosted, Stores, StoreWhole, BooksOf, Balances
<1>4. /\ row.entries \in EntryPairs /\ Balanced(row.entries)
      /\ row.entries[1].target = original.entries[1].target
      /\ row.entries[2].target = original.entries[2].target
  BY <1>3, ReversalBalances DEF ReversalRow, AcceptsReversal
<1>5. row \in TransactionRows /\ row.state = "POSTED" /\ row.kind = "REVERSAL"
  <2>1. row.entries = ReversalEntries(original.entries)
    BY DEF ReversalRow
  <2> QED
    BY <1>3, <1>4, <2>1
    DEF ReversalRow, TransactionRows, TransactionKinds, PostedStates, AllCommands
<1> HIDE DEF row, original
<1>6. [s.transactions EXCEPT ![t] = row] \in [TxIds -> TransactionRows \cup {Null}]
  BY <1>5 DEF Stores
<1>7. s2 = [s EXCEPT !.transactions = [s.transactions EXCEPT ![t] = row]]
  BY DEF AddPosted, row, original
<1>8. /\ s2 \in Stores /\ s2.transactions = [s.transactions EXCEPT ![t] = row]
      /\ s2.drafts = s.drafts /\ s2.accounts = s.accounts /\ s2.categories = s.categories
      /\ s2.records = s.records /\ s2.deleted = s.deleted
  BY <1>6, <1>7 DEF Stores
<1>9. s2.drafts = [s.drafts EXCEPT ![t] = Null]
  BY <1>1, <1>2, <1>8 DEF Stores
<1>10. Balances(s2, t)
  <2>1. s2.transactions[t] = row
    BY <1>1, <1>8 DEF Stores
  <2>2. \A x : Exists(s2, x) <=> Exists(s, x)
    BY <1>8 DEF Exists
  <2> QED
    BY <2>1, <2>2, <1>3, <1>4, <1>5 DEF Balances, CashDateFits
<1>11. \A x \in TxIds \ {t} : s2.transactions[x] = s.transactions[x]
  BY <1>8 DEF Stores
<1>12. \A a \in Accounts : s.accounts[a] # "absent" => s2.accounts[a] # "absent"
  BY <1>8
<1>13. /\ StoreWhole(s2) /\ KeepsHistory(s, s2)
       /\ \A x \in TxIds : IsPosted(s2, x) <=> IsPosted(s, x) \/ x = t
  BY <1>1, <1>4, <1>5, <1>8, <1>9, <1>10, <1>12, PostedAtWhole
<1> QED
  BY <1>1, <1>8, <1>11, <1>13

(* Reversing makes exactly the reversal posted, keeps the books and the    *)
(* history, and leaves the records alone.                                  *)
LEMMA ReverseWhole ==
    ASSUME NEW s \in Stores, StoreWhole(s), NEW c \in AllCommands, c.tx \in TxIds,
           AcceptsReversal(s, c), NEW t \in FreshIn(s), NEW today \in Dates,
           NEW replacement \in IF c.selection = Null THEN {Null} ELSE FreshIn(s) \ {t}
    PROVE  LET s2 == Reverse(s, c, t, today, replacement)
           IN  /\ s2 \in Stores /\ StoreWhole(s2) /\ KeepsHistory(s, s2)
               /\ t \in TxIds /\ ~IsPosted(s, t)
               /\ \A x \in TxIds : IsPosted(s2, x) <=> IsPosted(s, x) \/ x = t
               /\ s2.records = s.records
<1> DEFINE posted == AddPosted(s, t, ReversalRow(s.transactions[c.tx], c, today))
           voided == MarkVoided(posted, c.tx)
           linked == AddReversalLink(voided, c.tx, t)
           s2 == Reverse(s, c, t, today, replacement)
<1>1. /\ posted \in Stores /\ StoreWhole(posted) /\ KeepsHistory(s, posted)
      /\ t \in TxIds /\ ~IsPosted(s, t) /\ t # c.tx
      /\ \A x \in TxIds : IsPosted(posted, x) <=> IsPosted(s, x) \/ x = t
      /\ posted.transactions[c.tx] = s.transactions[c.tx]
      /\ \A x \in TxIds \ {t} : posted.transactions[x] = s.transactions[x]
      /\ posted.records = s.records /\ posted.deleted = s.deleted
  BY AddReversalWhole
<1>2. s2 = IF c.selection = Null THEN linked
           ELSE AddDraft(linked, replacement, c.selection, c.tx)
  BY DEF Reverse
<1>3. voided = [posted EXCEPT !.transactions[c.tx].state = "VOIDED"]
  BY DEF MarkVoided
<1> HIDE DEF posted
<1>4. /\ voided.deleted = posted.deleted
  BY <1>1, <1>3 DEF Stores
<1>5. linked = [voided EXCEPT !.reversals =
                   voided.reversals \cup {[original |-> c.tx, reversal |-> t]}]
  BY DEF AddReversalLink
<1> HIDE DEF voided, linked, s2
<1>6. /\ voided \in Stores /\ StoreWhole(voided) /\ KeepsHistory(posted, voided)
      /\ \A x \in TxIds : IsPosted(voided, x) <=> IsPosted(posted, x)
      /\ \A x \in TxIds \ {c.tx} : voided.transactions[x] = posted.transactions[x]
      /\ voided.records = posted.records /\ voided.reversals = posted.reversals
  <2>1. IsPosted(posted, c.tx) /\ posted.transactions[c.tx].state \in {"POSTED", "RECONCILED"}
    BY <1>1 DEF AcceptsReversal, IsPosted
  <2> QED
    BY <2>1, <1>1, <1>3, AdvancedWhole
<1>7. /\ linked \in Stores
      /\ linked.transactions = voided.transactions /\ linked.drafts = voided.drafts
      /\ linked.accounts = voided.accounts /\ linked.categories = voided.categories
      /\ linked.records = voided.records /\ linked.deleted = voided.deleted
  <2>1. voided.reversals \cup {[original |-> c.tx, reversal |-> t]}
          \in SUBSET [original : TxIds, reversal : TxIds]
    BY <1>1, <1>6 DEF Stores
  <2> QED
    BY <2>1, <1>5, <1>6 DEF Stores
<1>8. /\ StoreWhole(linked) /\ KeepsHistory(voided, linked)
      /\ \A x \in TxIds : IsPosted(linked, x) <=> IsPosted(voided, x)
  BY <1>6, <1>7, BooksUntouched
<1>9. KeepsHistory(s, linked)
  <2>1. KeepsHistory(s, voided)
    BY <1>1, <1>6, HistoryTransitive
  <2> QED
    BY <2>1, <1>6, <1>7, <1>8, HistoryTransitive
<1>10. \A x \in TxIds : IsPosted(linked, x) <=> IsPosted(s, x) \/ x = t
  BY <1>1, <1>6, <1>8 DEF IsPosted
<1>11. linked.records = s.records
  BY <1>1, <1>6, <1>7
<1>12. CASE c.selection = Null
  BY <1>12, <1>1, <1>2, <1>7, <1>8, <1>9, <1>10, <1>11 DEF s2
<1>13. CASE c.selection # Null
  <2>1. replacement \in FreshIn(s) /\ replacement # t /\ c.selection \in Selections
    BY <1>13 DEF AllCommands
  <2>2. replacement \in FreshIn(linked)
    <3>1. replacement \in TxIds /\ replacement # c.tx
      BY <2>1 DEF FreshIn, AcceptsReversal, IsPosted
    <3>2. linked.transactions[replacement] = s.transactions[replacement]
      BY <2>1, <3>1, <1>1, <1>6, <1>7
    <3>3. linked.deleted = s.deleted
      BY <1>1, <1>4, <1>7
    <3> QED
      BY <2>1, <3>1, <3>2, <3>3 DEF FreshIn
  <2>3. s2 = AddDraft(linked, replacement, c.selection, c.tx)
    BY <1>13, <1>2
  <2>4. /\ s2 \in Stores /\ StoreWhole(s2) /\ KeepsHistory(linked, s2)
        /\ \A x \in TxIds : IsPosted(s2, x) <=> IsPosted(linked, x)
        /\ s2.records = linked.records
    BY <2>1, <2>2, <2>3, <1>7, <1>8, AddDraftWhole
  <2>5. KeepsHistory(s, s2)
    BY <2>4, <1>7, <1>9, HistoryTransitive
  <2>6. \A x \in TxIds : IsPosted(s2, x) <=> IsPosted(s, x) \/ x = t
    BY <2>4, <1>10 DEF IsPosted
  <2> QED
    BY <2>4, <2>5, <2>6, <1>1, <1>11 DEF s2
<1> QED
  BY <1>12, <1>13
=============================================================================
