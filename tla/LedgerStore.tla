----------------------------- MODULE LedgerStore -----------------------------
(***************************************************************************)
(* The tables behind the ledger, as one record, and what each repository   *)
(* operation, constraint and trigger does to them                          *)
(* (backend/app/ledger/adapters/repositories.py, shared/idempotency.py,    *)
(* shared/models_ledger.py, alembic/versions/0001 and 0002).               *)
(*                                                                         *)
(* Everything here is a function of a store s: the module has no variables *)
(* and says nothing of who calls what when.  Module Ledger adds that.      *)
(*                                                                         *)
(* One financial space is modelled: every query of the code is filtered by *)
(* the caller's space_id and no operation names two spaces.                *)
(***************************************************************************)
EXTENDS PostingRecipes, FiniteSets

CONSTANTS
    AssetAccounts, LiabilityAccounts,     \* accounts a household may open
    Equity,                               \* the technical "Opening equity" account
    IncomeCategories, ExpenseCategories,
    TxIds,                                \* transaction ids uuid4 may draw
    Keys,                                 \* Idempotency-Key header values
    LongKeys,                             \* those of 121 to 200 characters
    Dates, Cents,
    Null

NoDate == 0

HouseholdAccounts == AssetAccounts \cup LiabilityAccounts
Accounts == HouseholdAccounts \cup {Equity}
Categories == IncomeCategories \cup ExpenseCategories

ASSUME IdentifiersDisjoint ==
    /\ AssetAccounts \cap LiabilityAccounts = {}
    /\ IncomeCategories \cap ExpenseCategories = {}
    /\ Accounts \cap Categories = {}
    /\ Equity \notin HouseholdAccounts
ASSUME NullIsNoIdentifier ==
    Null \notin Accounts \cup Categories \cup TxIds \cup Keys
ASSUME DatesAndCents == Dates \subseteq Nat \ {0} /\ Cents \subseteq Nat \ {0}
ASSUME LongKeysAreKeys == LongKeys \subseteq Keys

(* A uuid has 128 bits, a date four digits of a year, and a household      *)
(* opens its accounts one by one.                                          *)
ASSUME FiniteTables == IsFiniteSet(TxIds) /\ IsFiniteSet(HouseholdAccounts)
ASSUME FiniteCalendar == IsFiniteSet(Dates) /\ Dates # {}

-----------------------------------------------------------------------------
(* Rows.                                                                   *)

TransactionKinds == {"OPENING", "INCOME", "EXPENSE", "TRANSFER", "REVERSAL"}
PostedStates == {"POSTED", "RECONCILED", "VOIDED"}
CatalogStates == {"absent", "active", "archived"}

EntryRows == [side : {"DEBIT", "CREDIT"}, target : Accounts \cup Categories, cents : Cents]
EntryPairs == EntryRows \X EntryRows

(* DraftCommand, and the fields the create_* commands share with it.       *)
Selections ==
    [kind : TransactionKinds, economic : Dates, cents : Cents,
     account : HouseholdAccounts \cup {Null}, category : Categories \cup {Null},
     destination : HouseholdAccounts \cup {Null}, cash : Dates \cup {NoDate}]

CreateNames == {"create_opening", "create_income", "create_expense", "create_transfer"}
KeyedNames == CreateNames \cup {"post_draft", "reverse_transaction"}
DraftNames == {"create_draft", "update_draft", "discard_draft"}

(* A command as it reaches its service.  tx is the draft or the original   *)
(* it names; economic and cash are the dates of PostDraft and of           *)
(* ReverseCommand; selection is the payload of a draft or create_* command *)
(* and the optional replacement of a reversal.                             *)
AllCommands ==
    [name : KeyedNames \cup DraftNames, key : Keys \cup {Null}, tx : TxIds \cup {Null},
     economic : Dates \cup {NoDate}, cash : Dates \cup {NoDate},
     selection : Selections \cup {Null}]

CreatedKind(name) ==
    CASE name = "create_opening" -> "OPENING"
      [] name = "create_income" -> "INCOME"
      [] name = "create_expense" -> "EXPENSE"
      [] OTHER -> "TRANSFER"

(* The shapes the request schemas let through.                             *)
WellFormed(c) ==
    /\ (c.name \in KeyedNames) <=> (c.key # Null)
    /\ c.name \in {"post_draft", "reverse_transaction", "update_draft", "discard_draft"}
         <=> (c.tx # Null)
    /\ c.name \in CreateNames \cup {"create_draft", "update_draft"} => c.selection # Null
    /\ c.name \in CreateNames => c.selection.kind = CreatedKind(c.name)

TransactionRows ==
    [kind : TransactionKinds, state : {"DRAFT"} \cup PostedStates,
     economic : Dates, cash : Dates \cup {NoDate}, entries : EntryPairs \cup {<<>>}]

DetailRows ==
    [cents : Cents, account : HouseholdAccounts \cup {Null}, category : Categories \cup {Null},
     destination : HouseholdAccounts \cup {Null}, cash : Dates \cup {NoDate},
     replaces : TxIds \cup {Null}]

Results == [tx : TxIds, replacement : TxIds \cup {Null}]
IdempotencyRows == [command : AllCommands, result : Results \cup {Null}]
AuditEvents ==
    [action : KeyedNames, outcome : {"SUCCESS", "FAILURE"}, tx : TxIds \cup {Null}, key : Keys]

Stores ==
    [accounts : [Accounts -> CatalogStates],
     categories : [Categories -> CatalogStates],
     transactions : [TxIds -> TransactionRows \cup {Null}],
     drafts : [TxIds -> DetailRows \cup {Null}],
     reversals : SUBSET [original : TxIds, reversal : TxIds],
     records : [Keys -> IdempotencyRows \cup {Null}],
     audit : SUBSET AuditEvents,
     deleted : SUBSET TxIds]

ASSUME NullIsNoRow ==
    /\ Null \notin AllCommands /\ Null \notin Selections /\ Null \notin TransactionRows
    /\ Null \notin DetailRows /\ Null \notin IdempotencyRows /\ Null \notin Results

(* deleted is no table: it remembers the ids of discarded drafts, which    *)
(* uuid4 does not draw again.                                              *)
FreshIn(s) == {t \in TxIds : s.transactions[t] = Null /\ t \notin s.deleted}

IsDraft(s, t) == s.transactions[t] # Null /\ s.transactions[t].state = "DRAFT"
IsPosted(s, t) == s.transactions[t] # Null /\ s.transactions[t].state \in PostedStates

(* A space in which only the catalogue has been set up.                    *)
EmptyStore(open) ==
    [accounts |-> [a \in Accounts |-> IF a \in open THEN "active" ELSE "absent"],
     categories |-> [k \in Categories |-> IF k \in open THEN "active" ELSE "absent"],
     transactions |-> [t \in TxIds |-> Null],
     drafts |-> [t \in TxIds |-> Null],
     reversals |-> {},
     records |-> [k \in Keys |-> Null],
     audit |-> {},
     deleted |-> {}]

-----------------------------------------------------------------------------
(* Catalogue rows.  The technical equity account is listed to nobody, so   *)
(* no command of the household archives it.                                *)

SetAccount(s, a, state) == [s EXCEPT !.accounts[a] = state]
SetCategory(s, k, state) == [s EXCEPT !.categories[k] = state]

-----------------------------------------------------------------------------
(* The selections of a movement, validated against the store.              *)

(* Fault: the account exists, and that is all that is asked. *)
ExistingAccount(s, a) == a \in HouseholdAccounts /\ s.accounts[a] # "absent"

ActiveAccount(s, a) == a \in HouseholdAccounts /\ s.accounts[a] = "active"
ActiveCategory(s, k) == k \in Categories /\ s.categories[k] = "active"

ValidSelections(s, selection) ==
    /\ ActiveAccount(s, selection.account)
    /\ selection.kind \in {"INCOME", "EXPENSE"} => ActiveCategory(s, selection.category)
    /\ selection.kind = "TRANSFER" => ActiveAccount(s, selection.destination)

CategoriesOfKind(kind) == IF kind = "INCOME" THEN IncomeCategories ELSE ExpenseCategories

(* Only create_income and create_expense compare the kind of the category. *)
CategoryAccepted(c) ==
    c.name \in {"create_income", "create_expense"} =>
        c.selection.category \in CategoriesOfKind(c.selection.kind)

-----------------------------------------------------------------------------
(* Drafts.                                                                 *)

DraftRow(selection) ==
    [kind |-> selection.kind, state |-> "DRAFT", economic |-> selection.economic,
     cash |-> NoDate, entries |-> <<>>]

Details(selection, original) ==
    [cents |-> selection.cents, account |-> selection.account,
     category |-> selection.category, destination |-> selection.destination,
     cash |-> selection.cash, replaces |-> original]

AddDraft(s, t, selection, original) ==
    [s EXCEPT !.transactions[t] = DraftRow(selection),
              !.drafts[t] = Details(selection, original)]

(* An UPDATE carries only the columns that differ from the rows the        *)
(* session had read; the others keep what the table holds by then.         *)
Emitted(new, seen, current) == IF new # seen THEN new ELSE current

MergedRow(new, seen, current) ==
    [current EXCEPT !.kind = Emitted(new.kind, seen.kind, @),
                    !.economic = Emitted(new.economic, seen.economic, @)]

MergedDetails(new, seen, current) ==
    [cents |-> Emitted(new.cents, seen.cents, current.cents),
     account |-> Emitted(new.account, seen.account, current.account),
     category |-> Emitted(new.category, seen.category, current.category),
     destination |-> Emitted(new.destination, seen.destination, current.destination),
     cash |-> Emitted(new.cash, seen.cash, current.cash),
     replaces |-> Emitted(new.replaces, seen.replaces, current.replaces)]

RowChanged(selection, seenRow) ==
    selection.kind # seenRow.kind \/ selection.economic # seenRow.economic
DetailsChanged(selection, seenDetails) == Details(selection, Null) # seenDetails

(* The statements of an update reach their rows: an UPDATE of a vanished   *)
(* row is a StaleDataError, one of a posted row is stopped by the trigger  *)
(* guard_posted_transaction_snapshot_update, and posting has deleted the   *)
(* details row.                                                            *)
UpdateReaches(s, t, selection, seenRow, seenDetails) ==
    /\ RowChanged(selection, seenRow) => IsDraft(s, t)
    /\ DetailsChanged(selection, seenDetails) => s.drafts[t] # Null

UpdateDraft(s, t, selection, seenRow, seenDetails) ==
    [s EXCEPT
       !.transactions[t] = IF RowChanged(selection, seenRow)
                           THEN MergedRow(DraftRow(selection), seenRow, @) ELSE @,
       !.drafts[t] = IF DetailsChanged(selection, seenDetails)
                     THEN MergedDetails(Details(selection, Null), seenDetails, @) ELSE @]

(* Deleting a row that is gone already deletes nothing and is no error;    *)
(* deleting a posted one is stopped by guard_posted_transaction_delete.    *)
(* Fault: no delete trigger. *)
DeleteUnguarded(s, t) == TRUE

DeleteReaches(s, t) == ~IsPosted(s, t)

DiscardDraft(s, t) ==
    [s EXCEPT !.transactions[t] = Null, !.drafts[t] = Null, !.deleted = @ \cup {t}]

-----------------------------------------------------------------------------
(* Posting.                                                                *)

(* The DraftCommand that post_draft rebuilds from the stored draft.        *)
DraftSelection(s, c) ==
    LET row == s.transactions[c.tx]
        details == s.drafts[c.tx]
    IN  [kind |-> row.kind, economic |-> row.economic, cents |-> details.cents,
         account |-> details.account, category |-> details.category,
         destination |-> details.destination,
         cash |-> IF c.cash # NoDate THEN c.cash ELSE details.cash]

PostedSelection(s, c) ==
    IF c.name = "post_draft" THEN DraftSelection(s, c) ELSE c.selection

AccountKind(a) == IF a \in AssetAccounts THEN "ASSET" ELSE "LIABILITY"

RecipeEntries(selection) ==
    CASE selection.kind = "OPENING" ->
            OpeningEntries(selection.account, AccountKind(selection.account), Equity,
                           selection.cents)
      [] selection.kind = "INCOME" ->
            IncomeEntries(selection.account, selection.category, selection.cents)
      [] selection.kind = "EXPENSE" ->
            ExpenseEntries(selection.account, selection.category, selection.cents)
      [] OTHER ->
            TransferEntries(selection.account, selection.destination, selection.cents)

PostedCashDate(selection) ==
    IF selection.kind = "OPENING" THEN NoDate
    ELSE IF selection.cash = NoDate THEN selection.economic ELSE selection.cash

PostedRow(selection) ==
    [kind |-> selection.kind, state |-> "POSTED", economic |-> selection.economic,
     cash |-> PostedCashDate(selection), entries |-> RecipeEntries(selection)]

(* Everything between the reservation and the insertion that can refuse    *)
(* the command.  A draft of kind REVERSAL has no recipe.                   *)
AcceptsPosting(s, c) ==
    /\ c.name = "post_draft" => IsDraft(s, c.tx) /\ s.drafts[c.tx] # Null
    /\ LET selection == PostedSelection(s, c)
       IN  /\ selection.kind # "REVERSAL"
           /\ ValidSelections(s, selection)
           /\ CategoryAccepted(c)
           /\ selection.kind = "TRANSFER" => selection.account # selection.destination
           /\ Balanced(PostedRow(selection).entries)
           /\ CashDateFits(selection.kind, PostedRow(selection).cash, NoDate)

(* An opening creates the equity account the first time one is posted.     *)
EnsureEquity(s, selection) ==
    IF selection.kind = "OPENING" /\ s.accounts[Equity] = "absent"
    THEN SetAccount(s, Equity, "active") ELSE s

AddPosted(s, t, row) == [s EXCEPT !.transactions[t] = row]

(* Fault: the details row of a posted draft is left behind. *)
PostKeepingDetails(s, c, t) ==
    LET selection == PostedSelection(s, c)
    IN  AddPosted(EnsureEquity(s, selection), t, PostedRow(selection))

(* post_draft turns the draft's own row; the create_* commands insert t.   *)
Post(s, c, t) ==
    LET selection == PostedSelection(s, c)
        posted == AddPosted(EnsureEquity(s, selection), t, PostedRow(selection))
    IN  IF c.name = "post_draft" THEN [posted EXCEPT !.drafts[t] = Null] ELSE posted

-----------------------------------------------------------------------------
(* Reversal.                                                               *)

ReversalRow(original, c, today) ==
    [kind |-> "REVERSAL", state |-> "POSTED",
     economic |-> IF c.economic # NoDate THEN c.economic ELSE today,
     cash |-> IF original.cash = NoDate THEN NoDate
              ELSE IF c.cash # NoDate THEN c.cash ELSE today,
     entries |-> ReversalEntries(original.entries)]

AcceptsReversal(s, c) ==
    /\ IsPosted(s, c.tx)
    /\ s.transactions[c.tx].state \in {"POSTED", "RECONCILED"}
    /\ Balanced(ReversalEntries(s.transactions[c.tx].entries))

(* Fault: the original is not voided. *)
MarkVoidedForgotten(s, t) == s

MarkVoided(s, t) == [s EXCEPT !.transactions[t].state = "VOIDED"]

(* The constraints of the reversals table.                                 *)
LinkAllowed(s, original, reversal) ==
    /\ original # reversal
    /\ \A link \in s.reversals : link.original # original /\ link.reversal # reversal

AddReversalLink(s, original, reversal) ==
    [s EXCEPT !.reversals = @ \cup {[original |-> original, reversal |-> reversal]}]

Reverse(s, c, t, today, replacement) ==
    LET posted == AddPosted(s, t, ReversalRow(s.transactions[c.tx], c, today))
        voided == AddReversalLink(MarkVoided(posted, c.tx), c.tx, t)
    IN  IF c.selection = Null THEN voided
        ELSE AddDraft(voided, replacement, c.selection, c.tx)

(* What a completed reconciliation does to a transaction whose last        *)
(* reconcilable entry it covers.                                           *)
SetReconciled(s, t) == [s EXCEPT !.transactions[t].state = "RECONCILED"]

-----------------------------------------------------------------------------
(* Idempotency records and audit events.                                   *)

Reserved(s, c) == [s EXCEPT !.records[c.key] = [command |-> c, result |-> Null]]

(* Fault: the payload hash is not compared. *)
ReplaysAnyPayload(record, c) == record.command.name = c.name /\ record.result # Null

(* The stored command and payload hash are those of c, and a result is     *)
(* there.                                                                  *)
Replays(record, c) == record.command = c /\ record.result # Null

(* Fault: the result is never stored. *)
CompletedForgotten(s, c, result) == s

Completed(s, c, result) == [s EXCEPT !.records[c.key].result = result]

AuditEvent(c, outcome, t) == [action |-> c.name, outcome |-> outcome, tx |-> t, key |-> c.key]

(* AuditEventDraft refuses a correlation id of more than 120 characters.   *)
Auditable(c) == c.key \notin LongKeys

Audited(s, c, outcome, t) == [s EXCEPT !.audit = @ \cup {AuditEvent(c, outcome, t)}]

(* Fault: the success is not audited in the transaction of the command. *)
RecordedUnaudited(s, c, result) == Completed(s, c, result)

(* What is left of a success under the lock: store the result, audit it.   *)
Recorded(s, c, result) == Audited(Completed(s, c, result), c, "SUCCESS", result.tx)
=============================================================================
