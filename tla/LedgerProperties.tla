-------------------------- MODULE LedgerProperties --------------------------
(***************************************************************************)
(* What the ledger promises, stated over the committed store db, the       *)
(* requests and the answers clients got.                                   *)
(***************************************************************************)
EXTENDS Ledger, Books

Phases ==
    {"idle", "reading", "writing", "performing", "committing", "answering",
     "auditing", "failed"}

RequestStates ==
    [pc : Phases, command : Commands \cup {Null},
     seen : [row : TransactionRows, details : DetailRows] \cup {Null},
     result : Results \cup {Null}]

(* The variables keep to the tables and request states of the code.        *)
TypeOK ==
    /\ db \in Stores /\ work \in Stores
    /\ holder \in Requests \cup {Null}
    /\ requests \in [Requests -> RequestStates]
    /\ answers \subseteq [command : Commands, result : Results]

-----------------------------------------------------------------------------
(* Idempotency (AC-005.4, AC-005.5, AC-006.5).  Every committed key has    *)
(* its result, the posted transaction it made; no two keys made the same   *)
(* one; and nothing is in the books that no key made.  Races of two        *)
(* requests with one key, retries, crashes between any two steps and draft *)
(* and direct postings are what could break it.                            *)
OnePostingPerKey ==
    /\ \A k \in Keys : db.records[k] # Null =>
         /\ db.records[k].result # Null
         /\ IsPosted(db, db.records[k].result.tx)
    /\ \A t \in TxIds : IsPosted(db, t) =>
         \E k \in Keys :
            /\ db.records[k] # Null /\ db.records[k].result.tx = t
            /\ \A other \in Keys \ {k} :
                 db.records[other] # Null => db.records[other].result.tx # t

(* All successes a client ever got for a key agree on command and result,  *)
(* however often it retried, and what it was told is committed (AC-006.5:  *)
(* "incluso tras reiniciar").                                              *)
AnswersHold ==
    \A a \in answers :
        /\ db.records[a.command.key] = [command |-> a.command, result |-> a.result]
        /\ IsPosted(db, a.result.tx)

(* A financial effect and its SUCCESS event are one commit: the events     *)
(* name exactly the committed keys, with the transaction each produced.    *)
EvidenceAgrees ==
    {e \in db.audit : e.outcome = "SUCCESS"} =
    {AuditEvent(db.records[k].command, "SUCCESS", db.records[k].result.tx) :
        k \in {key \in Keys : db.records[key] # Null}}

-----------------------------------------------------------------------------
(* Reversal (AC-007.3, AC-007.4).  A transaction is VOIDED exactly when one *)
(* posted reversal is linked to it, the pair moves nothing on any account  *)
(* or category, and a reversal has a cash date exactly when its original   *)
(* has.  Two requests reversing one transaction under different keys, or a *)
(* reversal of a reversal, could break it.                                 *)
ReversedExactlyOnce ==
    /\ \A t \in TxIds : IsPosted(db, t) =>
         LET made == {link \in db.reversals : link.original = t}
             undone == {link \in db.reversals : link.reversal = t}
         IN  /\ db.transactions[t].state = "VOIDED" <=> Cardinality(made) = 1
             /\ db.transactions[t].kind = "REVERSAL" <=> Cardinality(undone) = 1
    /\ \A link \in db.reversals :
         LET original == db.transactions[link.original]
             reversal == db.transactions[link.reversal]
         IN  /\ IsPosted(db, link.original) /\ IsPosted(db, link.reversal)
             /\ original.cash = NoDate <=> reversal.cash = NoDate
             /\ \A target \in Accounts \cup Categories :
                  Movement(original.entries, target) + Movement(reversal.entries, target) = 0

(* Double entry at every commit, whatever update, discard and post race on *)
(* a draft.                                                                *)
BooksBalance == BooksOf(db)

-----------------------------------------------------------------------------
(* Posted history is immutable, even when an update or a discard of the    *)
(* draft was already under way when it was posted.                         *)
HistoryImmutable == [][KeepsHistory(db, db')]_db

(* AC-002.6: no new operation is posted on an account or category that is  *)
(* archived at the moment of the commit, though the checks ran earlier in  *)
(* the handler and archiving runs beside it.  Only a reversal may.         *)
NoNewUseOfArchived ==
    [][\A t \in TxIds : ~IsPosted(db, t) /\ IsPosted(db', t) =>
         LET row == db'.transactions[t]
         IN  row.kind # "REVERSAL" => \A i \in 1..2 : InUse(db, row.entries[i].target)]_db

(* AC-003, AC-004, AC-005: posting a draft moves the amount the draft had  *)
(* when it was posted, in the direction its kind promises, whatever was    *)
(* updated beside the posting.                                             *)
MovesAsDrafted(row, details, posted) ==
    LET moved(target) == Movement(posted.entries, target)
        n == details.cents
        inflow == CASE row.kind = "INCOME" -> n
                    [] row.kind \in {"EXPENSE", "TRANSFER"} -> -n
                    [] row.kind = "OPENING" -> IF details.account \in AssetAccounts THEN n ELSE -n
        other == CASE row.kind \in {"INCOME", "EXPENSE"} -> details.category
                   [] row.kind = "TRANSFER" -> details.destination
                   [] row.kind = "OPENING" -> Equity
    IN  /\ posted.kind = row.kind /\ posted.economic = row.economic
        /\ moved(details.account) = inflow
        /\ moved(other) = -inflow

PostedAsDrafted ==
    [][\A t \in TxIds : IsDraft(db, t) /\ IsPosted(db', t) =>
         MovesAsDrafted(db.transactions[t], db.drafts[t], db'.transactions[t])]_db

-----------------------------------------------------------------------------
(* Every request ends, though others take the write lock again and again.  *)
RequestsFinish == \A r \in Requests : ~At(r, "idle") ~> At(r, "idle")

(* The ledger implements the abstract at-most-once service.                *)
Abstract ==
    INSTANCE AtMostOnce WITH done <- db.records, answered <- answers

AtMostOnceSpec == Abstract!Spec
=============================================================================
