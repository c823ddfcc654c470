--------------------------- MODULE LedgerInvariant ---------------------------
(***************************************************************************)
(* The inductive invariant behind the ledger's safety properties: what     *)
(* holds of the store the lock holder is building, of each request at its  *)
(* place in the handler, and of the committed records.                     *)
(***************************************************************************)
EXTENDS LedgerProperties

UnderLock == {"performing", "committing"}

(* Each record has the result of its own command, a posted transaction     *)
(* that no other record has, and each posted transaction has a record.     *)
KeysWhole(s) ==
    /\ \A k \in Keys : s.records[k] # Null =>
         /\ s.records[k].command \in Commands /\ s.records[k].command.key = k
         /\ s.records[k].result # Null
         /\ IsPosted(s, s.records[k].result.tx)
    /\ \A k, other \in Keys :
         /\ s.records[k] # Null /\ s.records[other] # Null
         /\ s.records[k].result.tx = s.records[other].result.tx
         => k = other
    /\ \A t \in TxIds : IsPosted(s, t) =>
         \E k \in Keys : s.records[k] # Null /\ s.records[k].result.tx = t

(* A request that has performed its command holds in w what will be        *)
(* committed: for a keyed one its record and one newly posted transaction. *)
Prepared(q, d, w) ==
    /\ KeepsHistory(d, w)
    /\ IF q.command.name \in KeyedNames
       THEN /\ d.records[q.command.key] = Null /\ ~IsPosted(d, q.result.tx)
            /\ w.records = [d.records EXCEPT ![q.command.key] =
                               [command |-> q.command, result |-> q.result]]
            /\ \A t \in TxIds : IsPosted(w, t) <=> IsPosted(d, t) \/ t = q.result.tx
       ELSE /\ w.records = d.records
            /\ \A t \in TxIds : IsPosted(w, t) <=> IsPosted(d, t)

(* What is true of request q at its place, with d committed and w the lock *)
(* holder's.                                                               *)
InStep(q, d, w) ==
    /\ q.pc # "idle" => q.command \in Commands
    /\ q.pc = "writing" /\ q.command.name = "update_draft" =>
         q.seen \in [row : TransactionRows, details : DetailRows]
    /\ q.pc \in {"committing", "answering"} => q.result # Null
    /\ q.pc \in {"performing", "auditing"} => q.command.name \in KeyedNames
    /\ q.pc = "performing" => d.records[q.command.key] = Null /\ w = Reserved(d, q.command)
    /\ q.pc = "committing" => Prepared(q, d, w)
    /\ q.pc = "answering" /\ q.command.name \in KeyedNames =>
         d.records[q.command.key] = [command |-> q.command, result |-> q.result]

LockDiscipline ==
    /\ holder = Null => work = db
    /\ \A r \in Requests : requests[r].pc \in UnderLock <=> holder = r

AnswersRecorded ==
    \A a \in answers :
        /\ a.command.name \in KeyedNames
        /\ db.records[a.command.key] = [command |-> a.command, result |-> a.result]

(* The inductive invariant: it says what a commit will do while the commit *)
(* is still ahead, so that no crash, refusal or other request's step       *)
(* between the reservation and the answer can make a second effect.        *)
LedgerInv ==
    /\ TypeOK /\ LockDiscipline
    /\ StoreWhole(db) /\ StoreWhole(work) /\ KeysWhole(db)
    /\ \A r \in Requests : InStep(requests[r], db, work)
    /\ AnswersRecorded
=============================================================================
