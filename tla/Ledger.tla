------------------------------- MODULE Ledger -------------------------------
(***************************************************************************)
(* The command side of the ledger under concurrent requests:               *)
(* FinancialCommandService and ReversalService                             *)
(* (backend/app/ledger/application/handlers.py, reversal.py), each request *)
(* in a unit of work of its own (shared/unit_of_work.py) over one SQLite   *)
(* database (shared/database.py).                                          *)
(*                                                                         *)
(* SQLite gives a unit of work no snapshot before its first write: each    *)
(* SELECT up to there reads what is committed at that moment.  The first   *)
(* write takes the database's only write lock and keeps it until commit    *)
(* or rollback, or fails after busy_timeout.  So db is what is committed,  *)
(* holder the request that has the write lock, and work what that request  *)
(* has made of db and nobody else sees; work = db while the lock is free.  *)
(***************************************************************************)
EXTENDS LedgerStore

CONSTANTS
    Requests,     \* request slots: how many requests the server has in flight
    Commands,     \* the commands clients send
    OpenAtStart,  \* the accounts and categories set up before
    Changing,     \* those set up, archived and unarchived meanwhile
    IdsPerCommand \* bound: ids one command may draw

ASSUME CommandsTyped == \A c \in Commands : c \in AllCommands /\ WellFormed(c)
ASSUME NullIsNoRequest == Null \notin Requests
ASSUME CatalogueTyped ==
    /\ OpenAtStart \subseteq HouseholdAccounts \cup Categories
    /\ Changing \subseteq HouseholdAccounts \cup Categories

VARIABLES
    db, work, holder,
    requests,     \* where each request is in its handler
    answers       \* the successes clients got for keyed commands

vars == <<db, work, holder, requests, answers>>

Idle == [pc |-> "idle", command |-> Null, seen |-> Null, result |-> Null]

(* Goto(r, pc) moves request r on; the other two also keep what it read or *)
(* what it will answer.                                                    *)
Goto(r, pc) == requests' = [requests EXCEPT ![r].pc = pc]
GotoSeeing(r, pc, seen) == requests' = [requests EXCEPT ![r].pc = pc, ![r].seen = seen]
GotoWith(r, pc, result) == requests' = [requests EXCEPT ![r].pc = pc, ![r].result = result]

At(r, pc) == requests[r].pc = pc
Keyed(r) == requests[r].command.name \in KeyedNames
Drafting(r, name) == requests[r].command.name = name

DatabaseUntouched == UNCHANGED <<db, work, holder>>
Locked(r, s) == holder' = r /\ work' = s /\ UNCHANGED db
Released(s) == holder' = Null /\ work' = s /\ db' = s

DrawsId(c) == c.name \notin {"post_draft", "update_draft", "discard_draft"}

(* Bound: a command is sent only while TxIds has an id for it; uuid4 never *)
(* runs out.                                                               *)
RoomFor(c) ==
    LET drawing == {r \in Requests : ~At(r, "idle") /\ DrawsId(requests[r].command)}
    IN  DrawsId(c) => IdsPerCommand * (Cardinality(drawing) + 1) <= Cardinality(FreshIn(db))

Init ==
    /\ db = EmptyStore(OpenAtStart) /\ work = db /\ holder = Null
    /\ requests = [r \in Requests |-> Idle]
    /\ answers = {}

Submit(r, c) ==
    /\ At(r, "idle") /\ RoomFor(c)
    /\ requests' = [requests EXCEPT ![r] = [Idle EXCEPT !.pc = "reading", !.command = c]]
    /\ DatabaseUntouched /\ UNCHANGED answers

-----------------------------------------------------------------------------
(* Keyed commands.  IdempotencyStore.reserve first looks the key up ...    *)
LookUp(r) ==
    LET c == requests[r].command
        record == db.records[c.key]
    IN  /\ At(r, "reading") /\ Keyed(r)
        /\ \/ record = Null /\ Goto(r, "writing")
           \/ record # Null /\ Replays(record, c) /\ GotoWith(r, "answering", record.result)
           \/ record # Null /\ ~Replays(record, c) /\ Goto(r, "auditing")
        /\ DatabaseUntouched /\ UNCHANGED answers

(* Fault: no unique constraint. *)
KeyUnchecked(s, c) == TRUE

(* The unique constraint on the key: true when the INSERT goes through.    *)
KeyIsFree(s, c) == s.records[c.key] = Null

(* ... and then inserts it, which takes the write lock.  The unique        *)
(* constraint refuses a key that another request has committed since.      *)
Reserve(r) ==
    LET c == requests[r].command
    IN  /\ At(r, "writing") /\ Keyed(r) /\ holder = Null
        /\ \/ KeyIsFree(db, c) /\ Locked(r, Reserved(db, c)) /\ Goto(r, "performing")
           \/ ~KeyIsFree(db, c) /\ Goto(r, "auditing") /\ DatabaseUntouched
        /\ UNCHANGED answers

PostTo(r, c, t) ==
    LET result == [tx |-> t, replacement |-> Null]
    IN  /\ AcceptsPosting(work, c) /\ Auditable(c)
        /\ Locked(r, Recorded(Post(work, c, t), c, result))
        /\ GotoWith(r, "committing", result)

PerformPosting(r) ==
    LET c == requests[r].command
    IN  /\ At(r, "performing") /\ c.name # "reverse_transaction"
        /\ \E t \in IF c.name = "post_draft" THEN {c.tx} ELSE FreshIn(work) : PostTo(r, c, t)
        /\ UNCHANGED answers

ReverseTo(r, c, t, today, replacement) ==
    LET result == [tx |-> t, replacement |-> replacement]
    IN  /\ AcceptsReversal(work, c) /\ LinkAllowed(work, c.tx, t) /\ Auditable(c)
        /\ Locked(r, Recorded(Reverse(work, c, t, today, replacement), c, result))
        /\ GotoWith(r, "committing", result)

PerformReversal(r) ==
    LET c == requests[r].command
    IN  /\ At(r, "performing") /\ c.name = "reverse_transaction"
        /\ \E t \in FreshIn(work), today \in Dates :
             \E replacement \in IF c.selection = Null THEN {Null} ELSE FreshIn(work) \ {t} :
                ReverseTo(r, c, t, today, replacement)
        /\ UNCHANGED answers

Refused(s, c) ==
    \/ ~Auditable(c)
    \/ IF c.name = "reverse_transaction"
       THEN ~AcceptsReversal(s, c) \/ \A t \in FreshIn(s) : ~LinkAllowed(s, c.tx, t)
       ELSE ~AcceptsPosting(s, c)

(* Fault: no rollback on the way out. *)
RefuseKeepingLock(r) ==
    /\ At(r, "performing") /\ Refused(work, requests[r].command)
    /\ Goto(r, "auditing") /\ UNCHANGED <<db, work, holder, answers>>

(* An exception under the lock: the unit of work rolls back.               *)
Refuse(r) ==
    /\ At(r, "performing") /\ Refused(work, requests[r].command)
    /\ Released(db) /\ Goto(r, "auditing") /\ UNCHANGED answers

(* The failure is audited in a unit of work of its own, if the write lock  *)
(* can be had and the audit takes the correlation id.                      *)
RecordFailure(r) ==
    LET c == requests[r].command
    IN  /\ At(r, "auditing") /\ holder = Null /\ Auditable(c)
        /\ Released(Audited(db, c, "FAILURE", Null))
        /\ Goto(r, "failed") /\ UNCHANGED answers

FailureUnrecorded(r) ==
    /\ At(r, "auditing") /\ (holder # Null \/ ~Auditable(requests[r].command))
    /\ Goto(r, "failed") /\ DatabaseUntouched /\ UNCHANGED answers

-----------------------------------------------------------------------------
(* Draft commands carry no key and leave no audit event.  Their checks and *)
(* the rows they will update are read before the write lock.               *)
ReadCreateDraft(r) ==
    /\ At(r, "reading") /\ Drafting(r, "create_draft")
    /\ Goto(r, IF ValidSelections(db, requests[r].command.selection) THEN "writing" ELSE "failed")
    /\ DatabaseUntouched /\ UNCHANGED answers

ReadUpdateDraft(r) ==
    LET c == requests[r].command
    IN  /\ At(r, "reading") /\ Drafting(r, "update_draft")
        /\ IF IsDraft(db, c.tx) /\ ValidSelections(db, c.selection)
           THEN GotoSeeing(r, "writing",
                    [row |-> db.transactions[c.tx], details |-> db.drafts[c.tx]])
           ELSE Goto(r, "failed")
        /\ DatabaseUntouched /\ UNCHANGED answers

ReadDiscardDraft(r) ==
    /\ At(r, "reading") /\ Drafting(r, "discard_draft")
    /\ Goto(r, IF IsDraft(db, requests[r].command.tx) THEN "writing" ELSE "failed")
    /\ DatabaseUntouched /\ UNCHANGED answers

WriteCreateDraft(r) ==
    /\ At(r, "writing") /\ Drafting(r, "create_draft") /\ holder = Null
    /\ \E t \in FreshIn(db) :
         /\ Locked(r, AddDraft(db, t, requests[r].command.selection, Null))
         /\ GotoWith(r, "committing", [tx |-> t, replacement |-> Null])
    /\ UNCHANGED answers

(* An update that changes no column sends no statement and takes no lock.  *)
WriteUpdateDraft(r) ==
    LET c == requests[r].command
        seen == requests[r].seen
        changes == \/ RowChanged(c.selection, seen.row)
                   \/ DetailsChanged(c.selection, seen.details)
        result == [tx |-> c.tx, replacement |-> Null]
    IN  /\ At(r, "writing") /\ Drafting(r, "update_draft")
        /\ \/ /\ ~changes /\ DatabaseUntouched /\ GotoWith(r, "answering", result)
           \/ /\ changes /\ holder = Null
              /\ UpdateReaches(db, c.tx, c.selection, seen.row, seen.details)
              /\ Locked(r, UpdateDraft(db, c.tx, c.selection, seen.row, seen.details))
              /\ GotoWith(r, "committing", result)
           \/ /\ changes /\ holder = Null
              /\ ~UpdateReaches(db, c.tx, c.selection, seen.row, seen.details)
              /\ Goto(r, "failed") /\ DatabaseUntouched
        /\ UNCHANGED answers

WriteDiscardDraft(r) ==
    LET t == requests[r].command.tx
    IN  /\ At(r, "writing") /\ Drafting(r, "discard_draft") /\ holder = Null
        /\ \/ /\ DeleteReaches(db, t) /\ Locked(r, DiscardDraft(db, t))
              /\ GotoWith(r, "committing", [tx |-> t, replacement |-> Null])
           \/ /\ ~DeleteReaches(db, t) /\ Goto(r, "failed") /\ DatabaseUntouched
        /\ UNCHANGED answers

-----------------------------------------------------------------------------
Commit(r) ==
    /\ At(r, "committing") /\ Released(work) /\ Goto(r, "answering") /\ UNCHANGED answers

(* Fault: no busy_timeout, the wait for the lock has no end. *)
WaitForEver(r) == At(r, "writing") /\ holder # Null /\ UNCHANGED vars

(* busy_timeout runs out before the first write got the lock.              *)
LockTimeout(r) ==
    /\ At(r, "writing") /\ holder # Null
    /\ Goto(r, IF Keyed(r) THEN "auditing" ELSE "failed")
    /\ DatabaseUntouched /\ UNCHANGED answers

Answer(r) ==
    /\ At(r, "answering")
    /\ answers' = IF Keyed(r)
                  THEN answers \cup
                       {[command |-> requests[r].command, result |-> requests[r].result]}
                  ELSE answers
    /\ requests' = [requests EXCEPT ![r] = Idle] /\ DatabaseUntouched

(* The error answer, or an answer of either kind lost on its way.          *)
Leave(r) ==
    /\ requests[r].pc \in {"answering", "failed"}
    /\ requests' = [requests EXCEPT ![r] = Idle] /\ DatabaseUntouched /\ UNCHANGED answers

(* The process dies: what is not committed is gone, the clients know       *)
(* nothing.                                                                *)
Crash ==
    /\ \E r \in Requests : ~At(r, "idle")
    /\ requests' = [r \in Requests |-> Idle]
    /\ Released(db) /\ UNCHANGED answers

-----------------------------------------------------------------------------
(* Short writers beside the commands, each one transaction: CatalogService *)
(* and the reconciliation that covers a transaction's last open entry.     *)
SetUp(x) ==
    /\ holder = Null
    /\ \/ /\ x \in HouseholdAccounts /\ db.accounts[x] = "absent"
          /\ Released(SetAccount(db, x, "active"))
       \/ /\ x \in Categories /\ db.categories[x] = "absent"
          /\ Released(SetCategory(db, x, "active"))
    /\ UNCHANGED <<requests, answers>>

SetArchived(x, state) ==
    /\ holder = Null
    /\ \/ /\ x \in HouseholdAccounts /\ db.accounts[x] # "absent"
          /\ Released(SetAccount(db, x, state))
       \/ /\ x \in Categories /\ db.categories[x] # "absent"
          /\ Released(SetCategory(db, x, state))
    /\ UNCHANGED <<requests, answers>>

Reconcile(t) ==
    /\ holder = Null /\ IsPosted(db, t) /\ db.transactions[t].state = "POSTED"
    /\ Released(SetReconciled(db, t)) /\ UNCHANGED <<requests, answers>>

Beside ==
    \/ \E x \in Changing : SetUp(x) \/ \E state \in {"active", "archived"} : SetArchived(x, state)
    \/ \E t \in TxIds : Reconcile(t)

Step(r) ==
    \/ LookUp(r) \/ Reserve(r) \/ PerformPosting(r) \/ PerformReversal(r) \/ Refuse(r)
    \/ RecordFailure(r) \/ FailureUnrecorded(r)
    \/ ReadCreateDraft(r) \/ ReadUpdateDraft(r) \/ ReadDiscardDraft(r)
    \/ WriteCreateDraft(r) \/ WriteUpdateDraft(r) \/ WriteDiscardDraft(r)
    \/ Commit(r) \/ LockTimeout(r) \/ Answer(r) \/ Leave(r)

Next ==
    \/ \E r \in Requests : Step(r) \/ \E c \in Commands : Submit(r, c)
    \/ Beside
    \/ Crash

Spec == Init /\ [][Next]_vars

(* A handler runs to its end unless the process dies: the server threads   *)
(* are scheduled, and a lock is waited for at most busy_timeout.           *)
FairSpec == Spec /\ \A r \in Requests : WF_vars(Step(r))
=============================================================================
