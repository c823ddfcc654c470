----------------------------- MODULE LedgerProofs -----------------------------
(***************************************************************************)
(* LedgerInv is an invariant of the ledger for every set of accounts,      *)
(* keys, requests and commands; what follows from it: the keys, the        *)
(* answers, the books, the history and the at-most-once refinement.        *)
(***************************************************************************)
EXTENDS LedgerInvariant, LedgerStoreProofs

-----------------------------------------------------------------------------
(* Requests.                                                               *)

(* The commands of the clients have the shape their schemas give them.     *)
LEMMA CommandShape ==
    ASSUME NEW c \in Commands
    PROVE  /\ c \in AllCommands /\ WellFormed(c)
           /\ c.name \in KeyedNames => c.key \in Keys
           /\ c.name \in {"post_draft", "reverse_transaction", "update_draft", "discard_draft"}
                => c.tx \in TxIds
           /\ c.name \in {"create_draft", "update_draft"} => c.selection \in Selections
<1>1. c \in AllCommands /\ WellFormed(c)
  BY CommandsTyped
<1>2. c.name \in KeyedNames => c.key \in Keys
  BY <1>1 DEF WellFormed, AllCommands
<1>3. c.name \in {"post_draft", "reverse_transaction", "update_draft", "discard_draft"}
         => c.tx \in TxIds
  BY <1>1 DEF WellFormed, AllCommands
<1>4. c.name \in {"create_draft", "update_draft"} => c.selection \in Selections
  BY <1>1 DEF WellFormed, AllCommands
<1> QED
  BY <1>1, <1>2, <1>3, <1>4

(* The step takes request r to state q and leaves the others where they    *)
(* are.                                                                    *)
MovesTo(r, q) ==
    /\ requests' \in [Requests -> RequestStates]
    /\ requests'[r] = q
    /\ \A x \in Requests \ {r} : requests'[x] = requests[x]

(* Goto moves one request, by its place alone. *)
LEMMA GotoMoves ==
    ASSUME requests \in [Requests -> RequestStates], NEW r \in Requests, NEW pc \in Phases
    PROVE  /\ [requests[r] EXCEPT !.pc = pc] \in RequestStates
           /\ Goto(r, pc) => MovesTo(r, [requests[r] EXCEPT !.pc = pc])
<1>1. [requests[r] EXCEPT !.pc = pc] \in RequestStates
  BY DEF RequestStates
<1>2. Goto(r, pc) => requests' = [requests EXCEPT ![r] = [requests[r] EXCEPT !.pc = pc]]
  BY DEF Goto
<1> QED
  BY <1>1, <1>2 DEF MovesTo

(* GotoWith moves one request, which keeps the result it was given. *)
LEMMA GotoWithMoves ==
    ASSUME requests \in [Requests -> RequestStates], NEW r \in Requests, NEW pc \in Phases,
           NEW result \in Results
    PROVE  /\ [requests[r] EXCEPT !.pc = pc, !.result = result] \in RequestStates
           /\ GotoWith(r, pc, result) =>
                MovesTo(r, [requests[r] EXCEPT !.pc = pc, !.result = result])
<1> DEFINE q == [requests[r] EXCEPT !.pc = pc, !.result = result]
<1>1. q \in RequestStates
  BY DEF RequestStates
<1>2. GotoWith(r, pc, result) => requests' = [requests EXCEPT ![r] = q]
  BY DEF GotoWith
<1> HIDE DEF q
<1>3. GotoWith(r, pc, result) => MovesTo(r, q)
  BY <1>1, <1>2 DEF MovesTo
<1> QED
  BY <1>1, <1>3 DEF q

(* GotoSeeing moves one request, which keeps the rows it read. *)
LEMMA GotoSeeingMoves ==
    ASSUME requests \in [Requests -> RequestStates], NEW r \in Requests, NEW pc \in Phases,
           NEW seen \in [row : TransactionRows, details : DetailRows]
    PROVE  /\ [requests[r] EXCEPT !.pc = pc, !.seen = seen] \in RequestStates
           /\ GotoSeeing(r, pc, seen) =>
                MovesTo(r, [requests[r] EXCEPT !.pc = pc, !.seen = seen])
<1> DEFINE q == [requests[r] EXCEPT !.pc = pc, !.seen = seen]
<1>1. q \in RequestStates
  BY DEF RequestStates
<1>2. GotoSeeing(r, pc, seen) => requests' = [requests EXCEPT ![r] = q]
  BY DEF GotoSeeing
<1> HIDE DEF q
<1>3. GotoSeeing(r, pc, seen) => MovesTo(r, q)
  BY <1>1, <1>2 DEF MovesTo
<1> QED
  BY <1>1, <1>3 DEF q

-----------------------------------------------------------------------------
(* The three kinds of step: on nothing but one request, under the write    *)
(* lock, and to a new committed store.                                     *)

(* A request outside the lock does not see what the lock holder builds,    *)
(* and loses nothing when more is committed.                               *)
LEMMA InStepElsewhere ==
    ASSUME NEW q \in RequestStates, q.pc \notin UnderLock,
           NEW d \in Stores, NEW d2 \in Stores, NEW w, NEW w2, InStep(q, d, w),
           \A k \in Keys : d.records[k] # Null => d2.records[k] = d.records[k]
    PROVE  InStep(q, d2, w2)
<1>1. ASSUME q.pc = "answering", q.command.name \in KeyedNames
      PROVE  d2.records[q.command.key] = [command |-> q.command, result |-> q.result]
  <2>1. /\ d.records[q.command.key] = [command |-> q.command, result |-> q.result]
        /\ q.command \in Commands /\ q.result # Null
    BY <1>1 DEF InStep
  <2>2. q.command.key \in Keys /\ q.command \in AllCommands /\ q.result \in Results
    BY <1>1, <2>1, CommandShape DEF RequestStates
  <2>3. [command |-> q.command, result |-> q.result] # Null
    BY <2>2, NullIsNoRow DEF IdempotencyRows
  <2> QED
    BY <2>1, <2>2, <2>3
<1> QED
  BY <1>1 DEF InStep, UnderLock

(* A step of a request outside the lock on nothing but itself. *)
LEMMA OwnMove ==
    ASSUME LedgerInv, NEW r \in Requests, NEW q \in RequestStates, MovesTo(r, q),
           requests[r].pc \notin UnderLock, q.pc \notin UnderLock, InStep(q, db, work),
           DatabaseUntouched, UNCHANGED answers
    PROVE  LedgerInv'
<1> USE DEF DatabaseUntouched
<1>1. TypeOK' /\ requests \in [Requests -> RequestStates]
  BY DEF LedgerInv, TypeOK, MovesTo
<1>2. LockDiscipline'
  BY DEF LedgerInv, LockDiscipline, MovesTo
<1>3. \A x \in Requests : InStep(requests'[x], db', work')
  BY DEF LedgerInv, MovesTo
<1>4. (StoreWhole(db) /\ StoreWhole(work) /\ KeysWhole(db) /\ AnswersRecorded)'
  BY DEF LedgerInv, StoreWhole, KeysWhole, AnswersRecorded
<1> QED
  BY <1>1, <1>2, <1>3, <1>4 DEF LedgerInv

(* A step of a request that takes or has the lock and builds s. *)
LEMMA LockedMove ==
    ASSUME LedgerInv, NEW r \in Requests, NEW q \in RequestStates, MovesTo(r, q),
           holder \in {Null, r}, NEW s \in Stores, StoreWhole(s), Locked(r, s),
           q.pc \in UnderLock, InStep(q, db, s), UNCHANGED answers
    PROVE  LedgerInv'
<1>1. holder' = r /\ work' = s /\ db' = db
  BY DEF Locked
<1>2. TypeOK'
  BY <1>1 DEF LedgerInv, TypeOK, MovesTo
<1>3. \A x \in Requests \ {r} : requests[x].pc \notin UnderLock
  BY NullIsNoRequest DEF LedgerInv, LockDiscipline
<1>4. LockDiscipline'
  BY <1>1, <1>3, NullIsNoRequest DEF LockDiscipline, MovesTo
<1>5. \A x \in Requests : InStep(requests'[x], db', work')
  <2>1. ASSUME NEW x \in Requests \ {r}
        PROVE  InStep(requests'[x], db', work')
    <3>1. /\ requests'[x] = requests[x] /\ InStep(requests[x], db, work)
          /\ requests[x] \in RequestStates /\ db \in Stores
      BY DEF LedgerInv, TypeOK, MovesTo
    <3> QED
      BY <3>1, <1>1, <1>3, InStepElsewhere
  <2> QED
    BY <2>1, <1>1 DEF MovesTo
<1>6. (StoreWhole(db) /\ StoreWhole(work) /\ KeysWhole(db) /\ AnswersRecorded)'
  BY <1>1 DEF LedgerInv, StoreWhole, KeysWhole, AnswersRecorded
<1> QED
  BY <1>2, <1>4, <1>5, <1>6 DEF LedgerInv

(* A step to a new committed store, whatever it does to the requests.      *)
LEMMA ReleasedMove ==
    ASSUME LedgerInv, NEW s \in Stores, StoreWhole(s), KeysWhole(s), Released(s),
           \A k \in Keys : db.records[k] # Null => s.records[k] = db.records[k],
           requests' \in [Requests -> RequestStates],
           \A x \in Requests : requests'[x].pc \notin UnderLock /\ InStep(requests'[x], s, s),
           UNCHANGED answers
    PROVE  LedgerInv'
<1>1. holder' = Null /\ work' = s /\ db' = s
  BY DEF Released
<1>2. TypeOK'
  BY <1>1 DEF LedgerInv, TypeOK
<1>3. LockDiscipline'
  BY <1>1, NullIsNoRequest DEF LockDiscipline
<1>4. AnswersRecorded'
  <2>1. ASSUME NEW a \in answers
        PROVE  /\ a.command.name \in KeyedNames
               /\ s.records[a.command.key] = [command |-> a.command, result |-> a.result]
    <3>1. /\ a.command \in Commands /\ a.result \in Results
          /\ db.records[a.command.key] = [command |-> a.command, result |-> a.result]
          /\ a.command.name \in KeyedNames
      BY DEF LedgerInv, TypeOK, AnswersRecorded
    <3>2. a.command \in AllCommands /\ a.command.key \in Keys
      BY <3>1, CommandShape
    <3>3. [command |-> a.command, result |-> a.result] # Null
      BY <3>1, <3>2, NullIsNoRow DEF IdempotencyRows
    <3> QED
      BY <3>1, <3>2, <3>3
  <2> QED
    BY <2>1, <1>1 DEF AnswersRecorded
<1>5. \A x \in Requests : InStep(requests'[x], db', work')
  BY <1>1
<1>6. (StoreWhole(db) /\ StoreWhole(work) /\ KeysWhole(db))'
  BY <1>1 DEF StoreWhole, KeysWhole
<1> QED
  BY <1>2, <1>3, <1>4, <1>5, <1>6 DEF LedgerInv

(* A step to a new committed store beside the requests, or by one of them  *)
(* outside the lock, that touches no key and posts nothing.                *)
LEMMA KeysKept ==
    ASSUME NEW d \in Stores, NEW s \in Stores, KeysWhole(d), s.records = d.records,
           \A t \in TxIds : IsPosted(s, t) <=> IsPosted(d, t)
    PROVE  KeysWhole(s)
<1>1. ASSUME NEW k \in Keys, s.records[k] # Null
      PROVE  /\ s.records[k].command \in Commands /\ s.records[k].command.key = k
             /\ s.records[k].result # Null /\ IsPosted(s, s.records[k].result.tx)
  <2>1. /\ s.records[k].command \in Commands /\ s.records[k].command.key = k
        /\ s.records[k].result # Null /\ IsPosted(d, s.records[k].result.tx)
    BY <1>1 DEF KeysWhole
  <2>2. s.records[k].result.tx \in TxIds
    BY <1>1, <2>1 DEF Stores, IdempotencyRows, Results
  <2> QED
    BY <2>1, <2>2
<1>2. \A k, other \in Keys :
         /\ s.records[k] # Null /\ s.records[other] # Null
         /\ s.records[k].result.tx = s.records[other].result.tx
         => k = other
  BY DEF KeysWhole
<1>3. \A t \in TxIds : IsPosted(s, t) =>
         \E k \in Keys : s.records[k] # Null /\ s.records[k].result.tx = t
  BY DEF KeysWhole
<1> QED
  BY <1>1, <1>2, <1>3 DEF KeysWhole

(* A step to a new committed store while the lock is free, in which every  *)
(* record stays and nothing is newly posted.                               *)
LEMMA BesideMove ==
    ASSUME LedgerInv, holder = Null, NEW s \in Stores, StoreWhole(s), s.records = db.records,
           \A t \in TxIds : IsPosted(s, t) <=> IsPosted(db, t),
           Released(s), UNCHANGED answers,
           \/ UNCHANGED requests
           \/ \E r \in Requests, q \in RequestStates :
                MovesTo(r, q) /\ q.pc \notin UnderLock /\ InStep(q, s, s)
    PROVE  LedgerInv'
<1>1. db \in Stores /\ KeysWhole(db) /\ requests \in [Requests -> RequestStates]
  BY DEF LedgerInv, TypeOK
<1>2. KeysWhole(s)
  BY <1>1, KeysKept
<1>3. \A x \in Requests : requests[x].pc \notin UnderLock /\ InStep(requests[x], s, s)
  <2>1. ASSUME NEW x \in Requests
        PROVE  requests[x].pc \notin UnderLock /\ InStep(requests[x], s, s)
    <3>1. requests[x].pc \notin UnderLock
      BY NullIsNoRequest DEF LedgerInv, LockDiscipline
    <3>2. InStep(requests[x], db, work) /\ requests[x] \in RequestStates
      BY <1>1 DEF LedgerInv
    <3> QED
      BY <3>1, <3>2, <1>1, InStepElsewhere
  <2> QED
    BY <2>1
<1>4. /\ requests' \in [Requests -> RequestStates]
      /\ \A x \in Requests : requests'[x].pc \notin UnderLock /\ InStep(requests'[x], s, s)
  <2>1. CASE UNCHANGED requests
    BY <2>1, <1>1, <1>3
  <2>2. CASE \E r \in Requests, q \in RequestStates :
               MovesTo(r, q) /\ q.pc \notin UnderLock /\ InStep(q, s, s)
    <3>1. PICK r \in Requests, q \in RequestStates :
             MovesTo(r, q) /\ q.pc \notin UnderLock /\ InStep(q, s, s)
      BY <2>2
    <3> QED
      BY <3>1, <1>3 DEF MovesTo
  <2> QED
    BY <2>1, <2>2
<1> QED
  BY <1>2, <1>4, ReleasedMove

-----------------------------------------------------------------------------
(* Keyed commands.                                                         *)

(* What a request has in hand before each step.                            *)
LEMMA Hand ==
    ASSUME LedgerInv, NEW r \in Requests, requests[r].pc # "idle"
    PROVE  LET q == requests[r]
           IN  /\ q \in RequestStates /\ q.command \in Commands /\ InStep(q, db, work)
               /\ q.command \in AllCommands /\ WellFormed(q.command)
               /\ requests \in [Requests -> RequestStates]
               /\ db \in Stores /\ StoreWhole(db) /\ KeysWhole(db)
               /\ work \in Stores /\ StoreWhole(work)
               /\ q.pc \in UnderLock => holder = r
               /\ holder = Null => work = db
               /\ q.command.name \in KeyedNames => q.command.key \in Keys
  BY CommandShape DEF LedgerInv, TypeOK, LockDiscipline, InStep

(* A client sends a command. *)
LEMMA SubmitInv ==
    ASSUME LedgerInv, NEW r \in Requests, NEW c \in Commands, Submit(r, c)
    PROVE  LedgerInv'
<1> DEFINE q == [Idle EXCEPT !.pc = "reading", !.command = c]
<1>1. /\ requests[r].pc = "idle" /\ requests' = [requests EXCEPT ![r] = q]
      /\ DatabaseUntouched /\ UNCHANGED answers
  BY DEF Submit, At
<1>2. /\ q \in RequestStates /\ q.pc = "reading" /\ q.command = c
  BY DEF RequestStates, Idle, Phases
<1> HIDE DEF q
<1>3. MovesTo(r, q)
  BY <1>1, <1>2 DEF LedgerInv, TypeOK, MovesTo
<1>4. InStep(q, db, work)
  BY <1>2 DEF InStep
<1> QED
  BY <1>1, <1>2, <1>3, <1>4, OwnMove DEF UnderLock

(* The lookup of the key answers only what is recorded for this command. *)
LEMMA LookUpInv ==
    ASSUME LedgerInv, NEW r \in Requests, LookUp(r)
    PROVE  LedgerInv'
<1> DEFINE c == requests[r].command
           record == db.records[c.key]
<1>1. /\ requests[r].pc = "reading" /\ c.name \in KeyedNames
      /\ DatabaseUntouched /\ UNCHANGED answers
  BY DEF LookUp, At, Keyed
<1>2. /\ requests[r] \in RequestStates /\ c \in Commands /\ c.key \in Keys /\ db \in Stores
      /\ requests \in [Requests -> RequestStates]
  BY <1>1, Hand
<1>3. CASE \E pc \in {"writing", "auditing"} : Goto(r, pc)
  <2>1. PICK pc \in {"writing", "auditing"} : Goto(r, pc)
    BY <1>3
  <2> DEFINE q == [requests[r] EXCEPT !.pc = pc]
  <2>2. q \in RequestStates /\ MovesTo(r, q)
    BY <1>2, <2>1, GotoMoves DEF Phases
  <2>3. q.pc = pc /\ q.command = c
    BY <1>2 DEF RequestStates
  <2> HIDE DEF q
  <2>4. InStep(q, db, work)
    BY <2>1, <2>3, <1>1, <1>2 DEF InStep, KeyedNames, CreateNames
  <2> QED
    BY <1>1, <2>1, <2>2, <2>3, <2>4, OwnMove DEF UnderLock
<1>4. CASE record # Null /\ Replays(record, c) /\ GotoWith(r, "answering", record.result)
  <2> DEFINE q == [requests[r] EXCEPT !.pc = "answering", !.result = record.result]
  <2>1. record \in IdempotencyRows /\ record.command = c /\ record.result # Null
    BY <1>2, <1>4 DEF Replays, Stores
  <2>2. record.result \in Results /\ record = [command |-> c, result |-> record.result]
    BY <2>1 DEF IdempotencyRows
  <2>3. q \in RequestStates /\ MovesTo(r, q)
    BY <1>2, <1>4, <2>2, GotoWithMoves DEF Phases
  <2>4. q.pc = "answering" /\ q.command = c /\ q.result = record.result
    BY <1>2 DEF RequestStates
  <2> HIDE DEF q
  <2>5. InStep(q, db, work)
    BY <2>1, <2>2, <2>4, <1>2 DEF InStep
  <2> QED
    BY <1>1, <2>3, <2>4, <2>5, OwnMove DEF UnderLock
<1> QED
  BY <1>3, <1>4 DEF LookUp

(* A reservation goes through only for a key without a record. *)
LEMMA ReserveInv ==
    ASSUME LedgerInv, NEW r \in Requests, Reserve(r)
    PROVE  LedgerInv'
<1> DEFINE c == requests[r].command
           s == Reserved(db, c)
<1>1. /\ requests[r].pc = "writing" /\ c.name \in KeyedNames /\ holder = Null
      /\ UNCHANGED answers
  BY DEF Reserve, At, Keyed
<1>2. /\ requests[r] \in RequestStates /\ c \in Commands /\ c \in AllCommands /\ c.key \in Keys
      /\ db \in Stores /\ StoreWhole(db) /\ requests \in [Requests -> RequestStates]
  BY <1>1, Hand
<1>3. CASE KeyIsFree(db, c) /\ Locked(r, s) /\ Goto(r, "performing")
  <2> DEFINE q == [requests[r] EXCEPT !.pc = "performing"]
  <2>1. q \in RequestStates /\ MovesTo(r, q)
    BY <1>2, <1>3, GotoMoves DEF Phases
  <2>2. q.pc = "performing" /\ q.command = c
    BY <1>2 DEF RequestStates
  <2>3. s \in Stores /\ StoreWhole(s)
    BY <1>2, ReservedWhole
  <2> HIDE DEF q
  <2>4. InStep(q, db, s)
    BY <2>2, <1>1, <1>2, <1>3 DEF InStep, KeyIsFree
  <2> QED
    BY <1>1, <1>3, <2>1, <2>2, <2>3, <2>4, LockedMove DEF UnderLock
<1>4. CASE Goto(r, "auditing") /\ DatabaseUntouched
  <2> DEFINE q == [requests[r] EXCEPT !.pc = "auditing"]
  <2>1. q \in RequestStates /\ MovesTo(r, q)
    BY <1>2, <1>4, GotoMoves DEF Phases
  <2>2. q.pc = "auditing" /\ q.command = c
    BY <1>2 DEF RequestStates
  <2> HIDE DEF q
  <2>3. InStep(q, db, work)
    BY <2>2, <1>1, <1>2 DEF InStep
  <2> QED
    BY <1>1, <1>4, <2>1, <2>2, <2>3, OwnMove DEF UnderLock
<1> QED
  BY <1>3, <1>4 DEF Reserve

(* What a keyed command that performed its effect, stored its result and   *)
(* audited its success will commit: its record and one new posting.        *)
LEMMA RecordingPrepares ==
    ASSUME NEW d \in Stores, StoreWhole(d), NEW c \in Commands, c.name \in KeyedNames,
           d.records[c.key] = Null, NEW s \in Stores, StoreWhole(s),
           KeepsHistory(Reserved(d, c), s), s.records = Reserved(d, c).records,
           NEW result \in Results, ~IsPosted(Reserved(d, c), result.tx),
           \A t \in TxIds : IsPosted(s, t) <=> IsPosted(Reserved(d, c), t) \/ t = result.tx,
           NEW q \in RequestStates, q.pc = "committing", q.command = c, q.result = result
    PROVE  LET s2 == Recorded(s, c, result)
           IN  /\ s2 \in Stores /\ StoreWhole(s2) /\ InStep(q, d, s2)
<1> DEFINE held == Reserved(d, c)
           s2 == Recorded(s, c, result)
<1>1. c \in AllCommands /\ c.key \in Keys
  BY CommandShape
<1>2. /\ held \in Stores /\ KeepsHistory(d, held)
      /\ \A t \in TxIds : IsPosted(held, t) <=> IsPosted(d, t)
      /\ held.records = [d.records EXCEPT ![c.key] = [command |-> c, result |-> Null]]
  BY <1>1, ReservedWhole
<1>3. s.records[c.key] = [command |-> c, result |-> Null] /\ s.records[c.key] # Null
  <2>1. s.records[c.key] = [command |-> c, result |-> Null]
    BY <1>1, <1>2 DEF Stores
  <2>2. [command |-> c, result |-> Null] \in IdempotencyRows
    BY <1>1 DEF IdempotencyRows
  <2> QED
    BY <2>1, <2>2, NullIsNoRow
<1>4. /\ s2 \in Stores /\ StoreWhole(s2) /\ KeepsHistory(s, s2)
      /\ \A t \in TxIds : IsPosted(s2, t) <=> IsPosted(s, t)
      /\ s2.records = [s.records EXCEPT ![c.key] = [@ EXCEPT !.result = result]]
  BY <1>1, <1>3, RecordedWhole
<1> HIDE DEF held, s2
<1>5. KeepsHistory(held, s) /\ s.records = held.records
  BY DEF held
<1>6. KeepsHistory(d, s2)
  <2>1. KeepsHistory(d, s)
    BY <1>2, <1>5, HistoryTransitive
  <2> QED
    BY <2>1, <1>4, HistoryTransitive
<1>7. s2.records = [d.records EXCEPT ![c.key] = [command |-> c, result |-> result]]
  <2>1. [s.records[c.key] EXCEPT !.result = result] = [command |-> c, result |-> result]
    BY <1>3
  <2> QED
    BY <2>1, <1>1, <1>2, <1>4, <1>5 DEF Stores
<1>8. result.tx \in TxIds
  BY DEF Results
<1>9. /\ ~IsPosted(d, result.tx)
      /\ \A t \in TxIds : IsPosted(s2, t) <=> IsPosted(d, t) \/ t = result.tx
  <2>1. \A t \in TxIds : IsPosted(s, t) <=> IsPosted(held, t) \/ t = result.tx
    BY DEF held
  <2>2. ~IsPosted(held, result.tx)
    BY DEF held
  <2> QED
    BY <2>1, <2>2, <1>2, <1>4, <1>8 DEF IsPosted
<1>10. Prepared(q, d, s2)
  BY <1>6, <1>7, <1>9 DEF Prepared
<1>11. InStep(q, d, s2)
  <2>1. q.result # Null
    BY NullIsNoRow
  <2> QED
    BY <2>1, <1>10 DEF InStep
<1> QED
  BY <1>4, <1>11 DEF s2

(* A posting under the lock prepares one record and one transaction. *)
LEMMA PerformPostingInv ==
    ASSUME LedgerInv, NEW r \in Requests, PerformPosting(r)
    PROVE  LedgerInv'
<1> DEFINE c == requests[r].command
<1>1. /\ requests[r].pc = "performing" /\ c.name # "reverse_transaction" /\ UNCHANGED answers
  BY DEF PerformPosting, At
<1>2. /\ c \in Commands /\ c \in AllCommands /\ WellFormed(c)
      /\ db \in Stores /\ StoreWhole(db) /\ work \in Stores /\ StoreWhole(work)
      /\ requests \in [Requests -> RequestStates] /\ holder = r
      /\ InStep(requests[r], db, work)
  BY <1>1, Hand DEF UnderLock
<1>3. c.name \in KeyedNames /\ db.records[c.key] = Null /\ work = Reserved(db, c)
  BY <1>1, <1>2 DEF InStep
<1>4. PICK t \in IF c.name = "post_draft" THEN {c.tx} ELSE FreshIn(work) : PostTo(r, c, t)
  BY DEF PerformPosting
<1> DEFINE result == [tx |-> t, replacement |-> Null]
           posted == Post(work, c, t)
           s == Recorded(posted, c, result)
           q == [requests[r] EXCEPT !.pc = "committing", !.result = result]
<1>5. AcceptsPosting(work, c) /\ Locked(r, s) /\ GotoWith(r, "committing", result)
  BY <1>4 DEF PostTo
<1>6. /\ posted \in Stores /\ StoreWhole(posted) /\ KeepsHistory(work, posted)
      /\ t \in TxIds /\ ~IsPosted(work, t)
      /\ \A x \in TxIds : IsPosted(posted, x) <=> IsPosted(work, x) \/ x = t
      /\ posted.records = work.records
  BY <1>1, <1>2, <1>3, <1>4, <1>5, PostWhole
<1>7. result \in Results /\ result.tx = t
  BY <1>6 DEF Results
<1> HIDE DEF result, posted
<1>8. q \in RequestStates /\ MovesTo(r, q)
  BY <1>2, <1>5, <1>7, GotoWithMoves DEF Phases
<1>9. q.pc = "committing" /\ q.command = c /\ q.result = result
  BY <1>2 DEF RequestStates
<1> HIDE DEF q
<1>10. s \in Stores /\ StoreWhole(s) /\ InStep(q, db, s)
  BY <1>2, <1>3, <1>6, <1>7, <1>8, <1>9, RecordingPrepares
<1> HIDE DEF s
<1> QED
  BY <1>1, <1>2, <1>5, <1>8, <1>9, <1>10, LockedMove DEF UnderLock

(* A reversal under the lock prepares one record and one transaction, the  *)
(* reversal; the original stays in the books, voided.                      *)
LEMMA PerformReversalInv ==
    ASSUME LedgerInv, NEW r \in Requests, PerformReversal(r)
    PROVE  LedgerInv'
<1> DEFINE c == requests[r].command
<1>1. /\ requests[r].pc = "performing" /\ c.name = "reverse_transaction" /\ UNCHANGED answers
  BY DEF PerformReversal, At
<1>2. /\ c \in Commands /\ c \in AllCommands /\ WellFormed(c)
      /\ db \in Stores /\ StoreWhole(db) /\ work \in Stores /\ StoreWhole(work)
      /\ requests \in [Requests -> RequestStates] /\ holder = r
      /\ InStep(requests[r], db, work)
  BY <1>1, Hand DEF UnderLock
<1>3. c.name \in KeyedNames /\ db.records[c.key] = Null /\ work = Reserved(db, c)
  BY <1>1, <1>2 DEF InStep
<1>4. c.tx \in TxIds
  BY <1>1, <1>2, CommandShape
<1>5. PICK t \in FreshIn(work), today \in Dates :
         \E replacement \in IF c.selection = Null THEN {Null} ELSE FreshIn(work) \ {t} :
            ReverseTo(r, c, t, today, replacement)
  BY DEF PerformReversal
<1>6. PICK replacement \in IF c.selection = Null THEN {Null} ELSE FreshIn(work) \ {t} :
         ReverseTo(r, c, t, today, replacement)
  BY <1>5
<1> DEFINE result == [tx |-> t, replacement |-> replacement]
           reversed == Reverse(work, c, t, today, replacement)
           s == Recorded(reversed, c, result)
           q == [requests[r] EXCEPT !.pc = "committing", !.result = result]
<1>7. AcceptsReversal(work, c) /\ Locked(r, s) /\ GotoWith(r, "committing", result)
  BY <1>6 DEF ReverseTo
<1>8. /\ reversed \in Stores /\ StoreWhole(reversed) /\ KeepsHistory(work, reversed)
      /\ t \in TxIds /\ ~IsPosted(work, t)
      /\ \A x \in TxIds : IsPosted(reversed, x) <=> IsPosted(work, x) \/ x = t
      /\ reversed.records = work.records
  BY <1>2, <1>4, <1>5, <1>6, <1>7, ReverseWhole
<1>9. result \in Results /\ result.tx = t
  BY <1>6, <1>8 DEF Results, FreshIn
<1> HIDE DEF result, reversed
<1>10. q \in RequestStates /\ MovesTo(r, q)
  BY <1>2, <1>7, <1>9, GotoWithMoves DEF Phases
<1>11. q.pc = "committing" /\ q.command = c /\ q.result = result
  BY <1>2 DEF RequestStates
<1> HIDE DEF q
<1>12. s \in Stores /\ StoreWhole(s) /\ InStep(q, db, s)
  BY <1>2, <1>3, <1>8, <1>9, <1>10, <1>11, RecordingPrepares
<1> HIDE DEF s
<1> QED
  BY <1>1, <1>2, <1>7, <1>10, <1>11, <1>12, LockedMove DEF UnderLock

(* A refusal rolls back to what is committed and gives the lock back. *)
LEMMA RefuseInv ==
    ASSUME LedgerInv, NEW r \in Requests, Refuse(r)
    PROVE  LedgerInv'
<1> DEFINE q == [requests[r] EXCEPT !.pc = "auditing"]
<1>1. /\ requests[r].pc = "performing" /\ Released(db) /\ Goto(r, "auditing")
      /\ UNCHANGED answers
  BY DEF Refuse, At
<1>2. /\ db \in Stores /\ StoreWhole(db) /\ KeysWhole(db)
      /\ requests \in [Requests -> RequestStates] /\ holder = r
      /\ requests[r].command \in Commands /\ InStep(requests[r], db, work)
  BY <1>1, Hand DEF UnderLock
<1>3. q \in RequestStates /\ MovesTo(r, q)
  BY <1>1, <1>2, GotoMoves DEF Phases
<1>4. q.pc = "auditing" /\ q.command = requests[r].command
  BY <1>2 DEF RequestStates
<1> HIDE DEF q
<1>5. InStep(q, db, db)
  BY <1>1, <1>2, <1>4 DEF InStep
<1>6. \A x \in Requests : requests'[x].pc \notin UnderLock /\ InStep(requests'[x], db, db)
  <2>1. ASSUME NEW x \in Requests \ {r}
        PROVE  requests'[x].pc \notin UnderLock /\ InStep(requests'[x], db, db)
    <3>1. requests[x].pc \notin UnderLock /\ InStep(requests[x], db, work)
      BY <1>2 DEF LedgerInv, LockDiscipline
    <3>2. InStep(requests[x], db, db)
      BY <3>1, <1>2, InStepElsewhere
    <3> QED
      BY <3>1, <3>2, <1>3 DEF MovesTo
  <2> QED
    BY <2>1, <1>3, <1>4, <1>5 DEF MovesTo, UnderLock
<1> QED
  BY <1>1, <1>2, <1>3, <1>6, ReleasedMove DEF MovesTo

(* The event of a failure is committed by itself. *)
LEMMA RecordFailureInv ==
    ASSUME LedgerInv, NEW r \in Requests, RecordFailure(r)
    PROVE  LedgerInv'
<1> DEFINE c == requests[r].command
           s == Audited(db, c, "FAILURE", Null)
           q == [requests[r] EXCEPT !.pc = "failed"]
<1>1. /\ requests[r].pc = "auditing" /\ holder = Null /\ Released(s) /\ Goto(r, "failed")
      /\ UNCHANGED answers
  BY DEF RecordFailure, At
<1>2. /\ db \in Stores /\ StoreWhole(db) /\ c \in Commands /\ c \in AllCommands
      /\ requests \in [Requests -> RequestStates] /\ InStep(requests[r], db, work)
  BY <1>1, Hand
<1>3. c.name \in KeyedNames /\ c.key \in Keys
  BY <1>1, <1>2, Hand DEF InStep
<1>4. /\ s \in Stores /\ StoreWhole(s) /\ s.records = db.records
      /\ \A t \in TxIds : IsPosted(s, t) <=> IsPosted(db, t)
  BY <1>2, <1>3, FailureAuditedWhole
<1>5. q \in RequestStates /\ MovesTo(r, q)
  BY <1>1, <1>2, GotoMoves DEF Phases
<1>6. q.pc = "failed" /\ q.command = c
  BY <1>2 DEF RequestStates
<1> HIDE DEF q, s
<1>7. q.pc \notin UnderLock /\ InStep(q, s, s)
  BY <1>2, <1>6 DEF InStep, UnderLock
<1> QED
  BY <1>1, <1>4, <1>5, <1>7, BesideMove

(* The steps of a keyed or draft request that only move it on.             *)
LEMMA FailureUnrecordedInv ==
    ASSUME LedgerInv, NEW r \in Requests, FailureUnrecorded(r)
    PROVE  LedgerInv'
<1> DEFINE q == [requests[r] EXCEPT !.pc = "failed"]
<1>1. /\ requests[r].pc = "auditing" /\ Goto(r, "failed")
      /\ DatabaseUntouched /\ UNCHANGED answers
  BY DEF FailureUnrecorded, At
<1>2. requests \in [Requests -> RequestStates] /\ requests[r].command \in Commands
  BY <1>1, Hand
<1>3. q \in RequestStates /\ MovesTo(r, q)
  BY <1>1, <1>2, GotoMoves DEF Phases
<1>4. q.pc = "failed" /\ q.command = requests[r].command
  BY <1>2 DEF RequestStates
<1> HIDE DEF q
<1>5. InStep(q, db, work)
  BY <1>2, <1>4 DEF InStep
<1> QED
  BY <1>1, <1>3, <1>4, <1>5, OwnMove DEF UnderLock

(* A request that waited too long for the lock gives up. *)
LEMMA LockTimeoutInv ==
    ASSUME LedgerInv, NEW r \in Requests, LockTimeout(r)
    PROVE  LedgerInv'
<1> DEFINE pc == IF Keyed(r) THEN "auditing" ELSE "failed"
           q == [requests[r] EXCEPT !.pc = pc]
<1>1. /\ requests[r].pc = "writing" /\ Goto(r, pc)
      /\ DatabaseUntouched /\ UNCHANGED answers
  BY DEF LockTimeout, At
<1>2. requests \in [Requests -> RequestStates] /\ requests[r].command \in Commands
  BY <1>1, Hand
<1>3. pc \in {"auditing", "failed"} /\ (pc = "auditing" => Keyed(r))
  OBVIOUS
<1> HIDE DEF pc
<1>4. q \in RequestStates /\ MovesTo(r, q)
  BY <1>1, <1>2, <1>3, GotoMoves DEF Phases
<1>5. q.pc = pc /\ q.command = requests[r].command
  BY <1>2 DEF RequestStates
<1> HIDE DEF q
<1>6. InStep(q, db, work)
  BY <1>2, <1>3, <1>5 DEF InStep, Keyed
<1> QED
  BY <1>1, <1>3, <1>4, <1>5, <1>6, OwnMove DEF UnderLock

-----------------------------------------------------------------------------
(* Draft commands.                                                         *)

(* The checks that precede the writing or discarding of a draft. *)
LEMMA ReadDraftInv ==
    ASSUME LedgerInv, NEW r \in Requests,
           ReadCreateDraft(r) \/ ReadDiscardDraft(r)
    PROVE  LedgerInv'
<1>1. /\ requests[r].pc = "reading" /\ requests[r].command.name # "update_draft"
      /\ DatabaseUntouched /\ UNCHANGED answers
  BY DEF ReadCreateDraft, ReadDiscardDraft, Drafting, At
<1>2. PICK pc \in {"writing", "failed"} : Goto(r, pc)
  BY DEF ReadCreateDraft, ReadDiscardDraft
<1> DEFINE q == [requests[r] EXCEPT !.pc = pc]
<1>3. requests \in [Requests -> RequestStates] /\ requests[r].command \in Commands
  BY <1>1, Hand
<1>4. q \in RequestStates /\ MovesTo(r, q)
  BY <1>2, <1>3, GotoMoves DEF Phases
<1>5. q.pc = pc /\ q.command = requests[r].command
  BY <1>3 DEF RequestStates
<1> HIDE DEF q
<1>6. InStep(q, db, work)
  BY <1>1, <1>2, <1>3, <1>5 DEF InStep
<1> QED
  BY <1>1, <1>2, <1>4, <1>5, <1>6, OwnMove DEF UnderLock

(* An update keeps the two rows it saw: a draft has both. *)
LEMMA ReadUpdateDraftInv ==
    ASSUME LedgerInv, NEW r \in Requests, ReadUpdateDraft(r)
    PROVE  LedgerInv'
<1> DEFINE c == requests[r].command
           seen == [row |-> db.transactions[c.tx], details |-> db.drafts[c.tx]]
<1>1. /\ requests[r].pc = "reading" /\ c.name = "update_draft"
      /\ DatabaseUntouched /\ UNCHANGED answers
  BY DEF ReadUpdateDraft, Drafting, At
<1>2. /\ requests \in [Requests -> RequestStates] /\ c \in Commands /\ c.tx \in TxIds
      /\ db \in Stores /\ StoreWhole(db)
  BY <1>1, Hand, CommandShape
<1>3. CASE IsDraft(db, c.tx) /\ GotoSeeing(r, "writing", seen)
  <2> DEFINE q == [requests[r] EXCEPT !.pc = "writing", !.seen = seen]
  <2>1. seen \in [row : TransactionRows, details : DetailRows]
    <3>1. db.transactions[c.tx] \in TransactionRows
      BY <1>2, <1>3 DEF IsDraft, Stores
    <3>2. db.drafts[c.tx] \in DetailRows
      BY <1>2, <1>3 DEF StoreWhole, BooksOf, Stores
    <3> QED
      BY <3>1, <3>2
  <2> HIDE DEF seen
  <2>2. q \in RequestStates /\ MovesTo(r, q)
    BY <1>2, <1>3, <2>1, GotoSeeingMoves DEF Phases
  <2>3. q.pc = "writing" /\ q.command = c /\ q.seen = seen
    BY <1>2 DEF RequestStates
  <2> HIDE DEF q
  <2>4. InStep(q, db, work)
    BY <1>2, <2>1, <2>3 DEF InStep
  <2> QED
    BY <1>1, <2>2, <2>3, <2>4, OwnMove DEF UnderLock
<1>4. CASE Goto(r, "failed")
  <2> DEFINE q == [requests[r] EXCEPT !.pc = "failed"]
  <2>1. q \in RequestStates /\ MovesTo(r, q)
    BY <1>2, <1>4, GotoMoves DEF Phases
  <2>2. q.pc = "failed" /\ q.command = c
    BY <1>2 DEF RequestStates
  <2> HIDE DEF q
  <2>3. InStep(q, db, work)
    BY <1>2, <2>2 DEF InStep
  <2> QED
    BY <1>1, <2>1, <2>2, <2>3, OwnMove DEF UnderLock
<1> QED
  BY <1>3, <1>4 DEF ReadUpdateDraft

(* A draft command that has made its change under the lock.                *)
LEMMA DraftPrepared ==
    ASSUME LedgerInv, NEW r \in Requests, requests[r].pc = "writing", holder = Null,
           requests[r].command.name \notin KeyedNames,
           NEW s \in Stores, StoreWhole(s), KeepsHistory(db, s), s.records = db.records,
           \A t \in TxIds : IsPosted(s, t) <=> IsPosted(db, t),
           NEW result \in Results, Locked(r, s), GotoWith(r, "committing", result),
           UNCHANGED answers
    PROVE  LedgerInv'
<1> DEFINE q == [requests[r] EXCEPT !.pc = "committing", !.result = result]
<1>1. requests \in [Requests -> RequestStates] /\ requests[r].command \in Commands
  BY Hand
<1>2. q \in RequestStates /\ MovesTo(r, q)
  BY <1>1, GotoWithMoves DEF Phases
<1>3. q.pc = "committing" /\ q.command = requests[r].command /\ q.result = result
  BY <1>1 DEF RequestStates
<1> HIDE DEF q
<1>4. Prepared(q, db, s)
  BY <1>3 DEF Prepared
<1>5. InStep(q, db, s)
  BY <1>1, <1>3, <1>4, NullIsNoRow DEF InStep
<1> QED
  BY <1>2, <1>3, <1>5, LockedMove DEF UnderLock

(* A draft command that ends, or answers, without a change.                *)
LEMMA DraftUnchanged ==
    ASSUME LedgerInv, NEW r \in Requests, requests[r].pc = "writing",
           requests[r].command.name \notin KeyedNames,
           \/ Goto(r, "failed")
           \/ \E result \in Results : GotoWith(r, "answering", result),
           DatabaseUntouched, UNCHANGED answers
    PROVE  LedgerInv'
<1>1. requests \in [Requests -> RequestStates] /\ requests[r].command \in Commands
  BY Hand
<1>2. CASE Goto(r, "failed")
  <2> DEFINE q == [requests[r] EXCEPT !.pc = "failed"]
  <2>1. q \in RequestStates /\ MovesTo(r, q)
    BY <1>1, <1>2, GotoMoves DEF Phases
  <2>2. q.pc = "failed" /\ q.command = requests[r].command
    BY <1>1 DEF RequestStates
  <2> HIDE DEF q
  <2>3. InStep(q, db, work)
    BY <1>1, <2>2 DEF InStep
  <2> QED
    BY <2>1, <2>2, <2>3, OwnMove DEF UnderLock
<1>3. CASE \E result \in Results : GotoWith(r, "answering", result)
  <2>1. PICK result \in Results : GotoWith(r, "answering", result)
    BY <1>3
  <2> DEFINE q == [requests[r] EXCEPT !.pc = "answering", !.result = result]
  <2>2. q \in RequestStates /\ MovesTo(r, q)
    BY <1>1, <2>1, GotoWithMoves DEF Phases
  <2>3. q.pc = "answering" /\ q.command = requests[r].command /\ q.result = result
    BY <1>1 DEF RequestStates
  <2> HIDE DEF q
  <2>4. InStep(q, db, work)
    BY <1>1, <2>3, NullIsNoRow DEF InStep
  <2> QED
    BY <2>2, <2>3, <2>4, OwnMove DEF UnderLock
<1> QED
  BY <1>2, <1>3

(* A new draft, under the lock. *)
LEMMA WriteCreateDraftInv ==
    ASSUME LedgerInv, NEW r \in Requests, WriteCreateDraft(r)
    PROVE  LedgerInv'
<1> DEFINE c == requests[r].command
<1>1. /\ requests[r].pc = "writing" /\ c.name = "create_draft" /\ holder = Null
      /\ UNCHANGED answers
  BY DEF WriteCreateDraft, Drafting, At
<1>2. PICK t \in FreshIn(db) :
         /\ Locked(r, AddDraft(db, t, c.selection, Null))
         /\ GotoWith(r, "committing", [tx |-> t, replacement |-> Null])
  BY DEF WriteCreateDraft
<1> DEFINE s == AddDraft(db, t, c.selection, Null)
<1>3. db \in Stores /\ StoreWhole(db) /\ c.selection \in Selections
  BY <1>1, Hand, CommandShape
<1>4. /\ s \in Stores /\ StoreWhole(s) /\ KeepsHistory(db, s) /\ s.records = db.records
      /\ \A x \in TxIds : IsPosted(s, x) <=> IsPosted(db, x)
  BY <1>3, AddDraftWhole
<1> HIDE DEF s
<1>5. [tx |-> t, replacement |-> Null] \in Results
  BY DEF Results, FreshIn
<1>6. c.name \notin KeyedNames
  BY <1>1 DEF KeyedNames, CreateNames
<1>7. Locked(r, s)
  BY <1>2 DEF s
<1> QED
  BY <1>1, <1>2, <1>4, <1>5, <1>6, <1>7, DraftPrepared

(* An update of a draft, under the lock, against what it saw before. *)
LEMMA WriteUpdateDraftInv ==
    ASSUME LedgerInv, NEW r \in Requests, WriteUpdateDraft(r)
    PROVE  LedgerInv'
<1> DEFINE c == requests[r].command
           seen == requests[r].seen
           changes == RowChanged(c.selection, seen.row) \/ DetailsChanged(c.selection, seen.details)
           result == [tx |-> c.tx, replacement |-> Null]
           s == UpdateDraft(db, c.tx, c.selection, seen.row, seen.details)
<1>1. requests[r].pc = "writing" /\ c.name = "update_draft" /\ UNCHANGED answers
  BY DEF WriteUpdateDraft, Drafting, At
<1>2. /\ db \in Stores /\ StoreWhole(db) /\ c \in Commands /\ c.selection \in Selections
      /\ c.tx \in TxIds /\ seen \in [row : TransactionRows, details : DetailRows]
  BY <1>1, Hand, CommandShape DEF InStep
<1>3. result \in Results /\ c.name \notin KeyedNames
  BY <1>1, <1>2 DEF Results, KeyedNames, CreateNames
<1>4. CASE ~changes /\ DatabaseUntouched /\ GotoWith(r, "answering", result)
  BY <1>1, <1>3, <1>4, DraftUnchanged
<1>5. CASE /\ changes /\ holder = Null
           /\ UpdateReaches(db, c.tx, c.selection, seen.row, seen.details)
           /\ Locked(r, s) /\ GotoWith(r, "committing", result)
  <2>1. seen.row \in TransactionRows /\ seen.details \in DetailRows
    BY <1>2
  <2>2. /\ s \in Stores /\ StoreWhole(s) /\ KeepsHistory(db, s) /\ s.records = db.records
        /\ \A x \in TxIds : IsPosted(s, x) <=> IsPosted(db, x)
    BY <1>2, <1>5, <2>1, UpdateDraftWhole
  <2> HIDE DEF s, result, changes, seen
  <2> QED
    BY <1>1, <1>3, <1>5, <2>2, DraftPrepared
<1>6. CASE Goto(r, "failed") /\ DatabaseUntouched
  BY <1>1, <1>3, <1>6, DraftUnchanged
<1> QED
  BY <1>4, <1>5, <1>6 DEF WriteUpdateDraft

(* A discard, under the lock, of what may be gone or posted by then. *)
LEMMA WriteDiscardDraftInv ==
    ASSUME LedgerInv, NEW r \in Requests, WriteDiscardDraft(r)
    PROVE  LedgerInv'
<1> DEFINE t == requests[r].command.tx
           result == [tx |-> t, replacement |-> Null]
           s == DiscardDraft(db, t)
<1>1. /\ requests[r].pc = "writing" /\ requests[r].command.name = "discard_draft"
      /\ holder = Null /\ UNCHANGED answers
  BY DEF WriteDiscardDraft, Drafting, At
<1>2. db \in Stores /\ StoreWhole(db) /\ t \in TxIds
  BY <1>1, Hand, CommandShape
<1>3. result \in Results /\ requests[r].command.name \notin KeyedNames
  BY <1>1, <1>2 DEF Results, KeyedNames, CreateNames
<1>4. CASE DeleteReaches(db, t) /\ Locked(r, s) /\ GotoWith(r, "committing", result)
  <2>1. /\ s \in Stores /\ StoreWhole(s) /\ KeepsHistory(db, s) /\ s.records = db.records
        /\ \A x \in TxIds : IsPosted(s, x) <=> IsPosted(db, x)
    BY <1>2, <1>4, DiscardDraftWhole
  <2> HIDE DEF s, result
  <2> QED
    BY <1>1, <1>3, <1>4, <2>1, DraftPrepared
<1>5. CASE Goto(r, "failed") /\ DatabaseUntouched
  BY <1>1, <1>3, <1>5, DraftUnchanged
<1> QED
  BY <1>4, <1>5 DEF WriteDiscardDraft

-----------------------------------------------------------------------------
(* The end of a request.                                                   *)

(* Committing what a request prepared adds at most its own record, with    *)
(* the one transaction it posted, and keeps the history.                   *)
LEMMA CommitKeys ==
    ASSUME LedgerInv, NEW r \in Requests, requests[r].pc = "committing"
    PROVE  /\ KeysWhole(work) /\ KeepsHistory(db, work)
           /\ \A k \in Keys : db.records[k] # Null => work.records[k] = db.records[k]
           /\ requests[r].command.name \in KeyedNames =>
                LET c == requests[r].command
                    result == requests[r].result
                IN  /\ c \in Commands /\ c.key \in Keys /\ result \in Results
                    /\ db.records[c.key] = Null
                    /\ \A k \in Keys : db.records[k] # Null => db.records[k].result.tx # result.tx
                    /\ work.records =
                         [db.records EXCEPT ![c.key] = [command |-> c, result |-> result]]
           /\ requests[r].command.name \notin KeyedNames => work.records = db.records
<1> DEFINE q == requests[r]
           c == q.command
           done == [command |-> c, result |-> q.result]
<1>1. /\ q \in RequestStates /\ c \in Commands /\ c \in AllCommands /\ InStep(q, db, work)
      /\ db \in Stores /\ work \in Stores /\ KeysWhole(db)
      /\ c.name \in KeyedNames => c.key \in Keys
  BY Hand
<1>2. Prepared(q, db, work) /\ q.result \in Results
  BY <1>1 DEF InStep, RequestStates
<1>3. CASE c.name \notin KeyedNames
  <2>1. /\ KeepsHistory(db, work) /\ work.records = db.records
        /\ \A t \in TxIds : IsPosted(work, t) <=> IsPosted(db, t)
    BY <1>2, <1>3 DEF Prepared
  <2> QED
    BY <2>1, <1>1, <1>3, KeysKept
<1>4. CASE c.name \in KeyedNames
  <2>1. /\ KeepsHistory(db, work)
        /\ db.records[c.key] = Null /\ ~IsPosted(db, q.result.tx)
        /\ work.records = [db.records EXCEPT ![c.key] = done]
        /\ \A t \in TxIds : IsPosted(work, t) <=> IsPosted(db, t) \/ t = q.result.tx
    BY <1>2, <1>4 DEF Prepared
  <2>2. /\ work.records[c.key] = done /\ c.key \in Keys
        /\ \A k \in Keys \ {c.key} : work.records[k] = db.records[k]
    BY <1>1, <1>4, <2>1 DEF Stores
  <2>3. done # Null /\ done.command = c /\ done.result = q.result /\ q.result.tx \in TxIds
    BY <1>1, <1>2, NullIsNoRow DEF IdempotencyRows, Results
  <2> HIDE DEF done
  <2>4. ASSUME NEW k \in Keys, db.records[k] # Null
        PROVE  /\ k # c.key /\ db.records[k].result.tx \in TxIds
               /\ IsPosted(db, db.records[k].result.tx)
               /\ db.records[k].result.tx # q.result.tx
    <3>1. db.records[k].result \in Results /\ IsPosted(db, db.records[k].result.tx)
      BY <1>1, <2>4 DEF KeysWhole, Stores, IdempotencyRows
    <3> QED
      BY <3>1, <2>1, <2>4 DEF Results
  <2>5. ASSUME NEW k \in Keys, work.records[k] # Null
        PROVE  /\ work.records[k].command \in Commands /\ work.records[k].command.key = k
               /\ work.records[k].result # Null
               /\ IsPosted(work, work.records[k].result.tx)
    <3>1. CASE k = c.key
      <4>1. q.result # Null /\ IsPosted(work, q.result.tx)
        BY <1>2, <2>1, <2>3, NullIsNoRow
      <4> QED
        BY <3>1, <4>1, <1>1, <2>2, <2>3
    <3>2. CASE k # c.key
      <4>1. work.records[k] = db.records[k]
        BY <3>2, <2>2
      <4> QED
        BY <4>1, <1>1, <2>1, <2>4, <2>5 DEF KeysWhole
    <3> QED
      BY <3>1, <3>2
  <2>6. ASSUME NEW k \in Keys, NEW other \in Keys,
               work.records[k] # Null, work.records[other] # Null,
               work.records[k].result.tx = work.records[other].result.tx
        PROVE  k = other
    <3>1. CASE k = c.key \/ other = c.key
      BY <3>1, <2>2, <2>3, <2>4, <2>6
    <3>2. CASE k # c.key /\ other # c.key
      BY <3>2, <2>2, <2>6, <1>1 DEF KeysWhole
    <3> QED
      BY <3>1, <3>2
  <2>7. ASSUME NEW t \in TxIds, IsPosted(work, t)
        PROVE  \E k \in Keys : work.records[k] # Null /\ work.records[k].result.tx = t
    <3>1. CASE t = q.result.tx
      BY <3>1, <2>2, <2>3
    <3>2. CASE IsPosted(db, t)
      <4>1. PICK k \in Keys : db.records[k] # Null /\ db.records[k].result.tx = t
        BY <3>2, <1>1 DEF KeysWhole
      <4> QED
        BY <4>1, <2>2, <2>4
    <3> QED
      BY <3>1, <3>2, <2>1, <2>7
  <2>8. KeysWhole(work)
    BY <2>5, <2>6, <2>7 DEF KeysWhole
  <2>9. \A k \in Keys : db.records[k] # Null => work.records[k] = db.records[k]
    BY <2>2, <2>4
  <2> QED
    BY <2>1, <2>4, <2>8, <2>9, <1>1, <1>2, <1>4 DEF done
<1> QED
  BY <1>3, <1>4

(* A commit publishes what was prepared and gives the lock back. *)
LEMMA CommitInv ==
    ASSUME LedgerInv, NEW r \in Requests, Commit(r)
    PROVE  LedgerInv'
<1> DEFINE q == [requests[r] EXCEPT !.pc = "answering"]
           c == requests[r].command
<1>1. /\ requests[r].pc = "committing" /\ Released(work) /\ Goto(r, "answering")
      /\ UNCHANGED answers
  BY DEF Commit, At
<1>2. /\ db \in Stores /\ work \in Stores /\ StoreWhole(work)
      /\ requests \in [Requests -> RequestStates] /\ holder = r
      /\ c \in Commands /\ InStep(requests[r], db, work)
      /\ c.name \in KeyedNames => c.key \in Keys
  BY <1>1, Hand DEF UnderLock
<1>3. /\ KeysWhole(work)
      /\ \A k \in Keys : db.records[k] # Null => work.records[k] = db.records[k]
      /\ c.name \in KeyedNames =>
           work.records =
             [db.records EXCEPT ![c.key] = [command |-> c, result |-> requests[r].result]]
  BY <1>1, CommitKeys
<1>4. q \in RequestStates /\ MovesTo(r, q)
  BY <1>1, <1>2, GotoMoves DEF Phases
<1>5. q.pc = "answering" /\ q.command = c /\ q.result = requests[r].result
  BY <1>2 DEF RequestStates
<1> HIDE DEF q
<1>6. InStep(q, work, work)
  <2>1. q.result # Null
    BY <1>1, <1>2, <1>5 DEF InStep
  <2>2. c.name \in KeyedNames =>
          work.records[c.key] = [command |-> c, result |-> requests[r].result]
    BY <1>2, <1>3 DEF Stores
  <2> QED
    BY <2>1, <2>2, <1>2, <1>5 DEF InStep
<1>7. \A x \in Requests : requests'[x].pc \notin UnderLock /\ InStep(requests'[x], work, work)
  <2>1. ASSUME NEW x \in Requests \ {r}
        PROVE  requests'[x].pc \notin UnderLock /\ InStep(requests'[x], work, work)
    <3>1. requests[x].pc \notin UnderLock /\ InStep(requests[x], db, work)
      BY <1>2 DEF LedgerInv, LockDiscipline
    <3>2. InStep(requests[x], work, work)
      BY <3>1, <1>2, <1>3, InStepElsewhere
    <3> QED
      BY <3>1, <3>2, <1>4 DEF MovesTo
  <2> QED
    BY <2>1, <1>4, <1>5, <1>6 DEF MovesTo, UnderLock
<1>8. requests' \in [Requests -> RequestStates]
  BY <1>4 DEF MovesTo
<1> QED
  BY <1>1, <1>2, <1>3, <1>7, <1>8, ReleasedMove

(* A slot without a request asks nothing of the stores. *)
LEMMA IdleInStep ==
    ASSUME NEW d, NEW w
    PROVE  /\ Idle \in RequestStates /\ Idle.pc = "idle" /\ Idle.pc \notin UnderLock
           /\ InStep(Idle, d, w)
<1>1. Idle \in RequestStates /\ Idle.pc = "idle" /\ Idle.pc \notin UnderLock
  BY DEF Idle, RequestStates, Phases, UnderLock
<1> QED
  BY <1>1 DEF InStep

(* Leaving the handler, with the answer on its way or not.                 *)
LEMMA LeaveInv ==
    ASSUME LedgerInv, NEW r \in Requests, Leave(r)
    PROVE  LedgerInv'
<1>1. /\ requests[r].pc \in {"answering", "failed"}
      /\ requests' = [requests EXCEPT ![r] = Idle] /\ DatabaseUntouched /\ UNCHANGED answers
  BY DEF Leave
<1>2. MovesTo(r, Idle)
  BY <1>1, IdleInStep DEF LedgerInv, TypeOK, MovesTo
<1> QED
  BY <1>1, <1>2, IdleInStep, OwnMove DEF UnderLock

(* An answer tells the client what is recorded under its key. *)
LEMMA AnswerInv ==
    ASSUME LedgerInv, NEW r \in Requests, Answer(r)
    PROVE  LedgerInv'
<1> DEFINE c == requests[r].command
           answer == [command |-> c, result |-> requests[r].result]
<1>1. /\ requests[r].pc = "answering" /\ requests' = [requests EXCEPT ![r] = Idle]
      /\ db' = db /\ work' = work /\ holder' = holder
      /\ answers' = IF c.name \in KeyedNames THEN answers \cup {answer} ELSE answers
  BY DEF Answer, At, Keyed, DatabaseUntouched
<1>2. /\ requests[r] \in RequestStates /\ c \in Commands /\ InStep(requests[r], db, work)
      /\ requests \in [Requests -> RequestStates]
  BY <1>1, Hand
<1>3. /\ requests[r].result \in Results
      /\ c.name \in KeyedNames => db.records[c.key] = answer
  BY <1>1, <1>2 DEF InStep, RequestStates
<1>4. MovesTo(r, Idle)
  BY <1>1, <1>2, IdleInStep DEF MovesTo
<1>5. TypeOK'
  BY <1>1, <1>2, <1>3, <1>4 DEF LedgerInv, TypeOK, MovesTo
<1>6. LockDiscipline'
  BY <1>1, <1>4, IdleInStep DEF LedgerInv, LockDiscipline, MovesTo, UnderLock
<1>7. \A x \in Requests : InStep(requests'[x], db', work')
  BY <1>1, <1>4, IdleInStep DEF LedgerInv, MovesTo
<1>8. AnswersRecorded'
  <2>1. ASSUME NEW a \in answers'
        PROVE  /\ a.command.name \in KeyedNames
               /\ db.records[a.command.key] = [command |-> a.command, result |-> a.result]
    <3>1. CASE a \in answers
      BY <3>1 DEF LedgerInv, AnswersRecorded
    <3>2. CASE a = answer /\ c.name \in KeyedNames
      BY <3>2, <1>3
    <3> QED
      BY <2>1, <3>1, <3>2, <1>1
  <2> QED
    BY <2>1, <1>1 DEF AnswersRecorded
<1>9. (StoreWhole(db) /\ StoreWhole(work) /\ KeysWhole(db))'
  BY <1>1 DEF LedgerInv, StoreWhole, KeysWhole
<1> QED
  BY <1>5, <1>6, <1>7, <1>8, <1>9 DEF LedgerInv

(* A crash leaves what is committed, and no request. *)
LEMMA CrashInv ==
    ASSUME LedgerInv, Crash
    PROVE  LedgerInv'
<1>1. requests' = [r \in Requests |-> Idle] /\ Released(db) /\ UNCHANGED answers
  BY DEF Crash
<1>2. db \in Stores /\ StoreWhole(db) /\ KeysWhole(db)
  BY DEF LedgerInv, TypeOK
<1>3. /\ requests' \in [Requests -> RequestStates]
      /\ \A x \in Requests : requests'[x].pc \notin UnderLock /\ InStep(requests'[x], db, db)
  BY <1>1, IdleInStep
<1> QED
  BY <1>1, <1>2, <1>3, ReleasedMove

-----------------------------------------------------------------------------
(* The writers beside the requests.                                        *)

(* The writers beside the requests run while the lock is free and leave    *)
(* books, records and history as they are.                                 *)
LEMMA BesideKeeps ==
    ASSUME LedgerInv, Beside
    PROVE  /\ holder = Null /\ UNCHANGED <<requests, answers>>
           /\ \E s \in Stores : /\ Released(s) /\ StoreWhole(s) /\ KeepsHistory(db, s)
                                /\ s.records = db.records
                                /\ \A t \in TxIds : IsPosted(s, t) <=> IsPosted(db, t)
<1>1. db \in Stores /\ StoreWhole(db)
  BY DEF LedgerInv, TypeOK
<1>2. ASSUME NEW s, Released(s), NEW state \in {"active", "archived"},
             \/ \E a \in Accounts : s = SetAccount(db, a, state)
             \/ \E k \in Categories : s = SetCategory(db, k, state)
      PROVE  \E s2 \in Stores :
                /\ Released(s2) /\ StoreWhole(s2) /\ KeepsHistory(db, s2)
                /\ s2.records = db.records
                /\ \A t \in TxIds : IsPosted(s2, t) <=> IsPosted(db, t)
  <2>1. /\ s \in Stores /\ StoreWhole(s) /\ KeepsHistory(db, s) /\ s.records = db.records
        /\ \A t \in TxIds : IsPosted(s, t) <=> IsPosted(db, t)
    BY <1>1, <1>2, CatalogueWhole
  <2> QED
    BY <2>1, <1>2
<1>3. HouseholdAccounts \subseteq Accounts
  BY DEF Accounts
<1>4. CASE \E x \in Changing : SetUp(x)
  <2>1. PICK x \in Changing : SetUp(x)
    BY <1>4
  <2>2. /\ holder = Null /\ UNCHANGED <<requests, answers>>
        /\ \/ x \in HouseholdAccounts /\ Released(SetAccount(db, x, "active"))
           \/ x \in Categories /\ Released(SetCategory(db, x, "active"))
    BY <2>1 DEF SetUp
  <2> QED
    BY <2>2, <1>2, <1>3
<1>5. CASE \E x \in Changing, state \in {"active", "archived"} : SetArchived(x, state)
  <2>1. PICK x \in Changing, state \in {"active", "archived"} : SetArchived(x, state)
    BY <1>5
  <2>2. /\ holder = Null /\ UNCHANGED <<requests, answers>>
        /\ \/ x \in HouseholdAccounts /\ Released(SetAccount(db, x, state))
           \/ x \in Categories /\ Released(SetCategory(db, x, state))
    BY <2>1 DEF SetArchived
  <2> QED
    BY <2>2, <1>2, <1>3
<1>6. CASE \E t \in TxIds : Reconcile(t)
  <2>1. PICK t \in TxIds : Reconcile(t)
    BY <1>6
  <2> DEFINE s == SetReconciled(db, t)
  <2>2. /\ holder = Null /\ UNCHANGED <<requests, answers>> /\ Released(s)
        /\ IsPosted(db, t) /\ db.transactions[t].state = "POSTED"
    BY <2>1 DEF Reconcile
  <2>3. s = [db EXCEPT !.transactions[t].state = "RECONCILED"]
    BY DEF SetReconciled
  <2> HIDE DEF s
  <2>4. /\ s \in Stores /\ StoreWhole(s) /\ KeepsHistory(db, s) /\ s.records = db.records
        /\ \A x \in TxIds : IsPosted(s, x) <=> IsPosted(db, x)
    BY <1>1, <2>2, <2>3, AdvancedWhole
  <2> QED
    BY <2>2, <2>4
<1> QED
  BY <1>4, <1>5, <1>6 DEF Beside

(* Their steps keep the invariant. *)
LEMMA BesideInv ==
    ASSUME LedgerInv, Beside
    PROVE  LedgerInv'
<1>1. PICK s \in Stores :
         /\ Released(s) /\ StoreWhole(s) /\ s.records = db.records
         /\ \A t \in TxIds : IsPosted(s, t) <=> IsPosted(db, t)
  BY BesideKeeps
<1>2. holder = Null /\ UNCHANGED requests /\ UNCHANGED answers
  BY BesideKeeps
<1> QED
  BY <1>1, <1>2, BesideMove

-----------------------------------------------------------------------------
(* The inductive invariant.                                                *)

(* The invariant holds when the service starts. *)
LEMMA InitInv == Init => LedgerInv
<1> SUFFICES ASSUME Init PROVE LedgerInv
  OBVIOUS
<1>1. db \in Stores /\ StoreWhole(db) /\ KeysWhole(db) /\ work = db /\ holder = Null
  <2>1. db \in Stores /\ StoreWhole(db) /\ work = db /\ holder = Null
    BY CatalogueTyped, EmptyStoreWhole DEF Init
  <2>2. \A t \in TxIds : ~IsPosted(db, t)
    BY DEF Init, EmptyStore, IsPosted
  <2>3. \A k \in Keys : db.records[k] = Null
    BY DEF Init, EmptyStore
  <2> QED
    BY <2>1, <2>2, <2>3 DEF KeysWhole
<1>2. requests = [r \in Requests |-> Idle] /\ answers = {}
  BY DEF Init
<1>3. TypeOK
  BY <1>1, <1>2, IdleInStep DEF TypeOK
<1>4. LockDiscipline
  BY <1>1, <1>2, IdleInStep, NullIsNoRequest DEF LockDiscipline
<1>5. \A r \in Requests : InStep(requests[r], db, work)
  BY <1>2, IdleInStep
<1>6. AnswersRecorded
  BY <1>2 DEF AnswersRecorded
<1> QED
  BY <1>1, <1>3, <1>4, <1>5, <1>6 DEF LedgerInv

(* Every step of a request keeps the invariant. *)
LEMMA StepInv ==
    ASSUME LedgerInv, NEW r \in Requests, Step(r)
    PROVE  LedgerInv'
<1>1. CASE LookUp(r)               BY <1>1, LookUpInv
<1>2. CASE Reserve(r)              BY <1>2, ReserveInv
<1>3. CASE PerformPosting(r)       BY <1>3, PerformPostingInv
<1>4. CASE PerformReversal(r)      BY <1>4, PerformReversalInv
<1>5. CASE Refuse(r)               BY <1>5, RefuseInv
<1>6. CASE RecordFailure(r)        BY <1>6, RecordFailureInv
<1>7. CASE FailureUnrecorded(r)    BY <1>7, FailureUnrecordedInv
<1>8. CASE ReadCreateDraft(r)      BY <1>8, ReadDraftInv
<1>9. CASE ReadUpdateDraft(r)      BY <1>9, ReadUpdateDraftInv
<1>10. CASE ReadDiscardDraft(r)    BY <1>10, ReadDraftInv
<1>11. CASE WriteCreateDraft(r)    BY <1>11, WriteCreateDraftInv
<1>12. CASE WriteUpdateDraft(r)    BY <1>12, WriteUpdateDraftInv
<1>13. CASE WriteDiscardDraft(r)   BY <1>13, WriteDiscardDraftInv
<1>14. CASE Commit(r)              BY <1>14, CommitInv
<1>15. CASE LockTimeout(r)         BY <1>15, LockTimeoutInv
<1>16. CASE Answer(r)              BY <1>16, AnswerInv
<1>17. CASE Leave(r)               BY <1>17, LeaveInv
<1> QED
  BY <1>1, <1>2, <1>3, <1>4, <1>5, <1>6, <1>7, <1>8, <1>9, <1>10, <1>11, <1>12, <1>13,
     <1>14, <1>15, <1>16, <1>17 DEF Step

(* So does a step that changes nothing. *)
LEMMA StutterInv ==
    ASSUME LedgerInv, UNCHANGED vars
    PROVE  LedgerInv'
  BY DEF vars, LedgerInv, TypeOK, LockDiscipline, StoreWhole, KeysWhole, AnswersRecorded

(* So does every step of the system. *)
LEMMA NextInv == LedgerInv /\ [Next]_vars => LedgerInv'
<1> SUFFICES ASSUME LedgerInv, [Next]_vars PROVE LedgerInv'
  OBVIOUS
<1>1. CASE \E r \in Requests : Step(r)
  BY <1>1, StepInv
<1>2. CASE \E r \in Requests : \E c \in Commands : Submit(r, c)
  BY <1>2, SubmitInv
<1>3. CASE Beside
  BY <1>3, BesideInv
<1>4. CASE Crash
  BY <1>4, CrashInv
<1>5. CASE UNCHANGED vars
  BY <1>5, StutterInv
<1> QED
  BY <1>1, <1>2, <1>3, <1>4, <1>5 DEF Next

(* LedgerInv holds in every reachable state: between its reservation and   *)
(* its answer no request can be brought to a second effect, to unbalanced  *)
(* books or to a record that is not its own by what others do meanwhile.   *)
THEOREM LedgerInvariance == Spec => []LedgerInv
<1>1. Init => LedgerInv
  BY InitInv
<1>2. LedgerInv /\ [Next]_vars => LedgerInv'
  BY NextInv
<1> QED
  BY <1>1, <1>2, PTL DEF Spec

(* The tables, the lock and the requests keep to their types.              *)
THEOREM TypeCorrectness == Spec => []TypeOK
<1>1. LedgerInv => TypeOK
  BY DEF LedgerInv
<1> QED
  BY <1>1, LedgerInvariance, PTL

(* Double entry holds at every commit, for any accounts, categories and    *)
(* commands, whatever edits, discards and postings race.                   *)
THEOREM BooksAlwaysBalance == Spec => []BooksBalance
<1>1. LedgerInv => BooksBalance
  BY DEF LedgerInv, StoreWhole, BooksBalance
<1> QED
  BY <1>1, LedgerInvariance, PTL

(* Each committed key has made exactly one posted transaction and every    *)
(* posted transaction comes of exactly one key.                            *)
THEOREM KeysPostOnce == Spec => []OnePostingPerKey
<1>1. LedgerInv => OnePostingPerKey
  BY DEF LedgerInv, KeysWhole, OnePostingPerKey
<1> QED
  BY <1>1, LedgerInvariance, PTL

(* Every success a client was ever answered under a key is the one effect  *)
(* committed for it.                                                       *)
THEOREM AnswersStayTrue == Spec => []AnswersHold
<1>1. ASSUME LedgerInv
      PROVE  AnswersHold
  <2>1. ASSUME NEW a \in answers
        PROVE  /\ db.records[a.command.key] = [command |-> a.command, result |-> a.result]
               /\ IsPosted(db, a.result.tx)
    <3>1. /\ a.command \in Commands /\ a.result \in Results /\ a.command.name \in KeyedNames
          /\ db.records[a.command.key] = [command |-> a.command, result |-> a.result]
      BY <1>1 DEF LedgerInv, TypeOK, AnswersRecorded
    <3>2. a.command \in AllCommands /\ a.command.key \in Keys
      BY <3>1, CommandShape
    <3>3. [command |-> a.command, result |-> a.result] # Null
      BY <3>1, <3>2, NullIsNoRow DEF IdempotencyRows
    <3>4. IsPosted(db, db.records[a.command.key].result.tx)
      BY <1>1, <3>1, <3>2, <3>3 DEF LedgerInv, KeysWhole
    <3> QED
      BY <3>1, <3>4
  <2> QED
    BY <2>1 DEF AnswersHold
<1> QED
  BY <1>1, LedgerInvariance, PTL

-----------------------------------------------------------------------------
(* What a step may do to what is committed.                                *)

(* Only a commit makes a record and only an answer answers; other steps    *)
(* keep both and the history.                                              *)
LEMMA CommittedSteps ==
    ASSUME LedgerInv, [Next]_vars
    PROVE  \/ \E r \in Requests : Commit(r) \/ Answer(r)
           \/ /\ KeepsHistory(db, db') /\ db'.records = db.records
              /\ answers' = answers
<1>1. KeepsHistory(db, db)
  BY SameRowSameHistory DEF LedgerInv, TypeOK, KeepsHistory, IsPosted, Stores
<1>2. CASE db' = db /\ answers' = answers
  BY <1>1, <1>2
<1>3. CASE \E r \in Requests : RecordFailure(r)
  <2>1. PICK r \in Requests : RecordFailure(r)
    BY <1>3
  <2> DEFINE c == requests[r].command
             s == Audited(db, c, "FAILURE", Null)
  <2>2. requests[r].pc = "auditing" /\ Released(s) /\ answers' = answers
    BY <2>1 DEF RecordFailure, At
  <2>3. /\ db \in Stores /\ StoreWhole(db) /\ c \in AllCommands
        /\ c.name \in KeyedNames /\ c.key \in Keys
    BY <2>2, Hand DEF InStep
  <2>4. KeepsHistory(db, s) /\ s.records = db.records
    BY <2>3, FailureAuditedWhole
  <2> QED
    BY <2>2, <2>4 DEF Released
<1>4. CASE Beside
  BY <1>4, BesideKeeps DEF Released
<1>5. ASSUME NEW r \in Requests, Step(r), ~Commit(r), ~Answer(r), ~RecordFailure(r)
      PROVE  db' = db /\ answers' = answers
  BY <1>5
  DEF Step, LookUp, Reserve, PerformPosting, PostTo, PerformReversal, ReverseTo, Refuse,
      FailureUnrecorded, ReadCreateDraft, ReadUpdateDraft, ReadDiscardDraft,
      WriteCreateDraft, WriteUpdateDraft, WriteDiscardDraft, LockTimeout, Leave,
      DatabaseUntouched, Locked, Released
<1>6. ASSUME \/ \E r \in Requests : \E c \in Commands : Submit(r, c)
             \/ Crash \/ UNCHANGED vars
      PROVE  db' = db /\ answers' = answers
  BY <1>6 DEF Submit, Crash, DatabaseUntouched, Released, vars
<1> QED
  BY <1>2, <1>3, <1>4, <1>5, <1>6 DEF Next

(* Nothing posted ever changes or disappears, but for POSTED becoming      *)
(* RECONCILED or VOIDED.                                                   *)
THEOREM HistoryStays == Spec => HistoryImmutable
<1>1. ASSUME LedgerInv, [Next]_vars
      PROVE  [KeepsHistory(db, db')]_db
  <2>1. CASE \E r \in Requests : Commit(r)
    <3>1. PICK r \in Requests : Commit(r)
      BY <2>1
    <3>2. requests[r].pc = "committing" /\ db' = work
      BY <3>1 DEF Commit, At, Released
    <3> QED
      BY <1>1, <3>2, CommitKeys
  <2>2. CASE \E r \in Requests : Answer(r)
    BY <2>2 DEF Answer, DatabaseUntouched
  <2> QED
    BY <1>1, <2>1, <2>2, CommittedSteps
<1> QED
  BY <1>1, LedgerInvariance, PTL DEF Spec, HistoryImmutable

(* The ledger implements the at-most-once service.                         *)
THEOREM LedgerIsAtMostOnce == Spec => AtMostOnceSpec
<1>1. Init => Abstract!Init
  BY DEF Init, EmptyStore, Abstract!Init
<1>2. ASSUME LedgerInv, [Next]_vars
      PROVE  [Abstract!Next]_<<db.records, answers>>
  <2>1. CASE \E r \in Requests : Commit(r)
    <3>1. PICK r \in Requests : Commit(r)
      BY <2>1
    <3> DEFINE c == requests[r].command
               result == requests[r].result
    <3>2. requests[r].pc = "committing" /\ db' = work /\ answers' = answers
      BY <3>1 DEF Commit, At, Released
    <3>3. CASE c.name \in KeyedNames
      <4>1. /\ c \in Commands /\ c.key \in Keys /\ result \in Results
            /\ db.records[c.key] = Null
            /\ \A k \in Keys : db.records[k] # Null => db.records[k].result.tx # result.tx
            /\ work.records = [db.records EXCEPT ![c.key] = [command |-> c, result |-> result]]
        BY <1>2, <3>2, <3>3, CommitKeys
      <4>2. Abstract!Execute(c.key, c, result)
        BY <3>2, <4>1 DEF Abstract!Execute, Abstract!Done
      <4> QED
        BY <4>1, <4>2 DEF Abstract!Next
    <3>4. CASE c.name \notin KeyedNames
      BY <1>2, <3>2, <3>4, CommitKeys
    <3> QED
      BY <3>3, <3>4
  <2>2. CASE \E r \in Requests : Answer(r)
    <3>1. PICK r \in Requests : Answer(r)
      BY <2>2
    <3> DEFINE c == requests[r].command
               answer == [command |-> c, result |-> requests[r].result]
    <3>2. /\ requests[r].pc = "answering" /\ db' = db
          /\ answers' = IF c.name \in KeyedNames THEN answers \cup {answer} ELSE answers
      BY <3>1 DEF Answer, At, Keyed, DatabaseUntouched
    <3>3. CASE c.name \in KeyedNames
      <4>1. /\ c.key \in Keys /\ c \in AllCommands /\ requests[r].result \in Results
            /\ db.records[c.key] = answer
        BY <1>2, <3>2, <3>3, Hand DEF InStep, RequestStates
      <4>2. answer # Null
        BY <4>1, NullIsNoRow DEF IdempotencyRows
      <4>3. Abstract!Answer(c.key)
        BY <3>2, <3>3, <4>1, <4>2 DEF Abstract!Answer
      <4> QED
        BY <4>1, <4>3 DEF Abstract!Next
    <3>4. CASE c.name \notin KeyedNames
      BY <3>2, <3>4
    <3> QED
      BY <3>3, <3>4
  <2> QED
    BY <1>2, <2>1, <2>2, CommittedSteps
<1> QED
  BY <1>1, <1>2, LedgerInvariance, PTL DEF Spec, AtMostOnceSpec, Abstract!Spec
=============================================================================
