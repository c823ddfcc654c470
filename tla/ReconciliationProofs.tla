------------------------- MODULE ReconciliationProofs -------------------------
(***************************************************************************)
(* What is proved of reconciliation and of the reports for every catalogue,*)
(* ledger, number of callers and set of requests: the invariants of the    *)
(* calls and the books; then, with sums over finite sets, what completions *)
(* promise of balances, the refinement of module Statements, and that the  *)
(* reports agree.                                                          *)
(***************************************************************************)
EXTENDS ReconciliationProperties, LedgerStoreProofs, FiniteSetTheorems,
        WellFoundedInduction

(* The calls and rows keep their shape.  What the effect of a call is, is  *)
(* said below, in CallChecked: its shape needs no sum.                     *)
CallShaped(p) ==
    /\ calls[p] = [pc |-> calls[p].pc, request |-> calls[p].request,
                   effect |-> calls[p].effect]
    /\ ~At(p, "idle") => calls[p].request \in Requests

Shaped ==
    /\ completed \in [Ids -> Rows \cup {Null}]
    /\ calls = [p \in Callers |-> calls[p]]
    /\ \A p \in Callers : CallShaped(p)

ReconciliationInv == Shaped /\ EntryReconciledOnce /\ CompletionsEvidenced

(* The row of a well-formed request can be told from no row.               *)
LEMMA RowTyped ==
    ASSUME NEW request \in Requests
    PROVE  Row(request) \in Rows /\ Row(request) # Null
<1>1. Row(request) \in Rows
  BY DEF Row, Rows, Requests
<1> QED
  BY <1>1, NullIsNoReconciliation

(* Every request a caller may send is well formed, and of posted entries.  *)
AllPosted(s, entries) == entries \subseteq {e \in EntryIds : IsPosted(s, e[1])}

LEMMA RequestsNowTyped ==
    ASSUME NEW request \in RequestsNow
    PROVE  request \in Requests /\ AllPosted(books, request.entries)
<1>1. PICK a \in Accounts : \E d \in Dates, n \in Observed, es \in SUBSET EntriesOn(a),
                              b \in LongIds :
        request = [account |-> a, cutoff |-> d, observed |-> n, entries |-> es, longId |-> b]
  BY DEF RequestsNow
<1>0. PICK d \in Dates, n \in Observed, es \in SUBSET EntriesOn(a), b \in LongIds :
        request = [account |-> a, cutoff |-> d, observed |-> n, entries |-> es, longId |-> b]
  BY <1>1
<1>2. AllPosted(books, es)
  BY DEF EntriesOn, KnownEntries, AllPosted
<1>3. b \in BOOLEAN /\ es \in SUBSET EntryIds
  BY <1>2, LongIdsBoolean DEF AllPosted
<1> QED
  BY <1>0, <1>2, <1>3 DEF Requests

(* A step that leaves the completed reconciliations and their SUCCESS      *)
(* events alone keeps what is said of them.                                *)
LEMMA NothingCompleted ==
    ASSUME ReconciliationInv, completed' = completed,
           evidence' = evidence \/ evidence' = evidence \cup {Failure}
    PROVE  /\ EntryReconciledOnce' /\ CompletionsEvidenced'
           /\ completed' \in [Ids -> Rows \cup {Null}]
<1>1. \A i \in Ids : Success(i) # Failure
  BY DEF Success, Failure
<1>2. \A i \in Ids : Success(i) \in evidence' <=> Success(i) \in evidence
  BY <1>1
<1> QED
  BY <1>2 DEF ReconciliationInv, Shaped, EntryReconciledOnce, CompletionsEvidenced,
              CompletedIds, Success

(* A step that moves one call keeps the calls shaped.                      *)
LEMMA CallMoved ==
    ASSUME Shaped, NEW p \in Callers, NEW call,
           calls' = [calls EXCEPT ![p] = call],
           call = [pc |-> call.pc, request |-> call.request, effect |-> call.effect],
           call.pc = "idle" \/ call.request \in Requests
    PROVE  calls' = [q \in Callers |-> calls'[q]] /\ \A q \in Callers : CallShaped(q)'
<1>1. calls'[p] = call
  BY DEF Shaped
<1>2. \A q \in Callers \ {p} : calls'[q] = calls[q]
  BY DEF Shaped
<1>3. calls' = [q \in Callers |-> calls'[q]]
  BY DEF Shaped
<1>4. CallShaped(p)'
  BY <1>1 DEF CallShaped, At
<1>5. ASSUME NEW q \in Callers \ {p} PROVE CallShaped(q)'
  BY <1>2 DEF Shaped, CallShaped, At
<1> QED
  BY <1>3, <1>4, <1>5

(* Completing stores a reconciliation of entries that no other has, with   *)
(* its own SUCCESS event.                                                  *)
LEMMA CompleteKeeps ==
    ASSUME ReconciliationInv, NEW p \in Callers, NEW i \in Ids, Complete(p, i)
    PROVE  ReconciliationInv'
<1> DEFINE request == calls[p].request
           row == Row(request)
<1>1. request \in Requests
  BY DEF ReconciliationInv, Shaped, CallShaped, Complete, At
<1>2. row \in Rows /\ row # Null /\ row.entries = request.entries
  BY <1>1, RowTyped DEF Row
<1>3. /\ completed' = [completed EXCEPT ![i] = row] /\ completed[i] = Null
      /\ request.entries \cap CompletedEntries = {}
      /\ evidence' = evidence \cup {Success(i)}
      /\ calls' = [calls EXCEPT ![p] = IdleCall]
  BY DEF Complete, EndCall, Writable, MembershipsFree
<1> HIDE DEF request, row
<1>4. /\ completed' \in [Ids -> Rows \cup {Null}]
      /\ completed'[i] = row /\ \A j \in Ids \ {i} : completed'[j] = completed[j]
  BY <1>2, <1>3 DEF ReconciliationInv, Shaped
<1>5. CompletedIds' = CompletedIds \cup {i}
  BY <1>2, <1>4 DEF CompletedIds
<1>6. EntryReconciledOnce'
  <2>1. ASSUME NEW j \in CompletedIds, j # i
        PROVE  completed'[j].entries \cap row.entries = {}
    BY <2>1, <1>2, <1>3, <1>4 DEF CompletedEntries, CompletedIds
  <2>2. ASSUME NEW j \in CompletedIds, NEW k \in CompletedIds, j # k, j # i, k # i
        PROVE  completed'[j].entries \cap completed'[k].entries = {}
    BY <2>2, <1>4 DEF ReconciliationInv, EntryReconciledOnce, CompletedIds
  <2> QED
    BY <2>1, <2>2, <1>4, <1>5 DEF EntryReconciledOnce
<1>7. CompletionsEvidenced'
  <2>1. \A j \in Ids : Success(j) = Success(i) => j = i
    BY DEF Success
  <2>2. \A j \in Ids : Success(j) \in evidence' <=> (Success(j) \in evidence \/ j = i)
    BY <2>1, <1>3
  <2> QED
    BY <2>2, <1>5 DEF ReconciliationInv, CompletionsEvidenced, CompletedIds, Success
<1>8. Shaped'
  BY <1>3, <1>4, CallMoved DEF ReconciliationInv, Shaped, IdleCall
<1> QED
  BY <1>6, <1>7, <1>8 DEF ReconciliationInv

(* Every other step of a caller moves its call and completes nothing.      *)
LEMMA CallKeeps ==
    ASSUME ReconciliationInv, NEW p \in Callers, Call(p)
    PROVE  ReconciliationInv'
<1> DEFINE Moves(call) ==
        /\ calls' = [calls EXCEPT ![p] = call]
        /\ call = [pc |-> call.pc, request |-> call.request, effect |-> call.effect]
        /\ call.pc = "idle" \/ call.request \in Requests
<1>a. ASSUME NEW call, Moves(call), completed' = completed,
             evidence' = evidence \/ evidence' = evidence \cup {Failure}
      PROVE  ReconciliationInv'
  <2>1. calls' = [q \in Callers |-> calls'[q]] /\ \A q \in Callers : CallShaped(q)'
    BY <1>a, CallMoved DEF ReconciliationInv
  <2> QED
    BY <1>a, <2>1, NothingCompleted DEF ReconciliationInv, Shaped
<1>b. CallShaped(p) /\ p \in DOMAIN calls
  BY DEF ReconciliationInv, Shaped
<1>c. ASSUME NEW pc, ~At(p, "idle"), Goto(p, pc)
      PROVE  Moves([calls[p] EXCEPT !.pc = pc])
  BY <1>b, <1>c DEF CallShaped, Goto
<1>d. ASSUME EndCall(p) PROVE Moves(IdleCall)
  BY <1>d DEF EndCall, IdleCall
<1>1. ASSUME NEW request \in RequestsNow, Submit(p, request) PROVE ReconciliationInv'
  <2> DEFINE call == [pc |-> "asked", request |-> request, effect |-> 0]
  <2>1. Moves(call) /\ completed' = completed /\ evidence' = evidence
    BY <1>1, RequestsNowTyped DEF Submit
  <2> QED
    BY <2>1, <1>a
<1>2. CASE ReadCandidates(p)
  <2> DEFINE call == [pc |-> "selected", request |-> calls[p].request,
                      effect |-> EffectOf(books, calls[p].request.entries)]
  <2>1. Moves(call) /\ completed' = completed /\ evidence' = evidence
    BY <1>2, <1>b DEF ReadCandidates, CallShaped, At
  <2>2. PICK c : Moves(c)
    BY <2>1
  <2> QED
    BY <2>1, <2>2, <1>a
<1>3. CASE ReadPrior(p)
  BY <1>3, <1>a, <1>c DEF ReadPrior, At
<1>4. CASE Refuse(p)
  BY <1>4, <1>a, <1>c DEF Refuse, At
<1>5. CASE LockTimeout(p)
  BY <1>5, <1>a, <1>c DEF LockTimeout, At
<1>6. CASE RecordFailure(p)
  BY <1>6, <1>a, <1>d DEF RecordFailure
<1>7. CASE FailureUnrecorded(p)
  BY <1>7, <1>a, <1>d DEF FailureUnrecorded
<1> QED
  BY <1>1, <1>2, <1>3, <1>4, <1>5, <1>6, <1>7, CompleteKeeps DEF Call

(* The invariant holds at the start and after every step.                  *)
THEOREM ReconciliationInvariance == Spec => []ReconciliationInv
<1>1. Init => ReconciliationInv
  <2> SUFFICES ASSUME Init PROVE ReconciliationInv
    OBVIOUS
  <2>1. CompletedIds = {}
    BY DEF Init, CompletedIds
  <2>2. Shaped
    BY DEF Init, Shaped, CallShaped, IdleCall, At
  <2> QED
    BY <2>1, <2>2 DEF Init, ReconciliationInv, EntryReconciledOnce, CompletionsEvidenced
<1>2. ReconciliationInv /\ [Next]_vars => ReconciliationInv'
  <2> SUFFICES ASSUME ReconciliationInv, [Next]_vars PROVE ReconciliationInv'
    OBVIOUS
  <2>1. ASSUME NEW p \in Callers, Call(p) PROVE ReconciliationInv'
    BY <2>1, CallKeeps
  <2>2. ASSUME UNCHANGED <<completed, evidence, calls>> PROVE ReconciliationInv'
    BY <2>2, NothingCompleted DEF ReconciliationInv, Shaped, CallShaped, At
  <2>3. CASE Crash
    BY <2>3, NothingCompleted DEF Crash, ReconciliationInv, Shaped, CallShaped, IdleCall, At
  <2>4. CASE Beside
    BY <2>4, <2>2 DEF Beside, PostMovement, ReverseTransaction, SetArchived
  <2>5. CASE UNCHANGED vars
    BY <2>5, <2>2 DEF vars
  <2> QED
    BY <2>1, <2>3, <2>4, <2>5 DEF Next
<1> QED
  BY <1>1, <1>2, PTL DEF Spec

(* AC-008.7: no entry is in two completed reconciliations.                 *)
THEOREM EntriesReconciledOnce == Spec => []EntryReconciledOnce
<1>1. ReconciliationInv => EntryReconciledOnce
  BY DEF ReconciliationInv
<1> QED
  BY <1>1, ReconciliationInvariance, PTL

(* The completed reconciliations are those with a SUCCESS event.           *)
THEOREM CompletionsHaveEvidence == Spec => []CompletionsEvidenced
<1>1. ReconciliationInv => CompletionsEvidenced
  BY DEF ReconciliationInv
<1> QED
  BY <1>1, ReconciliationInvariance, PTL

-----------------------------------------------------------------------------
(* The books under reconciliation.                                         *)

(* What is also kept of the books: entries of calls and of completed rows  *)
(* are posted ones, and a transaction shows as RECONCILED only once some   *)
(* entry of it is covered.  So when a completion adds an entry of a        *)
(* RECONCILED transaction both its entries are covered, and the projection *)
(* does not take it back, though accounts were unarchived in between.      *)
BooksInv ==
    /\ books \in Stores /\ StoreWhole(books)
    /\ \A p \in Callers : ~At(p, "idle") => AllPosted(books, calls[p].request.entries)
    /\ \A i \in CompletedIds : AllPosted(books, completed[i].entries)
    /\ \A t \in TxIds : InState(books, t, "RECONCILED") =>
         \E e \in {t} \X {1, 2} : e \in CompletedEntries

(* The projection writes nothing but the states of posted transactions.    *)
LEMMA ProjectedRows ==
    ASSUME NEW s \in Stores, NEW selected, AllPosted(s, selected)
    PROVE  LET s2 == WithProjectedStates(s, selected)
           IN  /\ s2 \in Stores /\ s2.accounts = s.accounts
               /\ s2.categories = s.categories /\ s2.drafts = s.drafts
               /\ \A t \in TransactionsOf(selected) :
                    /\ t \in TxIds /\ IsPosted(s, t) /\ s.transactions[t] \in TransactionRows
                    /\ ProjectedState(s, t, Covered(selected)) \in PostedStates
                    /\ s2.transactions[t] = [s.transactions[t] EXCEPT !.state =
                                                ProjectedState(s, t, Covered(selected))]
               /\ \A t \in TxIds \ TransactionsOf(selected) :
                    s2.transactions[t] = s.transactions[t]
<1> DEFINE projected(t) == [s.transactions[t] EXCEPT !.state =
                              ProjectedState(s, t, Covered(selected))]
           rows == [t \in TxIds |-> IF t \in TransactionsOf(selected)
                                    THEN projected(t) ELSE s.transactions[t]]
           s2 == WithProjectedStates(s, selected)
<1>1. s2 = [s EXCEPT !.transactions = rows]
  BY DEF WithProjectedStates
<1>2. ASSUME NEW t \in TransactionsOf(selected)
      PROVE  /\ t \in TxIds /\ IsPosted(s, t) /\ s.transactions[t] \in TransactionRows
             /\ ProjectedState(s, t, Covered(selected)) \in PostedStates
             /\ projected(t) \in TransactionRows
  <2>1. t \in TxIds /\ IsPosted(s, t)
    BY DEF TransactionsOf, AllPosted, EntryIds
  <2>2. s.transactions[t] \in TransactionRows /\ s.transactions[t].state \in PostedStates
    BY <2>1 DEF IsPosted, Stores
  <2>3. ProjectedState(s, t, Covered(selected)) \in PostedStates
    BY <2>2 DEF ProjectedState, PostedStates
  <2> HIDE DEF PostedStates
  <2> QED
    BY <2>1, <2>2, <2>3 DEF TransactionRows
<1>3. rows \in [TxIds -> TransactionRows \cup {Null}]
  <2> HIDE DEF projected
  <2> QED
    BY <1>2 DEF Stores
<1>4. /\ s2 \in Stores /\ s2.transactions = rows /\ s2.accounts = s.accounts
      /\ s2.categories = s.categories /\ s2.drafts = s.drafts
  <2> HIDE DEF rows, s2
  <2> QED
    BY <1>1, <1>3 DEF Stores
<1> HIDE DEF s2
<1> QED
  BY <1>2, <1>4 DEF s2

(* A row whose state alone moves forward keeps its history.                *)
LEMMA RowAdvanced ==
    ASSUME NEW row \in TransactionRows, NEW state \in PostedStates,
           row.state \in PostedStates,
           \/ state = row.state
           \/ row.state = "POSTED" /\ state \in {"RECONCILED", "VOIDED"}
           \/ row.state = "RECONCILED" /\ state = "VOIDED"
    PROVE  LET new == [row EXCEPT !.state = state]
           IN  /\ new \in TransactionRows /\ new.state = state /\ SameHistory(row, new)
               /\ new.entries = row.entries /\ new.kind = row.kind /\ new.cash = row.cash
  BY DEF SameHistory, TransactionRows, PostedStates

(* A projection the trigger allows keeps the books and the history.        *)
LEMMA ProjectedWhole ==
    ASSUME NEW s \in Stores, StoreWhole(s), NEW selected,
           AllPosted(s, selected), LifecycleAllows(s, WithProjectedStates(s, selected))
    PROVE  LET s2 == WithProjectedStates(s, selected)
           IN  /\ s2 \in Stores /\ StoreWhole(s2) /\ KeepsHistory(s, s2)
               /\ \A t \in TxIds : IsPosted(s2, t) <=> IsPosted(s, t)
<1> DEFINE s2 == WithProjectedStates(s, selected)
<1>1. /\ s2 \in Stores /\ s2.accounts = s.accounts
      /\ s2.categories = s.categories /\ s2.drafts = s.drafts
      /\ \A t \in TransactionsOf(selected) :
           /\ t \in TxIds /\ IsPosted(s, t) /\ s.transactions[t] \in TransactionRows
           /\ ProjectedState(s, t, Covered(selected)) \in PostedStates
           /\ s2.transactions[t] = [s.transactions[t] EXCEPT !.state =
                                       ProjectedState(s, t, Covered(selected))]
      /\ \A t \in TxIds \ TransactionsOf(selected) :
           s2.transactions[t] = s.transactions[t]
  BY ProjectedRows
<1>2. LifecycleAllows(s, s2)
  OBVIOUS
<1> HIDE DEF s2
<1>3. ASSUME NEW t \in TxIds, IsPosted(s, t)
      PROVE  /\ IsPosted(s2, t) /\ SameHistory(s.transactions[t], s2.transactions[t])
             /\ s2.transactions[t].entries = s.transactions[t].entries
             /\ s2.transactions[t].kind = s.transactions[t].kind
             /\ s2.transactions[t].cash = s.transactions[t].cash
  <2>1. s.transactions[t] \in TransactionRows /\ s.transactions[t].state \in PostedStates
    BY <1>3 DEF IsPosted, Stores
  <2>2. CASE t \in TransactionsOf(selected)
    <3> DEFINE row == s.transactions[t]
               state == ProjectedState(s, t, Covered(selected))
    <3>1. state \in PostedStates /\ s2.transactions[t] = [row EXCEPT !.state = state]
      BY <2>2, <1>1
    <3>2. \/ state = row.state
          \/ row.state = "POSTED" /\ state \in {"RECONCILED", "VOIDED"}
          \/ row.state = "RECONCILED" /\ state = "VOIDED"
      BY <3>1, <2>1, <1>2, <1>3 DEF LifecycleAllows, TransactionRows
    <3> HIDE DEF state, row
    <3>3. LET new == [row EXCEPT !.state = state]
          IN  /\ new \in TransactionRows /\ new.state = state /\ SameHistory(row, new)
              /\ new.entries = row.entries /\ new.kind = row.kind /\ new.cash = row.cash
      BY <2>1, <3>1, <3>2, RowAdvanced DEF row
    <3> QED
      BY <3>1, <3>3, NullIsNoRow DEF IsPosted, row
  <2>3. CASE t \notin TransactionsOf(selected)
    BY <2>3, <2>1, <1>1, <1>3, SameRowSameHistory DEF IsPosted
  <2> QED
    BY <2>2, <2>3
<1>4. ASSUME NEW t \in TxIds, ~IsPosted(s, t)
      PROVE  s2.transactions[t] = s.transactions[t]
  BY <1>1, <1>4
<1>5. ASSUME NEW t \in TxIds
      PROVE  /\ IsPosted(s2, t) <=> IsPosted(s, t)
             /\ IsDraft(s2, t) <=> IsDraft(s, t)
             /\ IsDraft(s2, t) => s2.transactions[t] = s.transactions[t]
  BY <1>3, <1>4 DEF IsPosted, IsDraft, PostedStates
<1>6. \A x : Exists(s2, x) <=> Exists(s, x)
  BY <1>1 DEF Exists
<1>7. StoreWhole(s2)
  <2>1. ASSUME NEW t \in TxIds, IsPosted(s2, t)
        PROVE  Balances(s2, t) /\ s2.transactions[t].entries \in EntryPairs
    <3>1. IsPosted(s, t)
      BY <2>1, <1>5
    <3>2. Balances(s, t) /\ s.transactions[t].entries \in EntryPairs
      BY <3>1 DEF StoreWhole, BooksOf
    <3> QED
      BY <3>1, <3>2, <1>3, <1>6 DEF Balances
  <2> QED
    BY <2>1, <1>1, <1>5 DEF StoreWhole, BooksOf
<1> QED
  BY <1>1, <1>3, <1>5, <1>7 DEF KeepsHistory, s2

(* Under the lock, with memberships free, the projection is a step forward.*)
LEMMA ProjectionForward ==
    ASSUME BooksInv, NEW selected, AllPosted(books, selected),
           MembershipsFree(selected)
    PROVE  LifecycleAllows(books, WithProjectedStates(books, selected))
<1> DEFINE s2 == WithProjectedStates(books, selected)
<1>1. /\ \A t \in TransactionsOf(selected) :
           /\ t \in TxIds /\ IsPosted(books, t) /\ books.transactions[t] \in TransactionRows
           /\ s2.transactions[t] = [books.transactions[t] EXCEPT !.state =
                                       ProjectedState(books, t, Covered(selected))]
      /\ \A t \in TxIds \ TransactionsOf(selected) :
           s2.transactions[t] = books.transactions[t]
  BY ProjectedRows DEF BooksInv
<1> HIDE DEF s2
<1>2. ASSUME NEW t \in TransactionsOf(selected), InState(books, t, "RECONCILED")
      PROVE  {t} \X {1, 2} \subseteq Covered(selected)
  <2>1. PICK e \in selected : e[1] = t /\ e \in TxIds \X {1, 2}
    BY DEF TransactionsOf, EntryIds, AllPosted
  <2>2. e \notin CompletedEntries
    BY <2>1 DEF MembershipsFree
  <2>3. PICK f \in {t} \X {1, 2} : f \in CompletedEntries
    BY <1>1, <1>2 DEF BooksInv
  <2> QED
    BY <2>1, <2>2, <2>3 DEF Covered
<1>3. ASSUME NEW t \in TransactionsOf(selected)
      PROVE  LET old == books.transactions[t].state
                 new == s2.transactions[t].state
             IN  \/ new = old
                 \/ old = "POSTED" /\ new \in {"RECONCILED", "VOIDED"}
                 \/ old = "RECONCILED" /\ new = "VOIDED"
  <2> DEFINE old == books.transactions[t].state
             new == s2.transactions[t].state
  <2>1. new = ProjectedState(books, t, Covered(selected)) /\ old \in PostedStates
    BY <1>1 DEF TransactionRows, IsPosted
  <2>2. old = "RECONCILED" => SettlingEntries(books, t) \subseteq Covered(selected)
    BY <1>1, <1>2 DEF InState, SettlingEntries
  <2> QED
    BY <2>1, <2>2 DEF ProjectedState, PostedStates
<1> QED
  BY <1>1, <1>3 DEF LifecycleAllows, s2

(* A step of a call that completes nothing keeps the books' invariant.     *)
LEMMA CallKeepsBooks ==
    ASSUME ReconciliationInv, BooksInv, NEW p \in Callers, NEW call,
           calls' = [calls EXCEPT ![p] = call],
           call.pc = "idle" \/ AllPosted(books, call.request.entries),
           UNCHANGED <<books, completed>>
    PROVE  BooksInv'
<1>1. calls'[p] = call /\ \A q \in Callers \ {p} : calls'[q] = calls[q]
  BY DEF ReconciliationInv, Shaped
<1>2. \A q \in Callers : ~At(q, "idle")' => AllPosted(books', calls'[q].request.entries)
  BY <1>1 DEF At, BooksInv
<1> QED
  BY <1>2 DEF BooksInv, CompletedIds, CompletedEntries, InState

(* A step of the ledger or the catalogue that posts, voids or archives     *)
(* keeps the books' invariant.                                             *)
LEMMA BooksMoveOn ==
    ASSUME BooksInv, UNCHANGED <<completed, calls>>,
           books' \in Stores, StoreWhole(books'),
           \A t \in TxIds : IsPosted(books, t) => IsPosted(books', t),
           \A t \in TxIds : InState(books, t, "RECONCILED")' => InState(books, t, "RECONCILED")
    PROVE  BooksInv'
<1>1. ASSUME NEW entries, AllPosted(books, entries) PROVE AllPosted(books', entries)
  BY <1>1 DEF AllPosted, EntryIds
<1>2. \A p \in Callers : ~At(p, "idle")' => AllPosted(books', calls'[p].request.entries)
  BY <1>1 DEF BooksInv, At
<1>3. \A i \in CompletedIds' : AllPosted(books', completed'[i].entries)
  BY <1>1 DEF BooksInv, CompletedIds
<1>4. CompletedEntries' = CompletedEntries
  BY DEF CompletedEntries, CompletedIds
<1> QED
  BY <1>2, <1>3, <1>4 DEF BooksInv

(* What completing does to the books and the memberships.                  *)
LEMMA CompleteStep ==
    ASSUME ReconciliationInv, BooksInv, NEW p \in Callers, NEW i \in Ids, Complete(p, i)
    PROVE  LET selected == calls[p].request.entries
           IN  /\ AllPosted(books, selected) /\ books' = WithProjectedStates(books, selected)
               /\ LifecycleAllows(books, books')
               /\ CompletedEntries' = Covered(selected)
               /\ CompletedIds' = CompletedIds \cup {i}
               /\ completed'[i].entries = selected
               /\ \A j \in CompletedIds : completed'[j] = completed[j]
               /\ calls' = [calls EXCEPT ![p] = IdleCall]
<1> DEFINE request == calls[p].request
           row == Row(request)
<1>1. request \in Requests
  BY DEF ReconciliationInv, Shaped, CallShaped, Complete, At
<1>2. row \in Rows /\ row # Null /\ row.entries = request.entries
  BY <1>1, RowTyped DEF Row
<1>3. AllPosted(books, request.entries)
  BY DEF BooksInv, Complete, At
<1>4. /\ completed' = [completed EXCEPT ![i] = row] /\ completed[i] = Null
      /\ books' = WithProjectedStates(books, request.entries)
      /\ LifecycleAllows(books, WithProjectedStates(books, request.entries))
      /\ calls' = [calls EXCEPT ![p] = IdleCall]
  BY DEF Complete, EndCall, Writable
<1> HIDE DEF request, row
<1>5. completed'[i] = row /\ \A j \in Ids \ {i} : completed'[j] = completed[j]
  BY <1>4 DEF ReconciliationInv, Shaped
<1>6. CompletedIds' = CompletedIds \cup {i}
  BY <1>2, <1>4, <1>5 DEF CompletedIds
<1>7. \A j \in CompletedIds : completed'[j] = completed[j]
  BY <1>4, <1>5 DEF CompletedIds
<1>8. CompletedEntries' = Covered(request.entries)
  BY <1>2, <1>5, <1>6, <1>7 DEF CompletedEntries, Covered
<1> QED
  BY <1>2, <1>3, <1>4, <1>5, <1>6, <1>7, <1>8 DEF request

(* Completing keeps the books' invariant.                                  *)
LEMMA CompleteKeepsBooks ==
    ASSUME ReconciliationInv, BooksInv, NEW p \in Callers, NEW i \in Ids, Complete(p, i)
    PROVE  BooksInv' /\ KeepsHistory(books, books')
<1> DEFINE selected == calls[p].request.entries
<1>1. /\ AllPosted(books, selected) /\ books' = WithProjectedStates(books, selected)
      /\ LifecycleAllows(books, books')
      /\ CompletedEntries' = Covered(selected)
      /\ CompletedIds' = CompletedIds \cup {i}
      /\ completed'[i].entries = selected
      /\ \A j \in CompletedIds : completed'[j] = completed[j]
      /\ calls' = [calls EXCEPT ![p] = IdleCall]
  BY CompleteStep
<1> HIDE DEF selected
<1>2. /\ books' \in Stores /\ StoreWhole(books') /\ KeepsHistory(books, books')
      /\ \A t \in TxIds : IsPosted(books', t) <=> IsPosted(books, t)
  BY <1>1, ProjectedWhole DEF BooksInv
<1>3. \A entries : AllPosted(books, entries) => AllPosted(books', entries)
  BY <1>2 DEF AllPosted, EntryIds
<1>4. \A q \in Callers : ~At(q, "idle")' => AllPosted(books', calls'[q].request.entries)
  <2>1. calls'[p] = IdleCall /\ \A q \in Callers \ {p} : calls'[q] = calls[q]
    BY <1>1 DEF ReconciliationInv, Shaped
  <2> QED
    BY <2>1, <1>3 DEF At, IdleCall, BooksInv
<1>5. \A j \in CompletedIds' : AllPosted(books', completed'[j].entries)
  BY <1>1, <1>3 DEF BooksInv
<1>6. ASSUME NEW t \in TxIds, InState(books, t, "RECONCILED")'
      PROVE  \E e \in {t} \X {1, 2} : e \in CompletedEntries'
  <2>1. CASE InState(books, t, "RECONCILED")
    BY <2>1, <1>1 DEF BooksInv, Covered
  <2>2. CASE ~InState(books, t, "RECONCILED")
    <3>1. /\ t \in TransactionsOf(selected) /\ IsPosted(books, t)
          /\ ProjectedState(books, t, Covered(selected)) = "RECONCILED"
          /\ books.transactions[t].state # "RECONCILED"
      <4>1. /\ \A x \in TransactionsOf(selected) :
                 /\ IsPosted(books, x) /\ books.transactions[x] \in TransactionRows
                 /\ books'.transactions[x] = [books.transactions[x] EXCEPT !.state =
                                               ProjectedState(books, x, Covered(selected))]
            /\ \A x \in TxIds \ TransactionsOf(selected) :
                 books'.transactions[x] = books.transactions[x]
        BY <1>1, ProjectedRows DEF BooksInv
      <4>2. t \in TransactionsOf(selected)
        BY <4>1, <2>2, <1>6 DEF InState, IsPosted
      <4>3. books'.transactions[t].state = ProjectedState(books, t, Covered(selected))
        BY <4>1, <4>2 DEF TransactionRows
      <4>4. books'.transactions[t].state = "RECONCILED"
        BY <1>6 DEF InState
      <4> QED
        BY <4>1, <4>2, <4>3, <4>4, <2>2 DEF InState
    <3>2. SettlingEntries(books, t) # {} /\ SettlingEntries(books, t) \subseteq Covered(selected)
      BY <3>1 DEF ProjectedState
    <3> QED
      BY <3>2, <1>1 DEF SettlingEntries
  <2> QED
    BY <2>1, <2>2
<1> QED
  BY <1>2, <1>4, <1>5, <1>6 DEF BooksInv

(* What posting a movement writes: one new posted row, on active accounts  *)
(* of the household.                                                       *)
LEMMA PostedRows ==
    ASSUME BooksInv, NEW c \in Commands, NEW t \in TxIds, PostMovement(c, t)
    PROVE  /\ books' \in Stores /\ StoreWhole(books') /\ KeepsHistory(books, books')
           /\ \A x \in TxIds : IsPosted(books', x) <=> IsPosted(books, x) \/ x = t
           /\ \A x \in TxIds \ {t} : books'.transactions[x] = books.transactions[x]
           /\ ~IsPosted(books, t) /\ books'.transactions[t].state = "POSTED"
           /\ \A a \in HouseholdAccounts : books'.accounts[a] = books.accounts[a]
           /\ \A k \in {1, 2} :
                LET target == books'.transactions[t].entries[k].target
                IN  target \in HouseholdAccounts => books'.accounts[target] = "active"
           /\ books'.reversals = books.reversals
           /\ \E selection \in Selections :
                /\ selection.kind # "REVERSAL" /\ ValidSelections(books, selection)
                /\ books'.transactions[t] = PostedRow(selection)
<1> DEFINE selection == PostedSelection(books, c)
           s1 == EnsureEquity(books, selection)
<1>1. /\ c \in AllCommands /\ WellFormed(c) /\ c.name \in KeyedNames
      /\ c.name \notin {"reverse_transaction", "post_draft"}
      /\ AcceptsPosting(books, c) /\ t \in FreshIn(books)
      /\ books' = Post(books, c, t) /\ books \in Stores /\ StoreWhole(books)
  BY CommandsTyped DEF PostMovement, CreateNames, KeyedNames, BooksInv
<1>2. /\ books' \in Stores /\ StoreWhole(books') /\ KeepsHistory(books, books')
      /\ ~IsPosted(books, t)
      /\ \A x \in TxIds : IsPosted(books', x) <=> IsPosted(books, x) \/ x = t
  BY <1>1, PostWhole
<1>3. /\ s1.transactions = books.transactions /\ s1.reversals = books.reversals
      /\ \A a \in HouseholdAccounts : s1.accounts[a] = books.accounts[a]
  <2>1. Equity \notin HouseholdAccounts
    BY IdentifiersDisjoint
  <2> HIDE DEF selection
  <2> QED
    BY <2>1, <1>1 DEF EnsureEquity, SetAccount, Stores, Accounts
<1>4. books' = [s1 EXCEPT !.transactions[t] = PostedRow(selection)]
  BY <1>1 DEF Post, AddPosted
<1>5. s1 \in Stores
  <2>1. Equity \in Accounts
    BY DEF Accounts
  <2> HIDE DEF selection
  <2>2. [books.accounts EXCEPT ![Equity] = "active"] \in [Accounts -> CatalogStates]
    BY <2>1, <1>1 DEF Stores, CatalogStates
  <2>3. \/ s1 = books
        \/ s1 = [books EXCEPT !.accounts = [books.accounts EXCEPT ![Equity] = "active"]]
    BY DEF EnsureEquity, SetAccount
  <2> HIDE DEF s1
  <2> QED
    BY <2>2, <2>3, <1>1 DEF Stores
<1> HIDE DEF s1
<1>6. /\ books'.transactions[t] = PostedRow(selection)
      /\ books'.reversals = books.reversals
      /\ \A x \in TxIds \ {t} : books'.transactions[x] = books.transactions[x]
      /\ \A a \in HouseholdAccounts : books'.accounts[a] = books.accounts[a]
  BY <1>3, <1>4, <1>5 DEF Stores
<1>7. /\ selection \in Selections /\ selection.kind # "REVERSAL"
      /\ ValidSelections(books, selection)
  BY <1>1, PostedRowWhole
<1> HIDE DEF selection
<1>8. ASSUME NEW k \in {1, 2},
             PostedRow(selection).entries[k].target \in HouseholdAccounts
      PROVE  books.accounts[PostedRow(selection).entries[k].target] = "active"
  <2>1. PostedRow(selection).entries = RecipeEntries(selection)
    BY DEF PostedRow
  <2>2. /\ Equity \notin HouseholdAccounts
        /\ \A x \in Categories : x \notin HouseholdAccounts
    BY IdentifiersDisjoint DEF Accounts
  <2>3. selection.kind \in {"OPENING", "INCOME", "EXPENSE", "TRANSFER"}
    BY <1>7 DEF Selections, TransactionKinds
  <2> QED
    BY <2>1, <2>2, <2>3, <1>7, <1>8
    DEF ValidSelections, ActiveAccount, ActiveCategory, RecipeEntries, OpeningEntries,
        IncomeEntries, ExpenseEntries, TransferEntries, Debit, Credit, Entry
<1>9. PostedRow(selection).state = "POSTED"
  BY DEF PostedRow
<1> QED
  BY <1>2, <1>6, <1>7, <1>8, <1>9

(* What a reversal writes: a posted reversal on the accounts of the        *)
(* original, which is voided.                                              *)
LEMMA ReversedRows ==
    ASSUME BooksInv, NEW c \in Commands, NEW t \in TxIds, NEW today \in Dates,
           ReverseTransaction(c, t, today)
    PROVE  /\ books' \in Stores /\ StoreWhole(books') /\ KeepsHistory(books, books')
           /\ \A x \in TxIds : IsPosted(books', x) <=> IsPosted(books, x) \/ x = t
           /\ c.tx \in TxIds /\ IsPosted(books, c.tx) /\ c.tx # t
           /\ books'.transactions[c.tx] = [books.transactions[c.tx] EXCEPT !.state = "VOIDED"]
           /\ books.transactions[c.tx] \in TransactionRows
           /\ \A x \in TxIds \ {t, c.tx} : books'.transactions[x] = books.transactions[x]
           /\ ~IsPosted(books, t) /\ books'.transactions[t].state = "POSTED"
           /\ books'.accounts = books.accounts
           /\ \A k \in {1, 2} : books'.transactions[t].entries[k].target
                                  = books.transactions[c.tx].entries[k].target
           /\ LET original == books.transactions[c.tx]
                  row == books'.transactions[t]
              IN  /\ row.entries = ReversalEntries(original.entries)
                  /\ row.cash = NoDate => original.cash = NoDate
           /\ books'.reversals = books.reversals \cup {[original |-> c.tx, reversal |-> t]}
<1> DEFINE original == books.transactions[c.tx]
           row == ReversalRow(original, c, today)
           posted == AddPosted(books, t, row)
           voided == MarkVoided(posted, c.tx)
<1>1. /\ c \in AllCommands /\ c.tx \in TxIds /\ c.selection = Null
      /\ AcceptsReversal(books, c) /\ t \in FreshIn(books)
      /\ books' = Reverse(books, c, t, today, Null) /\ books \in Stores /\ StoreWhole(books)
  <2>1. c \in AllCommands /\ WellFormed(c)
    BY CommandsTyped
  <2> QED
    BY <2>1 DEF ReverseTransaction, WellFormed, AllCommands, BooksInv
<1>2. /\ books' \in Stores /\ StoreWhole(books') /\ KeepsHistory(books, books')
      /\ ~IsPosted(books, t)
      /\ \A x \in TxIds : IsPosted(books', x) <=> IsPosted(books, x) \/ x = t
  BY <1>1, ReverseWhole
<1>3. /\ IsPosted(books, c.tx) /\ c.tx # t
  BY <1>1, <1>2 DEF AcceptsReversal
<1>4. original \in TransactionRows /\ original.entries \in EntryPairs
  BY <1>1, <1>3 DEF IsPosted, Stores, StoreWhole
<1>5. /\ posted \in Stores /\ posted.transactions[c.tx] = original
      /\ \A x \in TxIds \ {t} : posted.transactions[x] = books.transactions[x]
  BY <1>1, AddReversalWhole
<1>6. /\ posted.transactions[t] = row /\ posted.accounts = books.accounts
      /\ posted.reversals = books.reversals
  BY <1>1 DEF AddPosted, Stores
<1>7. books' = [[posted EXCEPT !.transactions[c.tx].state = "VOIDED"] EXCEPT
                  !.reversals = @ \cup {[original |-> c.tx, reversal |-> t]}]
  BY <1>1 DEF Reverse, AddReversalLink, MarkVoided
<1> HIDE DEF posted, row
<1>8. /\ books'.transactions = [posted.transactions EXCEPT
                                ![c.tx] = [original EXCEPT !.state = "VOIDED"]]
      /\ books'.accounts = posted.accounts
      /\ books'.reversals = posted.reversals \cup {[original |-> c.tx, reversal |-> t]}
  BY <1>1, <1>5, <1>7 DEF Stores
<1>9. /\ books'.transactions[c.tx] = [original EXCEPT !.state = "VOIDED"]
      /\ books'.transactions[t] = row
      /\ \A x \in TxIds \ {t, c.tx} : books'.transactions[x] = books.transactions[x]
  BY <1>1, <1>3, <1>5, <1>6, <1>8 DEF Stores
<1>10. row.state = "POSTED" /\ row.entries = ReversalEntries(original.entries)
  BY DEF row, ReversalRow
<1>11. \A k \in {1, 2} : row.entries[k].target = original.entries[k].target
  BY <1>4, <1>10, ReversalBalances
<1>12. row.cash = NoDate => original.cash = NoDate
  BY DatesAndCents DEF row, ReversalRow, NoDate
<1> HIDE DEF original
<1> QED
  BY <1>1, <1>2, <1>3, <1>4, <1>6, <1>8, <1>9, <1>10, <1>11, <1>12 DEF original

(* Archiving and unarchiving write one catalogue row.                      *)
LEMMA ArchivedRows ==
    ASSUME BooksInv, NEW a \in Changing, NEW state \in {"active", "archived"},
           SetArchived(a, state)
    PROVE  /\ books' \in Stores /\ StoreWhole(books') /\ KeepsHistory(books, books')
           /\ \A t \in TxIds : IsPosted(books', t) <=> IsPosted(books, t)
           /\ books'.transactions = books.transactions
<1>1. a \in Accounts /\ books' = SetAccount(books, a, state)
  BY CatalogueTyped DEF SetArchived, Accounts
<1> QED
  BY <1>1, CatalogueWhole DEF BooksInv

(* The ledger and the catalogue beside the callers keep the books whole.   *)
LEMMA BesideKeepsBooks ==
    ASSUME BooksInv, Beside
    PROVE  BooksInv' /\ KeepsHistory(books, books')
<1>1. ASSUME NEW c \in Commands, NEW t \in TxIds, PostMovement(c, t)
      PROVE  BooksInv' /\ KeepsHistory(books, books')
  <2>1. /\ books' \in Stores /\ StoreWhole(books') /\ KeepsHistory(books, books')
        /\ \A x \in TxIds : IsPosted(books', x) <=> IsPosted(books, x) \/ x = t
        /\ \A x \in TxIds \ {t} : books'.transactions[x] = books.transactions[x]
        /\ books'.transactions[t].state = "POSTED"
    BY <1>1, PostedRows
  <2>2. \A x \in TxIds : InState(books, x, "RECONCILED")' => InState(books, x, "RECONCILED")
    BY <2>1 DEF InState, IsPosted
  <2> QED
    BY <1>1, <2>1, <2>2, BooksMoveOn DEF PostMovement
<1>2. ASSUME NEW c \in Commands, NEW t \in TxIds, NEW today \in Dates,
             ReverseTransaction(c, t, today)
      PROVE  BooksInv' /\ KeepsHistory(books, books')
  <2>1. /\ books' \in Stores /\ StoreWhole(books') /\ KeepsHistory(books, books')
        /\ \A x \in TxIds : IsPosted(books', x) <=> IsPosted(books, x) \/ x = t
        /\ books'.transactions[c.tx] = [books.transactions[c.tx] EXCEPT !.state = "VOIDED"]
        /\ books.transactions[c.tx] \in TransactionRows
        /\ \A x \in TxIds \ {t, c.tx} : books'.transactions[x] = books.transactions[x]
        /\ books'.transactions[t].state = "POSTED"
    BY <1>2, ReversedRows
  <2>2. \A x \in TxIds : InState(books, x, "RECONCILED")' => InState(books, x, "RECONCILED")
    BY <2>1 DEF InState, IsPosted, TransactionRows
  <2> QED
    BY <1>2, <2>1, <2>2, BooksMoveOn DEF ReverseTransaction
<1>3. ASSUME NEW a \in Changing, NEW state \in {"active", "archived"}, SetArchived(a, state)
      PROVE  BooksInv' /\ KeepsHistory(books, books')
  <2>1. /\ books' \in Stores /\ StoreWhole(books') /\ KeepsHistory(books, books')
        /\ \A t \in TxIds : IsPosted(books', t) <=> IsPosted(books, t)
        /\ books'.transactions = books.transactions
    BY <1>3, ArchivedRows
  <2>2. \A x \in TxIds : InState(books, x, "RECONCILED")' => InState(books, x, "RECONCILED")
    BY <2>1 DEF InState, IsPosted
  <2> QED
    BY <1>3, <2>1, <2>2, BooksMoveOn DEF SetArchived
<1> QED
  BY <1>1, <1>2, <1>3 DEF Beside

(* A call step other than Complete moves only its call, whose entries are  *)
(* posted ones.                                                            *)
LEMMA CallStepKeepsBooks ==
    ASSUME ReconciliationInv, BooksInv, NEW p \in Callers, Call(p),
           ~\E i \in Ids : Complete(p, i)
    PROVE  BooksInv' /\ UNCHANGED <<books, completed>>
<1> DEFINE Moves(call) ==
        /\ calls' = [calls EXCEPT ![p] = call]
        /\ call.pc = "idle" \/ AllPosted(books, call.request.entries)
<1>a. ASSUME NEW call, Moves(call), UNCHANGED <<books, completed>>
      PROVE  BooksInv' /\ UNCHANGED <<books, completed>>
  BY <1>a, CallKeepsBooks
<1>b. CallShaped(p) /\ p \in DOMAIN calls
  BY DEF ReconciliationInv, Shaped
<1>c. ASSUME NEW pc, ~At(p, "idle"), Goto(p, pc)
      PROVE  Moves([calls[p] EXCEPT !.pc = pc])
  <2>1. AllPosted(books, calls[p].request.entries)
    BY <1>c DEF BooksInv
  <2>2. [calls[p] EXCEPT !.pc = pc].request = calls[p].request
    BY <1>b DEF CallShaped
  <2> QED
    BY <2>1, <2>2, <1>c DEF Goto
<1>d. ASSUME EndCall(p) PROVE Moves(IdleCall)
  BY <1>d DEF EndCall, IdleCall
<1>1. ASSUME NEW request \in RequestsNow, Submit(p, request)
      PROVE  BooksInv' /\ UNCHANGED <<books, completed>>
  <2> DEFINE call == [pc |-> "asked", request |-> request, effect |-> 0]
  <2>1. Moves(call) /\ UNCHANGED <<books, completed>>
    BY <1>1, RequestsNowTyped DEF Submit
  <2> QED
    BY <2>1, <1>a
<1>2. CASE ReadCandidates(p)
  <2> DEFINE call == [pc |-> "selected", request |-> calls[p].request,
                      effect |-> EffectOf(books, calls[p].request.entries)]
  <2>1. Moves(call) /\ UNCHANGED <<books, completed>>
    BY <1>2 DEF ReadCandidates, At, BooksInv
  <2>2. PICK c : Moves(c)
    BY <2>1
  <2> QED
    BY <2>1, <2>2, <1>a
<1>3. CASE ReadPrior(p)
  BY <1>3, <1>a, <1>c DEF ReadPrior, At
<1>4. CASE Refuse(p)
  BY <1>4, <1>a, <1>c DEF Refuse, At
<1>5. CASE LockTimeout(p)
  BY <1>5, <1>a, <1>c DEF LockTimeout, At
<1>6. CASE RecordFailure(p)
  BY <1>6, <1>a, <1>d DEF RecordFailure
<1>7. CASE FailureUnrecorded(p)
  BY <1>7, <1>a, <1>d DEF FailureUnrecorded
<1> QED
  BY <1>1, <1>2, <1>3, <1>4, <1>5, <1>6, <1>7 DEF Call

(* What a store is to itself. *)
LEMMA HistoryReflexive == ASSUME NEW s \in Stores PROVE KeepsHistory(s, s)
<1> SUFFICES ASSUME NEW t \in TxIds, IsPosted(s, t)
             PROVE  SameHistory(s.transactions[t], s.transactions[t])
  BY DEF KeepsHistory
<1>1. s.transactions[t] \in TransactionRows /\ s.transactions[t].state \in PostedStates
  BY DEF IsPosted, Stores
<1> QED
  BY <1>1, SameRowSameHistory

(* Every step keeps the books' invariant and the posted history.           *)
LEMMA StepKeepsBooks ==
    ASSUME ReconciliationInv, BooksInv, [Next]_vars
    PROVE  BooksInv' /\ KeepsHistory(books, books')
<1>1. ASSUME UNCHANGED books, BooksInv' PROVE BooksInv' /\ KeepsHistory(books, books')
  BY <1>1, HistoryReflexive DEF BooksInv
<1>2. ASSUME NEW p \in Callers, Call(p) PROVE BooksInv' /\ KeepsHistory(books, books')
  <2>1. CASE \E i \in Ids : Complete(p, i)
    BY <2>1, CompleteKeepsBooks
  <2>2. CASE ~\E i \in Ids : Complete(p, i)
    BY <2>2, <1>1, <1>2, CallStepKeepsBooks
  <2> QED
    BY <2>1, <2>2
<1>3. CASE Crash
  BY <1>3, <1>1 DEF Crash, BooksInv, At, IdleCall, CompletedIds, CompletedEntries, InState
<1>4. CASE UNCHANGED vars
  BY <1>4, <1>1 DEF vars, BooksInv, At, CompletedIds, CompletedEntries, InState
<1> QED
  BY <1>2, <1>3, <1>4, BesideKeepsBooks DEF Next

(* The books start whole, with nothing posted.                             *)
LEMMA BooksInvInit == Init => BooksInv
<1> SUFFICES ASSUME Init PROVE BooksInv
  OBVIOUS
<1>1. books \in Stores /\ StoreWhole(books)
  BY CatalogueTyped, EmptyStoreWhole DEF Init
<1>2. \A t \in TxIds : ~IsPosted(books, t)
  BY DEF Init, EmptyStore, IsPosted
<1>3. CompletedIds = {}
  BY DEF Init, CompletedIds
<1>4. \A p \in Callers : At(p, "idle")
  BY DEF Init, At, IdleCall
<1> QED
  BY <1>1, <1>2, <1>3, <1>4 DEF BooksInv, InState

(* Reconciling, posting, reversing and archiving side by side, the books   *)
(* stay balanced and whole.                                                *)
THEOREM BooksStayWhole == Spec => []BooksInv
<1>1. ReconciliationInv /\ BooksInv /\ [Next]_vars => BooksInv'
  BY StepKeepsBooks
<1> QED
  BY <1>1, BooksInvInit, ReconciliationInvariance, PTL DEF Spec

(* No step takes back or rewrites posted history: completed                *)
(* reconciliations move states only as the trigger allows.                 *)
THEOREM ReconciledHistoryStays == Spec => [][KeepsHistory(books, books')]_vars
<1>1. ReconciliationInv /\ BooksInv /\ [Next]_vars => KeepsHistory(books, books')
  BY StepKeepsBooks
<1> QED
  BY <1>1, BooksStayWhole, ReconciliationInvariance, PTL DEF Spec

(* The lifecycle trigger never stops a completion whose memberships are    *)
(* free, whatever was archived, reversed or completed since its checks.    *)
THEOREM ProjectionsMoveForward == Spec => []ProjectionNeverMovesBack
<1>1. BooksInv => ProjectionNeverMovesBack
  <2> SUFFICES ASSUME BooksInv, NEW p \in Callers, At(p, "writing"),
                      MembershipsFree(calls[p].request.entries)
               PROVE  LifecycleAllows(books, WithProjectedStates(books, calls[p].request.entries))
    BY DEF ProjectionNeverMovesBack
  <2>1. AllPosted(books, calls[p].request.entries)
    BY DEF BooksInv, At
  <2> QED
    BY <2>1, ProjectionForward
<1> QED
  BY <1>1, BooksStayWhole, PTL

-----------------------------------------------------------------------------
(* When a transaction shows as RECONCILED.                                 *)

(* A step that completes nothing shows no transaction as RECONCILED that   *)
(* was not.                                                                *)
LEMMA OnlyCompletingReconciles ==
    ASSUME ReconciliationInv, BooksInv, [Next]_vars,
           ~\E p \in Callers, i \in Ids : Complete(p, i)
    PROVE  \A t \in TxIds : InState(books, t, "RECONCILED")' => InState(books, t, "RECONCILED")
<1>1. ASSUME NEW p \in Callers, Call(p) PROVE UNCHANGED books
  BY <1>1, CallStepKeepsBooks
<1>2. ASSUME NEW c \in Commands, NEW t \in TxIds, PostMovement(c, t)
      PROVE  \A x \in TxIds : InState(books, x, "RECONCILED")' => InState(books, x, "RECONCILED")
  <2>1. /\ \A x \in TxIds \ {t} : books'.transactions[x] = books.transactions[x]
        /\ books'.transactions[t].state = "POSTED"
    BY <1>2, PostedRows
  <2> QED
    BY <2>1 DEF InState, IsPosted
<1>3. ASSUME NEW c \in Commands, NEW t \in TxIds, NEW today \in Dates,
             ReverseTransaction(c, t, today)
      PROVE  \A x \in TxIds : InState(books, x, "RECONCILED")' => InState(books, x, "RECONCILED")
  <2>1. /\ books'.transactions[c.tx] = [books.transactions[c.tx] EXCEPT !.state = "VOIDED"]
        /\ books.transactions[c.tx] \in TransactionRows
        /\ \A x \in TxIds \ {t, c.tx} : books'.transactions[x] = books.transactions[x]
        /\ books'.transactions[t].state = "POSTED"
    BY <1>3, ReversedRows
  <2> QED
    BY <2>1 DEF InState, IsPosted, TransactionRows
<1>4. ASSUME NEW a \in Changing, NEW state \in {"active", "archived"}, SetArchived(a, state)
      PROVE  books'.transactions = books.transactions
  BY <1>4, ArchivedRows
<1> QED
  BY <1>1, <1>2, <1>3, <1>4 DEF Next, Beside, Crash, vars, InState, IsPosted

(* The projected row of a transaction the completion touches.              *)
LEMMA CompletedRows ==
    ASSUME ReconciliationInv, BooksInv, NEW p \in Callers, NEW i \in Ids, Complete(p, i),
           NEW t \in TxIds, IsPosted(books, t)
    PROVE  LET selected == calls[p].request.entries
           IN  /\ IsPosted(books', t)
               /\ books'.transactions[t].entries = books.transactions[t].entries
               /\ books'.accounts = books.accounts
               /\ t \in TransactionsOf(selected) =>
                    books'.transactions[t].state = ProjectedState(books, t, CompletedEntries')
               /\ t \notin TransactionsOf(selected) =>
                    /\ books'.transactions[t] = books.transactions[t]
                    /\ \A e \in {t} \X {1, 2} : e \in CompletedEntries' <=> e \in CompletedEntries
<1> DEFINE selected == calls[p].request.entries
<1>1. /\ AllPosted(books, selected) /\ books' = WithProjectedStates(books, selected)
      /\ LifecycleAllows(books, books') /\ CompletedEntries' = Covered(selected)
  BY CompleteStep
<1> HIDE DEF selected
<1>2. /\ books'.accounts = books.accounts
      /\ \A x \in TransactionsOf(selected) :
           /\ books.transactions[x] \in TransactionRows
           /\ books'.transactions[x] = [books.transactions[x] EXCEPT !.state =
                                          ProjectedState(books, x, Covered(selected))]
      /\ \A x \in TxIds \ TransactionsOf(selected) :
           books'.transactions[x] = books.transactions[x]
  BY <1>1, ProjectedRows DEF BooksInv
<1>3. IsPosted(books', t)
  BY <1>1, ProjectedWhole DEF BooksInv
<1>4. t \in TransactionsOf(selected) =>
        /\ books'.transactions[t].entries = books.transactions[t].entries
        /\ books'.transactions[t].state = ProjectedState(books, t, CompletedEntries')
  BY <1>1, <1>2 DEF TransactionRows
<1>5. t \notin TransactionsOf(selected) =>
        \A e \in {t} \X {1, 2} : e \in CompletedEntries' <=> e \in CompletedEntries
  BY <1>1 DEF Covered, TransactionsOf
<1> QED
  BY <1>2, <1>3, <1>4, <1>5 DEF selected

(* AC-008.9, AC-008.10: a transaction becomes RECONCILED only in the step  *)
(* that covers the last entry it has on accounts reconcilable then.        *)
THEOREM ReconciledIsEarned == Spec => ReconciledEarned
<1>1. ASSUME ReconciliationInv, BooksInv, [Next]_vars, NEW t \in TxIds,
             ~InState(books, t, "RECONCILED"), InState(books, t, "RECONCILED")'
      PROVE  /\ \E e \in {t} \X {1, 2} : e \in CompletedEntries'
             /\ SettlingEntries(books, t)' \subseteq CompletedEntries'
  <2>1. PICK p \in Callers, i \in Ids : Complete(p, i)
    BY <1>1, OnlyCompletingReconciles
  <2>2. IsPosted(books', t) /\ BooksInv' /\ IsPosted(books, t)
    <3>1. BooksInv' /\ KeepsHistory(books, books') /\ IsPosted(books', t)
      BY <1>1, StepKeepsBooks DEF InState
    <3>2. \A x \in TxIds : IsPosted(books', x) <=> IsPosted(books, x)
      <4>1. /\ AllPosted(books, calls[p].request.entries)
            /\ books' = WithProjectedStates(books, calls[p].request.entries)
            /\ LifecycleAllows(books, books')
        BY <1>1, <2>1, CompleteStep
      <4> QED
        BY <1>1, <4>1, ProjectedWhole DEF BooksInv
    <3> QED
      BY <3>1, <3>2
  <2>3. /\ books'.transactions[t].entries = books.transactions[t].entries
        /\ books'.accounts = books.accounts
        /\ t \in TransactionsOf(calls[p].request.entries) =>
             books'.transactions[t].state = ProjectedState(books, t, CompletedEntries')
        /\ t \notin TransactionsOf(calls[p].request.entries) =>
             books'.transactions[t] = books.transactions[t]
    BY <1>1, <2>1, <2>2, CompletedRows
  <2>4. SettlingEntries(books, t)' = SettlingEntries(books, t)
    BY <2>3 DEF SettlingEntries, EntryOf, EligibleAccounts
  <2>5. ProjectedState(books, t, CompletedEntries') = "RECONCILED"
    BY <1>1, <2>2, <2>3 DEF InState
  <2>6. SettlingEntries(books, t) # {} /\ SettlingEntries(books, t) \subseteq CompletedEntries'
    BY <1>1, <2>2, <2>5 DEF ProjectedState, InState
  <2> QED
    BY <2>4, <2>6 DEF SettlingEntries
<1>2. ReconciliationInv /\ BooksInv /\ [Next]_vars =>
        [\A t \in TxIds : ~InState(books, t, "RECONCILED") /\ InState(books, t, "RECONCILED")' =>
           /\ \E e \in {t} \X {1, 2} : e \in CompletedEntries'
           /\ SettlingEntries(books, t)' \subseteq CompletedEntries']_vars
  BY <1>1
<1> QED
  BY <1>2, BooksStayWhole, ReconciliationInvariance, PTL DEF Spec, ReconciledEarned

(* While nothing is archived, the accounts of posted entries are active,   *)
(* so that the eligible accounts a projection asks for are all the         *)
(* reconcilable ones of the transaction.                                   *)
AccountsOpen ==
    \A t \in TxIds, k \in {1, 2} :
        LET target == books.transactions[t].entries[k].target
        IN  IsPosted(books, t) /\ target \in HouseholdAccounts
              => books.accounts[target] = "active"

(* Then the entries a projection asks for are all the settling ones.       *)
LEMMA AllSettling ==
    ASSUME AccountsOpen, NEW t \in TxIds, IsPosted(books, t)
    PROVE  SettlingEntries(books, t) = Settling(t)
<1>1. ASSUME NEW k \in {1, 2}, EntryOf(books, <<t, k>>).target \in Reconcilable
      PROVE  EntryOf(books, <<t, k>>).target \in EligibleAccounts(books)
  BY <1>1, ReconcilableAccounts DEF AccountsOpen, EntryOf, EligibleAccounts
<1> QED
  BY <1>1 DEF SettlingEntries, Settling, EligibleAccounts

(* What is said of one transaction.                                        *)
ExactFor(t) ==
    LET covered == Settling(t) # {} /\ Settling(t) \subseteq CompletedEntries
    IN  /\ InState(books, t, "POSTED") => ~covered
        /\ InState(books, t, "RECONCILED") => covered

(* A completion shows exactly the covered transactions as RECONCILED.      *)
LEMMA CompleteKeepsExact ==
    ASSUME ReconciliationInv, BooksInv, AccountsOpen, ReconciledExactlyWhenCovered,
           NEW p \in Callers, NEW i \in Ids, Complete(p, i)
    PROVE  AccountsOpen' /\ ReconciledExactlyWhenCovered'
<1>0. \A t \in TxIds : IsPosted(books', t) <=> IsPosted(books, t)
  <2>1. /\ AllPosted(books, calls[p].request.entries)
        /\ books' = WithProjectedStates(books, calls[p].request.entries)
        /\ LifecycleAllows(books, books')
    BY CompleteStep
  <2> QED
    BY <2>1, ProjectedWhole DEF BooksInv
<1>1. ASSUME NEW t \in TxIds, IsPosted(books, t)
      PROVE  /\ books'.transactions[t].entries = books.transactions[t].entries
             /\ books'.accounts = books.accounts
             /\ ExactFor(t)'
  <2>1. /\ IsPosted(books', t)
        /\ books'.transactions[t].entries = books.transactions[t].entries
        /\ books'.accounts = books.accounts
        /\ t \in TransactionsOf(calls[p].request.entries) =>
             books'.transactions[t].state = ProjectedState(books, t, CompletedEntries')
        /\ t \notin TransactionsOf(calls[p].request.entries) =>
             /\ books'.transactions[t] = books.transactions[t]
             /\ \A e \in {t} \X {1, 2} : e \in CompletedEntries' <=> e \in CompletedEntries
    BY <1>1, CompletedRows
  <2>2. Settling(t)' = Settling(t) /\ Settling(t) \subseteq {t} \X {1, 2}
    BY <2>1 DEF Settling, EntryOf
  <2>3. ExactFor(t)
    BY DEF ReconciledExactlyWhenCovered, ExactFor
  <2>4. CASE t \notin TransactionsOf(calls[p].request.entries)
    <3>1. Settling(t) \subseteq CompletedEntries' <=> Settling(t) \subseteq CompletedEntries
      BY <2>1, <2>2, <2>4
    <3> QED
      BY <3>1, <2>1, <2>2, <2>3, <2>4 DEF ExactFor, InState, IsPosted
  <2>5. CASE t \in TransactionsOf(calls[p].request.entries)
    <3>1. SettlingEntries(books, t) = Settling(t)
      BY <1>1, AllSettling
    <3>2. books.transactions[t].state \in PostedStates
      BY <1>1 DEF IsPosted
    <3>3. books.transactions[t].state = "RECONCILED" => Settling(t) # {}
      BY <1>1, <2>3 DEF ExactFor, InState
    <3>4. LET covered == Settling(t) # {} /\ Settling(t) \subseteq CompletedEntries'
              state == ProjectedState(books, t, CompletedEntries')
          IN  (state = "POSTED" => ~covered) /\ (state = "RECONCILED" => covered)
      BY <3>1, <3>2, <3>3 DEF ProjectedState, PostedStates
    <3> QED
      BY <3>4, <2>1, <2>2, <2>5 DEF ExactFor, InState
  <2> QED
    BY <2>1, <2>4, <2>5
<1>2. ASSUME NEW t \in TxIds, ~IsPosted(books, t) PROVE ExactFor(t)'
  BY <1>0, <1>2 DEF ExactFor, InState
<1>3. AccountsOpen'
  BY <1>0, <1>1 DEF AccountsOpen
<1>4. \A t \in TxIds : ExactFor(t)'
  BY <1>1, <1>2
<1> QED
  BY <1>3, <1>4 DEF ExactFor, ReconciledExactlyWhenCovered

(* Nothing a new transaction has is covered yet.                           *)
LEMMA FreshUncovered ==
    ASSUME BooksInv, NEW t \in TxIds, ~IsPosted(books, t)
    PROVE  \A e \in {t} \X {1, 2} : e \notin CompletedEntries
  BY DEF BooksInv, AllPosted, CompletedEntries, CompletedIds

(* A posting or a reversal, one new transaction and at most one voided,    *)
(* keeps both.                                                             *)
LEMMA PostingKeepsExact ==
    ASSUME BooksInv, AccountsOpen, ReconciledExactlyWhenCovered, UNCHANGED completed,
           NEW t \in TxIds, ~IsPosted(books, t), books'.transactions[t].state = "POSTED",
           \A x \in TxIds : IsPosted(books', x) <=> IsPosted(books, x) \/ x = t,
           \A x \in TxIds \ {t} : IsPosted(books, x) =>
               /\ books'.transactions[x].entries = books.transactions[x].entries
               /\ \/ books'.transactions[x].state = books.transactions[x].state
                  \/ books'.transactions[x].state = "VOIDED",
           \A a \in HouseholdAccounts : books'.accounts[a] = books.accounts[a],
           \A k \in {1, 2} :
               LET target == books'.transactions[t].entries[k].target
               IN  target \in HouseholdAccounts => books'.accounts[target] = "active"
    PROVE  AccountsOpen' /\ ReconciledExactlyWhenCovered'
<1>1. AccountsOpen'
  BY DEF AccountsOpen
<1>2. CompletedEntries' = CompletedEntries
  BY DEF CompletedEntries, CompletedIds
<1>3. ExactFor(t)'
  <2>1. Settling(t)' # {} => ~(Settling(t)' \subseteq CompletedEntries')
    BY <1>2, FreshUncovered DEF Settling
  <2> QED
    BY <2>1 DEF ExactFor, InState
<1>4. ASSUME NEW x \in TxIds \ {t} PROVE ExactFor(x)'
  <2>1. CASE ~IsPosted(books, x)
    BY <2>1 DEF ExactFor, InState
  <2>2. CASE IsPosted(books, x)
    <3>1. Settling(x)' = Settling(x)
      BY <2>2 DEF Settling, EntryOf
    <3>2. ExactFor(x)
      BY DEF ReconciledExactlyWhenCovered, ExactFor
    <3> QED
      BY <2>2, <3>1, <3>2, <1>2 DEF ExactFor, InState
  <2> QED
    BY <2>1, <2>2
<1>5. \A x \in TxIds : ExactFor(x)'
  BY <1>3, <1>4
<1> QED
  BY <1>1, <1>5 DEF ExactFor, ReconciledExactlyWhenCovered

(* With nothing archived, every step keeps both.                           *)
LEMMA StepKeepsExact ==
    ASSUME Changing = {}, ReconciliationInv, BooksInv, AccountsOpen,
           ReconciledExactlyWhenCovered, [Next]_vars
    PROVE  AccountsOpen' /\ ReconciledExactlyWhenCovered'
<1>1. ASSUME UNCHANGED <<books, completed>>
      PROVE  AccountsOpen' /\ ReconciledExactlyWhenCovered'
  BY <1>1 DEF AccountsOpen, ReconciledExactlyWhenCovered, Settling, InState, CompletedEntries,
              CompletedIds
<1>2. ASSUME NEW p \in Callers, Call(p)
      PROVE  AccountsOpen' /\ ReconciledExactlyWhenCovered'
  BY <1>1, <1>2, CallStepKeepsBooks, CompleteKeepsExact
<1>3. ASSUME NEW c \in Commands, NEW t \in TxIds, PostMovement(c, t)
      PROVE  AccountsOpen' /\ ReconciledExactlyWhenCovered'
  <2>1. /\ \A x \in TxIds : IsPosted(books', x) <=> IsPosted(books, x) \/ x = t
        /\ \A x \in TxIds \ {t} : books'.transactions[x] = books.transactions[x]
        /\ ~IsPosted(books, t) /\ books'.transactions[t].state = "POSTED"
        /\ \A a \in HouseholdAccounts : books'.accounts[a] = books.accounts[a]
        /\ \A k \in {1, 2} :
             LET target == books'.transactions[t].entries[k].target
             IN  target \in HouseholdAccounts => books'.accounts[target] = "active"
    BY <1>3, PostedRows
  <2>2. UNCHANGED completed
    BY <1>3 DEF PostMovement
  <2> QED
    BY <2>1, <2>2, PostingKeepsExact
<1>4. ASSUME NEW c \in Commands, NEW t \in TxIds, NEW today \in Dates,
             ReverseTransaction(c, t, today)
      PROVE  AccountsOpen' /\ ReconciledExactlyWhenCovered'
  <2>1. /\ \A x \in TxIds : IsPosted(books', x) <=> IsPosted(books, x) \/ x = t
        /\ c.tx \in TxIds /\ IsPosted(books, c.tx) /\ c.tx # t
        /\ books'.transactions[c.tx] = [books.transactions[c.tx] EXCEPT !.state = "VOIDED"]
        /\ books.transactions[c.tx] \in TransactionRows
        /\ \A x \in TxIds \ {t, c.tx} : books'.transactions[x] = books.transactions[x]
        /\ ~IsPosted(books, t) /\ books'.transactions[t].state = "POSTED"
        /\ books'.accounts = books.accounts
        /\ \A k \in {1, 2} : books'.transactions[t].entries[k].target
                               = books.transactions[c.tx].entries[k].target
    BY <1>4, ReversedRows
  <2>2. /\ books'.transactions[c.tx].entries = books.transactions[c.tx].entries
        /\ books'.transactions[c.tx].state = "VOIDED"
    BY <2>1 DEF TransactionRows
  <2>3. \A k \in {1, 2} :
          LET target == books'.transactions[t].entries[k].target
          IN  target \in HouseholdAccounts => books'.accounts[target] = "active"
    <3> SUFFICES ASSUME NEW k \in {1, 2},
                        books.transactions[c.tx].entries[k].target \in HouseholdAccounts
                 PROVE  books.accounts[books.transactions[c.tx].entries[k].target] = "active"
      BY <2>1
    <3> QED
      BY <2>1 DEF AccountsOpen
  <2>4. UNCHANGED completed
    BY <1>4 DEF ReverseTransaction
  <2>5. /\ \A x \in TxIds \ {t} : IsPosted(books, x) =>
             /\ books'.transactions[x].entries = books.transactions[x].entries
             /\ \/ books'.transactions[x].state = books.transactions[x].state
                \/ books'.transactions[x].state = "VOIDED"
        /\ \A a \in HouseholdAccounts : books'.accounts[a] = books.accounts[a]
    BY <2>1, <2>2
  <2> QED
    BY <2>1, <2>3, <2>4, <2>5, PostingKeepsExact
<1> QED
  BY <1>1, <1>2, <1>3, <1>4 DEF Next, Beside, Crash, vars

(* AC-008.10, AC-008.11: where nothing is archived, a transaction shows as *)
(* RECONCILED exactly when all its entries on reconcilable accounts are    *)
(* covered, in whichever order they were.  Archiving breaks it: what is    *)
(* projected while an account is archived leaves that side out, which is   *)
(* why the theorem says so and ReconciledIsEarned does not.                *)
THEOREM ReconciledWhenCovered ==
    ASSUME Changing = {}
    PROVE  Spec => []ReconciledExactlyWhenCovered
<1>1. Init => AccountsOpen /\ ReconciledExactlyWhenCovered
  <2> SUFFICES ASSUME Init PROVE AccountsOpen /\ ReconciledExactlyWhenCovered
    OBVIOUS
  <2>1. \A t \in TxIds : ~IsPosted(books, t)
    BY DEF Init, EmptyStore, IsPosted
  <2> QED
    BY <2>1 DEF AccountsOpen, ReconciledExactlyWhenCovered, InState
<1>2. ReconciliationInv /\ BooksInv /\ AccountsOpen /\ ReconciledExactlyWhenCovered
        /\ [Next]_vars => (AccountsOpen /\ ReconciledExactlyWhenCovered)'
  BY StepKeepsExact
<1> QED
  BY <1>1, <1>2, BooksStayWhole, ReconciliationInvariance, PTL DEF Spec

-----------------------------------------------------------------------------
(* Sums of a function over a finite set. The theorems of the library on    *)
(* induction take a predicate as an operator, which cannot be instantiated *)
(* here; the form for well-founded relations, WFMin, takes a set, and that *)
(* every set of naturals has a least element is enough.                    *)

(* A set of naturals that is not empty has a least element.                *)
LEMMA Least ==
    ASSUME NEW T, T \subseteq Nat, T # {}
    PROVE  \E n \in T : \A m \in T : n <= m
<1>1. PICK R : R = OpToRel(<, Nat)
  OBVIOUS
<1>2. IsWellFoundedOn(R, Nat)
  BY <1>1, NatLessThanWellFounded
<1>3. PICK n \in T : \A m \in T : <<m, n>> \notin R
  BY <1>2, WFMin
<1>4. \A m \in T : ~(m < n)
  BY <1>1, <1>3 DEF OpToRel
<1> QED
  BY <1>3, <1>4

(* Induction over the subsets of a finite set, as a set Good instead of a  *)
(* predicate: what holds of the empty set, and of a set whenever it holds  *)
(* of the set less any one of its elements, holds of the whole. A subset   *)
(* that is not Good and has the fewest elements would be one.              *)
LEMMA SubsetInduction ==
    ASSUME NEW S, IsFiniteSet(S), NEW Good,
           {} \in Good,
           \A x \in SUBSET S : x # {} /\ (\A y \in x : x \ {y} \in Good) => x \in Good
    PROVE  S \in Good
<1> DEFINE T == {Cardinality(x) : x \in {z \in SUBSET S : z \notin Good}}
<1> SUFFICES ASSUME S \notin Good PROVE FALSE
  OBVIOUS
<1>1. T \subseteq Nat
  BY FS_Subset, FS_CardinalityType
<1>2. T # {}
  OBVIOUS
<1>3. PICK n \in T : \A m \in T : n <= m
  BY <1>1, <1>2, Least
<1>4. PICK x \in SUBSET S : x \notin Good /\ n = Cardinality(x)
  BY <1>3
<1>5. ASSUME NEW y \in x PROVE x \ {y} \in Good
  <2>1. IsFiniteSet(x)
    BY FS_Subset
  <2>2. Cardinality(x \ {y}) = Cardinality(x) - 1 /\ Cardinality(x) \in Nat
    BY <2>1, <1>5, FS_RemoveElement, FS_CardinalityType
  <2>3. SUFFICES ASSUME x \ {y} \notin Good PROVE FALSE
    OBVIOUS
  <2>4. Cardinality(x \ {y}) \in T
    BY <2>3
  <2>5. n <= n - 1 /\ n \in Nat
    BY <2>2, <2>4, <1>3, <1>4
  <2> QED
    BY <2>5
<1> QED
  BY <1>4, <1>5

(* The sum of f over a finite set, by any element first: MapThenSumSet of  *)
(* the community modules for an integer function. AddsUp is the equation   *)
(* the recursive function g must satisfy on the subsets of x; that some g  *)
(* does has to be proved (SumExists).                                      *)
AnyOf(x) == CHOOSE y \in x : TRUE
AddsUp(g, f, x) ==
    g = [z \in SUBSET x |-> IF z = {} THEN 0 ELSE f[AnyOf(z)] + g[z \ {AnyOf(z)}]]
Sum(f, x) == (CHOOSE g : AddsUp(g, f, x))[x]

(* The element taken first is one of the set.                              *)
LEMMA AnyOfIn == ASSUME NEW x, x # {} PROVE AnyOf(x) \in x
  BY DEF AnyOf

(* The equation at one subset.                                             *)
LEMMA AddsUpAt ==
    ASSUME NEW g, NEW f, NEW x, AddsUp(g, f, x), NEW z \in SUBSET x
    PROVE  g[z] = IF z = {} THEN 0 ELSE f[AnyOf(z)] + g[z \ {AnyOf(z)}]
  BY DEF AddsUp

(* Two functions that satisfy the equation agree wherever both are         *)
(* defined.                                                                *)
LEMMA OneSum ==
    ASSUME NEW f, NEW x, NEW y, NEW g, NEW h, AddsUp(g, f, x), AddsUp(h, f, y),
           NEW z, z \subseteq x, z \subseteq y, IsFiniteSet(z)
    PROVE  g[z] = h[z]
<1> DEFINE Good == {w \in SUBSET z : g[w] = h[w]}
<1>1. {} \in Good
  BY AddsUpAt
<1>2. ASSUME NEW w \in SUBSET z, w # {}, \A v \in w : w \ {v} \in Good
      PROVE  w \in Good
  <2>1. g[w \ {AnyOf(w)}] = h[w \ {AnyOf(w)}]
    BY <1>2, AnyOfIn
  <2>2. g[w] = f[AnyOf(w)] + g[w \ {AnyOf(w)}] /\ h[w] = f[AnyOf(w)] + h[w \ {AnyOf(w)}]
    BY <1>2, AddsUpAt
  <2> QED
    BY <2>1, <2>2
<1> HIDE DEF Good
<1>3. z \in Good
  BY <1>1, <1>2, SubsetInduction
<1> QED
  BY <1>3 DEF Good

Summed(f, x) == \E g : AddsUp(g, f, x)

(* The function chosen for a set gives the sums of its subsets.            *)
LEMMA SumOn ==
    ASSUME NEW f, NEW x, Summed(f, x), IsFiniteSet(x), NEW z \in SUBSET x, Summed(f, z)
    PROVE  (CHOOSE g : AddsUp(g, f, x))[z] = Sum(f, z)
<1>1. PICK g : g = CHOOSE k : AddsUp(k, f, x)
  OBVIOUS
<1>2. PICK h : h = CHOOSE k : AddsUp(k, f, z)
  OBVIOUS
<1>3. AddsUp(g, f, x) /\ AddsUp(h, f, z)
  BY <1>1, <1>2 DEF Summed
<1>4. IsFiniteSet(z)
  BY FS_Subset
<1>5. g[z] = h[z]
  BY <1>3, <1>4, OneSum
<1> QED
  BY <1>1, <1>2, <1>5 DEF Sum

(* The equation, for the sum itself.                                       *)
LEMMA SumSteps ==
    ASSUME NEW f, NEW x, IsFiniteSet(x), \A z \in SUBSET x : Summed(f, z)
    PROVE  /\ x = {} => Sum(f, x) = 0
           /\ x # {} => Sum(f, x) = f[AnyOf(x)] + Sum(f, x \ {AnyOf(x)})
<1>1. PICK g : g = CHOOSE k : AddsUp(k, f, x)
  OBVIOUS
<1>2. AddsUp(g, f, x)
  BY <1>1 DEF Summed
<1>3. Sum(f, x) = g[x] /\ x \in SUBSET x
  BY <1>1 DEF Sum
<1>4. g[x] = IF x = {} THEN 0 ELSE f[AnyOf(x)] + g[x \ {AnyOf(x)}]
  BY <1>2, <1>3, AddsUpAt
<1>5. g[x \ {AnyOf(x)}] = Sum(f, x \ {AnyOf(x)})
  BY <1>1, SumOn
<1> QED
  BY <1>3, <1>4, <1>5

(* Some function satisfies the equation, whatever f and the finite set.    *)
LEMMA SumExists == ASSUME NEW f, NEW x, IsFiniteSet(x) PROVE Summed(f, x)
<1> DEFINE Good == {w \in SUBSET x : \A v \in SUBSET w : Summed(f, v)}
<1>1. {} \in Good
  <2>1. AddsUp([z \in SUBSET {} |-> 0], f, {})
    BY DEF AddsUp
  <2> QED
    BY <2>1 DEF Summed
<1>2. ASSUME NEW w \in SUBSET x, w # {}, \A v \in w : w \ {v} \in Good
      PROVE  w \in Good
  <2>1. \A v \in SUBSET w : v # w => Summed(f, v)
    BY <1>2
  <2> DEFINE g == [z \in SUBSET w |-> IF z = {} THEN 0 ELSE f[AnyOf(z)] + Sum(f, z \ {AnyOf(z)})]
  <2>2. ASSUME NEW z \in SUBSET w, z # {} PROVE g[z \ {AnyOf(z)}] = Sum(f, z \ {AnyOf(z)})
    <3>1. PICK v : v = z \ {AnyOf(z)}
      OBVIOUS
    <3>2. v \in SUBSET w /\ v # w /\ \A u \in SUBSET v : Summed(f, u)
      BY <3>1, <2>1, <2>2, AnyOfIn
    <3>3. IsFiniteSet(v)
      BY <3>2, FS_Subset
    <3>4. /\ v = {} => Sum(f, v) = 0
          /\ v # {} => Sum(f, v) = f[AnyOf(v)] + Sum(f, v \ {AnyOf(v)})
      BY <3>2, <3>3, SumSteps
    <3>5. g[v] = IF v = {} THEN 0 ELSE f[AnyOf(v)] + Sum(f, v \ {AnyOf(v)})
      BY <3>2
    <3> HIDE DEF g
    <3> QED
      BY <3>1, <3>4, <3>5
  <2>3. AddsUp(g, f, w)
    <3>1. g = [z \in SUBSET w |-> IF z = {} THEN 0 ELSE f[AnyOf(z)] + Sum(f, z \ {AnyOf(z)})]
      OBVIOUS
    <3> HIDE DEF g
    <3>2. \A z \in SUBSET w : (IF z = {} THEN 0 ELSE f[AnyOf(z)] + Sum(f, z \ {AnyOf(z)}))
                            = (IF z = {} THEN 0 ELSE f[AnyOf(z)] + g[z \ {AnyOf(z)}])
      BY <2>2
    <3> QED
      BY <3>1, <3>2 DEF AddsUp
  <2> QED
    BY <2>1, <2>3 DEF Summed
<1> HIDE DEF Good
<1>3. x \in Good
  BY <1>1, <1>2, SubsetInduction
<1> QED
  BY <1>3 DEF Good

(* Nothing adds up to nothing.                                             *)
LEMMA SumEmpty == ASSUME NEW f PROVE Sum(f, {}) = 0
<1>1. IsFiniteSet({})
  BY FS_EmptySet
<1>2. \A z \in SUBSET {} : Summed(f, z)
  BY <1>1, SumExists
<1> QED
  BY <1>1, <1>2, SumSteps

(* A sum is that of the element taken first and the rest.                  *)
LEMMA SumAny ==
    ASSUME NEW f, NEW x, IsFiniteSet(x), x # {}
    PROVE  Sum(f, x) = f[AnyOf(x)] + Sum(f, x \ {AnyOf(x)})
  BY SumSteps, SumExists, FS_Subset

(* Whatever satisfies the equation is the sum, so what the CHOOSE of the   *)
(* community module picks is.                                              *)
LEMMA SumByEquation ==
    ASSUME NEW f, NEW x, IsFiniteSet(x), NEW g, AddsUp(g, f, x)
    PROVE  g[x] = Sum(f, x)
<1>1. PICK h : h = CHOOSE k : AddsUp(k, f, x)
  OBVIOUS
<1>2. AddsUp(h, f, x)
  BY <1>1, SumExists DEF Summed
<1>3. g[x] = h[x]
  BY <1>2, OneSum
<1> QED
  BY <1>1, <1>3 DEF Sum

(* A sum of integers is an integer.                                        *)
LEMMA SumInt ==
    ASSUME NEW D, NEW f \in [D -> Int], NEW x \in SUBSET D, IsFiniteSet(x)
    PROVE  Sum(f, x) \in Int
<1> DEFINE Good == {w \in SUBSET x : Sum(f, w) \in Int}
<1>1. {} \in Good
  BY SumEmpty
<1>2. ASSUME NEW w \in SUBSET x, w # {}, \A v \in w : w \ {v} \in Good
      PROVE  w \in Good
  <2>1. Sum(f, w) = f[AnyOf(w)] + Sum(f, w \ {AnyOf(w)}) /\ AnyOf(w) \in w
    BY <1>2, SumAny, FS_Subset, AnyOfIn
  <2> QED
    BY <1>2, <2>1
<1> HIDE DEF Good
<1>3. x \in Good
  BY <1>1, <1>2, SubsetInduction
<1> QED
  BY <1>3 DEF Good

(* Any element may be taken first.                                         *)
LEMMA SumTake ==
    ASSUME NEW D, NEW f \in [D -> Int], NEW x \in SUBSET D, IsFiniteSet(x), NEW y \in x
    PROVE  Sum(f, x) = f[y] + Sum(f, x \ {y})
<1> DEFINE Good == {w \in SUBSET x : \A v \in w : Sum(f, w) = f[v] + Sum(f, w \ {v})}
<1>1. {} \in Good
  OBVIOUS
<1>2. ASSUME NEW w \in SUBSET x, w # {}, \A v \in w : w \ {v} \in Good,
             NEW v \in w
      PROVE  Sum(f, w) = f[v] + Sum(f, w \ {v})
  <2>1. PICK p \in w : p = AnyOf(w)
    BY <1>2, AnyOfIn
  <2>2. Sum(f, w) = f[p] + Sum(f, w \ {p})
    BY <1>2, <2>1, SumAny, FS_Subset
  <2>3. CASE v # p
    <3>1. Sum(f, w \ {p}) = f[v] + Sum(f, (w \ {p}) \ {v})
      BY <1>2, <2>3
    <3>2. Sum(f, w \ {v}) = f[p] + Sum(f, (w \ {v}) \ {p})
      BY <1>2, <2>3
    <3>3. PICK r : r = (w \ {v}) \ {p} /\ r = (w \ {p}) \ {v} /\ r \in SUBSET x
      OBVIOUS
    <3>4. Sum(f, r) \in Int
      BY <3>3, SumInt, FS_Subset
    <3>5. Sum(f, w \ {v}) = f[p] + Sum(f, r) /\ Sum(f, w \ {p}) = f[v] + Sum(f, r)
      BY <3>1, <3>2, <3>3
    <3>6. f[v] \in Int /\ f[p] \in Int
      OBVIOUS
    <3> QED
      BY <2>2, <3>4, <3>5, <3>6
  <2> QED
    BY <2>2, <2>3
<1>3. \A w \in SUBSET x : w # {} /\ (\A v \in w : w \ {v} \in Good) => w \in Good
  BY <1>2
<1> HIDE DEF Good
<1>4. x \in Good
  BY <1>1, <1>3, SubsetInduction
<1> QED
  BY <1>4 DEF Good

(* The sum over two separate sets is that of the two sums.                 *)
LEMMA SumSplit ==
    ASSUME NEW D, NEW f \in [D -> Int], NEW x \in SUBSET D, IsFiniteSet(x),
           NEW a, NEW b, x = a \cup b, a \cap b = {}
    PROVE  Sum(f, x) = Sum(f, a) + Sum(f, b)
<1> DEFINE Good == {w \in SUBSET b : Sum(f, a \cup w) = Sum(f, a) + Sum(f, w)}
<1>0. /\ IsFiniteSet(a) /\ IsFiniteSet(b) /\ Sum(f, a) \in Int
      /\ \A w \in SUBSET b : IsFiniteSet(a \cup w) /\ IsFiniteSet(w) /\ Sum(f, w) \in Int
  BY FS_Subset, SumInt
<1>1. {} \in Good
  <2>1. a \cup {} = a
    OBVIOUS
  <2> QED
    BY <1>0, <2>1, SumEmpty
<1>2. ASSUME NEW w \in SUBSET b, w # {}, \A v \in w : w \ {v} \in Good
      PROVE  w \in Good
  <2>1. PICK v \in w : TRUE
    BY <1>2
  <2>2. IsFiniteSet(w) /\ w \in SUBSET D /\ f[v] \in Int
    BY <1>0
  <2>3. Sum(f, w) = f[v] + Sum(f, w \ {v})
    BY <2>2, SumTake
  <2>4. PICK u : u = a \cup w
    OBVIOUS
  <2>5. IsFiniteSet(u) /\ u \in SUBSET D /\ v \in u
    BY <1>0, <2>4
  <2>6. Sum(f, u) = f[v] + Sum(f, u \ {v})
    BY <2>5, SumTake
  <2>7. u \ {v} = a \cup (w \ {v})
    BY <2>4
  <2>8. Sum(f, u \ {v}) = Sum(f, a) + Sum(f, w \ {v}) /\ Sum(f, w \ {v}) \in Int
    BY <1>2, <1>0, <2>7
  <2>9. Sum(f, u) = Sum(f, a) + Sum(f, w)
    BY <1>0, <2>2, <2>3, <2>6, <2>8
  <2> QED
    BY <2>4, <2>9
<1> HIDE DEF Good
<1>4. b \in Good
  BY <1>0, <1>1, <1>2, SubsetInduction
<1> QED
  BY <1>4 DEF Good

(* The sum over an image is the sum of what each element is worth there,   *)
(* if no two elements have the same image.                                 *)
LEMMA SumImage ==
    ASSUME NEW D, NEW f \in [D -> Int], NEW x \in SUBSET D, IsFiniteSet(x),
           NEW E, NEW h \in [E -> Int], NEW m \in [D -> E],
           \A y, z \in x : m[y] = m[z] => y = z,
           \A y \in x : h[m[y]] = f[y]
    PROVE  IsFiniteSet({m[y] : y \in x}) /\ Sum(h, {m[y] : y \in x}) = Sum(f, x)
<1> DEFINE Good == {w \in SUBSET x : IsFiniteSet({m[y] : y \in w})
                                /\ Sum(h, {m[y] : y \in w}) = Sum(f, w)}
<1>1. {} \in Good
  <2>1. {m[y] : y \in {}} = {}
    OBVIOUS
  <2> QED
    BY <2>1, SumEmpty, FS_EmptySet
<1>2. ASSUME NEW w \in SUBSET x, w # {}, \A v \in w : w \ {v} \in Good
      PROVE  w \in Good
  <2>1. PICK v \in w : TRUE
    BY <1>2
  <2>2. IsFiniteSet(w)
    BY FS_Subset
  <2>3. Sum(f, w) = f[v] + Sum(f, w \ {v})
    BY <2>2, SumTake
  <2>4. PICK iw : iw = {m[y] : y \in w}
    OBVIOUS
  <2>5. PICK mv \in E : mv = m[v] /\ h[mv] = f[v]
    OBVIOUS
  <2>6. PICK rest : rest = {m[y] : y \in w \ {v}}
    OBVIOUS
  <2>7. IsFiniteSet(rest) /\ Sum(h, rest) = Sum(f, w \ {v})
    BY <1>2, <2>6
  <2>8. iw = rest \cup {mv} /\ rest = iw \ {mv} /\ iw \in SUBSET E
    BY <2>4, <2>5, <2>6
  <2>9. IsFiniteSet(iw)
    BY <2>7, <2>8, FS_AddElement
  <2>10. Sum(h, iw) = h[mv] + Sum(h, iw \ {mv})
    BY <2>8, <2>9, SumTake
  <2>11. Sum(h, iw) = Sum(f, w)
    BY <2>3, <2>5, <2>7, <2>8, <2>10
  <2> QED
    BY <2>4, <2>9, <2>11
<1> HIDE DEF Good
<1>4. x \in Good
  BY <1>1, <1>2, SubsetInduction
<1> QED
  BY <1>4 DEF Good

(* Entries in pairs that cancel add up to nothing, whichever transactions  *)
(* are taken: double entry, lifted from one transaction to all of them.    *)
Paired(f, x) == \A t \in x : f[<<t, 1>>] + f[<<t, 2>>] = 0

LEMMA SumPairs ==
    ASSUME NEW T, IsFiniteSet(T), NEW f \in [T \X {1, 2} -> Int],
           NEW x \in SUBSET T, Paired(f, x)
    PROVE  Sum(f, x \X {1, 2}) = 0
<1> DEFINE Good == {w \in SUBSET x : Sum(f, w \X {1, 2}) = 0}
<1>1. {} \in Good
  <2>1. {} \X {1, 2} = {}
    OBVIOUS
  <2> QED
    BY <2>1, SumEmpty
<1>2. ASSUME NEW w \in SUBSET x, w # {}, \A v \in w : w \ {v} \in Good
      PROVE  w \in Good
  <2>1. PICK v \in w : TRUE
    BY <1>2
  <2>2. PICK p : p = w \X {1, 2}
    OBVIOUS
  <2>3. IsFiniteSet(p)
    <3>1. IsFiniteSet({1}) /\ {1, 2} = {1} \cup {2}
      BY FS_Singleton
    <3>2. IsFiniteSet({1, 2})
      BY <3>1, FS_AddElement
    <3>3. IsFiniteSet(w)
      BY FS_Subset
    <3> QED
      BY <2>2, <3>2, <3>3, FS_Product
  <2>4. p \in SUBSET (T \X {1, 2}) /\ <<v, 1>> \in p /\ <<v, 2>> \in p \ {<<v, 1>>}
    BY <2>2
  <2>5. Sum(f, p) = f[<<v, 1>>] + Sum(f, p \ {<<v, 1>>})
    BY <2>3, <2>4, SumTake
  <2>6. PICK q : q = p \ {<<v, 1>>}
    OBVIOUS
  <2>7. IsFiniteSet(q) /\ q \in SUBSET (T \X {1, 2}) /\ <<v, 2>> \in q
    BY <2>3, <2>4, <2>6, FS_Subset
  <2>8. Sum(f, q) = f[<<v, 2>>] + Sum(f, q \ {<<v, 2>>})
    BY <2>7, SumTake
  <2>9. q \ {<<v, 2>>} = (w \ {v}) \X {1, 2}
    BY <2>2, <2>6
  <2>10. Sum(f, (w \ {v}) \X {1, 2}) = 0
    BY <1>2
  <2>11. f[<<v, 1>>] \in Int /\ f[<<v, 2>>] \in Int /\ f[<<v, 1>>] + f[<<v, 2>>] = 0
    BY DEF Paired
  <2>12. Sum(f, p) = f[<<v, 1>>] + (f[<<v, 2>>] + 0)
    BY <2>5, <2>6, <2>8, <2>9, <2>10
  <2>13. Sum(f, p) = 0
    BY <2>11, <2>12
  <2> QED
    BY <2>2, <2>13
<1> HIDE DEF Good
<1>4. x \in Good
  BY <1>1, <1>2, SubsetInduction, FS_Subset
<1> QED
  BY <1>4 DEF Good

-----------------------------------------------------------------------------
(* What completions promise of balances, and the statements they           *)
(* implement.                                                              *)

(* The effect of entries, as the code adds it up, is a sum in this sense.  *)
LEMMA EffectIsSum ==
    ASSUME NEW s, NEW x, IsFiniteSet(x),
           NEW f, \A e \in x : f[e] = SignedCents(EntryOf(s, e))
    PROVE  EffectOf(s, x) = Sum(f, x)
<1> DEFINE Fits(g) ==
      g = [z \in SUBSET x |-> IF z = {} THEN 0
                              ELSE SignedCents(EntryOf(s, CHOOSE y \in z : TRUE))
                                     + g[z \ {CHOOSE y \in z : TRUE}]]
<1>1. PICK k : k = CHOOSE g : Fits(g)
  OBVIOUS
<1>2. EffectOf(s, x) = k[x]
  BY <1>1 DEF EffectOf, MapThenSumSet, MapThenFoldSet
<1>3. ASSUME NEW z \in SUBSET x, z # {}
      PROVE  SignedCents(EntryOf(s, CHOOSE y \in z : TRUE)) = f[AnyOf(z)]
  BY <1>3, AnyOfIn DEF AnyOf
<1>4. ASSUME NEW g PROVE Fits(g) <=> AddsUp(g, f, x)
  BY <1>3 DEF AddsUp, AnyOf
<1>5. AddsUp(k, f, x)
  <2>1. PICK h : AddsUp(h, f, x)
    BY SumExists DEF Summed
  <2>2. Fits(h)
    BY <1>4, <2>1
  <2> HIDE DEF Fits
  <2>3. Fits(k)
    BY <1>1, <2>2
  <2> QED
    BY <1>4, <2>3
<1> QED
  BY <1>2, <1>5, SumByEquation

(* The posted entries of a store, and what each is worth on its account.   *)
PostedIn(s) == {e \in EntryIds : IsPosted(s, e[1])}
Worth(s) == [e \in PostedIn(s) |-> SignedCents(EntryOf(s, e))]

(* The entries are finitely many.                                          *)
LEMMA EntriesFinite == ASSUME NEW x \in SUBSET EntryIds PROVE IsFiniteSet(x)
<1>1. IsFiniteSet({1}) /\ {1, 2} = {1} \cup {2}
  BY FS_Singleton
<1>2. IsFiniteSet({1, 2})
  BY <1>1, FS_AddElement
<1>3. IsFiniteSet(EntryIds)
  BY <1>2, FiniteTables, FS_Product DEF EntryIds
<1> QED
  BY <1>3, FS_Subset

(* In a whole store every posted entry is worth a number of cents.         *)
LEMMA WorthInt ==
    ASSUME NEW s \in Stores, StoreWhole(s)
    PROVE  Worth(s) \in [PostedIn(s) -> Int]
<1> SUFFICES ASSUME NEW e \in PostedIn(s) PROVE SignedCents(EntryOf(s, e)) \in Int
  BY DEF Worth
<1>1. s.transactions[e[1]].entries \in EntryRows \X EntryRows /\ e[2] \in {1, 2}
  BY DEF PostedIn, EntryIds, StoreWhole, EntryPairs
<1>2. EntryOf(s, e) \in EntryRows
  <2> HIDE DEF EntryRows
  <2>1. PICK pair \in EntryRows \X EntryRows : pair = s.transactions[e[1]].entries
    BY <1>1
  <2>2. pair[1] \in EntryRows /\ pair[2] \in EntryRows
    BY <2>1
  <2> QED
    BY <1>1, <2>1, <2>2 DEF EntryOf
<1>3. PICK r \in EntryRows : r = EntryOf(s, e)
  BY <1>2
<1>4. r.cents \in Int
  <2>1. r.cents \in Cents
    BY DEF EntryRows
  <2>2. \A n \in Cents : n \in Int
    BY DatesAndCents
  <2> QED
    BY <2>1, <2>2
<1> QED
  BY <1>3, <1>4 DEF SignedCents

(* The effect of posted entries is the sum of what they are worth.         *)
LEMMA EffectAsSum ==
    ASSUME NEW s, NEW x \in SUBSET PostedIn(s)
    PROVE  EffectOf(s, x) = Sum(Worth(s), x) /\ IsFiniteSet(x)
<1>1. IsFiniteSet(x)
  BY EntriesFinite DEF PostedIn
<1>2. \A e \in x : Worth(s)[e] = SignedCents(EntryOf(s, e))
  BY DEF Worth
<1> QED
  BY <1>1, <1>2, EffectIsSum

(* A posted transaction keeps its entries, its kind and its dates from one *)
(* store to the next.                                                      *)
LEMMA RowStays ==
    ASSUME NEW s \in Stores, NEW s2 \in Stores, KeepsHistory(s, s2),
           NEW t \in TxIds, IsPosted(s, t)
    PROVE  /\ IsPosted(s2, t)
           /\ s2.transactions[t].entries = s.transactions[t].entries
           /\ s2.transactions[t].kind = s.transactions[t].kind
           /\ s2.transactions[t].economic = s.transactions[t].economic
           /\ s2.transactions[t].cash = s.transactions[t].cash
           /\ EligibilityDate(s2.transactions[t]) = EligibilityDate(s.transactions[t])
<1>1. IsPosted(s2, t) /\ SameHistory(s.transactions[t], s2.transactions[t])
  BY DEF KeepsHistory
<1>2. s2.transactions[t] \in TransactionRows /\ s.transactions[t] \in TransactionRows
  BY <1>1 DEF IsPosted, Stores
<1>3. PICK a, b : a = s.transactions[t] /\ b = s2.transactions[t]
  OBVIOUS
<1>4. a \in TransactionRows /\ b \in TransactionRows /\ [b EXCEPT !.state = a.state] = a
  BY <1>1, <1>2, <1>3 DEF SameHistory
<1>5. b.entries = a.entries /\ b.kind = a.kind /\ b.economic = a.economic /\ b.cash = a.cash
  BY <1>4 DEF TransactionRows
<1> QED
  BY <1>1, <1>3, <1>5 DEF EligibilityDate

(* So what posted entries add up to is the same in every later store.      *)
LEMMA EffectStays ==
    ASSUME NEW s \in Stores, NEW s2 \in Stores, KeepsHistory(s, s2),
           NEW x \in SUBSET PostedIn(s)
    PROVE  EffectOf(s2, x) = EffectOf(s, x)
<1>1. IsFiniteSet(x) /\ EffectOf(s, x) = Sum(Worth(s), x)
  BY EffectAsSum
<1>2. \A e \in x : Worth(s)[e] = SignedCents(EntryOf(s2, e))
  BY RowStays DEF Worth, EntryOf, PostedIn, EntryIds
<1> QED
  BY <1>1, <1>2, EffectIsSum

(* What a caller has found stays found: the entries it selected are on its *)
(* statement and add up to the effect it read; and, unless somebody else   *)
(* completes on the same account, the balance it compared still is the one *)
(* it compared. Nobody else does while WritesApart.                        *)
CallChecked(p) ==
    LET request == calls[p].request
    IN  /\ At(p, "selected") \/ At(p, "writing") =>
             /\ request.entries \subseteq UpToCutoff(books, request.account, request.cutoff)
             /\ calls[p].effect = EffectOf(books, request.entries)
        /\ At(p, "writing") => request.entries # {}

BalanceFresh(p) ==
    LET request == calls[p].request
    IN  At(p, "writing") =>
          request.observed = PriorCompletedCents(request.account, request.cutoff)
                               + EffectOf(books, request.entries)

CallsChecked == \A p \in Callers : CallChecked(p)
BalancesFresh == \A p \in Callers : BalanceFresh(p)

(* No two callers are past their last check on the same account. The code  *)
(* does not ensure it: that nothing does is what the run on BalanceMatches *)
(* shows.                                                                  *)
WritesApart ==
    \A p, q \in Callers :
        At(p, "writing") /\ At(q, "writing") /\ calls[p].request.account = calls[q].request.account
          => p = q

(* Later stores only add to a statement: the entries posted before are on  *)
(* it as they were.                                                        *)
LEMMA UpToCutoffStays ==
    ASSUME NEW s \in Stores, NEW s2 \in Stores, KeepsHistory(s, s2), NEW a, NEW d
    PROVE  /\ UpToCutoff(s, a, d) \subseteq UpToCutoff(s2, a, d)
           /\ UpToCutoff(s2, a, d) \cap PostedIn(s) = UpToCutoff(s, a, d)
           /\ UpToCutoff(s, a, d) \subseteq PostedIn(s)
<1>1. ASSUME NEW e \in EntryIds, IsPosted(s, e[1])
      PROVE  e \in UpToCutoff(s2, a, d) <=> e \in UpToCutoff(s, a, d)
  BY <1>1, RowStays DEF UpToCutoff, EntryIds, EntryOf
<1> QED
  BY <1>1 DEF UpToCutoff, PostedIn

(* A step that leaves the call of p alone keeps what p has found.          *)
LEMMA CheckedStays ==
    ASSUME BooksInv, BooksInv', KeepsHistory(books, books'),
           NEW p \in Callers, CallChecked(p), calls'[p] = calls[p]
    PROVE  CallChecked(p)'
<1> DEFINE request == calls[p].request
<1>1. ASSUME At(p, "selected") \/ At(p, "writing"),
             request.entries \subseteq UpToCutoff(books, request.account, request.cutoff)
      PROVE  /\ request.entries \subseteq UpToCutoff(books', request.account, request.cutoff)
             /\ EffectOf(books', request.entries) = EffectOf(books, request.entries)
  BY <1>1, UpToCutoffStays, EffectStays DEF BooksInv
<1>2. \A pc : At(p, pc)' <=> At(p, pc)
  BY DEF At
<1> QED
  BY <1>1, <1>2 DEF CallChecked

(* Completed reconciliations are of posted entries.                        *)
LEMMA CompletedPosted == ASSUME BooksInv PROVE CompletedEntries \subseteq PostedIn(books)
  BY DEF BooksInv, CompletedEntries, AllPosted, PostedIn

(* The prior balance stays while nothing on the statement is completed.    *)
LEMMA PriorStays ==
    ASSUME BooksInv, BooksInv', KeepsHistory(books, books'), NEW a, NEW d,
           UpToCutoff(books', a, d) \cap CompletedEntries'
             = UpToCutoff(books', a, d) \cap CompletedEntries
    PROVE  PriorCompletedCents(a, d)' = PriorCompletedCents(a, d)
<1>1. UpToCutoff(books', a, d) \cap CompletedEntries'
        = UpToCutoff(books, a, d) \cap CompletedEntries
  BY UpToCutoffStays, CompletedPosted DEF BooksInv
<1>2. PICK x : x = UpToCutoff(books, a, d) \cap CompletedEntries
  OBVIOUS
<1>3. EffectOf(books', x) = EffectOf(books, x)
  BY <1>2, EffectStays, CompletedPosted DEF BooksInv
<1> QED
  BY <1>1, <1>2, <1>3 DEF PriorCompletedCents

(* And then so does the comparison a caller has made.                      *)
LEMMA FreshStays ==
    ASSUME BooksInv, BooksInv', KeepsHistory(books, books'),
           NEW p \in Callers, CallChecked(p), BalanceFresh(p), calls'[p] = calls[p],
           At(p, "writing") =>
             LET a == calls[p].request.account
                 d == calls[p].request.cutoff
             IN  UpToCutoff(books', a, d) \cap CompletedEntries'
                   = UpToCutoff(books', a, d) \cap CompletedEntries
    PROVE  BalanceFresh(p)'
<1> SUFFICES ASSUME At(p, "writing") PROVE BalanceFresh(p)'
  BY DEF BalanceFresh, At
<1>1. PICK a, d, x, n : /\ a = calls[p].request.account /\ d = calls[p].request.cutoff
                        /\ x = calls[p].request.entries /\ n = calls[p].request.observed
  OBVIOUS
<1>2. PriorCompletedCents(a, d)' = PriorCompletedCents(a, d)
  BY <1>1, PriorStays
<1>3. EffectOf(books', x) = EffectOf(books, x)
  BY <1>1, EffectStays, UpToCutoffStays DEF CallChecked, BooksInv
<1>4. n = PriorCompletedCents(a, d) + EffectOf(books, x)
  BY <1>1 DEF BalanceFresh
<1>5. n = PriorCompletedCents(a, d)' + EffectOf(books', x)
  BY <1>2, <1>3, <1>4
<1> QED
  BY <1>1, <1>5 DEF BalanceFresh, PriorCompletedCents

(* A step of a call, short of completing, keeps what was found: what each  *)
(* read finds is what is then said of the call.                            *)
LEMMA CallStepChecked ==
    ASSUME ReconciliationInv, BooksInv, BooksInv', CallsChecked, NEW p \in Callers, Call(p),
           ~\E i \in Ids : Complete(p, i), UNCHANGED <<books, completed>>
    PROVE  CallsChecked' /\ (BalancesFresh => BalancesFresh')
<1>1. KeepsHistory(books, books')
  BY HistoryReflexive DEF BooksInv
<1>2. CallChecked(p)' /\ (BalanceFresh(p) => BalanceFresh(p)')
      /\ \A q \in Callers \ {p} : calls'[q] = calls[q]
  <2>1. /\ CallShaped(p) /\ CallChecked(p)
        /\ calls = [q \in Callers |-> calls[q]] /\ p \in DOMAIN calls
    BY DEF ReconciliationInv, Shaped, CallsChecked
  <2>2. CASE \E request \in RequestsNow : Submit(p, request)
    <3>1. PICK request :
            calls' = [calls EXCEPT ![p] = [pc |-> "asked", request |-> request, effect |-> 0]]
      BY <2>2 DEF Submit
    <3> QED
      BY <3>1, <2>1 DEF CallChecked, BalanceFresh, At
  <2>3. CASE ReadCandidates(p)
    <3>1. PICK request, effect :
            /\ request = calls[p].request /\ effect = EffectOf(books, request.entries)
            /\ calls' = [calls EXCEPT ![p] = [pc |-> "selected", request |-> request,
                                              effect |-> effect]]
            /\ CandidatesFit(request)
      BY <2>3 DEF ReadCandidates
    <3>2. request.entries \subseteq UpToCutoff(books, request.account, request.cutoff)
      BY <3>1 DEF CandidatesFit, Candidates
    <3>3. calls'[p].pc = "selected" /\ calls'[p].request = request /\ calls'[p].effect = effect
      BY <2>1, <3>1
    <3>4. \A q \in Callers \ {p} : calls'[q] = calls[q]
      BY <2>1, <3>1
    <3> QED
      BY <3>1, <3>2, <3>3, <3>4 DEF CallChecked, BalanceFresh, At
  <2>4. CASE ReadPrior(p)
    <3>1. PICK request, effect : request = calls[p].request /\ effect = calls[p].effect
      OBVIOUS
    <3>2. /\ calls' = [calls EXCEPT ![p].pc = "writing"]
          /\ request.entries # {}
          /\ request.observed = PriorCompletedCents(request.account, request.cutoff) + effect
          /\ At(p, "selected")
      BY <2>4, <3>1 DEF ReadPrior, Goto, BalanceFits
    <3>3. calls'[p].pc = "writing" /\ calls'[p].request = request /\ calls'[p].effect = effect
      BY <2>1, <3>1, <3>2 DEF CallShaped
    <3>4. \A q \in Callers \ {p} : calls'[q] = calls[q]
      BY <2>1, <3>2
    <3>5. PriorCompletedCents(request.account, request.cutoff)'
            = PriorCompletedCents(request.account, request.cutoff)
      BY DEF PriorCompletedCents, CompletedEntries, CompletedIds
    <3>6. /\ request.entries \subseteq UpToCutoff(books, request.account, request.cutoff)
          /\ effect = EffectOf(books, request.entries)
      BY <2>1, <3>1, <3>2 DEF CallChecked
    <3> QED
      BY <3>2, <3>3, <3>4, <3>5, <3>6 DEF CallChecked, BalanceFresh, At,
         PriorCompletedCents, CompletedEntries, CompletedIds
  <2>5. CASE Refuse(p) \/ LockTimeout(p)
    <3>1. calls' = [calls EXCEPT ![p].pc = "failing"]
      BY <2>5 DEF Refuse, LockTimeout, Goto
    <3>2. calls'[p].pc = "failing" /\ \A q \in Callers \ {p} : calls'[q] = calls[q]
      BY <2>1, <3>1 DEF CallShaped
    <3> QED
      BY <3>2 DEF CallChecked, BalanceFresh, At
  <2>6. CASE RecordFailure(p) \/ FailureUnrecorded(p)
    <3>1. calls' = [calls EXCEPT ![p] = IdleCall]
      BY <2>6 DEF RecordFailure, FailureUnrecorded, EndCall
    <3>2. calls'[p].pc = "idle" /\ \A q \in Callers \ {p} : calls'[q] = calls[q]
      BY <2>1, <3>1 DEF IdleCall
    <3> QED
      BY <3>2 DEF CallChecked, BalanceFresh, At
  <2> QED
    BY <2>2, <2>3, <2>4, <2>5, <2>6 DEF Call
<1>3. ASSUME NEW q \in Callers \ {p}
      PROVE  CallChecked(q)' /\ (BalanceFresh(q) => BalanceFresh(q)')
  <2>1. CallChecked(q) /\ calls'[q] = calls[q]
    BY <1>2, <1>3 DEF CallsChecked
  <2>2. CompletedEntries' = CompletedEntries
    BY DEF CompletedEntries, CompletedIds
  <2> QED
    BY <1>1, <2>1, <2>2, CheckedStays, FreshStays
<1> QED
  BY <1>2, <1>3 DEF CallsChecked, BalancesFresh

(* A completion touches the statement of its own account only, so it keeps *)
(* what callers on other accounts have found.                              *)
LEMMA CompleteChecked ==
    ASSUME ReconciliationInv, BooksInv, BooksInv', KeepsHistory(books, books'), CallsChecked,
           NEW p \in Callers, NEW i \in Ids, Complete(p, i)
    PROVE  CallsChecked' /\ (WritesApart /\ BalancesFresh => BalancesFresh')
<1>1. PICK selected : selected = calls[p].request.entries
  OBVIOUS
<1>2. CompletedEntries' = Covered(selected) /\ calls' = [calls EXCEPT ![p] = IdleCall]
  BY <1>1, CompleteStep
<1>3. calls'[p].pc = "idle" /\ \A q \in Callers \ {p} : calls'[q] = calls[q]
  BY <1>2 DEF ReconciliationInv, Shaped, IdleCall
<1>4. ASSUME NEW q \in Callers \ {p}
      PROVE  CallChecked(q)' /\ (WritesApart /\ BalanceFresh(q) => BalanceFresh(q)')
  <2>1. CallChecked(q) /\ calls'[q] = calls[q]
    BY <1>3, <1>4 DEF CallsChecked
  <2>2. CallChecked(q)'
    BY <2>1, CheckedStays
  <2>3. ASSUME WritesApart, BalanceFresh(q), At(q, "writing")
        PROVE  LET a == calls[q].request.account
                   d == calls[q].request.cutoff
               IN  UpToCutoff(books', a, d) \cap CompletedEntries'
                     = UpToCutoff(books', a, d) \cap CompletedEntries
    <3>1. PICK a, d : a = calls[q].request.account /\ d = calls[q].request.cutoff
      OBVIOUS
    <3>2. calls[p].request.account # a /\ At(p, "writing")
      BY <2>3, <1>4, <3>1 DEF WritesApart, Complete
    <3>3. selected \subseteq UpToCutoff(books, calls[p].request.account, calls[p].request.cutoff)
      BY <1>1, <3>2 DEF CallsChecked, CallChecked
    <3>4. selected \subseteq UpToCutoff(books', calls[p].request.account, calls[p].request.cutoff)
      BY <3>3, UpToCutoffStays DEF BooksInv
    <3>5. selected \cap UpToCutoff(books', a, d) = {}
      BY <3>2, <3>4 DEF UpToCutoff
    <3> QED
      BY <3>1, <3>5, <1>2 DEF Covered
  <2>4. ASSUME WritesApart, BalanceFresh(q) PROVE BalanceFresh(q)'
    BY <2>1, <2>3, <2>4, FreshStays
  <2> QED
    BY <2>2, <2>4
<1>5. CallChecked(p)' /\ BalanceFresh(p)'
  BY <1>3 DEF CallChecked, BalanceFresh, At
<1> QED
  BY <1>4, <1>5 DEF CallsChecked, BalancesFresh

(* Every step keeps it.                                                    *)
LEMMA StepKeepsChecked ==
    ASSUME ReconciliationInv, BooksInv, BooksInv', KeepsHistory(books, books'), CallsChecked,
           [Next]_vars
    PROVE  CallsChecked' /\ (WritesApart /\ BalancesFresh => BalancesFresh')
<1>1. ASSUME NEW p \in Callers, Call(p)
      PROVE  CallsChecked' /\ (WritesApart /\ BalancesFresh => BalancesFresh')
  <2>1. CASE \E i \in Ids : Complete(p, i)
    BY <2>1, CompleteChecked
  <2>2. CASE ~\E i \in Ids : Complete(p, i)
    BY <1>1, <2>2, CallStepKeepsBooks, CallStepChecked
  <2> QED
    BY <2>1, <2>2
<1>2. CASE UNCHANGED <<completed, calls>>
  <2>1. CompletedEntries' = CompletedEntries
    BY <1>2 DEF CompletedEntries, CompletedIds
  <2>2. ASSUME NEW q \in Callers
        PROVE  CallChecked(q)' /\ (BalanceFresh(q) => BalanceFresh(q)')
    <3>1. CallChecked(q) /\ calls'[q] = calls[q]
      BY <1>2 DEF CallsChecked
    <3> QED
      BY <2>1, <3>1, CheckedStays, FreshStays
  <2> QED
    BY <2>2 DEF CallsChecked, BalancesFresh
<1>3. CASE Crash
  <2>1. \A q \in Callers : calls'[q].pc = "idle"
    BY <1>3 DEF Crash, IdleCall
  <2> QED
    BY <2>1 DEF CallsChecked, BalancesFresh, CallChecked, BalanceFresh, At
<1>4. CASE Beside
  BY <1>2, <1>4 DEF Beside, PostMovement, ReverseTransaction, SetArchived
<1>5. CASE UNCHANGED vars
  BY <1>2, <1>5 DEF vars
<1> QED
  BY <1>1, <1>3, <1>4, <1>5 DEF Next

(* The total of facts, as module Statements adds it up, is a sum.          *)
LEMMA TotalIsSum ==
    ASSUME NEW x, IsFiniteSet(x), NEW f, \A e \in x : f[e] = e.cents
    PROVE  Abstract!Total(x) = Sum(f, x)
<1> DEFINE Fits(g) ==
      g = [z \in SUBSET x |-> IF z = {} THEN 0
                              ELSE (CHOOSE y \in z : TRUE).cents
                                     + g[z \ {CHOOSE y \in z : TRUE}]]
<1>1. PICK k : k = CHOOSE g : Fits(g)
  OBVIOUS
<1>2. Abstract!Total(x) = k[x]
  BY <1>1 DEF Abstract!Total, Abstract!MapThenSumSet, Abstract!MapThenFoldSet
<1>3. ASSUME NEW z \in SUBSET x, z # {}
      PROVE  (CHOOSE y \in z : TRUE).cents = f[AnyOf(z)]
  BY <1>3, AnyOfIn DEF AnyOf
<1>4. ASSUME NEW g PROVE Fits(g) <=> AddsUp(g, f, x)
  BY <1>3 DEF AddsUp, AnyOf
<1>5. AddsUp(k, f, x)
  <2>1. PICK h : AddsUp(h, f, x)
    BY SumExists DEF Summed
  <2>2. Fits(h)
    BY <1>4, <2>1
  <2> HIDE DEF Fits
  <2>3. Fits(k)
    BY <1>1, <2>2
  <2> QED
    BY <1>4, <2>3
<1> QED
  BY <1>2, <1>5, SumByEquation

(* The total of the facts of posted entries is their effect: a fact holds  *)
(* the entry it is of, so no two entries have one fact.                    *)
LEMMA TotalOfFacts ==
    ASSUME BooksInv, NEW x \in SUBSET PostedIn(books)
    PROVE  Abstract!Total(Facts(x)) = EffectOf(books, x)
<1> DEFINE D == PostedIn(books)
           E == {Fact(e) : e \in D}
           m == [e \in D |-> Fact(e)]
           h == [g \in E |-> g.cents]
<1>0. Worth(books) \in [D -> Int] /\ IsFiniteSet(x) /\ EffectOf(books, x) = Sum(Worth(books), x)
  BY WorthInt, EffectAsSum DEF BooksInv
<1>1. \A e \in D : Fact(e).cents = Worth(books)[e] /\ Fact(e).entry = e
  BY DEF Fact, Worth
<1>2. h \in [E -> Int] /\ m \in [D -> E]
  <2> SUFFICES ASSUME NEW g \in E PROVE g.cents \in Int
    OBVIOUS
  <2>1. PICK e \in D : g = Fact(e)
    OBVIOUS
  <2> QED
    BY <1>0, <1>1, <2>1
<1>3. /\ \A e \in D : m[e] = Fact(e) /\ h[m[e]] = Worth(books)[e]
      /\ \A e, f \in D : m[e] = m[f] => e = f
      /\ \A g \in E : h[g] = g.cents
  BY <1>1
<1>4. {m[e] : e \in x} = Facts(x) /\ Facts(x) \subseteq E
  BY DEF Facts
<1> HIDE DEF m, h, E, D
<1>6. IsFiniteSet({m[e] : e \in x}) /\ Sum(h, {m[e] : e \in x}) = Sum(Worth(books), x)
  <2>1. PICK w \in [D -> Int] : w = Worth(books)
    BY <1>0
  <2>2. x \in SUBSET D
    BY DEF D
  <2>3. (\A e, f \in x : m[e] = m[f] => e = f) /\ \A e \in x : h[m[e]] = w[e]
    BY <1>3, <2>1, <2>2
  <2>4. IsFiniteSet({m[e] : e \in x}) /\ Sum(h, {m[e] : e \in x}) = Sum(w, x)
    BY <1>0, <1>2, <2>2, <2>3, SumImage
  <2> QED
    BY <2>1, <2>4
<1>7. Abstract!Total(Facts(x)) = Sum(h, Facts(x))
  <2>1. PICK y : y = Facts(x)
    OBVIOUS
  <2>2. IsFiniteSet(y) /\ \A g \in y : h[g] = g.cents
    BY <2>1, <1>3, <1>4, <1>6
  <2>3. Abstract!Total(y) = Sum(h, y)
    BY <2>2, TotalIsSum
  <2> QED
    BY <2>1, <2>3
<1> QED
  BY <1>0, <1>4, <1>6, <1>7

(* Facts once stated stay.                                                 *)
LEMMA FactStays ==
    ASSUME BooksInv, BooksInv', KeepsHistory(books, books')
    PROVE  /\ \A e \in PostedIn(books) : Fact(e)' = Fact(e)
           /\ PostedIn(books) \subseteq PostedIn(books')
<1>1. ASSUME NEW e \in PostedIn(books)
      PROVE  Fact(e)' = Fact(e) /\ e \in PostedIn(books')
  <2>1. e \in EntryIds /\ e[1] \in TxIds /\ IsPosted(books, e[1])
    BY DEF PostedIn, EntryIds
  <2>2. /\ IsPosted(books', e[1])
        /\ books'.transactions[e[1]].entries = books.transactions[e[1]].entries
        /\ EligibilityDate(books'.transactions[e[1]]) = EligibilityDate(books.transactions[e[1]])
    BY <2>1, RowStays DEF BooksInv
  <2> QED
    BY <2>1, <2>2 DEF Fact, EntryOf, PostedIn
<1> QED
  BY <1>1

LEMMA FactsStay ==
    ASSUME BooksInv, BooksInv', KeepsHistory(books, books'), NEW x \in SUBSET PostedIn(books)
    PROVE  Facts(x)' = Facts(x)
  BY FactStays DEF Facts

(* A fact is of one entry.                                                 *)
LEMMA FactOne == \A e, f : Fact(e) = Fact(f) => e = f
<1>1. \A e : Fact(e).entry = e
  BY DEF Fact
<1> QED
  BY <1>1

(* So do statements.                                                       *)
LEMMA StatementStays ==
    ASSUME BooksInv, BooksInv', KeepsHistory(books, books'), NEW row, AllPosted(books, row.entries)
    PROVE  Statement(row)' = Statement(row)
<1>1. PICK x \in SUBSET PostedIn(books) : x = row.entries
  BY DEF AllPosted, PostedIn
<1>2. Facts(x)' = Facts(x)
  BY FactsStay
<1> QED
  BY <1>1, <1>2 DEF Statement

(* A step that completes nothing only adds facts.                          *)
LEMMA GrowsAbstractly ==
    ASSUME BooksInv, BooksInv', KeepsHistory(books, books'), UNCHANGED completed
    PROVE  Abstract!Grow
<1>1. Facts(KnownEntries) \subseteq Facts(KnownEntries)'
  BY FactStays DEF Facts, KnownEntries, PostedIn
<1>2. \A i \in CompletedIds : Statement(completed[i])' = Statement(completed[i])
  BY StatementStays DEF BooksInv
<1>3. {Statement(completed[i]) : i \in CompletedIds}'
        = {Statement(completed[i]) : i \in CompletedIds}
  BY <1>2 DEF CompletedIds
<1> QED
  BY <1>1, <1>3 DEF Abstract!Grow

(* What is settled are the facts of the completed entries.                 *)
LEMMA SettledIs ==
    ASSUME BooksInv
    PROVE  Abstract!Settled = Facts(CompletedEntries)
<1>1. \A row : Statement(row).facts = Facts(row.entries)
  BY DEF Statement
<1>2. Abstract!Settled = UNION {Facts(completed[i].entries) : i \in CompletedIds}
  BY <1>1 DEF Abstract!Settled
<1> QED
  BY <1>2 DEF Facts, CompletedEntries

(* The facts of an account up to a date are those of the entries that its  *)
(* statement shows.                                                        *)
LEMMA UpToIs ==
    ASSUME NEW x \in SUBSET PostedIn(books), NEW a, NEW d
    PROVE  Abstract!UpTo(Facts(x), a, d) = Facts(x \cap UpToCutoff(books, a, d))
<1>1. \A e \in x : (Fact(e).account = a /\ Fact(e).date <= d) <=> e \in UpToCutoff(books, a, d)
  BY DEF Fact, UpToCutoff, PostedIn
<1> QED
  BY <1>1 DEF Abstract!UpTo, Facts

(* The prior balance and the effect of a selection add up to the balance   *)
(* of both.                                                                *)
LEMMA BalanceAdds ==
    ASSUME BooksInv, NEW a, NEW d, NEW x \in SUBSET PostedIn(books), x \cap CompletedEntries = {},
           NEW z, z = CompletedEntries \cap UpToCutoff(books, a, d)
    PROVE  EffectOf(books, z \cup x) = PriorCompletedCents(a, d) + EffectOf(books, x)
<1>1. z \in SUBSET PostedIn(books)
  BY CompletedPosted
<1>2. PICK u \in SUBSET PostedIn(books) : u = z \cup x
  BY <1>1
<1>3. PICK w : w = Worth(books)
  OBVIOUS
<1>4. w \in [PostedIn(books) -> Int]
  BY <1>3, WorthInt DEF BooksInv
<1>5. /\ EffectOf(books, u) = Sum(w, u) /\ IsFiniteSet(u)
      /\ EffectOf(books, z) = Sum(w, z) /\ EffectOf(books, x) = Sum(w, x)
  BY <1>1, <1>3, EffectAsSum
<1>6. Sum(w, u) = Sum(w, z) + Sum(w, x)
  BY <1>2, <1>4, <1>5, SumSplit
<1>7. z = UpToCutoff(books, a, d) \cap CompletedEntries
  OBVIOUS
<1> QED
  BY <1>2, <1>5, <1>6, <1>7 DEF PriorCompletedCents

(* Completing a reconciliation settles its facts: they are unsettled facts *)
(* of the account up to the cutoff, and with what was settled before they  *)
(* make up the observed balance.                                           *)
LEMMA SettlesAbstractly ==
    ASSUME ReconciliationInv, BooksInv, BooksInv', KeepsHistory(books, books'), CallsChecked,
           BalancesFresh, NEW p \in Callers, NEW i \in Ids, Complete(p, i)
    PROVE  Abstract!Next
<1>1. PICK a, d, n, x :
        /\ a = calls[p].request.account /\ d = calls[p].request.cutoff
        /\ n = calls[p].request.observed /\ x = calls[p].request.entries
  OBVIOUS
<1>2. /\ AllPosted(books, x) /\ CompletedIds' = CompletedIds \cup {i}
      /\ \A j \in CompletedIds : completed'[j] = completed[j]
      /\ \A t \in TxIds : IsPosted(books', t) <=> IsPosted(books, t)
  <2>1. /\ AllPosted(books, x) /\ books' = WithProjectedStates(books, x)
        /\ LifecycleAllows(books, books') /\ CompletedIds' = CompletedIds \cup {i}
        /\ \A j \in CompletedIds : completed'[j] = completed[j]
    BY <1>1, CompleteStep
  <2> QED
    BY <2>1, ProjectedWhole DEF BooksInv
<1>3. completed'[i] = [account |-> a, cutoff |-> d, observed |-> n, entries |-> x]
  BY <1>1 DEF Complete, Row, ReconciliationInv, Shaped
<1>4. /\ a \in Accounts /\ d \in Dates /\ x # {} /\ x \subseteq UpToCutoff(books, a, d)
      /\ x \cap CompletedEntries = {} /\ n = PriorCompletedCents(a, d) + EffectOf(books, x)
  <2>1. At(p, "writing") /\ MembershipsFree(x)
    BY <1>1 DEF Complete, Writable
  <2>2. calls[p].request \in Requests
    BY <2>1 DEF ReconciliationInv, Shaped, CallShaped, At
  <2> QED
    BY <1>1, <2>1, <2>2 DEF CallsChecked, CallChecked, BalancesFresh, BalanceFresh,
       MembershipsFree, Requests
<1>5. x \in SUBSET PostedIn(books) /\ CompletedEntries \in SUBSET PostedIn(books)
  BY <1>2, CompletedPosted DEF AllPosted, PostedIn
<1>6. PICK z \in SUBSET PostedIn(books) : z = CompletedEntries \cap UpToCutoff(books, a, d)
  BY <1>5
<1>7. Abstract!Total(Abstract!UpTo(Abstract!Settled, a, d) \cup Facts(x)) = n
  <2>1. Abstract!UpTo(Abstract!Settled, a, d) = Facts(z)
    BY <1>5, <1>6, SettledIs, UpToIs
  <2>2. Facts(z) \cup Facts(x) = Facts(z \cup x)
    BY DEF Facts
  <2>3. Abstract!Total(Facts(z \cup x)) = EffectOf(books, z \cup x)
    BY <1>5, TotalOfFacts
  <2>4. EffectOf(books, z \cup x) = n
    BY <1>4, <1>5, <1>6, BalanceAdds
  <2> QED
    BY <2>1, <2>2, <2>3, <2>4
<1>8. /\ Facts(x) # {}
      /\ Facts(x) \subseteq Abstract!UpTo(Facts(KnownEntries), a, d) \ Abstract!Settled
  <2>1. KnownEntries = PostedIn(books)
    BY DEF KnownEntries, PostedIn
  <2>2. Abstract!UpTo(Facts(KnownEntries), a, d)
          = Facts(PostedIn(books) \cap UpToCutoff(books, a, d))
    BY <2>1, UpToIs
  <2>3. Facts(x) \subseteq Facts(PostedIn(books) \cap UpToCutoff(books, a, d))
    BY <1>4, <1>5 DEF Facts
  <2>4. Facts(x) \cap Facts(CompletedEntries) = {}
    BY <1>4, FactOne DEF Facts
  <2>5. Facts(x) # {}
    BY <1>4 DEF Facts
  <2> QED
    BY <2>2, <2>3, <2>4, <2>5, SettledIs
<1>9. {Statement(completed[j]) : j \in CompletedIds}'
        = {Statement(completed[j]) : j \in CompletedIds} \cup
            {[account |-> a, cutoff |-> d, observed |-> n, facts |-> Facts(x)]}
  <2>1. \A j \in CompletedIds : Statement(completed[j])' = Statement(completed[j])
    <3> SUFFICES ASSUME NEW j \in CompletedIds
                 PROVE  Statement(completed[j])' = Statement(completed[j])
      OBVIOUS
    <3>1. PICK row : row = completed[j]
      OBVIOUS
    <3>2. completed'[j] = row /\ AllPosted(books, row.entries)
      BY <1>2, <3>1 DEF BooksInv
    <3>3. Statement(row)' = Statement(row)
      BY <3>2, StatementStays
    <3> QED
      BY <3>1, <3>2, <3>3 DEF Statement
  <2>2. Statement(completed[i])' = [account |-> a, cutoff |-> d, observed |-> n, facts |-> Facts(x)]
    <3>1. Facts(x)' = Facts(x)
      BY <1>5, FactsStay
    <3> QED
      BY <1>3, <3>1 DEF Statement
  <2> QED
    BY <1>2, <2>1, <2>2
<1>10. Facts(KnownEntries)' = Facts(KnownEntries)
  <2>1. KnownEntries' = PostedIn(books) /\ KnownEntries = PostedIn(books)
    BY <1>2 DEF KnownEntries, PostedIn, EntryIds
  <2>2. PICK y \in SUBSET PostedIn(books) : y = PostedIn(books)
    OBVIOUS
  <2>3. Facts(y)' = Facts(y)
    BY FactsStay
  <2> QED
    BY <2>1, <2>2, <2>3 DEF Facts
<1>11. Abstract!Settle(a, d, Facts(x))
  BY <1>7, <1>8, <1>9, <1>10 DEF Abstract!Settle
<1>12. Facts(x) \in SUBSET Facts(KnownEntries)
  BY <1>5 DEF Facts, KnownEntries, PostedIn
<1> QED
  BY <1>4, <1>11, <1>12 DEF Abstract!Next

(* Every step of callers, ledger and catalogue is a step of the statements *)
(* or leaves them alone.                                                   *)
LEMMA StepImplements ==
    ASSUME ReconciliationInv, BooksInv, CallsChecked, BalancesFresh, [Next]_vars
    PROVE  [Abstract!Next]_<<Facts(KnownEntries), {Statement(completed[i]) : i \in CompletedIds}>>
<1>1. BooksInv' /\ KeepsHistory(books, books')
  BY StepKeepsBooks
<1>2. CASE UNCHANGED completed
  BY <1>1, <1>2, GrowsAbstractly DEF Abstract!Next
<1>3. CASE \E p \in Callers, i \in Ids : Complete(p, i)
  BY <1>1, <1>3, SettlesAbstractly
<1>4. ASSUME NEW p \in Callers, Call(p), ~\E i \in Ids : Complete(p, i)
      PROVE  UNCHANGED completed
  BY <1>4, CallStepKeepsBooks
<1>5. Beside \/ Crash \/ UNCHANGED vars => UNCHANGED completed
  BY DEF Beside, Crash, vars, PostMovement, ReverseTransaction, SetArchived
<1> QED
  BY <1>2, <1>3, <1>4, <1>5 DEF Next

(* AC-008.3, AC-008.4: from its first read on, what a caller selected is   *)
(* on its statement and adds up to what it read, whatever is posted,       *)
(* reversed, archived or completed meanwhile: posted history does not      *)
(* change.                                                                 *)
THEOREM CallsStayChecked == Spec => []CallsChecked
<1>1. Init => CallsChecked
  BY DEF Init, CallsChecked, CallChecked, At, IdleCall
<1>2. /\ ReconciliationInv /\ BooksInv /\ BooksInv' /\ KeepsHistory(books, books')
      /\ CallsChecked /\ [Next]_vars
      => CallsChecked'
  BY StepKeepsChecked
<1>3. ReconciliationInv /\ BooksInv /\ [Next]_vars => BooksInv' /\ KeepsHistory(books, books')
  BY StepKeepsBooks
<1> QED
  BY <1>1, <1>2, <1>3, BooksStayWhole, ReconciliationInvariance, PTL DEF Spec

(* While no two callers write on one account, the comparison of each holds *)
(* until it completes.                                                     *)
LEMMA BalancesStayFresh == Spec /\ []WritesApart => []BalancesFresh
<1>1. Init => BalancesFresh
  BY DEF Init, BalancesFresh, BalanceFresh, At, IdleCall
<1>2. ReconciliationInv /\ BooksInv /\ CallsChecked /\ BalancesFresh /\ WritesApart /\ [Next]_vars
        => BalancesFresh'
  BY StepKeepsBooks, StepKeepsChecked
<1> QED
  BY <1>1, <1>2, CallsStayChecked, BooksStayWhole, ReconciliationInvariance, PTL DEF Spec

(* AC-008: the detailed reconciliation implements module Statements, with  *)
(* any number of callers, as long as no two of them are past their checks  *)
(* on the same account at once. The hypothesis is the least that will do:  *)
(* the run on BalanceMatches is what happens without it.                   *)
THEOREM StatementsImplemented == Spec /\ []WritesApart => StatementsSpec
<1>1. Init => Abstract!Init
  <2> SUFFICES ASSUME Init PROVE Abstract!Init
    OBVIOUS
  <2>1. KnownEntries = {} /\ CompletedIds = {}
    BY DEF Init, KnownEntries, CompletedIds, EmptyStore, IsPosted, EntryIds
  <2> QED
    BY <2>1 DEF Abstract!Init, Facts
<1>2. ReconciliationInv /\ BooksInv /\ CallsChecked /\ BalancesFresh /\ [Next]_vars =>
        [Abstract!Next]_<<Facts(KnownEntries), {Statement(completed[i]) : i \in CompletedIds}>>
  BY StepImplements
<1> QED
  BY <1>1, <1>2, BalancesStayFresh, CallsStayChecked, BooksStayWhole, ReconciliationInvariance, PTL
  DEF Spec, StatementsSpec, Abstract!Spec

(* The completion itself: the observed balance is that of the entries      *)
(* completed, its own included.                                            *)
LEMMA CompleteMatches ==
    ASSUME ReconciliationInv, BooksInv, BooksInv', KeepsHistory(books, books'), CallsChecked,
           BalancesFresh, NEW p \in Callers, NEW i \in Ids, Complete(p, i)
    PROVE  /\ completed'[i].observed = CheckedBalance(i)'
           /\ \A j \in Ids \ {i} : completed'[j] = completed[j]
<1>1. PICK a, d, n, x :
        /\ a = calls[p].request.account /\ d = calls[p].request.cutoff
        /\ n = calls[p].request.observed /\ x = calls[p].request.entries
  OBVIOUS
<1>2. AllPosted(books, x) /\ CompletedEntries' = CompletedEntries \cup x
  BY <1>1, CompleteStep DEF Covered
<1>3. /\ completed'[i] = [account |-> a, cutoff |-> d, observed |-> n, entries |-> x]
      /\ \A j \in Ids \ {i} : completed'[j] = completed[j]
  BY <1>1 DEF Complete, Row, ReconciliationInv, Shaped
<1>4. /\ x \subseteq UpToCutoff(books, a, d) /\ x \cap CompletedEntries = {}
      /\ n = PriorCompletedCents(a, d) + EffectOf(books, x)
  BY <1>1 DEF Complete, Writable, CallsChecked, CallChecked, BalancesFresh, BalanceFresh,
              MembershipsFree
<1>5. x \in SUBSET PostedIn(books) /\ CompletedEntries \in SUBSET PostedIn(books)
  BY <1>2, CompletedPosted DEF AllPosted, PostedIn
<1>6. PICK z \in SUBSET PostedIn(books) : z = CompletedEntries \cap UpToCutoff(books, a, d)
  BY <1>5
<1>7. UpToCutoff(books', a, d) \cap CompletedEntries' = z \cup x
  BY <1>2, <1>4, <1>5, <1>6, UpToCutoffStays DEF BooksInv
<1>8. PICK u \in SUBSET PostedIn(books) : u = z \cup x
  BY <1>5
<1>9. EffectOf(books', u) = EffectOf(books, u) /\ EffectOf(books, z \cup x) = n
  BY <1>4, <1>5, <1>6, BalanceAdds, EffectStays DEF BooksInv
<1> QED
  BY <1>3, <1>7, <1>8, <1>9 DEF CheckedBalance

(* AC-008.5, AC-008.6: on the same hypothesis, and only then, the observed *)
(* balance of a completed reconciliation is that of the entries completed  *)
(* by then. So the race of two callers on one account is the only way to   *)
(* break it: no posting, reversal, archiving, failure or crash does.       *)
THEOREM BalancesMatchApart == Spec /\ []WritesApart => BalanceMatches
<1>1. ReconciliationInv /\ BooksInv /\ CallsChecked /\ BalancesFresh /\ [Next]_vars =>
        [\A i \in Ids : completed[i] = Null /\ completed'[i] # Null =>
             completed'[i].observed = CheckedBalance(i)']_vars
  <2> SUFFICES ASSUME ReconciliationInv, BooksInv, CallsChecked, BalancesFresh, [Next]_vars,
                      NEW j \in Ids, completed[j] = Null, completed'[j] # Null
               PROVE  completed'[j].observed = CheckedBalance(j)'
    OBVIOUS
  <2>1. BooksInv' /\ KeepsHistory(books, books')
    BY StepKeepsBooks
  <2>2. PICK p \in Callers : \E i \in Ids : Complete(p, i)
    <3>1. ASSUME NEW p \in Callers, Call(p), ~\E i \in Ids : Complete(p, i) PROVE FALSE
      BY <3>1, CallStepKeepsBooks
    <3>2. ~(Beside \/ Crash \/ UNCHANGED vars)
      BY DEF Beside, Crash, vars, PostMovement, ReverseTransaction, SetArchived
    <3> QED
      BY <3>1, <3>2 DEF Next
  <2>3. PICK i \in Ids : Complete(p, i)
    BY <2>2
  <2> QED
    BY <2>1, <2>3, CompleteMatches
<1> QED
  BY <1>1, BalancesStayFresh, CallsStayChecked, BooksStayWhole, ReconciliationInvariance, PTL
  DEF Spec, BalanceMatches

(* With one caller at a time, as one person at one browser is, both hold   *)
(* with no hypothesis.                                                     *)
THEOREM OneCallerImplements ==
    ASSUME \A p, q \in Callers : p = q
    PROVE  Spec => StatementsSpec /\ BalanceMatches
<1>1. WritesApart
  BY DEF WritesApart
<1> QED
  BY <1>1, StatementsImplemented, BalancesMatchApart, PTL

-----------------------------------------------------------------------------
(* What the reports say of each other (module Reports).                    *)

(* What the reports rest on, of a store. Sided: at most one side of a      *)
(* posted transaction is a category, and then the transaction moves money. *)
(* Mirrored: a reversal has the targets of the transaction it voids and    *)
(* the opposite amounts.                                                   *)
CategoryEntry(s, t, k) == s.transactions[t].entries[k].target \in Categories

Sided(s) ==
    \A t \in TxIds : IsPosted(s, t) =>
        /\ ~(CategoryEntry(s, t, 1) /\ CategoryEntry(s, t, 2))
        /\ CategoryEntry(s, t, 1) \/ CategoryEntry(s, t, 2) => s.transactions[t].cash # NoDate

Mirrored(s) ==
    \A link \in s.reversals :
        /\ link.original # link.reversal
        /\ IsPosted(s, link.original) /\ IsPosted(s, link.reversal)
        /\ \A k \in {1, 2} :
             LET entry == s.transactions[link.original].entries[k]
                 mirror == s.transactions[link.reversal].entries[k]
             IN  /\ mirror.target = entry.target
                 /\ SignedCents(mirror) = -SignedCents(entry)

(* Every recipe makes its entries so: only income and expenses have a      *)
(* category side, and both have a cash date.                               *)
LEMMA RecipeSided ==
    ASSUME NEW s, NEW selection \in Selections, selection.kind # "REVERSAL",
           ValidSelections(s, selection)
    PROVE  LET row == PostedRow(selection)
               category(k) == row.entries[k].target \in Categories
           IN  /\ ~(category(1) /\ category(2))
               /\ category(1) \/ category(2) => row.cash # NoDate
<1>1. PICK row : row = PostedRow(selection)
  OBVIOUS
<1>2. row.entries = RecipeEntries(selection) /\ row.cash = PostedCashDate(selection)
  BY <1>1 DEF PostedRow
<1>3. \A a \in Accounts : a \notin Categories
  BY IdentifiersDisjoint
<1>4. /\ selection.account \in Accounts /\ selection.account \in HouseholdAccounts
      /\ selection.kind = "TRANSFER" => selection.destination \in Accounts
      /\ Equity \in Accounts
  BY DEF ValidSelections, ActiveAccount, Accounts
<1>5. selection.kind \in {"OPENING", "INCOME", "EXPENSE", "TRANSFER"}
  BY DEF Selections, TransactionKinds
<1>6. selection.kind # "OPENING" => row.cash # NoDate
  <2>1. selection.economic \in Dates
    BY DEF Selections
  <2>2. NoDate \notin Dates
    BY DatesAndCents DEF NoDate
  <2> QED
    BY <1>2, <2>1, <2>2 DEF PostedCashDate
<1>7. CASE selection.kind = "OPENING"
  BY <1>1, <1>2, <1>3, <1>4, <1>7 DEF RecipeEntries, OpeningEntries, Debit, Credit, Entry
<1>8. CASE selection.kind = "INCOME"
  BY <1>1, <1>2, <1>3, <1>4, <1>6, <1>8 DEF RecipeEntries, IncomeEntries, Debit, Credit, Entry
<1>9. CASE selection.kind = "EXPENSE"
  BY <1>1, <1>2, <1>3, <1>4, <1>6, <1>9 DEF RecipeEntries, ExpenseEntries, Debit, Credit, Entry
<1>10. CASE selection.kind = "TRANSFER"
  BY <1>1, <1>2, <1>3, <1>4, <1>6, <1>10 DEF RecipeEntries, TransferEntries, Debit, Credit, Entry
<1> QED
  BY <1>5, <1>7, <1>8, <1>9, <1>10

(* Posted rows stay as they are; so if the new ones and the new links fit, *)
(* all do.                                                                 *)
LEMMA ReportsStepKeeps ==
    ASSUME BooksInv, BooksInv', KeepsHistory(books, books'), Sided(books), Mirrored(books),
           \A t \in TxIds : IsPosted(books', t) /\ ~IsPosted(books, t) =>
               /\ ~(CategoryEntry(books', t, 1) /\ CategoryEntry(books', t, 2))
               /\ CategoryEntry(books', t, 1) \/ CategoryEntry(books', t, 2)
                    => books'.transactions[t].cash # NoDate,
           \A link \in books'.reversals \ books.reversals :
               /\ link.original # link.reversal
               /\ IsPosted(books', link.original) /\ IsPosted(books', link.reversal)
               /\ \A k \in {1, 2} :
                    LET entry == books'.transactions[link.original].entries[k]
                        mirror == books'.transactions[link.reversal].entries[k]
                    IN  /\ mirror.target = entry.target
                        /\ SignedCents(mirror) = -SignedCents(entry)
    PROVE  Sided(books') /\ Mirrored(books')
<1>1. ASSUME NEW t \in TxIds, IsPosted(books, t)
      PROVE  /\ IsPosted(books', t)
             /\ books'.transactions[t].entries = books.transactions[t].entries
             /\ books'.transactions[t].cash = books.transactions[t].cash
  BY <1>1, RowStays DEF BooksInv
<1>2. Sided(books')
  <2> SUFFICES ASSUME NEW t \in TxIds, IsPosted(books', t), IsPosted(books, t)
      PROVE  /\ ~(CategoryEntry(books', t, 1) /\ CategoryEntry(books', t, 2))
             /\ CategoryEntry(books', t, 1) \/ CategoryEntry(books', t, 2)
                    => books'.transactions[t].cash # NoDate
    BY DEF Sided
  <2> QED
    BY <1>1 DEF Sided, CategoryEntry
<1>3. Mirrored(books')
  <2> SUFFICES ASSUME NEW link \in books'.reversals, link \in books.reversals
      PROVE  /\ link.original # link.reversal
             /\ IsPosted(books', link.original) /\ IsPosted(books', link.reversal)
             /\ \A k \in {1, 2} :
                    LET entry == books'.transactions[link.original].entries[k]
                        mirror == books'.transactions[link.reversal].entries[k]
                    IN  /\ mirror.target = entry.target
                        /\ SignedCents(mirror) = -SignedCents(entry)
    BY DEF Mirrored
  <2>1. link.original \in TxIds /\ link.reversal \in TxIds
    BY DEF BooksInv, Stores
  <2>2. IsPosted(books, link.original) /\ IsPosted(books, link.reversal)
    BY DEF Mirrored
  <2> QED
    BY <1>1, <2>1, <2>2 DEF Mirrored
<1> QED
  BY <1>2, <1>3

(* Every step keeps both.                                                  *)
LEMMA StepKeepsReports ==
    ASSUME ReconciliationInv, BooksInv, Sided(books), Mirrored(books), [Next]_vars
    PROVE  Sided(books') /\ Mirrored(books')
<1>1. BooksInv' /\ KeepsHistory(books, books')
  BY StepKeepsBooks
<1>2. ASSUME \A t \in TxIds : IsPosted(books', t) <=> IsPosted(books, t),
             books'.reversals = books.reversals
      PROVE  Sided(books') /\ Mirrored(books')
  BY <1>1, <1>2, ReportsStepKeeps
<1>3. ASSUME NEW c \in Commands, NEW t \in TxIds, PostMovement(c, t)
      PROVE  Sided(books') /\ Mirrored(books')
  <2>1. /\ \A x \in TxIds : IsPosted(books', x) <=> IsPosted(books, x) \/ x = t
        /\ books'.reversals = books.reversals
        /\ \E selection \in Selections :
                /\ selection.kind # "REVERSAL" /\ ValidSelections(books, selection)
                /\ books'.transactions[t] = PostedRow(selection)
    BY <1>3, PostedRows
  <2>2. PICK selection \in Selections :
                /\ selection.kind # "REVERSAL" /\ ValidSelections(books, selection)
                /\ books'.transactions[t] = PostedRow(selection)
    BY <2>1
  <2>3. /\ ~(CategoryEntry(books', t, 1) /\ CategoryEntry(books', t, 2))
        /\ CategoryEntry(books', t, 1) \/ CategoryEntry(books', t, 2)
                    => books'.transactions[t].cash # NoDate
    BY <2>2, RecipeSided DEF CategoryEntry
  <2> QED
    BY <1>1, <2>1, <2>3, ReportsStepKeeps
<1>4. ASSUME NEW c \in Commands, NEW t \in TxIds, NEW today \in Dates,
             ReverseTransaction(c, t, today)
      PROVE  Sided(books') /\ Mirrored(books')
  <2>0. /\ \A x \in TxIds : IsPosted(books', x) <=> IsPosted(books, x) \/ x = t
        /\ c.tx \in TxIds /\ IsPosted(books, c.tx) /\ c.tx # t
        /\ books.transactions[c.tx] \in TransactionRows
    BY <1>4, ReversedRows
  <2>1. /\ \A x \in TxIds : IsPosted(books', x) <=> IsPosted(books, x) \/ x = t
        /\ books'.reversals = books.reversals \cup {[original |-> c.tx, reversal |-> t]}
    BY <1>4, ReversedRows
  <2>2. PICK old, new : old = books.transactions[c.tx] /\ new = books'.transactions[t]
    OBVIOUS
  <2>3. /\ new.entries = ReversalEntries(old.entries)
        /\ new.cash = NoDate => old.cash = NoDate
    BY <1>4, <2>2, ReversedRows
  <2>4. old.entries \in EntryPairs
    BY <2>0, <2>2 DEF BooksInv, StoreWhole
  <2>5. /\ new.entries[1] = ReversedEntry(old.entries[1])
        /\ new.entries[2] = ReversedEntry(old.entries[2])
        /\ old.entries[1] \in EntryRows /\ old.entries[2] \in EntryRows
    BY <2>3, <2>4 DEF ReversalEntries, EntryPairs
  <2>6. ASSUME NEW e \in EntryRows
        PROVE  ReversedEntry(e).target = e.target /\ SignedCents(ReversedEntry(e)) = -SignedCents(e)
    <3>1. e.cents \in Int
      <4>1. e.cents \in Cents
        BY DEF EntryRows
      <4>2. \A n \in Cents : n \in Int
        BY DatesAndCents
      <4> QED
        BY <4>1, <4>2
    <3>2. /\ ReversedEntry(e).target = e.target /\ ReversedEntry(e).cents = e.cents
          /\ ReversedEntry(e).side = IF e.side = "DEBIT" THEN "CREDIT" ELSE "DEBIT"
      BY DEF EntryRows, ReversedEntry
    <3> QED
      BY <3>1, <3>2 DEF SignedCents
  <2>7. \A k \in {1, 2} : /\ new.entries[k].target = old.entries[k].target
                          /\ SignedCents(new.entries[k]) = -SignedCents(old.entries[k])
    BY <2>5, <2>6
  <2>8. /\ ~(CategoryEntry(books', t, 1) /\ CategoryEntry(books', t, 2))
        /\ CategoryEntry(books', t, 1) \/ CategoryEntry(books', t, 2)
                    => books'.transactions[t].cash # NoDate
    BY <2>0, <2>1, <2>2, <2>3, <2>7 DEF CategoryEntry, Sided
  <2>9. books'.transactions[c.tx].entries = old.entries /\ IsPosted(books', c.tx)
    BY <1>1, <2>0, <2>1, <2>2, RowStays DEF BooksInv
  <2>10. \A link \in books'.reversals \ books.reversals :
               /\ link.original # link.reversal
               /\ IsPosted(books', link.original) /\ IsPosted(books', link.reversal)
               /\ \A k \in {1, 2} :
                    LET entry == books'.transactions[link.original].entries[k]
                        mirror == books'.transactions[link.reversal].entries[k]
                    IN  /\ mirror.target = entry.target
                        /\ SignedCents(mirror) = -SignedCents(entry)
    <3> SUFFICES ASSUME NEW link, link = [original |-> c.tx, reversal |-> t]
        PROVE  /\ link.original # link.reversal
               /\ IsPosted(books', link.original) /\ IsPosted(books', link.reversal)
               /\ \A k \in {1, 2} :
                    LET entry == books'.transactions[link.original].entries[k]
                        mirror == books'.transactions[link.reversal].entries[k]
                    IN  /\ mirror.target = entry.target
                        /\ SignedCents(mirror) = -SignedCents(entry)
      BY <2>1
    <3>1. link.original = c.tx /\ link.reversal = t
      OBVIOUS
    <3> QED
      BY <3>1, <2>0, <2>1, <2>2, <2>7, <2>9
  <2> QED
    BY <1>1, <2>1, <2>8, <2>10, ReportsStepKeeps
<1>5. ASSUME NEW a \in Changing, NEW state \in {"active", "archived"}, SetArchived(a, state)
      PROVE  Sided(books') /\ Mirrored(books')
  <2>1. \A t \in TxIds : IsPosted(books', t) <=> IsPosted(books, t)
    BY <1>5, ArchivedRows
  <2>2. books'.reversals = books.reversals
    <3>1. PICK accounts : accounts = [books.accounts EXCEPT ![a] = state]
      OBVIOUS
    <3>2. books' = [books EXCEPT !.accounts = accounts]
      BY <1>5, <3>1 DEF SetArchived, SetAccount
    <3> QED
      BY <3>2 DEF BooksInv, Stores
  <2> QED
    BY <1>2, <2>1, <2>2
<1>6. ASSUME NEW p \in Callers, NEW i \in Ids, Complete(p, i)
      PROVE  Sided(books') /\ Mirrored(books')
  <2>1. PICK selected : /\ AllPosted(books, selected)
                        /\ books' = WithProjectedStates(books, selected)
                        /\ LifecycleAllows(books, books')
    BY <1>6, CompleteStep
  <2>2. \A t \in TxIds : IsPosted(books', t) <=> IsPosted(books, t)
    BY <2>1, ProjectedWhole DEF BooksInv
  <2>3. books'.reversals = books.reversals
    BY <2>1 DEF WithProjectedStates, BooksInv, Stores
  <2> QED
    BY <1>2, <2>2, <2>3
<1>7. ASSUME NEW p \in Callers, Call(p), ~\E i \in Ids : Complete(p, i)
      PROVE  Sided(books') /\ Mirrored(books')
  BY <1>7, <1>2, CallStepKeepsBooks
<1> QED
  BY <1>2, <1>3, <1>4, <1>5, <1>6, <1>7 DEF Next, Beside, Crash, vars

(* What a report adds up is the sum of what the posted entries are worth.  *)
LEMMA ReportSum ==
    ASSUME NEW s, NEW x \in SUBSET PostedIn(s)
    PROVE  SumOf(s, x) = Sum(Worth(s), x) /\ IsFiniteSet(x)
<1>1. SumOf(s, x) = EffectOf(s, x)
  BY DEF SumOf, EffectOf, EntryAt, Of, EntryOf
<1> QED
  BY <1>1, EffectAsSum

(* The rows of the base statement are the posted entries.                  *)
LEMMA VisibleIsPosted == ASSUME NEW s PROVE Visible(s) = PostedIn(s)
  BY DEF Visible, PostedIn, ReportEntries, EntryIds

(* Entries on two separate sets of targets add up separately.              *)
LEMMA OnSplit ==
    ASSUME NEW s \in Stores, StoreWhole(s), NEW x \in SUBSET PostedIn(s),
           NEW a, NEW b, a \cap b = {}
    PROVE  /\ SumOf(s, On(s, x, a \cup b)) = SumOf(s, On(s, x, a)) + SumOf(s, On(s, x, b))
           /\ SumOf(s, On(s, x, a)) \in Int /\ SumOf(s, On(s, x, b)) \in Int
<1>1. PICK ea, eb, both : /\ ea = On(s, x, a) /\ eb = On(s, x, b) /\ both = On(s, x, a \cup b)
  OBVIOUS
<1>2. /\ ea \in SUBSET PostedIn(s) /\ eb \in SUBSET PostedIn(s) /\ both \in SUBSET PostedIn(s)
      /\ both = ea \cup eb /\ ea \cap eb = {}
  BY <1>1 DEF On
<1>3. /\ SumOf(s, ea) = Sum(Worth(s), ea) /\ SumOf(s, eb) = Sum(Worth(s), eb)
      /\ SumOf(s, both) = Sum(Worth(s), both)
      /\ IsFiniteSet(ea) /\ IsFiniteSet(eb) /\ IsFiniteSet(both)
  BY <1>2, ReportSum
<1>4. Worth(s) \in [PostedIn(s) -> Int]
  BY WorthInt
<1>5. Sum(Worth(s), both) = Sum(Worth(s), ea) + Sum(Worth(s), eb)
  BY <1>2, <1>3, <1>4, SumSplit
<1>6. Sum(Worth(s), ea) \in Int /\ Sum(Worth(s), eb) \in Int
  BY <1>2, <1>3, <1>4, SumInt
<1> QED
  BY <1>1, <1>3, <1>5, <1>6

(* Whole posted transactions add up to nothing, however many.              *)
LEMMA WholeTransactionsBalance ==
    ASSUME NEW s \in Stores, StoreWhole(s), NEW txs \in SUBSET TxIds,
           \A t \in txs : IsPosted(s, t)
    PROVE  txs \X {1, 2} \in SUBSET PostedIn(s) /\ SumOf(s, txs \X {1, 2}) = 0
<1>1. PICK x : x = txs \X {1, 2}
  OBVIOUS
<1>2. x \in SUBSET PostedIn(s)
  BY <1>1 DEF PostedIn, EntryIds
<1>3. SumOf(s, x) = Sum(Worth(s), x) /\ IsFiniteSet(x)
  BY <1>2, ReportSum
<1>4. PICK posted : posted = {t \in TxIds : IsPosted(s, t)}
  OBVIOUS
<1>5. PostedIn(s) = posted \X {1, 2} /\ IsFiniteSet(posted) /\ txs \in SUBSET posted
  BY <1>4, FiniteTables, FS_Subset DEF PostedIn, EntryIds
<1>6. PICK f : f = Worth(s)
  OBVIOUS
<1>7. f \in [posted \X {1, 2} -> Int]
  BY <1>5, <1>6, WorthInt
<1>8. Paired(f, txs)
  <2> SUFFICES ASSUME NEW t \in txs PROVE f[<<t, 1>>] + f[<<t, 2>>] = 0
    BY DEF Paired
  <2>1. <<t, 1>> \in PostedIn(s) /\ <<t, 2>> \in PostedIn(s)
    BY <1>1, <1>2
  <2>2. /\ f[<<t, 1>>] = SignedCents(s.transactions[t].entries[1])
        /\ f[<<t, 2>>] = SignedCents(s.transactions[t].entries[2])
    BY <1>6, <2>1 DEF Worth, EntryOf
  <2>3. Balanced(s.transactions[t].entries)
    BY DEF StoreWhole, BooksOf, Balances
  <2> QED
    BY <2>2, <2>3 DEF Balanced
<1>9. Sum(f, txs \X {1, 2}) = 0
  <2>1. IsFiniteSet(posted) /\ txs \in SUBSET posted
    BY <1>5
  <2> QED
    BY <2>1, <1>7, <1>8, SumPairs
<1> QED
  BY <1>1, <1>2, <1>3, <1>6, <1>9

(* The calendar has a first and a last day.                                *)
LEMMA DayBounds ==
    /\ FirstDay \in Dates /\ LastDay \in Dates
    /\ \A d \in Dates : d \in Nat /\ FirstDay <= d /\ d <= LastDay
<1>0. Dates \subseteq Nat /\ IsFiniteSet(Dates) /\ Dates # {}
  BY DatesAndCents, FiniteCalendar
<1>1. \E first \in Dates : \A d \in Dates : first <= d
  BY <1>0, Least
<1>2. \E last \in Dates : \A d \in Dates : d <= last
  <2> DEFINE Good == {x \in SUBSET Dates : x = {} \/ \E last \in x : \A d \in x : d <= last}
  <2>1. {} \in Good
    OBVIOUS
  <2>2. ASSUME NEW x \in SUBSET Dates, x # {}, \A y \in x : x \ {y} \in Good
        PROVE  x \in Good
    <3>1. PICK y \in x : TRUE
      BY <2>2
    <3>2. x \ {y} = {} \/ \E last \in x \ {y} : \A d \in x \ {y} : d <= last
      BY <2>2
    <3>3. CASE x \ {y} = {}
      <4>1. \A d \in x : d <= y
        BY <3>3, <1>0
      <4> QED
        BY <4>1
    <3>4. CASE \E last \in x \ {y} : \A d \in x \ {y} : d <= last
      <4>1. PICK last \in x \ {y} : \A d \in x \ {y} : d <= last
        BY <3>4
      <4>2. last \in Nat /\ y \in Nat /\ x \subseteq Nat
        BY <1>0
      <4>3. CASE last <= y
        <5>1. \A d \in x : d <= y
          BY <4>1, <4>2, <4>3
        <5> QED
          BY <5>1
      <4>4. CASE ~(last <= y)
        <5>1. \A d \in x : d <= last
          BY <4>1, <4>2, <4>4
        <5> QED
          BY <5>1
      <4> QED
        BY <4>3, <4>4
    <3> QED
      BY <3>2, <3>3, <3>4
  <2> HIDE DEF Good
  <2>3. Dates \in Good
    BY <1>0, <2>1, <2>2, SubsetInduction
  <2> QED
    BY <2>3, <1>0 DEF Good
<1>3. FirstDay \in Dates /\ \A d \in Dates : FirstDay <= d
  BY <1>1 DEF FirstDay, Min
<1>4. LastDay \in Dates /\ \A d \in Dates : LastDay >= d
  <2>1. \E last \in Dates : \A d \in Dates : last >= d
    BY <1>0, <1>2
  <2>2. LastDay = CHOOSE last \in Dates : \A d \in Dates : last >= d
    BY DEF LastDay, Max
  <2> QED
    BY <2>1, <2>2, Zenon
<1>5. \A d \in Dates : d <= LastDay
  BY <1>0, <1>4
<1> QED
  BY <1>0, <1>3, <1>4, <1>5

(* The dates of a posted transaction are in the calendar.                  *)
LEMMA PostedDates ==
    ASSUME NEW s \in Stores, NEW t \in TxIds, IsPosted(s, t)
    PROVE  /\ s.transactions[t].economic \in Dates
           /\ s.transactions[t].cash \in Dates \cup {NoDate}
<1>1. PICK row \in TransactionRows : row = s.transactions[t]
  BY DEF Stores, IsPosted
<1> QED
  BY <1>1 DEF TransactionRows

(* Every posted entry is on an account or a category.                      *)
LEMMA PostedTargets ==
    ASSUME NEW s \in Stores, StoreWhole(s), NEW e \in PostedIn(s)
    PROVE  /\ EntryAt(s, e).target \in Accounts \cup Categories
           /\ \E t \in TxIds, k \in {1, 2} : e = <<t, k>> /\ IsPosted(s, t)
<1>1. PICK t \in TxIds, k \in {1, 2} : e = <<t, k>> /\ IsPosted(s, t)
  BY DEF PostedIn, EntryIds
<1>2. s.transactions[t].entries \in EntryPairs
  BY <1>1 DEF StoreWhole
<1>3. PICK pair \in EntryPairs : pair = s.transactions[t].entries
  BY <1>2
<1>4. PICK row \in EntryRows : row = pair[k]
  BY DEF EntryPairs
<1>5. row.target \in Accounts \cup Categories
  BY DEF EntryRows
<1>6. EntryAt(s, e) = row
  BY <1>1, <1>3, <1>4 DEF EntryAt, Of
<1> QED
  BY <1>1, <1>5, <1>6

(* By any day all entries add up to nothing, so those on the household's   *)
(* accounts (the net worth) are what the others are not.                   *)
LEMMA ResultExplained ==
    ASSUME NEW s \in Stores, StoreWhole(s)
    PROVE  ResultExplainsNetWorth(s)
<1> SUFFICES ASSUME NEW d \in Dates
    PROVE  NetWorth(s, d).net = Opened(s, d) + Economic(s, FirstDay, d).result
  BY DEF ResultExplainsNetWorth
<1> DEFINE txs == {t \in TxIds : IsPosted(s, t) /\ s.transactions[t].economic <= d}
<1>1. PICK x : x = {e \in Visible(s) : Of(s, e).economic <= d}
  OBVIOUS
<1>2. x = txs \X {1, 2}
  BY <1>1 DEF Visible, Of, ReportEntries
<1>3. x \in SUBSET PostedIn(s) /\ SumOf(s, x) = 0
  BY <1>2, WholeTransactionsBalance
<1>4. EconomicEntries(s, FirstDay, d) = x
  <2>1. ASSUME NEW e \in Visible(s)
        PROVE  Of(s, e).economic \in FirstDay..d <=> Of(s, e).economic <= d
    <3>1. PICK n : n = Of(s, e).economic
      OBVIOUS
    <3>2. n \in Dates
      BY <3>1, PostedDates DEF Visible, Of, ReportEntries
    <3> QED
      BY <3>1, <3>2, DayBounds
  <2> QED
    BY <1>1, <2>1 DEF EconomicEntries
<1>5. /\ AssetAccounts \cap LiabilityAccounts = {}
      /\ HouseholdAccounts \cap {Equity} = {}
      /\ HouseholdAccounts = AssetAccounts \cup LiabilityAccounts
      /\ IncomeCategories \cap ExpenseCategories = {}
      /\ Accounts \cap Categories = {}
      /\ Accounts = HouseholdAccounts \cup {Equity}
      /\ Categories = IncomeCategories \cup ExpenseCategories
  BY IdentifiersDisjoint DEF HouseholdAccounts, Accounts, Categories
<1> DEFINE S(a) == SumOf(s, On(s, x, a))
<1>6. /\ S(AssetAccounts \cup LiabilityAccounts) = S(AssetAccounts) + S(LiabilityAccounts)
      /\ S(AssetAccounts) \in Int /\ S(LiabilityAccounts) \in Int
  BY <1>3, <1>5, OnSplit
<1>7. /\ S(HouseholdAccounts \cup {Equity}) = S(HouseholdAccounts) + S({Equity})
      /\ S({Equity}) \in Int
  <2>1. PICK house, own : house = HouseholdAccounts /\ own = {Equity}
    OBVIOUS
  <2>2. house \cap own = {}
    BY <1>5, <2>1
  <2>3. S(house \cup own) = S(house) + S(own) /\ S(own) \in Int
    BY <1>3, <2>2, OnSplit
  <2> HIDE DEF S
  <2> QED
    BY <2>1, <2>3
<1>8. /\ S(IncomeCategories \cup ExpenseCategories) = S(IncomeCategories) + S(ExpenseCategories)
      /\ S(IncomeCategories) \in Int /\ S(ExpenseCategories) \in Int
  BY <1>3, <1>5, OnSplit
<1>9. S(Accounts \cup Categories) = S(Accounts) + S(Categories)
  <2>1. Accounts \cap Categories = {}
    BY IdentifiersDisjoint
  <2> QED
    BY <1>3, <2>1, OnSplit
<1>10. S(Accounts \cup Categories) = 0
  <2>1. On(s, x, Accounts \cup Categories) = x
    BY <1>3, PostedTargets DEF On
  <2> QED
    BY <1>3, <2>1
<1>11. /\ NetWorth(s, d).net = S(AssetAccounts) - (-S(LiabilityAccounts))
       /\ Opened(s, d) = -S({Equity})
       /\ Economic(s, FirstDay, d).result = -S(IncomeCategories) - S(ExpenseCategories)
  BY <1>1, <1>4 DEF NetWorth, Opened, Economic
<1> HIDE DEF S
<1> QED
  BY <1>5, <1>6, <1>7, <1>8, <1>9, <1>10, <1>11

(* Two separate sets of posted entries add up separately.                  *)
LEMMA TwoParts ==
    ASSUME NEW s \in Stores, StoreWhole(s), NEW x \in SUBSET PostedIn(s),
           NEW a, NEW b, x = a \cup b, a \cap b = {}
    PROVE  /\ SumOf(s, x) = SumOf(s, a) + SumOf(s, b)
           /\ SumOf(s, a) \in Int /\ SumOf(s, b) \in Int
<1>1. PICK f, all : f = Worth(s) /\ all = PostedIn(s)
  OBVIOUS
<1>2. f \in [all -> Int]
  BY <1>1, WorthInt
<1>3. x \in SUBSET all /\ a \in SUBSET all /\ b \in SUBSET all
  BY <1>1
<1>4. /\ SumOf(s, x) = Sum(f, x) /\ SumOf(s, a) = Sum(f, a) /\ SumOf(s, b) = Sum(f, b)
      /\ IsFiniteSet(x) /\ IsFiniteSet(a) /\ IsFiniteSet(b)
  BY <1>1, <1>3, ReportSum
<1>5. Sum(f, x) = Sum(f, a) + Sum(f, b)
  BY <1>2, <1>3, <1>4, SumSplit
<1> QED
  BY <1>2, <1>3, <1>4, <1>5, SumInt

(* Over all days the cash flow is the other side of the economic result:   *)
(* the account entries of the transactions that have a category entry, in  *)
(* which no transaction is on both sides.                                  *)
LEMMA CashAgrees ==
    ASSUME NEW s \in Stores, StoreWhole(s), Sided(s)
    PROVE  CashFlow(s, FirstDay, LastDay).net = Economic(s, FirstDay, LastDay).result
<1>1. PICK all, a, b, c, d :
        /\ all = PostedIn(s)
        /\ a = On(s, all, IncomeCategories) /\ b = On(s, all, ExpenseCategories)
        /\ c = CashFlowEntries(s, FirstDay, LastDay, IncomeCategories)
        /\ d = CashFlowEntries(s, FirstDay, LastDay, ExpenseCategories)
  OBVIOUS
<1>2. EconomicEntries(s, FirstDay, LastDay) = all
  <2>1. ASSUME NEW e \in all PROVE Of(s, e).economic \in FirstDay..LastDay
    <3>1. PICK n : n = Of(s, e).economic
      OBVIOUS
    <3>2. n \in Dates
      BY <1>1, <3>1, PostedDates DEF PostedIn, Of, EntryIds
    <3> QED
      BY <3>1, <3>2, DayBounds
  <2> QED
    BY <1>1, <2>1, VisibleIsPosted DEF EconomicEntries
<1>3. CashEntries(s, FirstDay, LastDay) = {e \in all : Of(s, e).cash # NoDate}
  <2>1. ASSUME NEW e \in all, Of(s, e).cash # NoDate PROVE Of(s, e).cash \in FirstDay..LastDay
    <3>1. PICK n : n = Of(s, e).cash
      OBVIOUS
    <3>2. n \in Dates
      BY <1>1, <2>1, <3>1, PostedDates DEF PostedIn, Of, EntryIds
    <3> QED
      BY <3>1, <3>2, DayBounds
  <2> QED
    BY <1>1, <2>1, VisibleIsPosted DEF CashEntries
<1> DEFINE txs == {t \in TxIds : /\ IsPosted(s, t)
                                 /\ CategoryEntry(s, t, 1) \/ CategoryEntry(s, t, 2)}
<1>4. PICK x : x = txs \X {1, 2}
  OBVIOUS
<1>5. x \in SUBSET all /\ SumOf(s, x) = 0
  BY <1>1, <1>4, WholeTransactionsBalance
<1> DEFINE Kind(e, categories) == \E i \in {1, 2} : EntryAt(s, <<e[1], i>>).target \in categories
           Target(e) == EntryAt(s, e).target
<1>6. ASSUME NEW e \in all
      PROVE  /\ Target(e) \in Accounts \cup Categories
             /\ e \in x <=> Kind(e, Categories)
             /\ ~(Kind(e, IncomeCategories) /\ Kind(e, ExpenseCategories))
             /\ Target(e) \in Categories => Kind(e, Categories)
             /\ Kind(e, Categories) => Of(s, e).cash # NoDate
  <2>1. PICK t \in TxIds, k \in {1, 2} : e = <<t, k>> /\ IsPosted(s, t)
    BY <1>1, PostedTargets
  <2>2. Target(e) \in Accounts \cup Categories
    BY <1>1, PostedTargets
  <2>3. \A i \in {1, 2} : EntryAt(s, <<t, i>>) = s.transactions[t].entries[i]
    BY DEF EntryAt, Of
  <2>4. \A i \in {1, 2} : CategoryEntry(s, t, i) <=> EntryAt(s, <<t, i>>).target \in Categories
    BY <2>3 DEF CategoryEntry
  <2>5. Kind(e, Categories) <=> CategoryEntry(s, t, 1) \/ CategoryEntry(s, t, 2)
    BY <2>1, <2>4
  <2>6. /\ ~(CategoryEntry(s, t, 1) /\ CategoryEntry(s, t, 2))
        /\ CategoryEntry(s, t, 1) \/ CategoryEntry(s, t, 2) => s.transactions[t].cash # NoDate
    BY <2>1 DEF Sided
  <2>7. ~(Kind(e, IncomeCategories) /\ Kind(e, ExpenseCategories))
    <3> SUFFICES ASSUME NEW i \in {1, 2}, NEW j \in {1, 2},
                        EntryAt(s, <<t, i>>).target \in IncomeCategories,
                        EntryAt(s, <<t, j>>).target \in ExpenseCategories
        PROVE  FALSE
      BY <2>1
    <3>1. i # j
      BY IdentifiersDisjoint
    <3>2. CategoryEntry(s, t, i) /\ CategoryEntry(s, t, j)
      BY <2>4 DEF Categories
    <3> QED
      BY <2>6, <3>1, <3>2
  <2>8. e \in x <=> CategoryEntry(s, t, 1) \/ CategoryEntry(s, t, 2)
    BY <1>4, <2>1
  <2>9. Of(s, e).cash = s.transactions[t].cash
    BY <2>1 DEF Of
  <2>10. Target(e) \in Categories => CategoryEntry(s, t, 1) \/ CategoryEntry(s, t, 2)
    BY <2>1, <2>4
  <2> HIDE DEF Kind, Target
  <2> QED
    BY <2>2, <2>5, <2>6, <2>7, <2>8, <2>9, <2>10
<1>7. ASSUME NEW e \in all
      PROVE  /\ e \in a <=> Target(e) \in IncomeCategories
             /\ e \in b <=> Target(e) \in ExpenseCategories
             /\ e \in c <=> /\ Target(e) \in Accounts /\ Of(s, e).cash # NoDate
                            /\ Kind(e, IncomeCategories)
             /\ e \in d <=> /\ Target(e) \in Accounts /\ Of(s, e).cash # NoDate
                            /\ Kind(e, ExpenseCategories)
  BY <1>1, <1>3 DEF On, CashFlowEntries
<1>8. ASSUME NEW e \in all
      PROVE  Kind(e, Categories) <=> Kind(e, IncomeCategories) \/ Kind(e, ExpenseCategories)
  BY DEF Categories
<1>9. a \in SUBSET all /\ b \in SUBSET all /\ c \in SUBSET all /\ d \in SUBSET all
  BY <1>1, <1>3 DEF On, CashFlowEntries
<1> HIDE DEF txs, Kind, Target
<1>10. /\ Accounts \cap Categories = {} /\ IncomeCategories \cap ExpenseCategories = {}
       /\ Categories = IncomeCategories \cup ExpenseCategories
  BY IdentifiersDisjoint DEF Categories
<1>11. a \cap b = {}
  BY <1>7, <1>9, <1>10
<1>12. c \cap d = {}
  BY <1>6, <1>7, <1>9
<1>13. (a \cup b) \cap (c \cup d) = {}
  BY <1>7, <1>9, <1>10
<1>14. x = (a \cup b) \cup (c \cup d)
  <2>1. ASSUME NEW e \in all PROVE e \in x <=> e \in a \/ e \in b \/ e \in c \/ e \in d
    BY <1>6, <1>7, <1>8, <1>10
  <2> QED
    BY <2>1, <1>5, <1>9
<1>15. /\ SumOf(s, x) = (SumOf(s, a) + SumOf(s, b)) + (SumOf(s, c) + SumOf(s, d))
       /\ SumOf(s, a) \in Int /\ SumOf(s, b) \in Int /\ SumOf(s, c) \in Int /\ SumOf(s, d) \in Int
  <2>1. PICK ab, cd : ab = a \cup b /\ cd = c \cup d
    OBVIOUS
  <2>2. /\ x \in SUBSET PostedIn(s) /\ ab \in SUBSET PostedIn(s) /\ cd \in SUBSET PostedIn(s)
        /\ x = ab \cup cd /\ ab \cap cd = {}
    BY <1>1, <1>5, <1>9, <1>13, <1>14, <2>1
  <2>3. SumOf(s, x) = SumOf(s, ab) + SumOf(s, cd)
    BY <2>2, TwoParts
  <2>4. SumOf(s, ab) = SumOf(s, a) + SumOf(s, b) /\ SumOf(s, a) \in Int /\ SumOf(s, b) \in Int
    <3>1. ab \in SUBSET PostedIn(s) /\ ab = a \cup b /\ a \cap b = {}
      BY <1>11, <2>1, <2>2
    <3> QED
      BY <3>1, TwoParts
  <2>5. SumOf(s, cd) = SumOf(s, c) + SumOf(s, d) /\ SumOf(s, c) \in Int /\ SumOf(s, d) \in Int
    <3>1. cd \in SUBSET PostedIn(s) /\ cd = c \cup d /\ c \cap d = {}
      BY <1>12, <2>1, <2>2
    <3> QED
      BY <3>1, TwoParts
  <2> QED
    BY <2>3, <2>4, <2>5
<1>16. /\ CashFlow(s, FirstDay, LastDay).net = SumOf(s, c) - (-SumOf(s, d))
       /\ Economic(s, FirstDay, LastDay).result = -SumOf(s, a) - SumOf(s, b)
  BY <1>1, <1>2 DEF CashFlow, Economic
<1> QED
  BY <1>5, <1>15, <1>16

(* The sum of the account balances, as the community module adds it up.    *)
LEMMA BalancesSum ==
    ASSUME NEW s, NEW x, IsFiniteSet(x), NEW f, \A a \in x : f[a] = AccountBalance(s, a)
    PROVE  MapThenSumSet(LAMBDA a : AccountBalance(s, a), x) = Sum(f, x)
<1> DEFINE Fits(g) ==
      g = [z \in SUBSET x |-> IF z = {} THEN 0
                              ELSE AccountBalance(s, CHOOSE y \in z : TRUE)
                                     + g[z \ {CHOOSE y \in z : TRUE}]]
<1>1. PICK k : k = CHOOSE g : Fits(g)
  OBVIOUS
<1>2. MapThenSumSet(LAMBDA a : AccountBalance(s, a), x) = k[x]
  BY <1>1 DEF MapThenSumSet, MapThenFoldSet
<1>3. ASSUME NEW z \in SUBSET x, z # {}
      PROVE  AccountBalance(s, CHOOSE y \in z : TRUE) = f[AnyOf(z)]
  BY <1>3, AnyOfIn DEF AnyOf
<1>4. ASSUME NEW g PROVE Fits(g) <=> AddsUp(g, f, x)
  BY <1>3 DEF AddsUp, AnyOf
<1>5. AddsUp(k, f, x)
  <2>1. PICK h : AddsUp(h, f, x)
    BY SumExists DEF Summed
  <2>2. Fits(h)
    BY <1>4, <2>1
  <2> HIDE DEF Fits
  <2>3. Fits(k)
    BY <1>1, <2>2
  <2> QED
    BY <1>4, <2>3
<1> QED
  BY <1>2, <1>5, SumByEquation

(* The balances of the accounts add up to the net worth on the last day.   *)
LEMMA BalancesAgree ==
    ASSUME NEW s \in Stores, StoreWhole(s)
    PROVE  MapThenSumSet(LAMBDA a : AccountBalance(s, a), HouseholdAccounts)
             = NetWorth(s, LastDay).net
<1>1. PICK all, f, house : /\ all = PostedIn(s) /\ house = HouseholdAccounts
                           /\ f = [a \in house |-> AccountBalance(s, a)]
  OBVIOUS
<1>2. IsFiniteSet(house)
  BY <1>1, FiniteTables
<1> DEFINE S(x) == SumOf(s, On(s, all, x))
<1>3. MapThenSumSet(LAMBDA a : AccountBalance(s, a), HouseholdAccounts) = Sum(f, house)
  <2>1. \A a \in house : f[a] = AccountBalance(s, a)
    BY <1>1
  <2>2. MapThenSumSet(LAMBDA a : AccountBalance(s, a), house) = Sum(f, house)
    BY <1>2, <2>1, BalancesSum
  <2> QED
    BY <1>1, <2>2
<1>4. \A a \in house : f[a] = S({a}) /\ f[a] \in Int
  <2> SUFFICES ASSUME NEW a \in house PROVE f[a] = S({a}) /\ f[a] \in Int
    OBVIOUS
  <2>1. f[a] = S({a})
    BY <1>1, VisibleIsPosted DEF AccountBalance
  <2>2. S({a}) \in Int
    <3>1. {a} \cap {} = {} /\ all \in SUBSET PostedIn(s)
      BY <1>1
    <3> QED
      BY <3>1, OnSplit
  <2> QED
    BY <2>1, <2>2
<1>5. f \in [house -> Int]
  BY <1>1, <1>4
<1>6. Sum(f, house) = S(house)
  <2> DEFINE Good == {w \in SUBSET house : Sum(f, w) = S(w)}
  <2>1. {} \in Good
    <3>1. On(s, all, {}) = {} /\ {} \in SUBSET PostedIn(s)
      BY DEF On
    <3>2. SumOf(s, {}) = 0
      BY <3>1, ReportSum, SumEmpty
    <3> QED
      BY <3>1, <3>2, SumEmpty
  <2>2. ASSUME NEW w \in SUBSET house, w # {}, \A v \in w : w \ {v} \in Good
        PROVE  w \in Good
    <3>1. PICK v \in w : TRUE
      BY <2>2
    <3>2. IsFiniteSet(w)
      BY <1>2, FS_Subset
    <3>3. Sum(f, w) = f[v] + Sum(f, w \ {v})
      BY <1>5, <3>2, SumTake
    <3>4. PICK one, rest : one = {v} /\ rest = w \ {v}
      OBVIOUS
    <3>5. one \cap rest = {} /\ all \in SUBSET PostedIn(s) /\ w = one \cup rest
      BY <1>1, <3>4
    <3>6. S(one \cup rest) = S(one) + S(rest)
      BY <3>5, OnSplit
    <3>7. Sum(f, rest) = S(rest)
      BY <2>2, <3>4
    <3>8. f[v] = S(one)
      BY <1>4, <3>4
    <3> HIDE DEF S
    <3>9. Sum(f, w) = S(w)
      BY <3>3, <3>4, <3>5, <3>6, <3>7, <3>8
    <3> QED
      BY <3>9
  <2> HIDE DEF Good
  <2>3. house \in Good
    BY <1>2, <2>1, <2>2, SubsetInduction
  <2> QED
    BY <2>3 DEF Good
<1>7. {e \in Visible(s) : Of(s, e).economic <= LastDay} = all
  <2>1. ASSUME NEW e \in all PROVE Of(s, e).economic <= LastDay
    <3>1. Of(s, e).economic \in Dates
      BY <1>1, PostedDates DEF PostedIn, Of, EntryIds
    <3> QED
      BY <3>1, DayBounds
  <2> QED
    BY <1>1, <2>1, VisibleIsPosted
<1>8. /\ S(AssetAccounts \cup LiabilityAccounts) = S(AssetAccounts) + S(LiabilityAccounts)
      /\ S(AssetAccounts) \in Int /\ S(LiabilityAccounts) \in Int
  <2>1. AssetAccounts \cap LiabilityAccounts = {} /\ all \in SUBSET PostedIn(s)
    BY <1>1, IdentifiersDisjoint
  <2> QED
    BY <2>1, OnSplit
<1>9. NetWorth(s, LastDay).net = S(AssetAccounts) - (-S(LiabilityAccounts))
  BY <1>7 DEF NetWorth
<1>10. house = AssetAccounts \cup LiabilityAccounts
  BY <1>1 DEF HouseholdAccounts
<1> HIDE DEF S
<1> QED
  BY <1>3, <1>6, <1>8, <1>9, <1>10

(* Two entries that cancel add up to nothing.                              *)
LEMMA SumTwo ==
    ASSUME NEW D, NEW f \in [D -> Int], NEW a \in D, NEW b \in D, a # b, f[a] + f[b] = 0
    PROVE  Sum(f, {a, b}) = 0
<1>1. IsFiniteSet({a}) /\ IsFiniteSet({b}) /\ {a, b} = {a} \cup {b}
  BY FS_Singleton
<1>2. IsFiniteSet({a, b})
  BY <1>1, FS_AddElement
<1>0. PICK two, one : two = {a, b} /\ one = {b}
  OBVIOUS
<1>3. two = {a, b} /\ one = {b} /\ one = two \ {a} /\ two \in SUBSET D /\ one \in SUBSET D
  BY <1>0
<1>4. Sum(f, two) = f[a] + Sum(f, one)
  BY <1>2, <1>3, SumTake
<1>5. Sum(f, one) = f[b] + Sum(f, one \ {b})
  BY <1>1, <1>3, SumTake
<1>6. Sum(f, one \ {b}) = 0
  BY <1>3, SumEmpty
<1>7. f[a] \in Int /\ f[b] \in Int
  OBVIOUS
<1> QED
  BY <1>3, <1>4, <1>5, <1>6, <1>7

(* A selection that has an entry of the voided transaction exactly when it *)
(* has its mirror in the reversal adds up to nothing.                      *)
BothSides(link, x) ==
    \A k \in {1, 2} : <<link.original, k>> \in x <=> <<link.reversal, k>> \in x

LEMMA MirroredSum ==
    ASSUME NEW s \in Stores, StoreWhole(s), Mirrored(s), NEW link \in s.reversals,
           NEW x \in SUBSET ({link.original, link.reversal} \X {1, 2}),
           BothSides(link, x)
    PROVE  SumOf(Only(s, {link.original, link.reversal}), x) = 0
<1>1. PICK o, r, pair, all, f :
        /\ o = link.original /\ r = link.reversal /\ pair = Only(s, {o, r})
        /\ all = PostedIn(s) /\ f = Worth(s)
  OBVIOUS
<1>2. o \in TxIds /\ r \in TxIds
  BY <1>1 DEF Stores
<1>3. o # r /\ IsPosted(s, o) /\ IsPosted(s, r)
  BY <1>1 DEF Mirrored
<1>4. x \in SUBSET all
  BY <1>1, <1>2, <1>3 DEF PostedIn, EntryIds
<1>5. f \in [all -> Int]
  BY <1>1, WorthInt
<1>6. \A e \in x : f[e] = SignedCents(EntryOf(pair, e))
  <2> SUFFICES ASSUME NEW e \in x PROVE f[e] = SignedCents(EntryOf(pair, e))
    OBVIOUS
  <2>1. f[e] = SignedCents(EntryOf(s, e))
    BY <1>1, <1>4 DEF Worth
  <2>2. e[1] \in {o, r}
    BY <1>1
  <2>3. pair.transactions = [t \in TxIds |-> IF t \in {o, r} THEN s.transactions[t] ELSE Null]
    BY <1>1 DEF Only, Stores
  <2>4. pair.transactions[e[1]] = s.transactions[e[1]]
    BY <1>2, <2>2, <2>3
  <2> QED
    BY <2>1, <2>4 DEF EntryOf
<1>7. IsFiniteSet(x)
  BY <1>4, ReportSum, <1>1
<1>8. SumOf(pair, x) = Sum(f, x)
  <2>1. EffectOf(pair, x) = Sum(f, x)
    BY <1>6, <1>7, EffectIsSum
  <2> QED
    BY <2>1 DEF SumOf, EffectOf, EntryAt, Of, EntryOf
<1>9. \A k \in {1, 2} : <<o, k>> \in all /\ <<r, k>> \in all /\ f[<<o, k>>] + f[<<r, k>>] = 0
  <2> SUFFICES ASSUME NEW k \in {1, 2}
      PROVE  <<o, k>> \in all /\ <<r, k>> \in all /\ f[<<o, k>>] + f[<<r, k>>] = 0
    OBVIOUS
  <2>1. <<o, k>> \in all /\ <<r, k>> \in all
    BY <1>1, <1>2, <1>3 DEF PostedIn, EntryIds
  <2>2. /\ f[<<o, k>>] = SignedCents(s.transactions[o].entries[k])
        /\ f[<<r, k>>] = SignedCents(s.transactions[r].entries[k])
    BY <1>1, <2>1 DEF Worth, EntryOf
  <2>3. SignedCents(s.transactions[r].entries[k]) = -SignedCents(s.transactions[o].entries[k])
    BY <1>1 DEF Mirrored
  <2>4. f[<<o, k>>] \in Int /\ f[<<r, k>>] \in Int
    BY <1>5, <2>1
  <2> QED
    BY <2>1, <2>2, <2>3, <2>4
<1>10. ASSUME NEW k \in {1, 2}, NEW y, y = {e \in x : e[2] = k}
       PROVE  Sum(f, y) = 0
  <2>1. \A e \in y : e = <<o, k>> \/ e = <<r, k>>
    BY <1>1, <1>10
  <2>2. <<o, k>> \in y <=> <<r, k>> \in y
    BY <1>1, <1>10 DEF BothSides
  <2>3. CASE <<o, k>> \in y
    <3>1. PICK a, b : a = <<o, k>> /\ b = <<r, k>>
      OBVIOUS
    <3>2. y = {a, b} /\ a # b
      BY <1>3, <2>1, <2>2, <2>3, <3>1
    <3>3. a \in all /\ b \in all /\ f[a] + f[b] = 0
      BY <1>9, <3>1
    <3> QED
      BY <1>5, <3>2, <3>3, SumTwo
  <2>4. CASE <<o, k>> \notin y
    <3>1. y = {}
      BY <2>1, <2>2, <2>4
    <3> QED
      BY <3>1, SumEmpty
  <2> QED
    BY <2>3, <2>4
<1>11. PICK first, second : first = {e \in x : e[2] = 1} /\ second = {e \in x : e[2] = 2}
  OBVIOUS
<1>12. x = first \cup second /\ first \cap second = {}
  BY <1>11
<1>13. Sum(f, first) = 0 /\ Sum(f, second) = 0
  BY <1>10, <1>11
<1>14. Sum(f, x) = Sum(f, first) + Sum(f, second)
  BY <1>4, <1>5, <1>7, <1>12, SumSplit
<1> QED
  BY <1>1, <1>8, <1>13, <1>14

(* What a report reads of a voided transaction and its reversal alone.     *)
LEMMA PairReads ==
    ASSUME NEW s \in Stores, Mirrored(s), NEW link \in s.reversals,
           NEW pair, pair = Only(s, {link.original, link.reversal})
    PROVE  /\ Visible(pair) = {link.original, link.reversal} \X {1, 2}
           /\ \A t \in {link.original, link.reversal} :
                pair.transactions[t] = s.transactions[t]
           /\ \A k \in {1, 2} : EntryAt(pair, <<link.original, k>>).target
                                  = EntryAt(pair, <<link.reversal, k>>).target
<1>1. PICK o, r : o = link.original /\ r = link.reversal
  OBVIOUS
<1>2. o \in TxIds /\ r \in TxIds
  BY <1>1 DEF Stores
<1>3. IsPosted(s, o) /\ IsPosted(s, r)
  BY <1>1 DEF Mirrored
<1>4. pair.transactions = [t \in TxIds |-> IF t \in {o, r} THEN s.transactions[t] ELSE Null]
  BY <1>1 DEF Only, Stores
<1>5. pair.transactions[o] = s.transactions[o] /\ pair.transactions[r] = s.transactions[r]
  BY <1>2, <1>4
<1>6. \A t \in TxIds : IsPosted(pair, t) <=> t \in {o, r}
  BY <1>3, <1>4 DEF IsPosted
<1>7. \A k \in {1, 2} : EntryAt(pair, <<o, k>>).target = EntryAt(pair, <<r, k>>).target
  BY <1>1, <1>5 DEF EntryAt, Of, Mirrored
<1>8. Visible(pair) = {o, r} \X {1, 2}
  BY <1>2, <1>6 DEF Visible, ReportEntries
<1> QED
  BY <1>1, <1>5, <1>7, <1>8

(* Each report selects an entry and its mirror together, by the dates of   *)
(* both or by their common target: the pair counts for nothing.            *)
LEMMA VoidedCounts ==
    ASSUME NEW s \in Stores, StoreWhole(s), Mirrored(s)
    PROVE  VoidedCancels(s)
<1> SUFFICES ASSUME NEW link \in s.reversals, NEW first \in Dates, NEW last \in Dates
    PROVE  LET pair == Only(s, {link.original, link.reversal})
               voided == s.transactions[link.original]
               reversal == s.transactions[link.reversal]
           IN  /\ {voided.economic, reversal.economic} \subseteq first..last =>
                    Economic(pair, first, last) = [income |-> 0, expense |-> 0, result |-> 0]
               /\ {voided.cash, reversal.cash} \subseteq first..last =>
                    CashFlow(pair, first, last) = [receipts |-> 0, payments |-> 0, net |-> 0]
  BY DEF VoidedCancels
<1>1. PICK o, r, pair, all : /\ o = link.original /\ r = link.reversal
                             /\ pair = Only(s, {o, r}) /\ all = {o, r} \X {1, 2}
  OBVIOUS
<1>2. /\ Visible(pair) = all
      /\ pair.transactions[o] = s.transactions[o] /\ pair.transactions[r] = s.transactions[r]
      /\ \A k \in {1, 2} : EntryAt(pair, <<o, k>>).target = EntryAt(pair, <<r, k>>).target
  <2>1. pair = Only(s, {link.original, link.reversal})
    BY <1>1
  <2>2. /\ Visible(pair) = {link.original, link.reversal} \X {1, 2}
        /\ \A t \in {link.original, link.reversal} : pair.transactions[t] = s.transactions[t]
        /\ \A k \in {1, 2} : EntryAt(pair, <<link.original, k>>).target
                               = EntryAt(pair, <<link.reversal, k>>).target
    BY <2>1, PairReads
  <2> QED
    BY <1>1, <2>2
<1>3. ASSUME NEW x \in SUBSET all, \A k \in {1, 2} : <<o, k>> \in x <=> <<r, k>> \in x
      PROVE  SumOf(pair, x) = 0
  <2>1. BothSides(link, x)
    BY <1>1, <1>3 DEF BothSides
  <2>2. x \in SUBSET ({link.original, link.reversal} \X {1, 2})
    BY <1>1
  <2>3. SumOf(Only(s, {link.original, link.reversal}), x) = 0
    BY <2>1, <2>2, MirroredSum
  <2> QED
    BY <1>1, <2>3
<1>4. \A k \in {1, 2} : <<o, k>> \in all /\ <<r, k>> \in all
  BY <1>1
<1>5. ASSUME {s.transactions[o].economic, s.transactions[r].economic} \subseteq first..last
      PROVE  Economic(pair, first, last) = [income |-> 0, expense |-> 0, result |-> 0]
  <2>1. EconomicEntries(pair, first, last) = all
    <3>1. \A e \in all : Of(pair, e).economic \in first..last
      BY <1>1, <1>2, <1>5 DEF Of
    <3> QED
      BY <1>2, <3>1 DEF EconomicEntries
  <2>2. ASSUME NEW categories PROVE SumOf(pair, On(pair, all, categories)) = 0
    <3>1. PICK x : x = On(pair, all, categories)
      OBVIOUS
    <3>2. x \in SUBSET all /\ \A k \in {1, 2} : <<o, k>> \in x <=> <<r, k>> \in x
      BY <1>2, <1>4, <3>1 DEF On
    <3> QED
      BY <1>3, <3>1, <3>2
  <2>3. /\ SumOf(pair, On(pair, all, IncomeCategories)) = 0
        /\ SumOf(pair, On(pair, all, ExpenseCategories)) = 0
    BY <2>2
  <2> QED
    BY <2>1, <2>3 DEF Economic
<1>6. ASSUME {s.transactions[o].cash, s.transactions[r].cash} \subseteq first..last
      PROVE  CashFlow(pair, first, last) = [receipts |-> 0, payments |-> 0, net |-> 0]
  <2>1. CashEntries(pair, first, last) = all
    <3>1. NoDate \notin first..last
      BY DatesAndCents DEF NoDate
    <3>2. \A e \in all : Of(pair, e).cash \in first..last
      BY <1>1, <1>2, <1>6 DEF Of
    <3>3. \A e \in all : Of(pair, e).cash # NoDate
      BY <3>1, <3>2
    <3> QED
      BY <1>2, <3>2, <3>3 DEF CashEntries
  <2>2. ASSUME NEW categories PROVE SumOf(pair, CashFlowEntries(pair, first, last, categories)) = 0
    <3>1. PICK x : x = CashFlowEntries(pair, first, last, categories)
      OBVIOUS
    <3>2. x = {e \in all : /\ EntryAt(pair, e).target \in Accounts
                           /\ \E i \in {1, 2} : EntryAt(pair, <<e[1], i>>).target \in categories}
      BY <2>1, <3>1 DEF CashFlowEntries, On
    <3>3. x \in SUBSET all /\ \A k \in {1, 2} : <<o, k>> \in x <=> <<r, k>> \in x
      BY <1>2, <1>4, <3>2
    <3> QED
      BY <1>3, <3>1, <3>3
  <2>3. /\ SumOf(pair, CashFlowEntries(pair, first, last, IncomeCategories)) = 0
        /\ SumOf(pair, CashFlowEntries(pair, first, last, ExpenseCategories)) = 0
    BY <2>2
  <2> QED
    BY <2>3 DEF CashFlow
<1> QED
  BY <1>1, <1>5, <1>6

(* It holds where nothing is posted.                                       *)
LEMMA ReportsStart == Init => Sided(books) /\ Mirrored(books)
<1> SUFFICES ASSUME Init PROVE Sided(books) /\ Mirrored(books)
  OBVIOUS
<1>1. books = EmptyStore(OpenAtStart)
  BY DEF Init
<1>2. books.reversals = {} /\ \A t \in TxIds : books.transactions[t] = Null
  BY <1>1 DEF EmptyStore
<1> QED
  BY <1>2 DEF Sided, Mirrored, IsPosted

(* And it is all the reports need.                                         *)
LEMMA ReportsHold == BooksInv /\ Sided(books) /\ Mirrored(books) => ReportsAgree
<1> SUFFICES ASSUME BooksInv, Sided(books), Mirrored(books) PROVE ReportsAgree
  OBVIOUS
<1>1. PICK s : s = books
  OBVIOUS
<1>2. s \in Stores /\ StoreWhole(s) /\ Sided(s) /\ Mirrored(s)
  BY <1>1 DEF BooksInv
<1>3. ResultExplainsNetWorth(s) /\ VoidedCancels(s)
  BY <1>2, ResultExplained, VoidedCounts
<1>4. CashAgreesOverAll(s)
  BY <1>2, CashAgrees, BalancesAgree DEF CashAgreesOverAll
<1> QED
  BY <1>1, <1>3, <1>4 DEF ReportsAgree

(* AC-009, AC-003, AC-007.4: at any moment, whoever posts, reverses,       *)
(* archives or completes, the economic result explains the net worth by    *)
(* any day, the cash flow and the result over all days are the same money, *)
(* the balances add up to the net worth, and a voided transaction counts   *)
(* for nothing with its reversal.                                          *)
THEOREM ReportsAlwaysAgree == Spec => []ReportsAgree
<1>1. Init => Sided(books) /\ Mirrored(books)
  BY ReportsStart
<1>2. /\ ReconciliationInv /\ BooksInv /\ Sided(books) /\ Mirrored(books) /\ [Next]_vars
      => Sided(books') /\ Mirrored(books')
  BY StepKeepsReports
<1>3. BooksInv /\ Sided(books) /\ Mirrored(books) => ReportsAgree
  BY ReportsHold
<1> DEFINE Fit == Sided(books) /\ Mirrored(books)
<1>4. Init => Fit
  BY <1>1
<1>5. ReconciliationInv /\ BooksInv /\ Fit /\ [Next]_vars => Fit'
  BY <1>2
<1>6. BooksInv /\ Fit => ReportsAgree
  BY <1>3
<1> HIDE DEF Fit
<1> QED
  BY <1>4, <1>5, <1>6, ReconciliationInvariance, BooksStayWhole, PTL DEF Spec
=============================================================================
