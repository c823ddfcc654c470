---------------------------- MODULE RecoveryProofs ----------------------------
(***************************************************************************)
(* What is proved of backups, restores and their status for every          *)
(* calendar, retention and number of processes, operators and paths.       *)
(***************************************************************************)
EXTENDS Recovery, FiniteSetTheorems, WellFoundedInduction, TLAPS

(* What an attempt may rely on while others run: it has the row of its day *)
(* from the claim to the mark, what it published stays until it is marked, *)
(* and what it found obsolete remains declared and obsolete.               *)
AttemptHolds(w, a) ==
    /\ a.pc # "idle" => a.date \in Dates
    /\ a.pc \in {"staging", "publishing", "marking", "cleaning", "failing"} =>
         rows[a.date] = [status |-> "STARTED", run |-> w]
    /\ a.pc = "marking" => files[a.date] = "whole"
    /\ \A d \in a.obsolete : rows[d].status = "COMPLETED" /\ ~Kept(d)

BackupTyped ==
    /\ rows \in [Dates -> Rows]
    /\ files \in [Dates -> {"absent", "whole", "empty"}]
    /\ attempts \in [Workers -> Attempts]

BackupInv ==
    /\ BackupTyped
    /\ \A w \in Workers : AttemptHolds(w, attempts[w])
    /\ DeclaredCopiesThere /\ OutcomesAudited

(* A restore under way has a source that was declared, and what it staged  *)
(* is that copy - or empty, if retention ruled the source out.             *)
RestoreHolds(r) ==
    /\ r.pc \notin {"idle", "failing", "rejected"} =>
         r.source \in Dates /\ rows[r.source].status = "COMPLETED"
    /\ \A d \in Dates : r.staged = CopyOf(d) => rows[d].status = "COMPLETED"
    /\ r.staged = Empty =>
         r.source \in Dates /\ rows[r.source].status = "COMPLETED" /\ ~Kept(r.source)

RestoreInv ==
    /\ restores \in [Operators -> Restores]
    /\ isolated \in [Destinations -> Copies]
    /\ \A p \in Operators : RestoreHolds(restores[p])
    /\ \A x \in Destinations, d \in Dates :
          isolated[x] = CopyOf(d) => rows[d].status = "COMPLETED"

(* What a status request has read of a day that had a copy stays true.     *)
StatusInv ==
    /\ status \in Statuses
    /\ status.valid # Null => status.valid \in Completed(rows)
    /\ status.pc = "shown" => Consistent(status)

RecoveryInv == BackupInv /\ RestoreInv /\ StatusInv

-----------------------------------------------------------------------------
\* The dates newer than a day are finitely many, so their number is a number.
LEMMA CountTyped ==
    ASSUME NEW S \in SUBSET Dates, NEW d
    PROVE  IsFiniteSet(Newer(d, S)) /\ Cardinality(Newer(d, S)) \in Nat
<1>1. IsFiniteSet(S)
  BY FiniteCalendar, FS_Subset
<1>2. Newer(d, S) \in SUBSET S
  BY DEF Newer
<1>3. IsFiniteSet(Newer(d, S))
  BY <1>1, <1>2, FS_Subset
<1> QED
  BY <1>3, FS_CardinalityType

(* Retention only ever tightens: a day ruled out stays so.                 *)
LEMMA RetentionTightens ==
    ASSUME NEW S \in SUBSET Dates, NEW T \in SUBSET Dates, S \subseteq T, NEW d
    PROVE  Cardinality(Newer(d, S)) <= Cardinality(Newer(d, T))
<1>1. IsFiniteSet(Newer(d, T))
  BY CountTyped
<1>2. Newer(d, S) \in SUBSET Newer(d, T)
  BY DEF Newer
<1> QED
  BY <1>1, <1>2, FS_Subset

(* The rows of declared days are never touched again.                      *)
DeclaredStay == \A d \in Dates : rows[d].status = "COMPLETED" => rows'[d].status = "COMPLETED"

\* A day retention keeps after a step was kept before it: more copies are declared, never
\* fewer.
LEMMA KeptTightens ==
    ASSUME DeclaredStay, NEW d, Kept(d)'
    PROVE  Kept(d)
<1>1. PICK S \in SUBSET Dates : S = Completed(rows)
  BY DEF Completed
<1>2. PICK T \in SUBSET Dates : T = Completed(rows')
  BY DEF Completed
<1>3. S \subseteq T
  BY <1>1, <1>2 DEF DeclaredStay, Completed
<1>4. Cardinality(Newer(d, S)) <= Cardinality(Newer(d, T))
  BY <1>3, RetentionTightens
<1>5. Cardinality(Newer(d, S)) \in Nat /\ Cardinality(Newer(d, T)) \in Nat
  BY CountTyped
<1>6. Cardinality(Newer(d, T)) < Keep
  BY <1>2 DEF Kept
<1>7. Cardinality(Newer(d, S)) < Keep
  BY <1>4, <1>5, <1>6, RetentionPositive
<1> QED
  BY <1>1, <1>7 DEF Kept

\* What a worker lists as obsolete is declared, and retention does not keep it.
LEMMA ObsoleteNotKept ==
    ASSUME NEW d \in Obsolete(Completed(rows))
    PROVE  d \in Dates /\ rows[d].status = "COMPLETED" /\ ~Kept(d)
<1>1. PICK S \in SUBSET Dates : S = Completed(rows)
  BY DEF Completed
<1>2. Cardinality(Newer(d, S)) \in Nat
  BY CountTyped
<1>3. d \in S /\ Cardinality(Newer(d, S)) >= Keep
  BY <1>1 DEF Obsolete
<1>4. ~(Cardinality(Newer(d, S)) < Keep)
  BY <1>2, <1>3, RetentionPositive
<1> QED
  BY <1>1, <1>3, <1>4 DEF Kept, Completed

\* A worker at rest is an attempt like any other, with nothing listed.
LEMMA IdleTyped == Idle \in Attempts /\ Idle.pc = "idle" /\ Idle.obsolete = {}
BY DEF Idle, Attempts, Places

(* A new program counter, and nothing else of the attempt.                 *)
LEMMA AttemptGoes ==
    ASSUME BackupTyped, NEW w \in Workers, NEW pc \in Places, Goto(w, pc)
    PROVE  /\ attempts' \in [Workers -> Attempts]
           /\ attempts'[w].pc = pc /\ attempts'[w].date = attempts[w].date
           /\ attempts'[w].obsolete = attempts[w].obsolete
           /\ \A v \in Workers \ {w} : attempts'[v] = attempts[v]
<1> DEFINE a == [attempts[w] EXCEPT !.pc = pc]
<1>1. attempts[w] \in Attempts
  BY DEF BackupTyped
<1>2. a \in Attempts /\ a.pc = pc /\ a.date = attempts[w].date /\ a.obsolete = attempts[w].obsolete
  BY <1>1 DEF Attempts
<1>3. attempts' = [attempts EXCEPT ![w] = a]
  BY DEF Goto
<1> HIDE DEF a
<1> QED
  BY <1>2, <1>3 DEF BackupTyped

-----------------------------------------------------------------------------
(* A step of one attempt that leaves the rows, files and events alone.     *)
LEMMA OnlyAttempts ==
    ASSUME BackupInv, UNCHANGED <<rows, files, audit>>, NEW w \in Workers,
           attempts' \in [Workers -> Attempts],
           \A v \in Workers \ {w} : attempts'[v] = attempts[v],
           AttemptHolds(w, attempts[w])'
    PROVE  BackupInv'
<1>1. ASSUME NEW v \in Workers PROVE AttemptHolds(v, attempts[v])'
  <2>1. CASE v = w
    BY <2>1
  <2>2. CASE v # w
    BY <2>2 DEF BackupInv, AttemptHolds, Kept
  <2> QED
    BY <2>1, <2>2
<1>2. DeclaredCopiesThere' /\ OutcomesAudited' /\ BackupTyped'
  BY DEF BackupInv, BackupTyped, DeclaredCopiesThere, OutcomesAudited, Kept
<1> QED
  BY <1>1, <1>2 DEF BackupInv

(* A step that turns the row of one day that is not declared, of which no  *)
(* other attempt has the row.                                              *)
LEMMA RowTurned ==
    ASSUME BackupInv, NEW w \in Workers, NEW d \in Dates, NEW row \in Rows,
           rows' = [rows EXCEPT ![d] = row], UNCHANGED files,
           rows[d].status # "COMPLETED",
           \A v \in Workers \ {w} : rows[d] # [status |-> "STARTED", run |-> v],
           row.status = "COMPLETED" => files[d] = "whole",
           attempts' \in [Workers -> Attempts],
           \A v \in Workers \ {w} : attempts'[v] = attempts[v],
           AttemptHolds(w, attempts[w])', OutcomesAudited'
    PROVE  BackupInv' /\ DeclaredStay
<1>1. rows' \in [Dates -> Rows] /\ rows'[d] = row /\ \A e \in Dates \ {d} : rows'[e] = rows[e]
  BY DEF BackupInv, BackupTyped
<1>2. DeclaredStay
  BY <1>1 DEF DeclaredStay
<1>3. ASSUME NEW v \in Workers PROVE AttemptHolds(v, attempts[v])'
  <2>1. CASE v = w
    BY <2>1
  <2>2. CASE v # w
    <3> DEFINE a == attempts[v]
    <3>1. attempts'[v] = a /\ AttemptHolds(v, a) /\ a \in Attempts
      BY <2>2 DEF BackupInv, BackupTyped
    <3>2. \A e \in a.obsolete : e \in Dates /\ rows'[e].status = "COMPLETED" /\ ~Kept(e)'
      BY <1>2, <3>1, KeptTightens DEF AttemptHolds, DeclaredStay, Attempts
    <3>3. a.pc \in {"staging", "publishing", "marking", "cleaning", "failing"} =>
            a.date \in Dates /\ rows'[a.date] = [status |-> "STARTED", run |-> v]
      BY <1>1, <2>2, <3>1 DEF AttemptHolds
    <3> QED
      BY <3>1, <3>2, <3>3 DEF AttemptHolds
  <2> QED
    BY <2>1, <2>2
<1>4. DeclaredCopiesThere'
  <2> SUFFICES ASSUME NEW e \in Dates, rows'[e].status = "COMPLETED", Kept(e)'
               PROVE  files'[e] = "whole"
    BY DEF DeclaredCopiesThere, Completed
  <2>1. CASE e = d
    BY <1>1, <2>1
  <2>2. CASE e # d
    BY <1>1, <1>2, <2>2, KeptTightens DEF BackupInv, DeclaredCopiesThere, Completed
  <2> QED
    BY <2>1, <2>2
<1> QED
  BY <1>1, <1>2, <1>3, <1>4 DEF BackupInv, BackupTyped

(* A step that touches the file of one day: of a day that no other attempt *)
(* is about to declare, and that is not declared or not kept - or that     *)
(* becomes whole.                                                          *)
LEMMA FileTurned ==
    ASSUME BackupInv, NEW d \in Dates, NEW file \in {"absent", "whole", "empty"},
           files' = [files EXCEPT ![d] = file], UNCHANGED rows,
           file = "whole" \/ rows[d].status # "COMPLETED" \/ ~Kept(d),
           NEW w, NEW others \in SUBSET Workers, others = Workers \ {w},
           file = "whole" \/ \A v \in others : ~(At(v, "marking") /\ Day(v) = d),
           attempts' \in [Workers -> Attempts],
           \A v \in others : attempts'[v] = attempts[v],
           w \in Workers => AttemptHolds(w, attempts[w])', OutcomesAudited'
    PROVE  BackupInv'
<1>1. /\ files' \in [Dates -> {"absent", "whole", "empty"}] /\ files'[d] = file
      /\ \A e \in Dates \ {d} : files'[e] = files[e]
  BY DEF BackupInv, BackupTyped
<1>2. ASSUME NEW v \in others PROVE AttemptHolds(v, attempts[v])'
  <2>1. attempts'[v] = attempts[v] /\ AttemptHolds(v, attempts[v])
    BY DEF BackupInv
  <2>2. \A e : Kept(e)' <=> Kept(e)
    BY DEF Kept
  <2>3. attempts[v].pc = "marking" => files'[attempts[v].date] = "whole"
    BY <1>1, <2>1 DEF AttemptHolds, At, Day
  <2> QED
    BY <2>1, <2>2, <2>3 DEF AttemptHolds
<1>3. \A v \in Workers : AttemptHolds(v, attempts[v])'
  BY <1>2
<1>4. DeclaredCopiesThere'
  BY <1>1 DEF BackupInv, DeclaredCopiesThere, Completed, Kept
<1> QED
  BY <1>1, <1>3, <1>4 DEF BackupInv, BackupTyped

-----------------------------------------------------------------------------
\* Before any backup the invariant holds of the empty table and directory.
LEMMA BackupInvInit == InitBackup => BackupInv
<1> SUFFICES ASSUME InitBackup PROVE BackupInv
  OBVIOUS
<1>1. BackupTyped
  BY IdleTyped DEF InitBackup, BackupTyped, NoRow, Rows
<1>2. \A w \in Workers : AttemptHolds(w, attempts[w])
  BY IdleTyped DEF InitBackup, AttemptHolds
<1>3. \A d \in Dates : rows[d].status = "NONE"
  BY DEF InitBackup, NoRow
<1> QED
  BY <1>1, <1>2, <1>3 DEF BackupInv, DeclaredCopiesThere, OutcomesAudited, Completed, InitBackup

(* An attempt that ends in a state in which it holds nothing.              *)
LEMMA AttemptRests ==
    ASSUME BackupInv, UNCHANGED <<rows, files, audit>>, NEW w \in Workers,
           attempts' = [attempts EXCEPT ![w] = Idle]
    PROVE  BackupInv'
<1>1. /\ attempts' \in [Workers -> Attempts] /\ attempts'[w] = Idle
      /\ \A v \in Workers \ {w} : attempts'[v] = attempts[v]
  BY IdleTyped DEF BackupInv, BackupTyped
<1>2. AttemptHolds(w, attempts[w])'
  BY <1>1, IdleTyped DEF AttemptHolds
<1> QED
  BY <1>1, <1>2, OnlyAttempts

\* A worker that goes on without touching row or file keeps the invariant, as long as its
\* new place asks no more than its run being under way.
LEMMA AttemptLetsGo ==
    ASSUME BackupInv, UNCHANGED <<rows, files, audit>>, NEW w \in Workers,
           NEW pc \in {"already_valid", "in_progress", "failed", "created", "cleaning",
                       "failing", "publishing"},
           ~At(w, "idle"),
           pc \in {"cleaning", "failing", "publishing"} => UnderWay(w),
           Goto(w, pc)
    PROVE  BackupInv'
<1>1. /\ attempts' \in [Workers -> Attempts]
      /\ attempts'[w].pc = pc /\ attempts'[w].date = attempts[w].date
      /\ attempts'[w].obsolete = attempts[w].obsolete
      /\ \A v \in Workers \ {w} : attempts'[v] = attempts[v]
  BY AttemptGoes DEF BackupInv, Places
<1>2. AttemptHolds(w, attempts[w])
  BY DEF BackupInv
<1>3. AttemptHolds(w, attempts[w])'
  BY <1>1, <1>2 DEF AttemptHolds, At, UnderWay, Kept
<1> QED
  BY <1>1, <1>3, OnlyAttempts

\* Setting out for a date asks nothing of the table yet.
LEMMA StartKeeps ==
    ASSUME BackupInv, NEW w \in Workers, NEW d \in Dates, Start(w, d)
    PROVE  BackupInv'
<1> DEFINE a == [Idle EXCEPT !.pc = "claiming", !.date = d]
<1>1. a \in Attempts /\ a.pc = "claiming" /\ a.date = d /\ a.obsolete = {}
  BY DEF Idle, Attempts, Places
<1>2. attempts' = [attempts EXCEPT ![w] = a] /\ UNCHANGED <<rows, files, audit>>
  BY DEF Start
<1> HIDE DEF a
<1>3. /\ attempts' \in [Workers -> Attempts] /\ attempts'[w] = a
      /\ \A v \in Workers \ {w} : attempts'[v] = attempts[v]
  BY <1>1, <1>2 DEF BackupInv, BackupTyped
<1>4. AttemptHolds(w, attempts[w])'
  BY <1>1, <1>3 DEF AttemptHolds
<1> QED
  BY <1>2, <1>3, <1>4, OnlyAttempts

\* Claiming turns a missing or failed row into this worker's, or reports why not.
LEMMA ClaimKeeps ==
    ASSUME BackupInv, NEW w \in Workers, Claim(w)
    PROVE  BackupInv' /\ DeclaredStay
<1> DEFINE d == Day(w)
           row == [status |-> "STARTED", run |-> w]
<1>1. d \in Dates /\ At(w, "claiming") /\ UNCHANGED <<files, audit>>
  BY DEF Claim, BackupInv, AttemptHolds, At, Day
<1>2. CASE UNCHANGED rows
  <2>1. Goto(w, "already_valid") \/ Goto(w, "in_progress") \/ rows' = [rows EXCEPT ![d] = row]
    BY DEF Claim
  <2>2. CASE Goto(w, "already_valid") \/ Goto(w, "in_progress")
    BY <1>1, <1>2, <2>2, AttemptLetsGo DEF At, DeclaredStay
  <2>3. CASE ~(Goto(w, "already_valid") \/ Goto(w, "in_progress"))
    <3>1. Claimable(d) /\ rows' = [rows EXCEPT ![d] = row]
      BY <2>3 DEF Claim
    <3>2. rows'[d] = row /\ rows[d].status # "STARTED"
      BY <1>1, <3>1 DEF Claimable, BackupInv, BackupTyped
    <3> QED
      BY <1>2, <3>2
  <2> QED
    BY <2>2, <2>3
<1>3. CASE rows' # rows
  <2>1. Claimable(d) /\ rows' = [rows EXCEPT ![d] = row] /\ Goto(w, "staging")
    BY <1>3 DEF Claim
  <2>2. rows[d].status \in {"NONE", "FAILED"}
    BY <2>1 DEF Claimable
  <2>3. /\ attempts' \in [Workers -> Attempts]
        /\ attempts'[w].pc = "staging" /\ attempts'[w].date = d
        /\ attempts'[w].obsolete = attempts[w].obsolete
        /\ \A v \in Workers \ {w} : attempts'[v] = attempts[v]
    BY <2>1, AttemptGoes DEF BackupInv, Places, Day
  <2>4. row \in Rows /\ row.status = "STARTED"
    BY DEF Rows
  <2>5. rows'[d] = row /\ \A e \in Dates \ {d} : rows'[e] = rows[e]
    BY <1>1, <2>1 DEF BackupInv, BackupTyped
  <2> HIDE DEF d, row
  <2>6. \A e \in Dates : rows'[e].status = "COMPLETED" <=> rows[e].status = "COMPLETED"
    BY <2>2, <2>4, <2>5
  <2>7. AttemptHolds(w, attempts[w])'
    <3>1. \A e \in attempts[w].obsolete : e \in Dates /\ rows[e].status = "COMPLETED" /\ ~Kept(e)
      BY DEF BackupInv, BackupTyped, AttemptHolds, Attempts
    <3>2. DeclaredStay
      BY <2>6 DEF DeclaredStay
    <3>3. \A e \in attempts[w].obsolete : rows'[e].status = "COMPLETED" /\ ~Kept(e)'
      BY <3>1, <3>2, KeptTightens DEF DeclaredStay
    <3> QED
      BY <1>1, <2>3, <2>4, <2>5, <3>3 DEF AttemptHolds, row
  <2>8. OutcomesAudited'
    BY <1>1, <2>4, <2>5, <2>6 DEF BackupInv, OutcomesAudited
  <2>9. \A v \in Workers \ {w} : rows[d] # [status |-> "STARTED", run |-> v]
    BY <2>2
  <2> QED
    BY <1>1, <2>1, <2>2, <2>3, <2>4, <2>7, <2>8, <2>9, RowTurned
<1> QED
  BY <1>2, <1>3

(* mark_completed and mark_failed, of the attempt that has the row.        *)
LEMMA MarkKeeps ==
    ASSUME BackupInv, NEW w \in Workers,
           NEW status1 \in {"COMPLETED", "FAILED"}, NEW pc \in {"listing", "failed"},
           NEW result \in {"SUCCESS", "FAILURE"},
           status1 = "COMPLETED" => At(w, "marking"),
           status1 = "COMPLETED" <=> result = "SUCCESS",
           UnderWay(w), Owns(w), Goto(w, pc), UNCHANGED files,
           rows' = [rows EXCEPT ![Day(w)].status = status1],
           audit' = audit \cup {Event("BACKUP", Day(w), result)}
    PROVE  BackupInv' /\ DeclaredStay
<1> DEFINE d == Day(w)
           row == [status |-> status1, run |-> w]
<1>1. /\ d \in Dates /\ rows[d] = [status |-> "STARTED", run |-> w]
      /\ status1 = "COMPLETED" => files[d] = "whole"
  BY DEF BackupInv, AttemptHolds, At, Day, Owns, UnderWay
<1>2. rows' = [rows EXCEPT ![d] = row]
  <2>1. [rows[d] EXCEPT !.status = status1] = row
    BY <1>1
  <2> QED
    BY <2>1
<1>3. /\ attempts' \in [Workers -> Attempts]
      /\ attempts'[w].pc = pc /\ attempts'[w].date = d
      /\ attempts'[w].obsolete = attempts[w].obsolete
      /\ \A v \in Workers \ {w} : attempts'[v] = attempts[v]
  BY AttemptGoes DEF BackupInv, Places, Day
<1>4. row \in Rows /\ row.status = status1
  BY DEF Rows
<1>5. rows'[d] = row /\ \A e \in Dates \ {d} : rows'[e] = rows[e]
  BY <1>1, <1>2 DEF BackupInv, BackupTyped
<1>6. audit' = audit \cup {Event("BACKUP", d, result)}
  OBVIOUS
<1>7. rows[d].status = "STARTED" /\ \A v \in Workers \ {w} : rows[d] # [status |-> "STARTED", run |-> v]
  BY <1>1
<1> HIDE DEF d, row
<1>8. DeclaredStay
  BY <1>5, <1>7 DEF DeclaredStay
<1>9. AttemptHolds(w, attempts[w])'
  <2>1. \A e \in attempts[w].obsolete : e \in Dates /\ rows[e].status = "COMPLETED" /\ ~Kept(e)
    BY DEF BackupInv, BackupTyped, AttemptHolds, Attempts
  <2>2. \A e \in attempts[w].obsolete : rows'[e].status = "COMPLETED" /\ ~Kept(e)'
    BY <1>8, <2>1, KeptTightens DEF DeclaredStay
  <2> QED
    BY <1>1, <1>3, <2>2 DEF AttemptHolds
<1>10. OutcomesAudited'
  <2>1. \A e, r : Event("BACKUP", e, r) = Event("BACKUP", d, result) <=> e = d /\ r = result
    BY DEF Event
  <2>2. \A e, r : Event("BACKUP", e, r) \in audit' <=>
                    Event("BACKUP", e, r) \in audit \/ (e = d /\ r = result)
    BY <1>6, <2>1
  <2>3. ASSUME NEW e \in Dates, e # d
        PROVE  /\ Event("BACKUP", e, "SUCCESS") \in audit' <=> rows'[e].status = "COMPLETED"
               /\ rows'[e].status = "FAILED" => Event("BACKUP", e, "FAILURE") \in audit'
    BY <1>5, <2>2, <2>3 DEF BackupInv, OutcomesAudited
  <2>4. /\ Event("BACKUP", d, "SUCCESS") \in audit' <=> rows'[d].status = "COMPLETED"
        /\ rows'[d].status = "FAILED" => Event("BACKUP", d, "FAILURE") \in audit'
    BY <1>1, <1>4, <1>5, <1>7, <2>2 DEF BackupInv, OutcomesAudited
  <2> QED
    BY <2>3, <2>4 DEF OutcomesAudited
<1> QED
  BY <1>1, <1>2, <1>3, <1>4, <1>7, <1>9, <1>10, RowTurned

\* Declaring a run keeps the invariant: its worker is marking, so the file is whole.
LEMMA MarkCompletedKeeps ==
    ASSUME BackupInv, NEW w \in Workers, MarkCompleted(w)
    PROVE  BackupInv' /\ DeclaredStay
<1>1. At(w, "marking") /\ UnderWay(w) /\ ~At(w, "idle") /\ UNCHANGED files
  BY DEF MarkCompleted, At, UnderWay
<1>2. CASE /\ Owns(w) /\ rows' = [rows EXCEPT ![Day(w)].status = "COMPLETED"]
           /\ audit' = audit \cup {Event("BACKUP", Day(w), "SUCCESS")} /\ Goto(w, "listing")
  BY <1>1, <1>2, MarkKeeps
<1>3. CASE Goto(w, "cleaning") /\ UNCHANGED <<rows, audit>>
  BY <1>1, <1>3, AttemptLetsGo DEF DeclaredStay
<1> QED
  BY <1>2, <1>3 DEF MarkCompleted

\* Recording a failure keeps the invariant: the row was this worker's and undeclared.
LEMMA RecordFailureKeeps ==
    ASSUME BackupInv, NEW w \in Workers, RecordFailure(w)
    PROVE  BackupInv' /\ DeclaredStay
<1>1. /\ At(w, "failing") /\ UnderWay(w) /\ ~At(w, "idle") /\ UNCHANGED files
      /\ Goto(w, "failed")
  BY DEF RecordFailure, At, UnderWay
<1>2. CASE /\ Owns(w) /\ rows' = [rows EXCEPT ![Day(w)].status = "FAILED"]
           /\ audit' = audit \cup {Event("BACKUP", Day(w), "FAILURE")}
  BY <1>1, <1>2, MarkKeeps
<1>3. CASE UNCHANGED <<rows, audit>>
  BY <1>1, <1>3, AttemptLetsGo DEF DeclaredStay
<1> QED
  BY <1>2, <1>3 DEF RecordFailure

\* Copying and verifying in the staging file touch nothing that is shared.
LEMMA StageKeeps ==
    ASSUME BackupInv, NEW w \in Workers, Stage(w)
    PROVE  BackupInv'
<1>1. UnderWay(w) /\ ~At(w, "idle") /\ UNCHANGED <<rows, files, audit>>
  BY DEF Stage, At, UnderWay
<1>2. Goto(w, "publishing") \/ Goto(w, "cleaning")
  BY DEF Stage
<1> QED
  BY <1>1, <1>2, AttemptLetsGo

\* A database error ends the attempt and leaves row and file as they are.
LEMMA DatabaseErrorKeeps ==
    ASSUME BackupInv, NEW w \in Workers, DatabaseError(w)
    PROVE  BackupInv'
<1>1. ~At(w, "idle") /\ UNCHANGED <<rows, files, audit>> /\ Goto(w, "failed")
  BY DEF DatabaseError, At
<1> QED
  BY <1>1, AttemptLetsGo

(* No other attempt is about to declare a day whose row names this one, or *)
(* that is declared.                                                       *)
LEMMA NobodyElseMarks ==
    ASSUME BackupInv, NEW w \in Workers, NEW d \in Dates,
           rows[d] = [status |-> "STARTED", run |-> w] \/ rows[d].status = "COMPLETED"
    PROVE  \A v \in Workers \ {w} : ~(At(v, "marking") /\ Day(v) = d)
<1> SUFFICES ASSUME NEW v \in Workers \ {w}, At(v, "marking"), Day(v) = d PROVE FALSE
  OBVIOUS
<1>1. rows[d] = [status |-> "STARTED", run |-> v]
  BY DEF BackupInv, AttemptHolds, At, Day
<1>2. rows[d].status = "STARTED" /\ rows[d].run = v
  BY <1>1
<1>3. rows[d] # [status |-> "STARTED", run |-> w]
  BY <1>2
<1> QED
  BY <1>2, <1>3

\* Publishing puts the whole copy of a day in its place.
LEMMA PublishKeeps ==
    ASSUME BackupInv, NEW w \in Workers, Publish(w)
    PROVE  BackupInv'
<1> DEFINE d == Day(w)
<1>1. /\ attempts[w] \in Attempts /\ At(w, "publishing") /\ UNCHANGED <<rows, audit>>
      /\ UnderWay(w) /\ ~At(w, "idle") /\ AttemptHolds(w, attempts[w])
  BY DEF Publish, At, UnderWay, BackupInv, BackupTyped
<1>2. d \in Dates /\ rows[d] = [status |-> "STARTED", run |-> w]
  BY <1>1 DEF AttemptHolds, At, Day
<1>3. ASSUME files' = [files EXCEPT ![d] = "whole"], NEW a \in Attempts,
             a.pc \in {"marking", "cleaning"}, a.date = d,
             a.obsolete = attempts[w].obsolete, attempts' = [attempts EXCEPT ![w] = a]
      PROVE  BackupInv'
  <2>1. /\ attempts' \in [Workers -> Attempts] /\ attempts'[w] = a
        /\ \A v \in Workers \ {w} : attempts'[v] = attempts[v]
    BY <1>3 DEF BackupInv, BackupTyped
  <2>2. files'[d] = "whole"
    BY <1>2, <1>3 DEF BackupInv, BackupTyped
  <2>3. AttemptHolds(w, attempts[w])'
    BY <1>1, <1>2, <1>3, <2>1, <2>2 DEF AttemptHolds, Kept
  <2>4. OutcomesAudited'
    BY <1>1 DEF BackupInv, OutcomesAudited
  <2>5. PICK others \in SUBSET Workers : others = Workers \ {w}
    OBVIOUS
  <2> QED
    BY <1>1, <1>2, <1>3, <2>1, <2>3, <2>4, <2>5, FileTurned
<1>4. CASE /\ files' = [files EXCEPT ![d] = "whole"]
           /\ attempts' = [attempts EXCEPT ![w].pc = "marking", ![w].published = TRUE]
  <2> DEFINE a == [attempts[w] EXCEPT !.pc = "marking", !.published = TRUE]
  <2>1. a.pc = "marking" /\ a.date = d /\ a.obsolete = attempts[w].obsolete
    BY <1>1 DEF Attempts, Day
  <2>2. a \in Attempts
    BY <1>1 DEF Attempts, Places
  <2>3. attempts' = [attempts EXCEPT ![w] = a]
    BY <1>4 DEF BackupInv, BackupTyped
  <2> QED
    BY <1>3, <1>4, <2>1, <2>2, <2>3
<1>5. CASE files' = [files EXCEPT ![d] = "whole"] /\ Goto(w, "cleaning")
  <2> DEFINE a == [attempts[w] EXCEPT !.pc = "cleaning"]
  <2>1. a \in Attempts /\ a.pc = "cleaning" /\ a.date = d /\ a.obsolete = attempts[w].obsolete
    BY <1>1 DEF Attempts, Places, Day
  <2>2. attempts' = [attempts EXCEPT ![w] = a]
    BY <1>5 DEF Goto
  <2> QED
    BY <1>3, <1>5, <2>1, <2>2
<1>6. CASE UNCHANGED files /\ Goto(w, "cleaning")
  BY <1>1, <1>6, AttemptLetsGo
<1> QED
  BY <1>4, <1>5, <1>6 DEF Publish

\* Cleaning up removes a file whose day is this worker's and undeclared.
LEMMA CleanUpKeeps ==
    ASSUME BackupInv, NEW w \in Workers, CleanUp(w)
    PROVE  BackupInv'
<1> DEFINE d == Day(w)
<1>1. /\ At(w, "cleaning") /\ UnderWay(w) /\ ~At(w, "idle")
      /\ UNCHANGED <<rows, audit>> /\ AttemptHolds(w, attempts[w])
  BY DEF CleanUp, At, UnderWay, BackupInv
<1>2. d \in Dates /\ rows[d] = [status |-> "STARTED", run |-> w]
  BY <1>1 DEF AttemptHolds, At, Day
<1>3. CASE files' = [files EXCEPT ![d] = "absent"] /\ Goto(w, "failing")
  <2>1. /\ attempts' \in [Workers -> Attempts]
        /\ attempts'[w].pc = "failing" /\ attempts'[w].date = d
        /\ attempts'[w].obsolete = attempts[w].obsolete
        /\ \A v \in Workers \ {w} : attempts'[v] = attempts[v]
    BY <1>3, AttemptGoes DEF BackupInv, Places, Day
  <2>2. AttemptHolds(w, attempts[w])'
    BY <1>1, <1>2, <2>1 DEF AttemptHolds, Kept
  <2>3. OutcomesAudited'
    BY <1>1 DEF BackupInv, OutcomesAudited
  <2>4. PICK others \in SUBSET Workers : others = Workers \ {w}
    OBVIOUS
  <2>5. rows[d].status # "COMPLETED"
    BY <1>2
  <2> HIDE DEF d
  <2> QED
    BY <1>1, <1>2, <1>3, <2>1, <2>2, <2>3, <2>4, <2>5, NobodyElseMarks, FileTurned
<1>4. CASE UNCHANGED files /\ (Goto(w, "failing") \/ Goto(w, "failed"))
  BY <1>1, <1>4, AttemptLetsGo
<1> QED
  BY <1>3, <1>4 DEF CleanUp

\* The list of obsolete copies names only declared days that retention gives up.
LEMMA ReadVerifiedKeeps ==
    ASSUME BackupInv, NEW w \in Workers, ReadVerified(w)
    PROVE  BackupInv'
<1>1. PICK S \in SUBSET Dates : S = Obsolete(Completed(rows))
  BY DEF Obsolete, Completed
<1> DEFINE a == [attempts[w] EXCEPT !.pc = "pruning", !.obsolete = S]
<1>2. attempts[w] \in Attempts /\ At(w, "listing") /\ AttemptHolds(w, attempts[w])
  BY DEF BackupInv, BackupTyped, ReadVerified
<1>3. /\ a \in Attempts /\ a.pc = "pruning" /\ a.obsolete = S
      /\ a.date = attempts[w].date /\ a.date \in Dates
  BY <1>2 DEF Attempts, Places, AttemptHolds, At
<1>4. attempts' = [attempts EXCEPT ![w] = a] /\ UNCHANGED <<rows, files, audit>>
  BY <1>1 DEF ReadVerified, BackupInv, BackupTyped
<1> HIDE DEF a
<1>5. /\ attempts' \in [Workers -> Attempts] /\ attempts'[w] = a
      /\ \A v \in Workers \ {w} : attempts'[v] = attempts[v]
  BY <1>3, <1>4 DEF BackupInv, BackupTyped
<1>6. \A e \in S : rows[e].status = "COMPLETED" /\ ~Kept(e)
  BY <1>1, ObsoleteNotKept
<1>7. AttemptHolds(w, attempts[w])'
  BY <1>3, <1>4, <1>5, <1>6 DEF AttemptHolds, Kept
<1> QED
  BY <1>4, <1>5, <1>7, OnlyAttempts

(* A file is pruned, or not, by an attempt that found its day obsolete.    *)
LEMMA PruningKeeps ==
    ASSUME BackupInv, NEW w \in Workers, NEW d \in attempts[w].obsolete,
           NEW a \in Attempts, a.pc \in {"pruning", "failed"},
           a.date = attempts[w].date, a.obsolete \subseteq attempts[w].obsolete,
           At(w, "pruning"), attempts' = [attempts EXCEPT ![w] = a],
           UNCHANGED files \/ files' = [files EXCEPT ![d] = "absent"], UNCHANGED rows,
           UNCHANGED audit \/ audit' = audit \cup {Event("BACKUP", Day(w), "FAILURE")}
    PROVE  BackupInv'
<1>1. attempts[w] \in Attempts /\ AttemptHolds(w, attempts[w])
  BY DEF BackupInv, BackupTyped
<1>2. d \in Dates /\ rows[d].status = "COMPLETED" /\ ~Kept(d)
  BY <1>1 DEF Attempts, AttemptHolds
<1>3. /\ attempts' \in [Workers -> Attempts] /\ attempts'[w] = a
      /\ \A v \in Workers \ {w} : attempts'[v] = attempts[v]
  BY DEF BackupInv, BackupTyped
<1>4. AttemptHolds(w, attempts[w])'
  BY <1>1, <1>3 DEF AttemptHolds, Kept, At
<1>5. OutcomesAudited'
  <2>1. \A e \in Dates : Event("BACKUP", e, "SUCCESS") # Event("BACKUP", Day(w), "FAILURE")
    BY DEF Event
  <2> QED
    BY <2>1 DEF BackupInv, OutcomesAudited
<1>6. PICK file \in {"absent", "whole", "empty"} : files' = [files EXCEPT ![d] = file]
  <2>1. files = [files EXCEPT ![d] = files[d]] /\ files[d] \in {"absent", "whole", "empty"}
    BY <1>2 DEF BackupInv, BackupTyped
  <2> QED
    BY <2>1
<1>7. PICK others \in SUBSET Workers : others = Workers \ {w}
  OBVIOUS
<1>8. \A v \in others : ~(At(v, "marking") /\ Day(v) = d)
  BY <1>2, <1>7, NobodyElseMarks
<1> QED
  BY <1>2, <1>3, <1>4, <1>5, <1>6, <1>7, <1>8, FileTurned

\* Removing an obsolete copy keeps every copy that retention keeps.
LEMMA PruneKeeps ==
    ASSUME BackupInv, NEW w \in Workers, Prune(w)
    PROVE  BackupInv'
<1>1. /\ attempts[w] \in Attempts /\ At(w, "pruning") /\ ~At(w, "idle")
      /\ UNCHANGED <<rows, audit>>
  BY DEF Prune, At, BackupInv, BackupTyped
<1>2. ASSUME NEW d \in attempts[w].obsolete, files' = [files EXCEPT ![d] = "absent"],
             attempts' = [attempts EXCEPT ![w].obsolete = @ \ {d}]
      PROVE  BackupInv'
  <2> DEFINE a == [attempts[w] EXCEPT !.obsolete = @ \ {d}]
  <2>1. /\ a \in Attempts /\ a.pc = "pruning" /\ a.date = attempts[w].date
        /\ a.obsolete \subseteq attempts[w].obsolete
    BY <1>1 DEF Attempts, At
  <2>2. attempts' = [attempts EXCEPT ![w] = a]
    BY <1>2 DEF BackupInv, BackupTyped
  <2> HIDE DEF a
  <2> QED
    BY <1>1, <1>2, <2>1, <2>2, PruningKeeps
<1>3. CASE Goto(w, "created") /\ UNCHANGED files
  BY <1>1, <1>3, AttemptLetsGo
<1> QED
  BY <1>2, <1>3 DEF Prune

\* A removal that fails ends the attempt with the rest of the list.
LEMMA PruneFailsKeeps ==
    ASSUME BackupInv, NEW w \in Workers, PruneFails(w)
    PROVE  BackupInv'
<1> DEFINE a == [attempts[w] EXCEPT !.pc = "failed"]
<1>1. /\ attempts[w] \in Attempts /\ At(w, "pruning") /\ UNCHANGED rows
      /\ UNCHANGED audit \/ audit' = audit \cup {Event("BACKUP", Day(w), "FAILURE")}
  BY DEF PruneFails, BackupInv, BackupTyped
<1>2. PICK d \in attempts[w].obsolete :
         UNCHANGED files \/ files' = [files EXCEPT ![d] = "absent"]
  BY DEF PruneFails
<1>3. /\ a \in Attempts /\ a.pc = "failed" /\ a.date = attempts[w].date
      /\ a.obsolete \subseteq attempts[w].obsolete
  BY <1>1 DEF Attempts, Places
<1>4. attempts' = [attempts EXCEPT ![w] = a]
  BY DEF PruneFails, Goto
<1> HIDE DEF a
<1> QED
  BY <1>1, <1>2, <1>3, <1>4, PruningKeeps

(* A step that turns no row leaves the declared days declared.             *)
LEMMA BackupStepKeeps ==
    ASSUME BackupInv, NEW w \in Workers, BackupStep(w)
    PROVE  BackupInv' /\ DeclaredStay
<1>1. ASSUME UNCHANGED rows PROVE DeclaredStay
  BY <1>1 DEF DeclaredStay
<1>2. ASSUME NEW d \in Dates, Start(w, d) PROVE BackupInv' /\ DeclaredStay
  BY <1>1, <1>2, StartKeeps DEF Start
<1>3. CASE Claim(w)
  BY <1>3, ClaimKeeps
<1>4. CASE Stage(w)
  BY <1>1, <1>4, StageKeeps DEF Stage
<1>5. CASE Publish(w)
  BY <1>1, <1>5, PublishKeeps DEF Publish
<1>6. CASE MarkCompleted(w)
  BY <1>6, MarkCompletedKeeps
<1>7. CASE CleanUp(w)
  BY <1>1, <1>7, CleanUpKeeps DEF CleanUp
<1>8. CASE RecordFailure(w)
  BY <1>8, RecordFailureKeeps
<1>9. CASE DatabaseError(w)
  BY <1>1, <1>9, DatabaseErrorKeeps DEF DatabaseError
<1>10. CASE ReadVerified(w)
  BY <1>1, <1>10, ReadVerifiedKeeps DEF ReadVerified
<1>11. CASE Prune(w)
  BY <1>1, <1>11, PruneKeeps DEF Prune
<1>12. CASE PruneFails(w)
  BY <1>1, <1>12, PruneFailsKeeps DEF PruneFails
<1>13. CASE Exit(w) \/ CrashBackup(w)
  BY <1>1, <1>13, AttemptRests DEF Exit, CrashBackup
<1> QED
  BY <1>2, <1>3, <1>4, <1>5, <1>6, <1>7, <1>8, <1>9, <1>10, <1>11, <1>12, <1>13 DEF BackupStep
-----------------------------------------------------------------------------
\* The copies of different days differ, from each other and from the empty and the
\* missing file.
LEMMA CopiesApart ==
    /\ \A d \in Dates : CopyOf(d) \in Copies /\ CopyOf(d) # Empty /\ CopyOf(d) # Absent
    /\ \A d, e \in Dates : CopyOf(d) = CopyOf(e) => d = e
    /\ Empty \in Copies /\ Absent \in Copies /\ Empty # Absent
BY DEF Copies, CopyOf, Empty, Absent

\* An operator at rest holds no staged file.
LEMMA RestingTyped ==
    /\ Resting \in Restores /\ Resting.pc = "idle" /\ Resting.staged = Absent
BY CopiesApart DEF Resting, Restores

(* A step of one restore, with what it leaves at the destinations.         *)
LEMMA OnlyRestore ==
    ASSUME RestoreInv, NEW p \in Operators, NEW r \in Restores,
           UNCHANGED rows, RestoreHolds(r),
           restores' = [restores EXCEPT ![p] = r],
           isolated' \in [Destinations -> Copies],
           \A x \in Destinations, d \in Dates :
              isolated'[x] = CopyOf(d) => isolated[x] = CopyOf(d) \/ rows[d].status = "COMPLETED"
    PROVE  RestoreInv'
<1>1. /\ restores' \in [Operators -> Restores] /\ restores'[p] = r
      /\ \A q \in Operators \ {p} : restores'[q] = restores[q]
  BY DEF RestoreInv
<1>2. \A q \in Operators : RestoreHolds(restores[q])'
  BY <1>1 DEF RestoreInv, RestoreHolds, Kept
<1>3. \A x \in Destinations, d \in Dates : isolated'[x] = CopyOf(d) => rows'[d].status = "COMPLETED"
  BY DEF RestoreInv
<1> QED
  BY <1>1, <1>2, <1>3 DEF RestoreInv

(* The restore only moves on.                                              *)
LEMMA RestoreMoves ==
    ASSUME RestoreInv, NEW p \in Operators, ~Is(p, "idle"),
           NEW pc \in {"connecting", "publishing", "auditing", "restored", "failing", "rejected"},
           pc \notin {"failing", "rejected"} => ~Is(p, "failing") /\ ~Is(p, "rejected"),
           Move(p, pc) \/ \E b \in BOOLEAN :
              restores' = [restores EXCEPT ![p].pc = pc, ![p].published = b],
           UNCHANGED rows, isolated' \in [Destinations -> Copies],
           \A x \in Destinations, d \in Dates :
              isolated'[x] = CopyOf(d) => isolated[x] = CopyOf(d) \/ rows[d].status = "COMPLETED"
    PROVE  RestoreInv'
<1>1. restores[p] \in Restores /\ RestoreHolds(restores[p])
  BY DEF RestoreInv
<1>2. PICK r \in Restores :
         /\ restores' = [restores EXCEPT ![p] = r]
         /\ r.pc = pc /\ r.source = restores[p].source /\ r.staged = restores[p].staged
  <2>1. CASE Move(p, pc)
    <3> DEFINE r == [restores[p] EXCEPT !.pc = pc]
    <3>1. r \in Restores /\ r.pc = pc /\ r.source = restores[p].source /\ r.staged = restores[p].staged
      BY <1>1 DEF Restores
    <3>2. restores' = [restores EXCEPT ![p] = r]
      BY <2>1 DEF Move
    <3> QED
      BY <3>1, <3>2
  <2>2. ASSUME NEW b \in BOOLEAN, restores' = [restores EXCEPT ![p].pc = pc, ![p].published = b]
        PROVE  \E r \in Restores :
                  /\ restores' = [restores EXCEPT ![p] = r]
                  /\ r.pc = pc /\ r.source = restores[p].source /\ r.staged = restores[p].staged
    <3> DEFINE r == [restores[p] EXCEPT !.pc = pc, !.published = b]
    <3>1. r \in Restores /\ r.pc = pc /\ r.source = restores[p].source /\ r.staged = restores[p].staged
      BY <1>1 DEF Restores
    <3>2. restores' = [restores EXCEPT ![p] = r]
      BY <2>2 DEF RestoreInv
    <3> QED
      BY <3>1, <3>2
  <2> QED
    BY <2>1, <2>2
<1>3. RestoreHolds(r)
  BY <1>1, <1>2 DEF RestoreHolds, Is
<1> QED
  BY <1>2, <1>3, OnlyRestore

(* Restore events tell nothing of backups.                                 *)
LEMMA BackupsStand ==
    ASSUME BackupInv, UNCHANGED <<rows, files, attempts>>, NEW x, NEW result,
           UNCHANGED audit \/ audit' = audit \cup {Event("RESTORE", x, result)}
    PROVE  BackupInv'
<1>1. \A e, r : Event("BACKUP", e, r) # Event("RESTORE", x, result)
  BY DEF Event
<1>2. OutcomesAudited'
  BY <1>1 DEF BackupInv, OutcomesAudited
<1>3. DeclaredCopiesThere' /\ BackupTyped'
  BY DEF BackupInv, BackupTyped, DeclaredCopiesThere, Kept
<1>4. \A w \in Workers : AttemptHolds(w, attempts[w])'
  BY DEF BackupInv, AttemptHolds, Kept
<1> QED
  BY <1>2, <1>3, <1>4 DEF BackupInv

\* Validation of a source sets out for copying or for failure, on what is declared.
LEMMA ValidateKeeps ==
    ASSUME BackupInv, RestoreInv, NEW p \in Operators, NEW d \in Dates, NEW x \in Destinations,
           Validate(p, d, x)
    PROVE  BackupInv' /\ RestoreInv'
<1>1. PICK pc \in {"copying", "failing"} :
         /\ pc = "copying" => Verified(d)
         /\ restores' = [restores EXCEPT ![p] =
              [Resting EXCEPT !.source = d, !.destination = x, !.pc = pc]]
  BY DEF Validate
<1> DEFINE r == [Resting EXCEPT !.source = d, !.destination = x, !.pc = pc]
<1>2. r \in Restores /\ r.pc = pc /\ r.source = d /\ r.staged = Absent
  BY RestingTyped, CopiesApart DEF Resting, Restores
<1>3. restores' = [restores EXCEPT ![p] = r]
  BY <1>1
<1> HIDE DEF r
<1>4. pc = "copying" => rows[d].status = "COMPLETED"
  BY <1>1 DEF Verified, Completed
<1>5. RestoreHolds(r)
  BY <1>2, <1>4, CopiesApart DEF RestoreHolds
<1>6. UNCHANGED <<rows, files, attempts, audit, isolated>>
  BY DEF Validate, BackupsUntouched
<1>7. RestoreInv'
  BY <1>2, <1>3, <1>5, <1>6, OnlyRestore DEF RestoreInv
<1> QED
  BY <1>6, <1>7, BackupsStand

\* The staged file is the declared source, or empty if retention took it meanwhile.
LEMMA CopyKeeps ==
    ASSUME BackupInv, RestoreInv, NEW p \in Operators, Copy(p)
    PROVE  BackupInv' /\ RestoreInv'
<1> DEFINE d == Source(p)
<1>1. /\ Is(p, "connecting") /\ UNCHANGED <<rows, attempts, audit, isolated>>
      /\ restores[p] \in Restores /\ RestoreHolds(restores[p])
  BY DEF Copy, RestoreInv
<1>2. d \in Dates /\ rows[d].status = "COMPLETED"
  BY <1>1 DEF RestoreHolds, Is, Source
<1>3. files[d] # "whole" => ~Kept(d)
  BY <1>2 DEF BackupInv, DeclaredCopiesThere, Completed
<1>4. ASSUME UNCHANGED files PROVE BackupInv'
  BY <1>1, <1>4, BackupsStand
<1>5. CASE UNCHANGED files /\ Move(p, "failing")
  <2>1. RestoreInv'
    BY <1>1, <1>5, RestoreMoves DEF Is, RestoreInv
  <2> QED
    BY <1>4, <1>5, <2>1
<1>6. CASE /\ files' = IF files[d] = "absent" THEN [files EXCEPT ![d] = "empty"] ELSE files
           /\ Keeping(p, "migrating", Content(d))
  <2>1. BackupInv'
    <3>1. CASE files[d] # "absent"
      BY <1>4, <1>6, <3>1
    <3>2. CASE files[d] = "absent"
      <4>1. files' = [files EXCEPT ![d] = "empty"] /\ ~Kept(d)
        BY <1>3, <1>6, <3>2
      <4>2. \A v \in Workers : ~(At(v, "marking") /\ Day(v) = d)
        <5> SUFFICES ASSUME NEW v \in Workers, At(v, "marking"), Day(v) = d PROVE FALSE
          OBVIOUS
        <5>1. rows[d] = [status |-> "STARTED", run |-> v]
          BY DEF BackupInv, AttemptHolds, At, Day
        <5> QED
          BY <1>2, <5>1
      <4>3. PICK others \in SUBSET Workers : others = Workers \ {Null}
        OBVIOUS
      <4>4. others = Workers
        BY <4>3, NullIsNoWorker
      <4>5. OutcomesAudited'
        BY <1>1 DEF BackupInv, OutcomesAudited
      <4>6. attempts' \in [Workers -> Attempts] /\ \A v \in others : attempts'[v] = attempts[v]
        BY <1>1, <4>4 DEF BackupInv, BackupTyped
      <4> HIDE DEF d
      <4> QED
        BY <1>1, <1>2, <4>1, <4>2, <4>3, <4>4, <4>5, <4>6, NullIsNoWorker, FileTurned
    <3> QED
      BY <3>1, <3>2
  <2>2. PICK c \in Copies : c = Content(d) /\ (c = CopyOf(d) \/ (c = Empty /\ ~Kept(d)))
    BY <1>2, <1>3, CopiesApart DEF Content
  <2> DEFINE r == [restores[p] EXCEPT !.pc = "migrating", !.staged = c]
  <2>3. r \in Restores /\ r.pc = "migrating" /\ r.source = d /\ r.staged = c
    BY <1>1, <2>2 DEF Restores, Source
  <2>4. restores' = [restores EXCEPT ![p] = r]
    BY <1>6, <2>2 DEF Keeping, RestoreInv
  <2> HIDE DEF r
  <2>5. RestoreHolds(r)
    <3> HIDE DEF d
    <3> QED
      BY <1>2, <2>2, <2>3, CopiesApart DEF RestoreHolds
  <2>6. RestoreInv'
    BY <1>1, <2>3, <2>4, <2>5, OnlyRestore DEF RestoreInv
  <2> QED
    BY <2>1, <2>6
<1> QED
  BY <1>5, <1>6 DEF Copy

\* Replacing the destination by the staged file keeps what is said of restored files.
LEMMA PublishRestoreKeeps ==
    ASSUME BackupInv, RestoreInv, NEW p \in Operators, PublishRestore(p)
    PROVE  BackupInv' /\ RestoreInv'
<1> DEFINE staged == restores[p].staged
           placed == [isolated EXCEPT ![Target(p)] = staged]
<1>1. /\ Is(p, "publishing") /\ UNCHANGED <<rows, files, attempts, audit>>
      /\ restores[p] \in Restores /\ RestoreHolds(restores[p])
  BY DEF PublishRestore, BackupsUntouched, RestoreInv
<1>2. staged \in Copies /\ \A d \in Dates : staged = CopyOf(d) => rows[d].status = "COMPLETED"
  BY <1>1 DEF RestoreHolds, Restores
<1>3. isolated' = placed \/ isolated' = isolated
  BY DEF PublishRestore
<1>4. isolated \in [Destinations -> Copies]
  BY DEF RestoreInv
<1> HIDE DEF staged
<1>5. isolated' \in [Destinations -> Copies]
  BY <1>2, <1>3, <1>4
<1>6. \A x \in Destinations : isolated'[x] = isolated[x] \/ isolated'[x] = staged
  BY <1>3, <1>4
<1>7. \A x \in Destinations, d \in Dates :
         isolated'[x] = CopyOf(d) => isolated[x] = CopyOf(d) \/ rows[d].status = "COMPLETED"
  BY <1>2, <1>6
<1>8. CASE Move(p, "failing")
  <2>1. RestoreInv'
    BY <1>1, <1>5, <1>7, <1>8, RestoreMoves DEF Is
  <2> QED
    BY <1>1, <2>1, BackupsStand
<1>9. CASE restores' = [restores EXCEPT ![p].pc = "auditing", ![p].published = TRUE]
  <2>1. \E b \in BOOLEAN : restores' = [restores EXCEPT ![p].pc = "auditing", ![p].published = b]
    BY <1>9
  <2>2. RestoreInv'
    BY <1>1, <1>5, <1>7, <2>1, RestoreMoves DEF Is
  <2> QED
    BY <1>1, <2>2, BackupsStand
<1> QED
  BY <1>8, <1>9 DEF PublishRestore

\* A failed restore removes at most what it published itself.
LEMMA WithdrawKeeps ==
    ASSUME BackupInv, RestoreInv, NEW p \in Operators, Withdraw(p)
    PROVE  BackupInv' /\ RestoreInv'
<1>1. /\ Is(p, "failing") /\ Move(p, "rejected") /\ UNCHANGED <<rows, files, attempts>>
      /\ UNCHANGED audit \/ audit' = audit \cup {Event("RESTORE", Target(p), "FAILURE")}
      /\ UNCHANGED isolated \/ isolated' = [isolated EXCEPT ![Target(p)] = Absent]
  BY DEF Withdraw, BackupsUntouched
<1>2. isolated \in [Destinations -> Copies]
  BY DEF RestoreInv
<1>3. isolated' \in [Destinations -> Copies]
  BY <1>1, <1>2, CopiesApart
<1>4. \A x \in Destinations : isolated'[x] = isolated[x] \/ isolated'[x] = Absent
  BY <1>1, <1>2
<1>5. \A x \in Destinations, d \in Dates : isolated'[x] = CopyOf(d) => isolated[x] = CopyOf(d)
  BY <1>4, CopiesApart
<1>6. RestoreInv'
  BY <1>1, <1>3, <1>5, RestoreMoves DEF Is
<1> QED
  BY <1>1, <1>6, BackupsStand

\* A restore that returns or dies leaves its files as they are.
LEMMA RestoreRests ==
    ASSUME BackupInv, RestoreInv, NEW p \in Operators, Return(p) \/ CrashRestore(p)
    PROVE  BackupInv' /\ RestoreInv'
<1>1. /\ UNCHANGED <<rows, files, attempts, audit, isolated>>
      /\ restores' = [restores EXCEPT ![p] = Resting]
  BY DEF Return, CrashRestore, BackupsUntouched
<1>2. RestoreHolds(Resting)
  BY RestingTyped, CopiesApart DEF RestoreHolds
<1>3. RestoreInv'
  BY <1>1, <1>2, RestingTyped, OnlyRestore DEF RestoreInv
<1> QED
  BY <1>1, <1>3, BackupsStand

\* Every step of a restore keeps the invariants and the table of runs.
LEMMA RestoreStepKeeps ==
    ASSUME BackupInv, RestoreInv, NEW p \in Operators, RestoreStep(p)
    PROVE  BackupInv' /\ RestoreInv' /\ UNCHANGED rows
<1>1. UNCHANGED rows
  BY DEF RestoreStep, Validate, FindSource, Copy, Migrate, PublishRestore, AuditRestored,
         AuditRefused, Withdraw, Return, CrashRestore, BackupsUntouched
<1>2. ASSUME NEW d \in Dates, NEW x \in Destinations, Validate(p, d, x)
      PROVE  BackupInv' /\ RestoreInv'
  BY <1>2, ValidateKeeps
<1>3. CASE FindSource(p) \/ Migrate(p) \/ AuditRestored(p) \/ AuditRefused(p)
  <2>1. PICK pc \in {"connecting", "publishing", "restored", "failing"} : Move(p, pc)
    BY <1>3 DEF FindSource, Migrate, AuditRestored, AuditRefused
  <2>2. /\ ~Is(p, "idle") /\ ~Is(p, "failing") /\ ~Is(p, "rejected")
        /\ UNCHANGED <<rows, files, attempts, isolated>>
        /\ UNCHANGED audit \/ audit' = audit \cup {Event("RESTORE", Target(p), "SUCCESS")}
    BY <1>3 DEF FindSource, Migrate, AuditRestored, AuditRefused, Is, BackupsUntouched
  <2>3. RestoreInv'
    BY <2>1, <2>2, RestoreMoves DEF RestoreInv
  <2> QED
    BY <2>2, <2>3, BackupsStand
<1>4. CASE Copy(p)
  BY <1>1, <1>4, CopyKeeps
<1>5. CASE PublishRestore(p)
  BY <1>1, <1>5, PublishRestoreKeeps
<1>6. CASE Withdraw(p)
  BY <1>1, <1>6, WithdrawKeeps
<1>7. CASE Return(p) \/ CrashRestore(p)
  BY <1>1, <1>7, RestoreRests
<1> QED
  BY <1>1, <1>2, <1>3, <1>4, <1>5, <1>6, <1>7 DEF RestoreStep

-----------------------------------------------------------------------------
(* What is declared stays so: requests and restores rest on it.            *)
LEMMA RestoresStand ==
    ASSUME RestoreInv, DeclaredStay, UNCHANGED restoreVars
    PROVE  RestoreInv'
<1>1. restores' = restores /\ isolated' = isolated
  BY DEF restoreVars
<1>2. ASSUME NEW p \in Operators PROVE RestoreHolds(restores[p])'
  <2>1. restores[p] \in Restores /\ RestoreHolds(restores[p])
    BY DEF RestoreInv
  <2>2. restores[p].staged = Empty => ~Kept(restores[p].source)'
    <3>1. PICK d : d = restores[p].source
      OBVIOUS
    <3>2. restores'[p].source = d
      BY <1>1, <3>1
    <3>3. restores[p].staged = Empty => ~Kept(d)'
      BY <2>1, <3>1, KeptTightens DEF RestoreHolds
    <3> QED
      BY <1>1, <3>1, <3>2, <3>3 DEF Kept
  <2> QED
    BY <1>1, <2>1, <2>2 DEF RestoreHolds, DeclaredStay, Kept
<1> QED
  BY <1>1, <1>2 DEF RestoreInv, DeclaredStay

\* A status on show stays true: what was declared stays declared.
LEMMA StatusStands ==
    ASSUME StatusInv, DeclaredStay, UNCHANGED status
    PROVE  StatusInv'
BY DEF StatusInv, DeclaredStay, Completed, Consistent

(* The latest day of a set is one of its days.                             *)
LEMMA LatestTyped ==
    ASSUME NEW S \in SUBSET Dates
    PROVE  IF S = {} THEN Latest(S) = Null ELSE Latest(S) \in S
<1>1. CASE S = {}
  BY <1>1 DEF Latest
<1>2. CASE S # {}
  <2>1. IsFiniteSet(S) /\ \A d \in S : d \in Int
    BY FiniteCalendar, DatesAreNumbers, FS_Subset
  <2>2. \E d \in S : \A e \in S : d >= e
    <3> DEFINE T == {Newer(d, S) : d \in S}
               R == StrictSubsetOrdering(S)
    <3>1. T \subseteq SUBSET S /\ T # {}
      BY <1>2 DEF Newer
    <3>2. IsWellFoundedOn(R, SUBSET S)
      BY <2>1, FS_FiniteSubsetsOfFinite, FS_StrictSubsetOrderingWellFounded
    <3>3. \E X \in T : \A Y \in T : ~(<<Y, X>> \in R)
      <4> HIDE DEF T, R
      <4> QED
        BY <3>1, <3>2, WFMin
    <3>4. PICK d \in S : \A e \in S : ~(<<Newer(e, S), Newer(d, S)>> \in R)
      BY <3>3
    <3>5. ASSUME NEW e \in S, ~(d >= e) PROVE FALSE
      <4>1. e > d
        BY <2>1, <3>5
      <4>2. Newer(e, S) \in SUBSET S /\ Newer(d, S) \in SUBSET S
        BY DEF Newer
      <4>3. Newer(e, S) \subseteq Newer(d, S) /\ e \in Newer(d, S) /\ e \notin Newer(e, S)
        BY <2>1, <4>1 DEF Newer
      <4>4. <<Newer(e, S), Newer(d, S)>> \in R
        BY <4>2, <4>3 DEF StrictSubsetOrdering
      <4> QED
        BY <3>4, <4>4
    <3> QED
      BY <3>5
  <2> QED
    BY <1>2, <2>2 DEF Latest
<1> QED
  BY <1>1, <1>2

\* Each read of the status query keeps what is said of the answer on show.
LEMMA StatusStepKeeps ==
    ASSUME BackupInv, StatusInv, StatusStep
    PROVE  StatusInv' /\ UNCHANGED recoveryVars
<1>1. UNCHANGED recoveryVars /\ UNCHANGED rows
  BY DEF StatusStep, ReadValid, ReadFailure, ReadAttempt, Dismiss, RecoveryUntouched, recoveryVars
<1>2. NoStatus \in Statuses /\ NoStatus.valid = Null /\ NoStatus.pc = "idle"
  BY DEF NoStatus, Statuses
<1>3. WithStatus("COMPLETED") \in SUBSET Dates
  BY DEF WithStatus
<1>4. CASE ReadValid
  <2>1. PICK v : v = Latest(WithStatus("COMPLETED"))
    OBVIOUS
  <2>2. v \in Dates \cup {Null} /\ (v # Null => v \in Completed(rows))
    BY <1>3, <2>1, LatestTyped DEF WithStatus, Completed
  <2>3. status' = [status EXCEPT !.pc = "failure", !.valid = v]
    BY <1>4, <2>1 DEF ReadValid
  <2>4. status' \in Statuses /\ status'.pc = "failure" /\ status'.valid = v
    BY <2>2, <2>3 DEF StatusInv, Statuses
  <2> QED
    BY <1>1, <2>2, <2>4 DEF StatusInv
<1>5. CASE ReadFailure
  <2>1. PICK f : f = Latest(WithStatus("FAILED"))
    OBVIOUS
  <2>2. f \in Dates \cup {Null}
    <3>1. WithStatus("FAILED") \in SUBSET Dates
      BY DEF WithStatus
    <3> QED
      BY <2>1, <3>1, LatestTyped
  <2>3. status' = [status EXCEPT !.pc = "attempt", !.failure = f]
    BY <1>5, <2>1 DEF ReadFailure
  <2>4. status' \in Statuses /\ status'.pc = "attempt" /\ status'.valid = status.valid
    BY <2>2, <2>3 DEF StatusInv, Statuses
  <2> QED
    BY <1>1, <2>4 DEF StatusInv
<1>6. CASE ReadAttempt
  <2>1. PICK a : a = LastAttempt
    OBVIOUS
  <2>2. a \in {"NONE", "STARTED", "COMPLETED", "FAILED"}
    <3> DEFINE S == {e \in Dates : rows[e] # NoRow}
               d == Latest(S)
    <3>1. S \in SUBSET Dates
      OBVIOUS
    <3>2. d = Null \/ d \in Dates
      <4> HIDE DEF S
      <4> QED
        BY <3>1, LatestTyped
    <3>3. a = IF d = Null THEN "NONE" ELSE rows[d].status
      BY <2>1 DEF LastAttempt
    <3> HIDE DEF d
    <3> QED
      BY <3>2, <3>3 DEF BackupInv, BackupTyped, Rows
  <2> DEFINE read == [status EXCEPT !.attempt = a]
  <2>3. read \in Statuses /\ read.valid = status.valid
    BY <2>2 DEF StatusInv, Statuses
  <2>4. status' = IF Consistent(read) THEN [read EXCEPT !.pc = "shown"]
                  ELSE [NoStatus EXCEPT !.pc = "refused"]
    BY <1>6, <2>1 DEF ReadAttempt
  <2> HIDE DEF read
  <2>5. CASE Consistent(read)
    <3>1. /\ status' \in Statuses /\ status'.valid = read.valid
          /\ status'.failure = read.failure /\ status'.attempt = read.attempt
      BY <2>3, <2>4, <2>5 DEF Statuses
    <3> QED
      BY <1>1, <2>3, <2>5, <3>1 DEF StatusInv, Consistent
  <2>6. CASE ~Consistent(read)
    <3>1. status' \in Statuses /\ status'.valid = Null /\ status'.pc = "refused"
      BY <2>4, <2>6 DEF Statuses, NoStatus
    <3> QED
      BY <1>1, <3>1 DEF StatusInv
  <2> QED
    BY <2>5, <2>6
<1>7. CASE Dismiss
  BY <1>1, <1>2, <1>7 DEF Dismiss, StatusInv
<1> QED
  BY <1>1, <1>4, <1>5, <1>6, <1>7 DEF StatusStep

-----------------------------------------------------------------------------
\* The invariant holds initially.
LEMMA RecoveryInvInit == Init => RecoveryInv
<1> SUFFICES ASSUME Init PROVE RecoveryInv
  OBVIOUS
<1>1. BackupInv
  BY BackupInvInit DEF Init
<1>2. RestoreInv
  BY RestingTyped, CopiesApart DEF Init, InitRestore, RestoreInv, RestoreHolds
<1>3. StatusInv
  BY DEF Init, NoStatus, StatusInv, Statuses
<1> QED
  BY <1>1, <1>2, <1>3 DEF RecoveryInv

\* Every step of a backup, a restore, the clock or a reader keeps the invariant.
LEMMA RecoveryInvNext == RecoveryInv /\ [Next]_vars => RecoveryInv'
<1> SUFFICES ASSUME RecoveryInv, [Next]_vars PROVE RecoveryInv'
  OBVIOUS
<1> USE DEF RecoveryInv
<1>1. ASSUME NEW w \in Workers, BackupStep(w), UNCHANGED restoreVars, UNCHANGED status
      PROVE  RecoveryInv'
  BY <1>1, BackupStepKeeps, RestoresStand, StatusStands
<1>2. ASSUME NEW p \in Operators, RestoreStep(p), UNCHANGED status
      PROVE  RecoveryInv'
  <2>1. BackupInv' /\ RestoreInv' /\ UNCHANGED rows
    BY <1>2, RestoreStepKeeps
  <2>2. DeclaredStay
    BY <2>1 DEF DeclaredStay
  <2> QED
    BY <1>2, <2>1, <2>2, StatusStands
<1>3. ASSUME UNCHANGED recoveryVars, StatusInv'
      PROVE  RecoveryInv'
  <2>1. UNCHANGED <<rows, files, attempts, audit>> /\ UNCHANGED restoreVars /\ DeclaredStay
    BY <1>3 DEF recoveryVars, restoreVars, DeclaredStay
  <2> QED
    BY <1>3, <2>1, BackupsStand, RestoresStand
<1>4. CASE StatusStep
  BY <1>3, <1>4, StatusStepKeeps
<1>5. CASE UNCHANGED vars
  <2>1. UNCHANGED recoveryVars /\ UNCHANGED status /\ DeclaredStay
    BY <1>5 DEF vars, recoveryVars, DeclaredStay
  <2> QED
    BY <1>3, <2>1, StatusStands
<1> QED
  BY <1>1, <1>2, <1>4, <1>5 DEF Next, NextRestore, NextBackup

\* The inductive invariant of the recovery holds of every behaviour.
LEMMA RecoveryInvariance == Spec => []RecoveryInv
  BY RecoveryInvInit, RecoveryInvNext, PTL DEF Spec

(* The variables keep to the tables, files and states of the code.         *)
THEOREM TypesKept == Spec => []TypeOK
<1>1. RecoveryInv => TypeOK
  BY DEF RecoveryInv, BackupInv, BackupTyped, RestoreInv, StatusInv, TypeOK
<1> QED
  BY <1>1, RecoveryInvariance, PTL

(* A date is worked on by one attempt at a time, however many processes    *)
(* race for it.                                                            *)
THEOREM OneAttemptAtATime == Spec => []OneAttemptPerDate
<1>1. ASSUME RecoveryInv PROVE OneAttemptPerDate
  <2>1. ASSUME NEW w \in Workers, UnderWay(w)
        PROVE  rows[Day(w)].status = "STARTED" /\ rows[Day(w)].run = w
    <3>1. rows[Day(w)] = [status |-> "STARTED", run |-> w]
      BY <1>1, <2>1 DEF RecoveryInv, BackupInv, AttemptHolds, UnderWay, Day
    <3> QED
      BY <3>1
  <2> QED
    BY <2>1 DEF OneAttemptPerDate
<1> QED
  BY <1>1, RecoveryInvariance, PTL

(* A declared copy is on disk, whole, until retention rules it out.        *)
THEOREM CopiesOutliveFailures == Spec => []DeclaredCopiesThere
<1>1. RecoveryInv => DeclaredCopiesThere
  BY DEF RecoveryInv, BackupInv
<1> QED
  BY <1>1, RecoveryInvariance, PTL

(* The events of a day say what became of its run.                         *)
THEOREM AuditTellsOutcomes == Spec => []OutcomesAudited
<1>1. RecoveryInv => OutcomesAudited
  BY DEF RecoveryInv, BackupInv
<1> QED
  BY <1>1, RecoveryInvariance, PTL

(* What is restored was declared, and is empty only if retention took it.  *)
THEOREM RestoresWhatWasDeclared == Spec => []RestoredIsDeclared
<1>1. RecoveryInv => RestoredIsDeclared
  BY DEF RecoveryInv, RestoreInv, RestoreHolds, RestoredIsDeclared, Completed, Source
<1> QED
  BY <1>1, RecoveryInvariance, PTL

(* A status on show names a day whose copy is on disk or was retired.      *)
THEOREM StatusIsHonest == Spec => []StatusNeverOverclaims
<1>1. ASSUME RecoveryInv PROVE StatusNeverOverclaims
  BY <1>1 DEF RecoveryInv, BackupInv, StatusInv, Consistent, StatusNeverOverclaims,
              DeclaredCopiesThere
<1> QED
  BY <1>1, RecoveryInvariance, PTL

-----------------------------------------------------------------------------
(* Restores to one path, one after another.                                *)

(* No two restores are under way to one path.  restore_isolated looks at   *)
(* the path long before it publishes, and nothing in it excludes a second  *)
(* restore in between: it is what the operator has to keep to.             *)
OneRestorePerPath ==
    \A p, q \in Operators :
        ~Is(p, "idle") /\ ~Is(q, "idle") /\ Target(p) = Target(q) => p = q

(* A path that was reported restored has something on it.                  *)
ReportedAreThere == \A x \in Destinations : Reported(x) => isolated[x] # Absent

(* What a restore may rely on until it reports: its path was not reported  *)
(* before, it has something to publish, and what it published is there.    *)
OrderHolds(r) ==
    /\ r.pc # "idle" => r.destination \in Destinations
    /\ r.pc \in {"copying", "connecting", "migrating", "publishing"} =>
         ~r.published /\ ~Reported(r.destination)
    /\ r.pc \in {"migrating", "publishing", "auditing"} => r.staged # Absent
    /\ r.pc = "auditing" => ~Reported(r.destination) /\ isolated[r.destination] = r.staged
    /\ r.pc = "failing" /\ r.published => ~Reported(r.destination)

OrderInv == (\A p \in Operators : OrderHolds(restores[p])) /\ ReportedAreThere

(* A step of one restore that touches no path but its own.                 *)
LEMMA OrderKept ==
    ASSUME RestoreInv, OrderInv, OneRestorePerPath', NEW p \in Operators, NEW r,
           restores' = [restores EXCEPT ![p] = r], OrderHolds(r)',
           \/ UNCHANGED <<audit, isolated>>
           \/ /\ r.pc # "idle"
              /\ \A x \in Destinations : x # r.destination =>
                   isolated'[x] = isolated[x] /\ (Reported(x)' <=> Reported(x))
              /\ Reported(r.destination)' => isolated'[r.destination] # Absent
    PROVE  OrderInv'
<1>1. restores'[p] = r /\ \A q \in Operators \ {p} : restores'[q] = restores[q]
  BY DEF RestoreInv
<1>2. CASE UNCHANGED <<audit, isolated>>
  BY <1>1, <1>2 DEF OrderInv, OrderHolds, Reported, ReportedAreThere
<1>3. CASE /\ r.pc # "idle"
           /\ \A x \in Destinations : x # r.destination =>
                isolated'[x] = isolated[x] /\ (Reported(x)' <=> Reported(x))
           /\ Reported(r.destination)' => isolated'[r.destination] # Absent
  <2>1. ASSUME NEW q \in Operators \ {p} PROVE OrderHolds(restores[q])'
    <3>1. OrderHolds(restores[q])
      BY DEF OrderInv
    <3>2. CASE restores[q].pc = "idle"
      BY <1>1, <3>2 DEF OrderHolds
    <3>3. CASE restores[q].pc # "idle"
      <4>1. restores[q].destination \in Destinations /\ restores[q].destination # r.destination
        BY <1>1, <1>3, <3>1, <3>3 DEF OneRestorePerPath, Is, Target, OrderHolds
      <4> QED
        BY <1>1, <1>3, <3>1, <4>1 DEF OrderHolds
    <3> QED
      BY <3>2, <3>3
  <2>2. \A x \in Destinations : Reported(x)' => isolated'[x] # Absent
    BY <1>3 DEF OrderInv, ReportedAreThere, Reported
  <2> QED
    BY <1>1, <2>1, <2>2 DEF OrderInv, ReportedAreThere, Reported
<1> QED
  BY <1>2, <1>3

(* A new program counter for one restore.                                  *)
LEMMA MovedRow ==
    ASSUME RestoreInv, NEW p \in Operators, NEW pc, Move(p, pc)
    PROVE  \E r : /\ restores' = [restores EXCEPT ![p] = r]
                  /\ r.pc = pc /\ r.destination = restores[p].destination
                  /\ r.staged = restores[p].staged /\ r.published = restores[p].published
<1>1. restores[p] \in Restores /\ p \in DOMAIN restores
  BY DEF RestoreInv
<1> WITNESS [restores[p] EXCEPT !.pc = pc]
<1> QED
  BY <1>1 DEF Restores, Move

(* A new program counter and a staged file for one restore.                *)
LEMMA StagedRow ==
    ASSUME RestoreInv, NEW p \in Operators, NEW pc, NEW x, Keeping(p, pc, x)
    PROVE  \E r : /\ restores' = [restores EXCEPT ![p] = r]
                  /\ r.pc = pc /\ r.destination = restores[p].destination
                  /\ r.staged = x /\ r.published = restores[p].published
<1>1. restores[p] \in Restores /\ p \in DOMAIN restores
  BY DEF RestoreInv
<1> WITNESS [restores[p] EXCEPT !.pc = pc, !.staged = x]
<1> QED
  BY <1>1 DEF Restores, Keeping

(* The program counter and the mark of a restore that published.           *)
LEMMA PublishedRow ==
    ASSUME RestoreInv, NEW p \in Operators, NEW pc,
           restores' = [restores EXCEPT ![p].pc = pc, ![p].published = TRUE]
    PROVE  \E r : /\ restores' = [restores EXCEPT ![p] = r]
                  /\ r.pc = pc /\ r.destination = restores[p].destination
                  /\ r.staged = restores[p].staged /\ r.published = TRUE
<1>1. restores[p] \in Restores /\ p \in DOMAIN restores
  BY DEF RestoreInv
<1> WITNESS [restores[p] EXCEPT !.pc = pc, !.published = TRUE]
<1> QED
  BY <1>1 DEF Restores

(* A restore that moves on without touching a path or an event.            *)
LEMMA MovesInOrder ==
    ASSUME RestoreInv, OrderInv, OneRestorePerPath', NEW p \in Operators, ~Is(p, "idle"),
           NEW pc, Move(p, pc), UNCHANGED <<audit, isolated>>,
           \/ pc = "connecting" /\ Is(p, "copying")
           \/ pc = "publishing" /\ Is(p, "migrating")
           \/ pc = "failing" /\ ~Is(p, "restored") /\ ~Is(p, "rejected")
           \/ pc = "rejected"
    PROVE  OrderInv'
<1>1. PICK r : /\ restores' = [restores EXCEPT ![p] = r]
               /\ r.pc = pc /\ r.destination = restores[p].destination
               /\ r.staged = restores[p].staged /\ r.published = restores[p].published
  BY MovedRow
<1>2. /\ OrderHolds(restores[p])
      /\ restores[p].pc \in {"idle", "copying", "connecting", "migrating", "publishing",
                             "auditing", "restored", "failing", "rejected"}
  BY DEF OrderInv, RestoreInv, Restores
<1>3. OrderHolds(r)'
  BY <1>1, <1>2 DEF OrderHolds, Is, Reported
<1> QED
  BY <1>1, <1>3, OrderKept

(* Every step of a restore keeps the order of its path.                    *)
LEMMA RestoreStepInOrder ==
    ASSUME RestoreInv, OrderInv, OneRestorePerPath', NEW p \in Operators, RestoreStep(p)
    PROVE  OrderInv'
<1>0. OrderHolds(restores[p]) /\ restores[p] \in Restores
  BY DEF OrderInv, RestoreInv
<1>1. ASSUME NEW d \in Dates, NEW x \in Destinations, Validate(p, d, x) PROVE OrderInv'
  <2>1. PICK pc \in {"copying", "failing"} :
           /\ restores' = [restores EXCEPT ![p] =
                             [Resting EXCEPT !.source = d, !.destination = x, !.pc = pc]]
           /\ pc = "copying" => isolated[x] = Absent
    BY <1>1 DEF Validate
  <2> DEFINE r == [Resting EXCEPT !.source = d, !.destination = x, !.pc = pc]
  <2>2. r.pc = pc /\ r.destination = x /\ r.published = FALSE
    BY DEF Resting
  <2>3. pc = "copying" => ~Reported(x)
    BY <2>1 DEF OrderInv, ReportedAreThere, Reported
  <2>4. restores' = [restores EXCEPT ![p] = r] /\ UNCHANGED <<audit, isolated>>
    BY <1>1, <2>1 DEF Validate
  <2>5. OrderHolds(r)'
    BY <2>2, <2>3, <2>4 DEF OrderHolds, Reported
  <2> QED
    BY <2>4, <2>5, OrderKept
<1>2. CASE FindSource(p)
  BY <1>2, MovesInOrder DEF FindSource, Is
<1>3. CASE Copy(p)
  <2>1. CASE Move(p, "failing")
    BY <1>3, <2>1, MovesInOrder DEF Copy, Is
  <2>2. CASE Keeping(p, "migrating", Content(Source(p)))
    <3>1. PICK r : /\ restores' = [restores EXCEPT ![p] = r]
                   /\ r.pc = "migrating" /\ r.destination = restores[p].destination
                   /\ r.staged = Content(Source(p)) /\ r.published = restores[p].published
      BY <2>2, StagedRow
    <3>2. Content(Source(p)) # Absent
      BY DEF Content, CopyOf, Empty, Absent
    <3>3. UNCHANGED <<audit, isolated>>
      BY <1>3 DEF Copy
    <3>4. OrderHolds(r)'
      BY <1>0, <1>3, <3>1, <3>2, <3>3 DEF OrderHolds, Copy, Is, Reported
    <3> QED
      BY <3>1, <3>3, <3>4, OrderKept
  <2> QED
    BY <1>3, <2>1, <2>2 DEF Copy
<1>4. CASE Migrate(p)
  BY <1>4, MovesInOrder DEF Migrate, Is
<1>5. CASE PublishRestore(p)
  <2> DEFINE placed == [isolated EXCEPT ![Target(p)] = restores[p].staged]
  <2>1. /\ Is(p, "publishing") /\ Target(p) \in Destinations /\ ~Reported(Target(p))
        /\ restores[p].staged # Absent /\ ~restores[p].published /\ UNCHANGED audit
    BY <1>0, <1>5 DEF PublishRestore, OrderHolds, Is, Target
  <2>2. /\ placed[Target(p)] = restores[p].staged
        /\ \A x \in Destinations : x # Target(p) => placed[x] = isolated[x]
    BY <2>1 DEF RestoreInv
  <2> HIDE DEF placed
  <2>3. CASE isolated' = placed /\ Move(p, "failing")
    <3>1. PICK r : /\ restores' = [restores EXCEPT ![p] = r]
                   /\ r.pc = "failing" /\ r.destination = restores[p].destination
                   /\ r.staged = restores[p].staged /\ r.published = restores[p].published
      BY <2>3, MovedRow
    <3>2. OrderHolds(r)'
      BY <2>1, <3>1 DEF OrderHolds, Reported, Target
    <3>3. \A x \in Destinations : x # r.destination =>
             isolated'[x] = isolated[x] /\ (Reported(x)' <=> Reported(x))
      BY <2>1, <2>2, <2>3, <3>1 DEF Reported, Target
    <3>4. Reported(r.destination)' => isolated'[r.destination] # Absent
      BY <2>1, <3>1 DEF Reported, Target
    <3> QED
      BY <3>1, <3>2, <3>3, <3>4, OrderKept
  <2>4. CASE isolated' = placed
             /\ restores' = [restores EXCEPT ![p].pc = "auditing", ![p].published = TRUE]
    <3>1. PICK r : /\ restores' = [restores EXCEPT ![p] = r]
                   /\ r.pc = "auditing" /\ r.destination = restores[p].destination
                   /\ r.staged = restores[p].staged /\ r.published = TRUE
      BY <2>4, PublishedRow
    <3>2. OrderHolds(r)'
      BY <2>1, <2>2, <2>4, <3>1 DEF OrderHolds, Reported, Target
    <3>3. \A x \in Destinations : x # r.destination =>
             isolated'[x] = isolated[x] /\ (Reported(x)' <=> Reported(x))
      BY <2>1, <2>2, <2>4, <3>1 DEF Reported, Target
    <3>4. Reported(r.destination)' => isolated'[r.destination] # Absent
      BY <2>1, <3>1 DEF Reported, Target
    <3> QED
      BY <3>1, <3>2, <3>3, <3>4, OrderKept
  <2>5. CASE UNCHANGED isolated /\ Move(p, "failing")
    BY <1>5, <2>1, <2>5, MovesInOrder DEF Is
  <2> QED
    BY <1>5, <2>3, <2>4, <2>5 DEF PublishRestore, placed
<1>6. CASE AuditRestored(p)
  <2>1. PICK r : /\ restores' = [restores EXCEPT ![p] = r]
                 /\ r.pc = "restored" /\ r.destination = restores[p].destination
                 /\ r.staged = restores[p].staged /\ r.published = restores[p].published
    <3>1. Move(p, "restored")
      BY <1>6 DEF AuditRestored
    <3> QED
      BY <3>1, MovedRow
  <2>2. /\ Target(p) \in Destinations /\ isolated[Target(p)] # Absent /\ UNCHANGED isolated
        /\ audit' = audit \cup {Event("RESTORE", Target(p), "SUCCESS")}
    BY <1>0, <1>6 DEF AuditRestored, OrderHolds, Is, Target
  <2>3. OrderHolds(r)'
    BY <2>1, <2>2 DEF OrderHolds, Target
  <2>4. \A x : x # Target(p) => (Reported(x)' <=> Reported(x))
    BY <2>2 DEF Reported, Event
  <2> QED
    BY <2>1, <2>2, <2>3, <2>4, OrderKept DEF Target
<1>7. CASE AuditRefused(p)
  BY <1>7, MovesInOrder DEF AuditRefused, Is
<1>8. CASE Withdraw(p)
  <2>0. Move(p, "rejected")
    BY <1>8 DEF Withdraw
  <2>1. PICK r : /\ restores' = [restores EXCEPT ![p] = r]
                 /\ r.pc = "rejected" /\ r.destination = restores[p].destination
                 /\ r.staged = restores[p].staged /\ r.published = restores[p].published
    BY <2>0, MovedRow
  <2>2. CASE UNCHANGED <<audit, isolated>>
    BY <1>8, <2>0, <2>2, MovesInOrder DEF Withdraw, Is
  <2>3. CASE /\ isolated' = IF restores[p].published
                            THEN [isolated EXCEPT ![Target(p)] = Absent] ELSE isolated
             /\ audit' = audit \cup {Event("RESTORE", Target(p), "FAILURE")}
    <3>1. \A x : Reported(x)' <=> Reported(x)
      BY <2>3 DEF Reported, Event
    <3>2. /\ Target(p) \in Destinations
          /\ restores[p].published => ~Reported(Target(p))
      BY <1>0, <1>8 DEF Withdraw, OrderHolds, Is, Target
    <3>3. OrderHolds(r)'
      BY <2>1, <3>2 DEF OrderHolds, Target
    <3>4. r.pc # "idle" /\ r.destination = Target(p)
      BY <2>1 DEF Target
    <3>5. \A x \in Destinations : x # r.destination => isolated'[x] = isolated[x]
      BY <2>3, <3>4 DEF RestoreInv
    <3>6. Reported(r.destination)' => isolated'[r.destination] # Absent
      <4>1. CASE restores[p].published
        BY <3>1, <3>2, <3>4, <4>1
      <4>2. CASE ~restores[p].published
        BY <2>3, <3>1, <3>2, <3>4, <4>2 DEF OrderInv, ReportedAreThere, Reported
      <4> QED
        BY <4>1, <4>2
    <3> QED
      BY <2>1, <3>1, <3>3, <3>4, <3>5, <3>6, OrderKept
  <2> QED
    BY <1>8, <2>2, <2>3 DEF Withdraw
<1>9. CASE Return(p) \/ CrashRestore(p)
  <2>1. restores' = [restores EXCEPT ![p] = Resting] /\ UNCHANGED <<audit, isolated>>
    BY <1>9 DEF Return, CrashRestore
  <2>2. OrderHolds(Resting)'
    BY RestingTyped DEF OrderHolds
  <2> QED
    BY <2>1, <2>2, OrderKept
<1> QED
  BY <1>1, <1>2, <1>3, <1>4, <1>5, <1>6, <1>7, <1>8, <1>9 DEF RestoreStep

(* Backups write events of their own.                                      *)
LEMMA BackupsKeepOrder ==
    ASSUME OrderInv, UNCHANGED <<restores, isolated>>, \A x : Reported(x)' <=> Reported(x)
    PROVE  OrderInv'
  BY DEF OrderInv, OrderHolds, ReportedAreThere, Reported

(* They report no restore.                                                 *)
LEMMA BackupsDoneNothing ==
    ASSUME NEW w \in Workers, BackupStep(w)
    PROVE  \A x : Reported(x)' <=> Reported(x)
<1>1. \/ UNCHANGED audit
      \/ \E d, outcome : audit' = audit \cup {Event("BACKUP", d, outcome)}
  BY DEF BackupStep, Start, Claim, Stage, Publish, MarkCompleted, CleanUp, RecordFailure,
         DatabaseError, ReadVerified, Prune, PruneFails, Exit, CrashBackup
<1> QED
  BY <1>1 DEF Reported, Event

(* A step of a restore writes to no path that was reported, and reports    *)
(* only its own, with the copy it staged on it.                            *)
LEMMA StepKeepsReported ==
    ASSUME RestoreInv, OrderInv, NEW p \in Operators, RestoreStep(p), NEW x \in Destinations
    PROVE  /\ Reported(x) => isolated'[x] = isolated[x]
           /\ ~Reported(x) /\ Reported(x)' =>
                Target(p) = x /\ restores[p].staged # Absent /\ isolated'[x] = restores[p].staged
<1>0. OrderHolds(restores[p]) /\ DOMAIN isolated = Destinations
  BY DEF OrderInv, RestoreInv
<1>1. CASE PublishRestore(p)
  <2>1. UNCHANGED audit /\ ~Reported(Target(p))
    BY <1>0, <1>1 DEF PublishRestore, OrderHolds, Is, Target
  <2>2. UNCHANGED isolated \/ isolated' = [isolated EXCEPT ![Target(p)] = restores[p].staged]
    BY <1>1 DEF PublishRestore
  <2> QED
    BY <1>0, <2>1, <2>2 DEF Reported
<1>2. CASE Withdraw(p)
  <2>1. Reported(x)' <=> Reported(x)
    BY <1>2 DEF Withdraw, Reported, Event
  <2>2. \/ UNCHANGED isolated
        \/ restores[p].published /\ isolated' = [isolated EXCEPT ![Target(p)] = Absent]
    BY <1>2 DEF Withdraw
  <2>3. restores[p].published => ~Reported(Target(p))
    BY <1>0, <1>2 DEF Withdraw, OrderHolds, Is, Target
  <2> QED
    BY <1>0, <2>1, <2>2, <2>3
<1>3. CASE AuditRestored(p)
  <2>1. /\ UNCHANGED isolated /\ audit' = audit \cup {Event("RESTORE", Target(p), "SUCCESS")}
        /\ restores[p].staged # Absent /\ isolated[Target(p)] = restores[p].staged
    BY <1>0, <1>3 DEF AuditRestored, OrderHolds, Is, Target
  <2>2. Reported(x)' => Reported(x) \/ x = Target(p)
    BY <2>1 DEF Reported, Event
  <2> QED
    BY <2>1, <2>2
<1>4. CASE UNCHANGED <<audit, isolated>>
  BY <1>4 DEF Reported
<1> QED
  BY <1>1, <1>2, <1>3, <1>4
  DEF RestoreStep, Validate, FindSource, Copy, Migrate, AuditRefused, Return, CrashRestore

(* What is at a path when it is reported restored is the copy that was     *)
(* staged for it, and it stays that copy as long as no two restores are    *)
(* under way to one path: later ones are refused, and neither a late       *)
(* failure nor a crash replaces it or takes it away.                       *)
THEOREM RestoredCopiesStay == Spec /\ []OneRestorePerPath => RestoredStays
<1>1. Init => OrderInv
  BY RestingTyped DEF Init, InitBackup, InitRestore, OrderInv, OrderHolds, ReportedAreThere,
                      Reported
<1>2. ASSUME RecoveryInv, OrderInv, OneRestorePerPath', [Next]_vars PROVE OrderInv'
  <2>1. ASSUME NEW w \in Workers, BackupStep(w), UNCHANGED restoreVars PROVE OrderInv'
    BY <1>2, <2>1, BackupsKeepOrder, BackupsDoneNothing DEF restoreVars
  <2>2. ASSUME NEW p \in Operators, RestoreStep(p) PROVE OrderInv'
    BY <1>2, <2>2, RestoreStepInOrder DEF RecoveryInv
  <2>3. CASE StatusStep \/ UNCHANGED vars
    <3>1. UNCHANGED <<audit, restores, isolated>>
      BY <2>3 DEF StatusStep, ReadValid, ReadFailure, ReadAttempt, Dismiss, RecoveryUntouched,
                  recoveryVars, vars
    <3> QED
      BY <1>2, <3>1, BackupsKeepOrder DEF Reported
  <2> QED
    BY <1>2, <2>1, <2>2, <2>3 DEF Next, NextRestore, NextBackup
<1>3. RecoveryInv /\ OrderInv /\ OneRestorePerPath' /\ [Next]_vars => OrderInv'
  BY <1>2
<1> DEFINE Stays ==
      \A x \in Destinations :
          /\ Reported(x) => isolated'[x] = isolated[x]
          /\ ~Reported(x) /\ Reported(x)' => \E p \in Operators :
                Target(p) = x /\ restores[p].staged # Absent /\ isolated'[x] = restores[p].staged
<1>4. ASSUME RecoveryInv, OrderInv, [Next]_vars PROVE Stays
  <2>1. ASSUME NEW w \in Workers, BackupStep(w), UNCHANGED restoreVars PROVE Stays
    BY <2>1, BackupsDoneNothing DEF restoreVars
  <2>2. ASSUME NEW p \in Operators, RestoreStep(p) PROVE Stays
    <3>1. RestoreInv
      BY <1>4 DEF RecoveryInv
    <3> QED
      BY <1>4, <2>2, <3>1, StepKeepsReported
  <2>3. CASE StatusStep \/ UNCHANGED vars
    <3>1. UNCHANGED <<audit, restores, isolated>>
      BY <2>3 DEF StatusStep, ReadValid, ReadFailure, ReadAttempt, Dismiss, RecoveryUntouched,
                  recoveryVars, vars
    <3> QED
      BY <3>1 DEF Reported
  <2> QED
    BY <1>4, <2>1, <2>2, <2>3 DEF Next, NextRestore, NextBackup
<1>5. RecoveryInv /\ OrderInv /\ [Next]_vars => [Stays]_vars
  BY <1>4
<1> QED
  BY <1>1, <1>3, <1>5, RecoveryInvariance, PTL DEF Spec, RestoredStays

(* One operator never has two restores under way: what it reported stays   *)
(* the copy it staged.                                                     *)
THEOREM OneOperatorSuffices ==
    ASSUME \A p, q \in Operators : p = q
    PROVE  Spec => RestoredStays
<1>1. OneRestorePerPath
  BY DEF OneRestorePerPath
<1> QED
  BY <1>1, RestoredCopiesStay, PTL

-----------------------------------------------------------------------------
Present == {d \in Dates : files[d] = "whole"}

AbstractStep == Daily!Next \/ UNCHANGED <<Completed(rows), Present>>

(* What a file that is put in place or removed means for the copies.       *)
LEMMA FileMapped ==
    ASSUME BackupTyped, NEW d \in Dates, NEW file \in {"absent", "whole", "empty"},
           files' = [files EXCEPT ![d] = file]
    PROVE  Present' = IF file = "whole" THEN Present \cup {d} ELSE Present \ {d}
<1>1. files'[d] = file /\ \A e \in Dates \ {d} : files'[e] = files[e]
  BY DEF BackupTyped
<1> QED
  BY <1>1 DEF Present

(* A row that is turned outside the mark declares nothing.                 *)
LEMMA NothingDeclared ==
    ASSUME BackupTyped, NEW d \in Dates, NEW row, row.status # "COMPLETED",
           rows[d].status # "COMPLETED", rows' = [rows EXCEPT ![d] = row]
    PROVE  UNCHANGED Completed(rows)
<1>1. rows'[d] = row /\ \A e \in Dates \ {d} : rows'[e] = rows[e]
  BY DEF BackupTyped
<1> QED
  BY <1>1 DEF Completed

\* Marking a run completed is the abstract declaration of a copy that is there.
LEMMA MarkDeclares ==
    ASSUME BackupInv, NEW w \in Workers, MarkCompleted(w)
    PROVE  AbstractStep
<1> DEFINE d == Day(w)
<1>1. At(w, "marking") /\ UNCHANGED files /\ Present' = Present
  BY DEF MarkCompleted, Present
<1>2. /\ d \in Dates /\ rows[d] = [status |-> "STARTED", run |-> w] /\ files[d] = "whole"
  BY <1>1 DEF BackupInv, AttemptHolds, At, Day
<1>3. CASE UNCHANGED rows
  BY <1>1, <1>3 DEF AbstractStep, Completed
<1>4. CASE rows' = [rows EXCEPT ![d].status = "COMPLETED"]
  <2>1. rows'[d].status = "COMPLETED" /\ \A e \in Dates \ {d} : rows'[e] = rows[e]
    BY <1>2, <1>4 DEF BackupInv, BackupTyped, Rows
  <2>2. rows[d].status # "COMPLETED"
    BY <1>2
  <2> HIDE DEF d
  <2>3. Completed(rows') = Completed(rows) \cup {d} /\ d \notin Completed(rows)
    BY <1>2, <2>1, <2>2 DEF Completed
  <2>4. Daily!Declare(d)
    BY <1>1, <1>2, <2>3 DEF Daily!Declare, Present, Completed
  <2> QED
    BY <1>2, <2>4 DEF AbstractStep, Daily!Next
<1> QED
  BY <1>3, <1>4 DEF MarkCompleted

\* Publishing is a copy appearing, or being replaced by the same.
LEMMA PublishAppears ==
    ASSUME BackupInv, NEW w \in Workers, Publish(w)
    PROVE  AbstractStep
<1>1. At(w, "publishing") /\ UNCHANGED rows /\ Completed(rows') = Completed(rows)
  BY DEF Publish, Completed
<1>2. PICK d \in Dates : d = Day(w) /\ rows[d] = [status |-> "STARTED", run |-> w]
  BY <1>1 DEF BackupInv, AttemptHolds, At, Day
<1>3. d \notin Completed(rows)
  BY <1>2 DEF Completed
<1>4. CASE UNCHANGED files
  BY <1>1, <1>4 DEF AbstractStep, Present
<1>5. CASE files' = [files EXCEPT ![d] = "whole"]
  <2>1. Present' = Present \cup {d}
    BY <1>5, FileMapped DEF BackupInv
  <2>2. Daily!Appear(d)
    BY <1>1, <1>3, <2>1 DEF Daily!Appear, Present, Completed
  <2> QED
    BY <2>2 DEF AbstractStep, Daily!Next
<1> QED
  BY <1>2, <1>4, <1>5 DEF Publish

\* Cleaning up is an undeclared copy vanishing.
LEMMA CleanUpVanishes ==
    ASSUME BackupInv, NEW w \in Workers, CleanUp(w)
    PROVE  AbstractStep
<1>1. At(w, "cleaning") /\ UNCHANGED rows /\ Completed(rows') = Completed(rows)
  BY DEF CleanUp, Completed
<1>2. PICK d \in Dates : d = Day(w) /\ rows[d] = [status |-> "STARTED", run |-> w]
  BY <1>1 DEF BackupInv, AttemptHolds, At, Day
<1>3. d \notin Completed(rows)
  BY <1>2 DEF Completed
<1>4. CASE UNCHANGED files
  BY <1>1, <1>4 DEF AbstractStep, Present
<1>5. CASE files' = [files EXCEPT ![d] = "absent"]
  <2>1. Present' = Present \ {d}
    BY <1>5, FileMapped DEF BackupInv
  <2>2. Daily!Vanish(d)
    BY <1>1, <1>3, <2>1 DEF Daily!Vanish, Present, Completed
  <2> QED
    BY <2>2 DEF AbstractStep, Daily!Next
<1> QED
  BY <1>2, <1>4, <1>5 DEF CleanUp

\* Pruning is the abstract retirement of a copy no longer kept.
LEMMA PruningRetires ==
    ASSUME BackupInv, NEW w \in Workers, Prune(w) \/ PruneFails(w)
    PROVE  AbstractStep
<1>1. UNCHANGED rows /\ Completed(rows') = Completed(rows)
  BY DEF Prune, PruneFails, Completed
<1>2. CASE UNCHANGED files
  BY <1>1, <1>2 DEF AbstractStep, Present
<1>3. ASSUME NEW d \in attempts[w].obsolete, files' = [files EXCEPT ![d] = "absent"]
      PROVE  AbstractStep
  <2>1. d \in Dates /\ rows[d].status = "COMPLETED" /\ ~Kept(d)
    BY DEF BackupInv, BackupTyped, AttemptHolds, Attempts
  <2>2. PICK S \in SUBSET Dates : S = Completed(rows)
    BY DEF Completed
  <2>3. Cardinality(Newer(d, S)) \in Nat /\ ~(Cardinality(Newer(d, S)) < Keep)
    BY <2>1, <2>2, CountTyped DEF Kept
  <2>4. Cardinality({e \in Completed(rows) : e > d}) >= Keep
    BY <2>2, <2>3, RetentionPositive DEF Newer
  <2>5. Present' = Present \ {d}
    BY <1>3, <2>1, FileMapped DEF BackupInv
  <2>6. \A X : Daily!Cardinality(X) = Cardinality(X)
    BY DEF Cardinality, Daily!Cardinality
  <2>7. Daily!Retire(d)
    BY <1>1, <2>1, <2>4, <2>5, <2>6 DEF Daily!Retire, Present, Completed
  <2> QED
    BY <2>1, <2>7 DEF AbstractStep, Daily!Next
<1> QED
  BY <1>2, <1>3 DEF Prune, PruneFails

\* A claim and a recorded failure neither declare nor move a copy.
LEMMA ClaimAndFailureDeclareNothing ==
    ASSUME BackupInv, NEW w \in Workers, Claim(w) \/ RecordFailure(w)
    PROVE  AbstractStep
<1>1. UNCHANGED files /\ Present' = Present
  BY DEF Claim, RecordFailure, Present
<1>2. CASE UNCHANGED rows
  BY <1>1, <1>2 DEF AbstractStep, Completed
<1>3. CASE rows' # rows
  <2>1. PICK d \in Dates : d = Day(w)
    BY DEF Claim, RecordFailure, BackupInv, AttemptHolds, At, Day
  <2>2. rows[d].status # "COMPLETED"
    BY <1>3, <2>1 DEF Claim, RecordFailure, Claimable, Owns
  <2>3. PICK row : row.status # "COMPLETED" /\ rows' = [rows EXCEPT ![d] = row]
    <3>1. CASE Claim(w)
      BY <1>3, <2>1, <3>1 DEF Claim
    <3>2. CASE RecordFailure(w)
      <4>1. rows' = [rows EXCEPT ![d] = [rows[d] EXCEPT !.status = "FAILED"]]
        BY <1>3, <2>1, <3>2 DEF RecordFailure
      <4>2. [rows[d] EXCEPT !.status = "FAILED"].status # "COMPLETED"
        BY <2>1 DEF BackupInv, BackupTyped, Rows
      <4> QED
        BY <4>1, <4>2
    <3> QED
      BY <3>1, <3>2
  <2> QED
    BY <1>1, <2>2, <2>3, NothingDeclared DEF AbstractStep, BackupInv
<1> QED
  BY <1>2, <1>3

(* A restore that opens a pruned source leaves an empty file: no copy.     *)
LEMMA RestoreStutters ==
    ASSUME BackupInv, RestoreInv, NEW p \in Operators, RestoreStep(p)
    PROVE  AbstractStep
<1>1. UNCHANGED rows /\ Completed(rows') = Completed(rows)
  BY RestoreStepKeeps DEF Completed
<1>2. CASE UNCHANGED files
  BY <1>1, <1>2 DEF AbstractStep, Present
<1>3. CASE files' # files
  <2>1. Copy(p)
    BY <1>3 DEF RestoreStep, Validate, FindSource, Migrate, PublishRestore, AuditRestored,
                AuditRefused, Withdraw, Return, CrashRestore, BackupsUntouched
  <2>2. PICK d \in Dates : files[d] = "absent" /\ files' = [files EXCEPT ![d] = "empty"]
    BY <1>3, <2>1 DEF Copy, RestoreInv, RestoreHolds, Is, Source
  <2>3. Present' = Present \ {d} /\ d \notin Present
    BY <2>2, FileMapped DEF BackupInv, Present
  <2> QED
    BY <1>1, <2>3 DEF AbstractStep
<1> QED
  BY <1>2, <1>3

(* Backups, restores and the status page implement the abstract account:   *)
(* a day is declared once, while its copy is there, and its copy goes only *)
(* by retention.                                                           *)
THEOREM RecoveryKeepsDailyCopies == Spec => DailyCopiesSpec
<1>1. Init => Daily!Init
  BY DEF Init, InitBackup, NoRow, Completed, Daily!Init
<1>2. ASSUME RecoveryInv, [Next]_vars PROVE AbstractStep
  <2>1. ASSUME UNCHANGED <<rows, files>> PROVE AbstractStep
    BY <2>1 DEF AbstractStep, Completed, Present
  <2>2. ASSUME NEW w \in Workers, BackupStep(w) PROVE AbstractStep
    <3>1. CASE MarkCompleted(w)
      BY <1>2, <3>1, MarkDeclares DEF RecoveryInv
    <3>2. CASE Publish(w)
      BY <1>2, <3>2, PublishAppears DEF RecoveryInv
    <3>3. CASE CleanUp(w)
      BY <1>2, <3>3, CleanUpVanishes DEF RecoveryInv
    <3>4. CASE Prune(w) \/ PruneFails(w)
      BY <1>2, <3>4, PruningRetires DEF RecoveryInv
    <3>5. CASE Claim(w) \/ RecordFailure(w)
      BY <1>2, <3>5, ClaimAndFailureDeclareNothing DEF RecoveryInv
    <3>6. CASE \/ \E d \in Dates : Start(w, d)
               \/ Stage(w) \/ DatabaseError(w) \/ ReadVerified(w) \/ Exit(w) \/ CrashBackup(w)
      BY <2>1, <3>6 DEF Start, Stage, DatabaseError, ReadVerified, Exit, CrashBackup
    <3> QED
      BY <2>2, <3>1, <3>2, <3>3, <3>4, <3>5, <3>6 DEF BackupStep
  <2>3. ASSUME NEW p \in Operators, RestoreStep(p) PROVE AbstractStep
    BY <1>2, <2>3, RestoreStutters DEF RecoveryInv
  <2>4. CASE StatusStep
    BY <1>2, <2>1, <2>4, StatusStepKeeps DEF RecoveryInv, recoveryVars
  <2>5. CASE UNCHANGED vars
    BY <2>1, <2>5 DEF vars
  <2> QED
    BY <1>2, <2>2, <2>3, <2>4, <2>5 DEF Next, NextRestore, NextBackup
<1>3. ASSUME RecoveryInv, [Next]_vars
      PROVE  [Daily!Next]_<<Completed(rows), {d \in Dates : files[d] = "whole"}>>
  BY <1>2, <1>3 DEF AbstractStep, Present
<1> QED
  BY <1>1, <1>3, RecoveryInvariance, PTL DEF Spec, DailyCopiesSpec, Daily!Spec
=============================================================================
