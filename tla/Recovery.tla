------------------------------ MODULE Recovery ------------------------------
(***************************************************************************)
(* Backups, restores and the page that shows how the backups are doing:    *)
(* SqlAlchemyBackupStatusReader.read                                       *)
(* (backend/app/recovery/adapters/run_repository.py) and                   *)
(* BackupStatusQuery.get (recovery/application/status.py), together with   *)
(* modules Backup and Restore, and what must be true of the three.         *)
(*                                                                         *)
(* The reader makes three SELECTs in a transaction that writes nothing:    *)
(* each of them sees what is committed at its moment.                      *)
(***************************************************************************)
EXTENDS Restore

VARIABLE status    \* the status request: how far it is and what it has read

vars == <<rows, files, attempts, audit, restores, isolated, status>>

NoStatus == [pc |-> "idle", valid |-> Null, failure |-> Null, attempt |-> "NONE"]

Init == InitBackup /\ InitRestore /\ status = NoStatus

Latest(S) == IF S = {} THEN Null ELSE CHOOSE d \in S : \A e \in S : d >= e

WithStatus(s) == {d \in Dates : rows[d].status = s}

(* The latest run by started_at is the one of the latest date: the date of *)
(* a run is the household date of its start.                               *)
LastAttempt ==
    LET d == Latest({e \in Dates : rows[e] # NoRow})
    IN  IF d = Null THEN "NONE" ELSE rows[d].status

RecoveryUntouched == UNCHANGED recoveryVars

ReadValid ==
    /\ status.pc = "idle"
    /\ status' = [status EXCEPT !.pc = "failure", !.valid = Latest(WithStatus("COMPLETED"))]
    /\ RecoveryUntouched

ReadFailure ==
    /\ status.pc = "failure"
    /\ status' = [status EXCEPT !.pc = "attempt", !.failure = Latest(WithStatus("FAILED"))]
    /\ RecoveryUntouched

(* Fault: the status is shown as it was read. *)
AnyStatus(s) == TRUE

(* BackupStatus.__post_init__.                                             *)
Consistent(s) ==
    /\ s.attempt = "NONE" => s.valid = Null
    /\ s.attempt = "COMPLETED" => s.valid # Null
    /\ s.attempt = "FAILED" => s.failure # Null

ReadAttempt ==
    LET read == [status EXCEPT !.attempt = LastAttempt]
    IN  /\ status.pc = "attempt"
        /\ status' = IF Consistent(read) THEN [read EXCEPT !.pc = "shown"]
                     ELSE [NoStatus EXCEPT !.pc = "refused"]
        /\ RecoveryUntouched

Dismiss ==
    /\ status.pc \in {"shown", "refused"} /\ status' = NoStatus /\ RecoveryUntouched

StatusStep == ReadValid \/ ReadFailure \/ ReadAttempt \/ Dismiss

Next ==
    \/ NextRestore /\ UNCHANGED status
    \/ StatusStep

Spec == Init /\ [][Next]_vars

-----------------------------------------------------------------------------
Places ==
    {"idle", "claiming", "staging", "publishing", "marking", "cleaning", "failing",
     "listing", "pruning", "created", "already_valid", "in_progress", "failed"}

Rows ==
    [status : {"NONE", "STARTED", "COMPLETED", "FAILED"}, run : Workers \cup {Null}]

Attempts ==
    [pc : Places, date : Dates \cup {Null}, published : BOOLEAN, obsolete : SUBSET Dates]

Copies == {Absent, Empty} \cup {CopyOf(d) : d \in Dates}

Restores ==
    [pc : {"idle", "copying", "connecting", "migrating", "publishing", "auditing",
           "restored", "failing", "rejected"},
     source : Dates \cup {Null}, destination : Destinations \cup {Null},
     staged : Copies, published : BOOLEAN]

Statuses ==
    [pc : {"idle", "failure", "attempt", "shown", "refused"},
     valid : Dates \cup {Null}, failure : Dates \cup {Null},
     attempt : {"NONE", "STARTED", "COMPLETED", "FAILED"}]

(* The variables keep to the tables, files and states of the code.         *)
TypeOK ==
    /\ rows \in [Dates -> Rows]
    /\ files \in [Dates -> {"absent", "whole", "empty"}]
    /\ attempts \in [Workers -> Attempts]
    /\ restores \in [Operators -> Restores]
    /\ isolated \in [Destinations -> Copies]
    /\ status \in Statuses

(* A date is worked on by one attempt at a time, and that attempt is the   *)
(* one its row names (run_repository.claim): processes that race for a     *)
(* date, take over a failed run, die or fail at any step could break it.   *)
OneAttemptPerDate ==
    \A v, w \in Workers : UnderWay(w) =>
       /\ rows[Day(w)].status = "STARTED" /\ rows[Day(w)].run = w
       /\ UnderWay(v) /\ Day(v) = Day(w) => v = w

(* Retention: fewer than Keep newer days are declared.                     *)
Kept(d) == Cardinality(Newer(d, Completed(rows))) < Keep

(* A declared copy is on disk, whole, unless retention rules it out by     *)
(* what is declared now (AC-010.3, AC-010.7; backup-restore.md: a failure  *)
(* to prune does not delete the new copy).  Late pruners that decided on   *)
(* an older list, cleanups of attempts that failed after publishing and    *)
(* restores that open a pruned source all write to the same directory.     *)
DeclaredCopiesThere == \A d \in Completed(rows) : Kept(d) => files[d] = "whole"

(* What a restore puts at its destination is a copy that was declared      *)
(* (AC-010.5).  It is an empty database only if pruning could take the     *)
(* source away meanwhile.                                                  *)
RestoredIsDeclared ==
    /\ \A x \in Destinations, d \in Dates : isolated[x] = CopyOf(d) => d \in Completed(rows)
    /\ \A p \in Operators : restores[p].staged = Empty =>
          Source(p) \in Completed(rows) /\ ~Kept(Source(p))

(* What is at a destination when it is reported restored is the copy that  *)
(* the restore which reports it had staged and verified, and from then on  *)
(* it stays that copy: no later restore puts another day's in its place or *)
(* withdraws it (architecture.md: the destination is new).  It takes       *)
(* restores one after another: of two at once on one path the second       *)
(* replaces the first, and removes it when it fails (restore.py looks at   *)
(* the path long before it publishes).                                     *)
Reported(x) == Event("RESTORE", x, "SUCCESS") \in audit

RestoredStays ==
    [][\A x \in Destinations :
          /\ Reported(x) => isolated'[x] = isolated[x]
          /\ ~Reported(x) /\ Reported(x)' => \E p \in Operators :
                Target(p) = x /\ restores[p].staged # Absent /\ isolated'[x] = restores[p].staged]_vars

(* A status on show never claims more than there is: VERIFIED names a date *)
(* whose copy is on disk or was retired.  The three reads may be torn by a *)
(* run that ends between them.                                             *)
StatusNeverOverclaims ==
    status.pc = "shown" /\ status.attempt = "COMPLETED" =>
       /\ status.valid \in Completed(rows)
       /\ Kept(status.valid) => files[status.valid] = "whole"

(* A day has its SUCCESS event exactly when its copy is declared, and a    *)
(* run that was given up has its FAILURE event (AC-011.3), also when the   *)
(* process dies or the database fails next to the mark.                    *)
OutcomesAudited ==
    \A d \in Dates :
       /\ Event("BACKUP", d, "SUCCESS") \in audit <=> rows[d].status = "COMPLETED"
       /\ rows[d].status = "FAILED" => Event("BACKUP", d, "FAILURE") \in audit

(* The backups implement the abstract account of them.                     *)
Daily == INSTANCE DailyCopies WITH
    declared <- Completed(rows), present <- {d \in Dates : files[d] = "whole"}

DailyCopiesSpec == Daily!Spec

(* The day's backup is refused as being under way only while some process  *)
(* works on it (AC-010.6: without a valid copy of the day one is tried).   *)
RefusedOnlyWhileUnderWay ==
    [][\A w \in Workers :
          attempts[w].pc = "claiming" /\ attempts'[w].pc = "in_progress" =>
             \E v \in Workers \ {w} : UnderWay(v) /\ Day(v) = Day(w)]_vars
=============================================================================
