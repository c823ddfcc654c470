------------------------------- MODULE Backup -------------------------------
(***************************************************************************)
(* The daily backup: BackupService.run_if_due                              *)
(* (backend/app/recovery/application/backup.py) run by several processes   *)
(* (the scheduled task, the catch-up at start, an operator), over the      *)
(* table of backup runs and the backup directory.                          *)
(*                                                                         *)
(* Each transaction is one action, and each step on the file system is.    *)
(* Between any two of them the other processes move, and the process may   *)
(* die.  Temporary files have names of their own: nobody else ever opens   *)
(* one, and one left behind has no effect.                                 *)
(***************************************************************************)
EXTENDS Integers, FiniteSets

CONSTANTS
    Dates,       \* household calendar days
    Keep,        \* retention: how many verified copies stay
    Workers,     \* processes that may run a backup
    Null

ASSUME DatesAreNumbers == Dates \subseteq Int
ASSUME FiniteCalendar == IsFiniteSet(Dates)
ASSUME RetentionPositive == Keep \in Nat \ {0}
ASSUME NullIsNoDate == Null \notin Dates
ASSUME NullIsNoWorker == Null \notin Workers

VARIABLES
    rows,        \* rows[d]: the status of d's run and the attempt that has it
    files,       \* files[d]: what is at backup-<d>.sqlite3
    attempts,    \* attempts[w]: where worker w is in run_if_due
    audit        \* the BACKUP and RESTORE events, without their times

backupVars == <<rows, files, attempts, audit>>

NoRow == [status |-> "NONE", run |-> Null]
Idle == [pc |-> "idle", date |-> Null, published |-> FALSE, obsolete |-> {}]

Event(action, subject, result) == [action |-> action, subject |-> subject, result |-> result]

Completed(r) == {d \in Dates : r[d].status = "COMPLETED"}
Newer(d, S) == {e \in S : e > d}

(* Fault: the slice starts one too early. *)
ObsoleteTooEarly(S) == {d \in S : Cardinality(Newer(d, S)) >= Keep - 1}

(* verified[keep:] of the paths in descending order of date.               *)
Obsolete(S) == {d \in S : Cardinality(Newer(d, S)) >= Keep}

At(w, pc) == attempts[w].pc = pc
Day(w) == attempts[w].date
Goto(w, pc) == attempts' = [attempts EXCEPT ![w].pc = pc]

(* Between the claim and the end of its run an attempt has the row's id.   *)
UnderWay(w) ==
    attempts[w].pc \in {"staging", "publishing", "marking", "cleaning", "failing"}

InitBackup ==
    /\ rows = [d \in Dates |-> NoRow]
    /\ files = [d \in Dates |-> "absent"]
    /\ attempts = [w \in Workers |-> Idle]
    /\ audit = {}

(* The clock is read before the claim, and nothing makes it advance.       *)
Start(w, d) ==
    /\ At(w, "idle")
    /\ attempts' = [attempts EXCEPT ![w] = [Idle EXCEPT !.pc = "claiming", !.date = d]]
    /\ UNCHANGED <<rows, files, audit>>

(* The INSERT ... ON CONFLICT DO NOTHING goes through for a new date; the  *)
(* row of a failed run is taken over.                                      *)
Claimable(d) == rows[d].status \in {"NONE", "FAILED"}

(* The INSERT takes the write lock in either case, so the claim and the    *)
(* look at the row it met are one step.                                    *)
Claim(w) ==
    LET d == Day(w)
    IN  /\ At(w, "claiming")
        /\ \/ /\ Claimable(d)
              /\ rows' = [rows EXCEPT ![d] = [status |-> "STARTED", run |-> w]]
              /\ Goto(w, "staging")
           \/ /\ rows[d].status = "COMPLETED"
              /\ Goto(w, "already_valid") /\ UNCHANGED rows
           \/ /\ ~Claimable(d) /\ rows[d].status # "COMPLETED"
              /\ Goto(w, "in_progress") /\ UNCHANGED rows
        /\ UNCHANGED <<files, audit>>

(* SqliteOnlineBackup.copy to a temporary file and verify on it: the copy  *)
(* is whole, or either step fails.                                         *)
Stage(w) ==
    /\ At(w, "staging")
    /\ \/ Goto(w, "publishing")
       \/ Goto(w, "cleaning")
    /\ UNCHANGED <<rows, files, audit>>

(* AtomicBackupStore.publish: os.replace puts the whole copy in place.     *)
(* The fsync before it may fail, and the one of the directory after it:    *)
(* then the file is there but the attempt takes it for unpublished.        *)
Publish(w) ==
    /\ At(w, "publishing")
    /\ \/ /\ files' = [files EXCEPT ![Day(w)] = "whole"]
          /\ attempts' = [attempts EXCEPT ![w].pc = "marking", ![w].published = TRUE]
       \/ /\ files' = [files EXCEPT ![Day(w)] = "whole"] /\ Goto(w, "cleaning")
       \/ /\ UNCHANGED files /\ Goto(w, "cleaning")
    /\ UNCHANGED <<rows, audit>>

Owns(w) == rows[Day(w)] = [status |-> "STARTED", run |-> w]

(* Fault: the event has a transaction of its own, before the mark. *)
MarkCompletedApart(w) ==
    LET d == Day(w)
        event == Event("BACKUP", d, "SUCCESS")
    IN  /\ At(w, "marking")
        /\ IF event \in audit
           THEN /\ rows' = [rows EXCEPT ![d].status = "COMPLETED"]
                /\ Goto(w, "listing") /\ UNCHANGED audit
           ELSE audit' = audit \cup {event} /\ UNCHANGED <<rows, attempts>>
        /\ UNCHANGED files

(* mark_completed and its audit event, committed together.  It refuses a   *)
(* run that is not STARTED; a RuntimeError of either leads to the cleanup. *)
MarkCompleted(w) ==
    LET d == Day(w)
    IN  /\ At(w, "marking")
        /\ \/ /\ Owns(w)
              /\ rows' = [rows EXCEPT ![d].status = "COMPLETED"]
              /\ audit' = audit \cup {Event("BACKUP", d, "SUCCESS")}
              /\ Goto(w, "listing")
           \/ /\ Goto(w, "cleaning") /\ UNCHANGED <<rows, audit>>
        /\ UNCHANGED files

-----------------------------------------------------------------------------
(* Fault: the row is given up before the artifacts are. *)
CleanUpLast(w) ==
    LET d == Day(w)
    IN  /\ At(w, "cleaning")
        /\ rows' = IF Owns(w) THEN [rows EXCEPT ![d].status = "FAILED"] ELSE rows
        /\ files' = IF attempts[w].published /\ ~Owns(w)
                    THEN [files EXCEPT ![d] = "absent"] ELSE files
        /\ Goto(w, IF Owns(w) THEN "cleaning" ELSE "failed") /\ UNCHANGED audit

(* _cleanup_failed_artifacts: an unlink that fails ends the attempt with   *)
(* the row still STARTED.                                                  *)
CleanUp(w) ==
    /\ At(w, "cleaning")
    /\ \/ /\ files' = IF attempts[w].published
                      THEN [files EXCEPT ![Day(w)] = "absent"] ELSE files
          /\ Goto(w, "failing")
       \/ Goto(w, "failed") /\ UNCHANGED files
    /\ UNCHANGED <<rows, audit>>

(* mark_failed and its audit event, committed together.                    *)
RecordFailure(w) ==
    LET d == Day(w)
    IN  /\ At(w, "failing") /\ Goto(w, "failed")
        /\ \/ /\ Owns(w)
              /\ rows' = [rows EXCEPT ![d].status = "FAILED"]
              /\ audit' = audit \cup {Event("BACKUP", d, "FAILURE")}
           \/ ~Owns(w) /\ UNCHANGED <<rows, audit>>
        /\ UNCHANGED files

(* An exception none of the handlers names (SQLAlchemyError: the lock was  *)
(* not to be had, the disk is full) leaves rows and files as they are.     *)
DatabaseError(w) ==
    /\ attempts[w].pc \in {"claiming", "marking", "failing", "listing"}
    /\ Goto(w, "failed") /\ UNCHANGED <<rows, files, audit>>

-----------------------------------------------------------------------------
(* verified_paths: the rows COMPLETED by now, cut at the retention.        *)
ReadVerified(w) ==
    /\ At(w, "listing")
    /\ attempts' = [attempts EXCEPT ![w].pc = "pruning",
                                    ![w].obsolete = Obsolete(Completed(rows))]
    /\ UNCHANGED <<rows, files, audit>>

(* prune_verified, one file at a time; when none is left the copy is       *)
(* declared CREATED.                                                       *)
Prune(w) ==
    /\ At(w, "pruning")
    /\ \/ \E d \in attempts[w].obsolete :
            /\ files' = [files EXCEPT ![d] = "absent"]
            /\ attempts' = [attempts EXCEPT ![w].obsolete = @ \ {d}]
       \/ attempts[w].obsolete = {} /\ Goto(w, "created") /\ UNCHANGED files
    /\ UNCHANGED <<rows, audit>>

(* A file that cannot be removed, or a directory that cannot be synced     *)
(* after: audited if that can be had, and the attempt raises.              *)
PruneFails(w) ==
    /\ At(w, "pruning")
    /\ \E d \in attempts[w].obsolete :
          files' = files \/ files' = [files EXCEPT ![d] = "absent"]
    /\ audit' = audit \/ audit' = audit \cup {Event("BACKUP", Day(w), "FAILURE")}
    /\ Goto(w, "failed") /\ UNCHANGED rows

(* The command exits with its outcome.                                     *)
Exit(w) ==
    /\ attempts[w].pc \in {"created", "already_valid", "in_progress", "failed"}
    /\ attempts' = [attempts EXCEPT ![w] = Idle] /\ UNCHANGED <<rows, files, audit>>

(* The process dies.                                                       *)
CrashBackup(w) ==
    /\ ~At(w, "idle")
    /\ attempts' = [attempts EXCEPT ![w] = Idle] /\ UNCHANGED <<rows, files, audit>>

BackupStep(w) ==
    \/ \E d \in Dates : Start(w, d)
    \/ Claim(w) \/ Stage(w) \/ Publish(w) \/ MarkCompleted(w)
    \/ CleanUp(w) \/ RecordFailure(w) \/ DatabaseError(w)
    \/ ReadVerified(w) \/ Prune(w) \/ PruneFails(w)
    \/ Exit(w) \/ CrashBackup(w)

NextBackup == \E w \in Workers : BackupStep(w)

SpecBackup == InitBackup /\ [][NextBackup]_backupVars
=============================================================================
