------------------------------- MODULE Restore ------------------------------
(***************************************************************************)
(* Restoring a copy to an isolated destination:                            *)
(* RestoreService.restore_isolated                                         *)
(* (backend/app/recovery/application/restore.py), run by operators beside  *)
(* the backups of module Backup, whose pruning may take the source away.   *)
(*                                                                         *)
(* What a restored file holds is told apart as far as that matters: the    *)
(* copy of a day, or a schema without any data.                            *)
(***************************************************************************)
EXTENDS Backup

CONSTANTS
    Operators,     \* restores in flight
    Destinations   \* the isolated paths they are given

ASSUME NullIsNoDestination == Null \notin Destinations

VARIABLES
    restores,      \* restores[p]: where operator p is in restore_isolated
    isolated       \* isolated[x]: what is at destination x

restoreVars == <<restores, isolated>>
recoveryVars == <<rows, files, attempts, audit, restores, isolated>>

Absent == [kind |-> "absent", of |-> Null]
Empty == [kind |-> "empty", of |-> Null]
CopyOf(d) == [kind |-> "copy", of |-> d]

Resting == [pc |-> "idle", source |-> Null, destination |-> Null, staged |-> Absent,
            published |-> FALSE]

InitRestore ==
    /\ restores = [p \in Operators |-> Resting]
    /\ isolated = [x \in Destinations |-> Absent]

Is(p, pc) == restores[p].pc = pc
Source(p) == restores[p].source
Target(p) == restores[p].destination
Move(p, pc) == restores' = [restores EXCEPT ![p].pc = pc]
Keeping(p, pc, staged) == restores' = [restores EXCEPT ![p].pc = pc, ![p].staged = staged]

BackupsUntouched == UNCHANGED <<rows, files, attempts>>

(* Fault: the catalogue is not asked. *)
VerifiedByName(d) == files[d] # "absent"

(* _validated_paths: the source is there, the destination is not, and the  *)
(* source is catalogued as a verified copy.                                *)
Verified(d) == files[d] # "absent" /\ d \in Completed(rows)

(* Fault: the destination is not looked at. *)
ValidateSource(p, d, x) ==
    /\ Is(p, "idle")
    /\ restores' = [restores EXCEPT ![p] =
         [Resting EXCEPT !.source = d, !.destination = x,
            !.pc = IF Verified(d) THEN "copying" ELSE "failing"]]
    /\ BackupsUntouched /\ UNCHANGED <<audit, isolated>>

Validate(p, d, x) ==
    /\ Is(p, "idle")
    /\ restores' = [restores EXCEPT ![p] =
         [Resting EXCEPT !.source = d, !.destination = x,
            !.pc = IF Verified(d) /\ isolated[x] = Absent THEN "copying" ELSE "failing"]]
    /\ BackupsUntouched /\ UNCHANGED <<audit, isolated>>

(* SqliteOnlineBackup.copy: the source is still a file ...                 *)
FindSource(p) ==
    /\ Is(p, "copying")
    /\ Move(p, IF files[Source(p)] = "absent" THEN "failing" ELSE "connecting")
    /\ BackupsUntouched /\ UNCHANGED <<audit, isolated>>

(* ... and is then opened.  sqlite3.connect creates what it does not find, *)
(* an empty database, which every later check lets through.                *)
Content(d) == IF files[d] = "whole" THEN CopyOf(d) ELSE Empty

Copy(p) ==
    LET d == Source(p)
    IN  /\ Is(p, "connecting")
        /\ \/ /\ files' = IF files[d] = "absent" THEN [files EXCEPT ![d] = "empty"] ELSE files
              /\ Keeping(p, "migrating", Content(d))
           \/ UNCHANGED files /\ Move(p, "failing")
        /\ UNCHANGED <<rows, attempts, audit, isolated>>

(* verify, migrate_and_verify, verify on the staged file, to which nobody  *)
(* else has the name: they pass, or one of them fails.                     *)
Migrate(p) ==
    /\ Is(p, "migrating")
    /\ Move(p, "publishing") \/ Move(p, "failing")
    /\ BackupsUntouched /\ UNCHANGED <<audit, isolated>>

(* publish, with the same two ways to fail as for a backup.                *)
PublishRestore(p) ==
    LET placed == [isolated EXCEPT ![Target(p)] = restores[p].staged]
    IN  /\ Is(p, "publishing")
        /\ \/ /\ isolated' = placed
              /\ restores' = [restores EXCEPT ![p].pc = "auditing", ![p].published = TRUE]
           \/ isolated' = placed /\ Move(p, "failing")
           \/ UNCHANGED isolated /\ Move(p, "failing")
        /\ BackupsUntouched /\ UNCHANGED audit

AuditRestored(p) ==
    /\ Is(p, "auditing")
    /\ audit' = audit \cup {Event("RESTORE", Target(p), "SUCCESS")}
    /\ Move(p, "restored") /\ BackupsUntouched /\ UNCHANGED isolated

(* The success event cannot be written, for a RuntimeError of the sink.    *)
AuditRefused(p) ==
    /\ Is(p, "auditing") /\ Move(p, "failing")
    /\ BackupsUntouched /\ UNCHANGED <<audit, isolated>>

(* The handler of OSError and RuntimeError: both files go, the failure is  *)
(* audited.  It may itself be cut short by an unlink that fails.           *)
Withdraw(p) ==
    /\ Is(p, "failing")
    /\ \/ /\ isolated' = IF restores[p].published
                         THEN [isolated EXCEPT ![Target(p)] = Absent] ELSE isolated
          /\ audit' = audit \cup {Event("RESTORE", Target(p), "FAILURE")}
       \/ UNCHANGED <<audit, isolated>>
    /\ Move(p, "rejected") /\ BackupsUntouched

(* The command exits; or the process dies, or the database refuses an      *)
(* audit event (SQLAlchemyError, which no handler names).                  *)
Return(p) ==
    /\ restores[p].pc \in {"restored", "rejected"}
    /\ restores' = [restores EXCEPT ![p] = Resting]
    /\ BackupsUntouched /\ UNCHANGED <<audit, isolated>>

CrashRestore(p) ==
    /\ ~Is(p, "idle")
    /\ restores' = [restores EXCEPT ![p] = Resting]
    /\ BackupsUntouched /\ UNCHANGED <<audit, isolated>>

RestoreStep(p) ==
    \/ \E d \in Dates, x \in Destinations : Validate(p, d, x)
    \/ FindSource(p) \/ Copy(p) \/ Migrate(p) \/ PublishRestore(p)
    \/ AuditRestored(p) \/ AuditRefused(p) \/ Withdraw(p) \/ Return(p) \/ CrashRestore(p)

NextRestore ==
    \/ NextBackup /\ UNCHANGED restoreVars
    \/ \E p \in Operators : RestoreStep(p)

SpecRestore == InitBackup /\ InitRestore /\ [][NextRestore]_recoveryVars
=============================================================================
