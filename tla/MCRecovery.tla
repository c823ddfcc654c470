----------------------------- MODULE MCRecovery -----------------------------
(***************************************************************************)
(* Two processes back up while an operator restores and a page asks for    *)
(* the status.  With two days and a retention of one, the second day's     *)
(* backup prunes the first, in either order of the days.                   *)
(***************************************************************************)
EXTENDS Recovery, TLC

(* Bound: a status request and a restore are not explored together.  The   *)
(* reader reads the rows, which no restore writes, and writes nothing.     *)
Apart ==
    \/ status = NoStatus
    \/ /\ \A p \in Operators : restores[p] = Resting
       /\ \A x \in Destinations : isolated[x] = Absent
       /\ \A e \in audit : e.action = "BACKUP"

Symmetry == Permutations(Workers)
=============================================================================
