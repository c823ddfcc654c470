------------------------------ MODULE MCBrowser ------------------------------
(* Three pages of the client, one mounted at a time, for TLC. *)
EXTENDS TransactionForm, ReconciliationPage, AuditPages, TLC

VARIABLE page

vars == <<page, formVars, pageVars, trailVars>>

Init == FormInit /\ PageInit /\ TrailInit /\ page \in {"movements", "reconcile", "settings"}

Next ==
    /\ UNCHANGED page
    /\ \/ page = "movements" /\ FormNext /\ UNCHANGED <<pageVars, trailVars>>
       \/ page = "reconcile" /\ PageNext /\ UNCHANGED <<formVars, trailVars>>
       \/ page = "settings" /\ TrailNext /\ UNCHANGED <<formVars, pageVars>>

Spec == Init /\ [][Next]_vars

(* Bound: the last form is only the one that takes the place of a form     *)
(* whose draft was saved or posted, after two movements; nothing is        *)
(* entered in it.                                                          *)
LastIsIdle ==
    form.mount = MaxMounts =>
        form.editing = Null /\ form.summary = Null /\ wish.number < MaxIntents

Symmetry ==
    Permutations(Contents) \cup Permutations(FormKeys) \cup Permutations(FormCalls)
=============================================================================
