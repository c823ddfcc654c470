----------------------------- MODULE DailyCopies ----------------------------
(***************************************************************************)
(* What the daily backup promises (AC-010.1, AC-010.3, AC-010.7), without  *)
(* runs, rows or processes: a day is declared only while its copy is       *)
(* there, once and for all, and the copy of a declared day goes only when  *)
(* as many newer days as retention keeps are declared.                     *)
(***************************************************************************)
EXTENDS Integers, FiniteSets

CONSTANTS Dates, Keep

VARIABLES
    declared,   \* the days said to have a valid copy
    present     \* the days whose copy is there, whole

Init == declared = {} /\ present = {}

Appear(d) == d \notin declared /\ present' = present \cup {d} /\ UNCHANGED declared

Vanish(d) == d \notin declared /\ present' = present \ {d} /\ UNCHANGED declared

Declare(d) ==
    d \in present \ declared /\ declared' = declared \cup {d} /\ UNCHANGED present

Retire(d) ==
    /\ d \in declared /\ Cardinality({e \in declared : e > d}) >= Keep
    /\ present' = present \ {d} /\ UNCHANGED declared

Next == \E d \in Dates : Appear(d) \/ Vanish(d) \/ Declare(d) \/ Retire(d)

Spec == Init /\ [][Next]_<<declared, present>>
=============================================================================
