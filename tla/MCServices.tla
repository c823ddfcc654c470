----------------------------- MODULE MCServices -----------------------------
(***************************************************************************)
(* The two services that stand alone, one of them in a behaviour: the      *)
(* identity with a browser tab and the command line (two calls at a time,  *)
(* two names to bootstrap, two passwords, two sessions), and the catalogue *)
(* (two rows, the two starter names, two calls at a time).                 *)
(***************************************************************************)
EXTENDS SessionProvider, Catalogue, TLC

VARIABLE service

vars == <<service, tabVars, catalogueVars>>

Init == TabInit /\ CatalogueInit /\ service \in {"identity", "catalogue"}

Next ==
    /\ UNCHANGED service
    /\ \/ service = "identity" /\ TabNext /\ UNCHANGED catalogueVars
       \/ service = "catalogue" /\ CatalogueNext /\ UNCHANGED tabVars

Spec == Init /\ [][Next]_vars

Symmetry ==
    Permutations(Names) \cup Permutations(Passwords) \cup Permutations(Tokens)
        \cup Permutations(Callers)
=============================================================================
