----------------------------- MODULE Statements -----------------------------
(***************************************************************************)
(* What reconciling an account promises (AC-008.5 to AC-008.7), with no    *)
(* requests, tables or states: a ledger of facts that only grows, and      *)
(* completed statements over disjoint sets of facts, each of which found   *)
(* the observed balance equal to the facts completed before it, up to its  *)
(* cutoff, plus its own.                                                   *)
(***************************************************************************)
EXTENDS Integers, FiniteSetsExt

CONSTANTS Accounts, Dates

VARIABLES
    ledger,     \* facts [entry, account, date, cents]; cents are signed
    statements  \* [account, cutoff, observed, facts]

Total(facts) == MapThenSumSet(LAMBDA f : f.cents, facts)

Settled == UNION {s.facts : s \in statements}
UpTo(facts, account, cutoff) == {f \in facts : f.account = account /\ f.date <= cutoff}

Init == ledger = {} /\ statements = {}

Grow ==
    /\ ledger \subseteq ledger'
    /\ UNCHANGED statements

Settle(account, cutoff, facts) ==
    /\ facts # {}
    /\ facts \subseteq UpTo(ledger, account, cutoff) \ Settled
    /\ LET observed == Total(UpTo(Settled, account, cutoff) \cup facts)
       IN  statements' = statements \cup
               {[account |-> account, cutoff |-> cutoff, observed |-> observed, facts |-> facts]}
    /\ UNCHANGED ledger

Next ==
    \/ Grow
    \/ \E account \in Accounts, cutoff \in Dates, facts \in SUBSET ledger :
           Settle(account, cutoff, facts)

Spec == Init /\ [][Next]_<<ledger, statements>>
=============================================================================
