----------------------------- MODULE AtMostOnce -----------------------------
(***************************************************************************)
(* What an idempotency key promises a client of the ledger, with nothing   *)
(* of how: the command sent under a key takes effect at most once, in one  *)
(* transaction of its own, and every success ever answered for the key is  *)
(* that effect (shared/idempotency.py, the Idempotency-Key header of       *)
(* api/transactions.py).                                                   *)
(***************************************************************************)
CONSTANTS Keys, Commands, Results, Null

VARIABLES
    done,       \* per key: the command that took effect and its result
    answered    \* the successes clients got

Init ==
    /\ done = [k \in Keys |-> Null]
    /\ answered = {}

Done(command, result) == [command |-> command, result |-> result]

Execute(k, command, result) ==
    /\ done[k] = Null
    /\ command.key = k
    /\ \A other \in Keys : done[other] # Null => done[other].result.tx # result.tx
    /\ done' = [done EXCEPT ![k] = Done(command, result)]
    /\ UNCHANGED answered

Answer(k) ==
    /\ done[k] # Null
    /\ answered' = answered \cup {done[k]}
    /\ UNCHANGED done

Next ==
    \E k \in Keys :
        \/ Answer(k)
        \/ \E command \in Commands, result \in Results : Execute(k, command, result)

Spec == Init /\ [][Next]_<<done, answered>>
=============================================================================
