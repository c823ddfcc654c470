--------------------------- MODULE LedgerEffects ---------------------------
(***************************************************************************)
(* The inductive invariant behind the ledger's properties of single        *)
(* effects: what was audited, voided, used and moved.  Each part is said   *)
(* of the committed store and of what the lock holder builds, or relates   *)
(* the two, so that it holds while a commit is still ahead.                *)
(***************************************************************************)
EXTENDS LedgerInvariant

(* The SUCCESS events are those of the records that have a result.         *)
Evident(s) ==
    {e \in s.audit : e.outcome = "SUCCESS"} =
    {AuditEvent(s.records[k].command, "SUCCESS", s.records[k].result.tx) :
        k \in {key \in Keys : s.records[key] # Null /\ s.records[key].result # Null}}

(* A transaction is voided exactly when it is the original of a link, and  *)
(* a reversal exactly when a link names it; no two links share an end.     *)
LinksWhole(s) ==
    /\ \A one, other \in s.reversals :
         one.original = other.original \/ one.reversal = other.reversal => one = other
    /\ \A link \in s.reversals : IsPosted(s, link.original) /\ IsPosted(s, link.reversal)
    /\ \A t \in TxIds : IsPosted(s, t) =>
         /\ s.transactions[t].state = "VOIDED" <=> \E link \in s.reversals : link.original = t
         /\ s.transactions[t].kind = "REVERSAL" <=> \E link \in s.reversals : link.reversal = t

(* The two ends of a link cancel.                                          *)
Cancels(original, reversal) ==
    /\ original.cash = NoDate <=> reversal.cash = NoDate
    /\ \A target \in Accounts \cup Categories :
         Movement(original.entries, target) + Movement(reversal.entries, target) = 0

LinksCancel(s) ==
    \A link \in s.reversals : Cancels(s.transactions[link.original], s.transactions[link.reversal])

(* What w has posted and d has not uses active accounts and categories of  *)
(* d, and moves what its draft in d says.                                  *)
UsesActive(d, w) ==
    \A t \in TxIds :
        ~IsPosted(d, t) /\ IsPosted(w, t) /\ w.transactions[t].kind # "REVERSAL" =>
            \A i \in 1..2 : InUse(d, w.transactions[t].entries[i].target)

MovesDrafts(d, w) ==
    \A t \in TxIds : IsDraft(d, t) /\ IsPosted(w, t) =>
        MovesAsDrafted(d.transactions[t], d.drafts[t], w.transactions[t])

EffectInv ==
    /\ Evident(db) /\ Evident(work)
    /\ LinksWhole(db) /\ LinksWhole(work)
    /\ LinksCancel(db) /\ LinksCancel(work)
    /\ UsesActive(db, work) /\ MovesDrafts(db, work)
=============================================================================
