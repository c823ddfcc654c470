------------------------- MODULE LedgerEffectProofs -------------------------
(***************************************************************************)
(* EffectInv is an invariant of the ledger, and what follows from it: the  *)
(* evidence of each effect, the reversals, the use of archived accounts    *)
(* and the movements of posted drafts.                                     *)
(***************************************************************************)
EXTENDS LedgerEffects, LedgerProofs, FiniteSetTheorems

-----------------------------------------------------------------------------
(* What the operations on a store leave alone.                             *)

(* Posting makes the row of the selection and touches no other row, link,  *)
(* event or record.                                                        *)
LEMMA PostEffects ==
    ASSUME NEW s \in Stores, StoreWhole(s), NEW c \in AllCommands, c.name \in KeyedNames,
           c.name # "reverse_transaction", WellFormed(c), AcceptsPosting(s, c),
           NEW t \in IF c.name = "post_draft" THEN {c.tx} ELSE FreshIn(s)
    PROVE  LET s2 == Post(s, c, t)
           IN  /\ s2.transactions[t] = PostedRow(PostedSelection(s, c))
               /\ \A x \in TxIds \ {t} : s2.transactions[x] = s.transactions[x]
               /\ s2.reversals = s.reversals /\ s2.audit = s.audit
<1> DEFINE s2 == Post(s, c, t)
           selection == PostedSelection(s, c)
           s1 == EnsureEquity(s, selection)
           row == PostedRow(selection)
<1>1. t \in TxIds
  BY PostWhole
<1>2. /\ s1.transactions = s.transactions /\ s1.drafts = s.drafts
      /\ s1.reversals = s.reversals /\ s1.audit = s.audit
      /\ DOMAIN s1 = DOMAIN s
  BY DEF EnsureEquity, SetAccount, Stores
<1>3. /\ s2.transactions = [s1.transactions EXCEPT ![t] = row]
      /\ s2.reversals = s1.reversals /\ s2.audit = s1.audit
  <2> HIDE DEF row, selection
  <2>1. s1 \in Stores
    <3>1. s1 = s \/ s1 = [s EXCEPT !.accounts = [s.accounts EXCEPT ![Equity] = "active"]]
      BY DEF EnsureEquity, SetAccount
    <3>2. [s.accounts EXCEPT ![Equity] = "active"] \in [Accounts -> CatalogStates]
      BY DEF Stores, CatalogStates
    <3> HIDE DEF s1
    <3> QED
      BY <3>1, <3>2 DEF Stores
  <2>2. s2 = IF c.name = "post_draft"
             THEN [s1 EXCEPT !.transactions = [s1.transactions EXCEPT ![t] = row],
                             !.drafts = [s1.drafts EXCEPT ![t] = Null]]
             ELSE [s1 EXCEPT !.transactions = [s1.transactions EXCEPT ![t] = row]]
    BY DEF Post, AddPosted, row, selection
  <2> HIDE DEF s1, s2
  <2> QED
    BY <2>1, <2>2 DEF Stores
<1> HIDE DEF s1, s2, row, selection
<1>4. s.transactions \in [TxIds -> TransactionRows \cup {Null}]
  BY DEF Stores
<1> QED
  BY <1>1, <1>2, <1>3, <1>4 DEF s2, row, selection

(* A reversal makes its row, voids its original and links the two.         *)
LEMMA ReverseEffects ==
    ASSUME NEW s \in Stores, StoreWhole(s), NEW c \in AllCommands, c.tx \in TxIds,
           AcceptsReversal(s, c), NEW t \in FreshIn(s), NEW today \in Dates,
           NEW replacement \in IF c.selection = Null THEN {Null} ELSE FreshIn(s) \ {t}
    PROVE  LET s2 == Reverse(s, c, t, today, replacement)
           IN  /\ s2.transactions[t] = ReversalRow(s.transactions[c.tx], c, today)
               /\ s2.transactions[c.tx] = [s.transactions[c.tx] EXCEPT !.state = "VOIDED"]
               /\ \A x \in TxIds \ {c.tx} : IsPosted(s, x) =>
                    s2.transactions[x] = s.transactions[x]
               /\ s2.reversals = s.reversals \cup {[original |-> c.tx, reversal |-> t]}
               /\ s2.audit = s.audit
<1> DEFINE row == ReversalRow(s.transactions[c.tx], c, today)
           posted == AddPosted(s, t, row)
           voided == MarkVoided(posted, c.tx)
           linked == AddReversalLink(voided, c.tx, t)
           s2 == Reverse(s, c, t, today, replacement)
           link == [original |-> c.tx, reversal |-> t]
<1>1. t \in TxIds /\ t # c.tx /\ ~IsPosted(s, t)
  BY DEF FreshIn, AcceptsReversal, IsPosted
<1>2. s.transactions \in [TxIds -> TransactionRows \cup {Null}]
  BY DEF Stores
<1>3. posted = [s EXCEPT !.transactions = [s.transactions EXCEPT ![t] = row]]
  BY DEF AddPosted
<1>4. voided = [posted EXCEPT !.transactions[c.tx].state = "VOIDED"]
  BY DEF MarkVoided
<1>5. linked = [voided EXCEPT !.reversals = voided.reversals \cup {link}]
  BY DEF AddReversalLink
<1>6. s2 = IF c.selection = Null THEN linked
           ELSE [linked EXCEPT
                   !.transactions = [linked.transactions EXCEPT ![replacement] = DraftRow(c.selection)],
                   !.drafts = [linked.drafts EXCEPT ![replacement] = Details(c.selection, c.tx)]]
  BY DEF Reverse, AddDraft
<1> HIDE DEF posted, voided, linked, s2, row, link
<1>7. /\ posted.transactions = [s.transactions EXCEPT ![t] = row]
      /\ posted.reversals = s.reversals /\ posted.audit = s.audit
      /\ DOMAIN posted = DOMAIN s
  BY <1>3 DEF Stores
<1>8. /\ voided.transactions =
           [posted.transactions EXCEPT ![c.tx] = [posted.transactions[c.tx] EXCEPT !.state = "VOIDED"]]
      /\ voided.reversals = s.reversals /\ voided.audit = s.audit
      /\ DOMAIN voided = DOMAIN s
  BY <1>4, <1>7 DEF Stores
<1>9. /\ linked.transactions = voided.transactions
      /\ linked.reversals = s.reversals \cup {link} /\ linked.audit = s.audit
      /\ DOMAIN linked = DOMAIN s
  BY <1>5, <1>8 DEF Stores
<1>10. /\ linked.transactions[t] = row
       /\ linked.transactions[c.tx] = [s.transactions[c.tx] EXCEPT !.state = "VOIDED"]
       /\ \A x \in TxIds \ {c.tx, t} : linked.transactions[x] = s.transactions[x]
       /\ DOMAIN linked.transactions = TxIds
  BY <1>1, <1>2, <1>7, <1>8, <1>9
<1>11. CASE c.selection = Null
  BY <1>1, <1>6, <1>9, <1>10, <1>11 DEF s2, row, link
<1>12. CASE c.selection # Null
  <2>1. replacement \in TxIds \ {t} /\ ~IsPosted(s, replacement) /\ replacement # c.tx
    BY <1>12 DEF FreshIn, IsPosted, AcceptsReversal
  <2>2. /\ s2.transactions =
             [linked.transactions EXCEPT ![replacement] = DraftRow(c.selection)]
        /\ s2.reversals = linked.reversals /\ s2.audit = linked.audit
    BY <1>6, <1>9, <1>12 DEF Stores
  <2>3. \A x \in TxIds \ {replacement} : s2.transactions[x] = linked.transactions[x]
    BY <2>2, <1>10
  <2> QED
    BY <2>1, <2>2, <2>3, <1>1, <1>9, <1>10 DEF s2, row, link
<1> QED
  BY <1>11, <1>12

(* What is left of a success under the lock touches records and events.    *)
LEMMA RecordedEffects ==
    ASSUME NEW s \in Stores, NEW c, NEW result
    PROVE  LET s2 == Recorded(s, c, result)
           IN  /\ s2.transactions = s.transactions /\ s2.reversals = s.reversals
               /\ s2.audit = s.audit \cup {AuditEvent(c, "SUCCESS", result.tx)}
               /\ s2.records = [s.records EXCEPT ![c.key].result = result]
  BY DEF Recorded, Completed, Audited, Stores
-----------------------------------------------------------------------------
(* Evidence.                                                               *)

(* A store with the records and the SUCCESS events of another has its      *)
(* evidence.                                                               *)
LEMMA EvidenceUntouched ==
    ASSUME NEW s, NEW s2, Evident(s), s2.records = s.records,
           {e \in s2.audit : e.outcome = "SUCCESS"} = {e \in s.audit : e.outcome = "SUCCESS"}
    PROVE  Evident(s2)
  BY DEF Evident

(* The event of a failure is no evidence of an effect.                     *)
LEMMA FailureIsNoEvidence ==
    ASSUME NEW s \in Stores, NEW c, Evident(s)
    PROVE  LET s2 == Audited(s, c, "FAILURE", Null)
           IN  /\ Evident(s2)
               /\ s2.transactions = s.transactions /\ s2.reversals = s.reversals
<1> DEFINE s2 == Audited(s, c, "FAILURE", Null)
           event == AuditEvent(c, "FAILURE", Null)
<1>1. /\ s2.audit = s.audit \cup {event} /\ s2.records = s.records
      /\ s2.transactions = s.transactions /\ s2.reversals = s.reversals
  BY DEF Audited, Stores
<1>2. event.outcome # "SUCCESS"
  BY DEF AuditEvent
<1> HIDE DEF s2, event
<1>3. {e \in s2.audit : e.outcome = "SUCCESS"} = {e \in s.audit : e.outcome = "SUCCESS"}
  BY <1>1, <1>2
<1> QED
  BY <1>1, <1>3, EvidenceUntouched DEF s2

(* A reservation has no result yet, and so no evidence.                    *)
LEMMA ReservedEvident ==
    ASSUME NEW s \in Stores, NEW c \in AllCommands, c.key \in Keys,
           s.records[c.key] = Null, Evident(s)
    PROVE  LET s2 == Reserved(s, c)
           IN  /\ Evident(s2)
               /\ s2.transactions = s.transactions /\ s2.reversals = s.reversals
<1> DEFINE s2 == Reserved(s, c)
           record == [command |-> c, result |-> Null]
<1>1. /\ s2.records = [s.records EXCEPT ![c.key] = record]
      /\ s2.audit = s.audit /\ s2.transactions = s.transactions /\ s2.reversals = s.reversals
  BY DEF Reserved, Stores
<1>2. record.result = Null
  OBVIOUS
<1> HIDE DEF s2, record
<1>3. s2.records[c.key] = record /\ \A k \in Keys \ {c.key} : s2.records[k] = s.records[k]
  BY <1>1 DEF Stores
<1>4. {key \in Keys : s2.records[key] # Null /\ s2.records[key].result # Null}
      = {key \in Keys : s.records[key] # Null /\ s.records[key].result # Null}
  BY <1>2, <1>3
<1>5. \A k \in {key \in Keys : s.records[key] # Null /\ s.records[key].result # Null} :
         s2.records[k] = s.records[k]
  BY <1>3
<1>6. Evident(s2)
  BY <1>1, <1>4, <1>5 DEF Evident
<1> QED
  BY <1>1, <1>6 DEF s2

(* A success stored for a reserved key is audited with it.                 *)
LEMMA RecordedEvident ==
    ASSUME NEW s \in Stores, NEW c \in AllCommands, c.key \in Keys,
           s.records[c.key] = [command |-> c, result |-> Null],
           NEW result \in Results, Evident(s)
    PROVE  Evident(Recorded(s, c, result))
<1> DEFINE s2 == Recorded(s, c, result)
           event == AuditEvent(c, "SUCCESS", result.tx)
           done == [command |-> c, result |-> result]
           old == {key \in Keys : s.records[key] # Null /\ s.records[key].result # Null}
<1>1. /\ s2.audit = s.audit \cup {event}
      /\ s2.records = [s.records EXCEPT ![c.key].result = result]
  BY RecordedEffects
<1>2. s2.records[c.key] = done
  BY <1>1 DEF Stores
<1>3. \A k \in Keys \ {c.key} : s2.records[k] = s.records[k]
  BY <1>1 DEF Stores
<1>4. done # Null /\ result # Null /\ c.key \notin old
  BY NullIsNoRow DEF IdempotencyRows
<1>5. event.outcome = "SUCCESS" /\ event = AuditEvent(done.command, "SUCCESS", done.result.tx)
  BY DEF AuditEvent
<1>6. done.result = result
  OBVIOUS
<1> HIDE DEF s2, event, done
<1>7. {key \in Keys : s2.records[key] # Null /\ s2.records[key].result # Null}
      = old \cup {c.key}
  BY <1>2, <1>3, <1>4, <1>6
<1>8. {e \in s2.audit : e.outcome = "SUCCESS"}
      = {e \in s.audit : e.outcome = "SUCCESS"} \cup {event}
  BY <1>1, <1>5
<1>9. {AuditEvent(s2.records[k].command, "SUCCESS", s2.records[k].result.tx) :
          k \in old \cup {c.key}}
      = {AuditEvent(s.records[k].command, "SUCCESS", s.records[k].result.tx) : k \in old}
        \cup {event}
  BY <1>2, <1>3, <1>4, <1>5
<1>10. {e \in s.audit : e.outcome = "SUCCESS"}
       = {AuditEvent(s.records[k].command, "SUCCESS", s.records[k].result.tx) : k \in old}
  BY DEF Evident
<1> HIDE DEF old
<1>11. {e \in s2.audit : e.outcome = "SUCCESS"}
       = {AuditEvent(s2.records[k].command, "SUCCESS", s2.records[k].result.tx) :
             k \in {key \in Keys : s2.records[key] # Null /\ s2.records[key].result # Null}}
  BY <1>7, <1>8, <1>9, <1>10
<1> QED
  BY <1>11 DEF Evident, s2

-----------------------------------------------------------------------------
(* Reversals.                                                              *)

(* A store that adds no link, keeps the history, voids nothing and posts   *)
(* neither reversals nor voided rows keeps its links.                      *)
LEMMA LinksUntouched ==
    ASSUME NEW s \in Stores, NEW s2 \in Stores, LinksWhole(s), LinksCancel(s),
           s2.reversals = s.reversals,
           \A t \in TxIds : IsPosted(s, t) =>
              /\ IsPosted(s2, t)
              /\ s2.transactions[t].kind = s.transactions[t].kind
              /\ s2.transactions[t].cash = s.transactions[t].cash
              /\ s2.transactions[t].entries = s.transactions[t].entries
              /\ s2.transactions[t].state = "VOIDED" <=> s.transactions[t].state = "VOIDED",
           \A t \in TxIds : IsPosted(s2, t) /\ ~IsPosted(s, t) =>
              s2.transactions[t].kind # "REVERSAL" /\ s2.transactions[t].state # "VOIDED"
    PROVE  LinksWhole(s2) /\ LinksCancel(s2)
<1>1. \A link \in s.reversals : link.original \in TxIds /\ link.reversal \in TxIds
  BY DEF Stores
<1>2. \A link \in s.reversals : IsPosted(s2, link.original) /\ IsPosted(s2, link.reversal)
  BY <1>1 DEF LinksWhole
<1>3. ASSUME NEW t \in TxIds, IsPosted(s2, t)
      PROVE  /\ s2.transactions[t].state = "VOIDED" <=> \E link \in s.reversals : link.original = t
             /\ s2.transactions[t].kind = "REVERSAL" <=> \E link \in s.reversals : link.reversal = t
  <2>1. CASE IsPosted(s, t)
    BY <2>1 DEF LinksWhole
  <2>2. CASE ~IsPosted(s, t)
    BY <2>2, <1>3 DEF LinksWhole
  <2> QED
    BY <2>1, <2>2
<1>4. \A one, other \in s.reversals :
        one.original = other.original \/ one.reversal = other.reversal => one = other
  BY DEF LinksWhole
<1>5. LinksWhole(s2)
  BY <1>2, <1>3, <1>4 DEF LinksWhole
<1>6. ASSUME NEW link \in s.reversals
      PROVE  Cancels(s2.transactions[link.original], s2.transactions[link.reversal])
  <2>1. /\ link.original \in TxIds /\ link.reversal \in TxIds
        /\ IsPosted(s, link.original) /\ IsPosted(s, link.reversal)
        /\ Cancels(s.transactions[link.original], s.transactions[link.reversal])
    BY <1>1, <1>6 DEF LinksWhole, LinksCancel
  <2> QED
    BY <2>1 DEF Cancels
<1> QED
  BY <1>5, <1>6 DEF LinksCancel

(* A row and its reversal cancel.                                          *)
LEMMA ReversalCancels ==
    ASSUME NEW original \in TransactionRows, original.entries \in EntryPairs,
           NEW c \in AllCommands, NEW today \in Dates
    PROVE  Cancels(original, ReversalRow(original, c, today))
<1> DEFINE row == ReversalRow(original, c, today)
<1>1. original.cash = NoDate <=> row.cash = NoDate
  BY DatesAndCents DEF ReversalRow, NoDate, AllCommands
<1>2. /\ original.entries[1] \in EntryRows /\ original.entries[2] \in EntryRows
      /\ row.entries[1] = ReversedEntry(original.entries[1])
      /\ row.entries[2] = ReversedEntry(original.entries[2])
  BY DEF EntryPairs, ReversalRow, ReversalEntries
<1>3. ASSUME NEW e \in EntryRows
      PROVE  /\ ReversedEntry(e).target = e.target
             /\ SignedCents(e) \in Int
             /\ SignedCents(ReversedEntry(e)) = -SignedCents(e)
  <2>1. /\ ReversedEntry(e).target = e.target /\ ReversedEntry(e).cents = e.cents
        /\ ReversedEntry(e).side = "DEBIT" <=> e.side # "DEBIT"
        /\ e.cents \in Int
    BY DatesAndCents DEF ReversedEntry, EntryRows
  <2> QED
    BY <2>1 DEF SignedCents
<1> HIDE DEF row
<1>4. \A target \in Accounts \cup Categories :
         Movement(original.entries, target) + Movement(row.entries, target) = 0
  <2>1. /\ row.entries[1].target = original.entries[1].target
        /\ row.entries[2].target = original.entries[2].target
        /\ SignedCents(row.entries[1]) = -SignedCents(original.entries[1])
        /\ SignedCents(row.entries[2]) = -SignedCents(original.entries[2])
        /\ SignedCents(original.entries[1]) \in Int /\ SignedCents(original.entries[2]) \in Int
    BY <1>2, <1>3
  <2> QED
    BY <2>1 DEF Movement
<1> QED
  BY <1>1, <1>4 DEF Cancels, row

(* The link a reversal adds is the only one at either of its ends.         *)
LEMMA ReverseLinks ==
    ASSUME NEW s \in Stores, StoreWhole(s), NEW c \in AllCommands, c.tx \in TxIds,
           AcceptsReversal(s, c), NEW t \in FreshIn(s), NEW today \in Dates,
           NEW replacement \in IF c.selection = Null THEN {Null} ELSE FreshIn(s) \ {t},
           LinksWhole(s), LinksCancel(s)
    PROVE  LET s2 == Reverse(s, c, t, today, replacement)
           IN  LinksWhole(s2) /\ LinksCancel(s2)
<1> DEFINE s2 == Reverse(s, c, t, today, replacement)
           added == [original |-> c.tx, reversal |-> t]
           row == ReversalRow(s.transactions[c.tx], c, today)
           old == s.transactions[c.tx]
           voided == [old EXCEPT !.state = "VOIDED"]
<1>1. /\ s2 \in Stores /\ t \in TxIds /\ ~IsPosted(s, t)
      /\ \A x \in TxIds : IsPosted(s2, x) <=> IsPosted(s, x) \/ x = t
  BY ReverseWhole
<1>2. /\ s2.transactions[t] = row /\ s2.transactions[c.tx] = voided
      /\ \A x \in TxIds \ {c.tx} : IsPosted(s, x) => s2.transactions[x] = s.transactions[x]
      /\ s2.reversals = s.reversals \cup {added}
  BY ReverseEffects
<1>3. /\ IsPosted(s, c.tx) /\ old \in TransactionRows /\ old.entries \in EntryPairs
      /\ old.state # "VOIDED"
  BY DEF AcceptsReversal, IsPosted, Stores, StoreWhole
<1>4. /\ added.original = c.tx /\ added.reversal = t /\ c.tx # t
      /\ voided.state = "VOIDED" /\ voided.kind = old.kind
      /\ voided.cash = old.cash /\ voided.entries = old.entries
      /\ row.kind = "REVERSAL" /\ row.state # "VOIDED"
  BY <1>1, <1>3 DEF ReversalRow, TransactionRows
<1>5. Cancels(old, row)
  BY <1>3, ReversalCancels
<1> HIDE DEF s2, added, row, old, voided
<1>6. \A link \in s.reversals :
         /\ link.original \in TxIds /\ link.reversal \in TxIds
         /\ IsPosted(s, link.original) /\ IsPosted(s, link.reversal)
         /\ link.original # c.tx /\ link.reversal # t /\ link.original # t
  <2>1. \A link \in s.reversals : link.original \in TxIds /\ link.reversal \in TxIds
    BY DEF Stores
  <2>2. ~\E link \in s.reversals : link.original = c.tx
    BY <1>3 DEF LinksWhole, old
  <2> QED
    BY <1>1, <2>1, <2>2 DEF LinksWhole
<1>7. \A one, other \in s2.reversals :
        one.original = other.original \/ one.reversal = other.reversal => one = other
  BY <1>2, <1>4, <1>6 DEF LinksWhole
<1>8. \A link \in s2.reversals : IsPosted(s2, link.original) /\ IsPosted(s2, link.reversal)
  BY <1>1, <1>2, <1>3, <1>4, <1>6
<1>9. ASSUME NEW x \in TxIds, IsPosted(s2, x)
      PROVE  /\ s2.transactions[x].state = "VOIDED" <=> \E link \in s2.reversals : link.original = x
             /\ s2.transactions[x].kind = "REVERSAL" <=> \E link \in s2.reversals : link.reversal = x
  <2>1. CASE x = t
    BY <2>1, <1>2, <1>4, <1>6
  <2>2. CASE x = c.tx
    BY <2>2, <1>2, <1>3, <1>4, <1>6 DEF LinksWhole, old
  <2>3. CASE x # t /\ x # c.tx
    <3>1. IsPosted(s, x) /\ s2.transactions[x] = s.transactions[x]
      BY <2>3, <1>1, <1>2, <1>9
    <3> QED
      BY <3>1, <2>3, <1>2, <1>4 DEF LinksWhole
  <2> QED
    BY <2>1, <2>2, <2>3
<1>10. LinksWhole(s2)
  BY <1>7, <1>8, <1>9 DEF LinksWhole
<1>11. ASSUME NEW link \in s2.reversals
       PROVE  Cancels(s2.transactions[link.original], s2.transactions[link.reversal])
  <2>1. CASE link = added
    <3>1. Cancels(voided, row)
      BY <1>4, <1>5 DEF Cancels
    <3> QED
      BY <2>1, <3>1, <1>2, <1>4
  <2>2. CASE link \in s.reversals
    <3>1. s2.transactions[link.original] = s.transactions[link.original]
      BY <2>2, <1>2, <1>6
    <3>2. /\ s2.transactions[link.reversal].cash = s.transactions[link.reversal].cash
          /\ s2.transactions[link.reversal].entries = s.transactions[link.reversal].entries
      BY <2>2, <1>2, <1>4, <1>6 DEF old
    <3>3. Cancels(s.transactions[link.original], s.transactions[link.reversal])
      BY <2>2 DEF LinksCancel
    <3> QED
      BY <3>1, <3>2, <3>3 DEF Cancels
  <2> QED
    BY <2>1, <2>2, <1>2, <1>11
<1> QED
  BY <1>10, <1>11 DEF LinksCancel, s2
-----------------------------------------------------------------------------
(* Postings.                                                               *)

(* The entries of an accepted selection use what is active, and move its   *)
(* amount in the direction of its kind.                                    *)
Moves(selection, entries) ==
    LET n == selection.cents
        inflow == CASE selection.kind = "INCOME" -> n
                    [] selection.kind \in {"EXPENSE", "TRANSFER"} -> -n
                    [] selection.kind = "OPENING" ->
                         IF selection.account \in AssetAccounts THEN n ELSE -n
        other == CASE selection.kind \in {"INCOME", "EXPENSE"} -> selection.category
                   [] selection.kind = "TRANSFER" -> selection.destination
                   [] selection.kind = "OPENING" -> Equity
    IN  Movement(entries, selection.account) = inflow /\ Movement(entries, other) = -inflow

(* A debit of one and a credit of another move what they say.              *)
LEMMA OppositesMove ==
    ASSUME NEW a, NEW b, a # b, NEW n \in Cents
    PROVE  /\ Movement(<<Debit(a, n), Credit(b, n)>>, a) = n
           /\ Movement(<<Debit(a, n), Credit(b, n)>>, b) = -n
<1>1. n \in Int
  BY DatesAndCents
<1>2. /\ Debit(a, n).target = a /\ SignedCents(Debit(a, n)) = n
      /\ Credit(b, n).target = b /\ SignedCents(Credit(b, n)) = -n
  BY DEF Debit, Credit, Entry, SignedCents
<1> QED
  BY <1>1, <1>2 DEF Movement

\* A recipe moves what was asked, out of one side and into the other, and names only
\* active accounts and categories.
LEMMA RecipeMoves ==
    ASSUME NEW s \in Stores, NEW selection \in Selections, selection.kind # "REVERSAL",
           ValidSelections(s, selection),
           selection.kind = "TRANSFER" => selection.account # selection.destination
    PROVE  /\ Moves(selection, RecipeEntries(selection))
           /\ \A i \in 1..2 : InUse(s, RecipeEntries(selection)[i].target)
<1> DEFINE a == selection.account
           n == selection.cents
<1>1. /\ n \in Cents /\ n \in Int /\ selection.kind \in TransactionKinds
      /\ a \in HouseholdAccounts /\ s.accounts[a] = "active"
  <2>1. n \in Cents /\ selection.kind \in TransactionKinds
    BY DEF Selections
  <2>2. a \in HouseholdAccounts /\ s.accounts[a] = "active"
    BY DEF ValidSelections, ActiveAccount
  <2>3. \A x \in Cents : x \in Int
    BY DatesAndCents
  <2> QED
    BY <2>1, <2>2, <2>3
<1>2. /\ a \notin Categories /\ a # Equity /\ Equity \notin Categories
  BY <1>1, IdentifiersDisjoint DEF Accounts
<1>3. \A x, y : /\ Debit(x, n).target = x /\ Credit(y, n).target = y
  BY DEF Debit, Credit, Entry
<1>4. InUse(s, a) /\ InUse(s, Equity)
  BY <1>1, <1>2 DEF InUse
<1>5. CASE selection.kind = "INCOME"
  <2> DEFINE b == selection.category
  <2>1. b \in Categories /\ s.categories[b] = "active"
    BY <1>5 DEF ValidSelections, ActiveCategory
  <2>2. RecipeEntries(selection) = <<Debit(a, n), Credit(b, n)>>
    BY <1>5 DEF RecipeEntries, IncomeEntries
  <2>3. a # b /\ InUse(s, b)
    BY <2>1, <1>2 DEF InUse
  <2>4. Moves(selection, RecipeEntries(selection))
    BY <2>2, <2>3, <1>1, <1>5, OppositesMove DEF Moves
  <2> QED
    BY <2>2, <2>3, <2>4, <1>3, <1>4
<1>6. CASE selection.kind = "EXPENSE"
  <2> DEFINE b == selection.category
  <2>1. b \in Categories /\ s.categories[b] = "active"
    BY <1>6 DEF ValidSelections, ActiveCategory
  <2>2. RecipeEntries(selection) = <<Debit(b, n), Credit(a, n)>>
    BY <1>6 DEF RecipeEntries, ExpenseEntries
  <2>3. a # b /\ InUse(s, b)
    BY <2>1, <1>2 DEF InUse
  <2>4. Moves(selection, RecipeEntries(selection))
    BY <2>2, <2>3, <1>1, <1>6, OppositesMove DEF Moves
  <2> QED
    BY <2>2, <2>3, <2>4, <1>3, <1>4
<1>7. CASE selection.kind = "TRANSFER"
  <2> DEFINE b == selection.destination
  <2>1. b \in HouseholdAccounts /\ s.accounts[b] = "active" /\ b \notin Categories
    BY <1>7, IdentifiersDisjoint DEF ValidSelections, ActiveAccount, Accounts
  <2>2. RecipeEntries(selection) = <<Debit(b, n), Credit(a, n)>>
    BY <1>7 DEF RecipeEntries, TransferEntries
  <2>3. a # b /\ InUse(s, b)
    BY <2>1, <1>7 DEF InUse
  <2>4. Moves(selection, RecipeEntries(selection))
    BY <2>2, <2>3, <1>1, <1>7, OppositesMove DEF Moves
  <2> QED
    BY <2>2, <2>3, <2>4, <1>3, <1>4
<1>8. CASE selection.kind = "OPENING"
  <2>1. RecipeEntries(selection) =
          IF a \in AssetAccounts THEN <<Debit(a, n), Credit(Equity, n)>>
          ELSE <<Debit(Equity, n), Credit(a, n)>>
    BY <1>8 DEF RecipeEntries, OpeningEntries, AccountKind
  <2>2. Moves(selection, RecipeEntries(selection))
    <3>1. - (-n) = n
      BY <1>1
    <3>2. CASE a \in AssetAccounts
      BY <2>1, <3>2, <1>1, <1>2, <1>8, OppositesMove DEF Moves
    <3>3. CASE a \notin AssetAccounts
      BY <2>1, <3>1, <3>3, <1>1, <1>2, <1>8, OppositesMove DEF Moves
    <3> QED
      BY <3>2, <3>3
  <2> QED
    BY <2>1, <2>2, <1>3, <1>4
<1> QED
  BY <1>1, <1>5, <1>6, <1>7, <1>8 DEF TransactionKinds

(* A posting under the lock keeps links, uses what is active and moves     *)
(* what the draft it turns said; s is d with the reservation.              *)
LEMMA PostKeepsEffects ==
    ASSUME NEW d \in Stores, NEW s \in Stores, StoreWhole(s),
           s.transactions = d.transactions, s.drafts = d.drafts,
           s.accounts = d.accounts, s.categories = d.categories,
           NEW c \in AllCommands, c.name \in KeyedNames, c.name # "reverse_transaction",
           WellFormed(c), AcceptsPosting(s, c),
           NEW t \in IF c.name = "post_draft" THEN {c.tx} ELSE FreshIn(s),
           LinksWhole(s), LinksCancel(s)
    PROVE  LET s2 == Post(s, c, t)
           IN  /\ LinksWhole(s2) /\ LinksCancel(s2)
               /\ UsesActive(d, s2) /\ MovesDrafts(d, s2)
<1> DEFINE s2 == Post(s, c, t)
           selection == PostedSelection(s, c)
           row == PostedRow(selection)
<1>1. /\ s2 \in Stores /\ t \in TxIds /\ ~IsPosted(s, t)
      /\ \A x \in TxIds : IsPosted(s2, x) <=> IsPosted(s, x) \/ x = t
  BY PostWhole
<1>2. /\ s2.transactions[t] = row
      /\ \A x \in TxIds \ {t} : s2.transactions[x] = s.transactions[x]
      /\ s2.reversals = s.reversals
  BY PostEffects
<1>3. /\ selection \in Selections /\ selection.kind # "REVERSAL" /\ ValidSelections(s, selection)
      /\ selection.kind = "TRANSFER" => selection.account # selection.destination
  BY PostedRowWhole DEF AcceptsPosting
<1>4. /\ row.kind = selection.kind /\ row.state = "POSTED" /\ row.economic = selection.economic
      /\ row.entries = RecipeEntries(selection)
  BY DEF PostedRow
<1>5. c.name = "post_draft" => t = c.tx /\ selection = DraftSelection(s, c)
  BY DEF PostedSelection
<1> HIDE DEF s2, selection, row
<1>6. /\ Moves(selection, row.entries)
      /\ \A i \in 1..2 : InUse(s, row.entries[i].target)
  BY <1>3, <1>4, RecipeMoves
<1>7. LinksWhole(s2) /\ LinksCancel(s2)
  <2>1. \A x \in TxIds : IsPosted(s2, x) /\ ~IsPosted(s, x) =>
           s2.transactions[x].kind # "REVERSAL" /\ s2.transactions[x].state # "VOIDED"
    BY <1>1, <1>2, <1>3, <1>4
  <2>2. \A x \in TxIds : IsPosted(s, x) =>
           IsPosted(s2, x) /\ s2.transactions[x] = s.transactions[x]
    BY <1>1, <1>2
  <2> QED
    BY <2>1, <2>2, <1>1, <1>2, LinksUntouched
<1>8. \A x \in TxIds : (IsPosted(d, x) <=> IsPosted(s, x)) /\ (IsDraft(d, x) <=> IsDraft(s, x))
  BY DEF IsPosted, IsDraft
<1>9. UsesActive(d, s2)
  <2>1. \A i \in 1..2 : InUse(d, row.entries[i].target)
    BY <1>6 DEF InUse
  <2> QED
    BY <2>1, <1>1, <1>2, <1>8 DEF UsesActive
<1>10. MovesDrafts(d, s2)
  <2>1. ASSUME NEW x \in TxIds, IsDraft(d, x), IsPosted(s2, x)
        PROVE  MovesAsDrafted(d.transactions[x], d.drafts[x], s2.transactions[x])
    <3>1. x = t
      BY <2>1, <1>1, <1>8 DEF IsDraft, IsPosted, PostedStates
    <3>2. c.name = "post_draft"
      BY <2>1, <3>1, <1>8 DEF FreshIn, IsDraft
    <3>3. /\ selection.kind = d.transactions[x].kind
          /\ selection.economic = d.transactions[x].economic
          /\ selection.cents = d.drafts[x].cents /\ selection.account = d.drafts[x].account
          /\ selection.category = d.drafts[x].category
          /\ selection.destination = d.drafts[x].destination
      BY <3>1, <3>2, <1>5 DEF DraftSelection
    <3> QED
      BY <3>1, <3>3, <1>2, <1>4, <1>6 DEF MovesAsDrafted, Moves
  <2> QED
    BY <2>1 DEF MovesDrafts
<1> QED
  BY <1>7, <1>9, <1>10 DEF s2

(* So does a reversal: it posts nothing but the reversal.                  *)
LEMMA ReverseKeepsEffects ==
    ASSUME NEW d \in Stores, NEW s \in Stores, StoreWhole(s),
           s.transactions = d.transactions, s.drafts = d.drafts,
           NEW c \in AllCommands, c.tx \in TxIds,
           AcceptsReversal(s, c), NEW t \in FreshIn(s), NEW today \in Dates,
           NEW replacement \in IF c.selection = Null THEN {Null} ELSE FreshIn(s) \ {t}
    PROVE  LET s2 == Reverse(s, c, t, today, replacement)
           IN  UsesActive(d, s2) /\ MovesDrafts(d, s2) /\ s2.audit = s.audit
<1> DEFINE s2 == Reverse(s, c, t, today, replacement)
<1>1. /\ t \in TxIds /\ \A x \in TxIds : IsPosted(s2, x) <=> IsPosted(s, x) \/ x = t
  BY ReverseWhole
<1>2. s2.transactions[t].kind = "REVERSAL" /\ s2.audit = s.audit
  <2>1. /\ s2.transactions[t] = ReversalRow(s.transactions[c.tx], c, today)
        /\ s2.transactions[c.tx] = [s.transactions[c.tx] EXCEPT !.state = "VOIDED"]
        /\ s2.audit = s.audit
    BY ReverseEffects
  <2> HIDE DEF s2
  <2> QED
    BY <2>1 DEF ReversalRow
<1> HIDE DEF s2
<1>3. \A x \in TxIds : (IsPosted(d, x) <=> IsPosted(s, x)) /\ (IsDraft(d, x) <=> IsDraft(s, x))
  BY DEF IsPosted, IsDraft
<1>4. UsesActive(d, s2)
  BY <1>1, <1>2, <1>3 DEF UsesActive
<1>5. \A x \in TxIds : ~(IsDraft(d, x) /\ IsPosted(s2, x))
  BY <1>1, <1>3 DEF IsDraft, IsPosted, PostedStates, FreshIn
<1> QED
  BY <1>2, <1>4, <1>5 DEF MovesDrafts, s2
-----------------------------------------------------------------------------
(* The three kinds of step.                                                *)

(* A step that touches neither store keeps the invariant.                  *)
LEMMA EffectsUnmoved ==
    ASSUME EffectInv, UNCHANGED <<db, work>>
    PROVE  EffectInv'
  BY DEF EffectInv, Evident, LinksWhole, LinksCancel, UsesActive, MovesDrafts

(* So does the release of a store whose parts are in order.                *)
LEMMA EffectsReleased ==
    ASSUME NEW s, Released(s), Evident(s), LinksWhole(s), LinksCancel(s)
    PROVE  EffectInv'
<1>1. db' = s /\ work' = s
  BY DEF Released
<1>2. UsesActive(s, s) /\ MovesDrafts(s, s)
  BY DEF UsesActive, MovesDrafts, IsDraft, IsPosted, PostedStates
<1> QED
  BY <1>1, <1>2 DEF EffectInv, Evident, LinksWhole, LinksCancel, UsesActive, MovesDrafts

(* And a change under the lock that keeps its relation to what is          *)
(* committed.                                                              *)
LEMMA EffectsLocked ==
    ASSUME EffectInv, NEW r, NEW s, Locked(r, s), Evident(s), LinksWhole(s), LinksCancel(s),
           UsesActive(db, s), MovesDrafts(db, s)
    PROVE  EffectInv'
<1>1. db' = db /\ work' = s
  BY DEF Locked
<1> QED
  BY <1>1 DEF EffectInv, Evident, LinksWhole, LinksCancel, UsesActive, MovesDrafts

(* A store in which the posted rows, the links, the records and the events *)
(* are those of d.                                                         *)
SameEffects(d, s) ==
    /\ s.records = d.records /\ s.audit = d.audit /\ s.reversals = d.reversals
    /\ \A t \in TxIds : IsPosted(s, t) <=> IsPosted(d, t)
    /\ \A t \in TxIds : IsPosted(d, t) => s.transactions[t] = d.transactions[t]

\* A step that leaves posted rows, links, records and events alone keeps what is said of
\* them.
LEMMA SameEffectsKeep ==
    ASSUME NEW d \in Stores, NEW s \in Stores, SameEffects(d, s),
           Evident(d), LinksWhole(d), LinksCancel(d)
    PROVE  /\ Evident(s) /\ LinksWhole(s) /\ LinksCancel(s)
           /\ UsesActive(d, s) /\ MovesDrafts(d, s)
<1>1. Evident(s)
  BY EvidenceUntouched DEF SameEffects
<1>2. LinksWhole(s) /\ LinksCancel(s)
  <2>1. \A t \in TxIds : IsPosted(d, t) =>
          IsPosted(s, t) /\ s.transactions[t] = d.transactions[t]
    BY DEF SameEffects
  <2>2. \A t \in TxIds : ~(IsPosted(s, t) /\ ~IsPosted(d, t))
    BY DEF SameEffects
  <2>3. s.reversals = d.reversals
    BY DEF SameEffects
  <2> QED
    BY <2>1, <2>2, <2>3, LinksUntouched
<1>3. UsesActive(d, s)
  BY DEF SameEffects, UsesActive
<1>4. MovesDrafts(d, s)
  BY DEF SameEffects, MovesDrafts, IsDraft, IsPosted, PostedStates
<1> QED
  BY <1>1, <1>2, <1>3, <1>4

-----------------------------------------------------------------------------
(* The steps.                                                              *)

(* Writing, updating or discarding a draft has no effect in this sense.    *)
LEMMA DraftWritesKeep ==
    ASSUME LedgerInv, EffectInv, NEW r \in Requests,
           WriteCreateDraft(r) \/ WriteUpdateDraft(r) \/ WriteDiscardDraft(r)
    PROVE  EffectInv'
<1> DEFINE c == requests[r].command
           seen == requests[r].seen
<1>1. /\ requests[r].pc = "writing"
      /\ c.name \in {"create_draft", "update_draft", "discard_draft"}
  BY DEF WriteCreateDraft, WriteUpdateDraft, WriteDiscardDraft, Drafting, At
<1>2. /\ db \in Stores /\ StoreWhole(db) /\ c \in Commands
      /\ db.transactions \in [TxIds -> TransactionRows \cup {Null}]
  BY <1>1, Hand DEF Stores
<1>3. CASE UNCHANGED <<db, work>>
  BY <1>3, EffectsUnmoved
<1>4. ASSUME NEW s \in Stores, Locked(r, s), SameEffects(db, s)
      PROVE  EffectInv'
  BY <1>2, <1>4, SameEffectsKeep, EffectsLocked DEF EffectInv
<1>5. CASE WriteCreateDraft(r)
  <2>1. PICK t \in FreshIn(db) : Locked(r, AddDraft(db, t, c.selection, Null))
    BY <1>5 DEF WriteCreateDraft
  <2>2. c.name = "create_draft" /\ c.selection \in Selections
    BY <1>2, <1>5, CommandShape DEF WriteCreateDraft, Drafting
  <2> DEFINE s == AddDraft(db, t, c.selection, Null)
  <2>3. s \in Stores /\ \A x \in TxIds : IsPosted(s, x) <=> IsPosted(db, x)
    BY <1>2, <2>2, AddDraftWhole
  <2>4. /\ s.records = db.records /\ s.audit = db.audit /\ s.reversals = db.reversals
        /\ s.transactions = [db.transactions EXCEPT ![t] = DraftRow(c.selection)]
    BY <1>2 DEF AddDraft, Stores
  <2> HIDE DEF s
  <2>5. t \in TxIds /\ ~IsPosted(db, t)
    BY DEF FreshIn, IsPosted
  <2>6. \A x \in TxIds \ {t} : s.transactions[x] = db.transactions[x]
    BY <1>2, <2>4
  <2>7. SameEffects(db, s)
    BY <2>3, <2>4, <2>5, <2>6 DEF SameEffects
  <2> QED
    BY <1>4, <2>1, <2>3, <2>7 DEF s
<1>6. CASE WriteUpdateDraft(r)
  <2> DEFINE s == UpdateDraft(db, c.tx, c.selection, seen.row, seen.details)
  <2>1. /\ c.name = "update_draft" /\ c.selection \in Selections /\ c.tx \in TxIds
        /\ seen.row \in TransactionRows /\ seen.details \in DetailRows
    <3>1. c.name = "update_draft" /\ InStep(requests[r], db, work)
      BY <1>1, <1>6, Hand DEF WriteUpdateDraft, Drafting
    <3>2. seen \in [row : TransactionRows, details : DetailRows]
      BY <1>1, <3>1 DEF InStep
    <3> QED
      BY <1>2, <3>1, <3>2, CommandShape
  <2>2. CASE /\ RowChanged(c.selection, seen.row) \/ DetailsChanged(c.selection, seen.details)
             /\ UpdateReaches(db, c.tx, c.selection, seen.row, seen.details)
             /\ Locked(r, s)
    <3>1. s \in Stores /\ \A x \in TxIds : IsPosted(s, x) <=> IsPosted(db, x)
      BY <1>2, <2>1, <2>2, UpdateDraftWhole
    <3> DEFINE row == IF RowChanged(c.selection, seen.row)
                      THEN MergedRow(DraftRow(c.selection), seen.row, db.transactions[c.tx])
                      ELSE db.transactions[c.tx]
    <3>2. /\ s.records = db.records /\ s.audit = db.audit /\ s.reversals = db.reversals
          /\ s.transactions = [db.transactions EXCEPT ![c.tx] = row]
      BY <1>2 DEF UpdateDraft, Stores
    <3>3. IsPosted(db, c.tx) => row = db.transactions[c.tx]
      BY <2>2 DEF UpdateReaches, IsDraft, IsPosted, PostedStates
    <3> HIDE DEF s, row
    <3>4. \A x \in TxIds : IsPosted(db, x) => s.transactions[x] = db.transactions[x]
      BY <1>2, <2>1, <3>2, <3>3
    <3>5. SameEffects(db, s)
      BY <3>1, <3>2, <3>4 DEF SameEffects
    <3> QED
      BY <1>4, <2>2, <3>1, <3>5
  <2>3. CASE DatabaseUntouched
    BY <1>3, <2>3 DEF DatabaseUntouched
  <2> QED
    BY <1>6, <2>2, <2>3 DEF WriteUpdateDraft
<1>7. CASE WriteDiscardDraft(r)
  <2> DEFINE s == DiscardDraft(db, c.tx)
  <2>1. c.tx \in TxIds
    BY <1>2, <1>7, CommandShape DEF WriteDiscardDraft, Drafting
  <2>2. CASE DeleteReaches(db, c.tx) /\ Locked(r, s)
    <3>1. s \in Stores /\ \A x \in TxIds : IsPosted(s, x) <=> IsPosted(db, x)
      BY <1>2, <2>1, <2>2, DiscardDraftWhole
    <3>2. /\ s.records = db.records /\ s.audit = db.audit /\ s.reversals = db.reversals
          /\ s.transactions = [db.transactions EXCEPT ![c.tx] = Null]
      BY <1>2 DEF DiscardDraft, Stores
    <3> HIDE DEF s
    <3>3. \A x \in TxIds \ {c.tx} : s.transactions[x] = db.transactions[x]
      BY <1>2, <3>2
    <3>4. SameEffects(db, s)
      BY <2>2, <3>1, <3>2, <3>3 DEF SameEffects, DeleteReaches
    <3> QED
      BY <1>4, <2>2, <3>1, <3>4
  <2>3. CASE DatabaseUntouched
    BY <1>3, <2>3 DEF DatabaseUntouched
  <2> QED
    BY <1>7, <2>2, <2>3 DEF WriteDiscardDraft
<1> QED
  BY <1>5, <1>6, <1>7

(* A reservation is no effect yet.                                         *)
LEMMA ReserveKeeps ==
    ASSUME LedgerInv, EffectInv, NEW r \in Requests, Reserve(r)
    PROVE  EffectInv'
<1> DEFINE c == requests[r].command
           s == Reserved(db, c)
<1>1. /\ requests[r].pc = "writing" /\ c.name \in KeyedNames
  BY DEF Reserve, At, Keyed
<1>2. c \in AllCommands /\ c.key \in Keys /\ db \in Stores /\ StoreWhole(db)
  BY <1>1, Hand
<1>3. CASE KeyIsFree(db, c) /\ Locked(r, s)
  <2>1. /\ s \in Stores /\ Evident(s)
        /\ s.transactions = db.transactions /\ s.reversals = db.reversals
    BY <1>2, <1>3, ReservedWhole, ReservedEvident DEF KeyIsFree, EffectInv
  <2>2. LinksWhole(s) /\ LinksCancel(s)
    BY <2>1 DEF EffectInv, LinksWhole, LinksCancel, IsPosted
  <2>3. UsesActive(db, s) /\ MovesDrafts(db, s)
    BY <2>1 DEF UsesActive, MovesDrafts, IsDraft, IsPosted, PostedStates
  <2> QED
    BY <1>3, <2>1, <2>2, <2>3, EffectsLocked
<1>4. CASE DatabaseUntouched
  BY <1>4, EffectsUnmoved DEF DatabaseUntouched
<1> QED
  BY <1>3, <1>4 DEF Reserve

(* A posting or a reversal under the lock is recorded and audited as what  *)
(* it is.                                                                  *)
LEMMA RecordingKeeps ==
    ASSUME LedgerInv, EffectInv, NEW r \in Requests, requests[r].pc = "performing",
           NEW s \in Stores, s.audit = work.audit, s.records = work.records,
           LinksWhole(s), LinksCancel(s), UsesActive(db, s), MovesDrafts(db, s),
           NEW result \in Results, Locked(r, Recorded(s, requests[r].command, result))
    PROVE  EffectInv'
<1> DEFINE c == requests[r].command
           s2 == Recorded(s, c, result)
<1>1. /\ c \in AllCommands /\ c.key \in Keys /\ db \in Stores
      /\ work.records[c.key] = [command |-> c, result |-> Null]
  <2>1. /\ c \in AllCommands /\ c.name \in KeyedNames /\ c.key \in Keys /\ db \in Stores
        /\ work = Reserved(db, c)
    BY Hand DEF InStep
  <2>2. work.records = [db.records EXCEPT ![c.key] = [command |-> c, result |-> Null]]
    BY <2>1 DEF Reserved, Stores
  <2> QED
    BY <2>1, <2>2 DEF Stores
<1>2. Evident(s)
  BY EvidenceUntouched DEF EffectInv
<1>3. Evident(s2)
  BY <1>1, <1>2, RecordedEvident
<1>4. /\ s2.transactions = s.transactions /\ s2.reversals = s.reversals
      /\ s2.audit = s.audit \cup {AuditEvent(c, "SUCCESS", result.tx)}
      /\ s2.records = [s.records EXCEPT ![c.key].result = result]
  BY RecordedEffects
<1> HIDE DEF s2
<1>5. LinksWhole(s2) /\ LinksCancel(s2)
  BY <1>4 DEF LinksWhole, LinksCancel, IsPosted
<1>6. UsesActive(db, s2) /\ MovesDrafts(db, s2)
  BY <1>4 DEF UsesActive, MovesDrafts, IsPosted
<1>7. Locked(r, s2)
  BY DEF s2
<1> QED
  BY <1>3, <1>5, <1>6, <1>7, EffectsLocked

(* What a request under the lock starts from is db with its reservation.   *)
LEMMA PerformingFrom ==
    ASSUME LedgerInv, EffectInv, NEW r \in Requests, requests[r].pc = "performing"
    PROVE  LET c == requests[r].command
           IN  /\ c \in AllCommands /\ WellFormed(c) /\ c.name \in KeyedNames /\ c \in Commands
               /\ db \in Stores /\ work \in Stores /\ StoreWhole(work)
               /\ work.transactions = db.transactions /\ work.drafts = db.drafts
               /\ work.accounts = db.accounts /\ work.categories = db.categories
               /\ LinksWhole(work) /\ LinksCancel(work)
<1> DEFINE c == requests[r].command
<1>1. /\ c \in AllCommands /\ WellFormed(c) /\ c.name \in KeyedNames /\ c \in Commands
      /\ db \in Stores /\ work \in Stores /\ StoreWhole(work) /\ work = Reserved(db, c)
  BY Hand DEF InStep
<1>2. /\ work.transactions = db.transactions /\ work.drafts = db.drafts
      /\ work.accounts = db.accounts /\ work.categories = db.categories
  BY <1>1 DEF Reserved, Stores
<1> QED
  BY <1>1, <1>2 DEF EffectInv

\* A posting adds one transaction with its event and marks no reversal.
LEMMA PerformPostingKeeps ==
    ASSUME LedgerInv, EffectInv, NEW r \in Requests, PerformPosting(r)
    PROVE  EffectInv'
<1> DEFINE c == requests[r].command
<1>1. requests[r].pc = "performing" /\ c.name # "reverse_transaction"
  BY DEF PerformPosting, At
<1>2. PICK t \in IF c.name = "post_draft" THEN {c.tx} ELSE FreshIn(work) : PostTo(r, c, t)
  BY DEF PerformPosting
<1> DEFINE result == [tx |-> t, replacement |-> Null]
           s == Post(work, c, t)
<1>3. AcceptsPosting(work, c) /\ Locked(r, Recorded(s, c, result))
  BY <1>2 DEF PostTo
<1>4. /\ c \in AllCommands /\ WellFormed(c) /\ c.name \in KeyedNames
      /\ db \in Stores /\ work \in Stores /\ StoreWhole(work)
      /\ work.transactions = db.transactions /\ work.drafts = db.drafts
      /\ work.accounts = db.accounts /\ work.categories = db.categories
      /\ LinksWhole(work) /\ LinksCancel(work)
  BY <1>1, PerformingFrom
<1>5. s \in Stores /\ s.records = work.records /\ t \in TxIds
  BY <1>1, <1>2, <1>3, <1>4, PostWhole
<1>6. s.audit = work.audit
  BY <1>1, <1>2, <1>3, <1>4, PostEffects
<1>7. /\ LinksWhole(s) /\ LinksCancel(s) /\ UsesActive(db, s) /\ MovesDrafts(db, s)
  BY <1>1, <1>2, <1>3, <1>4, PostKeepsEffects
<1>8. result \in Results
  BY <1>5 DEF Results
<1> HIDE DEF s, result
<1> QED
  BY <1>1, <1>3, <1>5, <1>6, <1>7, <1>8, RecordingKeeps

\* A reversal adds the compensation, its link and its event together.
LEMMA PerformReversalKeeps ==
    ASSUME LedgerInv, EffectInv, NEW r \in Requests, PerformReversal(r)
    PROVE  EffectInv'
<1> DEFINE c == requests[r].command
<1>1. requests[r].pc = "performing" /\ c.name = "reverse_transaction"
  BY DEF PerformReversal, At
<1>2. PICK t \in FreshIn(work), today \in Dates :
         \E replacement \in IF c.selection = Null THEN {Null} ELSE FreshIn(work) \ {t} :
            ReverseTo(r, c, t, today, replacement)
  BY DEF PerformReversal
<1>3. PICK replacement \in IF c.selection = Null THEN {Null} ELSE FreshIn(work) \ {t} :
         ReverseTo(r, c, t, today, replacement)
  BY <1>2
<1> DEFINE result == [tx |-> t, replacement |-> replacement]
           s == Reverse(work, c, t, today, replacement)
<1>4. AcceptsReversal(work, c) /\ Locked(r, Recorded(s, c, result))
  BY <1>3 DEF ReverseTo
<1>5. /\ c \in AllCommands /\ c \in Commands
      /\ db \in Stores /\ work \in Stores /\ StoreWhole(work)
      /\ work.transactions = db.transactions /\ work.drafts = db.drafts
      /\ LinksWhole(work) /\ LinksCancel(work)
  BY <1>1, PerformingFrom
<1>6. c.tx \in TxIds
  BY <1>1, <1>5, CommandShape
<1>7. s \in Stores /\ s.records = work.records /\ t \in TxIds
  BY <1>2, <1>3, <1>4, <1>5, <1>6, ReverseWhole
<1>9. LinksWhole(s) /\ LinksCancel(s)
  BY <1>2, <1>3, <1>4, <1>5, <1>6, ReverseLinks
<1>10. UsesActive(db, s) /\ MovesDrafts(db, s) /\ s.audit = work.audit
  BY <1>2, <1>3, <1>4, <1>5, <1>6, ReverseKeepsEffects
<1>11. result \in Results
  BY <1>3, <1>7 DEF Results, FreshIn
<1> HIDE DEF s, result
<1> QED
  BY <1>1, <1>4, <1>7, <1>9, <1>10, <1>11, RecordingKeeps
(* The event of a failure and the writers beside the requests have no      *)
(* effect in this sense, but RECONCILED, which voids nothing.              *)
LEMMA RecordFailureKeeps ==
    ASSUME LedgerInv, EffectInv, NEW r \in Requests, RecordFailure(r)
    PROVE  EffectInv'
<1> DEFINE c == requests[r].command
           s == Audited(db, c, "FAILURE", Null)
<1>1. Released(s) /\ db \in Stores
  BY DEF RecordFailure, LedgerInv, TypeOK
<1>2. /\ Evident(s) /\ s.transactions = db.transactions /\ s.reversals = db.reversals
  BY <1>1, FailureIsNoEvidence DEF EffectInv
<1> HIDE DEF s
<1>3. LinksWhole(s) /\ LinksCancel(s)
  BY <1>2 DEF EffectInv, LinksWhole, LinksCancel, IsPosted
<1> QED
  BY <1>1, <1>2, <1>3, EffectsReleased

(* Setting up and archiving change the catalogue alone.                    *)
LEMMA CatalogueKeeps ==
    ASSUME EffectInv, db \in Stores, NEW s, NEW state, Released(s),
           \/ \E a \in Accounts : s = SetAccount(db, a, state)
           \/ \E k \in Categories : s = SetCategory(db, k, state)
    PROVE  EffectInv'
<1>1. /\ s.transactions = db.transactions /\ s.reversals = db.reversals
      /\ s.records = db.records /\ s.audit = db.audit
  BY DEF SetAccount, SetCategory, Stores
<1>2. Evident(s) /\ LinksWhole(s) /\ LinksCancel(s)
  BY <1>1 DEF EffectInv, Evident, LinksWhole, LinksCancel, IsPosted
<1> QED
  BY <1>2, EffectsReleased

(* A transaction becomes RECONCILED, which voids nothing.                  *)
LEMMA ReconcileKeeps ==
    ASSUME LedgerInv, EffectInv, NEW t \in TxIds, Reconcile(t)
    PROVE  EffectInv'
<1> DEFINE s == SetReconciled(db, t)
           row == [db.transactions[t] EXCEPT !.state = "RECONCILED"]
<1>1. /\ Released(s) /\ db \in Stores /\ StoreWhole(db) /\ IsPosted(db, t)
      /\ db.transactions[t].state = "POSTED"
  BY DEF Reconcile, LedgerInv, TypeOK
<1>2. db.transactions[t] \in TransactionRows
  BY <1>1 DEF IsPosted, Stores
<1>3. /\ row.kind = db.transactions[t].kind /\ row.cash = db.transactions[t].cash
      /\ row.entries = db.transactions[t].entries /\ row.state = "RECONCILED"
  BY <1>2 DEF TransactionRows
<1>4. s = [db EXCEPT !.transactions[t].state = "RECONCILED"]
  BY DEF SetReconciled
<1> HIDE DEF s
<1>5. s \in Stores /\ \A x \in TxIds : IsPosted(s, x) <=> IsPosted(db, x)
  BY <1>1, <1>4, AdvancedWhole
<1>6. /\ s.transactions[t] = row
      /\ \A x \in TxIds \ {t} : s.transactions[x] = db.transactions[x]
      /\ s.reversals = db.reversals /\ s.records = db.records /\ s.audit = db.audit
  BY <1>1, <1>4 DEF Stores
<1> HIDE DEF row
<1>7. LinksWhole(s) /\ LinksCancel(s)
  <2>1. \A x \in TxIds : IsPosted(db, x) =>
           /\ IsPosted(s, x)
           /\ s.transactions[x].kind = db.transactions[x].kind
           /\ s.transactions[x].cash = db.transactions[x].cash
           /\ s.transactions[x].entries = db.transactions[x].entries
           /\ s.transactions[x].state = "VOIDED" <=> db.transactions[x].state = "VOIDED"
    BY <1>1, <1>3, <1>5, <1>6
  <2>2. \A x \in TxIds : IsPosted(s, x) /\ ~IsPosted(db, x) =>
           s.transactions[x].kind # "REVERSAL" /\ s.transactions[x].state # "VOIDED"
    BY <1>5
  <2>3. LinksWhole(db) /\ LinksCancel(db)
    BY DEF EffectInv
  <2> QED
    BY <2>1, <2>2, <2>3, <1>1, <1>5, <1>6, LinksUntouched
<1>8. Evident(s)
  BY <1>6, EvidenceUntouched DEF EffectInv
<1> QED
  BY <1>1, <1>7, <1>8, EffectsReleased

(* The writers beside the requests keep the invariant.                     *)
LEMMA BesideKeepsEffects ==
    ASSUME LedgerInv, EffectInv, Beside
    PROVE  EffectInv'
<1>1. db \in Stores /\ HouseholdAccounts \subseteq Accounts
  BY DEF LedgerInv, TypeOK, Accounts
<1>2. ASSUME NEW x \in Changing, NEW state \in {"active", "archived"},
             SetUp(x) \/ SetArchived(x, state)
      PROVE  EffectInv'
  <2>1. \/ x \in HouseholdAccounts /\ Released(SetAccount(db, x, "active"))
        \/ x \in Categories /\ Released(SetCategory(db, x, "active"))
        \/ x \in HouseholdAccounts /\ Released(SetAccount(db, x, state))
        \/ x \in Categories /\ Released(SetCategory(db, x, state))
    BY <1>2 DEF SetUp, SetArchived
  <2>2. ASSUME NEW some, x \in HouseholdAccounts, Released(SetAccount(db, x, some))
        PROVE  EffectInv'
    BY <1>1, <2>2, CatalogueKeeps
  <2>3. ASSUME NEW some, x \in Categories, Released(SetCategory(db, x, some))
        PROVE  EffectInv'
    BY <1>1, <2>3, CatalogueKeeps
  <2> QED
    BY <2>1, <2>2, <2>3
<1>3. CASE \E t \in TxIds : Reconcile(t)
  BY <1>3, ReconcileKeeps
<1> QED
  BY <1>2, <1>3 DEF Beside

-----------------------------------------------------------------------------
(* The inductive invariant.                                                *)

(* Nothing has happened yet when the service starts.                       *)
LEMMA InitEffects == Init => EffectInv
<1> SUFFICES ASSUME Init PROVE EffectInv
  OBVIOUS
<1>1. /\ work = db
      /\ db.audit = {} /\ db.reversals = {}
      /\ db.records = [k \in Keys |-> Null]
      /\ db.transactions = [t \in TxIds |-> Null]
  BY DEF Init, EmptyStore
<1>2. Evident(db)
  BY <1>1 DEF Evident
<1>3. LinksWhole(db) /\ LinksCancel(db)
  BY <1>1 DEF LinksWhole, LinksCancel, IsPosted
<1>4. UsesActive(db, db) /\ MovesDrafts(db, db)
  BY DEF UsesActive, MovesDrafts, IsDraft, IsPosted, PostedStates
<1> QED
  BY <1>1, <1>2, <1>3, <1>4 DEF EffectInv

(* Every step keeps it.                                                    *)
LEMMA NextEffects == LedgerInv /\ EffectInv /\ [Next]_vars => EffectInv'
<1> SUFFICES ASSUME LedgerInv, EffectInv, [Next]_vars PROVE EffectInv'
  OBVIOUS
<1>1. ASSUME NEW r \in Requests, Step(r)
      PROVE  EffectInv'
  <2>1. CASE LookUp(r) \/ FailureUnrecorded(r) \/ ReadCreateDraft(r) \/ ReadUpdateDraft(r)
             \/ ReadDiscardDraft(r) \/ LockTimeout(r) \/ Answer(r) \/ Leave(r)
    <3>1. UNCHANGED <<db, work>>
      BY <2>1 DEF LookUp, FailureUnrecorded, ReadCreateDraft, ReadUpdateDraft,
                  ReadDiscardDraft, LockTimeout, Answer, Leave, DatabaseUntouched
    <3> QED
      BY <3>1, EffectsUnmoved
  <2>2. CASE Reserve(r)
    BY <2>2, ReserveKeeps
  <2>3. CASE PerformPosting(r)
    BY <2>3, PerformPostingKeeps
  <2>4. CASE PerformReversal(r)
    BY <2>4, PerformReversalKeeps
  <2>5. CASE Refuse(r) \/ Commit(r)
    <3>1. Released(db) \/ Released(work)
      BY <2>5 DEF Refuse, Commit
    <3> QED
      BY <3>1, EffectsReleased DEF EffectInv
  <2>6. CASE RecordFailure(r)
    BY <2>6, RecordFailureKeeps
  <2>7. CASE WriteCreateDraft(r) \/ WriteUpdateDraft(r) \/ WriteDiscardDraft(r)
    BY <2>7, DraftWritesKeep
  <2> QED
    BY <1>1, <2>1, <2>2, <2>3, <2>4, <2>5, <2>6, <2>7 DEF Step
<1>2. CASE \E r \in Requests : \E c \in Commands : Submit(r, c)
  BY <1>2, EffectsUnmoved DEF Submit, DatabaseUntouched
<1>3. CASE Beside
  BY <1>3, BesideKeepsEffects
<1>4. CASE Crash
  BY <1>4, EffectsReleased DEF Crash, EffectInv
<1>5. CASE UNCHANGED vars
  BY <1>5, EffectsUnmoved DEF vars
<1> QED
  BY <1>1, <1>2, <1>3, <1>4, <1>5 DEF Next

(* EffectInv holds in every reachable state.                               *)
LEMMA EffectInvariance == Spec => [](LedgerInv /\ EffectInv)
<1>1. Init => LedgerInv /\ EffectInv
  BY InitInv, InitEffects
<1>2. LedgerInv /\ EffectInv /\ [Next]_vars => (LedgerInv /\ EffectInv)'
  BY NextInv, NextEffects
<1> QED
  BY <1>1, <1>2, PTL DEF Spec

(* The SUCCESS events are exactly those of the committed keys, each with   *)
(* the transaction its key made.                                           *)
THEOREM EvidenceAlwaysAgrees == Spec => []EvidenceAgrees
<1>1. ASSUME LedgerInv, EffectInv
      PROVE  EvidenceAgrees
  <2>1. {k \in Keys : db.records[k] # Null /\ db.records[k].result # Null}
        = {k \in Keys : db.records[k] # Null}
    BY <1>1 DEF LedgerInv, KeysWhole
  <2> QED
    BY <1>1, <2>1 DEF EffectInv, Evident, EvidenceAgrees
<1> QED
  BY <1>1, EffectInvariance, PTL

(* Each voided transaction was reversed exactly once, each reversal        *)
(* reverses exactly one, and the two cancel on every account.              *)
THEOREM ReversalsCancelOnce == Spec => []ReversedExactlyOnce
<1>1. ASSUME LedgerInv, EffectInv
      PROVE  ReversedExactlyOnce
  <2>1. LinksWhole(db) /\ LinksCancel(db)
    BY <1>1 DEF EffectInv
  <2>2. \A link \in db.reversals : Cancels(db.transactions[link.original], db.transactions[link.reversal])
    BY <2>1 DEF LinksCancel
  <2>3. ASSUME NEW t \in TxIds, IsPosted(db, t)
        PROVE  /\ db.transactions[t].state = "VOIDED"
                    <=> Cardinality({link \in db.reversals : link.original = t}) = 1
               /\ db.transactions[t].kind = "REVERSAL"
                    <=> Cardinality({link \in db.reversals : link.reversal = t}) = 1
    <3>1. ASSUME NEW S \in SUBSET db.reversals, \A one, other \in S : one = other
          PROVE  Cardinality(S) = 1 <=> S # {}
      <4>1. CASE S = {}
        BY <4>1, FS_EmptySet
      <4>2. CASE S # {}
        <5>1. PICK link : link \in S
          BY <4>2
        <5>2. S = {link}
          BY <3>1, <5>1
        <5> QED
          BY <4>2, <5>2, FS_Singleton
      <4> QED
        BY <4>1, <4>2
    <3>2. /\ \A one, other \in {link \in db.reversals : link.original = t} : one = other
          /\ \A one, other \in {link \in db.reversals : link.reversal = t} : one = other
      BY <2>1 DEF LinksWhole
    <3>3. /\ db.transactions[t].state = "VOIDED"
               <=> {link \in db.reversals : link.original = t} # {}
          /\ db.transactions[t].kind = "REVERSAL"
               <=> {link \in db.reversals : link.reversal = t} # {}
      BY <2>1, <2>3 DEF LinksWhole
    <3> QED
      BY <3>1, <3>2, <3>3
  <2>4. ASSUME NEW link \in db.reversals
        PROVE  IsPosted(db, link.original) /\ IsPosted(db, link.reversal)
    BY <2>1 DEF LinksWhole
  <2> QED
    BY <2>2, <2>3, <2>4 DEF ReversedExactlyOnce, Cancels
<1> QED
  BY <1>1, EffectInvariance, PTL

(* A step that makes something newly posted, or turns a draft, is a commit *)
(* of what the lock holder built.                                          *)
LEMMA OnlyCommitsPost ==
    ASSUME LedgerInv, [Next]_vars
    PROVE  \/ db' = work
           \/ \A t \in TxIds : IsPosted(db', t) => IsPosted(db, t)
<1>1. CASE db' = db \/ db' = work
  BY <1>1
<1>2. CASE \E r \in Requests : RecordFailure(r)
  <2>1. PICK r \in Requests : RecordFailure(r)
    BY <1>2
  <2>2. db' = Audited(db, requests[r].command, "FAILURE", Null) /\ db \in Stores
    BY <2>1 DEF RecordFailure, Released, LedgerInv, TypeOK
  <2>3. db'.transactions = db.transactions
    BY <2>2 DEF Audited, Stores
  <2> QED
    BY <2>3 DEF IsPosted
<1>3. CASE Beside
  <2>1. PICK s \in Stores : Released(s) /\ \A t \in TxIds : IsPosted(s, t) <=> IsPosted(db, t)
    BY <1>3, BesideKeeps
  <2>2. db' = s
    BY <2>1 DEF Released
  <2> QED
    BY <2>1, <2>2
<1>4. ASSUME NEW r \in Requests, Step(r), ~RecordFailure(r)
      PROVE  db' = db \/ db' = work
  BY <1>4
  DEF Step, LookUp, Reserve, PerformPosting, PostTo, PerformReversal, ReverseTo, Refuse,
      FailureUnrecorded, ReadCreateDraft, ReadUpdateDraft, ReadDiscardDraft,
      WriteCreateDraft, WriteUpdateDraft, WriteDiscardDraft, LockTimeout, Answer, Leave,
      Commit, DatabaseUntouched, Locked, Released
<1>5. ASSUME \/ \E r \in Requests : \E c \in Commands : Submit(r, c)
             \/ Crash \/ UNCHANGED vars
      PROVE  db' = db
  BY <1>5 DEF Submit, Crash, DatabaseUntouched, Released, vars
<1> QED
  BY <1>1, <1>2, <1>3, <1>4, <1>5 DEF Next

(* Nothing is posted on an account or category that is archived when the   *)
(* posting is committed.                                                   *)
THEOREM ArchivedStaysUnused == Spec => NoNewUseOfArchived
<1>1. ASSUME LedgerInv, EffectInv, [Next]_vars
      PROVE  [\A t \in TxIds : ~IsPosted(db, t) /\ IsPosted(db', t) =>
                LET row == db'.transactions[t]
                IN  row.kind # "REVERSAL" =>
                        \A i \in 1..2 : InUse(db, row.entries[i].target)]_db
  <2>1. CASE db' = work
    BY <2>1, <1>1 DEF EffectInv, UsesActive
  <2>2. CASE \A t \in TxIds : IsPosted(db', t) => IsPosted(db, t)
    BY <2>2
  <2> QED
    BY <1>1, <2>1, <2>2, OnlyCommitsPost
<1> QED
  BY <1>1, EffectInvariance, PTL DEF Spec, NoNewUseOfArchived

(* A draft that is posted moves what it said when it was posted.           *)
THEOREM DraftsMoveAsSaid == Spec => PostedAsDrafted
<1>1. ASSUME LedgerInv, EffectInv, [Next]_vars
      PROVE  [\A t \in TxIds : IsDraft(db, t) /\ IsPosted(db', t) =>
                MovesAsDrafted(db.transactions[t], db.drafts[t], db'.transactions[t])]_db
  <2>1. CASE db' = work
    BY <2>1, <1>1 DEF EffectInv, MovesDrafts
  <2>2. CASE \A t \in TxIds : IsPosted(db', t) => IsPosted(db, t)
    BY <2>2 DEF IsDraft, IsPosted, PostedStates
  <2> QED
    BY <1>1, <2>1, <2>2, OnlyCommitsPost
<1> QED
  BY <1>1, EffectInvariance, PTL DEF Spec, PostedAsDrafted
=============================================================================
