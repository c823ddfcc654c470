--------------------------- MODULE SpecLifecycle ----------------------------
(***************************************************************************)
(* The records of specs: spec_lifecycle.py, a command line that agents and *)
(* cleanups run beside each other.  Every read and every replacement of a  *)
(* file is a step; the lock "specs" is held for one replacement, the lock  *)
(* "specs-history" while a number is found and its record written, while   *)
(* ids are migrated, and for the replacement of _history.md.  Events,      *)
(* dates and the briefs of specs/drafts are left out; of a PR number it    *)
(* counts whether there is one; texts are told apart by the spec they are  *)
(* of.                                                                     *)
(***************************************************************************)
EXTENDS Integers

CONSTANTS
    Slugs, Actors, Nil, Blank,
    MaxNumber,  \* bound of the spec numbers
    Legacy,     \* slugs whose record is kept under the slug, as of old
    Hint,       \* the number that the ledger row of a legacy record names
    Anchored,   \* ids whose decisions D-NNN- are cited in the tree
    Landed,     \* slugs whose branch is or gets merged
    VerbSets    \* the verbs of a behaviour

Numbers == 1..MaxNumber
Keys == Numbers \cup Slugs

ASSUME LifecycleAssumption ==
    /\ MaxNumber \in Nat /\ Legacy \subseteq Slugs /\ Slugs \cap Numbers = {}
    /\ Hint \in [Legacy -> Numbers]
    /\ Nil \notin Keys \cup Actors /\ Blank \notin Slugs

VARIABLES
    sidecars,  \* state/specs/<key>.json, or Nil
    rows,      \* the ids in the table of _history.md
    archive,   \* archive/<key>-<slug>/, or Nil
    slot,      \* spec.md, the id of its frontmatter if it has one, and plan.md
    loose,     \* the stray files specs/spec-NNN-<slug>.md
    aged,      \* slugs whose record has outlived its retention
    lock,      \* who holds "specs-history", or Nil
    acts,      \* what each actor runs
    verbs      \* the member of VerbSets

files == <<sidecars, rows, archive, slot, loose>>
lifecycleVars == <<files, aged, lock, acts, verbs>>

Legal ==
    [draft |-> {"approved", "abandoned"}, approved |-> {"in_progress", "abandoned"},
     in_progress |-> {"shipped", "abandoned"}, shipped |-> {"archived"},
     abandoned |-> {"archived"}, archived |-> {}]
States == DOMAIN Legal
Open == {"draft", "approved", "in_progress"}

(* pr: whether the record names a PR, which "-" does not.                  *)
Records == [id : Keys, slug : Slugs, state : States, branch : BOOLEAN, pr : BOOLEAN]
Texts == Slugs \cup {Blank}
Slots == [spec : Texts, id : Keys \cup {Nil}, plan : Texts]
EmptySlot == [spec |-> Blank, id |-> Nil, plan |-> Blank]
Filings == [spec : Texts \cup {Nil}, plan : Texts \cup {Nil}]

ASSUME NilAssumption == Nil \notin Records \cup Filings

(* "alone" - nothing else ran since the verb began - is read by no code.   *)
Idle ==
    [pc |-> "idle", verb |-> Nil, slug |-> Nil, record |-> Nil, next |-> Nil, todo |-> {},
     known |-> {}, text |-> EmptySlot, fresh |-> FALSE, alone |-> FALSE]

Present == {k \in Keys : sidecars[k] # Nil}
Finds(k) ==
    IF sidecars[k] # Nil THEN {sidecars[k]}
    ELSE {r \in {sidecars[j] : j \in Present} : r.slug = k}

LifecycleInit ==
    /\ \E state \in [Legacy -> {"approved", "shipped", "archived"}], pr \in BOOLEAN :
         sidecars = [k \in Keys |->
            IF k \in Legacy
            THEN [id |-> k, slug |-> k, state |-> state[k], branch |-> TRUE,
                  pr |-> pr /\ state[k] = "shipped"]
            ELSE Nil]
    /\ rows = {Hint[s] : s \in Legacy}
    /\ archive = [d \in Keys \X Slugs |-> Nil]
    /\ slot = EmptySlot
    /\ loose = {} /\ aged = {} /\ lock = Nil
    /\ acts = [p \in Actors |-> Idle]
    /\ verbs \in VerbSets

-----------------------------------------------------------------------------
Busy(p) == acts[p].pc # "idle"
Goes(p, call) == acts' = [acts EXCEPT ![p] = call]
To(p, pc) == acts' = [acts EXCEPT ![p].pc = pc]

(* Every actor that is under way has company from here on.                 *)
Begins(p, verb, call) ==
    /\ ~Busy(p) /\ verb \in verbs
    /\ acts' = [q \in Actors |->
                  IF q = p THEN [call EXCEPT !.verb = verb,
                                             !.alone = \A r \in Actors \ {p} : ~Busy(r)]
                  ELSE [acts[q] EXCEPT !.alone = FALSE]]
    /\ UNCHANGED <<files, aged, lock, verbs>>

Walks == {"consolidate_shipped", "reconcile_merged", "reconcile_all"}

(* What a call goes on with when a record is done.                         *)
Back(call) ==
    IF call.verb \in Walks THEN [call EXCEPT !.pc = "walking", !.record = Nil, !.fresh = FALSE]
    ELSE Idle

-----------------------------------------------------------------------------
(* start_new                                                               *)
StartNew(p, s) ==
    /\ \A k \in Present : sidecars[k].slug # s
    /\ Begins(p, "start_new", [Idle EXCEPT !.pc = "minting", !.slug = s])

(* The numbers of sidecars, ledger rows and archive directories.           *)
Recorded ==
    Numbers \cap ({sidecars[k].id : k \in Present} \cup rows
                    \cup {k \in Numbers : \E s \in Slugs : archive[k, s] # Nil})
IsNext(n) ==
    /\ \A m \in Recorded : m < n
    /\ n = 1 \/ n - 1 \in Recorded

Drafted(n, slug) ==
    [id |-> n, slug |-> slug, state |-> "draft", branch |-> FALSE, pr |-> FALSE]
Takes(p, n) ==
    Goes(p, [acts[p] EXCEPT !.pc = "minted", !.record = Drafted(n, acts[p].slug)])

(* Fault: the slug is not looked for again under the lock. *)
MintUnchecked(p) ==
    /\ acts[p].pc = "minting" /\ lock = Nil
    /\ \E n \in Numbers : IsNext(n) /\ Takes(p, n)
    /\ lock' = p
    /\ UNCHANGED <<files, aged, verbs>>

Mint(p) ==
    /\ acts[p].pc = "minting" /\ lock = Nil
    /\ \/ /\ \E k \in Present : sidecars[k].slug = acts[p].slug
          /\ Goes(p, Idle)
          /\ UNCHANGED lock
       \/ /\ \A k \in Present : sidecars[k].slug # acts[p].slug
          /\ \E n \in Numbers : IsNext(n) /\ Takes(p, n)
          /\ lock' = p
    /\ UNCHANGED <<files, aged, verbs>>

WriteMinted(p) ==
    /\ acts[p].pc = "minted"
    /\ sidecars' = [sidecars EXCEPT ![acts[p].record.id] = acts[p].record]
    /\ lock' = Nil
    /\ Goes(p, Idle)
    /\ UNCHANGED <<rows, archive, slot, loose, aged, verbs>>

-----------------------------------------------------------------------------
(* approve, start and archive: a record is read, moved and written; the    *)
(* file named is that of the id inside.                                    *)
Target == [approve |-> "approved", start |-> "in_progress", archive |-> "archived"]

Move(p, verb, k) ==
    \E r \in Finds(k) :
        /\ Target[verb] \in Legal[r.state]
        /\ Begins(p, verb,
              [Idle EXCEPT !.pc = "writing", !.record = [r EXCEPT !.state = Target[verb]],
                           !.next = IF verb = "archive" THEN "idle" ELSE "mirroring"])

WriteState(p) ==
    LET call == acts[p] IN
    /\ call.pc = "writing"
    /\ sidecars' = [sidecars EXCEPT ![call.record.id] = call.record]
    /\ Goes(p, IF call.next = "idle" THEN Idle ELSE [call EXCEPT !.pc = call.next])
    /\ UNCHANGED <<rows, archive, slot, loose, aged, lock, verbs>>

(* _mirror_frontmatter_status: the text is read, its status line replaced, *)
(* and the whole of it written back.                                       *)
MirrorRead(p) ==
    LET call == acts[p] IN
    /\ call.pc = "mirroring"
    /\ Goes(p, IF slot.spec # Blank /\ (slot.id = call.record.id \/ slot.spec = call.record.slug)
               THEN [call EXCEPT !.pc = "mirrored", !.text = slot]
               ELSE Idle)
    /\ UNCHANGED <<files, aged, lock, verbs>>

MirrorWrite(p) ==
    /\ acts[p].pc = "mirrored"
    /\ slot' = [slot EXCEPT !.spec = acts[p].text.spec, !.id = acts[p].text.id]
    /\ Goes(p, Idle)
    /\ UNCHANGED <<sidecars, rows, archive, loose, aged, lock, verbs>>

-----------------------------------------------------------------------------
(* mark_shipped, called by name or from a walk.  A shipped record is only  *)
(* refreshed (when PR or branch differ) and rendered again; no way leads   *)
(* from abandoned or archived.  /ai-pr knows the PR; a walk asks gh and    *)
(* the table for it, and passes "-" when neither has it, also for a branch *)
(* that is not known, which nothing reads of a shipped record.             *)
Shipping(call, r, pr, pc) ==
    [call EXCEPT !.pc = pc, !.next = "rendering", !.fresh = r.state # "shipped",
                 !.record = [r EXCEPT !.state = "shipped", !.branch = TRUE, !.pr = pr]]

Ships(r, pr) ==
    IF r.state \in Open THEN {"writing"}
    ELSE IF r.state = "shipped" THEN {"writing"} \cup (IF r.pr = pr THEN {"rendering"} ELSE {})
    ELSE {}

MarkShipped(p, k) ==
    \E r \in Finds(k) : \E pc \in Ships(r, TRUE) :
        Begins(p, "mark_shipped", Shipping(Idle, r, TRUE, pc))

(* _render_history: the table is read before the lock is asked for.        *)
RenderRead(p) ==
    /\ acts[p].pc = "rendering"
    /\ Goes(p, [acts[p] EXCEPT !.pc = "rendered",
                   !.known = rows \cup (IF acts[p].record = Nil THEN {}
                                        ELSE {acts[p].record.id})])
    /\ UNCHANGED <<files, aged, lock, verbs>>

RenderWrite(p) ==
    LET call == acts[p] IN
    /\ call.pc = "rendered" /\ lock = Nil
    /\ rows' = call.known
    /\ Goes(p, IF call.fresh THEN [call EXCEPT !.pc = "peeking"] ELSE Back(call))
    /\ UNCHANGED <<sidecars, archive, slot, loose, aged, lock, verbs>>

(* _snapshot_and_reset: the text, then the id of the frontmatter, are read *)
(* from spec.md; plan.md is taken as it is.                                *)
Peek(p) ==
    LET call == acts[p] IN
    /\ call.pc = "peeking"
    /\ Goes(p, IF slot.spec = Blank THEN Back(call)
               ELSE [call EXCEPT !.pc = "checking", !.text = slot])
    /\ UNCHANGED <<files, aged, lock, verbs>>

(* Fault: the slot is taken for the shipped spec's, whatever it holds. *)
CheckNothing(p) ==
    /\ acts[p].pc = "checking"
    /\ To(p, "archiving")
    /\ UNCHANGED <<files, aged, lock, verbs>>

CheckOwner(p) ==
    LET call == acts[p] IN
    /\ call.pc = "checking"
    /\ Goes(p, IF slot.id \in {Nil, call.record.id} THEN [call EXCEPT !.pc = "archiving"]
               ELSE Back(call))
    /\ UNCHANGED <<files, aged, lock, verbs>>

Filed(d) == IF archive[d] # Nil THEN archive[d] ELSE [spec |-> Nil, plan |-> Nil]
Directory(r) == <<r.id, r.slug>>

ArchiveSpec(p) ==
    LET call == acts[p] d == Directory(call.record) IN
    /\ call.pc = "archiving"
    /\ archive' = [archive EXCEPT ![d] = [Filed(d) EXCEPT !.spec = call.text.spec]]
    /\ To(p, "planning")
    /\ UNCHANGED <<sidecars, rows, slot, loose, aged, lock, verbs>>

ArchivePlan(p) ==
    /\ acts[p].pc = "planning"
    /\ archive' = [archive EXCEPT ![Directory(acts[p].record)].plan = slot.plan]
    /\ To(p, "resetting")
    /\ UNCHANGED <<sidecars, rows, slot, loose, aged, lock, verbs>>

ResetSpec(p) ==
    /\ acts[p].pc = "resetting"
    /\ slot' = [slot EXCEPT !.spec = Blank, !.id = Nil]
    /\ To(p, "clearing")
    /\ UNCHANGED <<sidecars, rows, archive, loose, aged, lock, verbs>>

ResetPlan(p) ==
    /\ acts[p].pc = "clearing"
    /\ slot' = [slot EXCEPT !.plan = Blank]
    /\ Goes(p, Back(acts[p]))
    /\ UNCHANGED <<sidecars, rows, archive, loose, aged, lock, verbs>>

-----------------------------------------------------------------------------
(* sweep, and the verbs that walk over all records (in any order).         *)
Sweep(p, verb) ==
    /\ verb \in {"sweep", "consolidate_shipped"}
    /\ Begins(p, verb, [Idle EXCEPT !.pc = "sweeping", !.todo = Present, !.known = rows])

(* On a protected branch a sweep does nothing, a consolidation goes on;    *)
(* the reconciliations start here, migrate-history is a bare rendering.    *)
Walk(p, verb) ==
    \/ verb \in Walks /\ Begins(p, verb, [Idle EXCEPT !.pc = "listing"])
    \/ verb = "migrate-history" /\ Begins(p, verb, [Idle EXCEPT !.pc = "rendering"])

(* A merged branch, when git or gh is asked and sees it.                   *)
Merged(r, seen) == seen /\ r.branch /\ r.slug \in Landed

FiledUnder(slug) == {k \in Numbers : archive[k, slug] # Nil}
(* Fault: a row of the ledger is no sign that a spec has shipped. *)
FiledOnly(r, known) == \E k \in Keys : FiledUnder(r.slug) = {k}

OnDisk(r, known) ==
    \/ r.id \in known \cup Anchored
    \/ \E k \in Keys : FiledUnder(r.slug) = {k}
Evidence(r, known, seen) == OnDisk(r, known) \/ Merged(r, seen)

(* check_ledger: a shipped record with neither a PR nor evidence on disk,  *)
(* or an open one that has an archive directory.                           *)
Flagged(r) ==
    IF r.state = "shipped" THEN ~r.pr /\ ~OnDisk(r, rows)
    ELSE r.state \in Open /\ \E k \in Keys : FiledUnder(r.slug) = {k}

Skips(p, k) == Goes(p, [acts[p] EXCEPT !.todo = @ \ {k}])
Abandons(p, k, next) ==
    Goes(p, [acts[p] EXCEPT !.todo = @ \ {k}, !.pc = "writing", !.next = next,
                            !.record = [sidecars[k] EXCEPT !.state = "abandoned"]])

SweepNext(p) ==
    /\ acts[p].pc = "sweeping"
    /\ \E k \in acts[p].todo, seen \in BOOLEAN :
         LET r == sidecars[k]
             stale == r # Nil /\ r.state = "draft" /\ r.slug \in aged
         IN  IF stale /\ ~Evidence(r, acts[p].known, seen)
             THEN Abandons(p, k, "sweeping") ELSE Skips(p, k)
    /\ UNCHANGED <<files, aged, lock, verbs>>

(* _reap_orphans; reaping may be off, and a file may come too late.        *)
Reap(p) ==
    /\ acts[p].pc = "sweeping" /\ acts[p].todo = {}
    /\ \E k \in Numbers, s \in Slugs :
         /\ <<k, s>> \in loose
         /\ loose' = loose \ {<<k, s>>}
         /\ archive' = [archive EXCEPT ![<<k, s>>] = [Filed(<<k, s>>) EXCEPT !.spec = s]]
    /\ UNCHANGED <<sidecars, rows, slot, aged, lock, acts, verbs>>

SweepEnd(p) ==
    /\ acts[p].pc = "sweeping" /\ acts[p].todo = {}
    /\ Goes(p, IF acts[p].verb = "sweep" THEN Idle ELSE [acts[p] EXCEPT !.pc = "listing"])
    /\ UNCHANGED <<files, aged, lock, verbs>>

ListRows(p) ==
    /\ acts[p].pc = "listing"
    /\ Goes(p, [acts[p] EXCEPT !.pc = "walking", !.known = rows, !.todo = Present])
    /\ UNCHANGED <<files, aged, lock, verbs>>

ConsolidateNext(p) ==
    /\ acts[p].pc = "walking" /\ acts[p].verb = "consolidate_shipped"
    /\ \E k \in acts[p].todo :
         LET r == sidecars[k] IN
         IF r # Nil /\ r.state = "shipped" /\ r.id \notin acts[p].known
         THEN Goes(p, [acts[p] EXCEPT !.todo = @ \ {k}, !.pc = "rendering", !.record = r])
         ELSE Skips(p, k)
    /\ UNCHANGED <<files, aged, lock, verbs>>

ReconcileMergedNext(p) ==
    /\ acts[p].pc = "walking" /\ acts[p].verb = "reconcile_merged"
    /\ \E k \in acts[p].todo, seen \in BOOLEAN :
         LET r == sidecars[k] IN
         IF /\ r # Nil /\ r.state \in Open /\ r.id \notin acts[p].known
            /\ Merged(r, seen)
         THEN Goes(p, [acts[p] EXCEPT !.todo = @ \ {k}, !.pc = "calling", !.record = r])
         ELSE Skips(p, k)
    /\ UNCHANGED <<files, aged, lock, verbs>>

ReconcileAllNext(p) ==
    /\ acts[p].pc = "walking" /\ acts[p].verb = "reconcile_all"
    /\ \E k \in acts[p].todo, seen \in BOOLEAN :
         LET r == sidecars[k]
             shipped == Evidence(r, acts[p].known, seen)
         IN  IF r = Nil \/ r.state \notin Open THEN Skips(p, k)
             ELSE IF shipped
             THEN Goes(p, [acts[p] EXCEPT !.todo = @ \ {k}, !.pc = "calling", !.record = r])
             ELSE IF r.slug \in aged THEN Abandons(p, k, "walking") ELSE Skips(p, k)
    /\ UNCHANGED <<files, aged, lock, verbs>>

(* mark_shipped reads the record anew, by its id; an error ends the walk.  *)
CallShip(p) ==
    LET call == acts[p] IN
    /\ call.pc = "calling"
    /\ \/ \E r \in Finds(call.record.id), pr \in BOOLEAN : \E pc \in Ships(r, pr) :
             Goes(p, Shipping(call, r, pr, pc))
       \/ (\A r \in Finds(call.record.id) : Ships(r, TRUE) = {}) /\ Goes(p, Idle)
    /\ UNCHANGED <<files, aged, lock, verbs>>

WalkEnd(p) ==
    /\ acts[p].pc = "walking" /\ acts[p].todo = {}
    /\ Goes(p, Idle)
    /\ UNCHANGED <<files, aged, lock, verbs>>

-----------------------------------------------------------------------------
(* migrate_ids: the record gets its number, then its file is moved; it     *)
(* never takes the file of another.                                        *)
Migrate(p) == Begins(p, "migrate_ids", [Idle EXCEPT !.pc = "locking"])

MigrateLock(p) ==
    /\ acts[p].pc = "locking" /\ lock = Nil
    /\ lock' = p
    /\ Goes(p, [acts[p] EXCEPT !.pc = "migrating", !.todo = Present])
    /\ UNCHANGED <<files, aged, verbs>>

MigrateNext(p) ==
    /\ acts[p].pc = "migrating"
    /\ \E k \in acts[p].todo :
         LET r == sidecars[k] IN
         IF r # Nil /\ r.id \in Legacy /\ sidecars[Hint[r.slug]] = Nil
         THEN Goes(p, [acts[p] EXCEPT !.todo = @ \ {k}, !.pc = "renaming",
                                      !.record = [r EXCEPT !.id = Hint[r.slug]]])
         ELSE Skips(p, k)
    /\ UNCHANGED <<files, aged, lock, verbs>>

RenameWrite(p) ==
    /\ acts[p].pc = "renaming"
    /\ sidecars' = [sidecars EXCEPT ![acts[p].record.slug] = acts[p].record]
    /\ To(p, "renamed")
    /\ UNCHANGED <<rows, archive, slot, loose, aged, lock, verbs>>

RenameMove(p) ==
    LET r == acts[p].record IN
    /\ acts[p].pc = "renamed"
    /\ sidecars' = [sidecars EXCEPT ![r.id] = sidecars[r.slug], ![r.slug] = Nil]
    /\ To(p, "migrating")
    /\ UNCHANGED <<rows, archive, slot, loose, aged, lock, verbs>>

MigrateEnd(p) ==
    /\ acts[p].pc = "migrating" /\ acts[p].todo = {}
    /\ lock' = Nil
    /\ Goes(p, Idle)
    /\ UNCHANGED <<files, aged, verbs>>

-----------------------------------------------------------------------------
(* A process dies, or ends on an error; its lock goes with it.             *)
Die(p) ==
    /\ Busy(p)
    /\ Goes(p, Idle)
    /\ lock' = IF lock = p THEN Nil ELSE lock
    /\ UNCHANGED <<files, aged, verbs>>

(* /ai-brainstorm and /ai-plan fill the slot, when slot_status reports it  *)
(* idle or shipped, and not while verbs run.  The text of a draft may have *)
(* no id in its frontmatter, or none of the form spec-NNN.                 *)
SlotFree ==
    slot.spec = Blank \/ (slot.id # Nil /\ \E r \in Finds(slot.id) : r.state = "shipped")
WriteSpec(k, id) ==
    /\ \A p \in Actors : ~Busy(p)
    /\ id \in {k, Nil}
    /\ sidecars[k] # Nil /\ sidecars[k].state = "draft" /\ sidecars[k].id = k
    /\ SlotFree
    /\ slot' = [spec |-> sidecars[k].slug, id |-> id, plan |-> Blank]
    /\ UNCHANGED <<sidecars, rows, archive, loose, aged, lock, acts, verbs>>

WritePlan ==
    /\ \A p \in Actors : ~Busy(p)
    /\ slot.spec # Blank /\ slot.plan # slot.spec
    /\ slot' = [slot EXCEPT !.plan = slot.spec]
    /\ UNCHANGED <<sidecars, rows, archive, loose, aged, lock, acts, verbs>>

Stray(k) ==
    /\ sidecars[k] # Nil /\ <<k, sidecars[k].slug>> \notin loose /\ "sweep" \in verbs
    /\ loose' = loose \cup {<<k, sidecars[k].slug>>}
    /\ UNCHANGED <<sidecars, rows, archive, slot, aged, lock, acts, verbs>>

Age(s) ==
    /\ \E k \in Present : sidecars[k].slug = s /\ sidecars[k].state \in Open
    /\ s \notin aged /\ verbs \cap {"sweep", "consolidate_shipped", "reconcile_all"} # {}
    /\ aged' = aged \cup {s}
    /\ UNCHANGED <<files, lock, acts, verbs>>

LifecycleNext ==
    \/ \E p \in Actors :
         \/ \E s \in Slugs : StartNew(p, s)
         \/ Mint(p) \/ WriteMinted(p)
         \/ \E k \in Keys : \/ \E verb \in DOMAIN Target : Move(p, verb, k)
                            \/ MarkShipped(p, k)
         \/ WriteState(p) \/ MirrorRead(p) \/ MirrorWrite(p)
         \/ RenderRead(p) \/ RenderWrite(p)
         \/ Peek(p) \/ CheckOwner(p) \/ ArchiveSpec(p) \/ ArchivePlan(p)
         \/ ResetSpec(p) \/ ResetPlan(p)
         \/ \E verb \in verbs : Sweep(p, verb) \/ Walk(p, verb)
         \/ SweepNext(p) \/ Reap(p) \/ SweepEnd(p)
         \/ ListRows(p) \/ ConsolidateNext(p) \/ ReconcileMergedNext(p) \/ ReconcileAllNext(p)
         \/ CallShip(p) \/ WalkEnd(p)
         \/ Migrate(p) \/ MigrateLock(p) \/ MigrateNext(p) \/ RenameWrite(p) \/ RenameMove(p)
         \/ MigrateEnd(p)
         \/ Die(p)
    \/ \E k \in Numbers : WriteSpec(k, k) \/ WriteSpec(k, Nil) \/ Stray(k)
    \/ WritePlan
    \/ \E s \in Slugs : Age(s)

LifecycleSpec == LifecycleInit /\ [][LifecycleNext]_lifecycleVars

-----------------------------------------------------------------------------
(* Old specs whose number is found for another of them, too.               *)
Shared == {s \in Legacy : \E t \in Legacy \ {s} : Hint[t] = Hint[s]}

(* D-153-01, D-153-05: a number names one spec and a spec has one number,  *)
(* however starts, migrations, deaths and writes of records read long ago  *)
(* interleave (an old record may be written back under its slug).  Of old  *)
(* specs for which migrate_ids finds the same number (two rows of a title) *)
(* each may get it, when a migration dies before it has moved the file of  *)
(* the first; the records of such specs are theirs alone to confuse.       *)
OneNumberPerSpec ==
    \A j, k \in Present :
        LET a == sidecars[j] b == sidecars[k] IN
        /\ a.id = b.id => a.slug = b.slug \/ {a.slug, b.slug} \subseteq Shared
        /\ a.slug = b.slug /\ {a.id, b.id} \subseteq Numbers
             => a.id = b.id \/ a.slug \in Shared

(* The record of k has the file of its id, and is the spec's only one.     *)
Sole(k) ==
    /\ sidecars[k].id = k /\ sidecars[k].slug \notin Shared
    /\ \A j \in Present : sidecars[j].slug = sidecars[k].slug => j = k

(* What overlapping verbs and deaths leave behind, one cleanup that runs   *)
(* alone and to its end settles.  After consolidate_shipped every shipped  *)
(* record has its row (a row may have been lost to a rendering of an older *)
(* table, or never written), so that check_ledger, which gates the build,  *)
(* flags none of them.  After reconcile_all it flags no open record, and   *)
(* none is open that a row or a cited decision shows to have shipped; but  *)
(* a record whose writer died after shipping it without a PR and before    *)
(* its row is still flagged: reconcile_all passes shipped records by.      *)
CleanupSettles ==
    \A p \in Actors :
        acts[p].alone /\ acts[p].pc = "walking" /\ acts[p].todo = {} =>
          \A k \in Present :
            LET r == sidecars[k] IN
            /\ acts[p].verb = "consolidate_shipped" /\ r.state = "shipped"
                 => r.id \in rows /\ ~Flagged(r)
            /\ acts[p].verb = "reconcile_all" /\ r.state \in Open /\ Sole(k)
                 => ~Flagged(r) /\ r.id \notin rows \cup Anchored

(* D-153-04, D-153-03: spec.md is cleared only when its text is in the     *)
(* archive under its own number, though the record shipped may be          *)
(* another's and two calls may ship at once.  A text without a number is   *)
(* filed with the record that happens to be shipped, whosever it is, and   *)
(* is there when it is cleared unless a stray file of that record's own    *)
(* text has been moved over it meanwhile.                                  *)
ClearedOnceArchived ==
    [][slot.spec # Blank /\ slot'.spec = Blank =>
         IF slot.id # Nil
         THEN \E s \in Slugs : archive[slot.id, s] # Nil /\ archive[slot.id, s].spec = slot.spec
         ELSE \E p \in Actors :
                LET r == acts[p].record filed == archive[Directory(r)] IN
                /\ acts[p].pc = "resetting"
                /\ filed # Nil /\ filed.spec \in {slot.spec, r.slug}]_lifecycleVars
=============================================================================
