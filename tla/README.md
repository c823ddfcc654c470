# A formal model of personalFinance

TLA+ modules, TLC runs and TLAPS proofs for the program in `src/`: a household
finance application (FastAPI, SQLAlchemy and SQLite behind a React page) that
keeps a double-entry ledger, reconciles accounts against bank balances, backs
itself up once a day and audits what it did; and for the framework that governs
the repository's agents, as far as it keeps state (`src/.ai-engineering/`).
Paths below are relative to `src/backend/app/` unless they begin with another
directory.

## 1. Inventory

| Part | State it keeps | Operations | Interacts with |
|---|---|---|---|
| **Ledger commands** `ledger/application/handlers.py`, `reversal.py` | none; each request has one unit of work (`shared/unit_of_work.py`) | `create_draft`, `update_draft`, `discard_draft`, `post_draft`, `create_opening`, `create_income`, `create_expense`, `create_transfer`, `reverse` | idempotency store, ledger repository, audit sink, all in one SQLite transaction; a failure is audited in a second one |
| **Posting recipes** `ledger/domain/` | none | entries of each kind, reversal entries, posting checks | called by the commands |
| **Ledger store** `ledger/adapters/repositories.py`, `shared/models_ledger.py`, migrations 0001 and 0002 | accounts, categories, transactions, entries, draft details, reversals | row operations; unique constraints; triggers that keep posted rows | SQLite's single write lock |
| **Idempotency** `shared/idempotency.py` | one row per key: command, payload hash, result | reserve, complete | inside the command's transaction |
| **Catalogue** `ledger/application/catalog.py` | accounts and categories | create, rename, archive, unarchive | checked by every posting |
| **Reconciliation** `reconciliation/` | reconciliations and their entry memberships | list candidates, preview, complete | reads posted entries; moves transactions to RECONCILED (`ledger/application/state_projection.py`) |
| **Backup and restore** `recovery/` | backup runs by date, files in the backup directory | run once a day, prune to the newest copies, stage and publish a restore | database file, directory, alembic, audit |
| **Identity** `identity/` | one user, login attempts, sessions | bootstrap, login, logout, credential reset by CLI | every request checks its session |
| **Audit** `audit/` | append-only events | append in a caller's transaction, cursor-paged reading | every part above |
| **Reporting** `reporting/` | none | economic result, cash flow, net worth | reads the ledger |
| **Frontend** `src/frontend/src/` | form drafts, retry keys, request versions | save, update and post a draft; reconcile; session | the HTTP API, over a network that loses answers |
| **Governance framework** `src/.ai-engineering/scripts/` | records of specs, an event log, retries of the Stop hook, what was learnt, the health of MCP servers: files of the project or the user | verbs of a command line; hooks at each step of an agent | hooks of several sessions at once, each a process, over the same files |

What is hard here. The application has no queue and no background thread:
concurrency is HTTP requests in a thread pool, each with its own SQLAlchemy
session, over one SQLite database in WAL mode. `shared/database.py` opens transactions lazily, so
every `SELECT` before a unit of work's first write reads whatever is committed
at that moment, and only the first write takes the one write lock (or fails
after `busy_timeout`). Every check made before that write can be stale when the
write lands. Clients retry; the process can die between any two steps; the
failure path has a transaction of its own that can fail as well. The backup works
on files and rows together, the governance hooks on files alone, most without a
lock. `PROJECT.json` lists each such hazard at its line.

What makes each part correct (sections 3 to 9 and 11 say where the code falls
short of it, and what is left):

- *ledger*: one effect per key and one answer for it; books that balance at
  every commit; history that never changes; one compensation per reversal; no
  posting on an archived account; a success is audited with its effect;
- *catalogue*: no lost update; names unique in their space;
- *reconciliation*: an entry belongs to at most one completed reconciliation;
  completed means a difference of zero; RECONCILED exactly when every
  reconcilable account entry is covered;
- *backup*: a declared copy exists and is whole; a day's failed or crashed
  attempt can be made good; the newest copies survive pruning;
- *restore*: never over an existing file, never half a file;
- *identity*: at most one user; no session outlives the credentials it was
  opened with;
- *audit*: append-only, a reader paging by cursor misses and repeats nothing;
- *frontend*: a late response never overwrites a newer one; a retry is sent
  under the key of the attempt it repeats;
- *governance*: one number per spec, one chain of events, a bound on how often an
  agent is sent back to work, evidence counted once, refusals that end.

## 2. Plan and modules

| Part | Modules | Refines | Composed and run in |
|---|---|---|---|
| Ledger | `PostingRecipes`, `LedgerStore`, `Books`, `Ledger`, `LedgerProperties`, `LedgerInvariant`, `LedgerEffects` | `AtMostOnce` | `MCLedger` |
| Ledger proofs | `LedgerStoreProofs`, `LedgerProofs`, `LedgerEffectProofs` | | |
| Reconciliation | `Reconciliation`, `ReconciliationProperties` over `LedgerStore`; `ReconciliationProofs` | `Statements` | `MCReconciliation` |
| Reports | `Reports`, functions of a store | | asked of the books of `MCReconciliation` |
| Recovery | `Backup` <- `Restore` <- `Recovery`; `RecoveryProofs` | `DailyCopies` | `MCRecovery` |
| Identity | `Identity` <- `SessionProvider`; `ServicesProofs` | | `MCServices` |
| Catalogue | `Catalogue`; `ServicesProofs` | | `MCServices` |
| Browser | `TransactionForm`, `ReconciliationPage`, `AuditPages`; `BrowserProofs` | | `MCBrowser` |
| Governance | `SpecLifecycle`, `EventChain`, `StopLoop`, `Instincts`, `McpHealth`; `GovernanceProofs` | | `MCGovernance` |

`A <- B` says that B extends A and adds steps that interleave with A's. The
parts of `MCServices`, `MCBrowser` and `MCGovernance` share no state in the
program either: an initial choice says which of them a behaviour is about.

All of these are done. What could come next: an abstract account of the
catalogue's two columns, and the reversal dialog of the movements page.

## 3. The ledger model

`PostingRecipes` translates `ledger/domain/posting_recipes.py`, `entry.py` and
the checks of `Transaction.posted`. Each recipe of the code makes two entries,
so the entries of a transaction are a pair.

`LedgerStore` has no variables. A store is a record with one field per table
(`accounts`, `categories`, `transactions`, `drafts`, `reversals`, `records`,
`audit`) and each repository method, constraint and trigger is an operator on
it. `transactions[t]` holds the row and its entries, or `Null`; `drafts[t]` is
the details row. `deleted` is no table: `uuid4` never draws the id of a
discarded draft again.

`Ledger` adds the requests. Its variables:

- `db`: what is committed;
- `holder`: the request that has SQLite's write lock, or `Null`;
- `work`: what the lock holder has made of `db`; nobody else sees it;
- `requests[r]`: the place `pc` in the handler, the command, the rows it read
  before the lock (`seen`) and its result;
- `answers`: the successes that reached a client under a key.

| `pc` | where in the code | actions |
|---|---|---|
| `reading` | before the first write | `LookUp` (`IdempotencyStore.reserve`, the `SELECT`), `ReadCreateDraft`, `ReadUpdateDraft`, `ReadDiscardDraft` |
| `writing` | at the first write | `Reserve` (the `INSERT`), `WriteCreateDraft`, `WriteUpdateDraft`, `WriteDiscardDraft`, `LockTimeout` |
| `performing` | between the reservation and the commit | `PerformPosting`, `PerformReversal`, `Refuse` |
| `committing` | `unit_of_work.commit()` | `Commit` |
| `auditing` | `_record_failure` | `RecordFailure`, `FailureUnrecorded` |
| `answering`, `failed` | the response | `Answer`, `Leave` (an error, or a lost response) |

`Crash` ends every request and keeps `db`. `SetUp`, `SetArchived` and
`Reconcile` are other services' one-transaction writers. Everything a handler
does under the lock is one action: nobody can see between its statements, and a
crash there is a rollback like any other. An update sends only the columns that
differ from the rows it read (`Emitted`, `MergedRow`, `MergedDetails`); that is
what SQLAlchemy does with a changed row, and it decides what two racing updates
leave behind.

`Books` says when a store is whole and what a later one must keep of an earlier,
whoever writes it. `LedgerProperties` states what must hold of the commands, `AtMostOnce` the service an
idempotency key promises, `LedgerInvariant` and `LedgerEffects` the inductive
invariants.
Definitions commented `Fault:` are no part of the model: they are the mistakes
each property is tried against (`PROJECT.json`, `mutants`).

### Abstractions

- One space: every query is filtered by `space_id` and no operation names two.
- Descriptions, names, hashes and timestamps are left out; a payload hash is the
  payload. Ids of entries are left out: an entry is known by its transaction.
- `Cents` are positive: `_validate_draft`, the request schemas and `Entry`
  refuse others before anything is stored.
- The validation of `update_draft` and its reading of the rows are one read
  step: both precede the write, and only what the row was matters later.
- `RoomFor` and `IdsPerCommand` bound what is sent to the ids of the instance.
- Reading endpoints are left out; the reports are functions of a store (section 5).
- A reversal that leaves a replacement draft, which no endpoint asks for, is in
  the model and in the proofs; no command set of a run sends it. After it, an edit of the replacement draft overwrites its link
  (`handlers.py:323`).

## 4. The reconciliation model

`Reconciliation` models `ReconciliationService.complete`
(`reconciliation/application/service.py`, `adapters/repository.py`) over a store
of `LedgerStore`. An entry is a transaction id and a position. Its variables:

- `books`: the committed store;
- `completed[id]`: a completed reconciliation (account, cutoff, observed
  balance, entries), or `Null`;
- `evidence`: the audit events of completions;
- `calls[p]`: the place `pc` of a caller, its request and the effect of the
  entries it selected.

| `pc` | where in the code | actions |
|---|---|---|
| `asked` | before `list_candidates` | `ReadCandidates` |
| `selected` | before `prior_completed_cents` | `ReadPrior`: the sum, and the checks of the domain object |
| `writing` | at the first `INSERT` | `Complete`, `LockTimeout` |
| `failing` | `_record_failure` | `RecordFailure`, `FailureUnrecorded` |

`Refuse` is the exception of any of the first three places. The two reads are
steps of their own because each sees what is committed at its moment; all that
`complete` does under the lock (rows, index, projection, trigger, audit,
commit) is one action, for the reason given above. The lookup for a duplicate
before the `INSERT` is part of it too: memberships are never removed, so a
duplicate it finds is one the unique index would refuse.

Ledger commands, which `Ledger` takes apart, are here what they commit:
`PostMovement` and `ReverseTransaction`. In return `Ledger` knows of
reconciliation only `Reconcile(t)`, which may mark any POSTED transaction at any
time: more than a completion does, since `ProjectionNeverMovesBack` and
`ReconciledEarned` bound it. `SetArchived` is the catalogue; no operation
changes `is_reconcilable` of an existing account, so `Reconcilable` is a
constant.

`Statements` is what this promises: facts that only grow and statements over
disjoint sets of them, each balanced to the cent up to its cutoff.

Left out: descriptions and times; a selection with repeats, which is refused
like an empty one; preview and the candidates list, which only read.

## 5. Reports

`Reports` gives the three reports of `reporting/application/queries.py` and the
balance of an account as functions of a store: each of them is one `SELECT`, so
it sees one committed store. An entry's signed cents are summed by day, by
economic date for the result and by cash date for the flow. `ReportsAgree` asks,
in every state of the reconciliation run and for every interval of its dates,
that the economic result explains the change of net worth, that receipts and
payments explain the movement of the accounts, and that a voided pair counts for
nothing. `list_accounts` computes each balance in a `SELECT` of its own
(`ledger/application/queries.py:81`), so the balances of one list may come of
different stores; nothing is claimed of such a list.

## 6. The recovery model

`Backup` takes `run_if_due` apart: claim a date (commit), copy and verify in a
staging file, replace the day's file, mark the run completed (commit), list the
copies retention gives up, remove them one by one. Between any two steps the
process may die, the disk or the database may refuse, and the other workers
move. `rows[d]` is the committed run of a date, `files[d]` what is at its path,
`attempts[w]` a process at its place `pc`, `audit` the events. `Restore` adds
`restore_isolated`: it checks source and destination, copies, migrates and
verifies a staged file and replaces the destination, while pruning may take the
source away. `Recovery` adds the status query, three `SELECT`s that may each see
another store, and the properties. `DailyCopies` is what the backup promises,
without rows and processes: a day is declared while its copy is there, and the
copy goes only when enough newer days are declared.

Two behaviours of the code the model shows that are worth knowing. A source
pruned between `is_file` and `connect` is created empty by SQLite, migrated and
declared restored; `RestoredIsDeclared` says so. The destination is checked long
before it is replaced (`restore.py:91`): with two operators on one destination
one overwrites the other. `RestoredStays` is an action property: what is at a
destination when a restore to it was reported stays that copy, and is neither
replaced by another nor withdrawn. It is asked where restores to one path follow
one another. If the clock is set back, the new backup is the oldest by date and
retention removes it; the clock of the model only goes on, so no property is
about this.

Left out: what is in a copy beyond whose day it is; the migration, which is one
step that succeeds or fails; staged files, whose names nobody else knows.

## 7. The identity and catalogue models

`Identity` has the server: `users`, `sessions[t]` (user, the password it was
proved with, valid, revoked or expired), `evidence` and `calls[p]`, a request or
command at its place. Each lookup and each commit is a step; a login verifies,
creates its session, audits and answers; logout authenticates, checks the CSRF
header, revokes, audits. `SessionProvider` adds one browser: the cookie `jar`
and the `tab` of `src/frontend/src/features/auth`, whose requests may go
unheard, whose connection may break before the headers and whose answer body
may be lost. The tab's handlers run when an answer arrives, in any order. A
cookie jar has one tab here: two tabs that share a jar, where the logout of one
clears the cookie of the other, are not covered.

What holds is what the properties say; what does not, and is therefore no
property, is this. Two overlapping bootstraps with different names both succeed,
after which `only_user` raises and nobody can reset credentials
(`identity/application/service.py:153`). A login that verified the old password
creates a session that survives the reset (`service.py:186`), which is why
`OnlyOvertakenLoginsOutliveReset` is as weak as it is. A reset on the command
line commits and then fails in the audit sink it was composed with, so it leaves
no event and reports an error. A late second logout deletes the cookie of the
next login; a logout whose request was lost still clears the tab;
`onUnauthorized` is never wired; `response.json()` outside the `try` leaves
the submit button or the first load waiting forever.

`Catalogue` takes rename, archive and unarchive apart: the handler reads the row
and builds the new value, the repository reads it again, the flush writes the
columns that differ. So of two overlapping calls one may undo the other
(`ledger/adapters/repositories.py:114`), and `FinishedChangesStay` says what is
left: a change that ended before a call began is never undone by it. At a start
of the server the starter categories are looked up and added; a renamed starter
comes back, and two racing starts meet at the unique constraint.

Left out: login throttling, password hashing, the credential version (which no
code reads), lists.

## 8. The browser models

Each page is mounted over a server whose answers come late, in any order or not
at all. `TransactionForm` follows the form of a movement with its drafts, its
retry key per mount and the requests on their way; the ledger behind it is the
at-most-once service that `Ledger` is shown to implement. `wish` numbers what
the user is trying to post and is read by no action of the page.
`ReconciliationPage` has the effects that ask again whenever the form changes,
with their flag `active`, and the request version of a completion.
`AuditPages` has the cursor-paged list beside handlers that append events whose
time was taken before their commit. `NoEventSkipped` is about the events that
were committed when the first page was read: one committed later with an earlier
time may fall behind the cursor and be skipped until the list is asked for anew.
Each of the three has a specification of its
own (`FormSpec`, `PageSpec`, `TrailSpec`), which the proofs are about.

The exception in `RetriedMovementPostsOnce` is real: the late success of an
earlier movement clears the retry key of the one being posted now
(`src/frontend/src/features/transactions/form.tsx:162`), which may then be
posted twice. Also real, and no property: creating a draft carries no key, so a
retry after a lost answer leaves two; a retry of a posting whose draft was
posted fails on the update of the draft forever; crossing saves post each
other's content; each click on completion draws a fresh key
(`src/frontend/src/app.tsx:63`), so the retry after a lost answer is refused
although the reconciliation was completed; a double click on "Cargar más" shows
a page twice, and an error hides the list for good.

Left out: what fields say, beyond being equal or not; the reversal dialog; the
transaction list; views that only render.

## 9. The governance models

Hooks and verbs are processes; a read, an emptying, a write and a replacement of
a file are steps of their own, and a process may die between them.

- `SpecLifecycle`: the verbs of `spec_lifecycle.py` on records, the table of
  `_history.md`, the archive and the slot `spec.md`/`plan.md`. Verbs read
  without a lock and write what they made of it: a shipped spec can be
  abandoned by a verb that read it earlier, although the file says that
  transitions are made under one lock (lines 15-16); overlapping renders lose
  rows; of two overlapping `mark_shipped` the second archives a placeholder
  plan. `OneNumberPerSpec`, `CleanupSettles` and `ClearedOnceArchived` say what
  is left to rely on; what they leave out is in section 11. A record knows
  whether it has a branch and whether it names a PR: `/ai-pr` passes the PR, a
  walk passes what `gh` and the table tell, or "-". The slot knows the number of
  its frontmatter, if it has one; a draft's text need not have it. The author is
  assumed not to edit while verbs run.
- `EventChain`: `framework-events.ndjson`, appended under a lock that is not
  always got, and rotated without it. A torn line swallows the next event. A hook
  emits at up to three places, what it is there for and a heartbeat; a failure of
  the first is reported to no one and the hook goes on.
- `StopLoop`: the Stop hook, its retries in `ralph-resume.json` and the checks
  of the tree; the guard after a tool notes the failures that the hook reads.
  Sessions share the file; one Stop may count twice; giving up
  deletes the file and so re-arms the loop, where a comment says the operator
  must.
- `Instincts`: observations, counts and the time of the last extraction, three
  files rewritten through one temporary sibling each. Concurrent observations
  are lost; a second replacement fails, and on the error unlinks a sibling that
  may be the next one's; what is observed later in the newest second counted is
  never counted. A text goes where the file its writer opened is by then, from
  its start and over what others wrote: of a longer one the end remains. So a
  line may come to stand twice, and be counted twice; `CountedOnce` is asked as
  long as that, an overlap of extractions or a broken one has not happened
  (`recounts`). Lines are taken as of one length, the first that remains as whole
  or broken.
- `McpHealth`: the file of server health, emptied before it is locked and
  flushed after it is unlocked. An unknown server is healthy and not probed
  until a failure of it was saved.

The instance of `McpHealth` blocks on failures (`FailOpen = FALSE`). Left out:
guards that judge one call, bridges between engines, installers, skills, events
of the verbs, trace contexts, sidecars of large events, workflows of
`Instincts`, which are recounted from all events at every extraction.

## 10. Runs

Constants are in the `.cfg` files, the command sets in the `MC` modules.

| Run | Asks | Instance |
|---|---|---|
| `ledger_retries` | Does a key have one effect, one answer and one SUCCESS event, whatever is retried, reused for another payload, crashed or archived? Is nothing posted on what is archived? Is the ledger an at-most-once service, `LedgerInv` an invariant? | two request slots, two keys, three commands, three ids |
| `ledger_reversals` | Is each reversed transaction voided by exactly one reversal that cancels it, also when a reversal is reversed or the original is reconciled? | two request slots, four ids; an opening or an expense under the first key, any transaction reversed under two further keys, reversals among them |
| `ledger_drafts` | Do the books balance and does history stay while create, update, discard and post of a draft race? Does a posting move what the draft said? Does every request end? | one draft, two payloads of two amounts, two keys; no archiving, no symmetry |
| `reconciliation_statements` | Does each completion explain its observed balance, whatever is posted, reversed or archived beside? Is it audited? Do the reports agree? | one caller, an opening and expenses of two dates, reversals |
| `reconciliation_transfers` | Is an entry reconciled once, and is a transaction RECONCILED exactly when its reconcilable entries are covered? | two callers, both sides of a transfer, an expense, reversals, no archiving |
| `reconciliation_archiving` | What is left of that when accounts come and go? | the same on two transactions, both accounts archived at any moment |
| `reconciliation_balance` | (violated) a completed balance counts all that was completed before it | two callers, two expenses |
| `recovery` | Is a declared copy there, the one restored, and what the status says? Is every outcome audited? Is the backup the store of daily copies? | two workers, one operator, two days, a retention of one |
| `recovery_crashed` | (violated) an attempt is refused as under way only while one is | two workers, no operator |
| `services` | Does a session belong to an audited login, end with its logout, and outlive a reset only as an overtaken login? Does a finished change of the catalogue stay? | two calls at a time, two names, two passwords, two sessions; two rows |
| `browser` | Is a retried movement posted once, what is shown current, a completion shown true, no event skipped? | three movements, two mounts and one that replaces a form, two requests; two accounts, two balances; four events, pages of one |
| `governance` | The properties of the five modules | two actors, two new specs and two old ones that resolve to one number; three hooks or writers of the log; two sessions; two observers with two extractions, or with one and a death; three runs around two servers |

Bounds of the ledger runs. Two keys show reuse and competition, a third lets one
transaction be reversed under two keys beside the one it was posted under; three
or four ids are the most two requests and their drafts use, two amounts tell two
payloads apart, one account of each kind tells the two recipes of an opening
apart. Every hazard found in this code is a race of two, or of one with a short
writer. The symmetry sets permute ids and request slots only where no command
names one.

Bounds of the reconciliation runs. Callers name entries of the account they ask
for, completed or not, and one of a few balances, right and wrong ones among
them. Two reconciliations suffice: each property relates at most two, and the
entries they share or miss. `StatementsSpec` is asked of one caller, because
with two it does not hold (section 11); section 12 says when it does.

Bounds of the other runs. In `recovery` the second day prunes the first, in
either order; a status request and a restore are not explored together
(`Apart`): the reader reads rows, which no restore writes. In `services` two
sessions are one and its successor. In `browser` three movements on two
mounts give an old answer, a current one and one still open; a third mount takes
the place of a form whose draft was saved or posted, with the answers that are
still to come (`LastIsIdle`). In `governance` two new specs are started where nothing but numbers is
given out, and one elsewhere (`FewStarted`): that is where two mints race. Two
old records are open where no cleanup runs, and one of the two elsewhere
(`FewOpen`); a reconciliation and a migration follow one another in either order
and do not overlap (`MigrationApart`), which the theorem does not ask. No line
of the observations comes to stand twice there: that takes a third observation,
and the theorem covers it. The runs of one hook begin in order, being alike (`InOrder`), and two at most of
those that learn, or that judge servers, overlap (`TwoAtOnce`): what is lost or
counted twice, is lost or counted between two.

Deadlock. The ledger, reconciliation, recovery and services runs check for it.
In `browser` and `governance` a behaviour ends when its bounded number of
clicks, events or hooks is used up.

Fairness. `FairSpec` of the ledger has weak fairness of each request's `Step`: a
handler is a thread the server keeps scheduling, it waits for the lock at most
`busy_timeout`, and nothing else in it blocks. Nothing is assumed of clients, of
crashes or of the writers beside. No other run states fairness: a process of the
backup or of the governance framework may be killed for good at any place, and
what must be true then is said by invariants.

## 11. Where the code does not do what is said of it

Two runs are expected to be violated; `PROJECT.json` quotes the statements.

- `reconciliation_balance`: two callers who reconcile different entries of one
  account read the same prior balance, and nothing is checked again under the
  lock. Both complete, and the second statement is wrong by the effect of the
  first.
- `recovery_crashed`: a process that dies after its claim leaves a `STARTED` row
  that nobody ever ends, and every later attempt of that date is refused as
  being under way.

Other such places, found while modelling and kept here as text:

- A draft's category is only checked to be active (`_validate_selections`,
  `handlers.py:344`), so an income can be posted on an expense category, which
  `create_income` refuses (`handlers.py:224`).
- A key of 121 to 200 characters passes the header check
  (`api/transactions.py:44`) and fails the 120 characters of an audit
  correlation id (`audit/domain/event.py:34`), on the SUCCESS event and again on
  the FAILURE event, so that nothing is recorded.
- The projection leaves archived accounts out and is never repeated: a transfer
  reconciled on one side while the other account was archived stays RECONCILED
  after that account is back (`state_projection.py:23`), and an expense whose
  account is archived between the checks and the write stays POSTED with its
  entry used up (`reconciliation/application/service.py:174`).
- `_snapshot_and_reset` is said to clear the slot only when its frontmatter
  names the shipped spec (`spec_lifecycle.py:460`); a text without an id, or with
  one that is no number, is filed and cleared with whatever record is shipped
  (line 482). `ClearedOnceArchived` therefore says of such a text only that it
  is where that record's texts are filed.
- `migrate_ids` resolves the number of each old record by itself (line 1955): two
  of one title get the same number, one after the other if it
  dies between writing the number into the first (1981) and moving its file
  (1982). `OneNumberPerSpec` exempts specs that share a number so (`Shared`).
- A process that dies after it has marked a record shipped without a PR and
  before its row (lines 545 and 546) leaves a record that `check_ledger` flags
  and `reconcile_all` passes by (line 1598); `consolidate_shipped` gives it its
  row. `CleanupSettles` says of each of the two what it settles.
- The docstring of the observation hook says that observations are never
  dropped silently; the function that appends them swallows every error.

## 12. Proofs

All theorems hold for every value of the constants under the named `ASSUME`s:
identifier sets are disjoint, dates and amounts are positive integers, the
calendar of backups is finite, and so are the ids of transactions (a `uuid4` has
128 bits), the accounts of the household and the ledger's dates (`FiniteTables`,
`FiniteCalendar`: what is added up is a finite set), `Null`, `Nothing` and `Nil` are none of the values
they stand in for (`NothingIsNoAccount`, `NilAssumption`), commands have the
shape the request schemas give them, mounts, events and pages are counted
(`FormAssumption`, `AuditPagesAssumption`). TLC evaluates each of them in the
runs. No property above is
inductive by itself: it speaks of what is committed, and what the next commit
will do depends on what somebody read or built before.

| Theorem | Says |
|---|---|
| `TypeCorrectness`, `LedgerInvariance` | `Spec => []TypeOK`, `Spec => []LedgerInv` |
| `KeysPostOnce` | `Spec => []OnePostingPerKey` |
| `AnswersStayTrue` | `Spec => []AnswersHold` |
| `BooksAlwaysBalance` | `Spec => []BooksBalance` |
| `HistoryStays` | `Spec => HistoryImmutable` |
| `LedgerIsAtMostOnce` | `Spec => AtMostOnceSpec` |
| `EvidenceAlwaysAgrees` | `Spec => []EvidenceAgrees` |
| `ReversalsCancelOnce` | `Spec => []ReversedExactlyOnce` |
| `ArchivedStaysUnused` | `Spec => NoNewUseOfArchived` |
| `DraftsMoveAsSaid` | `Spec => PostedAsDrafted` |
| `ReconciliationInvariance`, `EntriesReconciledOnce`, `CompletionsHaveEvidence` | `Spec => []ReconciliationInv`, and its parts `EntryReconciledOnce` and `CompletionsEvidenced` |
| `BooksStayWhole`, `ReconciledHistoryStays` | the same of the books beside reconciliations: `Spec => []BooksInv`, `[][KeepsHistory(books, books')]_vars` |
| `ProjectionsMoveForward`, `ReconciledIsEarned` | `Spec => []ProjectionNeverMovesBack`, `Spec => ReconciledEarned` |
| `ReconciledWhenCovered` | `Spec => []ReconciledExactlyWhenCovered`, if `Changing = {}`: nothing is archived |
| `CallsStayChecked` | `Spec => []CallsChecked`: what a caller selected stays on its statement and adds up to what it read |
| `StatementsImplemented`, `BalancesMatchApart` | `Spec /\ []WritesApart => StatementsSpec`, `... => BalanceMatches` |
| `OneCallerImplements` | `Spec => StatementsSpec /\ BalanceMatches` with one caller |
| `ReportsAlwaysAgree` | `Spec => []ReportsAgree` |
| `CatalogueTyped`, `NamesStayApart` | `CatalogueSpec => []CatalogueInv`, `[]NamesApart` |
| `FinishedChangesAlwaysStay` | `CatalogueSpec => FinishedChangesStay` |
| `TypesKept`, `OneAttemptAtATime` | `Spec => []TypeOK`, `[]OneAttemptPerDate` of the recovery |
| `CopiesOutliveFailures`, `AuditTellsOutcomes` | `Spec => []DeclaredCopiesThere`, `[]OutcomesAudited` |
| `RestoresWhatWasDeclared`, `StatusIsHonest` | `Spec => []RestoredIsDeclared`, `[]StatusNeverOverclaims` |
| `RestoredCopiesStay`, `OneOperatorSuffices` | `Spec /\ []OneRestorePerPath => RestoredStays`; `Spec => RestoredStays` with one operator: what was reported stays the same copy |
| `RecoveryKeepsDailyCopies` | `Spec => DailyCopiesSpec` |
| `IdentityTyped` | `TabSpec => []TypeOK` |
| `HeldSessionsAlwaysAudited`, `CsrfAlwaysFitsCookie`, `LogoutEndsSession` | `TabSpec => []HeldSessionsAudited`, `[]CsrfFitsCookie`, `[]SignedOutIsOver` |
| `ResetEndsTheRest` | `TabSpec => OnlyOvertakenLoginsOutliveReset` |
| `PageShowsTheForm`, `AnnouncedIsCompleted` | `PageSpec => []ShownIsCurrent`, `[]CompletedIsTrue` |
| `ListSkipsNoEvent` | `TrailSpec => []NoEventSkipped` |
| `ConfirmedPostsOnce` | `FormSpec => []RetriedMovementPostsOnce` |
| `BudgetBoundsTheBlocks` | `StopSpec => []BlocksWithinBudget` |
| `LockedEventsFormAChain` | `EventsSpec => []ChainForksOnlyUnlocked` |
| `VerdictsAreEarned` | `HealthSpec => []VerdictsFollowTheServer` |
| `NumbersNameOneSpec`, `CleanupsSettle`, `ClearedTextIsFiled` | `LifecycleSpec => []OneNumberPerSpec`, `[]CleanupSettles`, `ClearedOnceArchived` |
| `EvidenceCountedOnce` | `InstinctSpec => []CountedOnce` |

*Ledger.* `LedgerStoreProofs` shows what each store operation preserves,
`LedgerProofs` what each action does. `LedgerInv` adds

- `LockDiscipline`: exactly the requests under the lock hold it, and `work` is
  `db` while it is free;
- `InStep`: for each place in the handler, what is true there: a reserved key
  has no committed record, `work` is `db` and the reservation; a request about
  to answer is answering what is recorded;
- `Prepared`: what is about to be committed keeps the history of `db` and adds
  one record and the one transaction it names, or neither;
- `StoreWhole(db)` and `StoreWhole(work)`: both stores balance.

Every action is then one of three kinds of step (`OwnMove`, `LockedMove`,
`ReleasedMove`), and for each it remains to show what it does to its own request
and its own store. The fact that carries the weight is `CommitKeys`: committing
a prepared store adds at most one record and loses nothing. `CommittedSteps`
turns it into the action property and the refinement.

`EffectInv` (`LedgerEffects`) is proved on top of it. It says of `db` and of
`work` that the events are those of the records (`Evident`), that links,
voided rows and reversals correspond one to one (`LinksWhole`) and that linked
pairs cancel (`LinksCancel`); and between the two that what `work` has newly
posted uses only what is active in `db` (`UsesActive`: an archiving cannot
commit while the lock is held) and moves what the draft in `db` says
(`MovesDrafts`).

*Reconciliation.* The invariant adds to its two properties the shape of the
calls and rows (`Shaped`): a completion must be known to store a row, not
`Null`, for the entries of the completed reconciliations to be those before and
its own. `BooksInv` adds the books: they are whole, the entries that calls hold
and rows name are posted ones, and a transaction shows as RECONCILED only once
an entry of it is covered. That last part carries `ProjectionsMoveForward`: a
completion that touches a RECONCILED transaction holds an entry nobody covered,
so then both are covered, and the projection, whatever accounts are active by
now, cannot take it back. `ReconciledWhenCovered` needs more: the accounts a
projection asks for must be all the reconcilable ones of the transaction.
Archiving breaks that (section 11), hence the hypothesis, under which
`reconciliation_transfers` runs; what is left without it is `ReconciledIsEarned`.

*Sums.* Balances and reports are sums over sets of entries, which the community
module writes as a fold: a function defined by recursion over subsets, and some
one element chosen first. The library's induction takes the statement to prove as
an operator, which no prover here can instantiate. `WFMin`, that a non-empty set
has a minimal element in a well-founded order, takes a set instead, and that is
enough: `SubsetInduction` says of a set `Good` of subsets that it is everything if
it has the empty set and passes from a set less any element to the set. From it
follow that the recursive function exists (`SumExists`) and that all that satisfy
its equation agree (`OneSum`), so that the fold is the sum whatever order it
takes (`SumTake`), splits over separate sets (`SumSplit`), is kept by a
one-to-one change of index (`SumImage`), and is nothing over pairs that cancel
(`SumPairs`).

`CallsChecked` says what a caller knows at each place: the entries it selected are
on the statement and add up to `effect`, since nothing posted ever changes; and,
if nobody else has completed on the account since, the balance it compared is
still the one it compared. That condition is the hypothesis `WritesApart`: no two
callers are past their last check on one account. The code does not keep to it:
breaking it is the race that the run on `BalanceMatches` shows (section 11). With
it every completion is one of `Statements` and its balance matches, so that race
is the only way to go wrong, whatever is posted, reversed, archived, lost or
refused meanwhile; with one caller it holds by itself (`OneCallerImplements`).

*Reports.* `ReportsAgree` is about any committed store, so it needs of a
transaction only what every posting leaves: its entries cancel; at most one of
them is on a category, and then the transaction has a cash date (`Sided`); a
reversal has the targets of the transaction it voids and the opposite amounts
(`Mirrored`). All entries up to a day add up to nothing, so those on accounts are
what the others are not (`ResultExplained`); receipts and payments are the account
sides of the transactions that have a category side (`CashAgrees`); and each
report selects an entry and its mirror alike (`VoidedCounts`).

*Catalogue.* `Rooted` says of each place of a call what its value comes of: the
columns it read are columns of rows committed since the call began (`since`). So
a write, however it mixes two reads with the row under it, leaves a row of such
columns and the one asked for.

*Recovery.* `BackupInv` ties each worker's place to the committed row and file
(`AttemptHolds`): from the claim to the mark the row is `STARTED` by this
worker, so no other is at work on the date (`OneAttemptPerDate`), nobody else
removes its file, and the file is whole when it is declared; what a pruner has
listed is declared and not kept, and stays so, since declared days only grow
(`RetentionTightens`). `RestoreInv` and `StatusInv` follow from that growth
alone. `RestoredStays` has a hypothesis because the code does not check its
destination again (section 6): `OneRestorePerPath` is what operators must keep
to, and one operator does. For the refinement each action maps to a step of `DailyCopies` or to none.

*Identity.* `CallHolds` says at each place what the server has already committed
for a call (a login about to answer has its session open, a success has its
event), `TabHolds` that cookie and tab hold only audited grants, `HeardFits`
that an answer the tab will still hear fits its cookie. Everything the server
does is `ServerGoes`: sessions, once opened, keep their user and never revive.
With it a step of one call leaves the facts of all others as they were.

*Browser.* `PageInv`: a question whose flag is still set is about the form as it
is; so is a completion whose version is the current one. `TrailInv`: the list has
no gap from its newest event to its cursor (`Reaches`), and a page on its way
begins where the list was whole (`ReadReaches`). `FormInv`: what tells two
attempts at a posting apart is the draft, or the key where there is none
(`MarksAgree`); all attempts at one movement have the same mark unless it was
disturbed, and the ledger posts a mark once (`PostedOnce`).

*Governance.* `StopInv`: while calls of the hook come one after the other, the
file counts at least the blocks, and a call about to block is below the limit.
`EventInv`: a hook that holds the lock and has read its pointer points at a line
with no line of another holder after it. `HealthInv`: whatever the file is
rewritten with, an entry that calls a server unhealthy ends its pause in time,
and while runs do not overlap, what a run holds and the file between two runs say
what was last heard. `LifecycleInv`: a record has only the keys that are its spec's (`KeysOf`): its
slug and the number it resolves to for one of old, its number for any other, and
the numbers that are given out are none that an old row names (`Fresh`)
(`RecordsApart`). A call holds a record of a spec that is there (`IsOf`) or,
under the lock, one that is free (`IsNew`), so no late write can bring two specs
together, but for old ones with one number. The texts that calls have read of the
slot are one text, and once a call has filed it its copy is kept (`CopyKept`):
under its own number, wherever the record shipped is filed, or with that record
if it has no number (`TextFits`).

`CleanupInv` follows two of the walks through every call they make, as long as
nobody else is under way (`WalksWell`): each record they are done with has its
row, or is `Settled` (not open, or without any sign that it shipped), but for the
one in hand. Two things carry the second. A spec whose record is its only one is
found under its id (`PlaceOfSpec`), so the record that `mark_shipped` finds leaves
no open one behind (`ShippedIsFound`). And what a walk files, be it a text without
a number that was another's, goes to the directory of the record it has just
shipped, so it makes no sign for another (`FilingLeavesSettled`); a table
rendered in between gains only that row.

`LearnInv` says of every line of the observations, in the file, in the sibling or
in the hands of a hook (`Held`), that all its copies tell one time, and its
observer will note no other (`NotedOnce`); this holds however the hooks interrupt,
overwrite, mix and lose each other's files. While extractions come one after the other
(`OnlyOnce`), a line that is counted is no later than `lastExtractedAt`
(`Behind`), and a line found new is later. Until a line stands twice somewhere, no
sequence held anywhere has one twice, and none has the line of an observer who is
yet to add it (`AllClean`, `Keeping`), so a merge finds a pair at one place
(`CountedOne`), once. Between the two files, `lastExtractedAt` lags behind the counts, but the extraction that
wrote them has the later time in hand. What `From` selects from a sequence is
shown with the same set form of induction, on the prefixes.

What holds only while calls do not overlap, or until another movement's late
success, says so in the property, with a part of the state that no action of the
program reads (`disturbed`, `mixed`). The theorems are about all behaviours, the
overlapping ones included.

Only model-checked is `RequestsFinish`: liveness under fairness is out of the
prover's reach.

## 13. Not modelled

- Application assembly and the command line: wiring and argument parsing; the
  commands themselves are actions of `Identity`, `Backup` and `Restore`.
- The list and search queries of the ledger, the list of transactions and the
  other views: they render what was read.
- Login throttling, hashing, minimisation of audit metadata.
- Windows service scripts.
- Of the governance framework: guards that judge a single call, bridges,
  installers, skills and documents.

Definitions commented `Fault:` are no part of the models: each is the mistake
some property is tried against (`PROJECT.json`, `mutants`).
