------------------------------ MODULE AuditPages ------------------------------
(***************************************************************************)
(* The audit trail as the settings page reads it: a page of events at a    *)
(* time (frontend/src/features/settings/page.tsx), each found by the       *)
(* cursor the page before it ended with (audit/adapters/repository.py),    *)
(* while handlers append events whose time was taken before they commit.   *)
(* "Cargar más" stays enabled: it may be clicked again before its answer.  *)
(***************************************************************************)
EXTENDS FiniteSets, Integers

CONSTANTS
    Times, EventIds,  \* occurred_at and id: finite sets of numbers
    Limit,            \* events of a page
    PageCalls,        \* bound: requests out at once
    NoCursor

Event == [time : Times, id : EventIds]

(* AuditService._validate_limit asks for one event or more.                *)
ASSUME AuditPagesAssumption ==
    /\ Times \subseteq Int /\ EventIds \subseteq Int
    /\ Limit \in Nat \ {0}
    /\ NoCursor \notin Event

VARIABLES
    trail,    \* the committed events of the space
    shown,    \* the events in the list, which may repeat them
    cursor,   \* where the next page begins, or NoCursor
    unread,   \* unread[s]: a request, or the page it was answered with
    hidden,   \* the page has shown an error: there is no list, for good
    loaded    \* what was committed when the first page was read; no code has it

trailVars == <<trail, shown, cursor, unread, hidden, loaded>>

Idle == [is |-> "idle"]
Asking(from) == [is |-> "asked", from |-> from]

TrailInit ==
    /\ trail = {}
    /\ shown = {}
    /\ cursor = NoCursor
    /\ unread = [s \in PageCalls |->
                     IF s = CHOOSE c \in PageCalls : TRUE THEN Asking(NoCursor) ELSE Idle]
    /\ hidden = FALSE
    /\ loaded = {}

-----------------------------------------------------------------------------
(* ORDER BY occurred_at DESC, id DESC, and the events after a cursor.      *)
Newer(a, b) == a.time > b.time \/ (a.time = b.time /\ a.id > b.id)

(* Fault: the cursor of a page is compared by its time only. *)
AfterTime(from) == IF from = NoCursor THEN trail ELSE {e \in trail : e.time < from.time}

After(from) == IF from = NoCursor THEN trail ELSE {e \in trail : Newer(from, e)}

PageFrom(from) == {e \in After(from) : Cardinality({f \in After(from) : Newer(f, e)}) < Limit}

(* One event more than the page holds is read, to know whether to go on.   *)
NextCursor(from) ==
    IF Cardinality(After(from)) <= Limit THEN NoCursor
    ELSE CHOOSE e \in PageFrom(from) : \A f \in PageFrom(from) : f = e \/ Newer(f, e)

(* append_in_transaction, at the commit of its caller.                     *)
Append(e) ==
    /\ \A f \in trail : f.id # e.id
    /\ trail' = trail \cup {e}
    /\ UNCHANGED <<shown, cursor, unread, hidden, loaded>>

ReadPage(s) ==
    /\ unread[s].is = "asked"
    /\ LET from == unread[s].from
       IN  unread' = [unread EXCEPT ![s] =
               [is |-> "page", events |-> PageFrom(from), next |-> NextCursor(from),
                all |-> IF from = NoCursor THEN trail ELSE {}, first |-> from = NoCursor]]
    /\ UNCHANGED <<trail, shown, cursor, hidden, loaded>>

-----------------------------------------------------------------------------
LoadMore(s) ==
    /\ cursor # NoCursor /\ ~hidden
    /\ unread[s] = Idle
    /\ unread' = [unread EXCEPT ![s] = Asking(cursor)]
    /\ UNCHANGED <<trail, shown, cursor, hidden, loaded>>

ShowPage(s) ==
    /\ unread[s].is = "page"
    /\ shown' = unread[s].events \cup (IF unread[s].first THEN {} ELSE shown)
    /\ cursor' = unread[s].next
    /\ loaded' = IF unread[s].first THEN unread[s].all ELSE loaded
    /\ unread' = [unread EXCEPT ![s] = Idle]
    /\ UNCHANGED <<trail, hidden>>

(* The request or the one for the backup status fails.                     *)
FailPage(s) ==
    /\ unread[s] # Idle
    /\ hidden' = TRUE
    /\ unread' = [unread EXCEPT ![s] = Idle]
    /\ UNCHANGED <<trail, shown, cursor, loaded>>

TrailNext ==
    \/ \E e \in Event : Append(e)
    \/ \E s \in PageCalls : ReadPage(s) \/ LoadMore(s) \/ ShowPage(s) \/ FailPage(s)

TrailSpec == TrailInit /\ [][TrailNext]_trailVars

-----------------------------------------------------------------------------
(* Spec AC-011.2 (events can be consulted): as far back as the list goes,  *)
(* none that was committed when the page was opened is missing from it -   *)
(* with equal times, events appended meanwhile at any place, and doubled   *)
(* clicks answered in any order.                                           *)
NoEventSkipped ==
    \A e \in loaded : cursor = NoCursor \/ ~Newer(cursor, e) => e \in shown
=============================================================================
