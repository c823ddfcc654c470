----------------------------- MODULE Catalogue ------------------------------
(***************************************************************************)
(* Accounts or categories: CatalogService (ledger/application/catalog.py)  *)
(* over the repository (ledger/adapters/repositories.py).  A change reads  *)
(* its row twice before it writes - get_account to build the new value,    *)
(* update_account to load the record it assigns to - and the UPDATE sets   *)
(* the columns in which the two differ.  At start-up the server makes the  *)
(* starter categories it does not find by name (main.py).                  *)
(***************************************************************************)
EXTENDS FiniteSets

CONSTANTS Ids, RowNames, FirstStarter, SecondStarter, Changers, None

Starters == {FirstStarter, SecondStarter}

Rows == [name : RowNames, archived : BOOLEAN]
Row(name, archived) == [name |-> name, archived |-> archived]

ASSUME CatalogueAssumption ==
    /\ Starters \subseteq RowNames /\ FirstStarter # SecondStarter
    /\ None \notin RowNames \cup Ids \cup Rows

VARIABLES
    rows,   \* rows[i]: the row of an id, or None
    changes   \* changes[p]: a change, or a start of the server, under way

catalogueVars == <<rows, changes>>

(* "since" is what the row has been since the call began; no code reads    *)
(* it.                                                                     *)
Changes ==
    [pc : {"idle", "asked", "built", "loaded", "searching", "missingFirst",
           "searchingSecond", "missingSecond"},
     op : {"rename", "archive", "unarchive", "start", None}, id : Ids \cup {None},
     name : RowNames \cup {None}, value : Rows \cup {None}, loaded : Rows \cup {None},
     since : SUBSET Rows]

NoChange ==
    [pc |-> "idle", op |-> None, id |-> None, name |-> None, value |-> None,
     loaded |-> None, since |-> {}]

CatalogueInit ==
    /\ rows = [i \in Ids |-> None]
    /\ changes = [p \in Changers |-> NoChange]

Named(name) == \E i \in Ids : rows[i] # None /\ rows[i].name = name
Unused == {i \in Ids : rows[i] = None}

(* The unique constraint on the name (a new id is drawn at random).        *)
WithRow(i, name) == [rows EXCEPT ![i] = Row(name, FALSE)]

Create(i, name) ==
    /\ i \in Unused /\ ~Named(name)
    /\ rows' = WithRow(i, name)
    /\ UNCHANGED changes

-----------------------------------------------------------------------------
(* rename, archive and unarchive of a row that is there.                   *)
Ask(p, op, i, name) ==
    /\ changes[p].pc = "idle"
    /\ rows[i] # None
    /\ changes' = [changes EXCEPT ![p] =
                    [NoChange EXCEPT !.pc = "asked", !.op = op, !.id = i, !.name = name,
                                 !.since = {rows[i]}]]
    /\ UNCHANGED rows

(* What the domain object makes of the row it was built from.              *)
Changed(op, row, name) ==
    CASE op = "rename" -> [row EXCEPT !.name = name]
      [] op = "archive" -> [row EXCEPT !.archived = TRUE]
      [] op = "unarchive" -> [row EXCEPT !.archived = FALSE]

(* Fault: the new value is built without the flag of the row. *)
BuildUnarchived(p) ==
    LET call == changes[p] IN
    /\ call.pc = "asked"
    /\ changes' = [changes EXCEPT ![p].pc = "built",
                    ![p].value = Changed(call.op, Row(rows[call.id].name, FALSE), call.name)]
    /\ UNCHANGED rows

Build(p) ==
    LET call == changes[p] IN
    /\ call.pc = "asked"
    /\ changes' = [changes EXCEPT ![p].pc = "built",
                    ![p].value = Changed(call.op, rows[call.id], call.name)]
    /\ UNCHANGED rows

Load(p) ==
    /\ changes[p].pc = "built"
    /\ changes' = [changes EXCEPT ![p].pc = "loaded", ![p].loaded = rows[changes[p].id]]
    /\ UNCHANGED rows

(* The columns the UPDATE names, over the row as it is under the lock.     *)
Written(call, row) ==
    Row(IF call.value.name # call.loaded.name THEN call.value.name ELSE row.name,
        IF call.value.archived # call.loaded.archived THEN call.value.archived
        ELSE row.archived)

Write(p) ==
    LET call == changes[p]
        row == Written(call, rows[call.id])
    IN  /\ call.pc = "loaded"
        /\ row.name = rows[call.id].name \/ ~Named(row.name)
        /\ rows' = [rows EXCEPT ![call.id] = row]
        /\ changes' = [q \in Changers |->
                        IF q = p THEN NoChange
                        ELSE IF changes[q].id = call.id
                             THEN [changes[q] EXCEPT !.since = @ \cup {row}] ELSE changes[q]]

(* A name taken, a lock timeout, a crash: nothing is written.              *)
GiveUp(p) ==
    /\ changes[p].pc # "idle"
    /\ changes' = [changes EXCEPT ![p] = NoChange]
    /\ UNCHANGED rows

-----------------------------------------------------------------------------
(* ensure_starter_categories, at a start of the server: two lookups, each  *)
(* before the insert it decides on; the first insert takes the write lock. *)
StartServer(p) ==
    /\ changes[p].pc = "idle"
    /\ changes' = [changes EXCEPT ![p] = [NoChange EXCEPT !.pc = "searching", !.op = "start"]]
    /\ UNCHANGED rows

FindFirst(p) ==
    /\ changes[p].pc = "searching"
    /\ changes' = [changes EXCEPT ![p].pc =
                    IF Named(FirstStarter) THEN "searchingSecond" ELSE "missingFirst"]
    /\ UNCHANGED rows

(* Under the lock the second lookup sees what the insert will meet.        *)
AddFirst(p) ==
    /\ changes[p].pc = "missingFirst" /\ ~Named(FirstStarter)
    /\ IF Named(SecondStarter)
       THEN \E i \in Unused : rows' = WithRow(i, FirstStarter)
       ELSE \E i, j \in Unused :
              /\ i # j
              /\ rows' = [WithRow(i, FirstStarter) EXCEPT ![j] = Row(SecondStarter, FALSE)]
    /\ changes' = [changes EXCEPT ![p] = NoChange]

FindSecond(p) ==
    /\ changes[p].pc = "searchingSecond"
    /\ changes' = [changes EXCEPT ![p] = IF Named(SecondStarter) THEN NoChange
                                     ELSE [changes[p] EXCEPT !.pc = "missingSecond"]]
    /\ UNCHANGED rows

AddSecond(p) ==
    /\ changes[p].pc = "missingSecond" /\ ~Named(SecondStarter)
    /\ \E i \in Unused : rows' = WithRow(i, SecondStarter)
    /\ changes' = [changes EXCEPT ![p] = NoChange]

-----------------------------------------------------------------------------
CatalogueNext ==
    \/ \E i \in Ids, name \in RowNames : Create(i, name)
    \/ \E p \in Changers :
         \/ \E i \in Ids, name \in RowNames : Ask(p, "rename", i, name)
         \/ \E i \in Ids, op \in {"archive", "unarchive"} : Ask(p, op, i, None)
         \/ Build(p) \/ Load(p) \/ Write(p) \/ GiveUp(p)
         \/ StartServer(p) \/ FindFirst(p) \/ AddFirst(p) \/ FindSecond(p) \/ AddSecond(p)

CatalogueSpec == CatalogueInit /\ [][CatalogueNext]_catalogueVars

CatalogueTypeOK == rows \in [Ids -> Rows \cup {None}] /\ changes \in [Changers -> Changes]

(* The name of a row is its own: two starts of the server, a start and a   *)
(* rename, two renames meet at the unique constraint only.                 *)
NamesApart ==
    \A i, j \in Ids : rows[i] # None /\ rows[j] # None /\ rows[i].name = rows[j].name => i = j

(* AC-002.3, AC-002.6: a change that ended before a call began is never    *)
(* undone by it.  When a row changes, some call did it, and each column is *)
(* what that call asked for or what the column was at some moment since    *)
(* the call began: no rename brings back what had been archived before it, *)
(* no archiving a name that had been given up.  Of two changes that overlap, *)
(* one may undo the other (repositories.py:114).                           *)
FinishedChangesStay ==
    [][\A i \in Ids : rows[i] # None /\ rows'[i] # rows[i] =>
         \E p \in Changers :
            /\ changes[p].id = i
            /\ \E one, two \in changes[p].since :
                 LET kept == Row(one.name, two.archived)
                 IN  rows'[i] \in {kept, Changed(changes[p].op, kept, changes[p].name)}]_catalogueVars
=============================================================================
