---------------------------- MODULE ServicesProofs ----------------------------
(***************************************************************************)
(* What is proved of the two services beside the ledger.  Of the           *)
(* catalogue, for every set of rows, names and callers: names stay apart,  *)
(* and no change undoes one that had ended before it began.  Of the        *)
(* identity service and a browser tab beside it, for every number of       *)
(* names, passwords, tokens and calls at a time: whom it lets in.          *)
(***************************************************************************)
EXTENDS Catalogue, SessionProvider, TLAPS

(* A change knows where it came from: its row has been there since it      *)
(* began, and what it built or loaded was the row at some moment since.    *)
InChange(call) == call.pc \in {"asked", "built", "loaded"}

Rooted(call) ==
    /\ InChange(call) =>
         /\ call.id \in Ids /\ rows[call.id] # None /\ rows[call.id] \in call.since
         /\ call.op \in {"rename", "archive", "unarchive"}
         /\ call.op = "rename" => call.name \in RowNames
    /\ call.pc \in {"built", "loaded"} =>
         \E row \in call.since : call.value = Changed(call.op, row, call.name)
    /\ call.pc = "loaded" => call.loaded \in call.since

CatalogueInv == CatalogueTypeOK /\ NamesApart /\ \A p \in Changers : Rooted(changes[p])

-----------------------------------------------------------------------------
\* A row is its name and its flag, and is never the value for none.
LEMMA RowsAreRows ==
    /\ \A name \in RowNames, flag \in BOOLEAN :
          /\ Row(name, flag) \in Rows /\ Row(name, flag) # None
          /\ Row(name, flag).name = name /\ Row(name, flag).archived = flag
    /\ \A row \in Rows :
          /\ row # None /\ row.name \in RowNames /\ row.archived \in BOOLEAN
          /\ row = Row(row.name, row.archived)
BY CatalogueAssumption DEF Rows, Row

(* What a change makes of a row is a row.                                  *)
Flagged(op) == IF op = "archive" THEN TRUE ELSE FALSE

\* A changed row differs from the old one in the column the call is for.
LEMMA ChangedIsRow ==
    ASSUME NEW op \in {"rename", "archive", "unarchive"}, NEW row \in Rows,
           NEW name, op = "rename" => name \in RowNames
    PROVE  /\ Changed(op, row, name) \in Rows
           /\ Changed(op, row, name) =
                IF op = "rename" THEN Row(name, row.archived)
                ELSE Row(row.name, Flagged(op))
<1>1. /\ [row EXCEPT !.name = name] = Row(name, row.archived)
      /\ [row EXCEPT !.archived = TRUE] = Row(row.name, TRUE)
      /\ [row EXCEPT !.archived = FALSE] = Row(row.name, FALSE)
  <2>1. row = [name |-> row.name, archived |-> row.archived]
    BY DEF Rows
  <2>2. [row EXCEPT !.name = name] = [name |-> name, archived |-> row.archived]
    BY <2>1
  <2>3. \A flag : [row EXCEPT !.archived = flag] = [name |-> row.name, archived |-> flag]
    BY <2>1
  <2>4. /\ [row EXCEPT !.archived = TRUE] = [name |-> row.name, archived |-> TRUE]
        /\ [row EXCEPT !.archived = FALSE] = [name |-> row.name, archived |-> FALSE]
    BY <2>3, Zenon
  <2> QED
    BY <2>2, <2>4, Zenon DEF Row
<1>2. CASE op = "rename"
  BY <1>1, <1>2, RowsAreRows DEF Changed
<1>3. CASE op = "archive"
  <2>1. Changed(op, row, name) = Row(row.name, TRUE) /\ Flagged(op) = TRUE
    BY <1>1, <1>3 DEF Changed, Flagged
  <2> QED
    BY <1>3, <2>1, RowsAreRows
<1>4. CASE op = "unarchive"
  <2>1. Changed(op, row, name) = Row(row.name, FALSE) /\ Flagged(op) = FALSE
    BY <1>1, <1>4 DEF Changed, Flagged
  <2> QED
    BY <1>4, <2>1, RowsAreRows
<1> QED
  BY <1>2, <1>3, <1>4

\* The call at rest is a call.
LEMMA NoChangeTyped == NoChange \in Changes /\ NoChange.pc = "idle"
BY DEF NoChange, Changes

(* A step that moves one change and leaves the rows alone.                 *)
LEMMA ChangeMoved ==
    ASSUME CatalogueInv, UNCHANGED rows, NEW p \in Changers, NEW call \in Changes,
           changes' = [changes EXCEPT ![p] = call], Rooted(call)
    PROVE  CatalogueInv'
<1>1. CatalogueTypeOK'
  BY DEF CatalogueInv, CatalogueTypeOK
<1>2. NamesApart'
  BY DEF CatalogueInv, NamesApart
<1>3. ASSUME NEW q \in Changers PROVE Rooted(changes[q])'
  <2>1. CASE q = p
    BY <2>1 DEF CatalogueInv, CatalogueTypeOK, Rooted
  <2>2. CASE q # p
    BY <2>2 DEF CatalogueInv, CatalogueTypeOK, Rooted
  <2> QED
    BY <2>1, <2>2
<1> QED
  BY <1>1, <1>2, <1>3 DEF CatalogueInv

(* A step that adds rows of new names, and may end one call.               *)
LEMMA RowsAdded ==
    ASSUME CatalogueInv, CatalogueTypeOK', NamesApart',
           \A i \in Ids : rows[i] # None => rows'[i] = rows[i],
           \A q \in Changers : changes'[q] \in {changes[q], NoChange}
    PROVE  CatalogueInv'
<1>1. ASSUME NEW q \in Changers PROVE Rooted(changes[q])'
  <2>1. CASE changes'[q] = NoChange
    BY <2>1, NoChangeTyped DEF Rooted, InChange
  <2>2. CASE changes'[q] = changes[q]
    BY <2>2 DEF CatalogueInv, Rooted, InChange
  <2> QED
    BY <2>1, <2>2
<1> QED
  BY <1>1 DEF CatalogueInv

-----------------------------------------------------------------------------
\* The empty catalogue satisfies the invariant.
LEMMA CatalogueInvInit == CatalogueInit => CatalogueInv
BY NoChangeTyped
   DEF CatalogueInit, CatalogueInv, CatalogueTypeOK, NamesApart, Rooted, InChange

\* A creation adds a row under a name not taken.
LEMMA CreateKeeps ==
    ASSUME CatalogueInv, NEW i \in Ids, NEW name \in RowNames, Create(i, name)
    PROVE  CatalogueInv'
<1>1. /\ rows' = [rows EXCEPT ![i] = Row(name, FALSE)] /\ rows[i] = None
      /\ \A j \in Ids : rows[j] # None => rows[j].name # name
      /\ UNCHANGED changes
  BY DEF Create, WithRow, Unused, Named
<1>2. CatalogueTypeOK'
  BY <1>1, RowsAreRows DEF CatalogueInv, CatalogueTypeOK
<1>3. NamesApart'
  <2>1. rows'[i].name = name
    BY <1>1, RowsAreRows DEF CatalogueInv, CatalogueTypeOK
  <2>2. \A j \in Ids \ {i} : rows'[j] = rows[j]
    BY <1>1 DEF CatalogueInv, CatalogueTypeOK
  <2> SUFFICES ASSUME NEW j \in Ids, NEW k \in Ids, j # k, rows'[j] # None, rows'[k] # None
               PROVE  rows'[j].name # rows'[k].name
    BY DEF NamesApart
  <2>3. CASE j = i
    BY <1>1, <2>1, <2>2, <2>3
  <2>4. CASE k = i
    BY <1>1, <2>1, <2>2, <2>4
  <2>5. CASE j # i /\ k # i
    BY <2>2, <2>5 DEF CatalogueInv, NamesApart
  <2> QED
    BY <2>3, <2>4, <2>5
<1>4. \A j \in Ids : rows[j] # None => rows'[j] = rows[j]
  BY <1>1 DEF CatalogueInv, CatalogueTypeOK
<1> QED
  BY <1>1, <1>2, <1>3, <1>4, RowsAdded

\* A call that sets out has seen only the row of that moment.
LEMMA AskKeeps ==
    ASSUME CatalogueInv, NEW p \in Changers, NEW i \in Ids, NEW op, NEW name,
           \/ op = "rename" /\ name \in RowNames
           \/ op \in {"archive", "unarchive"} /\ name = None,
           Ask(p, op, i, name)
    PROVE  CatalogueInv'
<1> DEFINE call == [NoChange EXCEPT !.pc = "asked", !.op = op, !.id = i, !.name = name,
                                    !.since = {rows[i]}]
<1>1. rows[i] \in Rows /\ rows[i] # None
  BY DEF Ask, CatalogueInv, CatalogueTypeOK
<1>2. call \in Changes
  BY <1>1 DEF NoChange, Changes
<1>3. Rooted(call)
  BY <1>1 DEF NoChange, Rooted, InChange
<1>4. changes' = [changes EXCEPT ![p] = call] /\ UNCHANGED rows
  BY DEF Ask
<1> HIDE DEF call
<1> QED
  BY <1>2, <1>3, <1>4, ChangeMoved

\* The read of the row remembers one committed since the call began.
LEMMA BuildKeeps ==
    ASSUME CatalogueInv, NEW p \in Changers, Build(p)
    PROVE  CatalogueInv'
<1> DEFINE old == changes[p]
           value == Changed(old.op, rows[old.id], old.name)
           call == [old EXCEPT !.pc = "built", !.value = value]
<1>1. /\ old \in Changes /\ Rooted(old) /\ old.pc = "asked" /\ rows[old.id] \in Rows
      /\ old.id \in Ids /\ old.op \in {"rename", "archive", "unarchive"}
      /\ rows[old.id] \in old.since /\ rows[old.id] # None
      /\ old.op = "rename" => old.name \in RowNames
  BY DEF Build, CatalogueInv, CatalogueTypeOK, Rooted, InChange
<1>2. value \in Rows
  BY <1>1, ChangedIsRow
<1>3. changes' = [changes EXCEPT ![p] = call] /\ UNCHANGED rows
  BY DEF Build, CatalogueInv, CatalogueTypeOK
<1> HIDE DEF value
<1>4. call \in Changes
  BY <1>1, <1>2 DEF Changes
<1>5. /\ call.pc = "built" /\ call.id = old.id /\ call.op = old.op /\ call.name = old.name
      /\ call.since = old.since /\ call.value = value
  BY <1>1 DEF Changes
<1>6. \E row \in call.since : call.value = Changed(call.op, row, call.name)
  BY <1>1, <1>5 DEF value
<1> HIDE DEF call
<1>7. Rooted(call)
  BY <1>1, <1>5, <1>6 DEF Rooted, InChange
<1> QED
  BY <1>3, <1>4, <1>7, ChangeMoved

\* The second read remembers one committed since the call began.
LEMMA LoadKeeps ==
    ASSUME CatalogueInv, NEW p \in Changers, Load(p)
    PROVE  CatalogueInv'
<1> DEFINE old == changes[p]
           call == [old EXCEPT !.pc = "loaded", !.loaded = rows[old.id]]
<1>1. old \in Changes /\ Rooted(old) /\ old.pc = "built" /\ InChange(old)
  BY DEF Load, CatalogueInv, CatalogueTypeOK, InChange
<1>2. rows[old.id] \in Rows
  BY <1>1 DEF CatalogueInv, CatalogueTypeOK, Rooted
<1>3. changes' = [changes EXCEPT ![p] = call] /\ UNCHANGED rows
  BY DEF Load, CatalogueInv, CatalogueTypeOK
<1>4. call \in Changes
  BY <1>1, <1>2 DEF Changes
<1>5. /\ call.pc = "loaded" /\ call.id = old.id /\ call.op = old.op /\ call.name = old.name
      /\ call.since = old.since /\ call.value = old.value /\ call.loaded = rows[old.id]
  BY <1>1 DEF Changes
<1> HIDE DEF call
<1>6. Rooted(call)
  BY <1>1, <1>5 DEF Rooted, InChange
<1> QED
  BY <1>3, <1>4, <1>6, ChangeMoved

(* What a change writes: each column is what it asked for, or what the     *)
(* column was at some moment since it began.                               *)
LEMMA WrittenFrom ==
    ASSUME CatalogueInv, NEW p \in Changers, changes[p].pc = "loaded"
    PROVE  LET call == changes[p] row == Written(call, rows[call.id]) IN
           /\ row \in Rows
           /\ \E one, two \in call.since :
                row \in {Row(one.name, two.archived),
                         Changed(call.op, Row(one.name, two.archived), call.name)}
<1> DEFINE call == changes[p]
           now == rows[call.id]
           row == Written(call, now)
<1>1. /\ call \in Changes /\ call.since \subseteq Rows /\ call.id \in Ids
      /\ now \in call.since /\ call.loaded \in call.since
      /\ call.op \in {"rename", "archive", "unarchive"}
      /\ call.op = "rename" => call.name \in RowNames
  BY DEF CatalogueInv, CatalogueTypeOK, Rooted, InChange, Changes
<1>2. PICK was \in call.since : call.value = Changed(call.op, was, call.name)
  BY DEF CatalogueInv, Rooted
<1>3. was \in Rows /\ now \in Rows /\ call.loaded \in Rows
  BY <1>1, <1>2
<1>4. call.value = IF call.op = "rename" THEN Row(call.name, was.archived)
                   ELSE Row(was.name, Flagged(call.op))
  BY <1>1, <1>2, <1>3, ChangedIsRow
<1>5. \A one, two \in Rows :
         /\ Row(one.name, two.archived) \in Rows
         /\ Changed(call.op, Row(one.name, two.archived), call.name) =
              IF call.op = "rename" THEN Row(call.name, two.archived)
              ELSE Row(one.name, Flagged(call.op))
  <2> SUFFICES ASSUME NEW one \in Rows, NEW two \in Rows
               PROVE  /\ Row(one.name, two.archived) \in Rows
                      /\ Changed(call.op, Row(one.name, two.archived), call.name) =
                           IF call.op = "rename" THEN Row(call.name, two.archived)
                           ELSE Row(one.name, Flagged(call.op))
    OBVIOUS
  <2> DEFINE mixed == Row(one.name, two.archived)
  <2>1. mixed \in Rows /\ mixed.name = one.name /\ mixed.archived = two.archived
    BY RowsAreRows
  <2> HIDE DEF mixed
  <2>2. Changed(call.op, mixed, call.name) =
          IF call.op = "rename" THEN Row(call.name, mixed.archived)
          ELSE Row(mixed.name, Flagged(call.op))
    BY <1>1, <2>1, ChangedIsRow
  <2> QED
    BY <2>1, <2>2 DEF mixed
<1> DEFINE names == {now.name, call.value.name}
<1>6. \E name \in names, flag \in {now.archived, call.value.archived} : row = Row(name, flag)
  BY DEF Written
<1>7. PICK name \in names, flag \in {now.archived, call.value.archived} : row = Row(name, flag)
  BY <1>6
<1>8. CASE call.op = "rename"
  <2>1. call.value.name = call.name /\ call.value.archived = was.archived
    BY <1>3, <1>4, <1>8, <1>1, RowsAreRows
  <2>2. PICK two \in {now, was} : flag = two.archived
    BY <1>7, <2>1
  <2>3. two \in call.since /\ two \in Rows
    BY <1>1, <1>2, <1>3, <2>2
  <2>4. row = Row(now.name, two.archived) \/ row = Row(call.name, two.archived)
    BY <1>7, <2>1, <2>2
  <2>5. row \in {Row(now.name, two.archived),
                 Changed(call.op, Row(now.name, two.archived), call.name)}
    BY <1>3, <1>5, <1>8, <2>3, <2>4
  <2>6. row \in Rows
    BY <2>4, <1>3, <1>1, <1>8, <2>3, RowsAreRows
  <2> HIDE DEF call, now, row
  <2> QED
    BY <1>1, <2>3, <2>5, <2>6 DEF call, now, row
<1>9. CASE call.op # "rename"
  <2>1. call.value.name = was.name /\ call.value.archived = Flagged(call.op)
    <3>1. Flagged(call.op) \in BOOLEAN
      BY DEF Flagged
    <3>2. was.name \in RowNames
      BY <1>3, RowsAreRows
    <3> DEFINE built == Row(was.name, Flagged(call.op))
    <3>3. call.value = built
      BY <1>4, <1>9
    <3>4. built.name = was.name /\ built.archived = Flagged(call.op)
      BY <3>1, <3>2, RowsAreRows, Zenon
    <3> HIDE DEF built, call
    <3> QED
      BY <3>3, <3>4
  <2>2. PICK one \in {now, was} : name = one.name
    BY <1>7, <2>1
  <2>3. one \in call.since /\ one \in Rows
    BY <1>1, <1>2, <1>3, <2>2
  <2>4. row = Row(one.name, now.archived) \/ row = Row(one.name, Flagged(call.op))
    BY <1>7, <2>1, <2>2
  <2>5. row \in {Row(one.name, now.archived),
                 Changed(call.op, Row(one.name, now.archived), call.name)}
    BY <1>3, <1>5, <1>9, <2>3, <2>4
  <2>6. row \in Rows
    <3>1. Flagged(call.op) \in BOOLEAN
      BY DEF Flagged
    <3> HIDE DEF call, now, row
    <3> QED
      BY <2>4, <1>3, <2>3, <3>1, RowsAreRows
  <2> HIDE DEF call, now, row
  <2> QED
    BY <1>1, <2>3, <2>5, <2>6 DEF call, now, row
<1> QED
  BY <1>8, <1>9

\* The write of the changed columns leaves a row mixed of committed ones.
LEMMA WriteKeeps ==
    ASSUME CatalogueInv, NEW p \in Changers, Write(p)
    PROVE  CatalogueInv'
<1> DEFINE id == changes[p].id
           row == Written(changes[p], rows[id])
<1>1. /\ id \in Ids /\ row \in Rows /\ rows[id] # None /\ changes[p].pc = "loaded"
      /\ row.name = rows[id].name \/ ~Named(row.name)
  BY WrittenFrom DEF Write, CatalogueInv, CatalogueTypeOK, Rooted, InChange
<1>2. /\ rows' = [rows EXCEPT ![id] = row]
      /\ changes' = [q \in Changers |->
                        IF q = p THEN NoChange
                        ELSE IF changes[q].id = id
                             THEN [changes[q] EXCEPT !.since = @ \cup {row}] ELSE changes[q]]
  BY DEF Write
<1> HIDE DEF id, row
<1>3. /\ rows'[id] = row /\ row # None
      /\ \A j \in Ids \ {id} : rows'[j] = rows[j]
  BY <1>1, <1>2, RowsAreRows DEF CatalogueInv, CatalogueTypeOK
<1>4. \A q \in Changers \ {p} :
         LET call == changes[q] IN
         \/ changes'[q] = call /\ call.id # id
         \/ /\ changes'[q] = [call EXCEPT !.since = @ \cup {row}] /\ call.id = id
            /\ changes'[q] \in Changes
            /\ changes'[q].since = call.since \cup {row}
            /\ changes'[q].pc = call.pc /\ changes'[q].op = call.op
            /\ changes'[q].id = call.id /\ changes'[q].name = call.name
            /\ changes'[q].value = call.value /\ changes'[q].loaded = call.loaded
  <2> SUFFICES ASSUME NEW q \in Changers \ {p}, changes[q].id = id
               PROVE  LET call == changes[q] changed == [call EXCEPT !.since = @ \cup {row}] IN
                      /\ changed \in Changes /\ changed.since = call.since \cup {row}
                      /\ changed.pc = call.pc /\ changed.op = call.op
                      /\ changed.id = call.id /\ changed.name = call.name
                      /\ changed.value = call.value /\ changed.loaded = call.loaded
    BY <1>2
  <2>1. changes[q] \in Changes
    BY DEF CatalogueInv, CatalogueTypeOK
  <2> QED
    BY <1>1, <2>1 DEF Changes
<1>5. changes'[p] = NoChange
  BY <1>2
<1>6. CatalogueTypeOK'
  <2>1. rows' \in [Ids -> Rows \cup {None}]
    BY <1>1, <1>2 DEF CatalogueInv, CatalogueTypeOK
  <2>2. \A q \in Changers : changes'[q] \in Changes
    BY <1>4, <1>5, NoChangeTyped DEF CatalogueInv, CatalogueTypeOK
  <2> QED
    BY <2>1, <2>2, <1>2 DEF CatalogueTypeOK
<1>7. NamesApart'
  <2>1. \A j \in Ids \ {id} : rows[j] # None => rows[j].name # row.name
    BY <1>1 DEF CatalogueInv, NamesApart, Named
  <2> SUFFICES ASSUME NEW j \in Ids, NEW k \in Ids, j # k, rows'[j] # None, rows'[k] # None
               PROVE  rows'[j].name # rows'[k].name
    BY DEF NamesApart
  <2>2. CASE j = id
    BY <1>3, <2>1, <2>2
  <2>3. CASE k = id
    BY <1>3, <2>1, <2>3
  <2>4. CASE j # id /\ k # id
    BY <1>3, <2>4 DEF CatalogueInv, NamesApart
  <2> QED
    BY <2>2, <2>3, <2>4
<1>8. ASSUME NEW q \in Changers PROVE Rooted(changes[q])'
  <2>1. CASE q = p
    BY <1>5, <2>1, NoChangeTyped DEF Rooted, InChange
  <2>2. CASE q # p /\ changes[q].id # id
    <3>1. changes'[q] = changes[q] /\ Rooted(changes[q])
      BY <1>4, <2>2 DEF CatalogueInv
    <3> QED
      BY <1>3, <2>2, <3>1 DEF Rooted, InChange
  <2>3. CASE q # p /\ changes[q].id = id
    <3>1. Rooted(changes[q])
      BY DEF CatalogueInv
    <3>2. /\ changes'[q].since = changes[q].since \cup {row}
          /\ changes'[q].pc = changes[q].pc /\ changes'[q].op = changes[q].op
          /\ changes'[q].id = id /\ changes'[q].name = changes[q].name
          /\ changes'[q].value = changes[q].value /\ changes'[q].loaded = changes[q].loaded
      BY <1>4, <2>3
    <3> QED
      BY <1>1, <1>3, <2>3, <3>1, <3>2 DEF Rooted, InChange
  <2> QED
    BY <2>1, <2>2, <2>3
<1> QED
  BY <1>6, <1>7, <1>8 DEF CatalogueInv

(* A start of the server adds starters of names that no row has.           *)
LEMMA AddFirstKeeps ==
    ASSUME CatalogueInv, NEW p \in Changers, AddFirst(p)
    PROVE  CatalogueInv'
<1>1. \A j \in Ids : rows[j] # None => rows[j].name # FirstStarter
  BY DEF AddFirst, Named
<1>2. \A q \in Changers : changes'[q] \in {changes[q], NoChange}
  BY DEF AddFirst, CatalogueInv, CatalogueTypeOK
<1>3. changes' \in [Changers -> Changes]
  BY NoChangeTyped DEF AddFirst, CatalogueInv, CatalogueTypeOK
<1>4. FirstStarter \in RowNames /\ SecondStarter \in RowNames /\ FirstStarter # SecondStarter
  BY CatalogueAssumption DEF Starters
<1> DEFINE first == Row(FirstStarter, FALSE)
           second == Row(SecondStarter, FALSE)
<1>5. /\ first \in Rows /\ first # None /\ first.name = FirstStarter
      /\ second \in Rows /\ second # None /\ second.name = SecondStarter
  BY <1>4, RowsAreRows
<1> HIDE DEF first, second
<1>6. CASE Named(SecondStarter)
  <2>1. PICK i \in Unused : rows' = [rows EXCEPT ![i] = first]
    BY <1>6 DEF AddFirst, WithRow, first
  <2>2. /\ rows[i] = None /\ rows'[i] = first
        /\ \A j \in Ids \ {i} : rows'[j] = rows[j]
    BY <2>1 DEF Unused, CatalogueInv, CatalogueTypeOK
  <2>3. CatalogueTypeOK'
    BY <1>3, <1>5, <2>1 DEF CatalogueInv, CatalogueTypeOK
  <2>4. NamesApart'
    <3> SUFFICES ASSUME NEW j \in Ids, NEW k \in Ids, j # k, rows'[j] # None, rows'[k] # None
                 PROVE  rows'[j].name # rows'[k].name
      BY DEF NamesApart
    <3>1. CASE j = i
      BY <1>1, <1>5, <2>2, <3>1
    <3>2. CASE k = i
      BY <1>1, <1>5, <2>2, <3>2
    <3>3. CASE j # i /\ k # i
      BY <2>2, <3>3 DEF CatalogueInv, NamesApart
    <3> QED
      BY <3>1, <3>2, <3>3
  <2>5. \A j \in Ids : rows[j] # None => rows'[j] = rows[j]
    BY <2>2
  <2> QED
    BY <1>2, <2>3, <2>4, <2>5, RowsAdded
<1>7. CASE ~Named(SecondStarter)
  <2>1. PICK i \in Unused, j \in Unused :
          i # j /\ rows' = [[rows EXCEPT ![i] = first] EXCEPT ![j] = second]
    BY <1>7 DEF AddFirst, WithRow, first, second
  <2>2. /\ rows[i] = None /\ rows[j] = None /\ rows'[i] = first /\ rows'[j] = second
        /\ \A k \in Ids \ {i, j} : rows'[k] = rows[k]
    BY <2>1 DEF Unused, CatalogueInv, CatalogueTypeOK
  <2>3. CatalogueTypeOK'
    BY <1>3, <1>5, <2>1 DEF CatalogueInv, CatalogueTypeOK
  <2>4. \A k \in Ids : rows[k] # None => rows[k].name # SecondStarter
    BY <1>7 DEF Named
  <2>5. NamesApart'
    <3> SUFFICES ASSUME NEW k \in Ids, NEW l \in Ids, k # l, rows'[k] # None, rows'[l] # None
                 PROVE  rows'[k].name # rows'[l].name
      BY DEF NamesApart
    <3>1. CASE k \in {i, j} /\ l \in {i, j}
      BY <1>4, <1>5, <2>2, <3>1
    <3>2. CASE k \in {i, j} /\ l \notin {i, j}
      BY <1>1, <1>5, <2>2, <2>4, <3>2
    <3>3. CASE k \notin {i, j} /\ l \in {i, j}
      BY <1>1, <1>5, <2>2, <2>4, <3>3
    <3>4. CASE k \notin {i, j} /\ l \notin {i, j}
      BY <2>2, <3>4 DEF CatalogueInv, NamesApart
    <3> QED
      BY <3>1, <3>2, <3>3, <3>4
  <2>6. \A k \in Ids : rows[k] # None => rows'[k] = rows[k]
    BY <2>2
  <2> QED
    BY <1>2, <2>3, <2>5, <2>6, RowsAdded
<1> QED
  BY <1>6, <1>7

\* A start of the server adds its second starter under a name not taken.
LEMMA AddSecondKeeps ==
    ASSUME CatalogueInv, NEW p \in Changers, AddSecond(p)
    PROVE  CatalogueInv'
<1>1. \A j \in Ids : rows[j] # None => rows[j].name # SecondStarter
  BY DEF AddSecond, Named
<1>2. \A q \in Changers : changes'[q] \in {changes[q], NoChange}
  BY DEF AddSecond, CatalogueInv, CatalogueTypeOK
<1>3. changes' \in [Changers -> Changes]
  BY NoChangeTyped DEF AddSecond, CatalogueInv, CatalogueTypeOK
<1> DEFINE second == Row(SecondStarter, FALSE)
<1>4. second \in Rows /\ second # None /\ second.name = SecondStarter
  BY CatalogueAssumption, RowsAreRows DEF Starters
<1> HIDE DEF second
<1>5. PICK i \in Unused : rows' = [rows EXCEPT ![i] = second]
  BY DEF AddSecond, WithRow, second
<1>6. /\ rows[i] = None /\ rows'[i] = second
      /\ \A j \in Ids \ {i} : rows'[j] = rows[j]
  BY <1>5 DEF Unused, CatalogueInv, CatalogueTypeOK
<1>7. CatalogueTypeOK'
  BY <1>3, <1>4, <1>5 DEF CatalogueInv, CatalogueTypeOK
<1>8. NamesApart'
  <2> SUFFICES ASSUME NEW j \in Ids, NEW k \in Ids, j # k, rows'[j] # None, rows'[k] # None
               PROVE  rows'[j].name # rows'[k].name
    BY DEF NamesApart
  <2>1. CASE j = i
    BY <1>1, <1>4, <1>6, <2>1
  <2>2. CASE k = i
    BY <1>1, <1>4, <1>6, <2>2
  <2>3. CASE j # i /\ k # i
    BY <1>6, <2>3 DEF CatalogueInv, NamesApart
  <2> QED
    BY <2>1, <2>2, <2>3
<1>9. \A j \in Ids : rows[j] # None => rows'[j] = rows[j]
  BY <1>6
<1> QED
  BY <1>2, <1>7, <1>8, <1>9, RowsAdded

(* The other steps of a call move it on, or end it.                        *)
LEMMA SearchKeeps ==
    ASSUME CatalogueInv, NEW p \in Changers,
           GiveUp(p) \/ StartServer(p) \/ FindFirst(p) \/ FindSecond(p)
    PROVE  CatalogueInv'
<1> DEFINE old == changes[p]
<1>1. old \in Changes
  BY DEF CatalogueInv, CatalogueTypeOK
<1>2. PICK call \in {NoChange, [NoChange EXCEPT !.pc = "searching", !.op = "start"],
                     [old EXCEPT !.pc = "searchingSecond"], [old EXCEPT !.pc = "missingFirst"],
                     [old EXCEPT !.pc = "missingSecond"]} :
         changes' = [changes EXCEPT ![p] = call] /\ UNCHANGED rows
  BY DEF GiveUp, StartServer, FindFirst, FindSecond, CatalogueInv, CatalogueTypeOK
<1>3. call \in Changes
  BY <1>1, <1>2, NoChangeTyped DEF Changes, NoChange
<1>4. call.pc \notin {"asked", "built", "loaded"}
  <2>1. CASE call \in {NoChange, [NoChange EXCEPT !.pc = "searching", !.op = "start"]}
    <3>1. /\ NoChange.pc = "idle"
          /\ [NoChange EXCEPT !.pc = "searching", !.op = "start"].pc = "searching"
      BY DEF NoChange
    <3> QED
      BY <2>1, <3>1
  <2>2. CASE call \in {[old EXCEPT !.pc = "searchingSecond"], [old EXCEPT !.pc = "missingFirst"],
                       [old EXCEPT !.pc = "missingSecond"]}
    <3>1. \A pc : [old EXCEPT !.pc = pc].pc = pc
      BY <1>1 DEF Changes
    <3> QED
      BY <2>2, <3>1
  <2> QED
    BY <1>2, <2>1, <2>2
<1>5. Rooted(call)
  BY <1>4 DEF Rooted, InChange
<1> QED
  BY <1>2, <1>3, <1>5, ChangeMoved

\* Every step of a call or a start keeps the invariant.
LEMMA CatalogueInvNext ==
    ASSUME CatalogueInv, [CatalogueNext]_catalogueVars
    PROVE  CatalogueInv'
<1>1. CASE UNCHANGED catalogueVars
  BY <1>1 DEF catalogueVars, CatalogueInv, CatalogueTypeOK, NamesApart, Rooted, InChange
<1>2. ASSUME NEW i \in Ids, NEW name \in RowNames, Create(i, name)
      PROVE  CatalogueInv'
  BY <1>2, CreateKeeps
<1>3. ASSUME NEW p \in Changers, NEW i \in Ids, NEW name \in RowNames,
             Ask(p, "rename", i, name)
      PROVE  CatalogueInv'
  BY <1>3, AskKeeps
<1>4. ASSUME NEW p \in Changers, NEW i \in Ids, NEW op \in {"archive", "unarchive"},
             Ask(p, op, i, None)
      PROVE  CatalogueInv'
  BY <1>4, AskKeeps
<1>5. ASSUME NEW p \in Changers,
             \/ Build(p) \/ Load(p) \/ Write(p) \/ GiveUp(p) \/ StartServer(p)
             \/ FindFirst(p) \/ AddFirst(p) \/ FindSecond(p) \/ AddSecond(p)
      PROVE  CatalogueInv'
  BY <1>5, BuildKeeps, LoadKeeps, WriteKeeps, SearchKeeps, AddFirstKeeps, AddSecondKeeps
<1> QED
  BY <1>1, <1>2, <1>3, <1>4, <1>5 DEF CatalogueNext

-----------------------------------------------------------------------------
(* The rows and the calls keep their types.                                *)
THEOREM CatalogueTyped == CatalogueSpec => []CatalogueInv
BY CatalogueInvInit, CatalogueInvNext, PTL DEF CatalogueSpec

(* No two accounts, and no two categories, ever have one name, whatever    *)
(* renames and starts of the server race (main.py:156, catalog.py).        *)
THEOREM NamesStayApart == CatalogueSpec => []NamesApart
<1>1. CatalogueInv => NamesApart
  BY DEF CatalogueInv
<1> QED
  BY <1>1, CatalogueTyped, PTL

(* One step changes a row that was there only as a call of that row asked, *)
(* with columns as they were since it began (repositories.py:114).         *)
LEMMA ChangesStay ==
    ASSUME CatalogueInv, [CatalogueNext]_catalogueVars, NEW i \in Ids,
           rows[i] # None, rows'[i] # rows[i]
    PROVE  \E p \in Changers :
              /\ changes[p].id = i
              /\ \E one, two \in changes[p].since :
                   LET kept == Row(one.name, two.archived)
                   IN  rows'[i] \in {kept, Changed(changes[p].op, kept, changes[p].name)}
<1>1. \A j \in Unused : \A row : rows' = [rows EXCEPT ![j] = row] => FALSE
  BY DEF Unused, CatalogueInv, CatalogueTypeOK
<1>2. \A j, k \in Unused : \A row, other :
         rows' = [[rows EXCEPT ![j] = row] EXCEPT ![k] = other] => FALSE
  BY DEF Unused, CatalogueInv, CatalogueTypeOK
<1>3. PICK p \in Changers : Write(p)
  <2>1. rows' # rows
    OBVIOUS
  <2>2. ~UNCHANGED catalogueVars
    BY <2>1 DEF catalogueVars
  <2>3. ~\E j \in Ids, name \in RowNames : Create(j, name)
    BY <1>1 DEF Create, WithRow
  <2>4. ~\E q \in Changers : AddFirst(q) \/ AddSecond(q)
    <3>1. ASSUME NEW q \in Changers, AddSecond(q) PROVE FALSE
      BY <1>1, <3>1 DEF AddSecond, WithRow
    <3>2. ASSUME NEW q \in Changers, AddFirst(q), Named(SecondStarter) PROVE FALSE
      BY <1>1, <3>2 DEF AddFirst, WithRow
    <3>3. ASSUME NEW q \in Changers, AddFirst(q), ~Named(SecondStarter) PROVE FALSE
      BY <1>2, <3>3 DEF AddFirst, WithRow
    <3> QED
      BY <3>1, <3>2, <3>3
  <2>5. ~\E q \in Changers :
           \/ \E j \in Ids, name \in RowNames : Ask(q, "rename", j, name)
           \/ \E j \in Ids, op \in {"archive", "unarchive"} : Ask(q, op, j, None)
           \/ Build(q) \/ Load(q) \/ GiveUp(q) \/ StartServer(q) \/ FindFirst(q) \/ FindSecond(q)
    BY <2>1 DEF Ask, Build, Load, GiveUp, StartServer, FindFirst, FindSecond
  <2> QED
    BY <2>2, <2>3, <2>4, <2>5 DEF CatalogueNext
<1> DEFINE id == changes[p].id
           row == Written(changes[p], rows[id])
<1>4. changes[p].pc = "loaded" /\ rows' = [rows EXCEPT ![id] = row]
  BY <1>3 DEF Write
<1>5. id = i /\ rows'[i] = row
  BY <1>4 DEF CatalogueInv, CatalogueTypeOK
<1> QED
  BY <1>4, <1>5, WrittenFrom

(* A change that ended before another began is never undone by it.         *)
THEOREM FinishedChangesAlwaysStay == CatalogueSpec => FinishedChangesStay
<1>1. CatalogueInv /\ [CatalogueNext]_catalogueVars =>
        [\A i \in Ids : rows[i] # None /\ rows'[i] # rows[i] =>
           \E p \in Changers :
              /\ changes[p].id = i
              /\ \E one, two \in changes[p].since :
                   LET kept == Row(one.name, two.archived)
                   IN  rows'[i] \in {kept, Changed(changes[p].op, kept, changes[p].name)}]_catalogueVars
  BY ChangesStay
<1> QED
  BY <1>1, CatalogueTyped, PTL DEF CatalogueSpec, FinishedChangesStay

-----------------------------------------------------------------------------

Server == users' = users /\ sessions' = sessions /\ evidence' = evidence

(* A token that names a session, and whose it is.                          *)
Opened(t, n) == t \in Tokens /\ sessions[t] # Null /\ sessions[t].user = n

Granted(t) == t \in Tokens /\ GrantAudited(t)

(* What a call being served, or its answer, may rely on: sessions are      *)
(* never forgotten, and one that has ended never lives again.              *)
LoginHolds(c) ==
    /\ c.pc \in {"asked", "verified"} => c.name \in Names /\ c.password \in Passwords
    /\ c.pc = "verified" => users[c.name] # Null
    /\ c.pc = "welcoming" => Opened(c.token, c.name)
    /\ c.result = "ok" => Opened(c.token, c.name) /\ Granted(c.token)

SessionHolds(c) ==
    /\ c.token # Null => Granted(c.token)
    /\ c.pc = "authenticated" => c.token # Null
    /\ c.result = "ok" => Opened(c.token, c.name)

LogoutHolds(c) ==
    /\ c.token # Null => Granted(c.token)
    /\ c.pc \in {"authenticated", "revoking", "parting"} => c.token # Null
    /\ c.pc = "parting" => ~Live(c.token)
    /\ c.result = "ok" => c.token # Null /\ ~Live(c.token)

CommandHolds(c) ==
    /\ c.pc \in {"asked", "founding", "rotating"} => c.password \in Passwords
    /\ c.pc = "founding" => c.name \in Names
    /\ c.op = "bootstrap" /\ c.pc = "asked" => c.name \in Names
    /\ c.pc = "rotating" => c.name \in Names /\ users[c.name] # Null

CallHolds(c) ==
    /\ c.result # Null => c.pc \in {"answered", "arrived"}
    /\ c.heard => c.op \in {"login", "session", "logout"}
    /\ c.op = "login" => LoginHolds(c)
    /\ c.op = "session" => SessionHolds(c)
    /\ c.op = "logout" => LogoutHolds(c)
    /\ c.op \in {"bootstrap", "reset"} => CommandHolds(c)

(* What the tab is while it waits for an answer: a new tab waits for its   *)
(* session alone; the form waits for one login, and at most late logouts   *)
(* are heard beside it.                                                    *)
SessionFits(p) ==
    /\ tab.shown = "loading"
    /\ \A q \in Callers \ {p} : ~calls[q].heard
    /\ calls[p].result # "error" => calls[p].token = jar

LoginFits(p) ==
    /\ tab.shown = "anonymous" /\ tab.submitting
    /\ \A q \in Callers \ {p} : calls[q].heard => calls[q].op = "logout"
    /\ calls[p].pc = "arrived" /\ calls[p].result = "ok" => jar \in {calls[p].token, Null}

HeardFits(p) ==
    calls[p].heard =>
       /\ calls[p].op = "session" => SessionFits(p)
       /\ calls[p].op = "login" => LoginFits(p)

(* Every session is of a user there is.                                    *)
SessionsFounded == \A t \in Tokens : sessions[t] # Null => users[sessions[t].user] # Null

TabHolds ==
    /\ HeldSessionsAudited /\ CsrfFitsCookie

IdentityInv ==
    /\ TypeOK /\ SessionsFounded /\ TabHolds
    /\ \A p \in Callers : CallHolds(calls[p]) /\ HeardFits(p)
-----------------------------------------------------------------------------
\* The value for nothing is no name, password, token, session, operation or outcome.
LEMMA NullApart ==
    /\ Null \notin Names /\ Null \notin Passwords /\ Null \notin Tokens /\ Null \notin Sessions
    /\ Null \notin {"bootstrap", "reset", "login", "logout", "session"}
    /\ Null # "ok" /\ Null # "error"
BY IdentityAssumption DEF Operations, Outcomes

\* A call at rest satisfies what is asked of calls.
LEMMA IdleHolds ==
    /\ Idle \in Calls /\ CallHolds(Idle) /\ ~Idle.heard /\ Idle.pc = "idle"
    /\ Idle.result = Null /\ Idle.token = Null
BY NullApart DEF Idle, Calls, CallHolds

(* A refused call tells nothing but that.                                  *)
LEMMA RefusalHolds ==
    ASSUME NEW op \in {"login", "session", "logout"}, NEW c,
           c = [Idle EXCEPT !.pc = "answered", !.op = op, !.result = "error", !.heard = TRUE]
    PROVE  /\ c \in Calls /\ CallHolds(c) /\ c.op = op /\ c.result = "error" /\ c.token = Null
           /\ c.pc = "answered"
<1>1. /\ c.pc = "answered" /\ c.op = op /\ c.result = "error" /\ c.token = Null
      /\ c \in Calls
  BY DEF Idle, Calls, Operations, Outcomes
<1> QED
  BY <1>1, NullApart DEF CallHolds, LoginHolds, SessionHolds, LogoutHolds

(* What no step of the server undoes.                                      *)
ServerGoes ==
    /\ users' \in [Names -> Passwords \cup {Null}]
    /\ sessions' \in [Tokens -> Sessions \cup {Null}]
    /\ evidence' \subseteq Events /\ evidence \subseteq evidence'
    /\ \A n \in Names : users[n] # Null => users'[n] # Null
    /\ \A t \in Tokens : sessions[t] # Null =>
         /\ sessions'[t] # Null /\ sessions'[t].user = sessions[t].user
         /\ sessions[t].is # "valid" => sessions'[t].is # "valid"
    /\ SessionsFounded'

\* A server that changes nothing goes on as a server may.
LEMMA ServerRests ==
    ASSUME TypeOK, SessionsFounded, Server PROVE ServerGoes
BY DEF ServerGoes, Server, TypeOK, SessionsFounded

\* A session once opened for a user stays one opened for that user.
LEMMA OpenedStays ==
    ASSUME ServerGoes, NEW t, NEW n, Opened(t, n) PROVE Opened(t, n)'
BY DEF ServerGoes, Opened

\* An audited session stays audited.
LEMMA GrantStays ==
    ASSUME ServerGoes, NEW t, Granted(t) PROVE Granted(t)'
BY DEF ServerGoes, Granted, GrantAudited

\* A session that ended never comes back to life.
LEMMA EndedStays ==
    ASSUME ServerGoes, NEW t, Granted(t), ~Live(t) PROVE ~Live(t)'
BY NullApart DEF ServerGoes, Granted, GrantAudited, Live

\* What holds of a call holds while the server goes on and the call does not.
LEMMA CallStands ==
    ASSUME ServerGoes, NEW c \in Calls, CallHolds(c) PROVE CallHolds(c)'
<1>1. LoginHolds(c) => LoginHolds(c)'
  BY OpenedStays, GrantStays DEF LoginHolds, ServerGoes
<1>2. SessionHolds(c) => SessionHolds(c)'
  BY OpenedStays, GrantStays DEF SessionHolds
<1>3. LogoutHolds(c) => LogoutHolds(c)'
  BY GrantStays, EndedStays DEF LogoutHolds
<1>4. CommandHolds(c) => CommandHolds(c)'
  BY DEF CommandHolds, ServerGoes
<1> QED
  BY <1>1, <1>2, <1>3, <1>4 DEF CallHolds

\* What holds of the tab holds while the server goes on and the browser does not.
LEMMA TabStands ==
    ASSUME TypeOK, TabHolds, ServerGoes, UNCHANGED <<jar, tab>> PROVE TabHolds'
<1>1. ASSUME NEW t, t = jar \/ t = tab.csrf, t # Null, GrantAudited(t)
      PROVE  GrantAudited(t)' /\ sessions'[t].user = sessions[t].user
  <2>1. t \in Tokens
    BY <1>1 DEF TypeOK, Tabs
  <2> QED
    BY <1>1, <2>1 DEF ServerGoes, GrantAudited
<1>2. PICK t, u : t = jar /\ u = tab.csrf
  OBVIOUS
<1>3. /\ t # Null => GrantAudited(t)' 
      /\ u # Null => GrantAudited(u)' /\ sessions'[u].user = tab.user
  BY <1>1, <1>2 DEF TabHolds, HeldSessionsAudited
<1> QED
  BY <1>2, <1>3 DEF TabHolds, HeldSessionsAudited, CsrfFitsCookie, GrantAudited

(* A step of a call that touches neither the cookie nor the tab.           *)
LEMMA CallTurned ==
    ASSUME IdentityInv, ServerGoes, UNCHANGED <<jar, tab>>,
           NEW p \in Callers, calls[p].result = Null,
           NEW c \in Calls, CallHolds(c)', calls' = [calls EXCEPT ![p] = c],
           c.heard => /\ calls[p].heard /\ c.op = calls[p].op /\ c.pc # "arrived"
                      /\ c.op = "session" => c.result = "error" \/ c.token = calls[p].token
    PROVE  IdentityInv'
<1>1. /\ calls' \in [Callers -> Calls] /\ calls'[p] = c
      /\ \A q \in Callers \ {p} : calls'[q] = calls[q]
  BY DEF IdentityInv, TypeOK
<1>2. ASSUME NEW q \in Callers PROVE CallHolds(calls[q])'
  <2>1. CASE q = p
    BY <1>1, <2>1 DEF CallHolds, LoginHolds, SessionHolds, LogoutHolds, CommandHolds
  <2>2. CASE q # p
    <3>1. PICK d \in Calls : d = calls[q] /\ CallHolds(d)
      BY DEF IdentityInv, TypeOK
    <3>2. CallHolds(d)'
      BY <3>1, CallStands
    <3>3. calls'[q] = d
      BY <1>1, <2>2, <3>1
    <3> QED
      BY <3>2, <3>3 DEF CallHolds, LoginHolds, SessionHolds, LogoutHolds, CommandHolds
  <2> QED
    BY <2>1, <2>2
<1>3. ASSUME NEW q \in Callers PROVE HeardFits(q)'
  <2>1. HeardFits(q) /\ HeardFits(p)
    BY DEF IdentityInv
  <2>2. CASE q = p
    BY <1>1, <2>1, <2>2, NullApart DEF HeardFits, SessionFits, LoginFits
  <2>3. CASE q # p
    BY <1>1, <2>1, <2>3 DEF HeardFits, SessionFits, LoginFits
  <2> QED
    BY <2>2, <2>3
<1>4. TabHolds'
  BY TabStands DEF IdentityInv
<1>5. TypeOK' /\ SessionsFounded'
  BY <1>1 DEF IdentityInv, TypeOK, ServerGoes
<1> QED
  BY <1>2, <1>3, <1>4, <1>5 DEF IdentityInv

(* An error answers whoever hears it.                                      *)
LEMMA CallErrs ==
    ASSUME IdentityInv, ServerGoes, UNCHANGED <<jar, tab>>,
           NEW p \in Callers, calls[p].result = Null, Errs(p)
    PROVE  IdentityInv'
<1>1. calls[p] \in Calls /\ CallHolds(calls[p])
  BY DEF IdentityInv, TypeOK
<1>2. CASE ~calls[p].heard
  <2>1. calls' = [calls EXCEPT ![p] = Idle]
    BY <1>2 DEF Errs, Answer
  <2>2. CallHolds(Idle)'
    BY IdleHolds, CallStands
  <2> QED
    BY <2>1, <2>2, IdleHolds, CallTurned
<1>3. CASE calls[p].heard
  <2>1. PICK op \in {"login", "session", "logout"} : op = calls[p].op
    BY <1>1, <1>3 DEF CallHolds
  <2>2. PICK c : c = [Idle EXCEPT !.pc = "answered", !.op = op, !.result = "error", !.heard = TRUE]
    OBVIOUS
  <2>3. calls' = [calls EXCEPT ![p] = c]
    BY <1>3, <2>1, <2>2 DEF Errs, Answer
  <2>4. c \in Calls /\ CallHolds(c) /\ c.op = op /\ c.result = "error" /\ c.pc = "answered"
    BY <2>2, RefusalHolds
  <2>5. CallHolds(c)'
    BY <2>4, CallStands
  <2> QED
    BY <1>3, <2>1, <2>3, <2>4, <2>5, CallTurned
<1> QED
  BY <1>2, <1>3

(* A success answers whoever hears it.                                     *)
LEMMA CallSucceeds ==
    ASSUME IdentityInv, ServerGoes, UNCHANGED <<jar, tab>>,
           NEW p \in Callers, calls[p].result = Null,
           NEW n \in Names \cup {Null}, NEW t, t = calls[p].token,
           Answer(p, [calls[p] EXCEPT !.pc = "answered", !.result = "ok", !.name = n]),
           calls[p].op = "login" => Opened(t, n)' /\ Granted(t)',
           calls[p].op = "session" => t # Null /\ Opened(t, n)' /\ Granted(t)',
           calls[p].op = "logout" => t # Null /\ Granted(t)' /\ ~Live(t)'
    PROVE  IdentityInv'
<1>1. calls[p] \in Calls /\ CallHolds(calls[p])
  BY DEF IdentityInv, TypeOK
<1>2. CASE ~calls[p].heard
  <2>1. calls' = [calls EXCEPT ![p] = Idle]
    BY <1>2 DEF Answer
  <2>2. CallHolds(Idle)'
    BY IdleHolds, CallStands
  <2> QED
    BY <2>1, <2>2, IdleHolds, CallTurned
<1>3. CASE calls[p].heard
  <2>1. PICK op \in {"login", "session", "logout"} : op = calls[p].op
    BY <1>1, <1>3 DEF CallHolds
  <2>2. PICK c : c = [calls[p] EXCEPT !.pc = "answered", !.result = "ok", !.name = n]
    OBVIOUS
  <2>3. calls' = [calls EXCEPT ![p] = c]
    BY <1>3, <2>2 DEF Answer
  <2>4. c \in Calls
    BY <1>1, <2>2 DEF Calls, Outcomes
  <2>5. /\ c.op = op /\ c.result = "ok" /\ c.pc = "answered" /\ c.name = n
        /\ c.token = t
    BY <1>1, <2>1, <2>2 DEF Calls
  <2>6. CallHolds(c)'
    BY <2>1, <2>5 DEF CallHolds, LoginHolds, SessionHolds, LogoutHolds
  <2> QED
    BY <1>3, <2>1, <2>3, <2>4, <2>5, <2>6, CallTurned
<1> QED
  BY <1>2, <1>3
\* A success answers with the name the call already had.
LEMMA SuccessKeepsName ==
    ASSUME TypeOK, NEW p \in Callers, NEW n, n = calls[p].name, Succeeds(p)
    PROVE  Answer(p, [calls[p] EXCEPT !.pc = "answered", !.result = "ok", !.name = n])
<1>1. calls[p] \in Calls
  BY DEF TypeOK
<1>2. [calls[p] EXCEPT !.pc = "answered", !.result = "ok", !.name = n]
        = [calls[p] EXCEPT !.pc = "answered", !.result = "ok"]
  BY <1>1 DEF Calls
<1> QED
  BY <1>2 DEF Succeeds, Answer

-----------------------------------------------------------------------------
(* What every step of a call starts from.                                  *)
LEMMA CallHand ==
    ASSUME IdentityInv, NEW p \in Callers
    PROVE  /\ calls[p] \in Calls /\ CallHolds(calls[p]) /\ TypeOK /\ SessionsFounded
           /\ calls[p].pc \notin {"answered", "arrived"} => calls[p].result = Null
BY DEF IdentityInv, TypeOK, CallHolds

\* Starting a command on the command line keeps the invariant.
LEMMA RunCommandKeeps ==
    ASSUME IdentityInv, UNCHANGED <<jar, tab>>, NEW p \in Callers,
           \/ \E n \in Names, w \in Passwords : RunBootstrap(p, n, w)
           \/ \E w \in Passwords : RunReset(p, w)
    PROVE  IdentityInv'
<1>1. Server /\ calls[p].result = Null
  BY CallHand DEF RunBootstrap, RunReset, Server
<1>2. ServerGoes
  BY <1>1, CallHand, ServerRests
<1>3. ASSUME NEW c \in Calls, calls' = [calls EXCEPT ![p] = c],
             c.pc = "asked", c.op \in {"bootstrap", "reset"},
             c.op = "bootstrap" => c.name \in Names,
             c.password \in Passwords, c.result = Null, ~c.heard
      PROVE  IdentityInv'
  <2>1. CallHolds(c)'
    BY <1>3 DEF CallHolds, CommandHolds
  <2> QED
    BY <1>1, <1>2, <1>3, <2>1, CallTurned
<1>4. ASSUME NEW n \in Names, NEW w \in Passwords, RunBootstrap(p, n, w)
      PROVE  IdentityInv'
  <2>1. PICK c : c = [Idle EXCEPT !.pc = "asked", !.op = "bootstrap", !.name = n, !.password = w]
    OBVIOUS
  <2>2. /\ c \in Calls /\ c.pc = "asked" /\ c.op = "bootstrap" /\ c.name = n
        /\ c.password = w /\ c.result = Null /\ ~c.heard
    BY <2>1 DEF Idle, Calls, Operations
  <2>3. calls' = [calls EXCEPT ![p] = c]
    BY <1>4, <2>1 DEF RunBootstrap
  <2> QED
    BY <1>3, <2>2, <2>3
<1>5. ASSUME NEW w \in Passwords, RunReset(p, w)
      PROVE  IdentityInv'
  <2>1. PICK c : c = [Idle EXCEPT !.pc = "asked", !.op = "reset", !.password = w]
    OBVIOUS
  <2>2. /\ c \in Calls /\ c.pc = "asked" /\ c.op = "reset" /\ c.password = w
        /\ c.result = Null /\ ~c.heard
    BY <2>1 DEF Idle, Calls, Operations
  <2>3. calls' = [calls EXCEPT ![p] = c]
    BY <1>5, <2>1 DEF RunReset
  <2> QED
    BY <1>3, <2>2, <2>3
<1> QED
  BY <1>4, <1>5

\* Bootstrap's look for a user only reads.
LEMMA LookForAnyUserKeeps ==
    ASSUME IdentityInv, UNCHANGED <<jar, tab>>, NEW p \in Callers, LookForAnyUser(p)
    PROVE  IdentityInv'
<1>1. Server /\ calls[p].pc = "asked" /\ calls[p].op = "bootstrap"
  BY DEF LookForAnyUser, Server, At
<1>2. ServerGoes /\ calls[p].result = Null /\ calls[p] \in Calls /\ CallHolds(calls[p])
  BY <1>1, CallHand, ServerRests
<1>3. CASE Errs(p)
  BY <1>2, <1>3, CallErrs
<1>4. CASE Goes(p, "founding")
  <2>1. PICK c : c = [calls[p] EXCEPT !.pc = "founding"]
    OBVIOUS
  <2>2. /\ c \in Calls /\ c.pc = "founding" /\ c.op = "bootstrap" /\ c.name = calls[p].name
        /\ c.password = calls[p].password /\ c.result = Null /\ c.heard = calls[p].heard
    BY <1>1, <1>2, <2>1 DEF Calls
  <2>3. ~c.heard /\ c.name \in Names /\ c.password \in Passwords
    BY <1>1, <1>2, <2>2 DEF CallHolds, CommandHolds
  <2>4. CallHolds(c)'
    BY <2>2, <2>3 DEF CallHolds, CommandHolds
  <2>5. calls' = [calls EXCEPT ![p] = c]
    BY <1>4, <2>1 DEF Goes
  <2> QED
    BY <1>2, <2>2, <2>3, <2>4, <2>5, CallTurned
<1> QED
  BY <1>3, <1>4 DEF LookForAnyUser

\* Founding a user keeps the sessions of others as they are.
LEMMA FoundKeeps ==
    ASSUME IdentityInv, UNCHANGED <<jar, tab>>, NEW p \in Callers, Found(p)
    PROVE  IdentityInv'
<1>1. /\ calls[p].pc = "founding" /\ calls[p].op = "bootstrap" /\ Succeeds(p)
      /\ sessions' = sessions /\ evidence' = evidence
  BY DEF Found, At
<1>2. calls[p].result = Null /\ calls[p] \in Calls /\ CallHolds(calls[p])
  BY <1>1, CallHand
<1>3. PICK n \in Names, w \in Passwords :
         n = calls[p].name /\ users[n] = Null /\ users' = [users EXCEPT ![n] = w]
  BY <1>1, <1>2 DEF CallHolds, CommandHolds, Found
<1>4. /\ users' \in [Names -> Passwords \cup {Null}]
      /\ \A m \in Names : users[m] # Null => users'[m] # Null
  BY <1>3, CallHand, NullApart DEF TypeOK
<1>5. ServerGoes
  BY <1>1, <1>4, CallHand DEF ServerGoes, TypeOK, SessionsFounded, Sessions
<1>6. PICK t : t = calls[p].token
  OBVIOUS
<1> QED
  BY <1>1, <1>2, <1>3, <1>5, <1>6, CallHand, SuccessKeepsName, CallSucceeds

\* Reset's read of the only user only reads.
LEMMA ReadOnlyUserKeeps ==
    ASSUME IdentityInv, UNCHANGED <<jar, tab>>, NEW p \in Callers, ReadOnlyUser(p)
    PROVE  IdentityInv'
<1>1. Server /\ calls[p].pc = "asked" /\ calls[p].op = "reset"
  BY DEF ReadOnlyUser, Server, At
<1>2. ServerGoes /\ calls[p].result = Null /\ calls[p] \in Calls /\ CallHolds(calls[p])
  BY <1>1, CallHand, ServerRests
<1>3. CASE Errs(p)
  BY <1>2, <1>3, CallErrs
<1>4. ASSUME NEW n \in Stored,
             calls' = [calls EXCEPT ![p].pc = "rotating", ![p].name = n]
      PROVE  IdentityInv'
  <2>1. PICK c : c = [calls[p] EXCEPT !.pc = "rotating", !.name = n]
    OBVIOUS
  <2>2. n \in Names /\ users[n] # Null
    BY DEF Stored
  <2>3. /\ c \in Calls /\ c.pc = "rotating" /\ c.op = "reset" /\ c.name = n
        /\ c.password = calls[p].password /\ c.result = Null /\ c.heard = calls[p].heard
    BY <1>1, <1>2, <2>1, <2>2 DEF Calls
  <2>4. ~c.heard /\ c.password \in Passwords
    BY <1>1, <1>2, <2>3 DEF CallHolds, CommandHolds
  <2>5. CallHolds(c)'
    BY <1>1, <2>2, <2>3, <2>4 DEF CallHolds, CommandHolds, Server
  <2>6. calls' = [calls EXCEPT ![p] = c]
    BY <1>4, <2>1, CallHand DEF TypeOK
  <2> QED
    BY <1>2, <2>3, <2>4, <2>5, <2>6, CallTurned
<1> QED
  BY <1>3, <1>4 DEF ReadOnlyUser

\* A reset revokes sessions and opens none.
LEMMA RotateKeeps ==
    ASSUME IdentityInv, UNCHANGED <<jar, tab>>, NEW p \in Callers, Rotate(p)
    PROVE  IdentityInv'
<1>1. calls[p].pc = "rotating" /\ calls[p].op = "reset" /\ Errs(p) /\ evidence' = evidence
  BY DEF Rotate, At
<1>2. calls[p].result = Null /\ calls[p] \in Calls /\ CallHolds(calls[p])
  BY <1>1, CallHand
<1>3. PICK n \in Names, w \in Passwords :
         /\ n = calls[p].name /\ users' = [users EXCEPT ![n] = w]
         /\ sessions' = [t \in Tokens |->
                           IF sessions[t] # Null /\ sessions[t].user = n
                           THEN [sessions[t] EXCEPT !.is = "revoked"] ELSE sessions[t]]
  BY <1>1, <1>2 DEF CallHolds, CommandHolds, Rotate
<1>4. /\ users' \in [Names -> Passwords \cup {Null}]
      /\ \A m \in Names : users[m] # Null => users'[m] # Null
  BY <1>3, CallHand, NullApart DEF TypeOK
<1>5. ASSUME NEW t \in Tokens
      PROVE  /\ sessions'[t] \in Sessions \cup {Null}
             /\ sessions[t] = Null => sessions'[t] = Null
             /\ sessions[t] # Null =>
                  /\ sessions'[t] # Null /\ sessions'[t].user = sessions[t].user
                  /\ sessions[t].is # "valid" => sessions'[t].is # "valid"
  <2>1. sessions[t] \in Sessions \cup {Null}
    BY CallHand DEF TypeOK
  <2>2. CASE sessions[t] # Null /\ sessions[t].user = n
    <3>1. sessions'[t] = [sessions[t] EXCEPT !.is = "revoked"]
      BY <1>3, <2>2
    <3>2. /\ sessions'[t] \in Sessions /\ sessions'[t].is = "revoked"
          /\ sessions'[t].user = sessions[t].user
      BY <2>1, <2>2, <3>1 DEF Sessions
    <3> QED
      BY <2>2, <3>2, NullApart
  <2>3. CASE ~(sessions[t] # Null /\ sessions[t].user = n)
    BY <1>3, <2>1, <2>3
  <2> QED
    BY <2>2, <2>3
<1>6. sessions' \in [Tokens -> Sessions \cup {Null}]
  BY <1>3, <1>5
<1>7. \A t \in Tokens : sessions[t] # Null => sessions[t].user \in Names
  BY CallHand DEF TypeOK, Sessions
<1>8. SessionsFounded'
  BY <1>4, <1>5, <1>7, CallHand DEF SessionsFounded
<1>9. ServerGoes
  BY <1>1, <1>4, <1>5, <1>6, <1>8, CallHand DEF ServerGoes, TypeOK
<1> QED
  BY <1>1, <1>2, <1>9, CallErrs
\* A login's read and verification of the user only read.
LEMMA ReadUserKeeps ==
    ASSUME IdentityInv, UNCHANGED <<jar, tab>>, NEW p \in Callers, ReadUser(p)
    PROVE  IdentityInv'
<1>1. Server /\ calls[p].pc = "asked" /\ calls[p].op = "login"
  BY DEF ReadUser, Server, At
<1>2. ServerGoes /\ calls[p].result = Null /\ calls[p] \in Calls /\ CallHolds(calls[p])
  BY <1>1, CallHand, ServerRests
<1>3. calls[p].name \in Names /\ calls[p].password \in Passwords
  BY <1>1, <1>2 DEF CallHolds, LoginHolds
<1>4. CASE users[calls[p].name] = calls[p].password
  <2>1. PICK c : c = [calls[p] EXCEPT !.pc = "verified"]
    OBVIOUS
  <2>2. /\ c \in Calls /\ c.pc = "verified" /\ c.op = "login" /\ c.name = calls[p].name
        /\ c.password = calls[p].password /\ c.result = Null
    BY <1>1, <1>2, <2>1 DEF Calls
  <2>3. c.heard <=> calls[p].heard
    BY <1>2, <2>1 DEF Calls
  <2>4. CallHolds(c)
    BY <1>3, <1>4, <2>2, NullApart DEF CallHolds, LoginHolds
  <2>5. CallHolds(c)'
    BY <1>2, <2>2, <2>4, CallStands
  <2>6. calls' = [calls EXCEPT ![p] = c]
    BY <1>4, <2>1 DEF ReadUser, Goes
  <2> QED
    BY <1>1, <1>2, <2>2, <2>3, <2>5, <2>6, CallTurned
<1>5. CASE users[calls[p].name] # calls[p].password
  <2>1. PICK c : c = [calls[p] EXCEPT !.pc = "denying", !.name = Null, !.password = Null]
    OBVIOUS
  <2>2. c \in Calls /\ c.pc = "denying" /\ c.op = "login" /\ c.result = Null
    <3>1. c \in Calls
      <4>1. PICK moved : moved = [calls[p] EXCEPT !.pc = "denying"]
        OBVIOUS
      <4>2. PICK named : named = [moved EXCEPT !.name = Null]
        OBVIOUS
      <4>3. c = [named EXCEPT !.password = Null]
        BY <2>1, <4>1, <4>2
      <4>4. moved \in Calls
        BY <1>2, <4>1 DEF Calls
      <4>5. named \in Calls
        BY <4>2, <4>4 DEF Calls
      <4> QED
        BY <4>3, <4>5 DEF Calls
    <3>2. c.pc = "denying" /\ c.op = "login" /\ c.result = Null
      BY <1>1, <1>2, <2>1 DEF Calls
    <3> QED
      BY <3>1, <3>2
  <2>3. c.heard <=> calls[p].heard
    BY <1>2, <2>1 DEF Calls
  <2>4. CallHolds(c)
    BY <2>2, NullApart DEF CallHolds, LoginHolds
  <2>5. CallHolds(c)'
    BY <1>2, <2>2, <2>4, CallStands
  <2>6. calls' = [calls EXCEPT ![p] = c]
    BY <1>5, <2>1, CallHand DEF ReadUser, TypeOK
  <2> QED
    BY <1>1, <1>2, <2>2, <2>3, <2>5, <2>6, CallTurned
<1> QED
  BY <1>4, <1>5

\* A login draws a token nobody holds and opens a session of its user.
LEMMA CreateSessionKeeps ==
    ASSUME IdentityInv, UNCHANGED <<jar, tab>>, NEW p \in Callers, CreateSession(p)
    PROVE  IdentityInv'
<1>1. calls[p].pc = "verified" /\ calls[p].op = "login" /\ users' = users /\ evidence' = evidence
  BY DEF CreateSession, At
<1>2. calls[p].result = Null /\ calls[p] \in Calls /\ CallHolds(calls[p])
  BY <1>1, CallHand
<1>3. PICK n \in Names, w \in Passwords :
         n = calls[p].name /\ w = calls[p].password /\ users[n] # Null
  BY <1>1, <1>2 DEF CallHolds, LoginHolds
<1>4. PICK t \in Tokens :
         /\ sessions[t] = Null
         /\ sessions' = [sessions EXCEPT ![t] = [user |-> n, proof |-> w, is |-> "valid"]]
         /\ calls' = [calls EXCEPT ![p].pc = "welcoming", ![p].token = t, ![p].password = Null]
  BY <1>3 DEF CreateSession
<1>5. PICK s \in Sessions : s = [user |-> n, proof |-> w, is |-> "valid"]
  BY DEF Sessions
<1>6. s # Null /\ s.user = n
  BY <1>5, NullApart
<1>7. /\ sessions' \in [Tokens -> Sessions \cup {Null}] /\ sessions'[t] = s
      /\ \A u \in Tokens \ {t} : sessions'[u] = sessions[u]
  BY <1>4, <1>5, CallHand DEF TypeOK
<1>8. ServerGoes
  BY <1>1, <1>3, <1>4, <1>6, <1>7, CallHand DEF ServerGoes, TypeOK, SessionsFounded
<1>9. PICK c : c = [calls[p] EXCEPT !.pc = "welcoming", !.token = t, !.password = Null]
  OBVIOUS
<1>10. /\ c \in Calls /\ c.pc = "welcoming" /\ c.op = "login" /\ c.name = n /\ c.token = t
       /\ c.result = Null
  BY <1>1, <1>2, <1>3, <1>9 DEF Calls
<1>11. c.heard <=> calls[p].heard
  BY <1>2, <1>9 DEF Calls
<1>12. calls' = [calls EXCEPT ![p] = c]
  BY <1>4, <1>9, CallHand DEF TypeOK
<1>13. CallHolds(c)'
  BY <1>6, <1>7, <1>10, NullApart DEF CallHolds, LoginHolds, Opened
<1> QED
  BY <1>1, <1>2, <1>8, <1>10, <1>11, <1>12, <1>13, CallTurned

\* The login event is written before the answer that hands out the token.
LEMMA AuditLoginKeeps ==
    ASSUME IdentityInv, UNCHANGED <<jar, tab>>, NEW p \in Callers, AuditLogin(p)
    PROVE  IdentityInv'
<1>1. /\ calls[p].pc = "welcoming" /\ calls[p].op = "login" /\ Succeeds(p)
      /\ users' = users /\ sessions' = sessions
  BY DEF AuditLogin, At
<1>2. calls[p].result = Null /\ calls[p] \in Calls /\ CallHolds(calls[p])
  BY <1>1, CallHand
<1>3. PICK t, n : t = calls[p].token /\ n = calls[p].name
  OBVIOUS
<1>4. Opened(t, n) /\ n \in Names
  BY <1>1, <1>2, <1>3, CallHand DEF CallHolds, LoginHolds, Opened, TypeOK, Sessions
<1>5. evidence' = evidence \cup {Event("LOGIN", "SUCCESS", n, t)}
  BY <1>3 DEF AuditLogin
<1>6. Event("LOGIN", "SUCCESS", n, t) \in Events
  BY <1>4 DEF Event, Events, Opened
<1>7. ServerGoes
  BY <1>1, <1>5, <1>6, CallHand DEF ServerGoes, TypeOK, SessionsFounded
<1>8. Opened(t, n)' /\ Granted(t)'
  BY <1>1, <1>4, <1>5 DEF Opened, Granted, GrantAudited
<1> QED
  BY <1>1, <1>2, <1>3, <1>4, <1>7, <1>8, CallHand, SuccessKeepsName, CallSucceeds

\* A refused login opens nothing.
LEMMA AuditDeniedKeeps ==
    ASSUME IdentityInv, UNCHANGED <<jar, tab>>, NEW p \in Callers, AuditDenied(p)
    PROVE  IdentityInv'
<1>1. /\ calls[p].result = Null /\ Errs(p) /\ users' = users /\ sessions' = sessions
      /\ evidence' = evidence \cup {Event("LOGIN", "FAILURE", Null, Null)}
  BY CallHand DEF AuditDenied, At
<1>2. Event("LOGIN", "FAILURE", Null, Null) \in Events
  BY DEF Events
<1>3. ServerGoes
  BY <1>1, <1>2, CallHand DEF ServerGoes, TypeOK, SessionsFounded
<1> QED
  BY <1>1, <1>3, CallErrs

\* Authentication reads the session of the cookie and writes nothing.
LEMMA AuthenticateKeeps ==
    ASSUME IdentityInv, UNCHANGED <<jar, tab>>, NEW p \in Callers, Authenticate(p)
    PROVE  IdentityInv'
<1>1. Server /\ calls[p].pc = "asked" /\ calls[p].op \in {"logout", "session"}
  BY DEF Authenticate, Server
<1>2. ServerGoes /\ calls[p].result = Null /\ calls[p] \in Calls /\ CallHolds(calls[p])
  BY <1>1, CallHand, ServerRests
<1>3. CASE Errs(p)
  BY <1>2, <1>3, CallErrs
<1>4. CASE Live(calls[p].token) /\ Goes(p, "authenticated")
  <2>1. PICK c : c = [calls[p] EXCEPT !.pc = "authenticated"]
    OBVIOUS
  <2>2. /\ c \in Calls /\ c.pc = "authenticated" /\ c.op = calls[p].op
        /\ c.token = calls[p].token /\ c.result = Null
    BY <1>1, <1>2, <2>1 DEF Calls
  <2>3. c.heard <=> calls[p].heard
    BY <1>2, <2>1 DEF Calls
  <2>4. CallHolds(c)
    BY <1>1, <1>2, <1>4, <2>2, NullApart DEF CallHolds, SessionHolds, LogoutHolds, Live
  <2>5. CallHolds(c)'
    BY <1>2, <2>2, <2>4, CallStands
  <2>6. calls' = [calls EXCEPT ![p] = c]
    BY <1>4, <2>1 DEF Goes
  <2> QED
    BY <1>1, <1>2, <2>2, <2>3, <2>5, <2>6, CallTurned
<1> QED
  BY <1>3, <1>4 DEF Authenticate

\* The session endpoint answers with the token and the user of the cookie's session.
LEMMA ReadSessionKeeps ==
    ASSUME IdentityInv, UNCHANGED <<jar, tab>>, NEW p \in Callers, ReadSession(p)
    PROVE  IdentityInv'
<1>1. Server /\ calls[p].pc = "authenticated" /\ calls[p].op = "session"
  BY DEF ReadSession, Server, At
<1>2. ServerGoes /\ calls[p].result = Null /\ calls[p] \in Calls /\ CallHolds(calls[p])
  BY <1>1, CallHand, ServerRests
<1>3. CASE Errs(p)
  BY <1>2, <1>3, CallErrs
<1>4. CASE Answer(p, [calls[p] EXCEPT !.pc = "answered", !.result = "ok",
                                      !.name = sessions[calls[p].token].user])
  <2>1. PICK t : t = calls[p].token /\ t # Null /\ Granted(t)
    BY <1>1, <1>2 DEF CallHolds, SessionHolds
  <2>2. PICK n \in Names : n = sessions[t].user
    BY <2>1, CallHand DEF Granted, GrantAudited, TypeOK, Sessions
  <2>3. Opened(t, n)' /\ Granted(t)'
    BY <1>2, <2>1, <2>2, OpenedStays, GrantStays DEF Opened, Granted, GrantAudited
  <2> QED
    BY <1>1, <1>2, <1>4, <2>1, <2>2, <2>3, CallSucceeds
<1> QED
  BY <1>3, <1>4 DEF ReadSession

\* The check of the CSRF header reads only.
LEMMA ValidateCsrfKeeps ==
    ASSUME IdentityInv, UNCHANGED <<jar, tab>>, NEW p \in Callers, ValidateCsrf(p)
    PROVE  IdentityInv'
<1>1. Server /\ calls[p].pc = "authenticated" /\ calls[p].op = "logout"
  BY DEF ValidateCsrf, Server, At
<1>2. ServerGoes /\ calls[p].result = Null /\ calls[p] \in Calls /\ CallHolds(calls[p])
  BY <1>1, CallHand, ServerRests
<1>3. CASE Errs(p)
  BY <1>2, <1>3, CallErrs
<1>4. CASE calls' = [calls EXCEPT ![p].pc = "revoking", ![p].csrf = Null]
  <2>1. PICK c : c = [calls[p] EXCEPT !.pc = "revoking", !.csrf = Null]
    OBVIOUS
  <2>2. /\ c \in Calls /\ c.pc = "revoking" /\ c.op = "logout"
        /\ c.token = calls[p].token /\ c.result = Null
    BY <1>1, <1>2, <2>1 DEF Calls
  <2>3. c.heard <=> calls[p].heard
    BY <1>2, <2>1 DEF Calls
  <2>4. CallHolds(c)
    BY <1>1, <1>2, <2>2, NullApart DEF CallHolds, LogoutHolds
  <2>5. CallHolds(c)'
    BY <1>2, <2>2, <2>4, CallStands
  <2>6. calls' = [calls EXCEPT ![p] = c]
    BY <1>4, <2>1, CallHand DEF TypeOK
  <2> QED
    BY <1>1, <1>2, <2>2, <2>3, <2>5, <2>6, CallTurned
<1> QED
  BY <1>3, <1>4 DEF ValidateCsrf
(* A session that is given up - revoked, or expired.                       *)
LEMMA SessionEnds ==
    ASSUME TypeOK, SessionsFounded, NEW t \in Tokens, sessions[t] # Null,
           NEW how \in {"revoked", "expired"},
           sessions' = [sessions EXCEPT ![t].is = how],
           users' = users, evidence' = evidence
    PROVE  ServerGoes /\ ~Live(t)' /\ \A u \in Tokens : Live(u)' => Live(u)
<1>1. PICK s \in Sessions : s = [sessions[t] EXCEPT !.is = how]
  BY DEF TypeOK, Sessions
<1>2. s.is = how /\ s.user = sessions[t].user /\ s # Null
  BY <1>1, NullApart DEF Sessions, TypeOK
<1>3. sessions' = [sessions EXCEPT ![t] = s]
  BY <1>1
<1>4. /\ sessions' \in [Tokens -> Sessions \cup {Null}] /\ sessions'[t] = s
      /\ \A u \in Tokens \ {t} : sessions'[u] = sessions[u]
  BY <1>3 DEF TypeOK
<1> QED
  BY <1>2, <1>4 DEF ServerGoes, TypeOK, SessionsFounded, Live

\* A logout ends the session of its cookie.
LEMMA RevokeKeeps ==
    ASSUME IdentityInv, UNCHANGED <<jar, tab>>, NEW p \in Callers, Revoke(p)
    PROVE  IdentityInv'
<1>1. /\ calls[p].pc = "revoking" /\ calls[p].op = "logout" /\ Goes(p, "parting")
      /\ users' = users /\ evidence' = evidence
  BY DEF Revoke, At
<1>2. calls[p].result = Null /\ calls[p] \in Calls /\ CallHolds(calls[p])
  BY <1>1, CallHand
<1>3. PICK t \in Tokens : t = calls[p].token /\ Granted(t) /\ t # Null
  BY <1>1, <1>2 DEF CallHolds, LogoutHolds, Granted
<1>4. sessions' = [sessions EXCEPT ![t].is = "revoked"] /\ sessions[t] # Null
  BY <1>3 DEF Revoke, Revoked, Granted, GrantAudited
<1>5. ServerGoes /\ ~Live(t)'
  BY <1>1, <1>4, CallHand, SessionEnds
<1>6. PICK c : c = [calls[p] EXCEPT !.pc = "parting"]
  OBVIOUS
<1>7. /\ c \in Calls /\ c.pc = "parting" /\ c.op = "logout"
      /\ c.token = t /\ c.result = Null
  BY <1>1, <1>2, <1>3, <1>6 DEF Calls
<1>8. c.heard <=> calls[p].heard
  BY <1>2, <1>6 DEF Calls
<1>9. CallHolds(c)'
  BY <1>3, <1>5, <1>7, GrantStays, NullApart DEF CallHolds, LogoutHolds
<1>10. calls' = [calls EXCEPT ![p] = c]
  BY <1>1, <1>6 DEF Goes
<1> QED
  BY <1>1, <1>2, <1>5, <1>7, <1>8, <1>9, <1>10, CallTurned

\* A logout reports success after its session has ended.
LEMMA AuditLogoutKeeps ==
    ASSUME IdentityInv, UNCHANGED <<jar, tab>>, NEW p \in Callers, AuditLogout(p)
    PROVE  IdentityInv'
<1>1. /\ calls[p].pc = "parting" /\ calls[p].op = "logout" /\ Succeeds(p)
      /\ users' = users /\ sessions' = sessions
  BY DEF AuditLogout, At
<1>2. calls[p].result = Null /\ calls[p] \in Calls /\ CallHolds(calls[p])
  BY <1>1, CallHand
<1>3. PICK t \in Tokens : t = calls[p].token /\ Granted(t) /\ t # Null /\ ~Live(t)
  BY <1>1, <1>2 DEF CallHolds, LogoutHolds, Granted
<1>4. PICK n : n = calls[p].name
  OBVIOUS
<1>5. n \in Names \cup {Null}
  BY <1>2, <1>4 DEF Calls
<1>6. PICK m \in Names : m = sessions[t].user
  BY <1>3, CallHand DEF Granted, GrantAudited, TypeOK, Sessions
<1>7. evidence' = evidence \cup {Event("LOGOUT", "SUCCESS", m, t)}
  BY <1>3, <1>6 DEF AuditLogout
<1>8. Event("LOGOUT", "SUCCESS", m, t) \in Events
  BY DEF Event, Events
<1>9. ServerGoes
  BY <1>1, <1>7, <1>8, CallHand DEF ServerGoes, TypeOK, SessionsFounded
<1>10. Granted(t)' /\ ~Live(t)'
  BY <1>3, <1>9, GrantStays, EndedStays
<1> QED
  BY <1>1, <1>2, <1>3, <1>4, <1>5, <1>9, <1>10, CallHand, SuccessKeepsName, CallSucceeds

\* A call that fails changes nothing on the server.
LEMMA FailKeeps ==
    ASSUME IdentityInv, UNCHANGED <<jar, tab>>, NEW p \in Callers, Fail(p)
    PROVE  IdentityInv'
<1>1. Server /\ calls[p].result = Null /\ Errs(p)
  BY CallHand DEF Fail, Server
<1> QED
  BY <1>1, CallHand, ServerRests, CallErrs

\* An expiry ends one session and touches nothing else.
LEMMA ExpireKeeps ==
    ASSUME IdentityInv, UNCHANGED <<jar, tab>>, NEW t \in Tokens, Expire(t)
    PROVE  IdentityInv'
<1>1. sessions[t] # Null /\ sessions' = [sessions EXCEPT ![t].is = "expired"]
  BY DEF Expire, Live
<1>2. users' = users /\ evidence' = evidence /\ calls' = calls
  BY DEF Expire
<1>3. ServerGoes
  BY <1>1, <1>2, CallHand, SessionEnds DEF IdentityInv
<1>4. TabHolds'
  BY <1>3, TabStands DEF IdentityInv
<1>5. ASSUME NEW p \in Callers PROVE CallHolds(calls[p])' /\ HeardFits(p)'
  <2>1. PICK c \in Calls : c = calls[p] /\ CallHolds(c)
    BY CallHand
  <2>2. CallHolds(c)' /\ calls'[p] = c
    BY <1>2, <1>3, <2>1, CallStands
  <2>3. CallHolds(calls[p])'
    BY <2>2 DEF CallHolds, LoginHolds, SessionHolds, LogoutHolds, CommandHolds
  <2>4. HeardFits(p)'
    BY <1>2 DEF IdentityInv, HeardFits, SessionFits, LoginFits
  <2> QED
    BY <2>3, <2>4
<1>6. TypeOK' /\ SessionsFounded'
  BY <1>2, <1>3 DEF IdentityInv, TypeOK, ServerGoes
<1> QED
  BY <1>4, <1>5, <1>6 DEF IdentityInv

\* Every step of the server keeps the invariant.
LEMMA ServeKeeps ==
    ASSUME IdentityInv, UNCHANGED <<jar, tab>>, NEW p \in Callers, Serve(p)
    PROVE  IdentityInv'
BY RunCommandKeeps, LookForAnyUserKeeps, FoundKeeps, ReadOnlyUserKeeps, RotateKeeps,
   ReadUserKeeps, CreateSessionKeeps, AuditLoginKeeps, AuditDeniedKeeps, AuthenticateKeeps,
   ReadSessionKeeps, ValidateCsrfKeeps, RevokeKeeps, AuditLogoutKeeps, FailKeeps DEF Serve

-----------------------------------------------------------------------------
(* A step of the tab, with one call of its own.                            *)
LEMMA TabTurned ==
    ASSUME IdentityInv, Server, NEW p \in Callers,
           NEW c \in Calls, CallHolds(c), calls' = [calls EXCEPT ![p] = c],
           jar' \in Tokens \cup {Null}, tab' \in Tabs, TabHolds',
           HeardFits(p)', \A q \in Callers \ {p} : HeardFits(q)'
    PROVE  IdentityInv'
<1>1. ServerGoes
  BY CallHand, ServerRests
<1>2. /\ calls' \in [Callers -> Calls] /\ calls'[p] = c
      /\ \A q \in Callers \ {p} : calls'[q] = calls[q]
  BY DEF IdentityInv, TypeOK
<1>3. ASSUME NEW q \in Callers PROVE CallHolds(calls[q])'
  <2>1. PICK d \in Calls : d = calls'[q] /\ CallHolds(d)
    BY <1>2, CallHand
  <2>2. CallHolds(d)'
    BY <1>1, <2>1, CallStands
  <2> QED
    BY <2>1, <2>2 DEF CallHolds, LoginHolds, SessionHolds, LogoutHolds, CommandHolds
<1>4. TypeOK' /\ SessionsFounded'
  BY <1>1, <1>2 DEF IdentityInv, TypeOK, ServerGoes
<1> QED
  BY <1>3, <1>4 DEF IdentityInv

(* A request that nobody hears any more.                                   *)
LEMMA UnheardHolds ==
    ASSUME NEW c \in Calls, CallHolds(c)
    PROVE  /\ Unheard(c) \in Calls /\ CallHolds(Unheard(c)) /\ ~Unheard(c).heard
<1>1. CASE Unheard(c) = Idle
  BY <1>1, IdleHolds
<1>2. CASE Unheard(c) # Idle
  <2>1. PICK d : d = [c EXCEPT !.heard = FALSE]
    OBVIOUS
  <2>2. Unheard(c) = d
    BY <1>2, <2>1 DEF Unheard
  <2>3. /\ d.pc = c.pc /\ d.op = c.op /\ d.name = c.name /\ d.password = c.password
        /\ d.token = c.token /\ d.result = c.result /\ ~d.heard
    BY <2>1 DEF Calls
  <2>4. d \in Calls
    BY <2>1 DEF Calls
  <2>5. CallHolds(d)
    BY <2>3 DEF CallHolds, LoginHolds, SessionHolds, LogoutHolds, CommandHolds
  <2> QED
    BY <2>2, <2>3, <2>4, <2>5
<1> QED
  BY <1>1, <1>2
\* A call just sent with the browser's cookie holds nothing but what the cookie does.
LEMMA AskedHolds ==
    ASSUME IdentityInv, NEW op \in {"session", "logout"}, NEW c \in Calls,
           c.pc = "asked", c.op = op, c.token = jar, c.result = Null
    PROVE  CallHolds(c)
<1>1. jar \in Tokens \cup {Null} /\ (jar # Null => GrantAudited(jar))
  BY DEF IdentityInv, TypeOK, TabHolds, HeldSessionsAudited
<1> QED
  BY <1>1, NullApart DEF CallHolds, SessionHolds, LogoutHolds, Granted

\* A reload forgets the tab and asks for the session of the cookie.
LEMMA ReloadKeeps ==
    ASSUME IdentityInv, NEW p \in Callers, Reload(p)
    PROVE  IdentityInv'
<1>1. /\ Server /\ jar' = jar /\ tab' = Loading
      /\ calls' = [q \in Callers |-> IF q = p THEN Request("session") ELSE Unheard(calls[q])]
  BY DEF Reload, Server
<1>2. ServerGoes
  BY <1>1, CallHand, ServerRests
<1>3. PICK c : c = Request("session")
  OBVIOUS
<1>4. c.pc = "asked" /\ c.op = "session" /\ c.token = jar /\ c.result = Null /\ c.heard
  BY <1>3 DEF Request, Idle
<1>5. c \in Calls
  BY <1>3, CallHand DEF Request, Idle, Calls, Operations, TypeOK
<1>6. CallHolds(c)
  BY <1>4, <1>5, AskedHolds
<1>7. /\ calls'[p] = c
      /\ \A q \in Callers \ {p} : calls'[q] = Unheard(calls[q])
  BY <1>1, <1>3
<1>8. ASSUME NEW q \in Callers
      PROVE  /\ calls'[q] \in Calls /\ CallHolds(calls'[q])
             /\ q # p => ~calls'[q].heard
  BY <1>5, <1>6, <1>7, CallHand, UnheardHolds
<1>9. ASSUME NEW q \in Callers PROVE CallHolds(calls[q])'
  <2>1. PICK d \in Calls : d = calls'[q] /\ CallHolds(d)
    BY <1>8
  <2>2. CallHolds(d)'
    BY <1>2, <2>1, CallStands
  <2> QED
    BY <2>1, <2>2 DEF CallHolds, LoginHolds, SessionHolds, LogoutHolds, CommandHolds
<1>10. tab' \in Tabs /\ tab'.shown = "loading" /\ tab'.csrf = Null
  BY <1>1 DEF Loading, Tabs
<1>11. ASSUME NEW q \in Callers PROVE HeardFits(q)'
  <2>1. CASE q = p
    BY <1>1, <1>4, <1>7, <1>8, <1>10, <2>1 DEF HeardFits, SessionFits
  <2>2. CASE q # p
    BY <1>8, <2>2 DEF HeardFits
  <2> QED
    BY <2>1, <2>2
<1>12. TabHolds'
  BY <1>1, <1>10, CallHand DEF IdentityInv, TabHolds, HeldSessionsAudited, CsrfFitsCookie,
                               GrantAudited, Server
<1>13. calls' \in [Callers -> Calls]
  BY <1>1, <1>8
<1>14. TypeOK' /\ SessionsFounded'
  BY <1>1, <1>2, <1>10, <1>13 DEF IdentityInv, TypeOK, ServerGoes
<1> QED
  BY <1>9, <1>11, <1>12, <1>14 DEF IdentityInv

\* Submitting a login holds nothing yet.
LEMMA SubmitLoginKeeps ==
    ASSUME IdentityInv, NEW p \in Callers, NEW n \in Names, NEW w \in Passwords,
           SubmitLogin(p, n, w)
    PROVE  IdentityInv'
<1>1. /\ Server /\ jar' = jar /\ tab' = [tab EXCEPT !.submitting = TRUE]
      /\ tab.shown = "anonymous" /\ ~tab.submitting /\ tab \in Tabs
      /\ calls' = [calls EXCEPT ![p] = LoginRequest(n, w)]
  BY CallHand DEF SubmitLogin, Server, TypeOK
<1>2. PICK c : c = LoginRequest(n, w)
  OBVIOUS
<1>3. /\ c.pc = "asked" /\ c.op = "login" /\ c.name = n /\ c.password = w
      /\ c.result = Null /\ c.heard
  BY <1>2 DEF LoginRequest, Request, Idle
<1>4. c \in Calls
  BY <1>2 DEF LoginRequest, Request, Idle, Calls, Operations
<1>5. CallHolds(c)
  BY <1>3, NullApart DEF CallHolds, LoginHolds
<1>6. /\ calls'[p] = c /\ \A q \in Callers \ {p} : calls'[q] = calls[q]
      /\ calls' = [calls EXCEPT ![p] = c]
  BY <1>1, <1>2, CallHand DEF TypeOK
<1>7. /\ tab' \in Tabs /\ tab'.shown = "anonymous" /\ tab'.csrf = tab.csrf
      /\ tab'.user = tab.user /\ tab'.submitting
  BY <1>1 DEF Tabs
<1>8. TabHolds'
  BY <1>1, <1>7 DEF IdentityInv, TabHolds, HeldSessionsAudited, CsrfFitsCookie, GrantAudited,
                    Server
<1>9. \A q \in Callers : calls[q].heard => calls[q].op \notin {"session", "login"}
  BY <1>1 DEF IdentityInv, HeardFits, SessionFits, LoginFits
<1>10. \A q \in Callers \ {p} : calls[q].heard => calls[q].op = "logout"
  BY <1>9, CallHand DEF CallHolds
<1>11. HeardFits(p)'
  BY <1>3, <1>6, <1>7, <1>10 DEF HeardFits, LoginFits
<1>12. \A q \in Callers \ {p} : HeardFits(q)'
  BY <1>6, <1>9 DEF HeardFits
<1>13. jar' \in Tokens \cup {Null}
  BY <1>1, CallHand DEF TypeOK
<1> QED
  BY <1>1, <1>4, <1>5, <1>6, <1>7, <1>8, <1>11, <1>12, <1>13, TabTurned

\* A click on logout sends the cookie's token.
LEMMA ClickLogoutKeeps ==
    ASSUME IdentityInv, NEW p \in Callers, ClickLogout(p)
    PROVE  IdentityInv'
<1>1. /\ Server /\ jar' = jar /\ tab' = tab /\ tab.shown = "authenticated" /\ tab \in Tabs
      /\ calls' = [calls EXCEPT ![p] = [Request("logout") EXCEPT !.csrf = tab.csrf]]
  BY CallHand DEF ClickLogout, Server, TypeOK
<1>2. PICK c : c = [Request("logout") EXCEPT !.csrf = tab.csrf]
  OBVIOUS
<1>3. c.pc = "asked" /\ c.op = "logout" /\ c.token = jar /\ c.result = Null
  BY <1>2 DEF Request, Idle
<1>4. c \in Calls
  BY <1>1, <1>2, CallHand DEF Request, Idle, Calls, Operations, TypeOK, Tabs
<1>5. CallHolds(c)
  BY <1>3, <1>4, AskedHolds
<1>6. /\ calls'[p] = c /\ \A q \in Callers \ {p} : calls'[q] = calls[q]
      /\ calls' = [calls EXCEPT ![p] = c]
  BY <1>1, <1>2, CallHand DEF TypeOK
<1>7. TabHolds'
  BY <1>1 DEF IdentityInv, TabHolds, HeldSessionsAudited, CsrfFitsCookie, GrantAudited, Server
<1>8. \A q \in Callers : calls[q].heard => calls[q].op \notin {"session", "login"}
  BY <1>1 DEF IdentityInv, HeardFits, SessionFits, LoginFits
<1>9. HeardFits(p)' /\ \A q \in Callers \ {p} : HeardFits(q)'
  BY <1>3, <1>6, <1>8 DEF HeardFits
<1>10. jar' \in Tokens \cup {Null} /\ tab' \in Tabs
  BY <1>1, CallHand DEF TypeOK
<1> QED
  BY <1>1, <1>4, <1>5, <1>6, <1>7, <1>9, <1>10, TabTurned

\* An answer that arrives sets or clears the cookie with what it carries.
LEMMA ArriveKeeps ==
    ASSUME IdentityInv, NEW p \in Callers, Arrive(p)
    PROVE  IdentityInv'
<1>1. /\ Server /\ tab' = tab /\ calls[p].pc = "answered" /\ calls[p].heard /\ Goes(p, "arrived")
  BY DEF Arrive, Server
<1>2. calls[p] \in Calls /\ CallHolds(calls[p]) /\ HeardFits(p) /\ tab \in Tabs
  BY CallHand DEF IdentityInv, TypeOK
<1>3. PICK c : c = [calls[p] EXCEPT !.pc = "arrived"]
  OBVIOUS
<1>4. /\ c \in Calls /\ c.pc = "arrived" /\ c.op = calls[p].op /\ c.name = calls[p].name
      /\ c.token = calls[p].token /\ c.result = calls[p].result
  BY <1>2, <1>3 DEF Calls
<1>5. c.heard
  BY <1>1, <1>2, <1>3 DEF Calls
<1>6. CallHolds(c)
  BY <1>1, <1>2, <1>4, <1>5 DEF CallHolds, LoginHolds, SessionHolds, LogoutHolds
<1>7. /\ calls'[p] = c /\ \A q \in Callers \ {p} : calls'[q] = calls[q]
      /\ calls' = [calls EXCEPT ![p] = c]
  BY <1>1, <1>3, CallHand DEF Goes, TypeOK
<1>8. c.op \in {"login", "session", "logout"}
  BY <1>5, <1>6 DEF CallHolds
<1>9. jar' = IF c.result # "ok" \/ c.op = "session" THEN jar
             ELSE IF c.op = "login" THEN c.token ELSE Null
  BY <1>4 DEF Arrive
<1>10. c.op = "login" /\ c.result = "ok" => c.token \in Tokens /\ GrantAudited(c.token)
  BY <1>6 DEF CallHolds, LoginHolds, Granted
<1>11. jar \in Tokens \cup {Null} /\ (jar # Null => GrantAudited(jar))
  BY CallHand DEF IdentityInv, TypeOK, TabHolds, HeldSessionsAudited
<1>12. jar' \in Tokens \cup {Null} /\ (jar' # Null => GrantAudited(jar)')
  <2>1. PICK j : j = jar'
    OBVIOUS
  <2>2. j \in Tokens \cup {Null} /\ (j # Null => GrantAudited(j))
    BY <1>9, <1>10, <1>11, <2>1
  <2> QED
    BY <1>1, <2>1, <2>2 DEF GrantAudited, Server
<1>13. c.op = "login" => tab.shown = "anonymous"
  BY <1>1, <1>2, <1>4 DEF HeardFits, LoginFits
<1>14. CsrfFitsCookie'
  BY <1>1, <1>9, <1>13 DEF IdentityInv, TabHolds, CsrfFitsCookie
<1>15. TabHolds'
  BY <1>1, <1>12, <1>14 DEF IdentityInv, TabHolds, HeldSessionsAudited, GrantAudited, Server
<1>16. HeardFits(p)'
  BY <1>1, <1>2, <1>4, <1>5, <1>7, <1>9 DEF HeardFits, SessionFits, LoginFits
<1>17. ASSUME NEW q \in Callers \ {p} PROVE HeardFits(q)'
  <2>1. HeardFits(q)
    BY DEF IdentityInv
  <2>2. CASE c.op = "logout"
    BY <1>1, <1>4, <1>5, <1>7, <1>9, <2>1, <2>2 DEF HeardFits, SessionFits, LoginFits
  <2>3. CASE c.op # "logout"
    BY <1>1, <1>2, <1>4, <1>5, <1>7, <1>8, <2>1, <2>3 DEF HeardFits, SessionFits, LoginFits
  <2> QED
    BY <2>2, <2>3
<1> QED
  BY <1>1, <1>2, <1>4, <1>6, <1>7, <1>12, <1>15, <1>16, <1>17, TabTurned
(* The tab shows the outcome of a call that nobody hears any more.         *)
LEMMA ShowsKeeps ==
    ASSUME IdentityInv, Server, NEW p \in Callers, calls[p].heard,
           NEW result, NEW n, NEW t, Shows(calls[p].op, result, n, t),
           result = "ok" => /\ calls[p].result = "ok" /\ calls[p].pc = "arrived"
                            /\ n = calls[p].name /\ t = calls[p].token,
           jar' = jar, NEW c \in Calls, CallHolds(c), ~c.heard,
           calls' = [calls EXCEPT ![p] = c]
    PROVE  IdentityInv'
<1>1. /\ calls[p] \in Calls /\ CallHolds(calls[p]) /\ HeardFits(p)
      /\ tab \in Tabs /\ jar \in Tokens \cup {Null}
  BY CallHand DEF IdentityInv, TypeOK
<1>2. /\ calls'[p] = c /\ \A q \in Callers \ {p} : calls'[q] = calls[q]
  BY CallHand DEF TypeOK
<1>3. HeardFits(p)'
  BY <1>2 DEF HeardFits
<1>4. /\ jar # Null => GrantAudited(jar)'
      /\ tab.csrf # Null => GrantAudited(tab.csrf) /\ sessions'[tab.csrf].user = tab.user
      /\ tab.shown = "authenticated" <=> tab.csrf # Null
      /\ tab.shown = "authenticated" => jar \in {tab.csrf, Null}
  BY DEF IdentityInv, TabHolds, HeldSessionsAudited, CsrfFitsCookie, GrantAudited, Server
<1>5. ASSUME NEW q \in Callers \ {p}, calls[q].heard
      PROVE  /\ calls[q].op # "session"
             /\ calls[q].op = "login" => calls[p].op = "logout" /\ LoginFits(q)
             /\ calls[p].op # "session"
  BY <1>1, <1>5 DEF IdentityInv, HeardFits, SessionFits, LoginFits
<1>6. CASE calls[p].op \in {"login", "session"} /\ result = "ok" /\ tab' = SignedInAs(n, t)
  <2>1. Opened(t, n) /\ GrantAudited(t) /\ t \in Tokens /\ n \in Names
    <3>1. Opened(t, n) /\ t # Null
      BY <1>1, <1>6, NullApart DEF CallHolds, LoginHolds, SessionHolds, Opened
    <3>2. Granted(t)
      BY <1>1, <1>6, <3>1 DEF CallHolds, LoginHolds, SessionHolds
    <3> QED
      BY <3>1, <3>2, CallHand DEF Opened, Granted, TypeOK, Sessions
  <2>2. /\ tab' \in Tabs /\ tab'.shown = "authenticated" /\ tab'.csrf = t /\ tab'.user = n
    BY <1>6, <2>1 DEF SignedInAs, Tabs
  <2>3. jar \in {t, Null}
    BY <1>1, <1>6, NullApart DEF HeardFits, SessionFits, LoginFits
  <2>4. TabHolds'
    BY <1>4, <2>1, <2>2, <2>3, NullApart
    DEF TabHolds, HeldSessionsAudited, CsrfFitsCookie, GrantAudited, Server, Opened
  <2>5. \A q \in Callers \ {p} : HeardFits(q)'
    BY <1>2, <1>5, <1>6 DEF HeardFits
  <2> QED
    BY <1>1, <1>3, <2>2, <2>4, <2>5, TabTurned
<1>7. CASE calls[p].op = "session" /\ tab' = Anonymous
  <2>1. tab' \in Tabs /\ tab'.shown = "anonymous" /\ tab'.csrf = Null
    BY <1>7 DEF Anonymous, Loading, Tabs
  <2>2. TabHolds'
    BY <1>4, <2>1 DEF TabHolds, HeldSessionsAudited, CsrfFitsCookie, GrantAudited, Server
  <2>3. \A q \in Callers \ {p} : HeardFits(q)'
    BY <1>2, <1>5, <1>7 DEF HeardFits
  <2> QED
    BY <1>1, <1>3, <2>1, <2>2, <2>3, TabTurned
<1>8. CASE calls[p].op = "login" /\ tab' = [tab EXCEPT !.submitting = FALSE]
  <2>1. tab' \in Tabs /\ tab'.shown = tab.shown /\ tab'.csrf = tab.csrf /\ tab'.user = tab.user
    BY <1>1, <1>8 DEF Tabs
  <2>2. TabHolds'
    BY <1>4, <2>1 DEF TabHolds, HeldSessionsAudited, CsrfFitsCookie, GrantAudited, Server
  <2>3. \A q \in Callers \ {p} : HeardFits(q)'
    BY <1>2, <1>5, <1>8 DEF HeardFits
  <2> QED
    BY <1>1, <1>3, <2>1, <2>2, <2>3, TabTurned
<1>9. CASE /\ calls[p].op = "logout"
           /\ tab' = [tab EXCEPT !.shown = "anonymous", !.user = Null, !.csrf = Null]
  <2>1. tab' \in Tabs /\ tab'.shown = "anonymous" /\ tab'.csrf = Null
    BY <1>1, <1>9 DEF Tabs
  <2>2. TabHolds'
    BY <1>4, <2>1 DEF TabHolds, HeldSessionsAudited, CsrfFitsCookie, GrantAudited, Server
  <2>3. tab'.submitting <=> tab.submitting
    BY <1>1, <1>9 DEF Tabs
  <2>4. \A q \in Callers \ {p} : HeardFits(q)'
    BY <1>2, <1>5, <2>1, <2>3 DEF HeardFits, LoginFits
  <2> QED
    BY <1>1, <1>3, <2>1, <2>2, <2>4, TabTurned
<1> QED
  BY <1>6, <1>7, <1>8, <1>9 DEF Shows

\* A tab that handles an answer shows what the answer says.
LEMMA HandleKeeps ==
    ASSUME IdentityInv, NEW p \in Callers, Handle(p)
    PROVE  IdentityInv'
<1>1. /\ Server /\ jar' = jar /\ calls[p].pc = "arrived" /\ calls[p].heard
      /\ calls' = [calls EXCEPT ![p] = Idle]
  BY DEF Handle, Server
<1>2. PICK r, n, t : r = calls[p].result /\ n = calls[p].name /\ t = calls[p].token
  OBVIOUS
<1>3. Shows(calls[p].op, r, n, t)
  BY <1>2 DEF Handle
<1> QED
  BY <1>1, <1>2, <1>3, IdleHolds, ShowsKeeps

\* A lost connection shows an error and no session.
LEMMA DisconnectKeeps ==
    ASSUME IdentityInv, NEW p \in Callers, Disconnect(p)
    PROVE  IdentityInv'
<1>1. /\ Server /\ jar' = jar /\ calls[p].heard /\ Shows(calls[p].op, "error", Null, Null)
      /\ calls' = [calls EXCEPT ![p] = Unheard(calls[p])]
  BY DEF Disconnect, Server
<1>2. PICK c \in Calls : c = Unheard(calls[p]) /\ CallHolds(c) /\ ~c.heard
  BY CallHand, UnheardHolds
<1>3. calls' = [calls EXCEPT ![p] = c]
  BY <1>1, <1>2
<1> QED
  BY <1>1, <1>2, <1>3, ShowsKeeps

(* A rejected promise sets no state: a new tab keeps loading, a form keeps *)
(* submitting.                                                             *)
LEMMA BodyLostKeeps ==
    ASSUME IdentityInv, NEW p \in Callers, BodyLost(p)
    PROVE  IdentityInv'
<1>1. /\ Server /\ jar' = jar /\ tab' = tab
      /\ calls' = [calls EXCEPT ![p] = Idle]
  BY DEF BodyLost, Server
<1>2. /\ calls'[p] = Idle /\ \A q \in Callers \ {p} : calls'[q] = calls[q]
  BY <1>1, CallHand DEF TypeOK
<1>3. HeardFits(p)'
  BY <1>2, IdleHolds DEF HeardFits
<1>4. \A q \in Callers \ {p} : HeardFits(q)'
  BY <1>1, <1>2, IdleHolds DEF IdentityInv, HeardFits, SessionFits, LoginFits
<1>5. TabHolds'
  BY <1>1 DEF IdentityInv, TabHolds, HeldSessionsAudited, CsrfFitsCookie, GrantAudited, Server
<1>6. jar' \in Tokens \cup {Null} /\ tab' \in Tabs
  BY <1>1, CallHand DEF TypeOK
<1> QED
  BY <1>1, <1>3, <1>4, <1>5, <1>6, IdleHolds, TabTurned

-----------------------------------------------------------------------------
\* The invariant holds initially.
LEMMA IdentityInvInit == TabInit => IdentityInv
<1> SUFFICES ASSUME TabInit PROVE IdentityInv
  OBVIOUS
<1>1. Loading \in Tabs /\ Loading.csrf = Null /\ Loading.shown = "loading"
  BY DEF Loading, Tabs
<1>2. TypeOK
  BY <1>1, IdleHolds DEF TabInit, InitServer, TypeOK
<1>3. SessionsFounded /\ TabHolds
  BY <1>1 DEF TabInit, InitServer, SessionsFounded, TabHolds, HeldSessionsAudited, CsrfFitsCookie
<1>4. \A p \in Callers : CallHolds(calls[p]) /\ HeardFits(p)
  BY IdleHolds DEF TabInit, InitServer, HeardFits
<1> QED
  BY <1>2, <1>3, <1>4 DEF IdentityInv

\* Every step of server and browser keeps the invariant.
LEMMA IdentityInvNext == IdentityInv /\ [TabNext]_tabVars => IdentityInv'
<1> SUFFICES ASSUME IdentityInv, [TabNext]_tabVars PROVE IdentityInv'
  OBVIOUS
<1>1. CASE UNCHANGED tabVars
  BY <1>1 DEF tabVars, IdentityInv, TypeOK, SessionsFounded, TabHolds, HeldSessionsAudited,
              CsrfFitsCookie, GrantAudited, CallHolds, LoginHolds, SessionHolds, LogoutHolds,
              CommandHolds, Opened, Granted, Live, HeardFits, SessionFits, LoginFits
<1>2. CASE TabNext
  BY <1>2, ServeKeeps, SubmitLoginKeeps, ReloadKeeps, ClickLogoutKeeps, ArriveKeeps,
     HandleKeeps, BodyLostKeeps, DisconnectKeeps, ExpireKeeps DEF TabNext
<1> QED
  BY <1>1, <1>2

\* The inductive invariant of identity holds of every behaviour.
LEMMA IdentityInvariance == TabSpec => []IdentityInv
  BY IdentityInvInit, IdentityInvNext, PTL DEF TabSpec

(* Users, sessions, events, calls, the cookie and the tab keep to their    *)
(* shapes.                                                                 *)
THEOREM IdentityTyped == TabSpec => []TypeOK
<1>1. IdentityInv => TypeOK
  BY DEF IdentityInv
<1> QED
  BY <1>1, IdentityInvariance, PTL

(* Every session that is held, in the cookie or on the screen, was opened  *)
(* for that user by a login whose SUCCESS event is in the trail.           *)
THEOREM HeldSessionsAlwaysAudited == TabSpec => []HeldSessionsAudited
<1>1. IdentityInv => HeldSessionsAudited
  BY DEF IdentityInv, TabHolds
<1> QED
  BY <1>1, IdentityInvariance, PTL

(* The token of one session never goes with the cookie of another.         *)
THEOREM CsrfAlwaysFitsCookie == TabSpec => []CsrfFitsCookie
<1>1. IdentityInv => CsrfFitsCookie
  BY DEF IdentityInv, TabHolds
<1> QED
  BY <1>1, IdentityInvariance, PTL

(* A logout that reports success has ended its session for good.           *)
THEOREM LogoutEndsSession == TabSpec => []SignedOutIsOver
<1>1. IdentityInv => SignedOutIsOver
  BY DEF IdentityInv, CallHolds, LogoutHolds, SignedOutIsOver
<1> QED
  BY <1>1, IdentityInvariance, PTL

-----------------------------------------------------------------------------
(* A step that touches neither users nor lets a session live makes no      *)
(* session outdated.                                                       *)
LEMMA NothingOutdated ==
    ASSUME NEW t \in Tokens, Outdated(t)', ~Outdated(t), users' = users,
           sessions' = sessions
    PROVE  FALSE
BY DEF Outdated, Live

(* Only a login that had verified the old password opens a session that a  *)
(* reset should have ended.                                                *)
THEOREM ResetEndsTheRest == TabSpec => OnlyOvertakenLoginsOutliveReset
<1> DEFINE Overtaken(t) ==
      /\ sessions[t] = Null
      /\ \E p \in Callers : At(p, "verified", "login") /\ calls[p].name = sessions'[t].user
<1>1. ASSUME IdentityInv, TabNext, NEW t \in Tokens, Outdated(t)', ~Outdated(t)
      PROVE  Overtaken(t)
  <2>1. CASE users' = users /\ sessions' = sessions
    BY <1>1, <2>1, NothingOutdated
  <2>2. ASSUME NEW p \in Callers, Found(p) PROVE Overtaken(t)
    <3>1. PICK n \in Names : users[n] = Null /\ sessions' = sessions
                             /\ \A m \in Names : m # n => users'[m] = users[m]
      BY <1>1, <2>2, CallHand DEF Found, CallHolds, CommandHolds, At, TypeOK
    <3>2. Live(t) /\ sessions[t] # Null
      BY <1>1, <3>1 DEF Outdated, Live
    <3>3. sessions[t].user \in Names /\ sessions[t].user # n
      BY <1>1, <3>1, <3>2, CallHand DEF SessionsFounded, TypeOK, Sessions
    <3> QED
      BY <1>1, <3>1, <3>2, <3>3 DEF Outdated
  <2>3. ASSUME NEW p \in Callers, Rotate(p) PROVE Overtaken(t)
    <3>1. PICK n \in Names :
             /\ \A m \in Names : m # n => users'[m] = users[m]
             /\ sessions'[t] = IF sessions[t] # Null /\ sessions[t].user = n
                               THEN [sessions[t] EXCEPT !.is = "revoked"] ELSE sessions[t]
      BY <1>1, <2>3, CallHand DEF Rotate, CallHolds, CommandHolds, At, TypeOK
    <3>2. sessions[t] \in Sessions \cup {Null}
      BY <1>1, CallHand DEF TypeOK
    <3>3. ~(sessions[t] # Null /\ sessions[t].user = n)
      <4> SUFFICES ASSUME sessions[t] # Null, sessions[t].user = n PROVE FALSE
        OBVIOUS
      <4>1. sessions'[t] = [sessions[t] EXCEPT !.is = "revoked"] /\ sessions[t] \in Sessions
        BY <3>1, <3>2
      <4>2. sessions'[t].is = "revoked"
        BY <4>1 DEF Sessions
      <4> QED
        BY <1>1, <4>2 DEF Outdated, Live
    <3>4. sessions'[t] = sessions[t] /\ sessions[t] # Null
      BY <1>1, <3>1, <3>3 DEF Outdated, Live
    <3> QED
      BY <1>1, <3>1, <3>2, <3>3, <3>4 DEF Outdated, Live, Sessions
  <2>4. ASSUME NEW p \in Callers, CreateSession(p) PROVE Overtaken(t)
    <3>1. PICK u \in Tokens :
             /\ sessions[u] = Null /\ At(p, "verified", "login") /\ users' = users
             /\ sessions' = [sessions EXCEPT ![u] =
                  [user |-> calls[p].name, proof |-> calls[p].password, is |-> "valid"]]
      BY <2>4 DEF CreateSession
    <3>2. /\ sessions'[u].user = calls[p].name
          /\ \A v \in Tokens \ {u} : sessions'[v] = sessions[v]
      BY <3>1, <1>1, CallHand DEF TypeOK
    <3>3. t = u
      BY <1>1, <3>1, <3>2 DEF Outdated, Live
    <3> QED
      BY <3>1, <3>2, <3>3
  <2>5. ASSUME NEW u \in Tokens, sessions[u] # Null, users' = users, evidence' = evidence,
               NEW how \in {"revoked", "expired"}, sessions' = [sessions EXCEPT ![u].is = how]
        PROVE  Overtaken(t)
    <3>1. ServerGoes /\ (Live(t)' => Live(t))
      BY <1>1, <2>5, SessionEnds DEF IdentityInv
    <3>2. sessions'[t].user = sessions[t].user /\ sessions'[t].proof = sessions[t].proof
      BY <1>1, <2>5, CallHand DEF TypeOK, Sessions
    <3> QED
      BY <1>1, <2>5, <3>1, <3>2 DEF Outdated
  <2>6. ASSUME NEW p \in Callers, Revoke(p) PROVE Overtaken(t)
    <3>1. PICK u \in Tokens : u = calls[p].token /\ sessions[u] # Null
      BY <1>1, <2>6, CallHand DEF Revoke, At, CallHolds, LogoutHolds, Granted, GrantAudited
    <3> QED
      BY <2>5, <2>6, <3>1 DEF Revoke, Revoked
  <2>7. ASSUME NEW u \in Tokens, Expire(u) PROVE Overtaken(t)
    BY <2>5, <2>7 DEF Expire, Live
  <2>8. ASSUME NEW p \in Callers, Serve(p), ~Found(p), ~Rotate(p), ~CreateSession(p), ~Revoke(p)
        PROVE  users' = users /\ sessions' = sessions
    BY <2>8 DEF Serve, RunBootstrap, LookForAnyUser, RunReset, ReadOnlyUser, ReadUser,
                AuditLogin, AuditDenied, Authenticate, ReadSession, ValidateCsrf, AuditLogout,
                Fail
  <2>9. ASSUME NEW p \in Callers,
               \/ \E n \in Names, w \in Passwords : SubmitLogin(p, n, w)
               \/ Reload(p) \/ ClickLogout(p) \/ Arrive(p) \/ Handle(p) \/ BodyLost(p)
               \/ Disconnect(p)
        PROVE  users' = users /\ sessions' = sessions
    BY <2>9 DEF SubmitLogin, Reload, ClickLogout, Arrive, Handle, BodyLost, Disconnect
  <2> QED
    BY <1>1, <2>1, <2>2, <2>3, <2>4, <2>6, <2>7, <2>8, <2>9 DEF TabNext
<1>2. ASSUME IdentityInv, [TabNext]_tabVars
      PROVE  [\A t \in Tokens : Outdated(t)' /\ ~Outdated(t) => Overtaken(t)]_tabVars
  BY <1>1, <1>2
<1> QED
  BY <1>2, IdentityInvariance, PTL DEF TabSpec, OnlyOvertakenLoginsOutliveReset
=============================================================================
