------------------------------ MODULE GridEdits ------------------------------
(***************************************************************************)
(* Editing in the results grid: cells are changed and rows added locally,  *)
(* then saved, row by row, into the table the tab is thought to show.      *)
(* Rows are found again by what identifies them, their key or all their    *)
(* values, and the batch is rolled back unless each write matches one row  *)
(* (applyGridWrites; GridWrites has its transactions).  A grid is filled   *)
(* by runs and by the refresh after a save, into whichever tab is active   *)
(* when they answer.                                                       *)
(***************************************************************************)
EXTENDS Integers, FiniteSets, Sequences, SequencesExt

CONSTANTS
    Tabs,           \* each on a database of its own
    Tables,         \* the tables of each database, all alike
    Ids,            \* bound: rows of a table, a set of numbers
    News,           \* bound: rows added in the grids and not saved yet
    Jobs,           \* bound: saves, removals, updates and runs at a time
    MaxEvents,      \* bound: what the user and other clients do
    Missing

Places == Tabs \X Tables
Slots == Ids \cup News
Columns == {"k", "v"}
Null == 0
Keys == 1..4        \* bound: values of the column k
Typed == {1, 2}     \* bound: values a user types
Cells == [k : Keys \cup {Null}, v : Typed \cup {Null}]

(* new: _isNew.  edited: the row was replaced by saveEdit.  orig: the       *)
(* values it was loaded with, _original once it is edited.                 *)
GridRows == [cells : Cells, new : BOOLEAN, edited : BOOLEAN, orig : Cells]
Grids == [Slots -> GridRows \cup {Missing}]

ASSUME IdsAssumption == Ids \subseteq Nat /\ {1, 2} \subseteq Ids /\ News \cap Ids = {}
ASSUME FiniteAssumption == IsFiniteSet(Ids) /\ IsFiniteSet(News) /\ MaxEvents \in Nat
ASSUME MissingAssumption == Missing \notin Cells /\ Missing \notin GridRows

VARIABLES
    key,            \* getPrimaryKey: no column, one called id, or another
    active,         \* the active tab
    name,           \* activeTableName, of each tab
    grid,           \* results, of each tab
    from,           \* history: where the rows of each grid were read
    last,           \* lastSelectQueryRef: the table of the last query with rows
    stored,         \* external: the tables
    job,
    copies,         \* history: how often a new row was stored since it was added
    again,          \* history: new rows that are pending though a save has them
    events

editVars == <<key, active, name, grid, from, last, stored, job, copies, again, events>>
editHistory == <<copies, again>>

JobRecords ==
    [pc : {"checking", "writing", "refreshing", "running"},
     kind : {"save", "delete", "update", "select", "command"},
     tab : Tabs, table : Tables, rows : Grids, to : Cells, from : Places,
     target : Tabs, query : Tables]

Nothing == [s \in Slots |-> Missing]
Idle == [pc |-> "none", kind |-> "none", rows |-> Nothing]

EditsTyped ==
    /\ key \in {"id", "other", "none"}
    /\ active \in Tabs
    /\ name \in [Tabs -> Tables]
    /\ grid \in [Tabs -> Grids]
    /\ from \in [Tabs -> Places]
    /\ last \in Tables
    /\ stored \in [Places -> [Ids -> Cells \cup {Missing}]]
    /\ job \in [Jobs -> JobRecords \cup {Idle}]
    /\ copies \in [News -> Nat]
    /\ again \subseteq News
    /\ events \in 0..MaxEvents

Keyed == key # "none"
Busy(j, kinds) == job[j].kind \in kinds
Pending(rows) == {s \in Slots : rows[s] # Missing /\ (rows[s].new \/ rows[s].edited)}

Fetched(p) ==
    [s \in Slots |->
        IF s \in Ids /\ stored[p][s] # Missing
        THEN [cells |-> stored[p][s], new |-> FALSE, edited |-> FALSE, orig |-> stored[p][s]]
        ELSE Missing]

Blank == [k |-> Null, v |-> Null]

EditsInit ==
    /\ key \in {"id", "other", "none"}
    /\ active \in Tabs
    /\ \E a \in Tables :
          /\ name = [t \in Tabs |-> a]
          /\ from = [t \in Tabs |-> <<t, a>>]
          /\ last = a
    /\ stored = [p \in Places |->
                    [i \in Ids |-> IF i \in {1, 2} THEN [k |-> i, v |-> 1] ELSE Missing]]
    /\ grid = [t \in Tabs |-> Fetched(from[t])]
    /\ job = [j \in Jobs |-> Idle]
    /\ copies = [n \in News |-> 0]
    /\ again = {}
    /\ events = 0

-----------------------------------------------------------------------------
(* Local edits                                                             *)

Event == events < MaxEvents /\ events' = events + 1

Show(rows) == grid' = [grid EXCEPT ![active] = rows]

(* saveEdit: the row keeps the values it was loaded with. *)
Edit(s, c) ==
    /\ Event
    /\ grid[active][s] # Missing
    /\ \E x \in Typed :
          LET row == grid[active][s]
              cells == [row.cells EXCEPT ![c] = x]
          IN  /\ row.cells[c] # x
              /\ Show([grid[active] EXCEPT ![s] = [row EXCEPT !.cells = cells, !.edited = TRUE]])
    /\ UNCHANGED <<key, active, name, from, last, stored, job, editHistory>>

(* handleAddRow: the buttons are disabled while changes are pending. *)
Added(n, cells) ==
    /\ Event
    /\ Pending(grid[active]) = {}
    /\ \A t \in Tabs : grid[t][n] = Missing
    /\ \A j \in Jobs : job[j].rows[n] = Missing
    /\ Show([grid[active] EXCEPT ![n] =
                [cells |-> cells, new |-> TRUE, edited |-> FALSE, orig |-> cells]])
    /\ copies' = [copies EXCEPT ![n] = 0]
    /\ again' = again \ {n}
    /\ UNCHANGED <<key, active, name, from, last, stored, job>>

AddRow(n) == Added(n, Blank)

(* A duplicate leaves out the column called id, and no other key. *)
Duplicate(n, s) ==
    /\ grid[active][s] # Missing
    /\ Added(n, IF key = "id" THEN [grid[active][s].cells EXCEPT !.k = Null]
                ELSE grid[active][s].cells)

(* onDiscard, when no row of the table was changed. *)
DiscardNew ==
    /\ Pending(grid[active]) # {}
    /\ \A s \in Pending(grid[active]) : grid[active][s].new
    /\ Show([s \in Slots |-> IF s \in News THEN Missing ELSE grid[active][s]])
    /\ UNCHANGED <<key, active, name, from, last, stored, job, editHistory, events>>

SwitchTab(t) ==
    /\ t # active
    /\ Event
    /\ active' = t
    /\ UNCHANGED <<key, name, grid, from, last, stored, job, editHistory>>

-----------------------------------------------------------------------------
(* Statements                                                              *)

Failed == Missing
Having(T, cells) == {i \in Ids : T[i] = cells}
WithKey(T, x) == {i \in Ids : T[i] # Missing /\ T[i].k = x}
Unique(T) == \A i, l \in Ids :
                i # l /\ T[i] # Missing /\ T[l] # Missing => T[i].k # T[l].k

(* handleSave: by the key the row has now, else by the values it had. *)
Matches(T, row) ==
    IF Keyed /\ row.cells.k # Null THEN WithKey(T, row.cells.k) ELSE Having(T, row.orig)

(* handleUpdateRow and handleDeleteRow: by what the row has now.  Without  *)
(* a key the marks of a changed row are taken for columns, and the         *)
(* statement fails, which leaves no match.                                 *)
MatchesNow(T, row) ==
    IF Keyed /\ row.cells.k # Null THEN WithKey(T, row.cells.k)
    ELSE IF row.edited THEN {} ELSE Having(T, row.cells)

(* The server refuses a key that is taken. *)
Checked(T) == IF Keyed /\ ~Unique(T) THEN Failed ELSE T

(* Mutant: every matching row is written. *)
ChangedAll(T, M, cells) == Checked([i \in Ids |-> IF i \in M THEN cells[i] ELSE T[i]])

(* applyGridWrites: no row matched its original values, or it can't be     *)
(* identified uniquely.                                                    *)
Changed(T, M, cells) ==
    IF Cardinality(M) # 1 THEN Failed
    ELSE Checked([i \in Ids |-> IF i \in M THEN cells[i] ELSE T[i]])

(* Only the cells that differ from the values the row was loaded with. *)
SetChanged(row, i, T) ==
    [c \in Columns |-> IF row.cells[c] = row.orig[c] THEN T[i][c] ELSE row.cells[c]]

Update(T, row) ==
    IF row.cells = row.orig THEN T
    ELSE Changed(T, Matches(T, row),
                 [i \in Ids |-> IF T[i] = Missing THEN Missing ELSE SetChanged(row, i, T)])

(* A column without a value gets its default: the key one that no user     *)
(* types and no row has, though one that was removed may have had it.      *)
Insert(T, row) ==
    LET free == {i \in Ids : T[i] = Missing}
        unused == {x \in Keys \ Typed : WithKey(T, x) = {}}
        x == IF Keyed /\ row.cells.k = Null THEN CHOOSE u \in unused : TRUE ELSE row.cells.k
    IN  IF free = {} \/ (Keyed /\ unused = {}) THEN Failed
        ELSE Checked([T EXCEPT ![CHOOSE i \in free : TRUE] =
                        [row.cells EXCEPT !.k = x]])

Write(T, row) ==
    IF T = Failed THEN Failed ELSE IF row.new THEN Insert(T, row) ELSE Update(T, row)

(* The new rows, then the edited ones; all of them or none. *)
Order(rows) == SetToSeq(Pending(rows) \cap News) \o SetToSeq(Pending(rows) \cap Ids)

SaveAll(T, rows) ==
    LET order == Order(rows)
        after[k \in 0 .. Len(order)] ==
            IF k = 0 THEN T ELSE Write(after[k - 1], rows[order[k]])
    IN  after[Len(order)]

Outcome(j) ==
    LET T == stored[<<job[j].target, job[j].table>>]
        s == CHOOSE s \in Slots : job[j].rows[s] # Missing
        row == job[j].rows[s]
    IN  CASE job[j].kind = "save" -> SaveAll(T, job[j].rows)
          [] job[j].kind = "delete" -> Changed(T, MatchesNow(T, row), [i \in Ids |-> Missing])
          [] job[j].kind = "update" ->
                Changed(T, MatchesNow(T, row), [i \in Ids |-> IF T[i] = Missing THEN Missing ELSE
                    SetChanged([cells |-> job[j].to, orig |-> row.cells], i, T)])

-----------------------------------------------------------------------------
(* Saving                                                                  *)

Starts(j, kind, pc, table, rows, to) ==
    /\ job[j] = Idle
    /\ Event
    /\ job' = [job EXCEPT ![j] =
                 [pc |-> pc, kind |-> kind, tab |-> active, table |-> table, rows |-> rows,
                  to |-> to, from |-> from[active], target |-> active, query |-> last]]

Only(s) == [x \in Slots |-> IF x = s THEN grid[active][s] ELSE Missing]
Ends(j) == job' = [job EXCEPT ![j] = Idle]
Goes(j, pc) == job' = [job EXCEPT ![j].pc = pc]
NewIn(rows) == {n \in News : rows[n] # Missing}

(* handleSave, from the button or Ctrl+S; nothing keeps two saves apart. *)
Save(j) ==
    /\ Pending(grid[active]) # {}
    /\ Starts(j, "save", "checking", name[active],
              [s \in Slots |-> IF s \in Pending(grid[active]) THEN grid[active][s] ELSE Missing], Blank)
    /\ again' = again \cup
                  {n \in NewIn(grid[active]) : \E i \in Jobs : Busy(i, {"save"}) /\ job[i].rows[n] # Missing}
    /\ UNCHANGED <<key, active, name, grid, from, last, stored, copies>>

(* The connection is there and the required columns are known; now         *)
(* applyGridWrites looks up the tab and its connection again.              *)
Check(j) ==
    /\ Busy(j, {"save"}) /\ job[j].pc = "checking"
    /\ job' = [job EXCEPT ![j].pc = "writing", ![j].target = active]
    /\ UNCHANGED <<key, active, name, grid, from, last, stored, editHistory, events>>

(* Required columns are missing, or there is no connection. *)
CheckFails(j) ==
    /\ Busy(j, {"save"}) /\ job[j].pc = "checking"
    /\ Ends(j)
    /\ UNCHANGED <<key, active, name, grid, from, last, stored, editHistory, events>>


(* Remove Row and the record dialog, once confirmed. *)
RemoveRow(j, s) ==
    /\ grid[active][s] # Missing
    /\ Starts(j, "delete", "writing", name[active], Only(s), Blank)
    /\ UNCHANGED <<key, active, name, grid, from, last, stored, editHistory>>

EditRecord(j, s) ==
    /\ grid[active][s] # Missing
    /\ \E c \in Columns, x \in Typed :
          /\ grid[active][s].cells[c] # x
          /\ Starts(j, "update", "writing", name[active], Only(s),
                    [grid[active][s].cells EXCEPT ![c] = x])
    /\ UNCHANGED <<key, active, name, grid, from, last, stored, editHistory>>

(* handleUpdateRow and handleDeleteRow patch whatever rows are shown. *)
Same(row, old) ==
    IF Keyed /\ old.cells.k # Null THEN row.cells.k = old.cells.k ELSE row = old

Patched(j) ==
    LET old == job[j].rows[CHOOSE s \in Slots : job[j].rows[s] # Missing]
        shown == grid[active]
    IN  [s \in Slots |->
            IF shown[s] = Missing \/ ~Same(shown[s], old) THEN shown[s]
            ELSE IF job[j].kind = "delete" THEN Missing
            ELSE [shown[s] EXCEPT !.cells = job[j].to,
                    !.orig = IF shown[s].edited \/ old.edited THEN old.orig ELSE job[j].to,
                    !.edited = shown[s].edited \/ old.edited]]

(* The batch is committed. *)
Commit(j) ==
    /\ job[j].pc = "writing"
    /\ Outcome(j) # Failed
    /\ stored' = [stored EXCEPT ![<<job[j].target, job[j].table>>] = Outcome(j)]
    /\ IF job[j].kind = "save"
       THEN Goes(j, "refreshing") /\ UNCHANGED grid
       ELSE Ends(j) /\ Show(Patched(j))
    /\ copies' = [n \in News |->
          IF job[j].kind = "save" /\ job[j].rows[n] # Missing THEN copies[n] + 1 ELSE copies[n]]
    /\ UNCHANGED <<key, active, name, from, last, again, events>>

(* A row did not match once, the server refused a value, or it was lost. *)
RollBack(j) ==
    /\ job[j].pc = "writing"
    /\ Ends(j)
    /\ UNCHANGED <<key, active, name, grid, from, last, stored, editHistory, events>>

(* Mutant: new rows of the grid are kept until they are discarded. *)
RefreshKeepsNew(j) ==
    /\ job[j].pc = "refreshing"
    /\ Show([s \in Slots |-> IF s \in News THEN grid[active][s]
                            ELSE Fetched(<<job[j].tab, job[j].query>>)[s]])
    /\ from' = [from EXCEPT ![active] = <<job[j].tab, job[j].query>>]
    /\ again' = again \cup {n \in NewIn(job[j].rows) : active # job[j].tab}
    /\ Ends(j)
    /\ UNCHANGED <<key, active, name, last, stored, copies, events>>

(* The refresh reads from the database that was meant to be written, with  *)
(* the last query that had rows, and is shown in the tab active by now.    *)
Refresh(j) ==
    /\ job[j].pc = "refreshing"
    /\ Show(Fetched(<<job[j].tab, job[j].query>>))
    /\ from' = [from EXCEPT ![active] = <<job[j].tab, job[j].query>>]
    /\ again' = again \cup {n \in NewIn(job[j].rows) : active # job[j].tab}
    /\ Ends(j)
    /\ UNCHANGED <<key, active, name, last, stored, copies, events>>

(* "Failed to Save", though it was. *)
RefreshFails(j) ==
    /\ job[j].pc = "refreshing"
    /\ again' = again \cup NewIn(job[j].rows)
    /\ Ends(j)
    /\ UNCHANGED <<key, active, name, grid, from, last, stored, copies, events>>

-----------------------------------------------------------------------------
(* Runs, and other clients                                                 *)

(* executeQuery names the table before it knows any rows: of a query, or   *)
(* of an UPDATE or INSERT, which has none.                                 *)
Run(j, kind, a) ==
    /\ \A i \in Jobs : ~Busy(i, {"select", "command"})
    /\ Starts(j, kind, "running", a, Nothing, Blank)
    /\ name' = [name EXCEPT ![active] = a]
    /\ UNCHANGED <<key, active, grid, from, last, stored, editHistory>>

RunQuery(j) == \E a \in Tables, kind \in {"select", "command"} : Run(j, kind, a)

(* onDiscard, when a row of the table was changed: the query is run again. *)
DiscardChanges(j) ==
    /\ \E s \in Pending(grid[active]) : ~grid[active][s].new
    /\ Run(j, "select", last)

(* The rows go to the active tab, and to the state of the tab they are of. *)
Answer(j) ==
    /\ Busy(j, {"select", "command"})
    /\ IF job[j].kind = "select"
       THEN LET p == <<job[j].tab, job[j].table>> IN
            /\ grid' = [grid EXCEPT ![active] = Fetched(p), ![job[j].tab] = Fetched(p)]
            /\ from' = [from EXCEPT ![active] = p, ![job[j].tab] = p]
            /\ last' = job[j].table
       ELSE /\ grid' = IF job[j].tab = active THEN grid
                       ELSE [grid EXCEPT ![job[j].tab] = Nothing]
            /\ UNCHANGED <<from, last>>
    /\ Ends(j)
    /\ UNCHANGED <<key, active, name, stored, editHistory, events>>

RunFails(j) ==
    /\ Busy(j, {"select", "command"})
    /\ Ends(j)
    /\ UNCHANGED <<key, active, name, grid, from, last, stored, editHistory, events>>

(* A row is removed, or one of its cells is changed. *)
Altered(cells) == {Missing} \cup {[cells EXCEPT ![c] = y] : c \in Columns, y \in Typed}

SomebodyElse(p, i) ==
    /\ Event
    /\ stored[p][i] # Missing
    /\ \E x \in Altered(stored[p][i]) :
          /\ x # stored[p][i]
          /\ stored' = [stored EXCEPT ![p][i] = x]
          /\ Keyed => Unique(stored'[p])
    /\ UNCHANGED <<key, active, name, grid, from, last, job, editHistory>>

EditsNext ==
    \/ \E s \in Slots, c \in Columns : Edit(s, c)
    \/ \E n \in News : AddRow(n) \/ \E s \in Slots : Duplicate(n, s)
    \/ DiscardNew
    \/ \E t \in Tabs : SwitchTab(t)
    \/ \E j \in Jobs :
          \/ Save(j) \/ Check(j) \/ CheckFails(j) \/ Commit(j) \/ RollBack(j)
          \/ Refresh(j) \/ RefreshFails(j)
          \/ RunQuery(j) \/ DiscardChanges(j) \/ Answer(j) \/ RunFails(j)
          \/ \E s \in Slots : RemoveRow(j, s) \/ EditRecord(j, s)
    \/ \E p \in Places, i \in Ids : SomebodyElse(p, i)

EditsSpec == EditsInit /\ [][EditsNext]_editVars

-----------------------------------------------------------------------------
(* Properties                                                              *)

(* The statements of a batch miss their table when the grid's rows are not *)
(* of the table and database they go to: the tab was switched while the    *)
(* save was preparing, an answer came to another tab, or a statement named *)
(* another table.                                                          *)
Astray(j) == job[j].from # <<job[j].target, job[j].table>>

(* They miss their row when its key was edited, when it is not stored yet, *)
(* or when another row of the batch has taken its place: one that is shown *)
(* with its key, or a new one whose key is left to a database that gives   *)
(* away the keys of removed rows (like the rowids of SQLite).              *)
Misled(j, s) ==
    LET rows == job[j].rows
        row == rows[s]
    IN  \/ Keyed /\ ~row.new /\ row.cells.k # row.orig.k
        \/ row.new /\ job[j].kind # "save"
        \/ \E x \in Slots \ {s} : rows[x] # Missing /\
              IF ~Keyed THEN rows[x].cells = row.orig
              ELSE \/ rows[x].cells.k = row.cells.k
                   \/ /\ rows[x].new /\ rows[x].cells.k = Null
                      /\ WithKey(stored[<<job[j].target, job[j].table>>], row.cells.k) = {}

Identified(row, cells) == IF Keyed THEN cells.k = row.orig.k ELSE cells = row.orig

(* "Only changed cells are written, each row must match exactly once": a   *)
(* batch inserts the new rows, changes the edited cells of rows that still *)
(* have the key, or all the values, they were loaded with, or removes one  *)
(* of those, and nothing else.                                             *)
Meant(j, was, is) ==
    \E s \in Slots :
        LET row == job[j].rows[s]
            update == job[j].kind = "update"
            shown == IF update THEN row.cells ELSE row.orig
            to == IF update THEN job[j].to ELSE row.cells
        IN  /\ row # Missing
            /\ \/ was = Missing /\ row.new /\ is # Missing
                  /\ \A c \in Columns : row.cells[c] # Null => is[c] = row.cells[c]
               \/ was # Missing /\ Identified(row, was) /\ job[j].kind = "delete" /\ is = Missing
               \/ /\ was # Missing /\ is # Missing /\ Identified(row, was)
                  /\ \A c \in Columns : is[c] = IF to[c] = shown[c] THEN was[c] ELSE to[c]

BatchAsMeant ==
    [][\A j \in Jobs :
        LET p == <<job[j].target, job[j].table>> IN
        Commit(j) /\ ~Astray(j) /\ (\A s \in Slots : job[j].rows[s] # Missing => ~Misled(j, s))
        => /\ \A i \in Ids : stored'[p][i] # stored[p][i] => Meant(j, stored[p][i], stored'[p][i])
           /\ Cardinality({i \in Ids : stored'[p][i] # stored[p][i]})
                <= Cardinality({s \in Slots : job[j].rows[s] # Missing})]_editVars

(* A row added in the grid is stored once, unless it was saved again: two  *)
(* saves overlap, or one was committed but its refresh failed or went to   *)
(* another tab, so that the row is still shown as new.                     *)
AddedOnce == \A n \in News : copies[n] <= 1 \/ n \in again
=============================================================================
