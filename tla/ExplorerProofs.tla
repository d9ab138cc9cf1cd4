--------------------------- MODULE ExplorerProofs ----------------------------
(***************************************************************************)
(* Proofs about Explorer, for any number of servers, databases, handlers   *)
(* in flight and clicks: what the sidebar, Run and the dialogs are shown   *)
(* belongs together (ShownBelongs), an evicted snapshot stays out          *)
(* (EvictedStaysOut), and a command given while the handle had settled     *)
(* reaches its target (SettledCommandsArrive).                             *)
(*                                                                         *)
(* The code keeps one handle for all servers, and a handler goes on with   *)
(* what it saw when it was called.  So the argument is about the handlers  *)
(* in flight: what one saw while the handle had settled is its own         *)
(* (Honest), a connect that was not overtaken is the only one that waits   *)
(* for a version and the handle is its handle (OneSwitch), and the handle  *)
(* belongs to the active server also when nothing is selected in it        *)
(* (HandleOwned).                                                          *)
(***************************************************************************)
EXTENDS Explorer, TLAPS

Labels == {"idle", "load", "version", "lists", "scan", "read", "reload", "write", "restore",
           "confirm", "execute", "relist", "ensure", "items"}
Connects == {"server", "selector", "row", "backup", "drop"}
Kinds == Connects \cup {"effect", "refresh", "details", "restore", "create", "fetch"}

Views == [conn : Conns \cup {None}, handle : Handles \cup {None}, selected : Dbs \cup {None}]
TaskRecords ==
    [at : Labels, kind : Kinds \cup {None}, conn : Conns \cup {None}, db : Dbs \cup {None},
     target : Handles \cup {None}, view : Views,
     items : BOOLEAN, settled : BOOLEAN, evicted : BOOLEAN]

(* What a handler of each kind may be at, and what it has by then.         *)
Placed(k) ==
    /\ k.at \in {"load", "version"} => k.kind \in Connects /\ k.conn \in Conns /\ k.db \in Dbs
    /\ k.at = "lists" => k.conn \in Conns
    /\ k.at = "scan" =>
          /\ k.kind \in {"effect", "row", "refresh", "backup"}
          /\ k.view.conn \in Conns /\ k.db \in Dbs /\ k.view.handle \in Handles
    /\ k.at = "read" =>
          k.kind = "details" /\ k.conn \in Conns /\ k.db \in Dbs /\ k.view.handle \in Handles
    /\ k.at \in {"reload", "write"} => k.kind = "backup"
    /\ k.at = "restore" => k.kind = "restore"
    /\ k.at = "confirm" => k.kind = "drop"
    /\ k.at \in {"execute", "relist"} => k.kind \in {"drop", "create"} /\ k.view.handle \in Handles
    /\ k.at \in {"ensure", "items"} => k.kind = "fetch" /\ k.conn \in Conns /\ k.db \in Dbs
    /\ k.at # "idle" /\ k.kind = "backup" => k.view.conn \in Conns /\ k.db \in Dbs
    /\ k.at # "idle" /\ k.kind \in {"restore", "drop"} => k.conn \in Conns /\ k.target \in Handles
    /\ k.at \in {"load", "version"} /\ k.kind = "drop" => k.view.handle \in Handles

(* What a handler saw while the handle had settled is its own.             *)
Honest(k) ==
    k.settled =>
        /\ k.at = "scan" => k.view.handle = <<k.view.conn, k.db>>
        /\ k.kind = "details" => k.view.handle = <<k.conn, k.db>>
        /\ k.kind = "backup" => k.view.handle = k.target /\ k.target = <<k.view.conn, k.db>>
        /\ k.kind = "restore" => k.view.handle = k.target
        /\ k.kind = "drop" => k.view.handle \in Handles /\ k.view.handle[1] = k.target[1]

TasksOK ==
    /\ tasks \in [Tasks -> TaskRecords]
    /\ \A t \in Tasks : Placed(tasks[t]) /\ Honest(tasks[t])

(* The handle belongs to the active server.                                *)
HandleOwned ==
    Settled /\ active # None =>
        /\ currentDb \in Handles /\ currentDb[1] = active
        /\ SelectedOf(active) # None => currentDb[2] = SelectedOf(active)

(* A connect that was not overtaken is the only one that waits.            *)
OneSwitch ==
    ~ overtaken =>
        \A t \in Tasks : Switching(t) =>
            /\ currentDb = <<tasks[t].conn, tasks[t].db>>
            /\ \A u \in Tasks : Switching(u) => u = t

(* A connect that waits for its version has set a handle.                  *)
Handled == \A t \in Tasks : Switching(t) => currentDb \in Handles

(* A fetch that is registered is in flight, and was not evicted.           *)
Registered ==
    \A h \in Handles : pending[h] # None =>
        /\ pending[h] \in Tasks /\ tasks[pending[h]].at \in {"ensure", "items"}
        /\ tasks[pending[h]].conn = h[1] /\ tasks[pending[h]].db = h[2]
        /\ ~ tasks[pending[h]].evicted

SessionRecords ==
    [selectedDatabase : Dbs \cup {None}, databases : Conns \cup {None},
     isLoadingSchema : BOOLEAN, schemaByDb : [Dbs -> Entries]]

StateTyped ==
    /\ active \in Conns \cup {None} /\ currentDb \in Handles \cup {None}
    /\ sessions \in [Conns -> SessionRecords]
    /\ details \in [Handles -> Reads \cup {None}]
    /\ snapshots \subseteq [of : Handles, evicted : BOOLEAN]
    /\ pending \in [Handles -> Tasks \cup {None}]
    /\ overtaken \in BOOLEAN

ExplorerInv ==
    /\ StateTyped /\ TasksOK /\ Registered
    /\ HandleOwned /\ OneSwitch /\ Handled
    /\ CatalogueIsOwn /\ SelectedIsScanned /\ EvictedStaysOut

-----------------------------------------------------------------------------
(* Handlers.                                                               *)

LEMMA ViewTyped ==
    ASSUME StateTyped
    PROVE  /\ View \in Views /\ View.conn = active /\ View.handle = currentDb
           /\ View.selected = SelectedOf(active)
           /\ SelectedOf(active) \in Dbs \cup {None}
    <1>1. SelectedOf(active) \in Dbs \cup {None}
        BY DEF StateTyped, SessionRecords, SelectedOf
    <1>2. QED  BY <1>1 DEF View, Views, StateTyped

LEMMA IdleTyped ==
    /\ Idle \in TaskRecords /\ Placed(Idle) /\ Honest(Idle)
    /\ Idle.at = "idle" /\ Idle.view \in Views /\ ~ Idle.evicted
    <1>1. /\ Idle.at = "idle" /\ Idle.kind = None /\ Idle.conn = None /\ Idle.db = None
          /\ Idle.target = None /\ ~ Idle.items /\ ~ Idle.settled /\ ~ Idle.evicted
          /\ Idle.view = [conn |-> None, handle |-> None, selected |-> None]
        BY DEF Idle
    <1>2. Idle.view \in Views  BY <1>1 DEF Views
    <1>3. Idle \in TaskRecords  BY <1>2 DEF Idle, TaskRecords, Labels
    <1>4. Placed(Idle)  BY <1>1 DEF Placed
    <1>5. Honest(Idle)  BY <1>1 DEF Honest
    <1>6. QED  BY <1>1, <1>2, <1>3, <1>4, <1>5

LEMMA TaskTyped ==
    ASSUME NEW at \in Labels, NEW kind \in Kinds, NEW c \in Conns \cup {None}, NEW d \in Dbs \cup {None}
    PROVE  LET k == Task(at, kind, c, d) IN
           /\ k \in TaskRecords /\ k.at = at /\ k.kind = kind /\ k.conn = c /\ k.db = d
           /\ ~ k.settled /\ ~ k.evicted /\ k.view = Idle.view
    <1>1. Idle \in TaskRecords /\ ~ Idle.settled /\ ~ Idle.evicted
        BY DEF Idle, TaskRecords, Views, Labels
    <1>2. QED  BY <1>1 DEF Task, TaskRecords

LEMMA SeeingTyped ==
    ASSUME StateTyped, NEW k \in TaskRecords
    PROVE  LET s == Seeing(k) IN
           /\ s \in TaskRecords /\ s.at = k.at /\ s.kind = k.kind /\ s.conn = k.conn /\ s.db = k.db
           /\ s.view.conn = active /\ s.view.handle = currentDb /\ s.view.selected = SelectedOf(active)
           /\ s.settled = Settled /\ s.target = k.target /\ s.evicted = k.evicted
    BY ViewTyped DEF Seeing, TaskRecords, Settled

LEMMA SeeingTask ==
    ASSUME StateTyped,
           NEW at \in Labels, NEW kind \in Kinds, NEW c \in Conns \cup {None}, NEW d \in Dbs \cup {None}
    PROVE  LET k == Seeing(Task(at, kind, c, d)) IN
           /\ k \in TaskRecords /\ k.at = at /\ k.kind = kind /\ k.conn = c /\ k.db = d
           /\ k.view.conn = active /\ k.view.handle = currentDb /\ k.view.selected = SelectedOf(active)
           /\ k.settled = Settled
    <1> DEFINE base == Task(at, kind, c, d)
    <1>1. base \in TaskRecords /\ base.at = at /\ base.kind = kind /\ base.conn = c /\ base.db = d
        BY TaskTyped
    <1> HIDE DEF base
    <1>2. LET k == Seeing(base) IN
           /\ k \in TaskRecords /\ k.at = at /\ k.kind = kind /\ k.conn = c /\ k.db = d
           /\ k.view.conn = active /\ k.view.handle = currentDb /\ k.view.selected = SelectedOf(active)
           /\ k.settled = Settled
        BY <1>1, SeeingTyped
    <1>3. QED  BY <1>2 DEF base

(* Scans in flight and sessions that keep their catalogues: every selected *)
(* database is still scanned or catalogued, and every spinner turns for a  *)
(* scan.                                                                   *)
LEMMA SelectedKept ==
    ASSUME StateTyped, SelectedIsScanned, sessions' \in [Conns -> SessionRecords],
           \A c \in Conns, d \in Dbs :
              Scanning(c, d) => Scanning(c, d)' \/ (~ sessions'[c].isLoadingSchema /\ sessions'[c].schemaByDb[d] # None),
           \A c \in Conns, d \in Dbs :
              sessions[c].schemaByDb[d] # None => sessions'[c].schemaByDb[d] # None,
           \A c \in Conns :
              \/ sessions'[c].selectedDatabase \in {None, sessions[c].selectedDatabase}
              \/ sessions'[c].schemaByDb[sessions'[c].selectedDatabase] # None
              \/ \E d \in Dbs : d = sessions'[c].selectedDatabase /\ Scanning(c, d)',
           \A c \in Conns : sessions'[c].isLoadingSchema =>
              sessions[c].isLoadingSchema \/ \E d \in Dbs : Scanning(c, d)'
    PROVE  SelectedIsScanned'
    <1>1. SUFFICES ASSUME NEW c \in Conns
                   PROVE  /\ \A d \in Dbs : sessions'[c].selectedDatabase = d =>
                                sessions'[c].schemaByDb[d] # None \/ Scanning(c, d)'
                          /\ sessions'[c].isLoadingSchema => \E e \in Dbs : Scanning(c, e)'
        <2>1. \A c \in Conns : sessions'[c].selectedDatabase \in Dbs \cup {None}
            BY DEF SessionRecords
        <2>2. QED  BY <2>1 DEF SelectedIsScanned
    <1>2. \A d \in Dbs : sessions[c].selectedDatabase = d =>
               sessions[c].schemaByDb[d] # None \/ Scanning(c, d)
        BY NoneAssumption DEF SelectedIsScanned
    <1>3. sessions[c].isLoadingSchema => \E e \in Dbs : Scanning(c, e)
        BY DEF SelectedIsScanned
    <1>4. ASSUME NEW d \in Dbs, sessions'[c].selectedDatabase = d
          PROVE  sessions'[c].schemaByDb[d] # None \/ Scanning(c, d)'
        <2>1. d # None  BY NoneAssumption
        <2>2. QED  BY <1>2, <1>4, <2>1
    <1>5. ASSUME sessions'[c].isLoadingSchema
          PROVE  \E e \in Dbs : Scanning(c, e)'
        BY <1>3, <1>5
    <1>6. QED  BY <1>4, <1>5

(* Nothing is said of the handle, of what is active or of the connects     *)
(* that wait, and at most a selection is taken back.                       *)
LEMMA SwitchesKept ==
    ASSUME StateTyped, HandleOwned, OneSwitch, Handled,
           \A u \in Tasks : Switching(u)' = Switching(u),
           \A u \in Tasks : Switching(u) => tasks'[u].conn = tasks[u].conn /\ tasks'[u].db = tasks[u].db,
           UNCHANGED <<active, currentDb, overtaken>>,
           \A c \in Conns : sessions'[c].selectedDatabase \in {None, sessions[c].selectedDatabase}
    PROVE  HandleOwned' /\ OneSwitch' /\ Handled'
    <1>1. Settled' <=> Settled  BY DEF Settled
    <1>2. active # None => SelectedOf(active)' \in {None, SelectedOf(active)}
        BY DEF SelectedOf, StateTyped
    <1>3. HandleOwned'  BY <1>1, <1>2 DEF HandleOwned
    <1>4. OneSwitch'  BY DEF OneSwitch
    <1>5. Handled'  BY DEF Handled
    <1>6. QED  BY <1>3, <1>4, <1>5

(* One handler goes on, and nothing else changes but the sessions, which   *)
(* keep their catalogues.                                                  *)
LEMMA OneGoesOn ==
    ASSUME ExplorerInv, NEW t \in Tasks, NEW k \in TaskRecords, Placed(k), Honest(k),
           tasks' = [tasks EXCEPT ![t] = k],
           tasks[t].at \notin {"version", "scan", "ensure", "items"}, k.at # "version",
           UNCHANGED <<active, currentDb, details, snapshots, pending, overtaken>>,
           sessions' \in [Conns -> SessionRecords],
           \A c \in Conns :
              /\ sessions'[c].schemaByDb = sessions[c].schemaByDb
              /\ sessions'[c].selectedDatabase \in {None, sessions[c].selectedDatabase}
              /\ sessions'[c].isLoadingSchema =>
                    sessions[c].isLoadingSchema \/ (k.at = "scan" /\ k.view.conn = c)
    PROVE  ExplorerInv'
    <1> USE DEF ExplorerInv
    <1>1. tasks'[t] = k /\ \A u \in Tasks \ {t} : tasks'[u] = tasks[u]
        BY DEF TasksOK
    <1>2. TasksOK'  BY <1>1 DEF TasksOK
    <1>3. \A u \in Tasks : Switching(u)' = Switching(u)  BY <1>1 DEF Switching
    <1>4. HandleOwned' /\ OneSwitch' /\ Handled'
        <2>1. \A u \in Tasks : Switching(u) => tasks'[u] = tasks[u]  BY <1>1 DEF Switching
        <2>2. QED  BY <1>3, <2>1, SwitchesKept
    <1>5. CatalogueIsOwn'  BY DEF CatalogueIsOwn
    <1>6. SelectedIsScanned'
        <2>1. \A c \in Conns, d \in Dbs : Scanning(c, d) => Scanning(c, d)'
            BY <1>1 DEF Scanning
        <2>2. k.at = "scan" => Scanning(k.view.conn, k.db)' /\ k.db \in Dbs
            BY <1>1 DEF Scanning, Placed
        <2>3. QED  BY <2>1, <2>2, SelectedKept
    <1>7. Registered'  BY <1>1 DEF Registered
    <1>8. QED
        BY <1>2, <1>4, <1>5, <1>6, <1>7 DEF StateTyped, EvictedStaysOut

(* The same where the sessions stay as they are.                           *)
LEMMA OnlyOneGoesOn ==
    ASSUME ExplorerInv, NEW t \in Tasks, NEW k \in TaskRecords, Placed(k), Honest(k),
           tasks' = [tasks EXCEPT ![t] = k], OnlyTasks,
           tasks[t].at \notin {"version", "scan", "ensure", "items"}, k.at # "version"
    PROVE  ExplorerInv'
    <1>1. sessions \in [Conns -> SessionRecords]  BY DEF ExplorerInv, StateTyped
    <1>2. QED  BY <1>1, OneGoesOn DEF OnlyTasks

-----------------------------------------------------------------------------
(* Handlers that begin.                                                    *)

(* What is seen while the handle has settled.                              *)
LEMMA SettledSees ==
    ASSUME ExplorerInv, Settled, active \in Conns
    PROVE  /\ currentDb \in Handles /\ currentDb[1] = active
           /\ \A d \in Dbs : SelectedOf(active) = d => currentDb = <<active, d>>
    <1>1. active # None  BY NoneAssumption
    <1>2. /\ currentDb \in Handles /\ currentDb[1] = active
          /\ SelectedOf(active) # None => currentDb[2] = SelectedOf(active)
        BY <1>1 DEF ExplorerInv, HandleOwned
    <1>3. currentDb = <<currentDb[1], currentDb[2]>>  BY <1>2 DEF Handles
    <1>4. QED  BY <1>2, <1>3, NoneAssumption

LEMMA ConnectBegins ==
    ASSUME ExplorerInv, NEW t \in Tasks, NEW c \in Conns, NEW d \in Dbs,
           NEW kind \in {"server", "selector", "row"}, Begin(t, Task("load", kind, c, d)), OnlyTasks
    PROVE  ExplorerInv'
    <1> DEFINE k == Task("load", kind, c, d)
    <1>1. /\ k \in TaskRecords /\ k.at = "load" /\ k.kind = kind /\ k.conn = c /\ k.db = d
          /\ ~ k.settled
        BY TaskTyped DEF Labels, Kinds, Connects
    <1>2. tasks' = [tasks EXCEPT ![t] = k] /\ tasks[t].at = "idle"  BY DEF Begin, Free
    <1> HIDE DEF k
    <1>3. Placed(k) /\ Honest(k)  BY <1>1 DEF Placed, Honest, Connects
    <1>4. QED  BY <1>1, <1>2, <1>3, OnlyOneGoesOn

(* A handler begins with what it sees of a server that is active, and the  *)
(* spinner of that server turns.                                           *)
LEMMA ScanBegins ==
    ASSUME ExplorerInv, NEW t \in Tasks, NEW k \in TaskRecords, NEW d \in Dbs,
           tasks' = [tasks EXCEPT ![t] = k], tasks[t].at = "idle",
           k.at = "scan", k.kind \in {"row", "refresh"}, k.db = d,
           k.view.conn = active, k.view.handle = currentDb,
           k.settled => Settled /\ SelectedOf(active) = d,
           active \in Conns, currentDb \in Handles, ShowsLoading(active),
           UNCHANGED <<active, currentDb, details, snapshots, pending, overtaken>>
    PROVE  ExplorerInv'
    <1>1. Placed(k)  BY DEF Placed
    <1>2. Honest(k)
        <2>1. k.settled => currentDb = <<active, d>>  BY SettledSees
        <2>2. QED  BY <2>1 DEF Honest
    <1>3. /\ sessions' \in [Conns -> SessionRecords]
          /\ \A e \in Conns :
                /\ sessions'[e].schemaByDb = sessions[e].schemaByDb
                /\ sessions'[e].selectedDatabase = sessions[e].selectedDatabase
                /\ e # active => sessions'[e].isLoadingSchema = sessions[e].isLoadingSchema
        BY DEF ShowsLoading, ExplorerInv, StateTyped, SessionRecords
    <1>4. QED  BY <1>1, <1>2, <1>3, OneGoesOn

LEMMA OpenSelectedSafe ==
    ASSUME ExplorerInv, NEW t \in Tasks, NEW c \in Conns, OpenSelected(t, c)
    PROVE  ExplorerInv'
    <1> DEFINE d == SelectedOf(c)
               seen == Seeing(Task("scan", "row", c, d))
               k == [seen EXCEPT !.settled = @ /\ active = c]
    <1>1. d \in Dbs /\ active \in Conns /\ currentDb \in Handles
        BY NoneAssumption DEF OpenSelected, ExplorerInv, StateTyped, SessionRecords, SelectedOf
    <1>2. /\ seen \in TaskRecords /\ seen.at = "scan" /\ seen.kind = "row" /\ seen.conn = c /\ seen.db = d
          /\ seen.view.conn = active /\ seen.view.handle = currentDb /\ seen.settled = Settled
        BY <1>1, SeeingTask DEF ExplorerInv, Labels, Kinds, Connects
    <1>3. /\ tasks' = [tasks EXCEPT ![t] = k] /\ tasks[t].at = "idle" /\ ShowsLoading(active)
          /\ UNCHANGED <<active, currentDb, details, snapshots, pending, overtaken>>
        BY DEF OpenSelected, Begin, Free
    <1> HIDE DEF seen
    <1>4. /\ k \in TaskRecords /\ k.at = "scan" /\ k.kind = "row" /\ k.db = d
          /\ k.view.conn = active /\ k.view.handle = currentDb
          /\ k.settled => Settled /\ active = c
        BY <1>2 DEF TaskRecords
    <1> HIDE DEF k
    <1>5. k.settled => Settled /\ SelectedOf(active) = d  BY <1>4
    <1>6. QED  BY <1>1, <1>3, <1>4, <1>5, ScanBegins

LEMMA RefreshSafe ==
    ASSUME ExplorerInv, NEW t \in Tasks, Refresh(t)
    PROVE  ExplorerInv'
    <1> DEFINE d == SelectedOf(active)
               k == Seeing(Task("scan", "refresh", active, d))
    <1>1. d \in Dbs /\ active \in Conns /\ currentDb \in Handles
        BY NoneAssumption DEF Refresh, ExplorerInv, StateTyped, SessionRecords, SelectedOf
    <1>2. /\ k \in TaskRecords /\ k.at = "scan" /\ k.kind = "refresh" /\ k.db = d
          /\ k.view.conn = active /\ k.view.handle = currentDb /\ k.settled = Settled
        BY <1>1, SeeingTask DEF ExplorerInv, Labels, Kinds, Connects
    <1>3. /\ tasks' = [tasks EXCEPT ![t] = k] /\ tasks[t].at = "idle" /\ ShowsLoading(active)
          /\ UNCHANGED <<active, currentDb, details, snapshots, pending, overtaken>>
        BY DEF Refresh, Begin, Free
    <1> HIDE DEF k
    <1>4. QED  BY <1>1, <1>2, <1>3, ScanBegins

LEMMA OpenTableSafe ==
    ASSUME ExplorerInv, NEW t \in Tasks, OpenTable(t)
    PROVE  ExplorerInv'
    <1> DEFINE d == SelectedOf(active)
               k == Seeing(Task("read", "details", active, d))
    <1>1. d \in Dbs /\ active \in Conns /\ currentDb \in Handles
        BY NoneAssumption DEF OpenTable, ExplorerInv, StateTyped, SessionRecords, SelectedOf
    <1>2. /\ k \in TaskRecords /\ k.at = "read" /\ k.kind = "details" /\ k.conn = active /\ k.db = d
          /\ k.view.handle = currentDb /\ k.settled = Settled
        BY <1>1, SeeingTask DEF ExplorerInv, Labels, Kinds, Connects
    <1>3. tasks' = [tasks EXCEPT ![t] = k] /\ tasks[t].at = "idle" /\ OnlyTasks
        BY DEF OpenTable, Begin, Free
    <1> HIDE DEF k
    <1>4. Placed(k)  BY <1>1, <1>2 DEF Placed
    <1>5. Settled => currentDb = <<active, d>>  BY <1>1, SettledSees
    <1>6. Honest(k)  BY <1>2, <1>5 DEF Honest
    <1>7. QED  BY <1>2, <1>3, <1>4, <1>6, OnlyOneGoesOn

LEMMA BackupSafe ==
    ASSUME ExplorerInv, NEW t \in Tasks, NEW c \in Conns, NEW d \in Dbs, Backup(t, c, d)
    PROVE  ExplorerInv'
    <1> DEFINE seen == Seeing(Task("load", "backup", active, d))
               items == SelectedOf(active) # None /\ Cached(active, SelectedOf(active))
               k == [seen EXCEPT !.target = <<c, d>>, !.settled = @ /\ IsSelected(c, d), !.items = items]
    <1>1. active \in Conns  BY DEF Backup, ExplorerInv, StateTyped
    <1>2. /\ seen \in TaskRecords /\ seen.at = "load" /\ seen.kind = "backup" /\ seen.conn = active
          /\ seen.db = d /\ seen.view.conn = active /\ seen.view.handle = currentDb
          /\ seen.settled = Settled
        BY <1>1, SeeingTask DEF ExplorerInv, Labels, Kinds, Connects
    <1>3. tasks' = [tasks EXCEPT ![t] = k] /\ tasks[t].at = "idle" /\ OnlyTasks
        BY DEF Backup, Begin, Free
    <1>4. items \in BOOLEAN  OBVIOUS
    <1> HIDE DEF seen, items
    <1>5. /\ k \in TaskRecords /\ k.at = "load" /\ k.kind = "backup" /\ k.conn = active /\ k.db = d
          /\ k.view.conn = active /\ k.view.handle = currentDb /\ k.target = <<c, d>>
          /\ k.settled => Settled /\ IsSelected(c, d)
        BY <1>2, <1>4 DEF TaskRecords, Handles
    <1> HIDE DEF k
    <1>6. Placed(k)  BY <1>1, <1>5 DEF Placed, Connects
    <1>7. k.settled => currentDb = <<c, d>> /\ active = c
        BY <1>1, <1>5, SettledSees DEF IsSelected
    <1>8. Honest(k)  BY <1>5, <1>7 DEF Honest
    <1>9. QED  BY <1>3, <1>5, <1>6, <1>8, OnlyOneGoesOn

LEMMA RestoreSafe ==
    ASSUME ExplorerInv, NEW t \in Tasks, NEW c \in Conns, NEW d \in Dbs, Restore(t, c, d)
    PROVE  ExplorerInv'
    <1> DEFINE seen == Seeing(Task("restore", "restore", c, d))
               k == [seen EXCEPT !.target = <<c, d>>, !.settled = @ /\ IsSelected(c, d)]
    <1>1. active \in Conns  BY DEF Restore, ExplorerInv, StateTyped
    <1>2. /\ seen \in TaskRecords /\ seen.at = "restore" /\ seen.kind = "restore" /\ seen.conn = c
          /\ seen.db = d /\ seen.view.handle = currentDb /\ seen.settled = Settled
        BY SeeingTask DEF ExplorerInv, Labels, Kinds, Connects
    <1>3. tasks' = [tasks EXCEPT ![t] = k] /\ tasks[t].at = "idle" /\ OnlyTasks
        BY DEF Restore, Begin, Free
    <1> HIDE DEF seen
    <1>4. /\ k \in TaskRecords /\ k.at = "restore" /\ k.kind = "restore" /\ k.conn = c
          /\ k.view.handle = currentDb /\ k.target = <<c, d>>
          /\ k.settled => Settled /\ IsSelected(c, d)
        BY <1>2 DEF TaskRecords, Handles
    <1> HIDE DEF k
    <1>5. Placed(k)  BY <1>4 DEF Placed, Handles
    <1>6. k.settled => currentDb = <<c, d>>
        BY <1>1, <1>4, SettledSees DEF IsSelected
    <1>7. Honest(k)  BY <1>4, <1>6 DEF Honest
    <1>8. QED  BY <1>3, <1>4, <1>5, <1>7, OnlyOneGoesOn

LEMMA DropSafe ==
    ASSUME ExplorerInv, NEW t \in Tasks, NEW d \in Dbs, Drop(t, d)
    PROVE  ExplorerInv'
    <1> DEFINE seen == Seeing(Task("confirm", "drop", active, d))
               k == [seen EXCEPT !.target = <<active, d>>]
    <1>1. active \in Conns  BY DEF Drop, ExplorerInv, StateTyped
    <1>2. /\ seen \in TaskRecords /\ seen.at = "confirm" /\ seen.kind = "drop" /\ seen.conn = active
          /\ seen.db = d /\ seen.view.handle = currentDb /\ seen.settled = Settled
        BY <1>1, SeeingTask DEF ExplorerInv, Labels, Kinds, Connects
    <1>3. tasks' = [tasks EXCEPT ![t] = k] /\ tasks[t].at = "idle" /\ OnlyTasks
        BY DEF Drop, Begin, Free
    <1> HIDE DEF seen
    <1>4. /\ k \in TaskRecords /\ k.at = "confirm" /\ k.kind = "drop" /\ k.conn = active
          /\ k.view.handle = currentDb /\ k.target = <<active, d>> /\ k.settled = Settled
        BY <1>1, <1>2 DEF TaskRecords, Handles
    <1> HIDE DEF k
    <1>5. Placed(k)  BY <1>1, <1>4 DEF Placed, Handles
    <1>6. Settled => currentDb \in Handles /\ currentDb[1] = active
        BY <1>1, SettledSees
    <1>7. Honest(k)  BY <1>4, <1>6 DEF Honest
    <1>8. QED  BY <1>3, <1>4, <1>5, <1>7, OnlyOneGoesOn

LEMMA CreateSafe ==
    ASSUME ExplorerInv, NEW t \in Tasks, Create(t)
    PROVE  ExplorerInv'
    <1> DEFINE k == Seeing(Task("execute", "create", active, None))
    <1>1. active \in Conns /\ currentDb \in Handles  BY DEF Create, ExplorerInv, StateTyped
    <1>2. /\ k \in TaskRecords /\ k.at = "execute" /\ k.kind = "create" /\ k.view.handle = currentDb
        BY <1>1, SeeingTask DEF ExplorerInv, Labels, Kinds, Connects
    <1>3. tasks' = [tasks EXCEPT ![t] = k] /\ tasks[t].at = "idle" /\ OnlyTasks
        BY DEF Create, Begin, Free
    <1> HIDE DEF k
    <1>4. Placed(k) /\ Honest(k)  BY <1>1, <1>2 DEF Placed, Honest
    <1>5. QED  BY <1>2, <1>3, <1>4, OnlyOneGoesOn

-----------------------------------------------------------------------------
(* Handlers that go on.                                                    *)

LEMMA LoadFailsSafe ==
    ASSUME ExplorerInv, NEW t \in Tasks, LoadFails(t)
    PROVE  ExplorerInv'
    <1>1. tasks' = [tasks EXCEPT ![t] = Idle] /\ tasks[t].at = "load" /\ OnlyTasks
        BY DEF LoadFails, End
    <1>2. QED  BY <1>1, IdleTyped, OnlyOneGoesOn

(* A handler that is over, and one that moves to its next await.           *)
LEMMA Ends ==
    ASSUME ExplorerInv, NEW t \in Tasks, End(t), OnlyTasks,
           tasks[t].at \notin {"version", "scan", "ensure", "items"}
    PROVE  ExplorerInv'
    BY IdleTyped, OnlyOneGoesOn DEF End

LEMMA Moves ==
    ASSUME ExplorerInv, NEW t \in Tasks, NEW at \in Labels \ {"idle"}, tasks[t].at # "idle",
           NEW k, k = [tasks[t] EXCEPT !.at = at]
    PROVE  /\ k \in TaskRecords /\ k.at = at /\ k.kind = tasks[t].kind /\ k.conn = tasks[t].conn
           /\ k.db = tasks[t].db /\ k.target = tasks[t].target /\ k.view = tasks[t].view
           /\ k.settled = tasks[t].settled /\ k.evicted = tasks[t].evicted
           /\ Placed(tasks[t]) /\ Honest(tasks[t]) /\ tasks[t] \in TaskRecords
    BY DEF ExplorerInv, TasksOK, TaskRecords

LEMMA ConfirmSafe ==
    ASSUME ExplorerInv, NEW t \in Tasks, Confirm(t)
    PROVE  ExplorerInv'
    <1>1. tasks[t].at = "confirm" /\ OnlyTasks  BY DEF Confirm
    <1>2. CASE End(t)  BY <1>1, <1>2, Ends
    <1>3. ASSUME NEW k, tasks' = [tasks EXCEPT ![t] = k], tasks[t].view.handle # None,
                 k = [tasks[t] EXCEPT !.at = "load", !.db = Home] \/ k = [tasks[t] EXCEPT !.at = "execute"]
          PROVE  ExplorerInv'
        <2>1. tasks[t] \in TaskRecords /\ Placed(tasks[t]) /\ Honest(tasks[t])
            BY DEF ExplorerInv, TasksOK
        <2>2. tasks[t].view.handle \in Handles /\ tasks[t].kind = "drop" /\ tasks[t].conn \in Conns
            BY <1>1, <1>3, <2>1 DEF TaskRecords, Views, Placed
        <2>3. /\ k \in TaskRecords /\ k.at \in {"load", "execute"} /\ k.kind = "drop" /\ k.conn \in Conns
              /\ k.at = "load" => k.db \in Dbs
              /\ k.view = tasks[t].view /\ k.target = tasks[t].target /\ k.settled = tasks[t].settled
            BY <1>3, <2>1, <2>2, ExplorerAssumption DEF TaskRecords, Labels
        <2>4. Placed(k)  BY <1>1, <2>1, <2>2, <2>3 DEF Placed, Connects
        <2>5. Honest(k)  BY <2>1, <2>2, <2>3 DEF Honest
        <2>6. QED  BY <1>1, <1>3, <2>3, <2>4, <2>5, OnlyOneGoesOn
    <1>4. QED  BY <1>2, <1>3 DEF Confirm

LEMMA ExecuteSafe ==
    ASSUME ExplorerInv, NEW t \in Tasks, Execute(t)
    PROVE  ExplorerInv'
    <1>1. tasks[t].at = "execute" /\ OnlyTasks  BY DEF Execute, OnlyTasks
    <1>2. CASE End(t)  BY <1>1, <1>2, Ends
    <1>3. CASE Continue(t, "relist")
        <2> DEFINE k == [tasks[t] EXCEPT !.at = "relist"]
        <2>1. tasks' = [tasks EXCEPT ![t] = k]
            BY <1>3 DEF Continue, ExplorerInv, TasksOK
        <2>2. /\ k \in TaskRecords /\ k.at = "relist" /\ k.kind = tasks[t].kind /\ k.conn = tasks[t].conn
              /\ k.db = tasks[t].db /\ k.target = tasks[t].target /\ k.view = tasks[t].view
              /\ k.settled = tasks[t].settled
              /\ Placed(tasks[t]) /\ Honest(tasks[t])
            BY <1>1, Moves DEF Labels
        <2> HIDE DEF k
        <2>3. Placed(k)  BY <1>1, <2>2 DEF Placed
        <2>4. Honest(k)  BY <2>2 DEF Honest
        <2>5. QED  BY <1>1, <2>1, <2>2, <2>3, <2>4, OnlyOneGoesOn
    <1>4. QED  BY <1>2, <1>3 DEF Execute

LEMMA SendsSafe ==
    ASSUME ExplorerInv, NEW t \in Tasks, Send(t)
    PROVE  ExplorerInv'
    <1>1. CASE Write(t)
        <2>1. tasks[t].at = "write" /\ End(t) /\ OnlyTasks  BY <1>1 DEF Write, OnlyTasks
        <2>2. QED  BY <2>1, Ends
    <1>2. CASE RestoreRuns(t)
        <2>1. tasks[t].at = "restore" /\ End(t) /\ OnlyTasks  BY <1>2 DEF RestoreRuns, OnlyTasks
        <2>2. QED  BY <2>1, Ends
    <1>3. QED  BY <1>1, <1>2, ExecuteSafe DEF Send

LEMMA ListsSafe ==
    ASSUME ExplorerInv, NEW t \in Tasks, Lists(t)
    PROVE  ExplorerInv'
    <1>1. /\ tasks' = [tasks EXCEPT ![t] = Idle] /\ tasks[t].at = "lists"
          /\ UNCHANGED <<active, currentDb, details, snapshots, pending, overtaken>>
        BY DEF Lists, End
    <1>2. tasks[t].conn \in Conns  BY <1>1 DEF ExplorerInv, TasksOK, Placed
    <1>3. /\ sessions' \in [Conns -> SessionRecords]
          /\ \A c \in Conns :
                /\ sessions'[c].schemaByDb = sessions[c].schemaByDb
                /\ sessions'[c].selectedDatabase = sessions[c].selectedDatabase
                /\ sessions'[c].isLoadingSchema = sessions[c].isLoadingSchema
        BY <1>2 DEF Lists, ExplorerInv, StateTyped, SessionRecords
    <1>4. QED  BY <1>1, <1>3, IdleTyped, OneGoesOn

LEMMA RelistSafe ==
    ASSUME ExplorerInv, NEW t \in Tasks, Relist(t)
    PROVE  ExplorerInv'
    <1>1. /\ tasks' = [tasks EXCEPT ![t] = Idle] /\ tasks[t].at = "relist"
          /\ UNCHANGED <<active, currentDb, details, snapshots, pending, overtaken>>
        BY DEF Relist, End
    <1>2. tasks[t].view.handle[1] \in Conns  BY <1>1 DEF ExplorerInv, TasksOK, Placed, Handles
    <1>3. ASSUME NEW listed \in Conns, NEW selected \in {None, sessions[active].selectedDatabase},
                 sessions' = [sessions EXCEPT ![active].databases = listed,
                                              ![active].selectedDatabase = selected]
          PROVE  /\ sessions' \in [Conns -> SessionRecords]
                 /\ \A c \in Conns :
                       /\ sessions'[c].schemaByDb = sessions[c].schemaByDb
                       /\ sessions'[c].selectedDatabase \in {None, sessions[c].selectedDatabase}
                       /\ sessions'[c].isLoadingSchema = sessions[c].isLoadingSchema
        BY <1>3 DEF ExplorerInv, StateTyped, SessionRecords
    <1>4. /\ sessions' \in [Conns -> SessionRecords]
          /\ \A c \in Conns :
                /\ sessions'[c].schemaByDb = sessions[c].schemaByDb
                /\ sessions'[c].selectedDatabase \in {None, sessions[c].selectedDatabase}
                /\ sessions'[c].isLoadingSchema = sessions[c].isLoadingSchema
        <2>1. CASE UNCHANGED sessions  BY <2>1 DEF ExplorerInv, StateTyped
        <2>2. CASE active \in Conns /\ ~ UNCHANGED sessions
            <3>1. \E deselects \in BOOLEAN :
                    sessions' = [sessions EXCEPT ![active].databases = tasks[t].view.handle[1],
                                                 ![active].selectedDatabase = IF deselects THEN None ELSE @]
                BY <2>2 DEF Relist
            <3>2. QED  BY <1>2, <1>3, <3>1, <2>2 DEF ExplorerInv, StateTyped
        <2>3. CASE active \notin Conns
            <3>1. UNCHANGED sessions  BY <2>3 DEF Relist, ExplorerInv, StateTyped
            <3>2. QED  BY <2>1, <3>1
        <2>4. QED  BY <2>1, <2>2, <2>3
    <1>5. QED  BY <1>1, <1>4, IdleTyped, OneGoesOn

LEMMA ReloadSafe ==
    ASSUME ExplorerInv, NEW t \in Tasks, Reload(t)
    PROVE  ExplorerInv'
    <1> DEFINE scans == tasks[t].view.handle # None /\ ~ Cached(tasks[t].view.conn, tasks[t].db)
               at == IF scans THEN "scan" ELSE "write"
               k == [tasks[t] EXCEPT !.at = at]
    <1>1. /\ tasks' = [tasks EXCEPT ![t] = k] /\ tasks[t].at = "reload"
          /\ UNCHANGED <<active, currentDb, details, snapshots, pending, overtaken>>
        BY DEF Reload, Continue, ExplorerInv, TasksOK
    <1>2. /\ k \in TaskRecords /\ k.at = at /\ k.kind = tasks[t].kind /\ k.conn = tasks[t].conn
          /\ k.db = tasks[t].db /\ k.target = tasks[t].target /\ k.view = tasks[t].view
          /\ k.settled = tasks[t].settled
          /\ Placed(tasks[t]) /\ Honest(tasks[t]) /\ tasks[t] \in TaskRecords
        BY <1>1, Moves DEF Labels
    <1>3. k.kind = "backup" /\ k.view.conn \in Conns /\ k.db \in Dbs
        BY <1>1, <1>2 DEF Placed
    <1>4. k.view \in Views /\ (scans => k.view.handle \in Handles)
        BY <1>2 DEF TaskRecords, Views
    <1>5. at \in {"scan", "write"} /\ (at = "scan" => scans)  OBVIOUS
    <1>6. IF scans THEN ShowsLoading(k.view.conn) ELSE UNCHANGED sessions  BY <1>2 DEF Reload
    <1> HIDE DEF k, at, scans
    <1>7. Placed(k)  BY <1>2, <1>3, <1>4, <1>5 DEF Placed
    <1>8. Honest(k)
        <2>1. k.settled => k.view.handle = k.target /\ k.target = <<k.view.conn, k.db>>
            BY <1>2, <1>3 DEF Honest
        <2>2. QED  BY <1>3, <2>1 DEF Honest
    <1>9. /\ sessions' \in [Conns -> SessionRecords]
          /\ \A c \in Conns :
                /\ sessions'[c].schemaByDb = sessions[c].schemaByDb
                /\ sessions'[c].selectedDatabase = sessions[c].selectedDatabase
                /\ sessions'[c].isLoadingSchema =>
                      sessions[c].isLoadingSchema \/ (scans /\ k.view.conn = c)
        <2>1. CASE scans
            <3>1. sessions' = [sessions EXCEPT ![k.view.conn].isLoadingSchema = TRUE]
                BY <1>6, <2>1 DEF ShowsLoading
            <3>2. /\ sessions' \in [Conns -> SessionRecords]
                  /\ \A c \in Conns :
                        /\ sessions'[c].schemaByDb = sessions[c].schemaByDb
                        /\ sessions'[c].selectedDatabase = sessions[c].selectedDatabase
                        /\ k.view.conn # c => sessions'[c].isLoadingSchema = sessions[c].isLoadingSchema
                BY <1>3, <3>1 DEF ExplorerInv, StateTyped, SessionRecords
            <3>3. QED  BY <2>1, <3>2
        <2>2. CASE ~ scans  BY <1>6, <2>2 DEF ExplorerInv, StateTyped
        <2>3. QED  BY <2>1, <2>2
    <1>10. scans => k.at = "scan"  BY <1>2 DEF at
    <1>11. k.at # "version"  BY <1>2, <1>5
    <1>12. QED  BY <1>1, <1>2, <1>7, <1>8, <1>9, <1>10, <1>11, OneGoesOn

-----------------------------------------------------------------------------
(* Handlers that bring something.                                          *)

(* A catalogue lands where its scan was started for.                       *)
LEMMA ScanSafe ==
    ASSUME ExplorerInv, NEW t \in Tasks, Scan(t)
    PROVE  ExplorerInv'
    <1> DEFINE c == tasks[t].view.conn
               d == tasks[t].db
               of == [of |-> tasks[t].view.handle, settled |-> tasks[t].settled]
    <1>1. /\ tasks[t].at = "scan" /\ UNCHANGED <<active, currentDb, details, snapshots, pending, overtaken>>
        BY DEF Scan
    <1>2. tasks[t] \in TaskRecords /\ Placed(tasks[t]) /\ Honest(tasks[t])
        BY DEF ExplorerInv, TasksOK
    <1>3. c \in Conns /\ d \in Dbs /\ tasks[t].view.handle \in Handles /\ tasks[t].settled \in BOOLEAN
        BY <1>1, <1>2 DEF Placed, TaskRecords
    <1>4. of \in Reads /\ (of.settled => of.of = <<c, d>>)
        BY <1>1, <1>2, <1>3 DEF Reads, Honest
    <1>5. PICK entry \in {of, Failed} :
             sessions' = [sessions EXCEPT ![c].schemaByDb[d] = entry, ![c].isLoadingSchema = FALSE]
        BY DEF Scan
    <1>6. entry \in Entries /\ entry # None
        BY <1>4, FailedAssumption DEF Entries, Reads, Handles
    <1> HIDE DEF of
    <1>7. /\ sessions' \in [Conns -> SessionRecords]
          /\ \A e \in Conns : sessions'[e].selectedDatabase = sessions[e].selectedDatabase
          /\ \A e \in Conns \ {c} : sessions'[e] = sessions[e]
          /\ ~ sessions'[c].isLoadingSchema
          /\ sessions'[c].schemaByDb = [sessions[c].schemaByDb EXCEPT ![d] = entry]
        BY <1>3, <1>5, <1>6 DEF ExplorerInv, StateTyped, SessionRecords
    <1>8. /\ sessions'[c].schemaByDb[d] = entry
          /\ \A e \in Conns, f \in Dbs : <<e, f>> # <<c, d>> =>
                sessions'[e].schemaByDb[f] = sessions[e].schemaByDb[f]
        <2>1. sessions[c].schemaByDb \in [Dbs -> Entries]
            BY <1>3 DEF ExplorerInv, StateTyped, SessionRecords
        <2>2. \A f \in Dbs : sessions'[c].schemaByDb[f] = IF f = d THEN entry ELSE sessions[c].schemaByDb[f]
            BY <1>7, <2>1
        <2>3. QED  BY <1>3, <1>7, <2>2
    <1>9. CatalogueIsOwn'
        <2>1. SUFFICES ASSUME NEW e \in Conns, NEW f \in Dbs,
                              NEW read \in {sessions'[e].schemaByDb[f], details'[<<e, f>>]} \ {None, Failed},
                              read.settled
                       PROVE  read.of = <<e, f>>
            BY DEF CatalogueIsOwn
        <2>2. CASE read \in {sessions[e].schemaByDb[f], details[<<e, f>>]}
            BY <2>1, <2>2 DEF ExplorerInv, CatalogueIsOwn
        <2>3. CASE <<e, f>> = <<c, d>> /\ read = entry
            BY <1>4, <1>5, <2>1, <2>3
        <2>4. QED  BY <1>1, <1>8, <2>1, <2>2, <2>3
    <1>10. PICK k \in TaskRecords :
              /\ tasks' = [tasks EXCEPT ![t] = k] /\ k.at \in {"idle", "write"}
              /\ Placed(k) /\ Honest(k)
        <2>1. CASE tasks[t].kind # "backup"
            BY <2>1, IdleTyped DEF Scan, End
        <2>2. CASE tasks[t].kind = "backup"
            <3> DEFINE k == [tasks[t] EXCEPT !.at = "write"]
            <3>1. tasks' = [tasks EXCEPT ![t] = k]
                BY <2>2 DEF Scan, Continue, ExplorerInv, TasksOK
            <3>2. /\ k \in TaskRecords /\ k.at = "write" /\ k.kind = tasks[t].kind
                  /\ k.db = tasks[t].db /\ k.target = tasks[t].target /\ k.view = tasks[t].view
                  /\ k.settled = tasks[t].settled
                BY <1>1, Moves DEF Labels
            <3> HIDE DEF k
            <3>3. Placed(k)  BY <1>1, <1>2, <2>2, <3>2 DEF Placed
            <3>4. Honest(k)  BY <1>2, <2>2, <3>2 DEF Honest
            <3>5. QED  BY <3>1, <3>2, <3>3, <3>4
        <2>3. QED  BY <2>1, <2>2
    <1>11. tasks'[t] = k /\ \A u \in Tasks \ {t} : tasks'[u] = tasks[u]
        BY <1>10 DEF ExplorerInv, TasksOK
    <1>12. TasksOK'  BY <1>10, <1>11 DEF ExplorerInv, TasksOK
    <1>13. \A u \in Tasks : Switching(u)' = Switching(u)  BY <1>1, <1>10, <1>11 DEF Switching
    <1>14. HandleOwned' /\ OneSwitch' /\ Handled'
        <2>1. \A u \in Tasks : Switching(u) => tasks'[u] = tasks[u]  BY <1>1, <1>11 DEF Switching
        <2>2. QED  BY <1>1, <1>7, <1>13, <2>1, SwitchesKept DEF ExplorerInv
    <1>15. SelectedIsScanned'
        <2>1. \A e \in Conns, f \in Dbs : Scanning(e, f) => Scanning(e, f)' \/ <<e, f>> = <<c, d>>
            BY <1>11 DEF Scanning
        <2>2. \A e \in Conns, f \in Dbs : Scanning(e, f) => Scanning(e, f)' \/ (~ sessions'[e].isLoadingSchema /\ sessions'[e].schemaByDb[f] # None)
            BY <1>3, <1>6, <1>7, <1>8, <2>1
        <2>3. \A e \in Conns, f \in Dbs : sessions[e].schemaByDb[f] # None => sessions'[e].schemaByDb[f] # None
            BY <1>3, <1>6, <1>8
        <2>4. \A e \in Conns : sessions'[e].isLoadingSchema => sessions[e].isLoadingSchema
            BY <1>3, <1>7
        <2>5. QED  BY <1>7, <2>2, <2>3, <2>4, SelectedKept DEF ExplorerInv
    <1>16. Registered'
        BY <1>1, <1>11 DEF ExplorerInv, Registered
    <1>17. StateTyped' /\ EvictedStaysOut'
        BY <1>1, <1>7 DEF ExplorerInv, StateTyped, EvictedStaysOut
    <1>18. QED  BY <1>9, <1>12, <1>14, <1>15, <1>16, <1>17 DEF ExplorerInv

(* The details of a table are filed under what was selected.               *)
LEMMA ReadTableSafe ==
    ASSUME ExplorerInv, NEW t \in Tasks, ReadTable(t)
    PROVE  ExplorerInv'
    <1> DEFINE c == tasks[t].conn
               d == tasks[t].db
               of == [of |-> tasks[t].view.handle, settled |-> tasks[t].settled]
    <1>1. /\ tasks[t].at = "read" /\ tasks' = [tasks EXCEPT ![t] = Idle]
          /\ UNCHANGED <<active, currentDb, sessions, snapshots, pending, overtaken>>
        BY DEF ReadTable, End
    <1>2. tasks[t] \in TaskRecords /\ Placed(tasks[t]) /\ Honest(tasks[t])
        BY DEF ExplorerInv, TasksOK
    <1>3. c \in Conns /\ d \in Dbs /\ tasks[t].view.handle \in Handles /\ tasks[t].settled \in BOOLEAN
        BY <1>1, <1>2 DEF Placed, TaskRecords
    <1>4. of \in Reads /\ (of.settled => of.of = <<c, d>>)
        BY <1>1, <1>2, <1>3 DEF Reads, Honest, Placed
    <1>5. details' = details \/ details' = [details EXCEPT ![<<c, d>>] = of]
        BY DEF ReadTable
    <1> HIDE DEF of
    <1>6. /\ details' \in [Handles -> Reads \cup {None}]
          /\ \A h \in Handles : details'[h] = details[h] \/ (h = <<c, d>> /\ details'[h] = of)
        BY <1>3, <1>4, <1>5 DEF ExplorerInv, StateTyped, Handles
    <1>7. CatalogueIsOwn'
        <2>1. SUFFICES ASSUME NEW e \in Conns, NEW f \in Dbs,
                              NEW read \in {sessions'[e].schemaByDb[f], details'[<<e, f>>]} \ {None, Failed},
                              read.settled
                       PROVE  read.of = <<e, f>>
            BY DEF CatalogueIsOwn
        <2>2. CASE read \in {sessions[e].schemaByDb[f], details[<<e, f>>]}
            BY <2>1, <2>2 DEF ExplorerInv, CatalogueIsOwn
        <2>3. CASE <<e, f>> = <<c, d>> /\ read = of
            BY <1>4, <2>1, <2>3
        <2>4. <<e, f>> \in Handles  BY DEF Handles
        <2>5. QED  BY <1>1, <1>6, <2>1, <2>2, <2>3, <2>4
    <1>8. tasks'[t] = Idle /\ \A u \in Tasks \ {t} : tasks'[u] = tasks[u]
        BY <1>1 DEF ExplorerInv, TasksOK
    <1>9. TasksOK'  BY <1>8, <1>1, IdleTyped DEF ExplorerInv, TasksOK
    <1>10. \A u \in Tasks : Switching(u)' = Switching(u)  BY <1>1, <1>8, IdleTyped DEF Switching
    <1>11. \A c1 \in Conns : sessions'[c1].selectedDatabase = sessions[c1].selectedDatabase
        BY <1>1
    <1>12. HandleOwned' /\ OneSwitch' /\ Handled'
        <2>1. \A u \in Tasks : Switching(u) => tasks'[u] = tasks[u]  BY <1>1, <1>8 DEF Switching
        <2>2. QED  BY <1>1, <1>10, <1>11, <2>1, SwitchesKept DEF ExplorerInv
    <1>13. SelectedIsScanned'
        <2>1. \A e \in Conns, f \in Dbs : Scanning(e, f) => Scanning(e, f)'
            BY <1>1, <1>8 DEF Scanning
        <2>2. sessions' \in [Conns -> SessionRecords]  BY <1>1 DEF ExplorerInv, StateTyped
        <2>3. QED  BY <1>1, <2>1, <2>2, SelectedKept DEF ExplorerInv
    <1>14. Registered'  BY <1>1, <1>8 DEF ExplorerInv, Registered
    <1>15. StateTyped' /\ EvictedStaysOut'
        BY <1>1, <1>6 DEF ExplorerInv, StateTyped, EvictedStaysOut
    <1>16. QED  BY <1>7, <1>9, <1>12, <1>13, <1>14, <1>15 DEF ExplorerInv

(* Handlers of completion: the sidebar is left alone, but for the switches *)
(* and scans none of these handlers takes part in.                         *)
LEMMA SidebarKept ==
    ASSUME ExplorerInv, TasksOK',
           \A u \in Tasks : \/ tasks'[u].conn = tasks[u].conn /\ tasks'[u].db = tasks[u].db
                               /\ tasks'[u].at = tasks[u].at /\ tasks'[u].view = tasks[u].view
                            \/ tasks[u].at \notin {"version", "scan"} /\ tasks'[u].at \notin {"version", "scan"},
           UNCHANGED <<active, currentDb, sessions, details, overtaken>>
    PROVE  HandleOwned' /\ OneSwitch' /\ Handled' /\ CatalogueIsOwn' /\ SelectedIsScanned'
    <1>1. \A u \in Tasks : Switching(u)' = Switching(u)  BY DEF Switching
    <1>2. \A u \in Tasks : Switching(u) => tasks'[u].conn = tasks[u].conn /\ tasks'[u].db = tasks[u].db
        BY DEF Switching
    <1>3. HandleOwned' /\ OneSwitch' /\ Handled'
        BY <1>1, <1>2, SwitchesKept DEF ExplorerInv
    <1>4. \A e \in Conns, f \in Dbs : Scanning(e, f) => Scanning(e, f)'  BY DEF Scanning
    <1>5. sessions' \in [Conns -> SessionRecords]  BY DEF ExplorerInv, StateTyped
    <1>6. SelectedIsScanned'  BY <1>4, <1>5, SelectedKept DEF ExplorerInv
    <1>7. CatalogueIsOwn'  BY DEF ExplorerInv, CatalogueIsOwn
    <1>8. QED  BY <1>3, <1>6, <1>7

LEMMA EnsureSchemaForSafe ==
    ASSUME ExplorerInv, NEW t \in Tasks, NEW h \in Handles, EnsureSchemaFor(t, h)
    PROVE  ExplorerInv'
    <1> DEFINE k == Task("ensure", "fetch", h[1], h[2])
    <1>1. /\ tasks[t].at = "idle" /\ tasks' = [tasks EXCEPT ![t] = k]
          /\ pending' = [pending EXCEPT ![h] = t]
          /\ UNCHANGED <<active, currentDb, sessions, details, snapshots, overtaken>>
        BY DEF EnsureSchemaFor, Begin, Free
    <1>2. /\ k \in TaskRecords /\ k.at = "ensure" /\ k.kind = "fetch" /\ k.conn = h[1] /\ k.db = h[2]
          /\ ~ k.settled /\ ~ k.evicted
        BY TaskTyped DEF Labels, Kinds, Connects, Handles
    <1> HIDE DEF k
    <1>3. Placed(k) /\ Honest(k)  BY <1>2 DEF Placed, Honest, Handles
    <1>4. tasks'[t] = k /\ \A u \in Tasks \ {t} : tasks'[u] = tasks[u]
        BY <1>1 DEF ExplorerInv, TasksOK
    <1>5. TasksOK'  BY <1>1, <1>2, <1>3, <1>4 DEF ExplorerInv, TasksOK
    <1>6. HandleOwned' /\ OneSwitch' /\ Handled' /\ CatalogueIsOwn' /\ SelectedIsScanned'
        BY <1>1, <1>2, <1>4, <1>5, SidebarKept
    <1>7. /\ pending' \in [Handles -> Tasks \cup {None}] /\ pending'[h] = t
          /\ \A g \in Handles \ {h} : pending'[g] = pending[g]
        BY <1>1 DEF ExplorerInv, StateTyped
    <1>8. Registered'
        <2>1. SUFFICES ASSUME NEW g \in Handles, pending'[g] # None
                       PROVE  /\ pending'[g] \in Tasks /\ tasks'[pending'[g]].at \in {"ensure", "items"}
                              /\ tasks'[pending'[g]].conn = g[1] /\ tasks'[pending'[g]].db = g[2]
                              /\ ~ tasks'[pending'[g]].evicted
            BY DEF Registered
        <2>2. CASE g = h  BY <1>2, <1>4, <1>7, <2>2
        <2>3. CASE g # h
            <3>1. pending'[g] = pending[g]  BY <1>7, <2>3
            <3>2. pending[g] # t  BY <1>1, <2>1, <3>1 DEF ExplorerInv, Registered
            <3>3. QED  BY <1>4, <2>1, <3>1, <3>2 DEF ExplorerInv, Registered
        <2>4. QED  BY <2>2, <2>3
    <1>9. StateTyped' /\ EvictedStaysOut'
        BY <1>1, <1>7 DEF ExplorerInv, StateTyped, EvictedStaysOut
    <1>10. QED  BY <1>5, <1>6, <1>8, <1>9 DEF ExplorerInv

(* A fetch that is over takes back its own registration, if it still has   *)
(* one.                                                                    *)
LEMMA FetchEnds ==
    ASSUME ExplorerInv, NEW t \in Tasks, tasks[t].at \in {"ensure", "items"},
           End(t), Unregister(t, <<tasks[t].conn, tasks[t].db>>),
           UNCHANGED <<active, currentDb, sessions, details, overtaken>>,
           snapshots' \subseteq [of : Handles, evicted : BOOLEAN], EvictedStaysOut'
    PROVE  ExplorerInv'
    <1> DEFINE h == <<tasks[t].conn, tasks[t].db>>
    <1>1. tasks'[t] = Idle /\ \A u \in Tasks \ {t} : tasks'[u] = tasks[u]
        BY DEF ExplorerInv, TasksOK, End
    <1>2. tasks' \in [Tasks -> TaskRecords]
        BY IdleTyped DEF ExplorerInv, TasksOK, End
    <1>3. TasksOK'  BY <1>1, <1>2, IdleTyped DEF ExplorerInv, TasksOK
    <1>4. HandleOwned' /\ OneSwitch' /\ Handled' /\ CatalogueIsOwn' /\ SelectedIsScanned'
        BY <1>1, <1>3, IdleTyped, SidebarKept
    <1>5. h \in Handles  BY DEF ExplorerInv, TasksOK, Placed, Handles
    <1>6. /\ pending' \in [Handles -> Tasks \cup {None}]
          /\ \A g \in Handles : pending'[g] # None => pending'[g] = pending[g]
          /\ pending'[h] # t
        BY <1>5, NoneAssumption DEF Unregister, ExplorerInv, StateTyped
    <1>7. Registered'
        <2>1. SUFFICES ASSUME NEW g \in Handles, pending'[g] # None
                       PROVE  /\ pending'[g] \in Tasks /\ tasks'[pending'[g]].at \in {"ensure", "items"}
                              /\ tasks'[pending'[g]].conn = g[1] /\ tasks'[pending'[g]].db = g[2]
                              /\ ~ tasks'[pending'[g]].evicted
            BY DEF Registered
        <2>2. pending'[g] = pending[g]  BY <1>6, <2>1
        <2>3. pending[g] # t
            <3>1. pending[g] = t => g[1] = tasks[t].conn /\ g[2] = tasks[t].db
                BY <2>1, <2>2 DEF ExplorerInv, Registered
            <3>2. pending[g] = t => g = h  BY <3>1 DEF Handles
            <3>3. QED  BY <1>6, <2>2, <3>2
        <2>4. QED  BY <1>1, <2>1, <2>2, <2>3 DEF ExplorerInv, Registered
    <1>8. StateTyped'  BY <1>6 DEF ExplorerInv, StateTyped
    <1>9. QED  BY <1>3, <1>4, <1>7, <1>8 DEF ExplorerInv

LEMMA EnsuredSafe ==
    ASSUME ExplorerInv, NEW t \in Tasks, Ensured(t)
    PROVE  ExplorerInv'
    <1>1. /\ tasks[t].at = "ensure" /\ UNCHANGED <<active, currentDb, sessions, details, snapshots, overtaken>>
          /\ \/ Continue(t, "items") /\ UNCHANGED pending
             \/ End(t) /\ Unregister(t, <<tasks[t].conn, tasks[t].db>>)
        BY DEF Ensured
    <1>2. CASE End(t) /\ Unregister(t, <<tasks[t].conn, tasks[t].db>>)
        <2>1. snapshots' \subseteq [of : Handles, evicted : BOOLEAN] /\ EvictedStaysOut'
            BY <1>1 DEF ExplorerInv, StateTyped, EvictedStaysOut
        <2>2. QED  BY <1>1, <1>2, <2>1, FetchEnds
    <1>3. CASE Continue(t, "items") /\ UNCHANGED pending
        <2> DEFINE k == [tasks[t] EXCEPT !.at = "items"]
        <2>1. tasks' = [tasks EXCEPT ![t] = k]
            BY <1>3 DEF Continue, ExplorerInv, TasksOK
        <2>2. /\ k \in TaskRecords /\ k.at = "items" /\ k.kind = tasks[t].kind /\ k.conn = tasks[t].conn
              /\ k.db = tasks[t].db /\ k.target = tasks[t].target /\ k.view = tasks[t].view
              /\ k.settled = tasks[t].settled /\ k.evicted = tasks[t].evicted
              /\ Placed(tasks[t]) /\ Honest(tasks[t])
            BY <1>1, Moves DEF Labels
        <2> HIDE DEF k
        <2>3. Placed(k)  BY <1>1, <2>2 DEF Placed
        <2>4. Honest(k)  BY <1>1, <2>2 DEF Honest, Placed
        <2>5. tasks'[t] = k /\ \A u \in Tasks \ {t} : tasks'[u] = tasks[u]
            BY <2>1 DEF ExplorerInv, TasksOK
        <2>6. TasksOK'  BY <2>1, <2>2, <2>3, <2>4, <2>5 DEF ExplorerInv, TasksOK
        <2>7. HandleOwned' /\ OneSwitch' /\ Handled' /\ CatalogueIsOwn' /\ SelectedIsScanned'
            BY <1>1, <2>2, <2>5, <2>6, SidebarKept
        <2>8. Registered'
            BY <1>1, <1>3, <2>2, <2>5 DEF ExplorerInv, Registered
        <2>9. StateTyped' /\ EvictedStaysOut'
            BY <1>1, <1>3 DEF ExplorerInv, StateTyped, EvictedStaysOut
        <2>10. QED  BY <2>6, <2>7, <2>8, <2>9 DEF ExplorerInv
    <1>4. QED  BY <1>1, <1>2, <1>3

(* Only a fetch that is still registered brings its snapshot, and such a   *)
(* fetch was not evicted.                                                  *)
LEMMA ItemsSafe ==
    ASSUME ExplorerInv, NEW t \in Tasks, Items(t)
    PROVE  ExplorerInv'
    <1> DEFINE h == <<tasks[t].conn, tasks[t].db>>
    <1>1. /\ tasks[t].at = "items" /\ End(t) /\ Unregister(t, h)
          /\ UNCHANGED <<active, currentDb, sessions, details, overtaken>>
        BY DEF Items
    <1>2. h \in Handles  BY <1>1 DEF ExplorerInv, TasksOK, Placed, Handles
    <1>3. pending[h] = t => ~ tasks[t].evicted
        BY <1>2, NoneAssumption DEF ExplorerInv, Registered
    <1>4. snapshots' \subseteq [of : Handles, evicted : BOOLEAN] /\ EvictedStaysOut'
        <2>1. CASE UNCHANGED snapshots
            BY <2>1 DEF ExplorerInv, StateTyped, EvictedStaysOut
        <2>2. CASE pending[h] = t /\ snapshots' = snapshots \cup {[of |-> h, evicted |-> tasks[t].evicted]}
            <3>1. tasks[t].evicted \in BOOLEAN  BY DEF ExplorerInv, TasksOK, TaskRecords
            <3>2. QED  BY <1>2, <1>3, <2>2, <3>1 DEF ExplorerInv, StateTyped, EvictedStaysOut
        <2>3. QED  BY <2>1, <2>2 DEF Items
    <1>5. QED  BY <1>1, <1>4, FetchEnds

LEMMA DropCachedConnectionSafe ==
    ASSUME ExplorerInv, NEW c \in Conns, DropCachedConnection(c)
    PROVE  ExplorerInv'
    <1>1. UNCHANGED <<active, currentDb, sessions, details, overtaken>>  BY DEF DropCachedConnection
    <1>2. \A u \in Tasks :
             IF tasks[u].kind = "fetch" /\ tasks[u].conn = c
             THEN tasks'[u] = [tasks[u] EXCEPT !.evicted = TRUE] ELSE tasks'[u] = tasks[u]
        BY DEF DropCachedConnection
    <1>3. \A u \in Tasks :
             /\ tasks[u] \in TaskRecords /\ Placed(tasks[u]) /\ Honest(tasks[u])
             /\ tasks'[u] \in TaskRecords
             /\ tasks'[u].at = tasks[u].at /\ tasks'[u].kind = tasks[u].kind
             /\ tasks'[u].conn = tasks[u].conn /\ tasks'[u].db = tasks[u].db
             /\ tasks'[u].target = tasks[u].target /\ tasks'[u].view = tasks[u].view
             /\ tasks'[u].settled = tasks[u].settled
             /\ tasks[u].conn # c => tasks'[u].evicted = tasks[u].evicted
        BY <1>2 DEF ExplorerInv, TasksOK, TaskRecords
    <1>4. TasksOK'
        <2>1. tasks' \in [Tasks -> TaskRecords]  BY <1>3 DEF DropCachedConnection
        <2>2. SUFFICES ASSUME NEW u \in Tasks  PROVE Placed(tasks'[u]) /\ Honest(tasks'[u])
            BY <2>1 DEF TasksOK
        <2>3. Placed(tasks'[u])  BY <1>3 DEF Placed
        <2>4. Honest(tasks'[u])  BY <1>3 DEF Honest
        <2>5. QED  BY <2>3, <2>4
    <1>5. HandleOwned' /\ OneSwitch' /\ Handled' /\ CatalogueIsOwn' /\ SelectedIsScanned'
        BY <1>1, <1>3, <1>4, SidebarKept
    <1>6. /\ pending' \in [Handles -> Tasks \cup {None}]
          /\ \A g \in Handles : pending'[g] # None => g[1] # c /\ pending'[g] = pending[g]
        BY DEF DropCachedConnection, ExplorerInv, StateTyped
    <1>7. Registered'
        <2>1. SUFFICES ASSUME NEW g \in Handles, pending'[g] # None
                       PROVE  /\ pending'[g] \in Tasks /\ tasks'[pending'[g]].at \in {"ensure", "items"}
                              /\ tasks'[pending'[g]].conn = g[1] /\ tasks'[pending'[g]].db = g[2]
                              /\ ~ tasks'[pending'[g]].evicted
            BY DEF Registered
        <2>2. pending'[g] = pending[g] /\ g[1] # c  BY <1>6, <2>1
        <2>3. /\ pending[g] \in Tasks /\ tasks[pending[g]].at \in {"ensure", "items"}
              /\ tasks[pending[g]].conn = g[1] /\ tasks[pending[g]].db = g[2]
              /\ ~ tasks[pending[g]].evicted
            BY <2>1, <2>2 DEF ExplorerInv, Registered
        <2>4. QED  BY <1>3, <2>2, <2>3
    <1>8. StateTyped' /\ EvictedStaysOut'
        BY <1>1, <1>6 DEF DropCachedConnection, ExplorerInv, StateTyped, EvictedStaysOut
    <1>9. QED  BY <1>4, <1>5, <1>7, <1>8 DEF ExplorerInv

-----------------------------------------------------------------------------
(* Connects.                                                               *)

(* A connect that is over makes its server active with the database it was *)
(* for, whose catalogue is there, or is on its way, or is scanned from now *)
(* on.                                                                     *)
LEMMA ActivateSafe ==
    ASSUME ExplorerInv, NEW t \in Tasks, NEW handle \in Handles, Activate(t, handle),
           tasks[t].at \in {"load", "version"},
           currentDb' = handle, overtaken' \in BOOLEAN, UNCHANGED <<details, snapshots, pending>>,
           ~ overtaken' => handle = <<tasks[t].conn, tasks[t].db>> /\ \A u \in Tasks \ {t} : ~ Switching(u)
    PROVE  ExplorerInv'
    <1> DEFINE c == tasks[t].conn
               d == tasks[t].db
               k == AfterConnect(t)
               scan == [Task("scan", "effect", c, d) EXCEPT
                          !.view = [conn |-> c, handle |-> handle, selected |-> d],
                          !.settled = ~ overtaken' /\ \A u \in Tasks \ {t} : ~ Switching(u)]
    <1>1. tasks[t] \in TaskRecords /\ Placed(tasks[t]) /\ Honest(tasks[t])
        BY DEF ExplorerInv, TasksOK
    <1>2. c \in Conns /\ d \in Dbs  BY <1>1 DEF Placed
    <1>3. /\ k \in TaskRecords /\ k.at \in {"idle", "lists", "reload", "execute"}
          /\ Placed(k) /\ Honest(k)
        <2>1. CASE tasks[t].kind \notin {"server", "backup", "drop"}
            BY <2>1, IdleTyped DEF AfterConnect
        <2>2. CASE tasks[t].kind \in {"server", "backup", "drop"}
            <3>1. \/ k = [tasks[t] EXCEPT !.at = "lists"] /\ tasks[t].kind = "server"
                  \/ k = [tasks[t] EXCEPT !.at = "reload"] /\ tasks[t].kind = "backup"
                  \/ k = [tasks[t] EXCEPT !.at = "execute"] /\ tasks[t].kind = "drop"
                BY <2>2 DEF AfterConnect
            <3>2. /\ k \in TaskRecords /\ k.kind = tasks[t].kind /\ k.conn = c /\ k.db = d
                  /\ k.target = tasks[t].target /\ k.view = tasks[t].view /\ k.settled = tasks[t].settled
                  /\ \/ k.at = "lists" /\ k.kind = "server"
                     \/ k.at = "reload" /\ k.kind = "backup"
                     \/ k.at = "execute" /\ k.kind = "drop"
                BY <1>1, <3>1 DEF TaskRecords, Labels
            <3> HIDE DEF k, c, d
            <3>3. Placed(k)  BY <1>1, <1>2, <3>2 DEF Placed, c, d
            <3>4. Honest(k)  BY <1>1, <3>2 DEF Honest, c, d
            <3>5. QED  BY <3>2, <3>3, <3>4
        <2>3. QED  BY <2>1, <2>2
    <1>4. /\ scan \in TaskRecords /\ scan.at = "scan" /\ scan.kind = "effect" /\ scan.db = d
          /\ scan.view.conn = c /\ scan.view.handle = handle
          /\ scan.settled => ~ overtaken'
        <2> DEFINE base == Task("scan", "effect", c, d)
                   seen == [conn |-> c, handle |-> handle, selected |-> d]
                   settled == ~ overtaken' /\ \A u \in Tasks \ {t} : ~ Switching(u)
        <2>1. base \in TaskRecords /\ base.at = "scan" /\ base.kind = "effect" /\ base.db = d
            BY <1>2, TaskTyped DEF Labels, Kinds, Connects
        <2>2. seen \in Views /\ seen.conn = c /\ seen.handle = handle  BY <1>2 DEF Views
        <2>3. settled \in BOOLEAN /\ (settled => ~ overtaken')  OBVIOUS
        <2>4. scan = [base EXCEPT !.view = seen, !.settled = settled]  OBVIOUS
        <2> HIDE DEF base, seen, settled, scan
        <2>5. QED  BY <2>1, <2>2, <2>3, <2>4 DEF TaskRecords
    <1>5. /\ active' = c
          /\ sessions' = [sessions EXCEPT ![c].selectedDatabase = d,
                                          ![c].isLoadingSchema = @ \/ ScanWanted(c, d)]
          /\ \/ ~ ScanWanted(c, d) /\ tasks' = [tasks EXCEPT ![t] = k]
             \/ ScanWanted(c, d) /\ \E s \in Tasks : Free(s) /\ tasks' = [tasks EXCEPT ![t] = k, ![s] = scan]
        BY DEF Activate
    <1> DEFINE wanted == ScanWanted(c, d)
    <1>6. wanted \in BOOLEAN  BY DEF ScanWanted
    <1>7. ~ wanted => \/ sessions[c].schemaByDb[d] # None
                      \/ active = c /\ sessions[c].selectedDatabase = d
        <2>1. <<c, d>> = <<active, SelectedOf(active)>> => active = c /\ sessions[c].selectedDatabase = d
            BY <1>2, NoneAssumption DEF SelectedOf
        <2>2. QED  BY <2>1 DEF ScanWanted, Cached
    <1>8. scan.settled => scan.view.handle = <<scan.view.conn, scan.db>>  BY <1>4
    <1> HIDE DEF k, scan, wanted
    <1>9. Placed(scan)  BY <1>2, <1>4 DEF Placed
    <1>10. Honest(scan)  BY <1>4, <1>8 DEF Honest
    <1>11. PICK s \in Tasks :
              /\ tasks'[t] = k
              /\ \/ s = t /\ ~ wanted
                 \/ s # t /\ wanted /\ tasks[s].at = "idle" /\ tasks'[s] = scan
              /\ \A u \in Tasks \ {t, s} : tasks'[u] = tasks[u]
              /\ tasks' \in [Tasks -> TaskRecords]
        <2>1. tasks \in [Tasks -> TaskRecords]  BY DEF ExplorerInv, TasksOK
        <2>2. CASE ~ wanted /\ tasks' = [tasks EXCEPT ![t] = k]  BY <1>3, <2>1, <2>2
        <2>3. ASSUME wanted, NEW s \in Tasks, Free(s), tasks' = [tasks EXCEPT ![t] = k, ![s] = scan]
              PROVE  /\ tasks'[t] = k /\ s # t /\ tasks[s].at = "idle" /\ tasks'[s] = scan
                     /\ \A u \in Tasks \ {t, s} : tasks'[u] = tasks[u]
                     /\ tasks' \in [Tasks -> TaskRecords]
            BY <1>3, <1>4, <2>1, <2>3 DEF Free
        <2>4. QED  BY <1>5, <2>2, <2>3 DEF wanted
    <1>12. TasksOK'  BY <1>3, <1>9, <1>10, <1>11 DEF ExplorerInv, TasksOK
    <1>13. \A u \in Tasks : Switching(u)' => u # t /\ Switching(u)
        BY <1>3, <1>4, <1>11 DEF Switching
    <1>14. /\ sessions' \in [Conns -> SessionRecords]
           /\ \A e \in Conns : sessions'[e].schemaByDb = sessions[e].schemaByDb
           /\ \A e \in Conns \ {c} : sessions'[e] = sessions[e]
           /\ sessions'[c].selectedDatabase = d
           /\ sessions'[c].isLoadingSchema => sessions[c].isLoadingSchema \/ wanted
        <2>1. sessions' = [sessions EXCEPT ![c].selectedDatabase = d,
                                           ![c].isLoadingSchema = @ \/ wanted]
            BY <1>5 DEF wanted
        <2>2. QED  BY <1>2, <1>6, <2>1 DEF ExplorerInv, StateTyped, SessionRecords
    <1>15. SelectedIsScanned'
        <2>1. \A e \in Conns, f \in Dbs : Scanning(e, f) => Scanning(e, f)'
            BY <1>11 DEF Scanning
        <2>2. \A e \in Conns, f \in Dbs : wanted /\ e = c /\ f = d => Scanning(e, f)'
            BY <1>4, <1>11 DEF Scanning
        <2>3. \A e \in Conns :
                \/ sessions'[e].selectedDatabase \in {None, sessions[e].selectedDatabase}
                \/ sessions'[e].schemaByDb[sessions'[e].selectedDatabase] # None
                \/ \E f \in Dbs : f = sessions'[e].selectedDatabase /\ Scanning(e, f)'
            BY <1>2, <1>7, <1>14, <2>2
        <2>4. \A e \in Conns : sessions'[e].isLoadingSchema =>
                sessions[e].isLoadingSchema \/ \E f \in Dbs : Scanning(e, f)'
            BY <1>2, <1>14, <2>2
        <2>5. QED  BY <1>14, <2>1, <2>3, <2>4, SelectedKept DEF ExplorerInv
    <1>16. HandleOwned'
        <2>1. SelectedOf(active)' = d  BY <1>2, <1>5, <1>14, NoneAssumption DEF SelectedOf
        <2>2. Settled' => handle = <<c, d>>  BY DEF Settled
        <2>3. QED  BY <1>5, <2>1, <2>2 DEF HandleOwned
    <1>17. OneSwitch'  BY <1>13 DEF OneSwitch
    <1>18. Handled'  BY DEF Handled
    <1>19. CatalogueIsOwn'  BY <1>14 DEF ExplorerInv, CatalogueIsOwn
    <1>20. Registered'
        <2>1. \A u \in Tasks : tasks[u].at \in {"ensure", "items"} => tasks'[u] = tasks[u]
            BY <1>11
        <2>2. QED  BY <2>1 DEF ExplorerInv, Registered
    <1>21. StateTyped' /\ EvictedStaysOut'
        BY <1>2, <1>5, <1>14 DEF ExplorerInv, StateTyped, EvictedStaysOut
    <1>22. QED  BY <1>12, <1>15, <1>16, <1>17, <1>18, <1>19, <1>20, <1>21 DEF ExplorerInv

LEMMA VersionSafe ==
    ASSUME ExplorerInv, NEW t \in Tasks, Version(t)
    PROVE  ExplorerInv'
    <1>1. /\ tasks[t].at = "version" /\ Activate(t, currentDb)
          /\ UNCHANGED <<currentDb, details, snapshots, pending, overtaken>>
        BY DEF Version, Switching
    <1>2. currentDb \in Handles /\ overtaken \in BOOLEAN
        BY <1>1 DEF ExplorerInv, Handled, Switching, StateTyped
    <1>3. ~ overtaken => currentDb = <<tasks[t].conn, tasks[t].db>> /\ \A u \in Tasks \ {t} : ~ Switching(u)
        BY <1>1 DEF ExplorerInv, OneSwitch, Switching
    <1>4. QED  BY <1>1, <1>2, <1>3, ActivateSafe

(* A handle that is set while another connect waits overtakes it; any      *)
(* other is alone until its server is active.                              *)
LEMMA LoadSafe ==
    ASSUME ExplorerInv, NEW t \in Tasks, Load(t)
    PROVE  ExplorerInv'
    <1> DEFINE c == tasks[t].conn
               d == tasks[t].db
    <1>1. /\ tasks[t].at = "load" /\ currentDb' = <<c, d>>
          /\ overtaken' = \E u \in Tasks : Switching(u)
          /\ UNCHANGED <<details, snapshots, pending>>
        BY DEF Load
    <1>2. tasks[t] \in TaskRecords /\ Placed(tasks[t]) /\ Honest(tasks[t])
        BY DEF ExplorerInv, TasksOK
    <1>3. c \in Conns /\ d \in Dbs  BY <1>1, <1>2 DEF Placed
    <1>4. <<c, d>> \in Handles /\ overtaken' \in BOOLEAN  BY <1>1, <1>3 DEF Handles
    <1>5. CASE Activate(t, <<c, d>>)
        <2>1. ~ overtaken' => \A u \in Tasks \ {t} : ~ Switching(u)  BY <1>1
        <2>2. QED  BY <1>1, <1>4, <1>5, <2>1, ActivateSafe
    <1>6. CASE Continue(t, "version") /\ UNCHANGED <<active, sessions>>
        <2> DEFINE k == [tasks[t] EXCEPT !.at = "version"]
        <2>1. tasks' = [tasks EXCEPT ![t] = k]
            BY <1>6 DEF Continue, ExplorerInv, TasksOK
        <2>2. /\ k \in TaskRecords /\ k.at = "version" /\ k.kind = tasks[t].kind /\ k.conn = c
              /\ k.db = d /\ k.target = tasks[t].target /\ k.view = tasks[t].view
              /\ k.settled = tasks[t].settled
            BY <1>1, Moves DEF Labels
        <2> HIDE DEF k
        <2>3. Placed(k)  BY <1>1, <1>2, <1>3, <2>2 DEF Placed, Connects
        <2>4. Honest(k)  BY <1>2, <2>2 DEF Honest
        <2>5. tasks'[t] = k /\ \A u \in Tasks \ {t} : tasks'[u] = tasks[u]
            BY <2>1 DEF ExplorerInv, TasksOK
        <2>6. TasksOK'  BY <2>1, <2>2, <2>3, <2>4, <2>5 DEF ExplorerInv, TasksOK
        <2>7. Switching(t)' /\ \A u \in Tasks \ {t} : Switching(u)' = Switching(u)
            BY <2>2, <2>5 DEF Switching
        <2>8. HandleOwned'  BY <2>7 DEF HandleOwned, Settled
        <2>9. OneSwitch'  BY <1>1, <2>2, <2>5, <2>7 DEF OneSwitch
        <2>10. Handled'  BY <1>1, <1>4 DEF Handled
        <2>11. SelectedIsScanned'
            <3>1. \A e \in Conns, f \in Dbs : Scanning(e, f) => Scanning(e, f)'
                BY <1>1, <2>5 DEF Scanning
            <3>2. sessions' \in [Conns -> SessionRecords]  BY <1>6 DEF ExplorerInv, StateTyped
            <3>3. QED  BY <1>6, <3>1, <3>2, SelectedKept DEF ExplorerInv
        <2>12. CatalogueIsOwn'  BY <1>1, <1>6 DEF ExplorerInv, CatalogueIsOwn
        <2>13. Registered'  BY <1>1, <2>5 DEF ExplorerInv, Registered
        <2>14. StateTyped' /\ EvictedStaysOut'
            BY <1>1, <1>4, <1>6 DEF ExplorerInv, StateTyped, EvictedStaysOut
        <2>15. QED
            BY <2>6, <2>8, <2>9, <2>10, <2>11, <2>12, <2>13, <2>14 DEF ExplorerInv
    <1>7. QED  BY <1>5, <1>6 DEF Load

-----------------------------------------------------------------------------
(* The specification.                                                      *)

LEMMA ExplorerStarts == Init => ExplorerInv
    <1> SUFFICES ASSUME Init  PROVE ExplorerInv
        OBVIOUS
    <1>1. \A t \in Tasks : tasks[t] = Idle  BY DEF Init
    <1>2. TasksOK  BY <1>1, IdleTyped DEF Init, TasksOK
    <1>3. BlankSession \in SessionRecords /\ BlankSession.selectedDatabase = None
          /\ ~ BlankSession.isLoadingSchema /\ \A d \in Dbs : BlankSession.schemaByDb[d] = None
        BY DEF BlankSession, SessionRecords, Entries
    <1>4. /\ sessions \in [Conns -> SessionRecords]
          /\ \A c \in Conns : /\ sessions[c].selectedDatabase = None /\ ~ sessions[c].isLoadingSchema
                              /\ \A d \in Dbs : sessions[c].schemaByDb[d] = None
        BY <1>3 DEF Init
    <1>5. StateTyped  BY <1>4 DEF Init, StateTyped
    <1>6. Registered  BY DEF Init, Registered
    <1>7. \A t \in Tasks : ~ Switching(t)  BY <1>1, IdleTyped DEF Switching
    <1>8. HandleOwned /\ OneSwitch /\ Handled
        BY <1>7 DEF Init, HandleOwned, OneSwitch, Handled
    <1>9. CatalogueIsOwn
        BY <1>4 DEF Init, CatalogueIsOwn, Handles
    <1>10. SelectedIsScanned  BY <1>4 DEF SelectedIsScanned
    <1>11. EvictedStaysOut  BY DEF Init, EvictedStaysOut
    <1>12. QED  BY <1>2, <1>5, <1>6, <1>8, <1>9, <1>10, <1>11 DEF ExplorerInv

LEMMA ClickSafe ==
    ASSUME ExplorerInv, NEW t \in Tasks, Click(t)
    PROVE  ExplorerInv'
    <1>1. ASSUME NEW c \in Conns, OpenServer(t, c)  PROVE ExplorerInv'
        BY <1>1, ExplorerAssumption, ConnectBegins DEF OpenServer
    <1>2. ASSUME NEW c \in Conns, NEW d \in Dbs, Select(t, c, d)  PROVE ExplorerInv'
        BY <1>2, ConnectBegins DEF Select
    <1>3. ASSUME NEW c \in Conns, NEW d \in Dbs, OpenDatabase(t, c, d)  PROVE ExplorerInv'
        BY <1>3, ConnectBegins DEF OpenDatabase
    <1>4. ASSUME NEW h \in Fetched, EnsureSchemaFor(t, h)  PROVE ExplorerInv'
        <2>1. h \in Handles  BY ExplorerAssumption DEF Handles
        <2>2. QED  BY <1>4, <2>1, EnsureSchemaForSafe
    <1>5. QED
        BY <1>1, <1>2, <1>3, <1>4, OpenSelectedSafe, RefreshSafe, OpenTableSafe, BackupSafe,
           RestoreSafe, DropSafe, CreateSafe DEF Click

LEMMA AnswerSafe ==
    ASSUME ExplorerInv, NEW t \in Tasks, Answer(t)
    PROVE  ExplorerInv'
    BY LoadSafe, LoadFailsSafe, VersionSafe, ListsSafe, ScanSafe, ReadTableSafe, ReloadSafe,
       ConfirmSafe, RelistSafe, EnsuredSafe, ItemsSafe DEF Answer

LEMMA ExplorerSteps == ExplorerInv /\ [Next]_vars => ExplorerInv'
    <1> SUFFICES ASSUME ExplorerInv, [Next]_vars  PROVE ExplorerInv'
        OBVIOUS
    <1>1. CASE UNCHANGED vars
        <2>1. UNCHANGED <<active, currentDb, sessions, details, snapshots, pending, tasks, overtaken>>
            BY <1>1 DEF vars
        <2>2. TasksOK'  BY <2>1 DEF ExplorerInv, TasksOK
        <2>3. HandleOwned' /\ OneSwitch' /\ Handled' /\ CatalogueIsOwn' /\ SelectedIsScanned'
            BY <2>1, <2>2, SidebarKept
        <2>4. StateTyped' /\ Registered' /\ EvictedStaysOut'
            BY <2>1 DEF ExplorerInv, StateTyped, Registered, EvictedStaysOut
        <2>5. QED  BY <2>2, <2>3, <2>4 DEF ExplorerInv
    <1>2. QED
        BY <1>1, ClickSafe, AnswerSafe, SendsSafe, DropCachedConnectionSafe DEF Next

(* What the sidebar is made of, and what completion reads, however the     *)
(* handlers interleave.                                                    *)
THEOREM ExplorerSafety == Spec => []ExplorerInv
    <1>1. QED  BY ExplorerStarts, ExplorerSteps, PTL DEF Spec

(* What the tree, Run and the dialogs are shown belongs together, with any *)
(* number of handlers in flight and whatever the user clicks meanwhile.    *)
THEOREM ShownIsKept == Spec => []ShownBelongs
    <1>1. ExplorerInv => ShownBelongs
        <2> SUFFICES ASSUME ExplorerInv  PROVE ShownBelongs
            OBVIOUS
        <2>1. HandleMatches
            <3> SUFFICES ASSUME Settled, active # None, SelectedOf(active) # None
                         PROVE  currentDb = <<active, SelectedOf(active)>>
                BY DEF HandleMatches
            <3>1. active \in Conns /\ SelectedOf(active) \in Dbs
                BY ViewTyped DEF ExplorerInv, StateTyped
            <3>2. QED  BY <3>1, SettledSees
        <2>2. QED  BY <2>1 DEF ShownBelongs, ExplorerInv
    <1>2. QED  BY <1>1, ExplorerSafety, PTL

(* A snapshot whose fetch was evicted never enters the cache.              *)
THEOREM EvictionHolds == Spec => []EvictedStaysOut
    <1>1. ExplorerInv => EvictedStaysOut  BY DEF ExplorerInv
    <1>2. QED  BY <1>1, ExplorerSafety, PTL

(* A backup, a restore or a drop chosen while the handle had settled runs  *)
(* on the server it was chosen for, and the first two on that database.    *)
THEOREM CommandsArrive == Spec => []SettledCommandsArrive
    <1>1. Init => SettledCommandsArrive  BY DEF Init, SettledCommandsArrive
    <1>2. ExplorerInv /\ SettledCommandsArrive /\ [Next]_vars => SettledCommandsArrive'
        <2> SUFFICES ASSUME ExplorerInv, SettledCommandsArrive, [Next]_vars
                     PROVE  SettledCommandsArrive'
            OBVIOUS
        <2>1. CASE acted' = None  BY <2>1 DEF SettledCommandsArrive
        <2>2. CASE UNCHANGED vars  BY <2>2 DEF vars, SettledCommandsArrive
        <2>3. ASSUME NEW t \in Tasks, Send(t), acted' # None  PROVE SettledCommandsArrive'
            <3> DEFINE k == tasks[t]
            <3>1. Placed(k) /\ Honest(k)  BY DEF ExplorerInv, TasksOK
            <3>2. ASSUME NEW what \in {"backup", "restore"},
                         acted' = Command(what, k.target, k.view.handle, k.settled),
                         k.settled => k.view.handle = k.target
                  PROVE  SettledCommandsArrive'
                BY <3>2 DEF SettledCommandsArrive, Command
            <3>3. CASE Write(t)
                <4>1. acted' = Command("backup", k.target, k.view.handle, k.settled) /\ k.at = "write"
                    BY <2>3, <3>3 DEF Write
                <4>2. QED  BY <3>1, <3>2, <4>1 DEF Placed, Honest
            <3>4. CASE RestoreRuns(t)
                <4>1. acted' = Command("restore", k.target, k.view.handle, k.settled) /\ k.at = "restore"
                    BY <3>4 DEF RestoreRuns
                <4>2. QED  BY <3>1, <3>2, <4>1 DEF Placed, Honest
            <3>5. CASE Execute(t)
                <4>1. acted' = Command("drop", k.target, k.view.handle, k.settled) /\ k.kind = "drop"
                    BY <2>3, <3>5 DEF Execute
                <4>2. k.settled => k.view.handle[1] = k.target[1]  BY <3>1, <4>1 DEF Honest
                <4>3. QED  BY <4>1, <4>2 DEF SettledCommandsArrive, Command
            <3>6. QED  BY <2>3, <3>3, <3>4, <3>5 DEF Send
        <2>4. QED  BY <2>1, <2>2, <2>3 DEF Next
    <1>3. QED  BY <1>1, <1>2, ExplorerSafety, PTL DEF Spec
=============================================================================
