------------------------------ MODULE Explorer ------------------------------
(***************************************************************************)
(* The connected servers of the sidebar: ConnectionContext keeps one       *)
(* active connection, one current handle (currentDb) and a session per     *)
(* server; DatabaseExplorer and the selectors of MainContent connect,      *)
(* scan catalogues, read the details of tables, and back up, restore, drop *)
(* and create databases; editor tabs fetch schema snapshots of their own.  *)
(*                                                                         *)
(* Every handler is a task: it runs from one await to the next, and after  *)
(* an await it still sees what React rendered when it was called (view),   *)
(* except where the code reads a ref.  A handle is <<connection, database>>.*)
(* React renders, and runs its effects, before the next answer arrives.    *)
(***************************************************************************)
EXTENDS Naturals, FiniteSets

CONSTANTS
    Conns,      \* saved connections
    Pg,         \* those whose server is asked for its version when connected
    Dbs,        \* names of databases, the same on every server
    Home,       \* the database a connection names, and the maintenance database
    Tasks,      \* bound: handlers that are in flight at the same time
    MaxClicks,  \* bound: tasks begun by the user
    Fetched,    \* bound: the databases editor tabs are targeted at
    None,
    Failed      \* no catalogue either, because its scan failed

ASSUME ExplorerAssumption == Pg \subseteq Conns /\ Home \in Dbs /\ MaxClicks \in Nat /\ Fetched \subseteq Conns \X Dbs
ASSUME NoneAssumption == None \notin Conns \cup Dbs \cup Tasks \cup (Conns \X Dbs)
ASSUME FailedAssumption ==
    Failed # None /\ Failed \notin [of : Conns \X Dbs, settled : BOOLEAN] /\ None \notin [of : Conns \X Dbs, settled : BOOLEAN]

VARIABLES
    active,     \* activeConnection
    currentDb,  \* the handle in the state of the same name
    sessions,   \* the ConnSession of every connection, blank if it has none
    details,    \* tableDetails of one table of every database
    snapshots,  \* schemaCacheRef: the databases completion knows
    pending,    \* schemaPendingRef: the fetch registered for a database
    tasks,
    overtaken,  \* history: the last handle was set while a connect had its own pending
    clicks,     \* how many tasks have been begun by the user
    acted       \* history: what the last step sent for the menu of a database

vars == <<active, currentDb, sessions, details, snapshots, pending, tasks, overtaken, clicks, acted>>

-----------------------------------------------------------------------------
(* Records.                                                                *)

Handles == Conns \X Dbs
Reads == [of : Handles, settled : BOOLEAN]
BlankSession == [selectedDatabase |-> None, databases |-> None, isLoadingSchema |-> FALSE,
                 schemaByDb |-> [d \in Dbs |-> None]]

SelectedOf(a) == IF a = None THEN None ELSE sessions[a].selectedDatabase
IsSelected(c, d) == c = active /\ d = SelectedOf(active)
Cached(c, d) == sessions[c].schemaByDb[d] \notin {None, Failed}

View == [conn |-> active, handle |-> currentDb, selected |-> SelectedOf(active)]

(* A connect has shown its handle and still waits for the version.         *)
Switching(t) == tasks[t].at = "version"
Settled == ~overtaken /\ \A t \in Tasks : ~Switching(t)

Idle ==
    [at |-> "idle", kind |-> None, conn |-> None, db |-> None, target |-> None,
     view |-> [conn |-> None, handle |-> None, selected |-> None],
     items |-> FALSE, settled |-> FALSE, evicted |-> FALSE]
Task(at, kind, c, d) == [Idle EXCEPT !.at = at, !.kind = kind, !.conn = c, !.db = d]
Seeing(task) == [task EXCEPT !.view = View, !.settled = Settled]

Free(t) == tasks[t].at = "idle"
Running(kind, c, d) == \E t \in Tasks : tasks[t].kind = kind /\ tasks[t].conn = c /\ tasks[t].db = d
Begin(t, task) ==
    /\ Free(t) /\ clicks < MaxClicks
    /\ tasks' = [tasks EXCEPT ![t] = task]
    /\ clicks' = clicks + 1
End(t) == tasks' = [tasks EXCEPT ![t] = Idle]
Continue(t, at) == tasks' = [tasks EXCEPT ![t].at = at]

Init ==
    /\ active = None /\ currentDb = None
    /\ sessions = [c \in Conns |-> BlankSession]
    /\ details = [h \in Handles |-> None]
    /\ snapshots = {}
    /\ pending = [h \in Handles |-> None]
    /\ tasks = [t \in Tasks |-> Idle]
    /\ overtaken = FALSE
    /\ clicks = 0
    /\ acted = None

OnlyTasks == UNCHANGED <<active, currentDb, sessions, details, snapshots, pending, overtaken>>

-----------------------------------------------------------------------------
(* Connecting: a click on a server, on a database, the selectors of the    *)
(* breadcrumb.  connectingRef and loadingDatabasesRef keep a second click  *)
(* on the same row out; the selectors have no such guard.  A jump to a     *)
(* server's name (executeJump) also connects to the active one once more.  *)

OpenServer(t, c) ==
    /\ ~\E d \in Dbs : Running("server", c, d)
    /\ Begin(t, Task("load", "server", c, Home))
    /\ OnlyTasks

Select(t, c, d) ==
    /\ Begin(t, Task("load", "selector", c, d))
    /\ OnlyTasks

(* Database.load, through credentials and tunnel, each of which may fail.  *)
LoadFails(t) ==
    /\ tasks[t].at = "load"
    /\ End(t)
    /\ OnlyTasks

(* The effect on activeConnection?.id and selectedDatabase.                *)
(* Mutant: the effect runs for a change of the database only. *)
ScanWantedByName(c, d) == d # SelectedOf(active) /\ ~Cached(c, d)

ScanWanted(c, d) == <<c, d>> # <<active, SelectedOf(active)>> /\ ~Cached(c, d)

AfterConnect(t) ==
    LET k == tasks[t]
    IN CASE k.kind = "server" -> [k EXCEPT !.at = "lists"]
         [] k.kind = "backup" -> [k EXCEPT !.at = "reload"]
         [] k.kind = "drop" -> [k EXCEPT !.at = "execute"]
         [] OTHER -> Idle

Activate(t, handle) ==
    LET c == tasks[t].conn
        d == tasks[t].db
        scan == [Task("scan", "effect", c, d) EXCEPT
                   !.view = [conn |-> c, handle |-> handle, selected |-> d],
                   !.settled = ~overtaken' /\ \A u \in Tasks \ {t} : ~Switching(u)]
    IN /\ active' = c
       /\ sessions' = [sessions EXCEPT ![c].selectedDatabase = d,
                                       ![c].isLoadingSchema = @ \/ ScanWanted(c, d)]
       /\ IF ScanWanted(c, d)
          THEN \E s \in Tasks : Free(s) /\ tasks' = [tasks EXCEPT ![t] = AfterConnect(t), ![s] = scan]
          ELSE tasks' = [tasks EXCEPT ![t] = AfterConnect(t)]

(* Without a version to wait for, React renders the new handle and the     *)
(* connection at once.                                                     *)
Load(t) ==
    /\ tasks[t].at = "load"
    /\ currentDb' = <<tasks[t].conn, tasks[t].db>>
    /\ overtaken' = \E u \in Tasks : Switching(u)
    /\ IF tasks[t].conn \in Pg
       THEN Continue(t, "version") /\ UNCHANGED <<active, sessions>>
       ELSE Activate(t, <<tasks[t].conn, tasks[t].db>>)
    /\ UNCHANGED <<details, snapshots, pending>>

(* Mutant: a failed look at the version ends the connect. *)
VersionThrows(t) ==
    /\ Switching(t)
    /\ End(t)
    /\ UNCHANGED <<active, currentDb, sessions, details, snapshots, pending, overtaken>>

Version(t) ==
    /\ Switching(t)
    /\ UNCHANGED overtaken
    /\ Activate(t, currentDb)
    /\ UNCHANGED <<currentDb, details, snapshots, pending>>

(* The list of databases; roles and tablespaces are left out.              *)
Lists(t) ==
    /\ tasks[t].at = "lists"
    /\ \/ sessions' = [sessions EXCEPT ![tasks[t].conn].databases = tasks[t].conn]
       \/ UNCHANGED sessions
    /\ End(t)
    /\ UNCHANGED <<active, currentDb, details, snapshots, pending, overtaken>>

-----------------------------------------------------------------------------
(* loadSchema, with the connection and the handle of its caller's closure: *)
(* from a row of the tree, from the menu or the dialog of schemas, or from *)
(* a backup.  Its result goes to the session it was started for.           *)

Shown(c) == sessions[c].databases # None
ShowsLoading(c) == sessions' = [sessions EXCEPT ![c].isLoadingSchema = TRUE]

OpenDatabase(t, c, d) ==
    /\ Shown(c) /\ SelectedOf(c) # d
    /\ ~Running("row", c, d)
    /\ Begin(t, Task("load", "row", c, d))
    /\ OnlyTasks

OpenSelected(t, c) ==
    LET d == SelectedOf(c)
    IN /\ Shown(c) /\ d # None /\ ~Cached(c, d)
       /\ active # None /\ currentDb # None /\ ~Cached(active, d)
       /\ ~Running("row", c, d)
       /\ Begin(t, [Seeing(Task("scan", "row", c, d)) EXCEPT !.settled = @ /\ active = c])
       /\ ShowsLoading(active)
       /\ UNCHANGED <<active, currentDb, details, snapshots, pending, overtaken>>

Refresh(t) ==
    LET d == SelectedOf(active)
    IN /\ d # None /\ currentDb # None
       /\ Begin(t, Seeing(Task("scan", "refresh", active, d)))
       /\ ShowsLoading(active)
       /\ UNCHANGED <<active, currentDb, details, snapshots, pending, overtaken>>

(* Mutant: a scan is filed under what is active by then. *)
ScanLandsOnActive(t) ==
    LET k == tasks[t]
        lands(entry) == sessions' = [sessions EXCEPT ![active].schemaByDb[k.db] = entry,
                                                     ![active].isLoadingSchema = FALSE]
    IN /\ k.at = "scan"
       /\ lands([of |-> k.view.handle, settled |-> k.settled]) \/ lands(Failed)
       /\ IF k.kind = "backup" THEN Continue(t, "write") ELSE End(t)
       /\ UNCHANGED <<active, currentDb, details, snapshots, pending, overtaken>>

Scan(t) ==
    LET k == tasks[t]
        lands(entry) == sessions' = [sessions EXCEPT ![k.view.conn].schemaByDb[k.db] = entry,
                                                     ![k.view.conn].isLoadingSchema = FALSE]
    IN /\ k.at = "scan"
       /\ lands([of |-> k.view.handle, settled |-> k.settled]) \/ lands(Failed)
       /\ IF k.kind = "backup" THEN Continue(t, "write") ELSE End(t)
       /\ UNCHANGED <<active, currentDb, details, snapshots, pending, overtaken>>

-----------------------------------------------------------------------------
(* loadTableDetails: under the key of what is active and selected, read    *)
(* once and kept.                                                          *)

OpenTable(t) ==
    LET d == SelectedOf(active)
    IN /\ d # None /\ currentDb # None
       /\ details[<<active, d>>] = None
       /\ ~Running("details", active, d)
       /\ Begin(t, Seeing(Task("read", "details", active, d)))
       /\ OnlyTasks

ReadTable(t) ==
    LET k == tasks[t]
    IN /\ k.at = "read"
       /\ \/ details' = [details EXCEPT ![<<k.conn, k.db>>] = [of |-> k.view.handle, settled |-> k.settled]]
          \/ UNCHANGED details
       /\ End(t)
       /\ UNCHANGED <<active, currentDb, sessions, snapshots, pending, overtaken>>

-----------------------------------------------------------------------------
(* The menu of a database.                                                 *)

Command(what, target, on, settled) ==
    [what |-> what, target |-> target, on |-> on, settled |-> settled]

(* executeBackup connects to the database, on the active connection, and   *)
(* goes on with what its caller saw: the catalogue is loaded, and written, *)
(* through the handle there was.                                           *)
Backup(t, c, d) ==
    /\ Shown(c)
    /\ active # None /\ ~\E u \in Tasks : tasks[u].kind = "backup"
    /\ Begin(t, [Seeing(Task("load", "backup", active, d)) EXCEPT
                   !.target = <<c, d>>, !.settled = @ /\ IsSelected(c, d),
                   !.items = SelectedOf(active) # None /\ Cached(active, SelectedOf(active))])
    /\ OnlyTasks

Reload(t) ==
    LET k == tasks[t]
        scans == k.view.handle # None /\ ~Cached(k.view.conn, k.db)
    IN /\ k.at = "reload"
       /\ Continue(t, IF scans THEN "scan" ELSE "write")
       /\ IF scans THEN ShowsLoading(k.view.conn) ELSE UNCHANGED sessions
       /\ UNCHANGED <<active, currentDb, details, snapshots, pending, overtaken>>

Write(t) ==
    LET k == tasks[t]
    IN /\ k.at = "write"
       /\ acted' = IF k.items /\ k.view.handle # None
                   THEN Command("backup", k.target, k.view.handle, k.settled) ELSE None
       /\ End(t)
       /\ UNCHANGED <<active, currentDb, sessions, details, snapshots, pending, overtaken>>

(* executeRestore runs the file, which the user is asked for first, on the *)
(* handle there was.                                                       *)
Restore(t, c, d) ==
    /\ Shown(c)
    /\ active # None /\ currentDb # None
    /\ Begin(t, [Seeing(Task("restore", "restore", c, d)) EXCEPT
                   !.target = <<c, d>>, !.settled = @ /\ IsSelected(c, d)])
    /\ OnlyTasks

RestoreRuns(t) ==
    LET k == tasks[t]
    IN /\ k.at = "restore"
       /\ acted' = Command("restore", k.target, k.view.handle, k.settled)
       /\ End(t)
       /\ UNCHANGED <<active, currentDb, sessions, details, snapshots, pending, overtaken>>

(* Refused on a server that is not the active one; confirmed by the user.  *)
Drop(t, d) ==
    /\ active # None /\ Shown(active)
    /\ Begin(t, [Seeing(Task("confirm", "drop", active, d)) EXCEPT !.target = <<active, d>>])
    /\ OnlyTasks

(* The database that is open is left first, for the maintenance database.  *)
Confirm(t) ==
    LET k == tasks[t]
        leaves == k.conn \in Pg /\ k.view.selected = k.db
    IN /\ k.at = "confirm"
       /\ \/ /\ k.view.handle # None
             /\ tasks' = [tasks EXCEPT ![t] = IF leaves THEN [k EXCEPT !.at = "load", !.db = Home]
                                              ELSE [k EXCEPT !.at = "execute"]]
          \/ End(t)
       /\ OnlyTasks

Create(t) ==
    /\ active # None /\ currentDb # None
    /\ Begin(t, Seeing(Task("execute", "create", active, None)))
    /\ OnlyTasks

(* No server drops a database PostgreSQL clients have open: the statement  *)
(* runs on the handle of the closure, also after the switch.               *)
(* Mutant: the drop runs on the handle of the moment. *)
ExecuteOnCurrent(t) ==
    LET k == tasks[t]
    IN /\ k.at = "execute"
       /\ acted' = IF k.kind = "drop" THEN Command("drop", k.target, currentDb, k.settled) ELSE None
       /\ \/ ~(k.conn \in Pg /\ k.view.handle = k.target) /\ Continue(t, "relist")
          \/ End(t)
       /\ UNCHANGED <<active, currentDb, sessions, details, snapshots, pending, overtaken>>

Execute(t) ==
    LET k == tasks[t]
    IN /\ k.at = "execute"
       /\ acted' = IF k.kind = "drop" THEN Command("drop", k.target, k.view.handle, k.settled) ELSE None
       /\ \/ ~(k.conn \in Pg /\ k.view.handle = k.target) /\ Continue(t, "relist")
          \/ End(t)
       /\ UNCHANGED <<active, currentDb, sessions, details, snapshots, pending, overtaken>>

(* setDatabases, setSelectedDatabase and setSchemaItems write to the       *)
(* session of what is active by now; the last finds nothing selected.      *)
Relist(t) ==
    LET k == tasks[t]
        deselects == k.kind = "drop" /\ k.view.selected = k.target[2]
    IN /\ k.at = "relist"
       /\ \/ sessions' = [sessions EXCEPT ![active].databases = k.view.handle[1],
                                          ![active].selectedDatabase = IF deselects THEN None ELSE @]
          \/ UNCHANGED sessions
       /\ End(t)
       /\ UNCHANGED <<active, currentDb, details, snapshots, pending, overtaken>>

-----------------------------------------------------------------------------
(* ensureSchemaFor: the snapshots completion reads, each fetched once, and *)
(* evicted by dropCachedConnection.                                        *)

EnsureSchemaFor(t, h) ==
    /\ pending[h] = None /\ \A s \in snapshots : s.of # h
    /\ Begin(t, Task("ensure", "fetch", h[1], h[2]))
    /\ pending' = [pending EXCEPT ![h] = t]
    /\ UNCHANGED <<active, currentDb, sessions, details, snapshots, overtaken>>

Unregister(t, h) == pending' = IF pending[h] = t THEN [pending EXCEPT ![h] = None] ELSE pending

Ensured(t) ==
    /\ tasks[t].at = "ensure"
    /\ \/ Continue(t, "items") /\ UNCHANGED pending
       \/ End(t) /\ Unregister(t, <<tasks[t].conn, tasks[t].db>>)
    /\ UNCHANGED <<active, currentDb, sessions, details, snapshots, overtaken>>

(* Mutant: an evicted fetch enters the cache. *)
ItemsAlways(t) ==
    LET h == <<tasks[t].conn, tasks[t].db>>
    IN /\ tasks[t].at = "items"
       /\ snapshots' = snapshots \cup {[of |-> h, evicted |-> tasks[t].evicted]}
       /\ End(t)
       /\ Unregister(t, h)
       /\ UNCHANGED <<active, currentDb, sessions, details, overtaken>>

Items(t) ==
    LET h == <<tasks[t].conn, tasks[t].db>>
    IN /\ tasks[t].at = "items"
       /\ \/ /\ pending[h] = t
             /\ snapshots' = snapshots \cup {[of |-> h, evicted |-> tasks[t].evicted]}
          \/ UNCHANGED snapshots
       /\ End(t)
       /\ Unregister(t, h)
       /\ UNCHANGED <<active, currentDb, sessions, details, overtaken>>

DropCachedConnection(c) ==
    /\ snapshots' = {s \in snapshots : s.of[1] # c}
    /\ pending' = [h \in Handles |-> IF h[1] = c THEN None ELSE pending[h]]
    /\ tasks' = [t \in Tasks |->
                   IF tasks[t].kind = "fetch" /\ tasks[t].conn = c
                   THEN [tasks[t] EXCEPT !.evicted = TRUE] ELSE tasks[t]]
    /\ UNCHANGED <<active, currentDb, sessions, details, overtaken>>

-----------------------------------------------------------------------------

Click(t) ==
    \/ \E c \in Conns : OpenServer(t, c) \/ OpenSelected(t, c)
    \/ \E c \in Conns, d \in Dbs :
         Select(t, c, d) \/ OpenDatabase(t, c, d) \/ Backup(t, c, d) \/ Restore(t, c, d)
    \/ \E d \in Dbs : Drop(t, d)
    \/ \E h \in Fetched : EnsureSchemaFor(t, h)
    \/ Refresh(t) \/ OpenTable(t) \/ Create(t)

Answer(t) ==
    \/ Load(t) \/ LoadFails(t) \/ Version(t) \/ Lists(t)
    \/ Scan(t) \/ ReadTable(t)
    \/ Reload(t) \/ Confirm(t) \/ Relist(t)
    \/ Ensured(t) \/ Items(t)

Send(t) == Write(t) \/ RestoreRuns(t) \/ Execute(t)

Next ==
    \/ (\E t \in Tasks : Click(t)) /\ acted' = None
    \/ /\ (\E t \in Tasks : Answer(t)) \/ (\E c \in Conns : DropCachedConnection(c))
       /\ acted' = None
       /\ UNCHANGED clicks
    \/ (\E t \in Tasks : Send(t)) /\ UNCHANGED clicks

Spec == Init /\ [][Next]_vars

-----------------------------------------------------------------------------
(* Properties.                                                             *)

Entries == Reads \cup {None, Failed}
Scanning(c, d) == \E t \in Tasks : tasks[t].at = "scan" /\ tasks[t].view.conn = c /\ tasks[t].db = d

(* Types; and a database whose snapshot is being fetched has its fetch in  *)
(* flight: nobody waits for a fetch that is over.                          *)
TypeOK ==
    /\ active \in Conns \cup {None} /\ currentDb \in Handles \cup {None}
    /\ sessions \in [Conns -> [selectedDatabase : Dbs \cup {None}, databases : Conns \cup {None},
                              isLoadingSchema : BOOLEAN, schemaByDb : [Dbs -> Entries]]]
    /\ details \in [Handles -> Reads \cup {None}]
    /\ snapshots \subseteq [of : Handles, evicted : BOOLEAN]
    /\ \A h \in Handles : pending[h] # None =>
         /\ pending[h] \in Tasks /\ tasks[pending[h]].at \in {"ensure", "items"}
         /\ tasks[pending[h]].conn = h[1] /\ tasks[pending[h]].db = h[2]
    /\ overtaken \in BOOLEAN

(* What is active and selected is what the current handle is connected to, *)
(* with which Run, the tree and the dialogs work: unless a connect is at   *)
(* this moment being switched to, or was overtaken by another one.         *)
HandleMatches ==
    (Settled /\ active # None /\ SelectedOf(active) # None) => currentDb = <<active, SelectedOf(active)>>

(* However the user switches servers while a scan or a read is in flight,  *)
(* what it brings is filed under the server and database it was read from, *)
(* if it was started for what was selected and the handle had settled.     *)
CatalogueIsOwn ==
    \A c \in Conns, d \in Dbs :
      \A read \in ({sessions[c].schemaByDb[d], details[<<c, d>>]} \ {None, Failed}) :
         read.settled => read.of = <<c, d>>

(* A selected database has a catalogue, or a scan for it is in flight, or  *)
(* the last one failed: no order of switches, refreshes and late answers   *)
(* leaves its tree empty with nothing on the way, or its spinner turning.  *)
SelectedIsScanned ==
    \A c \in Conns :
      LET d == sessions[c].selectedDatabase
      IN /\ d # None => sessions[c].schemaByDb[d] # None \/ Scanning(c, d)
         /\ sessions[c].isLoadingSchema => \E e \in Dbs : Scanning(c, e)

(* What the tree, Run and the dialogs are shown belongs together: the       *)
(* handle to what is active and selected, the catalogue to its database.   *)
ShownBelongs == HandleMatches /\ CatalogueIsOwn /\ SelectedIsScanned

(* A snapshot whose fetch was in flight when its connection was dropped    *)
(* does not enter the cache afterwards.                                    *)
EvictedStaysOut == \A s \in snapshots : ~s.evicted

(* A command given while the handle had settled reaches its target: a drop *)
(* the server in whose tree it was chosen, whatever the user opens while   *)
(* the confirmation waits; a backup or a restore of the selected database  *)
(* this database.                                                          *)
SettledCommandsArrive ==
    (acted # None /\ acted.settled) =>
      IF acted.what = "drop" THEN acted.on[1] = acted.target[1] ELSE acted.on = acted.target

(* "The database menu (... Backup/Restore ...) acts on that database's own *)
(* server rather than the sidebar-active one" (CHANGELOG.md:38).           *)
MenuActsOnItsServer == acted # None => acted.on[1] = acted.target[1]
=============================================================================
