# Verification of QueryDen

QueryDen is a desktop SQL client: a React front end in a Tauri 2 window, a Rust
back end, and a patched copy of `tauri-plugin-sql` that talks to PostgreSQL,
MySQL and SQLite. This directory holds TLA+ models of its concurrent core, the
TLC configurations that check them on small instances, and proofs of the main
results for every instance. Paths below are relative to the repository.

Contents: 1 the system, 2 plan, 3 to 6 the models, 7 the runs, 8 the proofs,
9 known failures of the code, 10 what is not modelled.

## 1. The system

| Part | Code | State it keeps | Operations | Module |
| --- | --- | --- | --- | --- |
| SQL plugin | `src-tauri/patches/tauri-plugin-sql/src/{commands,session,wrapper}.rs` | the registry of pools (`DbInstances`, behind a fair `RwLock`), the sessions of the editor's tabs (`Sessions`, one pinned connection per database and tab, each behind a `Mutex`) | `load`, `close`, `select`, `execute`, `run`, `cancel`, `end_session` | `SqlPlugin`, `EditorTabs`, `TabPromise` |
| SSH tunnels | `src-tauri/src/ssh.rs` | `TUNNELS`, the stop signal and listener of each tunnel's thread | create, close, status, close all, the tunnel thread | `SshTunnels` |
| Handles | `src/contexts/ConnectionContext.tsx` | cached handles and pending loads | `ensureConnectionDb`, `dropCachedConnection` | `LazyHandles` |
| Explorer | `ConnectionContext.tsx`, `src/components/explorer/DatabaseExplorer.tsx` | the active server, the current handle, a session per server, catalogues, details, snapshots of schemas | connect, switch, scan, refresh, details; backup, restore, drop, create | `Explorer` |
| Saved connections | `ConnectionContext.tsx`, `DatabaseExplorer.tsx`, `src/utils/folderTree.ts` | connections and folders | move, delete, edit, test, connect | `SavedConnections` |
| Query runner | `src/components/layout/MainContent.tsx`, `src/lib/sqlSession.ts` | the re-entrancy gate, the generation, the cancel token, the running session | run, run all, Stop | `QueryRunner` |
| psql console | `MainContent.tsx`, `src/components/ui/PsqlWindow.tsx` | the same gate, the console's entries and running command | run, `\c`, `\watch`, Stop, clear | `PsqlConsole` |
| Transactions of tabs | `MainContent.tsx` | the indicator of the toolbar, the mark of each tab | statements, Begin/Commit/Rollback, batches of the grid | `GridWrites` |
| Grid edits | `MainContent.tsx`, `src/components/results/ResultsPanel.tsx` | edited and added rows of each grid | edit, add, duplicate, save, remove | `GridEdits` |
| Editor tabs and the session | `MainContent.tsx`, `storage.rs` | tabs, their texts and marks, `sessions.json` | open, close, type, save, auto-save, restore | `TabSessions` |
| Stores and files | `src/store/*.ts`, `ConnectionContext.tsx`, `src-tauri/src/storage.rs` | connections, folders, vault, settings, queries, two histories: in memory and in encrypted files | load, edit, save, import, clear | `StoredLists` |
| Master key | `storage.rs` | the key and the machine identifier: keyring, key file, caches | first use, load, save | `MasterKey` |
| CLI tools | `src-tauri/src/cli.rs`, `src/components/settings/SettingsDialog.tsx` | the cache folder of a tool, the store of what is shown | check, download, list, remove | `CliTools` |
| Many databases | `src/components/tools/MultiQueryDialog.tsx` | lists of databases, selection, rows of results | open, select, run | `MultiQuery` |
| SQL text | `src/utils/splitStatements.ts`, `statementAtCursor.ts` | none (pure) | splitting, the statement at the caret, blanking | `SqlText` |
| DDL, import, export, AI, updater, decoding, UI, website | `src/utils`, `src-tauri/src`, `src/components`, `website` | little | text, rendering, input and output | none |

How they interact. The query runner calls the plugin through `invoke`; commands
run as tasks of a multi-threaded runtime, so two invocations issued in order may
be executed in any order and interleave at every `await`. The connection context
opens a tunnel before it loads a pool, and keys the plugin's pools by connection
string, which for a tunnelled database contains the tunnel's local port. Closing
tabs, dropping cached handles and saving are fire-and-forget calls from React
effects. The console and the runner share one gate; the grid's batches share the
tab's session on the server with what the user runs.

What is hard here: awaits between reading the maps and using what was read;
closures that go on with what React rendered when they were made; commands that
overtake each other; connections that die while idle or in use; Stop, which
frees the editor while the old statement is still in flight; an SSH handshake
that times out and succeeds later; saves, imports and crashes that race.

## 2. Plan

Done: the modules of the table, and proofs about all of them (section 8).

To come, the most important first:

1. `DatabaseCopy`: the copy, merge and clone of databases, statement by statement.
2. `TunnelPump`: the buffers of one forwarded connection. `ImportExport`: import
   of settings and connections with its dialog. `EditorView`: language state and
   the glyphs of statements.

## 3. Connections to servers

### `SqlPlugin`, `EditorTabs`, `TabPromise`

A call is one invocation of a command. `call[c].pc` is the `await` the call is
suspended at, the other fields are its locals, and every action is the code
between two awaits. A caller has one call in flight at a time; the sets
`LoadCalls`, `CloseCalls`, ... say which commands it may call, and they may
overlap, so that one caller can load, close and run in turn.

| Action | Code |
| --- | --- |
| `Load`, `LoadLook`, `LoadConnect`, `LoadInsert` | `load`: the fast path, the handshake, the second look under the write guard |
| `Close`, `CloseAsk`, `CloseBegin`, `CloseTake`, `CloseDrained` | `close`: sessions dropped under their own lock, then each pool taken out and drained under the write guard |
| `Select`, `SelectLook`, `SelectDone` | `select` and `execute`, which hold the read guard for the whole query |
| `Run`, `RunPing`, `RunDropDead`, `RunLookup`, `RunAcquire`, `RunOpened`, `RunAnswered`, `RunDropLost` | `run` and `Session::is_alive`, `open_session`, `Session::run` |
| `Cancel`, `CancelLook`, `CancelAcquire`, `CancelSend` | `cancel` and `cancel_backend` |
| `EndSession` | `end_session` |
| `LoseConn`, `GoStale` | the network and the clock |

The registry is behind tokio's `RwLock`, which is fair: `waiting` is its queue,
a request is granted at the front only, and only when the guards held allow it.
`line[s]` is the queue of the mutex of connection `s`, its head the holder. The
map of sessions is locked only inside single actions, so it has no queue.
Identities of pools and connections (`Pools`, `Conns`) are finite and reused when
nothing refers to them any more. Migrations are not modelled: the application
registers none. The pool's limit of ten connections appears as the possibility
that `acquire` fails; its ten-second timeout as that failure.

Runs of one tab may overlap. The editor's gate (`isExecutingRef`) keeps a second
Run out only as long as nobody opens it: Stop does while the stopped run is still in
flight (`MainContent.tsx:2344`), Save and the optimizer do at their end, and
batches of the grid (2672) and transaction buttons (2423) run on the tab's session
without it. So the modules of the plugin have no gate at all.

`EditorTabs` adds what a user sees, as history variables: `state[k]` says whether
tab `k` relies on its connection or has lost it without being told, `excused` which
tabs had a failed run, or two runs at once, while it was lost, `refilled` which
runs had their tab's empty entry filled by another run since they took their session,
`closed` which tabs were closed. `TabPromise` is the same without pools, locks and
awaits: a tab relies on one connection, and never goes on from another as if
nothing had happened. `EditorTabs` implements it under the mapping `On`, `Rely`;
`PromiseKept` is the abstract specification.

### `SshTunnels`

`tunnels` is `TUNNELS`, the registry by connection; `tunnel[t]` is one tunnel:
its stop signal, its channel to the caller that created it and the stage of its
thread; `call[c]` is an invocation of a command. The registry's mutex is held
across several steps only by the caller that spawns a thread before it inserts
the entry (`At(c, "inserting")`), and `Unlocked` is its guard elsewhere.

| Action | Code |
| --- | --- |
| `CreateExisting`, `CreateNew`, `CreateInsert`, `CreateNoPort` | `create_ssh_tunnel` up to the wait: an entry handed out, or a port found, a thread spawned and an entry inserted |
| `CreateHears`, `CreateTimesOut`, `CreateFails` | the wait of 45 seconds, the late look at the stop signal, `unregister_tunnel` before the error is returned |
| `Close`, `CloseAll` | `close_ssh_tunnel`, `close_all_tunnels` |
| `ThreadListens`, `ThreadFails` | the handshake of `run_tunnel` and the bind of the port |
| `ThreadChecks`, `ThreadAccepts`, `OpenChannel`, `OpenGivesUp` | the accept loop and `open_direct_tcpip` |
| `ForwardEnds`, `ForwardStops` | `pump`, reduced to the number of connections forwarded |
| `ThreadEnds` | the thread's `unregister_tunnel` |
| `LoseLink` | the server or the network |

Tunnel names stand for the `Arc` of the stop signal, by which
`unregister_tunnel` tells an entry from its replacement; `Free` says when a name
is referred to by nothing any more. A port that was free may be taken before
the thread binds it (`ThreadFails`). Panics of the threads, and the poisoned
locks they would leave, are not modelled.

### `LazyHandles`

`handle` and `pending` are the maps of `ensureConnectionDb`, by connection and
database; `call[c].pc` is the `await` a call is suspended at. A promise is named
by the call that made it and so is its handle. The front end is one thread, so
an action is everything between two awaits, including the continuations that
JavaScript runs in a fixed order when a promise settles: the caller that made
the load, those that share it, and the close that a drop has attached to it
(`Settle`). A connection string is its key: that two saved connections with the
same parameters share a pool, or that a new tunnel port changes the string, is
not modelled.

| Action | Code |
| --- | --- |
| `Ensure`, `ResolveFails`, `Look` | credentials and tunnel, then the cache and the pending loads |
| `StartLoad` | after the import of the plugin's module: load and registration |
| `LoadSucceeds`, `LoadRefused`, `LoadFails`, `Versioned` | the load settles; the server's version is read |
| `Drop` | `dropCachedConnection` up to the closes it awaits |
| `PluginLoads`, `PluginCloses` | `load` and `close` of the plugin, in one step each: `RegistrySafe` is what allows that |

### `Explorer`

The sidebar, over one active connection (`active`), one current handle
(`currentDb`) and a session per server. Every handler is a task: it runs from
one await to the next, and after an await still sees what React rendered when it
was called (`view`), except where the code reads a ref. A catalogue and the
details of a table are known by the handle they were read from (`of`), and by
whether the handle had `Settled` when the read began.

`connectToDatabase` shows its handle before it has asked a PostgreSQL server for
its version and makes the server active after that (`Load`, `Version`): in
between, handle and server do not match (`Switching`), and a second connect may
set the handle while the first still waits (`overtaken`). `Settled` is the
absence of both, and most properties are about what is begun while it holds.

| Action | Code |
| --- | --- |
| `OpenServer`, `Select`, `OpenDatabase`, `OpenSelected` | clicks on a server, the selectors of the breadcrumb, a row of the tree |
| `Load`, `LoadFails`, `Version`, `Lists` | `connectToDatabase` and what its callers do after it; the effect that scans a newly selected database (`ScanWanted`) is part of the step that selects it |
| `Refresh`, `Scan` | `loadSchema` |
| `OpenTable`, `ReadTable` | `loadTableDetails` |
| `Backup`, `Reload`, `Write`; `Restore`, `RestoreRuns`; `Drop`, `Confirm`, `Execute`, `Relist`; `Create` | the menu of a database |
| `EnsureSchemaFor`, `Ensured`, `Items`, `DropCachedConnection` | the snapshots completion reads |

### `SavedConnections`

The connections and folders of the tree: a folder is its parent, a connection
its folder and the number of the edit its other fields come from. Moves, the
deletion of a folder after its question, the dialog with its test, and connects,
which write back the record they read before their awaits (`Connected`;
`overtaken` holds the connections changed meanwhile). `DrawnFolders` and
`DrawnIn` are what `folderTree.ts` draws.

## 4. Running statements

### `QueryRunner`

`executeQuery` and `cancelQuery` of `MainContent.tsx` on one thread: `run[r].pc`
is the `await` a run is suspended at - the connection, the confirmation of a
dangerous statement, the statement, the look-up of a schema, the drop of a lost
connection - and an action is the code from one to the next, the `catch` and the
`finally` included. What the runs share are the refs: `gate` (`isExecutingRef`),
`gen` (`executionGenRef`), `cancelFlag`, `token` (the run that owns
`currentRunCancelRef`) and `running` (the session that Stop would cancel, here its
tab). `executing` is the state behind the Cancel button, and so the guard of
`Stop`. `shown` says whose outcome the results panel shows.

A statement is only counted: `left` is what a script has yet to send, and a single
statement is a run with `script` false, which differs in that no token is looked
at before it is sent. `asked` records that the server was asked to cancel the
statement in flight, which is what `cancelSession` does for a session that runs
one.

| Action | Code |
| --- | --- |
| `Start`, `Refuse` | `executeQuery` up to its first `await`, and its early returns, which have bumped the generation too |
| `Connected`, `ConnectFails` | after `ensureConnectionDb`: permissions, then the confirmation or the first statement |
| `Confirmed`, `Declined` | after the dialog |
| `NextStatement`, `Answered`, `Fails` | a statement settles: the loop of a script, or what follows it |
| `Looked`, `Dropped` | the schema of the table is known; the lost connection is dropped |
| `Stop` | `cancelQuery` |
| `ToolStarts`, `ToolEnds` | `handleSave` and `handleVisualOptimize`, which reset the gate they have not taken |

`Finally`, `Catch`, `Succeed` and `Send` are the parts several of them share. The
history variable `opened` (`HistorySpec`) holds the runs whose gate such a handler
opened. The path of `executeQuery` through a psql console is in `PsqlConsole`; the marks
of statements, the timer and the history are not modelled.

### `PsqlConsole`

The same gate, generation and flag where a tab's statements go to the psql
binary, each to a process of its own. Three more refs are shared by all runs:
`command` (`runningCmdRef`), `output` (`psqlOutputRef`) and the last query that
`\watch` repeats. A run is named by its generation, and so are the lines it
prints; an entry says which runs its command and lines are of, whether its run
was alone, and whether it was made by a run already stopped (`late`).

| Action | Code |
| --- | --- |
| `Start`, `ConnectedQuietly`, `Connected`, `ConnectFails`, `NoTool` | `executeQuery` of a console up to the first statement; a second gate at 1286 |
| `Prepared`, `Answered`, `Fails` | a statement, the statements of a script |
| `Tested` | the connection test of `\c` |
| `Watches`, `Slept` | the loop of a `\watch` |
| `Stop`, `ToolEnds`, `Clear`, `RemoveLast` | `cancelQuery`, the handlers that reset the gate, the buttons of the console |

### `GridWrites`

A job is a batch of the grid (`applyGridWrites`), a statement of the editor or a
button of the toolbar; `job[j].stmt` is the statement it waits for. Each tab has
a `session` on the server (external: `Serve`, `Do...`, `Lose`): its transaction,
savepoints and what it holds. `shown` is the indicator, read when a batch begins
to choose between a transaction of its own and a savepoint; `mark` is what each
tab remembers of it over a tab switch. `astray` holds the tabs in which
jobs overlapped, an answer came late, a connection was lost or the server ended
a transaction by itself; `alone` and `right` say of a batch that it had its tab
for itself and began with a right indicator.

### `GridEdits`

The rows behind it: each grid has stored and new rows with the values they were
loaded with (`orig`), the tab a table it is thought to show, each database its
tables (`stored`). `Save`, `RemoveRow` and `EditRecord` become jobs that check,
find each row by its key or by all its values, commit and refresh into
whichever tab is active by then. A batch writes with `Update`, `Insert` and
`Write`, which fail unless one row matches.

### `SqlText`

`SplitStatements`, `StripSqlToCode`, `ResolveStatementAtOffset` and the second
split of `ExecuteQuery`, over texts that are typed lexeme by lexeme. `Reading` is
the reference: it classifies each lexeme as code, quoted, a comment, data or a
command, from left to right and without leaps, by the rules of PostgreSQL and psql or
of MySQL and its client, which differ from the scanner's. `ByTheBook` names the places
where the editor has rules of its own (`OwnQuoting`, `OwnCommand`; section 9).

### `MultiQuery`

The dialog's lists of databases (`known`, `request`, `waiting`), the selection, and
runs with `Width` workers whose answers land in rows known by connection and
database only. The component stays mounted while it is closed, hence `visit`.

## 5. What is kept in files

### `StoredLists`

One list of a kind: kept `OnChange` (connections, folders: saved by an effect),
`FlagGated` (vault, settings: a failed load forbids saves) or `Awaiting`
(queries and the histories: edits wait for the load). Commands in flight
(`call`) take the lock, write the temporary file, rename it; a crash may come
between any two steps (`Crash`). `owed` is what the user has put in and not taken
out; `muddled` says that commands overlapped.

| Action | Code |
| --- | --- |
| `Edit`, `Clear`, `Import`, `Reload` | the stores and `ConnectionContext` |
| `Loaded`, `NotLoaded`, `Reloaded` | the answer of a load |
| `Read`, `ImportReads`, `OpensTmp`, `FillsTmp`, `Renames`, `Removes`, `Fails` | the commands of `storage.rs` and `write_atomic` |
| `Crash` | the process ends, wherever its commands are; a rename in progress may have happened |

With `Unreadable`, a file may not decrypt. `Lenient` kinds take such a file for an
empty list (section 9).

### `MasterKey`, `CliTools`, `TabSessions`

`MasterKey`: the key's places (keyring, which comes and goes, and file), its
first use and the caches of a process; files are sealed by kind. `CliTools`: the
cache folder of a tool with its commands on a thread pool, and the page they
are called from. `TabSessions`: the tabs over the life of the window, with
`owed` (the texts the user may expect to find) and `excused` (set, by name, where
the program does not keep the promise; section 9).

## 6. Composition

`EditorTabs` extends `SqlPlugin`; `LazyHandles` uses the plugin's registry in single
steps, as `RegistrySafe` allows; `QueryRunner` has the statements of Run alone, of which
`OnlyStoppedOverlap` says when they overlap, while the plugin's modules, which also have
those of batches and buttons, rest on no such promise; `GridEdits` takes a batch's
transaction as one step, as `BatchIsWhole` allows; `MasterKey` has one call per file,
since `StoredLists` is about how they overlap.

`MCStoredLists` and `MCSqlText` put parts side by side that share no variable: a
behaviour moves one part, chosen at the start, and the others stay in an initial
state. So each part is checked in all its behaviours, and no product of parts
is explored.

## 7. Runs

| Run | Module | Properties | Shows |
| --- | --- | --- | --- |
| `registry` | `SqlPlugin` | `RegistrySafety` | loads, closes of one or all databases and a query on two connection strings: no closed pool is registered, none leaks, none is closed under a query |
| `editor` | `EditorTabs` | `TabsNeverShare`, `OnlyDeadSessionsDropped`, `PromiseKept` | over statements of a tab that may overlap: connections of tabs stay apart, a cleanup finds only unusable ones unless another run has `refilled` the entry, and a tab is told of a new connection unless a run failed or two were in flight (`excused`) |
| `stop` | `SqlPlugin` | `CancelReturns`, `StoppedRunAnswers`, `CallsReturn` | Stop answers while statements never end, a cancelled statement's run answers, and where statements end everything answers |
| `tunnels` | `SshTunnels` | `RegistryIsCurrent`, `FailedIsGone`, `StoppedTunnelEnds`, `CreateAnswers` | registry and threads stay in step through closes, time-outs and failures |
| `handles` | `LazyHandles` | `PendingHasLoader`, `EvictedNotUsed` | no dead load blocks a database, no evicted one is used |
| `explorer` | `Explorer` | `ShownBelongs`, `EvictedStaysOut`, `SettledCommandsArrive` | handle, catalogues and details belong to what is shown, commands reach their target |
| `runner` | `QueryRunner` | `GateHasOwner`, `OnlyOwnerOpensGate`, `OutcomeShown`, `StoppedScriptEnds`, `OnlyStoppedOverlap` | the gate is never left closed nor opened by an abandoned run, outcomes are shown, stopped scripts stop; runs overlap only with stopped ones or those whose gate Save or the optimizer `opened` |
| `console` | `PsqlConsole` | `GateReopens`, `EntryIsOwn`, `EntriesKept`, `StoppedEnds` | the console can be used again, entries have the lines of their own run and stay, stopped runs end |
| `grid` | `GridWrites` | `IndicatorHonest`, `BatchIsWhole`, `TransactionKept` | a batch is saved whole or not at all, never ends the user's transaction, and a resting tab's indicator is right |
| `edits` | `GridEdits` | `AddedOnce`, `BatchAsMeant` | a batch changes its own rows as they were edited, and no other; a new row is stored once |
| `stores` | `MCStoredLists` | `ListsAreKept`, `ReplacedWhole`, `SealedStaysReadable`, `DrawnWhereLastPut`, `LoneDownloadsAreWhole`, `TextIsKept` | what is kept in files, over failures, overtaking commands, crashes and restarts |
| `text` | `MCSqlText` | `SplitsAtTerminators`, `StrippedAlone`, `CursorRunsWhatItShows`, `RowsAreTheRuns` | scripts are cut where their dialect and client end a statement, but for the editor's own rules (`ByTheBook`); the caret's statement is the one that runs; the rows shown are those of the run |

Bounds. `registry`: two loads, two closes (one caller does both) and a query are the
fewest calls that meet every pair of commands at every await; four pools let two be
connected, one closing and one registered. `editor`: two runs, of one tab or of two,
which may load and close as well; two connections are the lost one of a tab and its
successor, or one for each tab, and two pools an old and a new one. `stop` has one tab,
the only way calls can wait for each other besides the registry. `tunnels`: one
connection suffices because no action but `CloseAll` looks at the entry of another; two
callers and two tunnels let a replacement start while its predecessor ends, and two
ports let them be up at once. `MaxForwards` is 1: forwards do not see each other.
`handles`: three callers let one load, one share and one start anew after a drop; two
closes of a pool may be on their way. One database, since keys never interact except
that a drop takes all of a connection's. `runner`: a run that was stopped or superseded
and its successor are all that two properties relate, and either may be either. Two
statements are one to be stopped at and one that must not follow. Five generations,
counted by starts, refusals and stops, are enough for two runs to be started and stopped
and one to be started again. One handler of the two, which do the same to the gate, can
end while any run is live.

`explorer`: two servers, one of them asked for its version, with two databases each,
three handlers in flight and four clicks: one connect in the window of another, with a
scan or a command begun before them. `console`: two runs in two tabs, three generations,
two statements, one clearing of entries; 672,868 states. `grid`: two batches and two
statements of which three run, two rows, one lost connection, on both engines; 3.66
million states. `edits`: two tabs on two databases with two tables, one new row, two
jobs and four events. `stores`: for the lists three commands in flight, two items, two
edits and a crash; three kinds of files, two keys and three events for the key; three
folders and one connection, three commands on tools and five events, two tabs and five
steps of a session. `text`: eight alphabets, each around one construct, with all texts
of five to seven lexemes in both dialects; two connections, two databases each, two
runs, two requests, two visits and three acts. The explorer, the console, the grid, the
parts of `stores`, `edits`, the safety of `editor`, `registry` and `runner`, the dialog
of `text` and its `Plain` texts are proved for every instance (section 8), so their
bounds carry no weight; for the temporal properties of `stop`, `tunnels` and `console`
and for the other texts of `text` the bounds are what the evidence rests on. They were
chosen so that each failure of section 9 that the properties exclude by name is reached.

Symmetry is declared for interchangeable callers, tasks, jobs, tabs or
connections, in runs of safety properties, and in `editor`, whose `PromiseKept`
has no liveness part.

Deadlock is checked where the systems stay alive. `grid`, `edits`, `stores` and
`text` say `CHECK_DEADLOCK FALSE`: their behaviours end when the bounded jobs,
events or lexemes are used up. The absence of *stuck calls* is what `CallsReturn`,
`CreateAnswers` and `StoppedEnds` state as temporal properties.

Fairness. `StopSpec` has weak fairness of what the plugin does by itself: the
runtime polls every task that can go on, the locks are queues, and the
application's own queries (`select`) end. It has none for a statement of the
editor, which may run for ever, except that a statement the server was asked to
cancel ends; `CallsReturn` has as its premise that they do. `FairSpec` of
`SshTunnels` has weak fairness of callers, whose waits have limits, and of running
threads; strong fairness of the two steps that take the registry's mutex, a
`std::sync::Mutex` without a queue but held for an instant at a time. It assumes
nothing of handshakes: each connect and each read has a time limit, the
handshake as a whole has none. `PsqlConsole` has weak fairness of what is not the
user's doing: connects and tool checks have time limits, the interval of a `\watch`
passes, and psql is assumed to answer. Nothing is assumed of the user, of lost
connections or of the clock, and the other specifications have safety properties
only.

Each property has a mutant, an operator marked `Mutant` before the definition it
would replace; replacing it makes TLC find the property violated. Some of them are
what the unpatched plugin did or what comments of the code warn of.

## 8. Proofs

All proofs rest on the named assumptions on the constants alone: the values that
stand for "nothing" (`None`, `Nil`, `Missing`, `NoKey`, `Root`, `Failed`, `Torn`) are
not in the other sets, `ServerDbs`, `ClosedTabs`, `Fetched`, `Picky` are subsets,
flags are Booleans, bounds are naturals, the rows of a table and the nodes and
databases of the dialog are finitely many, and keys of new rows are not those of
stored ones. Where a theorem needs more (`~Unreadable`; `Plain` of a text) it is a
hypothesis of the theorem, discussed below. Every number of tabs, runs, handlers,
items, rows and so on is covered, and every value of the bounds.

Each argument is an inductive invariant. TLC has checked it on the instance of the
run first, where that instance is small enough, and the theorem is three facts:
it holds initially, each step preserves it, and it implies the property.

| Module | Theorem | Property |
| --- | --- | --- |
| `SqlPluginProofs` | `TypeCorrect`, `RegistrySafe`, `TabsApart` | types, `RegistrySafety`, `TabsNeverShare` |
| | `CleanupsSpareWorkingSessions`, `TabsKeepPromise` | `OnlyDeadSessionsDropped`, `PromiseKept` |
| `TunnelProofs` | `TunnelTypes`, `RegistryMatchesThreads`, `FailedTunnelsAreGone` | types, `RegistryIsCurrent`, `FailedIsGone` |
| (on `GridEdits`) | `EditsAreTyped`, `RowsAreAddedOnce`, `BatchesAreAsMeant` | types, `AddedOnce`, `BatchAsMeant` |
| `HandleProofs` | `HandleTypes`, `RegistrationsAreLive`, `EvictedHandlesAreRefused` | types, `PendingHasLoader`, `EvictedNotUsed` |
| (on `SavedConnections`) | `TreeIsDrawn` | `DrawnWhereLastPut` |
| `RunnerProofs` | `RunnerTypes`, `GateIsHeld`, `AbandonedRunsLeaveTheGate`, `NoRunEndsInSilence`, `StoppedScriptsEnd`, `RunsOverlapOnlyWhenStopped` | types, `GateHasOwner`, `OnlyOwnerOpensGate`, `OutcomeShown`, `StoppedScriptEnds`, `OnlyStoppedOverlap` |
| (on `MultiQuery`) | `RowsAreShown` | `RowsAreTheRuns` |
| (on `SqlText`) | `StatementsAreTyped`, `CutsWhereTheDialectDoes`, `CodeIsSeenAlone`, `CaretRunsOne` (of `Plain` texts) | types, `SplitsAtTerminators`, `StrippedAlone`, `CursorRunsWhatItShows` |
| `PsqlConsoleProofs` | `ConsoleSafety`, `GateIsReopened`, `EntriesAreOwn`, `EntriesStay` | the invariant, `GateReopens`, `EntryIsOwn`, `EntriesKept` |
| (on `CliTools`) | `DownloadsAreWhole` | `LoneDownloadsAreWhole` |
| `GridProofs` | `GridSafety`, `IndicatorIsHonest`, `BatchesAreWhole`, `TransactionsKept` | the invariant, `IndicatorHonest`, `BatchIsWhole`, `TransactionKept` |
| `StoredListsProofs` | `ListsTyped`, `StrictListsKept`, `ListsKept`, `FilesAreReplacedWhole` | types, `ListsAreKept` (twice), `ReplacedWhole` |
| (on `MasterKey`) | `SealedIsReadable` | `SealedStaysReadable` |
| (on `TabSessions`) | `TextComesBack` | `TextIsKept` |
| `ExplorerProofs` | `ExplorerSafety`, `ShownIsKept`, `EvictionHolds`, `CommandsArrive` | the invariant, `ShownBelongs`, `EvictedStaysOut`, `SettledCommandsArrive` |

**The plugin.** `TypeInv` adds to `TypeOK` what a call's locals hold at each
await; every other proof needs it. `RegistryInv` adds that a writer's guard
excludes writers and queries (`GuardsExclusive`), that an open pool belongs to one
entry or to one load (`OneOwner`), and that a query's pool is a registered one
(`QueriedIsRegistered`). Most steps leave the registry alone (`RegistryQuiet`);
`LoadConnect`, `LoadInsert`, `CloseTake` and `SelectLook` are the real cases.
`TabsNeverShare` is inductive with `TypeInv`, for overlapping runs too.
`OwnEntries`, for `CleanupsSpareWorkingSessions`: the entry a run finds in the map for
its tab is the run's own connection or nothing, unless the run is `refilled`, and the
one it is about to drop is lost. `TabsKeepPromise` is the step simulation: with
`PromiseInv` (a tab that lost its state untold and is not `excused` has one run in
flight, which carries the notice), each step of `EditorTabs` is a step of `TabPromise`
or changes nothing a tab can see. It is proved of all behaviours; fairness plays no
part in it.

**Tunnels.** `TunnelInv` adds that a caller about to insert has the registry to
itself and a tunnel nobody else knows (`InsertingIsFresh`): the reason the lock is
held around the spawn. For failures it adds that a thread that reported an error
has returned (`ErrorIsFinal`), that a caller about to answer with an error has a
tunnel that is over or stopped (`FailingIsOver`), and that callers only know
tunnels that were made (`KnownIsMade`): together, an entry taken out by a failing
create never comes back.

**Handles.** `HandleInv` adds that an evicted load is under way and registered
nowhere (`EvictedLoads`) and that the handle cached for a key is never that of a
call which is loading it (`CachedNotLoading`); so when an evicted load settles,
neither its caller nor those that share it find it in a map, and all refuse it.

**The runner.** `RunnerInv` adds that generations only grow (`GensPassed`), that
the flag of a Stop is up only while every live run is superseded (`FlagIsStale`,
why the `catch` may look at a flag that another run's Stop has set), that a run
whose token is set is superseded (`TokenIsStale`), and that a run which has not
sent anything has something to send (`LeftToSend`). `RunsOverlapOnlyWhenStopped`
is about the gate: a run that was not stopped and is not in `opened` holds the
gate, the latest generation and the token, hence two such runs never overlap. It is
inductive with `CurrentHasToken` (the live run of the latest generation has the
token). Save and the optimizer are among the steps, batches and the transaction
buttons are not, so it says nothing of them, and no result about the plugin rests on it.

**The console.** A step of a run is one of two: it goes on, or it ends, and may
then make an entry. `GateReopens` is inductive by itself. `ConsoleInv` adds, for
the entries: a generation has one run (`Distinct`); while a run is alone the shared
refs hold only what is its own (`Apart`); what a run saw at its start was right
(`Remembered`), because it replaces the list by what it saw; and the run of the
latest generation has seen the whole list, unless a stopped run has made an entry
since (`Latest`), which is why that list is not shortened.

**Transactions of tabs.** Between the steps of a job the indicator lags behind the
server. `GridInv` says what it will be told, for the one job a tab may have without
going astray: `Told` for a statement or a button, `Between` for a batch. Of a batch
it fixes what is held, saved and durable by the statement it is at and the answer
it has (`Stands`, a table of the stages); that is preserved because nobody else
has the rows of a batch, in his transaction, his savepoints or on the disk
(`KeptApart`). What a statement may do to a session is one lemma (`Served`).

**Stored lists.** `ListsInv` adds: whoever writes the temporary file holds the lock,
and a finished one is what it was asked to write (`Holders`); a process loads once
(`LoadsOnce`); whatever is on its way to the file or to the store, in memory, in a
call, in the temporary file, holds what is owed (`Carried`); and as long as commands
have not overlapped there is one at most, which brings file and store together
(`Settling`). `StrictListsKept` and `ListsKept` state `ListsAreKept` for different
kinds: where a file may not decrypt, only the kinds that report it are safe, and
the theorem says so; the others are safe as long as files can be read.

**The explorer.** The code keeps one handle for all servers, and a handler goes on
with what it saw, so `ExplorerInv` is about the handlers in flight. What one saw
while the handle had settled is its own: a scan's handle is that of its database, a
drop's that of its server, and so on (`Honest`), which lasts since a closure does
not change. A connect that was not overtaken is the only one that waits for its
version, and the handle is its handle (`OneSwitch`), so that the handle belongs to
the active server when it has settled (`HandleOwned`); from these two `HandleMatches`
follows. `Registered` adds that a registered fetch is in flight and was not evicted.
`SelectedIsScanned` is inductive with them: the effect runs in the step that selects,
and a scan that lands, fails or is overtaken by another of the same database leaves
a catalogue or a failure there.

**Rows of the grid.** `EditInv`, for `AddedOnce`: a new row is shown in one tab, and the
saves that have it were begun there (`OnePlace`); one save has it, and once that is
committed it only waits for the refresh that takes the row out of the grid
(`StoredOnce`). For `BatchAsMeant`, `BatchInv` says that a row nobody edited has the
values it was loaded with (`AsLoaded`) and that a job that writes has what it needs
(`Wanted`). The rest is about one batch: written row by row, it keeps keys, and what
differs from the table before was meant and can be told from what other rows meant
(`Partly`, `Marked`, `Told`), so that no row is written over by the next.

**Saved connections.** `TreeInvs`: every folder that exists is in each set of places
that has the root and the children of its members (`Rooted`), which is to be drawn and
needs no count of levels; a move that is no cycle keeps that. The question of a
deletion stands as it was asked (`Asking`). A record is what the user last asked for,
and so is the one that a connect has read, unless the connect was overtaken (`AsPut`).

**Keys.** `KeyInvs`: one call at most makes a key (`OneMaker`), and neither file nor
keyring has one while it does (`MakerAlone`); so files, keyring, process and calls
know one key (`OneKey`), as long as nothing but the machine went astray. Where nothing
did, what is stored is intact, and what is in memory too before a save (`Sound`).

**Tools.** `ToolInvs`: a chain fetches at its beginning and only to download
(`EnsureIsFirst`); as long as no page was left during its download, there is one
download at most (`OneDownload`) and what is being unpacked is its own
(`UnpackedIsOwn`).

**Sessions.** `SessionInvs` is about what is on its way to the disk. Unless excused, the
promised texts are in the file before the restore, then in the tabs and in the timer's
snapshot, and where no timer runs in the file or the last save under way (`Promise`).
The last save of a closing window is the last in line (`LastIsNewest`), and until the
restore only such a window saves (`Unrestored`). What a snapshot has stored is taken for
the text of its tab (`SnapshotsBased`), and what a tab counts as saved is stored, unless
the auto-save is about to mark it (`TabsBacked`).

**The dialog of many databases.** `MultiInv` says whose each answer in flight is: an
answer of an earlier run lands only in rows that `mixed` names (`MetIsMixed`,
`OthersMixed`), and the rows of the run that goes on are its targets (`RowsAreOf`).

**Texts.** Here the argument is about what is computed from a text, of any length and
over any lexemes, rather than about steps. The reading is brought into the form of one
step per lexeme (`ReadFollows`). Each region the scanners leap over ends where the
reading closes it (`QuoteLeap`, `CommentLeap`, `LineLeap`, `DollarLeap`), so that
wherever `splitStatements` stands the reading says what it thinks: its counters are the
reading's (`Depths`), what it has open is the piece being read, and what it has found
are the pieces before that which have something to run (`ScanOk`, preserved by
`StepIs`). `StripIs` says the same of `stripSqlToCode`. A statement on its own is read
as it was within the script (`AloneIs`), hence stripped alike and sent as one; `CaretIs`
adds that the statements lie apart and in order.

The three theorems have the hypothesis `Plain`: the text has no `DELIMITER`, and its
reading meets no command of psql, no COPY data and no place where the editor has a rule
of its own (`ByTheBook`). Texts with `DELIMITER`, commands and data that are `ByTheBook`
are checked by the run `text`.

**Induction.** The theorems of the library that take an operator are out of the provers'
reach. `SetInduction` has a set in its place: a set that has 0 and
with every number the next has all of them, because inclusion of finite sets is
well-founded. It shows that the recursive functions of a batch, of the scanners and of
the reading exist (`Forward` and `Backward`, for values that hang on the one before or
on the two behind them) and what they compute.

**Checked by TLC only.** Liveness (`CancelReturns`, `StoppedRunAnswers`,
`CallsReturn`, `StoppedTunnelEnds`, `CreateAnswers`, `StoppedEnds`): fairness is
beyond the prover. `SplitsAtTerminators`, `StrippedAlone` and `CursorRunsWhatItShows`
of texts with `DELIMITER`, COPY data or commands of psql, in alphabets without
comments.

## 9. Known failures

Disagreements between the code and what its comments, messages or change log say,
met while modelling. The properties of the runs exclude each of them by a named
condition (a history variable, a constant, a hypothesis), and the definitions below
state the promise without the exclusion; with the constants given TLC refutes them.

| Definition | Specification and constants | Shows |
| --- | --- | --- |
| `WorkingSessionsStay` | `EditorTabs`, `TabSpec`: the constants of `editor` | of two runs that lost the same connection, the slower one drops the session the other has opened |
| `ClosedTabHasNoSession` | `EditorTabs`, `TabSpec`: the constants of `editor` | a run puts the session of a closed tab back |
| `LostTunnelGoes` | `SshTunnels`, `HandshakesEndSpec`: two callers, one connection, `Tunnels {t1, t2}`, `Ports {p1}`, `MaxForwards 1` | a tunnel without an SSH session is handed out for ever |
| `CachedHandleWorks` | `LazyHandles`, `Spec`: the constants of `handles` | the close of an old handle takes the pool of the new one |
| `StopReachesServer` | `QueryRunner`, `HistorySpec`: the constants of `runner` | a statement stopped before it is sent is sent all the same (`MainContent.tsx:2334`) |
| `FailedBatchUndone` | `GridWrites`, `Spec`: `Tabs {t}`, `Batches {a}`, `Statements {c, d}`, `Engines {"mysql"}`, `MaxJobs 3`, `Rows 2`, `MaxLosses 0` | a failed batch leaves rows behind when another job of the tab ended its transaction |
| `MenuActsOnItsServer` | `Explorer`, `Spec`: the constants of `explorer` | the menu of a database acts on the server that is active (`CHANGELOG.md:38`) |
| `StoredSurvives` | `StoredLists`, `Spec`: `Kinds {"queries", "history"}`, two calls, `Unreadable TRUE`, `MaxEdits 2`, `MaxCrashes 1` | a file that cannot be decrypted is taken for an empty list and overwritten (`storage.rs:1417`) |
| `CutsAsRead` | `MCSqlText`, `PartsSpec`: the constants of `text` | scripts are cut within a string or not at a terminator where the editor has rules of its own (below) |
| `DataNeverRuns` | `MCSqlText`, `PartsSpec`: the constants of `text`, but `Scripts <- DumpScripts` | data of a COPY is run as statements (`splitStatements.ts:27`, `:268`) |

By module, with the line where it happens:

* `EditorTabs`: of two statements of a tab that find its connection dead one carries the
  notice, and the other may answer first without a word (an `excused` overlap); a batch
  of the grid (`MainContent.tsx:2684`), a transaction button (2436) and a stopped run
  do not show the notice their statement brought.
* `SqlText` (`OwnQuoting`): a backslash in backticks is taken for an escape
  (`splitStatements.ts:190`, `sqlDialect.ts:162`), so that `` `\`; `` is not cut in MySQL,
  and one in MySQL's double quotes is not (172), so that `"\";"` is cut within the string;
  a backtick quotes in PostgreSQL, too, and dollar signs in MySQL (252). `OwnCommand`: a
  comment before a command, COPY or `DELIMITER` hides it or is dropped; data of a COPY
  is looked for behind the terminator on its own line, and not recognised without a `\.`
  line; `DELIMITER` is obeyed in PostgreSQL, and with code behind it; commands within a
  statement are not known.
* `GridEdits`: Ctrl+S with a changed grid and no cell being edited saves twice, once
  from `MainContent.tsx:852-860` and once from `ResultsPanel.tsx:302-317`, and the
  second save, begun before the first has refreshed the grid, stores its new rows again
  (`again`); an edited key makes Save's `WHERE pk = <new value>` miss its row or hit
  another (`MainContent.tsx:3017`, against 2997); Save looks its tab up again after its
  awaits (2675), so that a switch of tabs sends the batch to another database (against
  `CHANGELOG.md:101`); a statement that names another table renames what the grid writes
  to while its rows stay; a commit whose refresh fails is reported as a failed save and
  its new rows are inserted again by the next; Remove Row on an unsaved duplicate hits
  the stored original; without a key an edited row cannot be removed, and two edits of a
  batch can chain; edits typed during a save are dropped by the refresh.
* `PsqlConsole`: a run stopped while it connects takes the gate again (1286);
  a stopped run's error, `\c` or `\watch` makes an entry that replaces what came
  after its start; the refs of the running command and its output are shared by runs
  and tabs; a single statement stopped while it is being prepared is sent all the same;
  a script with a failed statement leaves no entry; `\watch` repeats the last query
  of any tab on the database of its own.
* `Explorer`: overlapping connects leave one server active with the handle of the
  other; while a connect waits for the version, Refresh and details of the active
  server read the other one; a backup stores the catalogue of the old database under
  the name of its target; the active database of a PostgreSQL server can never be
  dropped from its menu; lists of databases are written to the server that is active
  after the await; details of tables are never invalidated.
* `SavedConnections`: a connect writes back the record read before it
  (`ConnectionContext.tsx:869`), undoing moves and edits; a profile chosen at connect
  is lost (`DatabaseExplorer.tsx:920`); a connection removed while it connects stays
  active.
* `StoredLists`: a vault credential or a setting saved before the first load replaces
  what was stored; see also `StoredSurvives`.
* `MasterKey` (each a member of `astray`): two first uses in parallel make two keys
  (`raced`); a key that is only in the keyring is lost to a process that cannot reach
  it (`unwritten`); a machine that is not recognised once leaves a file sealed with a
  fallback (`undetected`).
* `CliTools`: a page left during a download forgets it, and two downloads of one tool
  overlap; a crash then leaves a partial binary that is taken for the tool.
* `TabSessions` (each an `excused`): a window closed before the session was restored
  saves an empty one (`MainContent.tsx:2533`, against 697); an unreadable session is
  overwritten; tabs opened before the restore are dropped; an older save may land after
  a newer one; the auto-save marks text typed meanwhile as saved (421); the answer of
  the save dialog marks the tab that is active by then (836); tabs discarded at closing
  come back as clean.
* `MultiQuery` (`mixed`): late answers of an earlier run or visit overwrite rows; the
  end of a first run ends the second's display; a target with nothing to execute is
  shown as running for ever.

## 10. Not modelled

No module: autocompletion and editor services, introspection and DDL text (`getDDL`,
`pgDdl`, the compare and clone dialogs: in reading them, that a merge writes to the
current database and copies only the first batch of rows, and that `getDDL` answers
with a comment instead of failing), import and export formats, the AI client, the
updater, system information, decoding of values, rendering and the website: pure
input and output or formatting, or sequences of queries without state.

Of the modelled parts:

* Plugin and tunnels: SQLite, migrations, the bytes `pump` moves, panics and poisoned
  locks.
* Connections: `disconnectFromDatabase`, `createTable`, roles and tablespaces, the
  catches of single sections of a scan, the key of the diagram's cache, the activity
  monitor; the order of siblings in the tree, sorting and filtering.
* Running: the marks of statements, timers and history; the target of `\c`, the
  display of `\x`, the process of psql; the direct `INSERT` of `handleAddRow`, the await
  of `ensureConnectionDb` in a batch, sorting and pasting in the grid; the merged view
  and exports of many databases.
* Text: `applyQueryLimit` and quoting; a stray `;` after the data of a COPY, `DELIMITER
  ;;`, Ctrl+Enter under a DELIMITER; MySQL's `--x` without a blank, which is no comment;
  parentheses, within which psql ends no statement; scripts of SQLite, which are split
  by PostgreSQL's rules; modes of the servers other than the default (`ANSI_QUOTES`,
  `NO_BACKSLASH_ESCAPES`, `standard_conforming_strings` off).
* Files: the ciphers, the vault's password and its lockout, caps on lengths, the order
  of items, templates and keymaps, an import that overrides folders,
  `get_master_key_storage_status`; renaming tabs.
