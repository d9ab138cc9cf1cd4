------------------------------ MODULE SqlPlugin ------------------------------
(***************************************************************************)
(* The registry of database pools and the editor sessions of the patched   *)
(* tauri-plugin-sql: the commands load, close, select/execute, run, cancel *)
(* and end_session of commands.rs, split at their await points.            *)
(*                                                                         *)
(* A call is one invocation of a command; call[c].pc names the await it is *)
(* suspended at, and every action is the code between two awaits.  The map *)
(* of sessions is only ever locked inside one action.  The registry is     *)
(* behind tokio's RwLock, which grants requests first come, first served:  *)
(* waiting is its queue, and a call keeps the guard across awaits only     *)
(* while "selecting" (read) or "closing" and "draining" (write).  line[s]  *)
(* is the queue of the mutex of connection s; its head holds the mutex.    *)
(***************************************************************************)
EXTENDS Sequences, FiniteSets

CONSTANTS
    LoadCalls,      \* callers of load, of close, ...: each caller has one
    CloseCalls,     \* call in flight at a time, of any command it may call
    SelectCalls,
    RunCalls,
    CancelCalls,
    Dbs,            \* connection strings, the keys of the registry
    ServerDbs,      \* those of PostgreSQL and MySQL: their sessions have a backend id
    Tabs,           \* session ids, one per editor tab
    ClosedTabs,     \* those the user closes at some point
    Pools,          \* identities of DbPool objects
    Conns,          \* identities of the detached connections of sessions
    None

Calls == LoadCalls \cup CloseCalls \cup SelectCalls \cup RunCalls \cup CancelCalls

ASSUME NoneAssumption == None \notin Calls \cup Dbs \cup Tabs \cup Pools \cup Conns
ASSUME SubsetAssumption == ServerDbs \subseteq Dbs /\ ClosedTabs \subseteq Tabs

VARIABLES
    instances,      \* DbInstances: the registered pool of each connection string
    open,           \* the pools that have not been closed
    waiting,        \* calls queued for the registry's RwLock
    sessions,       \* Sessions: the connection of each (database, tab)
    dead,           \* connections whose server end is gone
    stale,          \* connections last used more than IDLE_PING_AFTER ago
    line,           \* the queue of each connection's mutex, the holder first
    call            \* the locals of each call

vars == <<instances, open, waiting, sessions, dead, stale, line, call>>

Keys == Dbs \X Tabs

Running == {"pinging", "removeDead", "lookup", "acquiring", "opening", "queued", "removeLost"}
Cancelling == {"cancel", "cancelAcquire", "cancelSend"}
Labels == {"idle", "load", "connecting", "loadInsert", "closeAsk", "close", "closing",
           "draining", "select", "selecting"} \cup Running \cup Cancelling

(* dbs: the pools a close has yet to close.  pool, conn: the clones a call *)
(* holds.  reconnected: its session was found dead.  interrupted: the      *)
(* server was asked to cancel its statement.                               *)
CallRecords == [pc : Labels, db : Dbs \cup {None}, tab : Tabs \cup {None}, dbs : SUBSET Dbs,
                pool : Pools \cup {None}, conn : Conns \cup {None},
                reconnected : BOOLEAN, interrupted : BOOLEAN]

Idle == [pc |-> "idle", db |-> None, tab |-> None, dbs |-> {}, pool |-> None, conn |-> None,
         reconnected |-> FALSE, interrupted |-> FALSE]

TypeOK ==
    /\ instances \in [Dbs -> Pools \cup {None}]
    /\ open \subseteq Pools
    /\ waiting \in Seq(Calls)
    /\ sessions \in [Keys -> Conns \cup {None}]
    /\ dead \subseteq Conns
    /\ stale \subseteq Conns
    /\ line \in [Conns -> Seq(Calls)]
    /\ call \in [Calls -> CallRecords]

At(c, l) == call[c].pc = l
Key(c) == <<call[c].db, call[c].tab>>
Pool(c) == instances[call[c].db]

-----------------------------------------------------------------------------
(* The RwLock of the registry, the mutex of a connection, and when the     *)
(* identity of a pool or of a connection is free: nothing refers to it.    *)

AtFront(c) == waiting # <<>> /\ Head(waiting) = c
MayRead(c) == AtFront(c) /\ \A d \in Calls : ~ At(d, "closing") /\ ~ At(d, "draining")
MayWrite(c) == MayRead(c) /\ \A d \in Calls : ~ At(d, "selecting")

Ask(c) == waiting' = Append(waiting, c)
Granted == waiting' = Tail(waiting)

Join(c, s) == line' = [line EXCEPT ![s] = Append(@, c)]
Holds(c, s) == line[s] # <<>> /\ Head(line[s]) = c

FreePool(p) == p \notin open /\ \A c \in Calls : call[c].pool # p
(* Mutant: a connection that is not detached returns to its pool when the  *)
(* map drops it, whoever still runs a statement on it.                     *)
FreeConnPooled(s) == \A k \in Keys : sessions[k] # s
FreeConn(s) == (\A k \in Keys : sessions[k] # s) /\ (\A c \in Calls : call[c].conn # s)

NewPool == CHOOSE p \in Pools : FreePool(p)
NewConn == CHOOSE s \in Conns : FreeConn(s)

(* The calls that have a connection of p checked out: a detached           *)
(* connection, which is what a session has, does not count.                *)
Users(p) == {c \in Calls : At(c, "cancelSend") /\ call[c].pool = p}

Become(c, r) == call' = [call EXCEPT ![c] = r]
Goto(c, l) == Become(c, [call[c] EXCEPT !.pc = l])
Reply(c) == Become(c, Idle)

Init ==
    /\ instances = [d \in Dbs |-> None]
    /\ open = {}
    /\ waiting = <<>>
    /\ sessions = [k \in Keys |-> None]
    /\ dead = {}
    /\ stale = {}
    /\ line = [s \in Conns |-> <<>>]
    /\ call = [c \in Calls |-> Idle]

-----------------------------------------------------------------------------
(* load                                                                    *)

Load(c, d) ==
    /\ At(c, "idle")
    /\ Become(c, [call[c] EXCEPT !.pc = "load", !.db = d])
    /\ Ask(c)
    /\ UNCHANGED <<instances, open, sessions, dead, stale, line>>

(* The fast path: a registered pool is reused. *)
LoadLook(c) ==
    /\ At(c, "load")
    /\ MayRead(c)
    /\ Granted
    /\ IF Pool(c) = None THEN Goto(c, "connecting") ELSE Reply(c)
    /\ UNCHANGED <<instances, open, sessions, dead, stale, line>>

LoadConnect(c) ==
    /\ At(c, "connecting")
    /\ \/ /\ \E p \in Pools : FreePool(p)
          /\ open' = open \cup {NewPool}
          /\ Become(c, [call[c] EXCEPT !.pc = "loadInsert", !.pool = NewPool])
          /\ Ask(c)
       \/ Reply(c) /\ UNCHANGED <<open, waiting>>
    /\ UNCHANGED <<instances, sessions, dead, stale, line>>

(* Mutant, and what the original plugin does: insert over what is there. *)
LoadInsertOver(c) ==
    /\ At(c, "loadInsert")
    /\ MayWrite(c)
    /\ Granted
    /\ Reply(c)
    /\ instances' = [instances EXCEPT ![call[c].db] = call[c].pool]
    /\ UNCHANGED <<open, sessions, dead, stale, line>>

(* Another load may have registered a pool during the handshake: the loser *)
(* closes its own.                                                         *)
LoadInsert(c) ==
    /\ At(c, "loadInsert")
    /\ MayWrite(c)
    /\ Granted
    /\ Reply(c)
    /\ IF Pool(c) = None
       THEN instances' = [instances EXCEPT ![call[c].db] = call[c].pool] /\ UNCHANGED open
       ELSE open' = open \ {call[c].pool} /\ UNCHANGED instances
    /\ UNCHANGED <<sessions, dead, stale, line>>

-----------------------------------------------------------------------------
(* close, of one connection string or of all of them (d = None)            *)

(* The sessions go first, under their own lock ... *)
Close(c, d) ==
    /\ At(c, "idle")
    /\ sessions' = [k \in Keys |-> IF d \in {k[1], None} THEN None ELSE sessions[k]]
    /\ Become(c, [call[c] EXCEPT !.pc = "closeAsk", !.db = d])
    /\ UNCHANGED <<instances, open, waiting, dead, stale, line>>

(* ... and only then is the write guard of the registry asked for. *)
CloseAsk(c) ==
    /\ At(c, "closeAsk")
    /\ Goto(c, "close")
    /\ Ask(c)
    /\ UNCHANGED <<instances, open, sessions, dead, stale, line>>

(* Mutant: close only takes a read guard. *)
CloseBeginReads(c) ==
    LET found == {d \in Dbs : call[c].db \in {d, None} /\ instances[d] # None} IN
    /\ At(c, "close")
    /\ MayRead(c)
    /\ Granted
    /\ IF found = {} THEN Reply(c)
       ELSE Become(c, [call[c] EXCEPT !.pc = "closing", !.dbs = found])
    /\ UNCHANGED <<instances, open, sessions, dead, stale, line>>

(* With nothing to close it answers: DatabaseNotLoaded, or an empty registry. *)
CloseBegin(c) ==
    LET found == {d \in Dbs : call[c].db \in {d, None} /\ instances[d] # None} IN
    /\ At(c, "close")
    /\ MayWrite(c)
    /\ Granted
    /\ IF found = {} THEN Reply(c)
       ELSE Become(c, [call[c] EXCEPT !.pc = "closing", !.dbs = found])
    /\ UNCHANGED <<instances, open, sessions, dead, stale, line>>

(* Mutant, and what the original plugin does: close it but leave the entry. *)
CloseTakeKeepsEntry(c, d) ==
    /\ At(c, "closing")
    /\ d \in call[c].dbs
    /\ open' = open \ {instances[d]}
    /\ Become(c, [call[c] EXCEPT !.pc = "draining", !.pool = instances[d], !.dbs = @ \ {d}])
    /\ UNCHANGED <<instances, waiting, sessions, dead, stale, line>>

(* A pool is taken out of the registry before it is closed. *)
CloseTake(c, d) ==
    /\ At(c, "closing")
    /\ d \in call[c].dbs
    /\ instances' = [instances EXCEPT ![d] = None]
    /\ open' = open \ {instances[d]}
    /\ Become(c, [call[c] EXCEPT !.pc = "draining", !.pool = instances[d], !.dbs = @ \ {d}])
    /\ UNCHANGED <<waiting, sessions, dead, stale, line>>

(* pool.close().await, still under the write guard. *)
CloseDrained(c) ==
    /\ At(c, "draining")
    /\ Users(call[c].pool) = {}
    /\ IF call[c].dbs = {} THEN Reply(c)
       ELSE Become(c, [call[c] EXCEPT !.pc = "closing", !.pool = None])
    /\ UNCHANGED <<instances, open, waiting, sessions, dead, stale, line>>

-----------------------------------------------------------------------------
(* Three commands take a pool out of the registry, or fail without one.    *)

TakePool(c, next) ==
    /\ MayRead(c)
    /\ Granted
    /\ IF Pool(c) = None THEN Reply(c)
       ELSE Become(c, [call[c] EXCEPT !.pc = next, !.pool = Pool(c)])
    /\ UNCHANGED <<instances, open, sessions, dead, stale, line>>

(* select and execute keep the read guard until the query has answered. *)
Select(c, d) ==
    /\ At(c, "idle")
    /\ Become(c, [call[c] EXCEPT !.pc = "select", !.db = d])
    /\ Ask(c)
    /\ UNCHANGED <<instances, open, sessions, dead, stale, line>>

SelectLook(c) == At(c, "select") /\ TakePool(c, "selecting")

SelectDone(c) ==
    /\ At(c, "selecting")
    /\ Reply(c)
    /\ UNCHANGED <<instances, open, waiting, sessions, dead, stale, line>>

-----------------------------------------------------------------------------
(* run                                                                     *)

(* The session the tab already has is used, after a ping when it sat idle; *)
(* without one, the registry is asked for the pool to open it from.  Runs  *)
(* of one tab may overlap: Stop lets the next one in at once, and batches  *)
(* of the grid and the transaction buttons wait for nobody.                *)
Run(c, k) ==
    LET s == sessions[k]
        Begin(l) == Become(c, [call[c] EXCEPT !.pc = l, !.db = k[1], !.tab = k[2], !.conn = s])
    IN  /\ At(c, "idle")
        /\ IF s = None
           THEN /\ Begin("lookup")
                /\ Ask(c) /\ UNCHANGED line
           ELSE /\ Begin(IF s \in stale THEN "pinging" ELSE "queued")
                /\ Join(c, s) /\ UNCHANGED waiting
        /\ UNCHANGED <<instances, open, sessions, dead, stale>>

(* Mutant: the ping's guard of the mutex is still held when run asks for it. *)
RunPingKeepsGuard(c) ==
    LET s == call[c].conn IN
    /\ At(c, "pinging")
    /\ Holds(c, s)
    /\ IF s \in dead
       THEN Goto(c, "removeDead") /\ UNCHANGED line
       ELSE Goto(c, "queued") /\ line' = [line EXCEPT ![s] = Append(@, c)]
    /\ UNCHANGED <<instances, open, waiting, sessions, dead, stale>>

(* is_alive: the ping has the connection's mutex; run takes it again after. *)
RunPing(c) ==
    LET s == call[c].conn IN
    /\ At(c, "pinging")
    /\ Holds(c, s)
    /\ IF s \in dead
       THEN Goto(c, "removeDead") /\ line' = [line EXCEPT ![s] = Tail(@)]
       ELSE Goto(c, "queued") /\ line' = [line EXCEPT ![s] = Append(Tail(@), c)]
    /\ UNCHANGED <<instances, open, waiting, sessions, dead, stale>>

(* Mutant: nothing remembers that there was a session. *)
RunDropDeadSilent(c) ==
    /\ At(c, "removeDead")
    /\ sessions' = [sessions EXCEPT ![Key(c)] = None]
    /\ Become(c, [call[c] EXCEPT !.pc = "lookup", !.conn = None])
    /\ Ask(c)
    /\ UNCHANGED <<instances, open, dead, stale, line>>

(* Whatever is registered under the key by now is removed. *)
RunDropDead(c) ==
    /\ At(c, "removeDead")
    /\ sessions' = [sessions EXCEPT ![Key(c)] = None]
    /\ Become(c, [call[c] EXCEPT !.pc = "lookup", !.conn = None, !.reconnected = TRUE])
    /\ Ask(c)
    /\ UNCHANGED <<instances, open, dead, stale, line>>

(* The pool is cloned: the guard is not held while the session is opened. *)
RunLookup(c) == At(c, "lookup") /\ TakePool(c, "acquiring")

(* open_session: a connection is acquired, unless the pool was closed      *)
(* meanwhile or none can be had, and detached at once.                     *)
RunAcquire(c) ==
    /\ At(c, "acquiring")
    /\ \/ Reply(c) /\ UNCHANGED <<dead, stale>>
       \/ /\ call[c].pool \in open
          /\ \E s \in Conns : FreeConn(s)
          /\ dead' = dead \ {NewConn}
          /\ stale' = stale \ {NewConn}
          /\ Become(c, [call[c] EXCEPT !.pc = "opening", !.pool = None, !.conn = NewConn])
    /\ UNCHANGED <<instances, open, waiting, sessions, line>>

(* Mutant: the entry of another run is overwritten. *)
RunOpenedOver(c) ==
    LET s == call[c].conn IN
    /\ At(c, "opening")
    /\ \/ Reply(c) /\ UNCHANGED <<sessions, line>>
       \/ /\ sessions' = [sessions EXCEPT ![Key(c)] = s]
          /\ Become(c, [call[c] EXCEPT !.pc = "queued"])
          /\ Join(c, s)
    /\ UNCHANGED <<instances, open, waiting, dead, stale>>

(* or_insert_with: the session another run opened meanwhile wins. *)
RunOpened(c) ==
    LET s == IF sessions[Key(c)] = None THEN call[c].conn ELSE sessions[Key(c)] IN
    /\ At(c, "opening")
    /\ \/ Reply(c) /\ UNCHANGED <<sessions, line>>
       \/ /\ sessions' = [sessions EXCEPT ![Key(c)] = s]
          /\ Become(c, [call[c] EXCEPT !.pc = "queued", !.conn = s])
          /\ Join(c, s)
    /\ UNCHANGED <<instances, open, waiting, dead, stale>>

(* The statement has ended on the session's connection: with its result or *)
(* an SQL error, or because the connection is lost.                        *)
RunAnswered(c) ==
    LET s == call[c].conn IN
    /\ At(c, "queued")
    /\ Holds(c, s)
    /\ line' = [line EXCEPT ![s] = Tail(@)]
    /\ stale' = stale \ {s}
    /\ \/ s \notin dead /\ Reply(c) /\ UNCHANGED dead
       \/ Goto(c, "removeLost") /\ dead' = dead \cup {s}
    /\ UNCHANGED <<instances, open, waiting, sessions>>

(* Mutant: a statement that lost its connection is tried again by itself. *)
RunDropLostRetries(c) ==
    /\ At(c, "removeLost")
    /\ sessions' = [sessions EXCEPT ![Key(c)] = None]
    /\ Become(c, [call[c] EXCEPT !.pc = "lookup", !.conn = None, !.reconnected = TRUE])
    /\ Ask(c)
    /\ UNCHANGED <<instances, open, dead, stale, line>>

(* Again it is the key that is removed, whatever it is mapped to by now. *)
RunDropLost(c) ==
    /\ At(c, "removeLost")
    /\ sessions' = [sessions EXCEPT ![Key(c)] = None]
    /\ Reply(c)
    /\ UNCHANGED <<instances, open, waiting, dead, stale, line>>

-----------------------------------------------------------------------------
(* cancel and end_session                                                  *)

(* The backend id is read from the map, not from the locked connection. *)
Cancel(c, k) ==
    /\ At(c, "idle")
    /\ k[1] \in ServerDbs
    /\ sessions[k] # None
    /\ Become(c, [call[c] EXCEPT !.pc = "cancel", !.db = k[1], !.tab = k[2],
                            !.conn = sessions[k]])
    /\ Ask(c)
    /\ UNCHANGED <<instances, open, sessions, dead, stale, line>>

(* Mutant: the session is looked into under the mutex of its connection. *)
CancelLookLocked(c) ==
    /\ At(c, "cancel")
    /\ line[call[c].conn] = <<>>
    /\ TakePool(c, "cancelAcquire")

CancelLook(c) == At(c, "cancel") /\ TakePool(c, "cancelAcquire")

(* cancel_backend takes a pooled connection of its own ... *)
CancelAcquire(c) ==
    /\ At(c, "cancelAcquire")
    /\ \/ call[c].pool \in open /\ Goto(c, "cancelSend")
       \/ Reply(c)
    /\ UNCHANGED <<instances, open, waiting, sessions, dead, stale, line>>

(* ... and the server interrupts what the backend is running by then, if anything. *)
CancelSend(c) ==
    LET s == call[c].conn
        hit == {d \in Calls : s \notin dead /\ At(d, "queued") /\ Holds(d, s)}
    IN
    /\ At(c, "cancelSend")
    /\ \/ Reply(c)
       \/ call' = [d \in Calls |-> IF d = c THEN Idle
                                   ELSE IF d \in hit THEN [call[d] EXCEPT !.interrupted = TRUE]
                                   ELSE call[d]]
    /\ UNCHANGED <<instances, open, waiting, sessions, dead, stale, line>>

EndSession(k) ==
    /\ k[2] \in ClosedTabs
    /\ sessions' = [sessions EXCEPT ![k] = None]
    /\ UNCHANGED <<instances, open, waiting, dead, stale, line, call>>

-----------------------------------------------------------------------------
(* The network and the clock.                                              *)

LoseConn(s) ==
    /\ s \notin dead
    /\ ~ FreeConn(s)
    /\ dead' = dead \cup {s}
    /\ UNCHANGED <<instances, open, waiting, sessions, stale, line, call>>

GoStale(s) ==
    /\ s \notin stale
    /\ ~ FreeConn(s)
    /\ stale' = stale \cup {s}
    /\ UNCHANGED <<instances, open, waiting, sessions, dead, line, call>>

-----------------------------------------------------------------------------
Invoke ==
    \/ \E c \in LoadCalls, d \in Dbs : Load(c, d)
    \/ \E c \in CloseCalls, d \in Dbs \cup {None} : Close(c, d)
    \/ \E c \in SelectCalls, d \in Dbs : Select(c, d)
    \/ \E c \in RunCalls, k \in Keys : Run(c, k)
    \/ \E c \in CancelCalls, k \in Keys : Cancel(c, k)

(* What the plugin does by itself once a command is invoked. *)
Proceed(c) ==
    \/ LoadLook(c) \/ LoadConnect(c) \/ LoadInsert(c)
    \/ CloseAsk(c) \/ CloseBegin(c) \/ (\E d \in Dbs : CloseTake(c, d)) \/ CloseDrained(c)
    \/ SelectLook(c) \/ RunPing(c) \/ RunDropDead(c) \/ RunLookup(c) \/ RunAcquire(c)
    \/ RunOpened(c) \/ RunDropLost(c)
    \/ CancelLook(c) \/ CancelAcquire(c) \/ CancelSend(c)

Step ==
    \/ Invoke
    \/ \E c \in Calls : Proceed(c) \/ SelectDone(c) \/ RunAnswered(c)
    \/ \E s \in Conns : LoseConn(s) \/ GoStale(s)

Next == Step \/ \E k \in Keys : EndSession(k)

Spec == Init /\ [][Next]_vars

(* The runtime polls every call that can go on, the RwLock and the mutexes *)
(* are fair, and the app's own queries end.  A statement of the editor may *)
(* run for ever, unless the server was asked to cancel it.                 *)
StopSpec ==
    /\ Spec
    /\ \A c \in Calls : /\ WF_vars(Proceed(c))
                        /\ WF_vars(SelectDone(c))
                        /\ WF_vars(call[c].interrupted /\ RunAnswered(c))

-----------------------------------------------------------------------------
(* The registered pool of a connection string is never one that was        *)
(* closed: the fast path of load cannot hand out a dead handle.            *)
RegisteredPoolOpen == \A d \in Dbs : instances[d] # None => instances[d] \in open

(* No pool leaks: an open pool is registered, or the load that connected   *)
(* it is still on its way to the registry, however loads and closes of the *)
(* same connection string interleave.                                      *)
PoolsAccounted ==
    \A p \in open : \/ \E d \in Dbs : instances[d] = p
                    \/ \E c \in Calls : At(c, "loadInsert") /\ call[c].pool = p

(* select and execute: no close pulls the pool from under a running query. *)
QueryKeepsItsPool == \A c \in Calls : At(c, "selecting") => call[c].pool \in open

(* What the registry of pools promises to loads, closes and queries: no     *)
(* dead handle, no leak, and no query that loses its pool.                 *)
RegistrySafety == RegisteredPoolOpen /\ PoolsAccounted /\ QueryKeepsItsPool

(* Statements of different tabs never meet on one connection, although the *)
(* map drops and replaces entries while runs still hold the old connection. *)
TabsNeverShare ==
    /\ \A c, d \in Calls :
          call[c].conn # None /\ call[c].conn = call[d].conn => Key(c) = Key(d)
    /\ \A k \in Keys, c \in Calls :
          sessions[k] # None /\ sessions[k] = call[c].conn => Key(c) = k
    /\ \A j, k \in Keys : sessions[k] # None /\ sessions[j] = sessions[k] => j = k

(* Stop "never waits for the running statement": a cancel answers even     *)
(* when no statement of the editor ever ends by itself.                    *)
CancelReturns == \A c \in CancelCalls : (call[c].pc \in Cancelling) ~> At(c, "idle")

(* A run whose statement was cancelled answers, whatever was closed or     *)
(* removed from the map meanwhile.                                         *)
StoppedRunAnswers == \A c \in RunCalls : call[c].interrupted ~> At(c, "idle")

(* Nothing waits for ever on the RwLock, on a connection's mutex or on the *)
(* closing of a pool: where the editor's statements end, every command     *)
(* answers.                                                                *)
StatementsEnd == \A c \in RunCalls : WF_vars(RunAnswered(c))
CallsReturn == StatementsEnd => \A c \in Calls : ~ At(c, "idle") ~> At(c, "idle")
=============================================================================
