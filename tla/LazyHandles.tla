----------------------------- MODULE LazyHandles -----------------------------
(***************************************************************************)
(* The database handles that ConnectionContext.tsx establishes lazily:     *)
(* ensureConnectionDb, which shares one handle per connection and database *)
(* among its callers, and dropCachedConnection, which evicts them.  The    *)
(* front end is single-threaded: an action runs from one await to the next *)
(* and the replies of the plugin come in any order.  Of the plugin it uses *)
(* what SqlPlugin establishes: load registers the pool of a connection     *)
(* string unless it is there, close takes it out.                          *)
(*                                                                         *)
(* A promise of Database.load is named by the call that made it, and so is *)
(* the handle it resolves to.                                              *)
(***************************************************************************)
EXTENDS Naturals

CONSTANTS
    Calls,          \* callers of ensureConnectionDb, each one call at a time
    Conns,          \* saved connections
    Dbs,            \* databases of a connection
    MaxCloses,      \* bound: closes of one pool on their way to the plugin
    None

ASSUME NoneAssumption == None \notin Calls \cup (Conns \X Dbs)
ASSUME BoundAssumption == MaxCloses \in Nat

Keys == Conns \X Dbs

VARIABLES
    handle,     \* lazyHandlesRef: the cached handle of each key
    pending,    \* lazyPendingRef: the load that callers of a key share
    evicted,    \* loads that a drop will close when they settle
    call,       \* where each call of ensureConnectionDb is
    pools,      \* the plugin: registered pools; the connection string of a
                \* key is the key
    closing     \* closes on their way to the plugin

vars == <<handle, pending, evicted, call, pools, closing>>

(* given: returned a handle.  refused: "Connection was closed while        *)
(* connecting".  failed: credentials, tunnel or load failed.               *)
Resting == {"idle", "given", "refused", "failed"}

(* on: the call whose promise is awaited.  reply: what the plugin has      *)
(* answered to the load.                                                   *)
CallRecords ==
    [pc : {"resolving", "importing", "versioning"}, key : Keys, on : {None}, reply : {"none"}]
        \cup [pc : {"loading"}, key : Keys, on : {None}, reply : {"none", "ok", "err"}]
        \cup [pc : {"waiting"}, key : Keys, on : Calls, reply : {"none"}]
        \cup [pc : Resting, key : {None}, on : {None}, reply : {"none"}]

TypeOK ==
    /\ handle \in [Keys -> Calls \cup {None}]
    /\ pending \in [Keys -> Calls \cup {None}]
    /\ evicted \subseteq Calls
    /\ call \in [Calls -> CallRecords]
    /\ pools \subseteq Keys
    /\ closing \in [Keys -> Nat]

At(c, l) == call[c].pc = l
Rest(l) == [pc |-> l, key |-> None, on |-> None, reply |-> "none"]
Step(l, k) == [pc |-> l, key |-> k, on |-> None, reply |-> "none"]
Registered(c) == pending[call[c].key] = c

Init ==
    /\ handle = [k \in Keys |-> None]
    /\ pending = [k \in Keys |-> None]
    /\ evicted = {}
    /\ call = [c \in Calls |-> Rest("idle")]
    /\ pools = {}
    /\ closing = [k \in Keys |-> 0]

-----------------------------------------------------------------------------
(* ensureConnectionDb                                                      *)

(* The credentials are resolved, and the tunnel is brought up, first. *)
Ensure(c, k) ==
    /\ call[c].pc \in Resting
    /\ call' = [call EXCEPT ![c] = Step("resolving", k)]
    /\ UNCHANGED <<handle, pending, evicted, pools, closing>>

ResolveFails(c) ==
    /\ At(c, "resolving")
    /\ call' = [call EXCEPT ![c] = Rest("failed")]
    /\ UNCHANGED <<handle, pending, evicted, pools, closing>>

(* A cached handle is returned, a pending load is awaited, or, for neither, *)
(* the plugin's module is imported, which is an await too.                 *)
Look(c) ==
    LET k == call[c].key
    IN
    /\ At(c, "resolving")
    /\ call' = [call EXCEPT ![c] =
            IF handle[k] # None THEN Rest("given")
            ELSE IF pending[k] # None THEN [Step("waiting", k) EXCEPT !.on = pending[k]]
            ELSE Step("importing", k)]
    /\ UNCHANGED <<handle, pending, evicted, pools, closing>>

StartLoad(c) ==
    LET k == call[c].key
    IN
    /\ At(c, "importing")
    /\ call' = [call EXCEPT ![c] = Step("loading", k)]
    /\ pending' = [pending EXCEPT ![k] = c]
    /\ UNCHANGED <<handle, evicted, pools, closing>>

(* When the promise settles, the call that made it continues, with l; then *)
(* those that share it, which revalidate what they were given; then the    *)
(* close that a drop has attached to it.                                   *)
Shared(c) ==
    LET k == call[c].key
    IN IF pending'[k] = c \/ handle'[k] = c THEN Rest("given") ELSE Rest("refused")

Settle(c, own, others) ==
    /\ call' = [d \in Calls |-> IF d = c THEN own
                                ELSE IF At(d, "waiting") /\ call[d].on = c THEN others
                                ELSE call[d]]
    /\ evicted' = evicted \ {c}
    /\ UNCHANGED pools

(* Mutant: a call does not look whether its load was evicted meanwhile. *)
LoadSucceedsUnchecked(c) ==
    LET k == call[c].key
    IN
    /\ At(c, "loading") /\ call[c].reply = "ok"
    /\ handle' = [handle EXCEPT ![k] = c]
    /\ pending' = [pending EXCEPT ![k] = None]
    /\ Settle(c, Rest("given"), Rest("given"))
    /\ closing' = IF c \in evicted THEN [closing EXCEPT ![k] = @ + 1] ELSE closing

(* Cached; the server's version may have to be read before it is returned. *)
LoadSucceeds(c) ==
    LET k == call[c].key
    IN
    /\ At(c, "loading") /\ call[c].reply = "ok"
    /\ Registered(c)
    /\ handle' = [handle EXCEPT ![k] = c]
    /\ \/ /\ pending' = [pending EXCEPT ![k] = None]
          /\ Settle(c, Rest("given"), Shared(c))
       \/ /\ UNCHANGED pending
          /\ Settle(c, Step("versioning", k), Shared(c))
    /\ UNCHANGED closing

(* Evicted by a drop, or no longer the registered load of its key. *)
LoadRefused(c) ==
    /\ At(c, "loading") /\ call[c].reply = "ok"
    /\ ~ Registered(c)
    /\ UNCHANGED <<handle, pending>>
    /\ Settle(c, Rest("refused"), Shared(c))
    /\ closing' = IF c \in evicted THEN [closing EXCEPT ![call[c].key] = @ + 1] ELSE closing

(* Mutant: the registration is cleared on success only. *)
LoadFailsRegistered(c) ==
    /\ At(c, "loading") /\ call[c].reply = "err"
    /\ Settle(c, Rest("failed"), Rest("failed"))
    /\ UNCHANGED <<handle, pending, closing>>

LoadFails(c) ==
    /\ At(c, "loading") /\ call[c].reply = "err"
    /\ pending' = IF Registered(c) THEN [pending EXCEPT ![call[c].key] = None] ELSE pending
    /\ Settle(c, Rest("failed"), Rest("failed"))
    /\ UNCHANGED <<handle, closing>>

(* A failure to read the version is none. *)
Versioned(c) ==
    /\ At(c, "versioning")
    /\ call' = [call EXCEPT ![c] = Rest("given")]
    /\ pending' = IF Registered(c) THEN [pending EXCEPT ![call[c].key] = None] ELSE pending
    /\ UNCHANGED <<handle, evicted, pools, closing>>

-----------------------------------------------------------------------------
(* dropCachedConnection, up to the closes it awaits.  A load that has      *)
(* settled already is closed at once.                                      *)

Drop(i) ==
    LET dropped == {k \in Keys : k[1] = i}
        loads == {pending[k] : k \in dropped} \ {None}
        Closes(k) == (IF handle[k] # None THEN 1 ELSE 0)
                        + (IF pending[k] # None /\ At(pending[k], "versioning") THEN 1 ELSE 0)
    IN
    /\ \A k \in dropped : closing[k] + Closes(k) <= MaxCloses
    /\ handle' = [k \in Keys |-> IF k \in dropped THEN None ELSE handle[k]]
    /\ pending' = [k \in Keys |-> IF k \in dropped THEN None ELSE pending[k]]
    /\ evicted' = evicted \cup {c \in loads : At(c, "loading")}
    /\ closing' = [k \in Keys |-> IF k \in dropped THEN closing[k] + Closes(k) ELSE closing[k]]
    /\ UNCHANGED <<call, pools>>

-----------------------------------------------------------------------------
(* The plugin.  A load whose first look missed the pool may fail to connect *)
(* although another load has registered it meanwhile.                      *)

PluginLoads(c) ==
    /\ At(c, "loading") /\ call[c].reply = "none"
    /\ \/ /\ call' = [call EXCEPT ![c].reply = "ok"]
          /\ pools' = pools \cup {call[c].key}
       \/ /\ call' = [call EXCEPT ![c].reply = "err"]
          /\ UNCHANGED pools
    /\ UNCHANGED <<handle, pending, evicted, closing>>

PluginCloses(k) ==
    /\ closing[k] > 0
    /\ closing' = [closing EXCEPT ![k] = @ - 1]
    /\ pools' = pools \ {k}
    /\ UNCHANGED <<handle, pending, evicted, call>>

-----------------------------------------------------------------------------

Continue(c) ==
    \/ ResolveFails(c) \/ Look(c) \/ StartLoad(c)
    \/ LoadSucceeds(c) \/ LoadRefused(c) \/ LoadFails(c) \/ Versioned(c)

Next ==
    \/ \E c \in Calls, k \in Keys : Ensure(c, k)
    \/ \E c \in Calls : Continue(c) \/ PluginLoads(c)
    \/ \E i \in Conns : Drop(i)
    \/ \E k \in Keys : PluginCloses(k)

Spec == Init /\ [][Next]_vars

-----------------------------------------------------------------------------
(* Properties                                                              *)

(* The load that callers of a key are told to share is under way, or has   *)
(* its handle cached: no settled or forgotten load keeps a key from ever   *)
(* connecting again.                                                       *)
PendingHasLoader ==
    \A k \in Keys : pending[k] # None =>
        /\ call[pending[k]].pc \in {"loading", "versioning"}
        /\ call[pending[k]].key = k

(* "A fulfilled-but-evicted promise must not be reused": a load that a     *)
(* drop will close is neither cached nor returned, by the call that made   *)
(* it or by those that share it.                                           *)
EvictedNotUsed ==
    [][\A c \in Calls, d \in Calls :
        /\ c \in evicted
        /\ \/ d = c
           \/ At(d, "waiting") /\ call[d].on = c
        => ~ At(d, "given")' /\ \A k \in Keys : handle'[k] = c => handle[k] = c]_vars

(* "The next run reconnects instead of reusing the dead pool",             *)
(* MainContent.tsx 2264: a cached handle has its pool, once no close of it *)
(* is on its way.  Refuted: the close of an evicted handle takes the pool  *)
(* from the newer load of the same connection string.                      *)
CachedHandleWorks == \A k \in Keys : handle[k] # None /\ closing[k] = 0 => k \in pools
=============================================================================
