---------------------------- MODULE HandleProofs ----------------------------
(***************************************************************************)
(* Proofs about the connection context: LazyHandles, for any number of     *)
(* callers, connections and databases, and below it SavedConnections, for  *)
(* any number of folders, connections and edits.                           *)
(*                                                                         *)
(* That every folder is drawn says that whatever is closed under going to  *)
(* a child, and has the root, has every folder (Rooted): it is proved from *)
(* the definition of the least closed set, without counting levels.  A     *)
(* move keeps it because the new parent does not lie below the folder.     *)
(* DrawnWhereLastPut also needs what the dialogs and the connects under    *)
(* way will write (Asking, AsPut).                                         *)
(***************************************************************************)
EXTENDS LazyHandles, SavedConnections, TLAPS

(* A load that a drop will close is under way and registered nowhere. *)
EvictedLoads == \A c \in evicted : At(c, "loading") /\ ~ Registered(c)

(* A call that loads, or is about to, is not the one whose handle is       *)
(* cached: its name was free when it missed the cache.                     *)
CachedNotLoading ==
    \A c \in Calls : call[c].pc \in {"importing", "loading"} => handle[call[c].key] # c

HandleInv ==
    /\ TypeOK
    /\ PendingHasLoader
    /\ EvictedLoads
    /\ CachedNotLoading

Busy == {"resolving", "importing", "loading", "waiting", "versioning"}

(* What the place of a call says of its key. *)
LEMMA CallShape ==
    ASSUME TypeOK, NEW c \in Calls
    PROVE  /\ call[c].pc \in Busy \cup Resting
           /\ call[c].pc \in Busy => call[c].key \in Keys
           /\ call[c].pc \in Resting => call[c].key = None
    BY DEF TypeOK, CallRecords, Busy, Resting

LEMMA StepTyped ==
    ASSUME NEW l \in {"resolving", "importing", "loading", "versioning"}, NEW k \in Keys
    PROVE  /\ Step(l, k) \in CallRecords
           /\ Step(l, k).pc = l /\ Step(l, k).key = k
    BY DEF Step, CallRecords

LEMMA RestTyped ==
    ASSUME NEW l \in Resting
    PROVE  Rest(l) \in CallRecords /\ Rest(l).pc = l /\ Rest(l).key = None
    BY DEF Rest, CallRecords

LEMMA HandleInit == Init => HandleInv
<1> SUFFICES ASSUME Init PROVE HandleInv
    OBVIOUS
<1>1. Rest("idle") \in CallRecords /\ Rest("idle").pc = "idle"
    BY RestTyped DEF Resting
<1>2. TypeOK
    BY <1>1 DEF Init, TypeOK
<1>3. \A c \in Calls : At(c, "idle")
    BY <1>1 DEF Init, At
<1> QED
    BY <1>2, <1>3 DEF HandleInv, Init, PendingHasLoader, EvictedLoads, CachedNotLoading, At

(* A step of one call that neither registers nor settles a load.           *)
LEMMA OneCallMoves ==
    ASSUME HandleInv, NEW c \in Calls, NEW r \in CallRecords,
           call' = [call EXCEPT ![c] = r],
           UNCHANGED <<handle, pending, evicted, pools, closing>>,
           call[c].pc \notin {"loading", "versioning"} \/ (At(c, "loading") /\ r.pc = "loading" /\ r.key = call[c].key),
           r.pc = "importing" => handle[r.key] = None,
           r.pc = "loading" => At(c, "loading")
    PROVE  HandleInv'
<1> USE DEF HandleInv
<1>1. TypeOK'
    BY DEF TypeOK
<1>2. call'[c] = r /\ \A d \in Calls \ {c} : call'[d] = call[d]
    BY DEF TypeOK
<1>3. PendingHasLoader'
    BY <1>2 DEF PendingHasLoader, TypeOK, At
<1>4. EvictedLoads'
    BY <1>2 DEF EvictedLoads, TypeOK, At, Registered
<1>5. CachedNotLoading'
    BY <1>2, NoneAssumption DEF CachedNotLoading, At
<1> QED
    BY <1>1, <1>3, <1>4, <1>5

LEMMA EnsureKeeps ==
    ASSUME HandleInv, NEW c \in Calls, NEW k \in Keys, Ensure(c, k)
    PROVE  HandleInv'
<1>1. Step("resolving", k) \in CallRecords /\ Step("resolving", k).pc = "resolving"
    BY StepTyped
<1> QED
    BY <1>1, OneCallMoves DEF Ensure, Resting

LEMMA ResolveFailsKeeps ==
    ASSUME HandleInv, NEW c \in Calls, ResolveFails(c)
    PROVE  HandleInv'
<1>1. Rest("failed") \in CallRecords /\ Rest("failed").pc = "failed"
    BY RestTyped DEF Resting
<1> QED
    BY <1>1, OneCallMoves DEF ResolveFails, At

LEMMA LookKeeps ==
    ASSUME HandleInv, NEW c \in Calls, Look(c)
    PROVE  HandleInv'
<1> DEFINE k == call[c].key
           w == [Step("waiting", k) EXCEPT !.on = pending[k]]
           r == IF handle[k] # None THEN Rest("given")
                ELSE IF pending[k] # None THEN w ELSE Step("importing", k)
<1>1. k \in Keys
    BY CallShape DEF HandleInv, Look, At, Busy
<1>2. Rest("given") \in CallRecords /\ Rest("given").pc = "given"
    BY RestTyped DEF Resting
<1>3. /\ Step("importing", k) \in CallRecords
      /\ Step("importing", k).pc = "importing" /\ Step("importing", k).key = k
    BY <1>1, StepTyped
<1>4. pending[k] # None => w \in CallRecords /\ w.pc = "waiting"
    BY <1>1 DEF HandleInv, TypeOK, Step, CallRecords
<1>5. call' = [call EXCEPT ![c] = r] /\ At(c, "resolving")
    BY DEF Look
<1>6. r \in CallRecords
    BY <1>2, <1>3, <1>4
<1>7. r.pc # "loading" /\ (r.pc = "importing" => handle[r.key] = None)
    BY <1>2, <1>3, <1>4
<1> HIDE DEF r
<1> QED
    BY <1>5, <1>6, <1>7, OneCallMoves DEF Look, At

LEMMA StartLoadKeeps ==
    ASSUME HandleInv, NEW c \in Calls, StartLoad(c)
    PROVE  HandleInv'
<1> USE DEF HandleInv
<1> DEFINE k == call[c].key
           r == Step("loading", k)
<1>1. k \in Keys
    BY CallShape DEF StartLoad, At, Busy
<1>2. r \in CallRecords /\ r.pc = "loading" /\ r.key = k
    BY <1>1, StepTyped
<1>3. call' = [call EXCEPT ![c] = r] /\ pending' = [pending EXCEPT ![k] = c]
    BY DEF StartLoad
<1>4. At(c, "importing") /\ UNCHANGED <<handle, evicted, pools, closing>>
    BY DEF StartLoad
<1> HIDE DEF r
<1>5. call'[c] = r /\ \A d \in Calls \ {c} : call'[d] = call[d]
    BY <1>3 DEF TypeOK
<1>6. pending'[k] = c /\ \A j \in Keys \ {k} : pending'[j] = pending[j]
    BY <1>1, <1>3 DEF TypeOK
<1>7. TypeOK'
    BY <1>1, <1>2, <1>3, <1>4 DEF TypeOK
<1>8. PendingHasLoader'
    <2>1. \A j \in Keys : pending[j] # c
        BY <1>4, NoneAssumption DEF PendingHasLoader, At
    <2> QED
        BY <2>1, <1>1, <1>2, <1>5, <1>6 DEF PendingHasLoader, TypeOK
<1>9. EvictedLoads'
    <2>1. c \notin evicted
        BY <1>4 DEF EvictedLoads, At
    <2>2. \A d \in evicted : d \in Calls /\ call[d].key \in Keys
        BY CallShape DEF EvictedLoads, TypeOK, At, Busy
    <2> QED
        BY <2>1, <2>2, <1>4, <1>5, <1>6 DEF EvictedLoads, At, Registered
<1>10. CachedNotLoading'
    BY <1>2, <1>4, <1>5 DEF CachedNotLoading, At
<1> QED
    BY <1>7, <1>8, <1>9, <1>10

(* A load settles: its call goes on to l, the others to a place of rest.   *)
(* If it goes on as the loader of its key, the handle is cached.           *)
LEMMA SettleKeeps ==
    ASSUME HandleInv, NEW c \in Calls, At(c, "loading"),
           NEW own \in CallRecords, NEW others \in CallRecords,
           Settle(c, own, others),
           own.pc \in Resting \cup {"versioning"}, others.pc \in Resting,
           own.pc = "versioning" => own.key = call[c].key,
           pending' \in [Keys -> Calls \cup {None}],
           handle' \in [Keys -> Calls \cup {None}],
           closing' \in [Keys -> Nat],
           \A k \in Keys : handle'[k] \in {handle[k], c},
           \A k \in Keys : pending'[k] = pending[k] \/ (pending[k] = c /\ pending'[k] = None),
           own.pc # "versioning" => \A k \in Keys : pending'[k] # c
    PROVE  HandleInv'
<1> USE DEF HandleInv
<1>1. /\ call'[c] = own
      /\ \A d \in Calls \ {c} : \/ call'[d] = call[d]
                                \/ At(d, "waiting") /\ call'[d] = others
    BY DEF Settle
<1>2. evicted' = evicted \ {c} /\ UNCHANGED pools
    BY DEF Settle
<1>3. call' \in [Calls -> CallRecords]
    BY DEF Settle, TypeOK
<1>4. TypeOK'
    BY <1>2, <1>3 DEF TypeOK
<1>5. PendingHasLoader'
    <2> SUFFICES ASSUME NEW k \in Keys, pending'[k] # None
                 PROVE  /\ call'[pending'[k]].pc \in {"loading", "versioning"}
                        /\ call'[pending'[k]].key = k
        BY DEF PendingHasLoader
    <2>1. /\ pending'[k] = pending[k] /\ pending[k] \in Calls
          /\ call[pending[k]].pc \in {"loading", "versioning"} /\ call[pending[k]].key = k
        BY DEF PendingHasLoader, TypeOK
    <2>2. CASE pending[k] = c
        BY <2>1, <2>2, <1>1
    <2>3. CASE pending[k] # c
        BY <2>1, <2>3, <1>1 DEF At
    <2> QED
        BY <2>2, <2>3
<1>6. EvictedLoads'
    <2> SUFFICES ASSUME NEW d \in evicted, d # c
                 PROVE  At(d, "loading")' /\ ~ Registered(d)'
        BY <1>2 DEF EvictedLoads
    <2>1. d \in Calls /\ At(d, "loading") /\ ~ Registered(d) /\ call[d].key \in Keys
        BY CallShape DEF EvictedLoads, TypeOK, At, Busy
    <2>2. call'[d] = call[d]
        BY <2>1, <1>1 DEF At
    <2> QED
        BY <2>1, <2>2, NoneAssumption DEF At, Registered
<1>7. CachedNotLoading'
    <2> SUFFICES ASSUME NEW d \in Calls, call'[d].pc \in {"importing", "loading"}
                 PROVE  handle'[call'[d].key] # d
        BY DEF CachedNotLoading
    <2>1. d # c /\ call'[d] = call[d]
        BY <1>1 DEF Resting
    <2>2. call[d].key \in Keys
        BY <2>1, CallShape DEF Busy
    <2> QED
        BY <2>1, <2>2 DEF CachedNotLoading
<1> QED
    BY <1>4, <1>5, <1>6, <1>7

LEMMA SharedTyped ==
    ASSUME NEW c
    PROVE  Shared(c) \in CallRecords /\ Shared(c).pc \in Resting
    BY RestTyped DEF Shared, Resting

LEMMA LoadSucceedsKeeps ==
    ASSUME HandleInv, NEW c \in Calls, LoadSucceeds(c)
    PROVE  HandleInv'
<1> DEFINE k == call[c].key
           s == Shared(c)
<1>1. At(c, "loading") /\ pending[k] = c
    BY DEF LoadSucceeds, Registered
<1>2. k \in Keys
    BY <1>1, CallShape DEF HandleInv, At, Busy
<1>3. s \in CallRecords /\ s.pc \in Resting
    BY SharedTyped
<1>4. handle' = [handle EXCEPT ![k] = c] /\ closing' = closing
    BY DEF LoadSucceeds
<1>5. handle' \in [Keys -> Calls \cup {None}] /\ \A j \in Keys : handle'[j] \in {handle[j], c}
    BY <1>4 DEF HandleInv, TypeOK
<1>6. closing' \in [Keys -> Nat]
    BY <1>4 DEF HandleInv, TypeOK
<1>7. Rest("given") \in CallRecords /\ Rest("given").pc \in Resting /\ Rest("given").pc # "versioning"
    BY RestTyped DEF Resting
<1>8. /\ Step("versioning", k) \in CallRecords
      /\ Step("versioning", k).pc = "versioning" /\ Step("versioning", k).key = k
    BY <1>2, StepTyped
<1>9. \A j \in Keys \ {k} : pending[j] # c
    BY NoneAssumption DEF HandleInv, PendingHasLoader
<1>10. CASE pending' = [pending EXCEPT ![k] = None] /\ Settle(c, Rest("given"), s)
    <2>1. /\ pending' \in [Keys -> Calls \cup {None}]
          /\ \A j \in Keys : pending'[j] = pending[j] \/ (pending[j] = c /\ pending'[j] = None)
          /\ \A j \in Keys : pending'[j] # c
        BY <1>1, <1>2, <1>9, <1>10, NoneAssumption DEF HandleInv, TypeOK
    <2> HIDE DEF s
    <2> QED
        BY <2>1, <1>1, <1>3, <1>5, <1>6, <1>7, <1>10, SettleKeeps
<1>11. CASE pending' = pending /\ Settle(c, Step("versioning", k), s)
    <2>1. pending' \in [Keys -> Calls \cup {None}]
        BY <1>11 DEF HandleInv, TypeOK
    <2> HIDE DEF s
    <2> QED
        BY <2>1, <1>1, <1>3, <1>5, <1>6, <1>8, <1>11, SettleKeeps
<1> QED
    BY <1>10, <1>11 DEF LoadSucceeds

LEMMA LoadRefusedKeeps ==
    ASSUME HandleInv, NEW c \in Calls, LoadRefused(c)
    PROVE  HandleInv'
<1> DEFINE s == Shared(c)
<1>1. At(c, "loading") /\ pending[call[c].key] # c
    BY DEF LoadRefused, Registered
<1>2. s \in CallRecords /\ s.pc \in Resting
    BY SharedTyped
<1>3. handle' = handle /\ pending' = pending
    BY DEF LoadRefused
<1>4. handle' \in [Keys -> Calls \cup {None}] /\ pending' \in [Keys -> Calls \cup {None}]
    BY <1>3 DEF HandleInv, TypeOK
<1>5. closing' \in [Keys -> Nat]
    <2>1. call[c].key \in Keys
        BY <1>1, CallShape DEF HandleInv, At, Busy
    <2>2. closing \in [Keys -> Nat] /\ closing[call[c].key] + 1 \in Nat
        BY <2>1 DEF HandleInv, TypeOK
    <2> QED
        BY <2>1, <2>2 DEF LoadRefused
<1>6. Rest("refused") \in CallRecords /\ Rest("refused").pc \in Resting /\ Rest("refused").pc # "versioning"
    BY RestTyped DEF Resting
<1>7. \A k \in Keys : pending'[k] # c
    BY <1>1, <1>3, NoneAssumption DEF HandleInv, PendingHasLoader
<1>8. Settle(c, Rest("refused"), s)
    BY DEF LoadRefused
<1> HIDE DEF s
<1> QED
    BY <1>1, <1>2, <1>3, <1>4, <1>5, <1>6, <1>7, <1>8, SettleKeeps

LEMMA LoadFailsKeeps ==
    ASSUME HandleInv, NEW c \in Calls, LoadFails(c)
    PROVE  HandleInv'
<1> DEFINE k == call[c].key
<1>1. At(c, "loading") /\ Settle(c, Rest("failed"), Rest("failed"))
    BY DEF LoadFails
<1>2. k \in Keys
    BY <1>1, CallShape DEF HandleInv, At, Busy
<1>3. handle' = handle /\ closing' = closing
    BY DEF LoadFails
<1>4. handle' \in [Keys -> Calls \cup {None}] /\ closing' \in [Keys -> Nat]
    BY <1>3 DEF HandleInv, TypeOK
<1>5. \A j \in Keys \ {k} : pending[j] # c
    BY NoneAssumption DEF HandleInv, PendingHasLoader
<1>6. pending' = IF pending[k] = c THEN [pending EXCEPT ![k] = None] ELSE pending
    BY DEF LoadFails, Registered
<1>7. /\ pending' \in [Keys -> Calls \cup {None}]
      /\ \A j \in Keys : pending'[j] = pending[j] \/ (pending[j] = c /\ pending'[j] = None)
      /\ \A j \in Keys : pending'[j] # c
    BY <1>2, <1>5, <1>6, NoneAssumption DEF HandleInv, TypeOK
<1>8. Rest("failed") \in CallRecords /\ Rest("failed").pc \in Resting /\ Rest("failed").pc # "versioning"
    BY RestTyped DEF Resting
<1> QED
    BY <1>1, <1>3, <1>4, <1>7, <1>8, SettleKeeps

LEMMA VersionedKeeps ==
    ASSUME HandleInv, NEW c \in Calls, Versioned(c)
    PROVE  HandleInv'
<1> USE DEF HandleInv
<1> DEFINE k == call[c].key
           r == Rest("given")
<1>1. At(c, "versioning") /\ call' = [call EXCEPT ![c] = r]
    BY DEF Versioned
<1>2. k \in Keys
    BY <1>1, CallShape DEF At, Busy
<1>3. r \in CallRecords /\ r.pc = "given"
    BY RestTyped DEF Resting
<1>4. pending' = IF pending[k] = c THEN [pending EXCEPT ![k] = None] ELSE pending
    BY DEF Versioned, Registered
<1>5. UNCHANGED <<handle, evicted, pools, closing>>
    BY DEF Versioned
<1> HIDE DEF r
<1>6. call'[c] = r /\ \A d \in Calls \ {c} : call'[d] = call[d]
    BY <1>1 DEF TypeOK
<1>7. \A j \in Keys : pending'[j] = None \/ (pending'[j] = pending[j] /\ pending[j] # c)
    BY <1>2, <1>4, NoneAssumption DEF PendingHasLoader, TypeOK
<1>8. TypeOK'
    BY <1>1, <1>2, <1>3, <1>4, <1>5 DEF TypeOK
<1>9. PendingHasLoader'
    BY <1>6, <1>7 DEF PendingHasLoader, TypeOK
<1>10. EvictedLoads'
    <2>1. \A d \in evicted : d \in Calls /\ d # c /\ call[d].key \in Keys
        BY <1>1, CallShape DEF EvictedLoads, TypeOK, At, Busy
    <2> QED
        BY <2>1, <1>5, <1>6, <1>7, NoneAssumption DEF EvictedLoads, At, Registered
<1>11. CachedNotLoading'
    BY <1>3, <1>5, <1>6 DEF CachedNotLoading
<1> QED
    BY <1>8, <1>9, <1>10, <1>11

LEMMA DropKeeps ==
    ASSUME HandleInv, NEW i \in Conns, Drop(i)
    PROVE  HandleInv'
<1> USE DEF HandleInv
<1> DEFINE dropped == {k \in Keys : k[1] = i}
           loads == {pending[k] : k \in dropped} \ {None}
           Closes(k) == (IF handle[k] # None THEN 1 ELSE 0)
                          + (IF pending[k] # None /\ At(pending[k], "versioning") THEN 1 ELSE 0)
<1>1. /\ handle' = [k \in Keys |-> IF k \in dropped THEN None ELSE handle[k]]
      /\ pending' = [k \in Keys |-> IF k \in dropped THEN None ELSE pending[k]]
      /\ evicted' = evicted \cup {c \in loads : At(c, "loading")}
      /\ closing' = [k \in Keys |-> IF k \in dropped THEN closing[k] + Closes(k) ELSE closing[k]]
      /\ call' = call /\ pools' = pools
    BY DEF Drop
<1>2. \A k \in Keys : Closes(k) \in Nat
    OBVIOUS
<1>3. closing' \in [Keys -> Nat]
    <2> HIDE DEF Closes, dropped
    <2> QED
        BY <1>1, <1>2 DEF TypeOK
<1>4. loads \subseteq Calls
    BY DEF TypeOK
<1>5. TypeOK'
    <2> HIDE DEF loads, dropped, Closes
    <2> QED
        BY <1>1, <1>3, <1>4 DEF TypeOK
<1>6. PendingHasLoader'
    BY <1>1 DEF PendingHasLoader
<1>7. \A c \in loads : pending[call[c].key] = c /\ call[c].key \in dropped
    BY DEF PendingHasLoader
<1>8. EvictedLoads'
    <2> SUFFICES ASSUME NEW c \in evicted'
                 PROVE  At(c, "loading") /\ pending'[call[c].key] # c
        BY <1>1 DEF EvictedLoads, At, Registered
    <2>1. c \in Calls
        BY <1>5 DEF TypeOK
    <2>2. CASE c \in evicted
        <3>1. At(c, "loading") /\ pending[call[c].key] # c
            BY <2>2 DEF EvictedLoads, Registered
        <3>2. call[c].key \in Keys
            BY <2>1, <3>1, CallShape DEF At, Busy
        <3> QED
            BY <2>1, <3>1, <3>2, <1>1, NoneAssumption
    <2>3. CASE c \in loads /\ At(c, "loading")
        <3>1. pending'[call[c].key] = None
            BY <2>3, <1>1, <1>7
        <3> QED
            BY <2>1, <2>3, <3>1, NoneAssumption
    <2> QED
        BY <2>2, <2>3, <1>1
<1>9. CachedNotLoading'
    <2> SUFFICES ASSUME NEW c \in Calls, call[c].pc \in {"importing", "loading"}
                 PROVE  handle'[call[c].key] # c
        BY <1>1 DEF CachedNotLoading
    <2>1. call[c].key \in Keys /\ handle[call[c].key] # c
        BY CallShape DEF CachedNotLoading, Busy
    <2> QED
        BY <2>1, <1>1, NoneAssumption
<1> QED
    BY <1>5, <1>6, <1>8, <1>9

LEMMA PluginLoadsKeeps ==
    ASSUME HandleInv, NEW c \in Calls, PluginLoads(c)
    PROVE  HandleInv'
<1> USE DEF HandleInv
<1>1. PICK a \in {"ok", "err"} : call' = [call EXCEPT ![c].reply = a]
    BY DEF PluginLoads
<1>2. At(c, "loading") /\ UNCHANGED <<handle, pending, evicted, closing>> /\ pools' \subseteq pools \cup {call[c].key}
    BY DEF PluginLoads
<1> DEFINE r == [call[c] EXCEPT !.reply = a]
<1>3. r \in CallRecords /\ r.pc = "loading" /\ r.key = call[c].key
    <2>1. call[c] \in [pc : {"loading"}, key : Keys, on : {None}, reply : {"none", "ok", "err"}]
        BY <1>2 DEF TypeOK, CallRecords, At, Resting
    <2>2. r \in [pc : {"loading"}, key : Keys, on : {None}, reply : {"none", "ok", "err"}]
        BY <2>1
    <2> QED
        BY <2>1, <2>2 DEF CallRecords
<1>4. call' = [call EXCEPT ![c] = r]
    BY <1>1
<1> HIDE DEF r
<1>5. call'[c] = r /\ \A d \in Calls \ {c} : call'[d] = call[d]
    BY <1>4 DEF TypeOK
<1>6. \A d \in Calls : call'[d].pc = call[d].pc /\ call'[d].key = call[d].key
    BY <1>2, <1>3, <1>5 DEF At
<1>7. TypeOK'
    <2>1. call[c].key \in Keys
        BY <1>2, CallShape DEF At, Busy
    <2> QED
        BY <2>1, <1>2, <1>3, <1>4 DEF TypeOK
<1> QED
    BY <1>2, <1>6, <1>7 DEF PendingHasLoader, EvictedLoads, CachedNotLoading, TypeOK, At, Registered

LEMMA PluginClosesKeeps ==
    ASSUME HandleInv, NEW k \in Keys, PluginCloses(k)
    PROVE  HandleInv'
    BY DEF HandleInv, PluginCloses, TypeOK, PendingHasLoader, EvictedLoads, CachedNotLoading, At, Registered

LEMMA HandleStep == HandleInv /\ [Next]_vars => HandleInv'
<1> SUFFICES ASSUME HandleInv, [Next]_vars PROVE HandleInv'
    OBVIOUS
<1>1. CASE \E c \in Calls, k \in Keys : Ensure(c, k)
    BY <1>1, EnsureKeeps
<1>2. CASE \E c \in Calls : Continue(c) \/ PluginLoads(c)
    BY <1>2, ResolveFailsKeeps, LookKeeps, StartLoadKeeps, LoadSucceedsKeeps, LoadRefusedKeeps,
        LoadFailsKeeps, VersionedKeeps, PluginLoadsKeeps DEF Continue
<1>3. CASE \E i \in Conns : Drop(i)
    BY <1>3, DropKeeps
<1>4. CASE \E k \in Keys : PluginCloses(k)
    BY <1>4, PluginClosesKeeps
<1>5. CASE UNCHANGED vars
    BY <1>5 DEF vars, HandleInv, TypeOK, PendingHasLoader, EvictedLoads, CachedNotLoading, At, Registered
<1> QED
    BY <1>1, <1>2, <1>3, <1>4, <1>5 DEF Next

-----------------------------------------------------------------------------

(* Handles, registrations and the calls of ensureConnectionDb keep their   *)
(* types, at every await.                                                  *)
THEOREM HandleTypes == Spec => []TypeOK
<1>1. HandleInv => TypeOK
    BY DEF HandleInv
<1> QED
    BY <1>1, HandleInit, HandleStep, PTL DEF Spec

(* A registered load is under way or has its handle cached, however many   *)
(* callers load, fail and are dropped.                                     *)
THEOREM RegistrationsAreLive == Spec => []PendingHasLoader
<1>1. HandleInv => PendingHasLoader
    BY DEF HandleInv
<1> QED
    BY <1>1, HandleInit, HandleStep, PTL DEF Spec

-----------------------------------------------------------------------------
(* EvictedNotUsed.  An evicted load is not registered, so only a step that *)
(* refuses it or reports its failure settles it.                           *)

(* The steps of other calls leave a load and those that share it alone.    *)
LEMMA OthersLeave ==
    ASSUME TypeOK, NEW e \in Calls, NEW r, NEW d \in Calls,
           call[d].pc \in {"loading", "waiting"},
           call[e].pc \notin {"loading", "waiting"},
           call' = [call EXCEPT ![e] = r]
    PROVE  ~ At(d, "given")'
    BY DEF TypeOK, At

LEMMA EvictedStep ==
    ASSUME HandleInv, Next, NEW c \in Calls, NEW d \in Calls, c \in evicted,
           d = c \/ (At(d, "waiting") /\ call[d].on = c)
    PROVE  ~ At(d, "given")' /\ \A k \in Keys : handle'[k] = c => handle[k] = c
<1> USE DEF HandleInv
<1>1. At(c, "loading") /\ pending[call[c].key] # c /\ handle[call[c].key] # c
    BY DEF EvictedLoads, CachedNotLoading, At, Registered
<1>2. call[d].pc \in {"loading", "waiting"}
    BY <1>1 DEF At
<1>3. ASSUME NEW e \in Calls, NEW j \in Keys, Ensure(e, j)
      PROVE  ~ At(d, "given")' /\ handle' = handle
    <2>1. call[e].pc \notin {"loading", "waiting"}
        BY <1>3 DEF Ensure, Resting
    <2> QED
        BY <2>1, <1>2, <1>3, OthersLeave DEF Ensure
<1>4. ASSUME NEW e \in Calls, ResolveFails(e) \/ Look(e) \/ StartLoad(e) \/ Versioned(e)
      PROVE  ~ At(d, "given")' /\ handle' = handle
    <2>1. call[e].pc \notin {"loading", "waiting"} /\ handle' = handle
        BY <1>4 DEF ResolveFails, Look, StartLoad, Versioned, At
    <2>2. PICK r : call' = [call EXCEPT ![e] = r]
        BY <1>4 DEF ResolveFails, Look, StartLoad, Versioned
    <2> QED
        BY <2>1, <2>2, <1>2, OthersLeave
<1>5. ASSUME NEW e \in Calls, LoadSucceeds(e)
      PROVE  ~ At(d, "given")' /\ \A k \in Keys : handle'[k] = c => handle[k] = c
    <2>1. At(e, "loading") /\ pending[call[e].key] = e /\ handle' = [handle EXCEPT ![call[e].key] = e]
        BY <1>5 DEF LoadSucceeds, Registered
    <2>2. e # c
        BY <2>1, <1>1
    <2>3. call'[d] = call[d]
        <3>1. d # e /\ ~ (At(d, "waiting") /\ call[d].on = e)
            BY <2>1, <2>2, <1>1 DEF At
        <3>2. PICK own, others : Settle(e, own, others)
            BY <1>5 DEF LoadSucceeds
        <3> QED
            BY <3>1, <3>2 DEF Settle
    <2>4. \A k \in Keys : handle'[k] = c => handle[k] = c
        BY <2>1, <2>2 DEF TypeOK
    <2> QED
        BY <2>3, <2>4, <1>2 DEF At
<1>6. ASSUME NEW e \in Calls, LoadRefused(e) \/ LoadFails(e)
      PROVE  ~ At(d, "given")' /\ handle' = handle
    <2>1. At(e, "loading") /\ handle' = handle
        BY <1>6 DEF LoadRefused, LoadFails
    <2>2. PICK own, others :
            /\ Settle(e, own, others)
            /\ own.pc # "given"
            /\ others.pc # "given" \/ (others = Shared(e) /\ pending' = pending)
        <3>1. Rest("failed").pc = "failed" /\ Rest("refused").pc = "refused"
            BY DEF Rest
        <3>2. CASE LoadRefused(e)
            BY <3>1, <3>2 DEF LoadRefused, Registered
        <3>3. CASE LoadFails(e)
            BY <3>1, <3>3 DEF LoadFails
        <3> QED
            BY <3>2, <3>3, <1>6
    <2>3. CASE e = c
        <3>1. Shared(c).pc # "given" \/ pending' # pending
            BY <1>1, <2>1 DEF Shared, Rest
        <3>2. others.pc # "given"
            BY <2>2, <2>3, <3>1
        <3>3. call'[d] \in {own, others}
            BY <2>2, <2>3 DEF Settle
        <3> QED
            BY <2>1, <2>2, <3>2, <3>3 DEF At
    <2>4. CASE e # c
        <3>1. call'[d] = call[d] \/ d = e
            BY <2>2, <2>4, <1>1 DEF Settle, At
        <3>2. d # e
            BY <2>1, <2>4 DEF At
        <3> QED
            BY <2>1, <3>1, <3>2, <1>2 DEF At
    <2> QED
        BY <2>3, <2>4
<1>7. ASSUME NEW e \in Calls, PluginLoads(e)
      PROVE  ~ At(d, "given")' /\ handle' = handle
    <2>1. PICK a : call' = [call EXCEPT ![e].reply = a]
        BY <1>7 DEF PluginLoads
    <2>2. At(e, "loading") /\ handle' = handle
        BY <1>7 DEF PluginLoads
    <2>3. call'[d].pc = call[d].pc
        BY <2>1 DEF TypeOK, CallRecords
    <2> QED
        BY <2>2, <2>3, <1>2 DEF At
<1>8. CASE \E i \in Conns : Drop(i)
    <2>1. call' = call /\ \A k \in Keys : handle'[k] = handle[k] \/ handle'[k] = None
        BY <1>8 DEF Drop
    <2> QED
        BY <2>1, <1>2, NoneAssumption DEF At
<1>9. CASE \E k \in Keys : PluginCloses(k)
    BY <1>9, <1>2 DEF PluginCloses, At
<1> QED
    BY <1>3, <1>4, <1>5, <1>6, <1>7, <1>8, <1>9 DEF Next, Continue

(* Whatever drops and loads interleave, a load that a drop will close is   *)
(* never cached or returned to a caller.                                   *)
THEOREM EvictedHandlesAreRefused == Spec => EvictedNotUsed
<1> DEFINE A == \A c \in Calls, d \in Calls :
                    /\ c \in evicted
                    /\ \/ d = c
                       \/ At(d, "waiting") /\ call[d].on = c
                    => ~ At(d, "given")' /\ \A k \in Keys : handle'[k] = c => handle[k] = c
<1>1. HandleInv /\ [Next]_vars => [A]_vars
    BY EvictedStep
<1>2. EvictedNotUsed <=> [][A]_vars
    BY DEF EvictedNotUsed
<1> HIDE DEF A
<1> QED
    BY <1>1, <1>2, HandleInit, HandleStep, PTL DEF Spec

-----------------------------------------------------------------------------
(* A folder lies in one that exists, or in the root. *)
ParentsExist == \A f \in Alive : parent[f] \in Targets

(* Whatever is reached from the root is every folder there is. *)
Rooted == \A S \in SUBSET FolderPlaces : Root \in S /\ Closed(S) => Alive \subseteq S

(* The question stands until it is answered: no folder changes meanwhile. *)
Asking == Asked("folder") => dialog.id \in Alive /\ dialog.place = parent[dialog.id]

(* What holds of the folders alone. *)
FoldersHold ==
    /\ parent \in [Folders -> FolderPlaces \cup {Unborn, Gone}]
    /\ ParentsExist /\ Rooted /\ Asking

(* A connection whose record no connect has overtaken is as the user last   *)
(* put it, and so is the record that a connect has read.                    *)
AsPut(c) ==
    /\ c \in Known <=> put[c] \in Records
    /\ record[c] = Gone <=> put[c] = Gone
    /\ connecting[c] # NoDialog => record[c] # Unborn
    /\ c \in Known \ overtaken =>
           record[c] = put[c] /\ connecting[c] \in {NoDialog, record[c]}

(* What holds of the connections. *)
RecordsHold ==
    /\ record \in [Servers -> Records \cup {Unborn, Gone}]
    /\ put \in [Servers -> Records \cup {Unborn, Gone}]
    /\ connecting \in [Servers -> Records \cup {NoDialog}]
    /\ trial \in [Servers -> FolderPlaces \cup {NoDialog}]
    /\ Asked("form") \/ Asked("folder") => dialog.place \in FolderPlaces
    /\ saves \in 0..MaxSaves
    /\ \A c \in Servers : AsPut(c)

(* The inductive invariant. *)
TreeInvs == FoldersHold /\ RecordsHold

-----------------------------------------------------------------------------
(* The values that stand for no folder and no record are none. *)
LEMMA TreeConstants ==
    /\ Root \notin Folders /\ Unborn \notin Folders /\ Gone \notin Folders
    /\ Root # Unborn /\ Root # Gone /\ Unborn # Gone
    /\ NoDialog \notin Records /\ Unborn \notin Records /\ Gone \notin Records
    /\ NoDialog \notin FolderPlaces /\ Unborn \notin FolderPlaces /\ Gone \notin FolderPlaces
    /\ MaxSaves \in Nat
BY SavedAssumption

(* No folder is its own parent. *)
LEMMA ParentIsOther ==
    ASSUME FoldersHold, NEW f \in Alive
    PROVE  parent[f] # f
<1> SUFFICES ASSUME parent[f] = f PROVE FALSE
    OBVIOUS
<1>1. Root \in FolderPlaces \ {f} /\ Closed(FolderPlaces \ {f}) /\ FolderPlaces \ {f} \in SUBSET FolderPlaces
    <2>1. \A g \in Alive : parent[g] \in FolderPlaces \ {f} => g \in FolderPlaces \ {f}
        BY DEF Alive, FolderPlaces
    <2> QED BY <2>1, TreeConstants DEF Closed, FolderPlaces, Alive
<1> DEFINE S == FolderPlaces \ {f}
<1> HIDE DEF S
<1>2. Alive \subseteq S
    BY <1>1 DEF FoldersHold, Rooted, S
<1> QED BY <1>2 DEF S

(* A new folder is reached through the one it is made in, and nothing lies  *)
(* in it yet.                                                               *)
LEMMA FolderAdded ==
    ASSUME FoldersHold, NEW f \in Folders, NEW p \in FolderPlaces, AddFolder(f, p)
    PROVE  FoldersHold'
<1>1. /\ parent[f] = Unborn /\ p \in Targets /\ parent' = [parent EXCEPT ![f] = p]
      /\ dialog' = dialog /\ ~Asked("folder")
    BY DEF AddFolder, Quiet, Asked
<1>2. /\ parent' \in [Folders -> FolderPlaces \cup {Unborn, Gone}]
      /\ parent'[f] = p /\ \A g \in Folders \ {f} : parent'[g] = parent[g]
    BY <1>1 DEF FoldersHold
<1>3. Alive' = Alive \cup {f} /\ f \notin Alive
    BY <1>1, <1>2, TreeConstants DEF Alive, FolderPlaces, FoldersHold
<1>4. ParentsExist'
    BY <1>1, <1>2, <1>3 DEF ParentsExist, Targets, FoldersHold, Alive
<1>5. ASSUME NEW S \in SUBSET FolderPlaces, Root \in S, Closed(S)' PROVE Alive' \subseteq S
    <2>1. Closed(S)
        BY <1>2, <1>3, <1>5 DEF Closed, Alive
    <2>2. Alive \subseteq S
        BY <1>5, <2>1 DEF FoldersHold, Rooted
    <2>3. f \in S
        BY <1>1, <1>2, <1>3, <1>5, <2>2 DEF Closed, Targets
    <2> QED BY <1>3, <2>2, <2>3
<1>6. Asking'
    BY <1>1 DEF Asking, Asked, Quiet
<1> QED BY <1>2, <1>4, <1>5, <1>6 DEF FoldersHold, Rooted

(* A folder that is moved is reached through its new parent: nothing of the *)
(* path from the root to that parent lies inside the folder, or the move    *)
(* would have been refused.                                                 *)
LEMMA FolderMoved ==
    ASSUME FoldersHold, NEW f \in Folders, NEW p \in FolderPlaces, MoveFolder(f, p)
    PROVE  FoldersHold'
<1>1. /\ f \in Alive /\ p \in Targets /\ parent' = [parent EXCEPT ![f] = p]
      /\ p # Root => p \notin Below(f)
      /\ dialog' = dialog /\ ~Asked("folder")
    BY DEF MoveFolder, Quiet, Asked, WouldCreateCycle, DescendantFolderIds
<1>2. /\ parent' \in [Folders -> FolderPlaces \cup {Unborn, Gone}]
      /\ parent'[f] = p /\ \A g \in Folders \ {f} : parent'[g] = parent[g]
    BY <1>1 DEF FoldersHold
<1>3. Alive' = Alive
    BY <1>1, <1>2, TreeConstants DEF Alive, FolderPlaces, FoldersHold
<1>4. ParentsExist'
    BY <1>1, <1>2, <1>3 DEF ParentsExist, Targets, FoldersHold, Alive
<1>5. ASSUME NEW S \in SUBSET FolderPlaces, Root \in S, Closed(S)' PROVE Alive' \subseteq S
    <2>1. p \in S
        <3>1. CASE p = Root
            BY <1>5, <3>1
        <3>2. CASE p # Root
            <4>1. p \in Alive /\ p \notin Below(f)
                BY <1>1, <3>2 DEF Targets
            <4>2. PICK T \in SUBSET FolderPlaces : f \in T /\ Closed(T) /\ p \notin T
                BY <4>1 DEF Below, Targets
            <4> DEFINE U == S \cup T
            <4>3. \A g \in Alive : parent[g] \in U => g \in U
                <5> SUFFICES ASSUME NEW g \in Alive, parent[g] \in U, g # f PROVE g \in U
                    BY <4>2
                <5>1. parent'[g] = parent[g] /\ g \in Alive'
                    BY <1>2, <1>3 DEF Alive
                <5> QED BY <1>5, <4>2, <5>1 DEF Closed
            <4>4. U \in SUBSET FolderPlaces /\ Root \in U /\ Closed(U)
                BY <1>5, <4>3 DEF Closed
            <4> HIDE DEF U
            <4>5. Alive \subseteq U
                BY <4>4 DEF FoldersHold, Rooted
            <4> QED BY <4>1, <4>2, <4>5 DEF U
        <3> QED BY <3>1, <3>2
    <2>2. f \in S
        BY <1>1, <1>2, <1>3, <1>5, <2>1 DEF Closed
    <2>3. Closed(S)
        BY <1>2, <1>3, <1>5, <2>2 DEF Closed, Alive
    <2> QED BY <1>3, <1>5, <2>3 DEF FoldersHold, Rooted
<1>6. Asking'
    BY <1>1 DEF Asking, Asked, Quiet
<1> QED BY <1>2, <1>4, <1>5, <1>6 DEF FoldersHold, Rooted

(* What lay in a deleted folder is reached through its parent. *)
LEMMA FolderRemoved == ASSUME FoldersHold, RemoveFolder PROVE FoldersHold'
<1> DEFINE f == dialog.id
           p == dialog.place
<1>1. /\ f \in Alive /\ p = parent[f] /\ dialog' = NoDialog
      /\ parent' = [g \in Folders |-> IF g = f THEN Gone ELSE IF parent[g] = f THEN p ELSE parent[g]]
    BY DEF RemoveFolder, FoldersHold, Asking
<1> HIDE DEF f, p
<1>2. p \in Targets /\ p \in FolderPlaces /\ p # f /\ f \in Folders
    BY <1>1, ParentIsOther DEF FoldersHold, ParentsExist, Targets, FolderPlaces, Alive
<1>3. /\ parent' \in [Folders -> FolderPlaces \cup {Unborn, Gone}] /\ parent'[f] = Gone
      /\ \A g \in Folders \ {f} : parent'[g] = IF parent[g] = f THEN p ELSE parent[g]
    BY <1>1, <1>2 DEF FoldersHold
<1>4. Alive' = Alive \ {f}
    <2>1. \A g \in Folders \ {f} : g \in Alive' <=> g \in Alive
        BY <1>1, <1>2, <1>3, TreeConstants DEF Alive, FolderPlaces
    <2>2. f \notin Alive'
        BY <1>3 DEF Alive
    <2> QED BY <2>1, <2>2 DEF Alive
<1>5. ParentsExist'
    BY <1>2, <1>3, <1>4 DEF ParentsExist, Targets, FoldersHold, Alive
<1>6. ASSUME NEW S \in SUBSET FolderPlaces, Root \in S, Closed(S)' PROVE Alive' \subseteq S
    <2> DEFINE T == (S \ {f}) \cup {g \in {f} : p \in S}
    <2>1. \A g \in Alive : parent[g] \in T => g \in T
        <3> SUFFICES ASSUME NEW g \in Alive, parent[g] \in T PROVE g \in T
            OBVIOUS
        <3>1. CASE g = f
            BY <1>1, <1>2, <3>1
        <3>2. CASE g # f
            <4>1. g \in Alive' /\ parent'[g] \in S
                BY <1>3, <1>4, <3>2 DEF Alive
            <4>2. g \in S
                BY <1>6, <4>1 DEF Closed
            <4> QED BY <3>2, <4>2
        <3> QED BY <3>1, <3>2
    <2>2. Root \in T /\ T \in SUBSET FolderPlaces /\ Closed(T)
        BY <1>2, <1>6, <2>1, TreeConstants DEF Closed, FolderPlaces
    <2> HIDE DEF T
    <2>3. Alive \subseteq T
        BY <2>2 DEF FoldersHold, Rooted
    <2> QED BY <1>4, <2>3 DEF T
<1>7. Asking'
    BY <1>1 DEF Asking, Asked, Quiet
<1> QED BY <1>3, <1>5, <1>6, <1>7 DEF FoldersHold, Rooted

(* Steps that leave the folders alone. *)
LEMMA FoldersKept ==
    ASSUME FoldersHold, parent' = parent,
           \/ dialog' = dialog \/ dialog' = NoDialog
           \/ \E f \in Alive : dialog' = Open("folder", f, parent[f])
           \/ \E c, p : dialog' = Open("form", c, p) \/ dialog' = Open("connection", c, p)
    PROVE  FoldersHold'
<1>1. Alive' = Alive /\ \A S : Closed(S)' <=> Closed(S)
    BY DEF Alive, Closed
<1>2. Asking'
    <2>1. \A kind, id, place : /\ Open(kind, id, place).kind = kind /\ Open(kind, id, place).id = id
                               /\ Open(kind, id, place).place = place
        BY DEF Open
    <2>2. CASE dialog' = dialog
        BY <1>1, <2>2 DEF FoldersHold, Asking, Asked, Quiet
    <2>3. CASE dialog' = NoDialog
        BY <2>3 DEF Asking, Asked, Quiet
    <2>4. ASSUME NEW f \in Alive, dialog' = Open("folder", f, parent[f]) PROVE Asking'
        BY <1>1, <2>1, <2>4 DEF Asking
    <2>5. ASSUME NEW c, NEW p, dialog' = Open("form", c, p) \/ dialog' = Open("connection", c, p)
          PROVE  Asking'
        BY <2>1, <2>5 DEF Asking, Asked
    <2> QED BY <2>2, <2>3, <2>4, <2>5
<1> QED BY <1>1, <1>2 DEF FoldersHold, ParentsExist, Rooted, Targets

-----------------------------------------------------------------------------
(* A record is known by its two fields. *)
LEMMA RecordIsRecord ==
    ASSUME NEW p \in FolderPlaces, NEW e \in 0..MaxSaves
    PROVE  Record(p, e) \in Records /\ Record(p, e).folder = p /\ Record(p, e).edit = e
BY DEF Record, Records

(* What the dialog was opened for stays a place. *)
PlaceIsPlace == Asked("form") \/ Asked("folder") => dialog.place \in FolderPlaces

(* A step that concerns one connection. *)
LEMMA OneRecord ==
    ASSUME RecordsHold, NEW c \in Servers, PlaceIsPlace', saves' \in 0..MaxSaves,
           NEW r \in Records \cup {Unborn, Gone}, NEW q \in Records \cup {Unborn, Gone},
           NEW n \in Records \cup {NoDialog},
           record' = record \/ record' = [record EXCEPT ![c] = r], record'[c] = r,
           put' = put \/ put' = [put EXCEPT ![c] = q], put'[c] = q,
           connecting' = connecting \/ connecting' = [connecting EXCEPT ![c] = n], connecting'[c] = n,
           trial' = trial \/ trial' = [trial EXCEPT ![c] = NoDialog],
           overtaken' = overtaken \/ overtaken' = overtaken \cup {c},
           (r \in Records <=> q \in Records) /\ (r = Gone <=> q = Gone),
           n # NoDialog => r # Unborn,
           r \in Records /\ c \notin overtaken' => r = q /\ n \in {NoDialog, r}
    PROVE  RecordsHold'
<1>1. /\ record' \in [Servers -> Records \cup {Unborn, Gone}]
      /\ \A d \in Servers \ {c} : record'[d] = record[d]
    BY DEF RecordsHold
<1>2. /\ put' \in [Servers -> Records \cup {Unborn, Gone}]
      /\ \A d \in Servers \ {c} : put'[d] = put[d]
    BY DEF RecordsHold
<1>3. /\ connecting' \in [Servers -> Records \cup {NoDialog}]
      /\ trial' \in [Servers -> FolderPlaces \cup {NoDialog}]
      /\ \A d \in Servers \ {c} : connecting'[d] = connecting[d]
    BY DEF RecordsHold
<1>4. AsPut(c)'
    BY DEF AsPut, Known
<1>5. \A d \in Servers \ {c} : AsPut(d)'
    BY <1>1, <1>2, <1>3 DEF AsPut, Known, RecordsHold
<1> QED BY <1>1, <1>2, <1>3, <1>4, <1>5 DEF RecordsHold, PlaceIsPlace

(* Steps that leave the connections alone. *)
LEMMA RecordsKept ==
    ASSUME RecordsHold, UNCHANGED <<record, put, connecting, saves, overtaken>>, PlaceIsPlace',
           trial' \in [Servers -> FolderPlaces \cup {NoDialog}]
    PROVE  RecordsHold'
BY DEF RecordsHold, AsPut, Known, PlaceIsPlace

(* The connections of a deleted folder go to its parent, in the record and  *)
(* in what is expected of it.                                               *)
LEMMA RecordsReparented == ASSUME FoldersHold, RecordsHold, RemoveFolder PROVE RecordsHold'
<1> DEFINE f == dialog.id
           p == dialog.place
           inside == {c \in Known : record[c].folder = f}
<1>1. /\ record' = Reparented(record, f, p) /\ put' = Reparented(put, f, p)
      /\ overtaken' = overtaken \cup {c \in inside : connecting[c] # NoDialog}
      /\ dialog' = NoDialog /\ UNCHANGED <<trial, connecting, saves>>
      /\ p \in FolderPlaces
    BY DEF RemoveFolder, ChangedWhile, RecordsHold
<1> HIDE DEF f, p
<1>2. ASSUME NEW rs \in [Servers -> Records \cup {Unborn, Gone}]
      PROVE  /\ Reparented(rs, f, p) \in [Servers -> Records \cup {Unborn, Gone}]
             /\ \A c \in Servers :
                    /\ Reparented(rs, f, p)[c] \in Records <=> rs[c] \in Records
                    /\ Reparented(rs, f, p)[c] = Gone <=> rs[c] = Gone
                    /\ Reparented(rs, f, p)[c] = Unborn <=> rs[c] = Unborn
                    /\ rs[c] \in Records /\ rs[c].folder # f => Reparented(rs, f, p)[c] = rs[c]
    <2>1. \A c \in Servers : rs[c] \in Records => Record(p, rs[c].edit) \in Records
        BY <1>1, RecordIsRecord DEF Records
    <2> QED BY <1>2, <2>1, TreeConstants DEF Reparented
<1>3. \A c \in Servers : record[c] = put[c] => record'[c] = put'[c]
    BY <1>1 DEF Reparented
<1>4. \A c \in Servers : c \in Known' <=> c \in Known
    BY <1>1, <1>2 DEF Known, RecordsHold
<1>5. ASSUME NEW c \in Servers PROVE AsPut(c)'
    <2>1. AsPut(c)
        BY DEF RecordsHold
    <2>2. /\ c \in Known' <=> put'[c] \in Records
          /\ record'[c] = Gone <=> put'[c] = Gone
          /\ connecting'[c] # NoDialog => record'[c] # Unborn
        BY <1>1, <1>2, <1>4, <2>1 DEF AsPut, RecordsHold
    <2>3. ASSUME c \in Known' \ overtaken'
          PROVE  record'[c] = put'[c] /\ connecting'[c] \in {NoDialog, record'[c]}
        <3>1. c \in Known \ overtaken /\ record'[c] = put'[c] /\ record[c] \in Records
            BY <1>1, <1>3, <1>4, <2>1, <2>3 DEF AsPut, Known
        <3>2. CASE c \in inside
            BY <1>1, <2>3, <3>1, <3>2
        <3>3. CASE c \notin inside
            BY <1>1, <1>2, <2>1, <3>1, <3>3 DEF AsPut, RecordsHold
        <3> QED BY <3>1, <3>2, <3>3
    <2> QED BY <2>2, <2>3 DEF AsPut
<1> QED BY <1>1, <1>2, <1>5 DEF RecordsHold, Asked, Quiet

(* Nothing exists at the start. *)
LEMMA TreeStart == SavedInit => TreeInvs
<1> SUFFICES ASSUME SavedInit PROVE TreeInvs
    OBVIOUS
<1>1. Alive = {} /\ Known = {}
    BY TreeConstants DEF SavedInit, Alive, Known
<1>2. ~Asked("folder") /\ ~Asked("form") /\ 0 \in 0..MaxSaves
    BY TreeConstants DEF SavedInit, Asked, Quiet
<1>3. FoldersHold
    BY <1>1, <1>2 DEF SavedInit, FoldersHold, ParentsExist, Rooted, Asking
<1>4. RecordsHold
    BY <1>1, <1>2, TreeConstants DEF SavedInit, RecordsHold, AsPut
<1> QED BY <1>3, <1>4 DEF TreeInvs

(* Every step keeps the tree and the records. *)
LEMMA TreeStep == TreeInvs /\ [SavedNext]_savedVars => TreeInvs'
<1> SUFFICES ASSUME TreeInvs, [SavedNext]_savedVars PROVE TreeInvs'
    OBVIOUS
<1> USE DEF TreeInvs
<1>1. /\ PlaceIsPlace
      /\ \A c \in Servers : /\ record[c] \in Records \cup {Unborn, Gone}
                            /\ put[c] \in Records \cup {Unborn, Gone}
                            /\ connecting[c] \in Records \cup {NoDialog} /\ trial[c] \in FolderPlaces \cup {NoDialog}
                            /\ AsPut(c)
      /\ saves \in 0..MaxSaves
    BY DEF RecordsHold, PlaceIsPlace
<1>2. \A r \in Records : r.folder \in FolderPlaces /\ r.edit \in 0..MaxSaves
    BY DEF Records
<1>3. ASSUME dialog' \in {dialog, NoDialog} PROVE PlaceIsPlace'
    BY <1>1, <1>3 DEF PlaceIsPlace, Asked, Quiet
<1>4. \A c \in Servers : c \in Known <=> record[c] \in Records
    BY DEF Known
<1>5. ASSUME NEW f \in Folders, NEW p \in FolderPlaces, AddFolder(f, p) PROVE TreeInvs'
    BY <1>3, <1>5, FolderAdded, RecordsKept DEF AddFolder, Unchanged, RecordsHold
<1>6. ASSUME NEW f \in Folders, NEW p \in FolderPlaces, MoveFolder(f, p) PROVE TreeInvs'
    BY <1>3, <1>6, FolderMoved, RecordsKept DEF MoveFolder, Unchanged, RecordsHold
<1>7. ASSUME NEW f \in Folders, AskDeleteFolder(f) PROVE TreeInvs'
    <2>1. /\ f \in Alive /\ dialog' = Open("folder", f, parent[f])
          /\ UNCHANGED <<parent, record, leaving, trial, connecting, overtaken, put, saves>>
        BY <1>7 DEF AskDeleteFolder, Unchanged
    <2>2. parent[f] \in FolderPlaces
        BY <2>1 DEF FoldersHold, ParentsExist, Targets, FolderPlaces, Alive
    <2>3. PlaceIsPlace'
        BY <2>1, <2>2 DEF PlaceIsPlace, Open
    <2> QED BY <2>1, <2>3, FoldersKept, RecordsKept DEF RecordsHold
<1>8. CASE RemoveFolder
    BY <1>8, FolderRemoved, RecordsReparented
<1>9. CASE CloseDialog
    BY <1>3, <1>9, FoldersKept, RecordsKept DEF CloseDialog, Unchanged, RecordsHold
<1>10. CASE Submit
    <2>1. PICK p \in Targets \cup {dialog.place} : trial' = [trial EXCEPT ![dialog.id] = p]
        BY <1>10 DEF Submit
    <2>2. /\ UNCHANGED <<parent, record, dialog, leaving, connecting, overtaken, put, saves>>
          /\ Asked("form")
        BY <1>10 DEF Submit, Unchanged
    <2>3. p \in FolderPlaces
        BY <1>1, <2>1, <2>2 DEF PlaceIsPlace, Targets, FolderPlaces, Alive
    <2>4. trial' \in [Servers -> FolderPlaces \cup {NoDialog}]
        BY <2>1, <2>3 DEF RecordsHold
    <2> QED BY <1>3, <2>2, <2>4, FoldersKept, RecordsKept
<1>11. CASE RemoveConnection
    BY <1>3, <1>11, FoldersKept, RecordsKept DEF RemoveConnection, Unchanged, RecordsHold
<1>12. ASSUME NEW c \in Servers, NEW p \in FolderPlaces, MoveConnectionToFolder(c, p) PROVE TreeInvs'
    <2>1. /\ c \in Known
          /\ record' = [record EXCEPT ![c] = Record(p, record[c].edit)]
          /\ put' = [put EXCEPT ![c] = Record(p, put[c].edit)]
          /\ overtaken' = overtaken \cup {d \in {c} : connecting[d] # NoDialog}
          /\ UNCHANGED <<parent, dialog, leaving, trial, connecting, saves>>
        BY <1>12 DEF MoveConnectionToFolder, ChangedWhile
    <2> DEFINE r == Record(p, record[c].edit)
               q == Record(p, put[c].edit)
    <2>2. r \in Records /\ q \in Records
        BY <1>1, <1>2, <1>4, <2>1, RecordIsRecord DEF AsPut
    <2>3. c \notin overtaken' => r = q /\ connecting[c] = NoDialog
        BY <1>1, <2>1 DEF AsPut
    <2>4. record' = [record EXCEPT ![c] = r] /\ put' = [put EXCEPT ![c] = q]
        BY <2>1
    <2> HIDE DEF r, q
    <2>5. /\ record'[c] = r /\ put'[c] = q /\ PlaceIsPlace'
          /\ overtaken' = overtaken \/ overtaken' = overtaken \cup {c}
          /\ r # Gone /\ q # Gone /\ r # Unborn /\ saves' \in 0..MaxSaves
        BY <1>1, <1>3, <2>1, <2>2, <2>4, TreeConstants DEF RecordsHold
    <2>6. RecordsHold'
        BY <1>1, <2>1, <2>2, <2>3, <2>4, <2>5, OneRecord
    <2> QED BY <2>1, <2>6, FoldersKept
<1>13. ASSUME NEW c \in Servers, OpenForm(c) PROVE TreeInvs'
    <2>1. PICK p \in FolderPlaces : dialog' = Open("form", c, p)
        BY <1>1, <1>2, <1>4, <1>13 DEF OpenForm, Targets, FolderPlaces, Alive
    <2>2. UNCHANGED <<parent, record, leaving, trial, connecting, overtaken, put, saves>>
        BY <1>13 DEF OpenForm, Unchanged
    <2>3. PlaceIsPlace'
        BY <2>1 DEF PlaceIsPlace, Open
    <2> QED BY <2>1, <2>2, <2>3, FoldersKept, RecordsKept DEF RecordsHold
<1>14. ASSUME NEW c \in Servers, TestFails(c) PROVE TreeInvs'
    <2>1. trial' \in [Servers -> FolderPlaces \cup {NoDialog}]
        BY <1>14 DEF TestFails, RecordsHold
    <2> QED BY <1>3, <1>14, <2>1, FoldersKept, RecordsKept DEF TestFails, Unchanged
<1>15. ASSUME NEW c \in Servers, SaveForm(c) PROVE TreeInvs'
    <2> DEFINE new == Record(trial[c], saves + 1)
    <2>1. /\ record' = [record EXCEPT ![c] = IF record[c] = Gone THEN Gone ELSE new]
          /\ put' = [put EXCEPT ![c] = IF put[c] = Gone THEN Gone ELSE new]
          /\ overtaken' = overtaken \cup {d \in {c} : connecting[d] # NoDialog}
          /\ saves' = saves + 1 /\ trial' = [trial EXCEPT ![c] = NoDialog]
          /\ dialog' \in {dialog, NoDialog} /\ UNCHANGED <<parent, leaving, connecting>>
          /\ trial[c] # NoDialog /\ saves < MaxSaves
        BY <1>15 DEF SaveForm, ChangedWhile
    <2>2. new \in Records /\ saves' \in 0..MaxSaves
        BY <1>1, <2>1, RecordIsRecord, TreeConstants
    <2> HIDE DEF new
    <2> DEFINE r == IF record[c] = Gone THEN Gone ELSE new
    <2>3. r = (IF put[c] = Gone THEN Gone ELSE new) /\ r \in Records \cup {Unborn, Gone}
        BY <1>1, <2>2 DEF AsPut
    <2>4. r # Unborn
        BY <2>2, TreeConstants
    <2>5. /\ record' = [record EXCEPT ![c] = r] /\ put' = [put EXCEPT ![c] = r]
          /\ record'[c] = r /\ put'[c] = r /\ PlaceIsPlace'
          /\ overtaken' = overtaken \/ overtaken' = overtaken \cup {c}
          /\ c \notin overtaken' => connecting[c] = NoDialog
        BY <1>1, <1>3, <2>1, <2>3 DEF RecordsHold
    <2> HIDE DEF r
    <2>6. RecordsHold'
        BY <1>1, <2>1, <2>2, <2>3, <2>4, <2>5, OneRecord
    <2> QED BY <2>1, <2>6, FoldersKept
<1>16. ASSUME NEW c \in Servers, ConnectWithProfile(c) PROVE TreeInvs'
    <2> DEFINE r == Record(record[c].folder, saves + 1)
               q == Record(put[c].folder, saves + 1)
    <2>1. /\ c \in Known /\ saves < MaxSaves
          /\ connecting' = [connecting EXCEPT ![c] = record[c]]
          /\ record' = [record EXCEPT ![c] = r] /\ put' = [put EXCEPT ![c] = q]
          /\ overtaken' = overtaken \cup {c} /\ saves' = saves + 1
          /\ UNCHANGED <<parent, dialog, leaving, trial>>
        BY <1>16 DEF ConnectWithProfile
    <2>2. /\ r \in Records /\ q \in Records /\ saves' \in 0..MaxSaves /\ record[c] \in Records
        BY <1>1, <1>2, <1>4, <2>1, RecordIsRecord, TreeConstants DEF AsPut
    <2> HIDE DEF r, q
    <2>3. /\ r # Gone /\ q # Gone /\ r # Unborn /\ PlaceIsPlace'
          /\ record'[c] = r /\ put'[c] = q /\ connecting'[c] = record[c]
        BY <1>3, <2>1, <2>2, TreeConstants DEF RecordsHold
    <2>4. RecordsHold'
        BY <1>1, <2>1, <2>2, <2>3, OneRecord
    <2> QED BY <2>1, <2>4, FoldersKept
<1>17. ASSUME NEW c \in Servers, AskDeleteConnection(c) PROVE TreeInvs'
    <2>1. /\ dialog' = Open("connection", c, Root)
          /\ UNCHANGED <<parent, record, leaving, trial, connecting, overtaken, put, saves>>
        BY <1>17 DEF AskDeleteConnection, Unchanged
    <2>2. PlaceIsPlace'
        BY <2>1 DEF PlaceIsPlace, Open, Asked
    <2> QED BY <2>1, <2>2, FoldersKept, RecordsKept DEF RecordsHold
<1>18. ASSUME NEW c \in Servers, ConnectionRemoved(c) PROVE TreeInvs'
    <2>1. /\ record' = [record EXCEPT ![c] = Gone] /\ put' = [put EXCEPT ![c] = Gone]
          /\ UNCHANGED <<parent, dialog, trial, connecting, overtaken, saves>>
        BY <1>18 DEF ConnectionRemoved
    <2>3. record'[c] = Gone /\ put'[c] = Gone /\ PlaceIsPlace' /\ Gone # Unborn /\ Gone \notin Records
        BY <1>3, <2>1, TreeConstants DEF RecordsHold
    <2>2. RecordsHold'
        BY <1>1, <2>1, <2>3, OneRecord
    <2> QED BY <2>1, <2>2, FoldersKept
<1>19. ASSUME NEW c \in Servers, ConnectToDatabase(c) PROVE TreeInvs'
    <2>1. /\ c \in Known /\ connecting' = [connecting EXCEPT ![c] = record[c]]
          /\ UNCHANGED <<parent, record, dialog, leaving, trial, overtaken, put, saves>>
        BY <1>19 DEF ConnectToDatabase, Unchanged
    <2>2. /\ record[c] \in Records /\ record[c] # Unborn /\ connecting'[c] = record[c] /\ PlaceIsPlace'
          /\ put[c] \in Records /\ (record[c] = Gone <=> put[c] = Gone)
          /\ c \notin overtaken => record[c] = put[c]
        BY <1>1, <1>3, <1>4, <2>1, TreeConstants DEF AsPut, RecordsHold
    <2>3. RecordsHold'
        BY <1>1, <2>1, <2>2, OneRecord
    <2> QED BY <2>1, <2>3, FoldersKept
<1>20. ASSUME NEW c \in Servers, ServerAnswered(c) PROVE TreeInvs'
    <2> DEFINE r == IF record[c] = Gone THEN Gone ELSE connecting[c]
    <2>1. /\ connecting[c] # NoDialog
          /\ record' = [record EXCEPT ![c] = r] /\ connecting' = [connecting EXCEPT ![c] = NoDialog]
          /\ UNCHANGED <<parent, dialog, leaving, trial, overtaken, put, saves>>
        BY <1>20 DEF ServerAnswered, Unchanged
    <2>2. /\ r \in Records \cup {Gone} /\ r # Unborn
          /\ r = Gone <=> record[c] = Gone
        BY <1>1, <2>1, TreeConstants
    <2>3. /\ record[c] # Unborn
          /\ r \in Records <=> put[c] \in Records
          /\ r = Gone <=> put[c] = Gone
          /\ r \in Records /\ c \notin overtaken => r = put[c]
        BY <1>1, <1>4, <2>1, <2>2, TreeConstants DEF AsPut
    <2>5. PlaceIsPlace' /\ record'[c] = r /\ connecting'[c] = NoDialog
        BY <1>3, <2>1 DEF RecordsHold
    <2> HIDE DEF r
    <2>4. RecordsHold'
        BY <1>1, <2>1, <2>2, <2>3, <2>5, OneRecord
    <2> QED BY <2>1, <2>4, FoldersKept
<1>21. ASSUME NEW c \in Servers, ServerFails(c) PROVE TreeInvs'
    <2>1. /\ connecting' = [connecting EXCEPT ![c] = NoDialog]
          /\ UNCHANGED <<parent, record, dialog, leaving, trial, overtaken, put, saves>>
        BY <1>21 DEF ServerFails, Unchanged
    <2>3. /\ connecting'[c] = NoDialog /\ PlaceIsPlace'
          /\ record[c] \in Records <=> put[c] \in Records
          /\ record[c] = Gone <=> put[c] = Gone
          /\ record[c] \in Records /\ c \notin overtaken => record[c] = put[c]
        BY <1>1, <1>3, <1>4, <2>1 DEF AsPut, RecordsHold
    <2>2. RecordsHold'
        BY <1>1, <2>1, <2>3, OneRecord
    <2> QED BY <2>1, <2>2, FoldersKept
<1>22. CASE UNCHANGED savedVars
    BY <1>3, <1>22, FoldersKept, RecordsKept DEF savedVars, RecordsHold
<1> QED
    BY <1>5, <1>6, <1>7, <1>8, <1>9, <1>10, <1>11, <1>12, <1>13, <1>14, <1>15, <1>16, <1>17,
       <1>18, <1>19, <1>20, <1>21, <1>22 DEF SavedNext

(* Whatever folders are made, moved and deleted, and whatever connections   *)
(* are moved, edited, tested, connected and deleted, none vanishes from the *)
(* tree, and each connection is where the user last put it with his last    *)
(* edit, unless a connect that was under way has put its old record back    *)
(* (folderTree.ts, ConnectionContext.tsx).                                  *)
THEOREM TreeIsDrawn == SavedSpec => []DrawnWhereLastPut
<1>1. ASSUME TreeInvs PROVE DrawnWhereLastPut
    <2>1. Below(Root) = Targets
        BY <1>1, TreeConstants DEF TreeInvs, FoldersHold, Rooted, Below, Targets
    <2>2. DrawnFolders = Alive
        BY <2>1, TreeConstants DEF DrawnFolders, Targets, Alive
    <2>3. \A p : Existing(p) \in Targets
        BY DEF Existing, Targets
    <2>4. \A c : DrawnIn(c) = {Existing(record[c].folder)}
        BY <2>1, <2>3 DEF DrawnIn
    <2>5. \A c \in Known \ overtaken : record[c] = put[c]
        BY <1>1 DEF TreeInvs, RecordsHold, AsPut, Known
    <2> QED BY <2>2, <2>4, <2>5 DEF DrawnWhereLastPut
<1> QED BY <1>1, TreeStart, TreeStep, PTL DEF SavedSpec
=============================================================================
