--------------------------- MODULE SqlPluginProofs ---------------------------
(***************************************************************************)
(* Theorems of SqlPlugin and EditorTabs, for any sets of callers,          *)
(* connection strings, tabs, pools and connections: first the registry of  *)
(* pools, then the sessions of the editor's tabs, then what a tab sees of  *)
(* them.                                                                   *)
(***************************************************************************)
EXTENDS EditorTabs, TLAPS

(* What a call's locals hold at each await. *)
WithDb == {"load", "connecting", "loadInsert", "select", "selecting"} \cup Running \cup Cancelling
WithPool == {"loadInsert", "selecting", "acquiring", "cancelAcquire", "cancelSend"}
WithConn == {"pinging", "removeDead", "opening", "queued", "removeLost"} \cup Cancelling

SuspendedAt ==
    {r \in CallRecords :
        /\ r.pc \in WithDb => r.db \in Dbs
        /\ r.pc \in Running \cup Cancelling => r.tab \in Tabs
        /\ r.pc \in WithPool => r.pool # None
        /\ r.pool # None => r.pc \in WithPool \cup {"draining"}
        /\ r.conn # None <=> r.pc \in WithConn}

(* The locals of a call suspended at l. *)
Awaiting(l) == {r \in SuspendedAt : r.pc = l}

TypeInv == TypeOK /\ call \in [Calls -> SuspendedAt]

LEMMA BecomeType ==
    ASSUME TypeInv, NEW c \in Calls, NEW l, NEW r \in Awaiting(l), Become(c, r)
    PROVE  /\ call' \in [Calls -> SuspendedAt]
           /\ call' \in [Calls -> CallRecords]
           /\ call'[c] = r /\ call'[c].pc = l
           /\ \A d \in Calls : d # c => call'[d] = call[d]
<1>1. call \in [Calls -> SuspendedAt] /\ call' = [call EXCEPT ![c] = r]
  BY DEF TypeInv, Become
<1>2. call' \in [Calls -> SuspendedAt] /\ SuspendedAt \subseteq CallRecords
  BY <1>1 DEF Awaiting, SuspendedAt
<1>. QED
  BY <1>1, <1>2 DEF Awaiting

LEMMA QueueType ==
    ASSUME NEW q \in Seq(Calls), NEW c \in Calls
    PROVE  /\ Append(q, c) \in Seq(Calls)
           /\ q # <<>> => Tail(q) \in Seq(Calls)
           /\ q # <<>> => Append(Tail(q), c) \in Seq(Calls)
  OBVIOUS

LEMMA WaitingType ==
    ASSUME TypeInv, NEW c \in Calls
    PROVE  /\ Ask(c) => waiting' \in Seq(Calls)
           /\ MayRead(c) /\ Granted => waiting' \in Seq(Calls)
  BY QueueType DEF TypeInv, TypeOK, Ask, Granted, MayRead, AtFront

LEMMA LineType ==
    ASSUME TypeInv, NEW c \in Calls, NEW s \in Conns
    PROVE  /\ Join(c, s) => line' \in [Conns -> Seq(Calls)]
           /\ Holds(c, s) /\ line' = [line EXCEPT ![s] = Tail(@)] => line' \in [Conns -> Seq(Calls)]
           /\ Holds(c, s) /\ line' = [line EXCEPT ![s] = Append(Tail(@), c)] =>
                 line' \in [Conns -> Seq(Calls)]
<1>1. line \in [Conns -> Seq(Calls)] /\ line[s] \in Seq(Calls)
  BY DEF TypeInv, TypeOK
<1>2. \A q \in Seq(Calls) : [line EXCEPT ![s] = q] \in [Conns -> Seq(Calls)]
  BY <1>1
<1>. QED
  BY <1>1, <1>2, QueueType DEF Join, Holds

LEMMA FreshIdentities ==
    /\ (\E p \in Pools : FreePool(p)) => NewPool \in Pools /\ FreePool(NewPool)
    /\ (\E s \in Conns : FreeConn(s)) => NewConn \in Conns /\ FreeConn(NewConn)
  BY DEF NewPool, NewConn

LEMMA IdleType == Idle \in Awaiting("idle") /\ Idle \in SuspendedAt
  BY NoneAssumption DEF Idle, Awaiting, SuspendedAt, CallRecords, Labels, Running, Cancelling, WithDb, WithPool, WithConn

LEMMA IsSuspended ==
    ASSUME TypeInv, NEW c \in Calls
    PROVE  call[c] \in SuspendedAt /\ SuspendedAt \subseteq CallRecords
  BY DEF TypeInv, SuspendedAt

LEMMA TypeInit == Init => TypeInv
  BY IdleType DEF Init, TypeInv, TypeOK, SuspendedAt

(* Each assignment of an action to the locals of its call, from the await  *)
(* that the action resumes.                                                *)
LEMMA Resumed ==
    ASSUME NEW r \in SuspendedAt
    PROVE  /\ \A d \in Dbs : r.pc = "idle" => /\ [r EXCEPT !.pc = "load", !.db = d] \in Awaiting("load")
                                              /\ [r EXCEPT !.pc = "select", !.db = d] \in Awaiting("select")
           /\ \A d \in Dbs \cup {None} :
                 r.pc = "idle" => [r EXCEPT !.pc = "closeAsk", !.db = d] \in Awaiting("closeAsk")
           /\ r.pc = "load" => [r EXCEPT !.pc = "connecting"] \in Awaiting("connecting")
           /\ \A p \in Pools :
                 r.pc = "connecting" => [r EXCEPT !.pc = "loadInsert", !.pool = p] \in Awaiting("loadInsert")
           /\ r.pc = "closeAsk" => [r EXCEPT !.pc = "close"] \in Awaiting("close")
           /\ \A ds \in SUBSET Dbs :
                 r.pc = "close" => [r EXCEPT !.pc = "closing", !.dbs = ds] \in Awaiting("closing")
           /\ \A d \in Dbs, p \in Pools \cup {None} : r.pc = "closing" =>
                 [r EXCEPT !.pc = "draining", !.pool = p, !.dbs = @ \ {d}] \in Awaiting("draining")
           /\ r.pc = "draining" => [r EXCEPT !.pc = "closing", !.pool = None] \in Awaiting("closing")
           /\ \A p \in Pools :
                 /\ r.pc = "select" => [r EXCEPT !.pc = "selecting", !.pool = p] \in Awaiting("selecting")
                 /\ r.pc = "lookup" => [r EXCEPT !.pc = "acquiring", !.pool = p] \in Awaiting("acquiring")
                 /\ r.pc = "cancel" => [r EXCEPT !.pc = "cancelAcquire", !.pool = p] \in Awaiting("cancelAcquire")
           /\ r.pc = "cancelAcquire" => [r EXCEPT !.pc = "cancelSend"] \in Awaiting("cancelSend")
           /\ [r EXCEPT !.interrupted = TRUE] \in Awaiting(r.pc)
<1> USE NoneAssumption
    DEF Awaiting, SuspendedAt, CallRecords, Labels, Running, Cancelling, WithDb, WithPool, WithConn
<1>1. \A d \in Dbs : r.pc = "idle" => /\ [r EXCEPT !.pc = "load", !.db = d] \in Awaiting("load")
                                      /\ [r EXCEPT !.pc = "select", !.db = d] \in Awaiting("select")
  OBVIOUS
<1>2. \A d \in Dbs \cup {None} :
         r.pc = "idle" => [r EXCEPT !.pc = "closeAsk", !.db = d] \in Awaiting("closeAsk")
  OBVIOUS
<1>3. r.pc = "load" => [r EXCEPT !.pc = "connecting"] \in Awaiting("connecting")
  OBVIOUS
<1>4. \A p \in Pools :
         r.pc = "connecting" => [r EXCEPT !.pc = "loadInsert", !.pool = p] \in Awaiting("loadInsert")
  OBVIOUS
<1>5. r.pc = "closeAsk" => [r EXCEPT !.pc = "close"] \in Awaiting("close")
  OBVIOUS
<1>6. \A ds \in SUBSET Dbs :
         r.pc = "close" => [r EXCEPT !.pc = "closing", !.dbs = ds] \in Awaiting("closing")
  OBVIOUS
<1>7. \A d \in Dbs, p \in Pools \cup {None} : r.pc = "closing" =>
         [r EXCEPT !.pc = "draining", !.pool = p, !.dbs = @ \ {d}] \in Awaiting("draining")
  OBVIOUS
<1>8. r.pc = "draining" => [r EXCEPT !.pc = "closing", !.pool = None] \in Awaiting("closing")
  OBVIOUS
<1>9. \A p \in Pools :
         /\ r.pc = "select" => [r EXCEPT !.pc = "selecting", !.pool = p] \in Awaiting("selecting")
         /\ r.pc = "lookup" => [r EXCEPT !.pc = "acquiring", !.pool = p] \in Awaiting("acquiring")
         /\ r.pc = "cancel" => [r EXCEPT !.pc = "cancelAcquire", !.pool = p] \in Awaiting("cancelAcquire")
  OBVIOUS
<1>10. r.pc = "cancelAcquire" => [r EXCEPT !.pc = "cancelSend"] \in Awaiting("cancelSend")
  OBVIOUS
<1>11. [r EXCEPT !.interrupted = TRUE] \in Awaiting(r.pc)
  OBVIOUS
<1> HIDE DEF Awaiting
<1>. QED
  BY Zenon, <1>1, <1>2, <1>3, <1>4, <1>5, <1>6, <1>7, <1>8, <1>9, <1>10, <1>11

LEMMA RunResumed ==
    ASSUME NEW r \in SuspendedAt
    PROVE  /\ \A d \in Dbs, t \in Tabs : r.pc = "idle" =>
                 [r EXCEPT !.pc = "lookup", !.db = d, !.tab = t, !.conn = None] \in Awaiting("lookup")
           /\ \A d \in Dbs, t \in Tabs, s \in Conns : r.pc = "idle" =>
                 /\ [r EXCEPT !.pc = "pinging", !.db = d, !.tab = t, !.conn = s] \in Awaiting("pinging")
                 /\ [r EXCEPT !.pc = "queued", !.db = d, !.tab = t, !.conn = s] \in Awaiting("queued")
                 /\ [r EXCEPT !.pc = "cancel", !.db = d, !.tab = t, !.conn = s] \in Awaiting("cancel")
           /\ r.pc = "pinging" => /\ [r EXCEPT !.pc = "queued"] \in Awaiting("queued")
                                  /\ [r EXCEPT !.pc = "removeDead"] \in Awaiting("removeDead")
           /\ r.pc = "removeDead" =>
                 [r EXCEPT !.pc = "lookup", !.conn = None, !.reconnected = TRUE] \in Awaiting("lookup")
           /\ \A s \in Conns :
                 /\ r.pc = "acquiring" =>
                       [r EXCEPT !.pc = "opening", !.pool = None, !.conn = s] \in Awaiting("opening")
                 /\ r.pc = "opening" => [r EXCEPT !.pc = "queued", !.conn = s] \in Awaiting("queued")
           /\ r.pc = "queued" => [r EXCEPT !.pc = "removeLost"] \in Awaiting("removeLost")
<1> USE NoneAssumption
    DEF Awaiting, SuspendedAt, CallRecords, Labels, Running, Cancelling, WithDb, WithPool, WithConn
<1>1. \A d \in Dbs, t \in Tabs : r.pc = "idle" =>
         [r EXCEPT !.pc = "lookup", !.db = d, !.tab = t, !.conn = None] \in Awaiting("lookup")
  OBVIOUS
<1>6. ASSUME NEW d \in Dbs, NEW t \in Tabs, NEW s \in Conns, r.pc = "idle"
      PROVE  /\ [r EXCEPT !.pc = "pinging", !.db = d, !.tab = t, !.conn = s] \in Awaiting("pinging")
             /\ [r EXCEPT !.pc = "queued", !.db = d, !.tab = t, !.conn = s] \in Awaiting("queued")
             /\ [r EXCEPT !.pc = "cancel", !.db = d, !.tab = t, !.conn = s] \in Awaiting("cancel")
  BY <1>6
<1>2. r.pc = "pinging" => /\ [r EXCEPT !.pc = "queued"] \in Awaiting("queued")
                          /\ [r EXCEPT !.pc = "removeDead"] \in Awaiting("removeDead")
  OBVIOUS
<1>3. r.pc = "removeDead" =>
         [r EXCEPT !.pc = "lookup", !.conn = None, !.reconnected = TRUE] \in Awaiting("lookup")
  OBVIOUS
<1>4. \A s \in Conns :
         /\ r.pc = "acquiring" =>
               [r EXCEPT !.pc = "opening", !.pool = None, !.conn = s] \in Awaiting("opening")
         /\ r.pc = "opening" => [r EXCEPT !.pc = "queued", !.conn = s] \in Awaiting("queued")
  OBVIOUS
<1>5. r.pc = "queued" => [r EXCEPT !.pc = "removeLost"] \in Awaiting("removeLost")
  OBVIOUS
<1> HIDE DEF Awaiting
<1>. QED
  BY Zenon, <1>1, <1>2, <1>3, <1>4, <1>5, <1>6

LEMMA Locals ==
    ASSUME NEW r \in SuspendedAt
    PROVE  /\ r.pc \in {"load", "loadInsert", "select", "lookup", "cancel"} => r.db \in Dbs
           /\ r.pc \in Running \cup Cancelling => r.db \in Dbs /\ r.tab \in Tabs
           /\ r.pc \in {"pinging", "removeDead", "opening", "queued", "removeLost"} => r.conn \in Conns
           /\ r.pc \in {"cancel", "cancelAcquire", "cancelSend"} => r.conn \in Conns
           /\ r.pc \in {"loadInsert", "selecting", "acquiring", "cancelAcquire", "cancelSend"} => r.pool \in Pools
  BY DEF SuspendedAt, CallRecords, Running, Cancelling, WithDb, WithPool, WithConn

-----------------------------------------------------------------------------
(* One lemma per command: its actions keep the types. *)

LEMMA LoadType ==
    ASSUME TypeInv, NEW c \in Calls
    PROVE  /\ \A d \in Dbs : Load(c, d) => TypeInv'
           /\ LoadLook(c) \/ LoadConnect(c) \/ LoadInsert(c) => TypeInv'
<1> USE IsSuspended, Resumed, Locals, IdleType, BecomeType, WaitingType
    DEF At, Goto, Reply, TypeInv, TypeOK
<1>1. ASSUME NEW d \in Dbs, Load(c, d) PROVE TypeInv'
  BY Zenon, <1>1 DEF Load
<1>2. ASSUME LoadLook(c) PROVE TypeInv'
  BY Zenon, <1>2 DEF LoadLook
<1>3. ASSUME LoadConnect(c) PROVE TypeInv'
  BY Zenon, <1>3, FreshIdentities DEF LoadConnect
<1>4. ASSUME LoadInsert(c) PROVE TypeInv'
  BY Zenon, <1>4 DEF LoadInsert, MayWrite
<1>. QED
  BY Zenon, <1>1, <1>2, <1>3, <1>4

LEMMA CloseType ==
    ASSUME TypeInv, NEW c \in Calls
    PROVE  /\ \A d \in Dbs \cup {None} : Close(c, d) => TypeInv'
           /\ CloseAsk(c) \/ CloseBegin(c) \/ CloseDrained(c) => TypeInv'
           /\ \A d \in Dbs : CloseTake(c, d) => TypeInv'
<1> USE IsSuspended, Resumed, IdleType, BecomeType, WaitingType DEF At, Goto, Reply, TypeInv, TypeOK
<1>1. ASSUME NEW d \in Dbs \cup {None}, Close(c, d) PROVE TypeInv'
  BY Zenon, <1>1 DEF Close
<1>2. ASSUME CloseAsk(c) PROVE TypeInv'
  BY Zenon, <1>2 DEF CloseAsk
<1>3. ASSUME CloseBegin(c) PROVE TypeInv'
  <2>1. {d \in Dbs : call[c].db \in {d, None} /\ instances[d] # None} \in SUBSET Dbs
    BY Zenon
  <2>. QED
    BY Zenon, <1>3, <2>1 DEF CloseBegin, MayWrite
<1>4. ASSUME CloseDrained(c) PROVE TypeInv'
  BY Zenon, <1>4 DEF CloseDrained
<1>5. ASSUME NEW d \in Dbs, CloseTake(c, d) PROVE TypeInv'
  BY Zenon, <1>5 DEF CloseTake
<1>. QED
  BY Zenon, <1>1, <1>2, <1>3, <1>4, <1>5

LEMMA PoolTakenType ==
    ASSUME TypeInv, NEW c \in Calls
    PROVE  /\ \A d \in Dbs : Select(c, d) => TypeInv'
           /\ SelectLook(c) \/ SelectDone(c) \/ RunLookup(c) \/ CancelLook(c) => TypeInv'
<1> USE IsSuspended, Resumed, Locals, IdleType, BecomeType, WaitingType
    DEF At, Reply, TakePool, Pool, TypeInv, TypeOK
<1>1. ASSUME NEW d \in Dbs, Select(c, d) PROVE TypeInv'
  BY Zenon, <1>1 DEF Select
<1>2. ASSUME SelectLook(c) PROVE TypeInv'
  BY Zenon, <1>2 DEF SelectLook
<1>3. ASSUME SelectDone(c) PROVE TypeInv'
  BY Zenon, <1>3 DEF SelectDone
<1>4. ASSUME RunLookup(c) PROVE TypeInv'
  BY Zenon, <1>4 DEF RunLookup
<1>5. ASSUME CancelLook(c) PROVE TypeInv'
  BY Zenon, <1>5 DEF CancelLook
<1>. QED
  BY Zenon, <1>1, <1>2, <1>3, <1>4, <1>5

LEMMA RunType ==
    ASSUME TypeInv, NEW c \in Calls
    PROVE  /\ \A k \in Keys : Run(c, k) => TypeInv'
           /\ RunPing(c) \/ RunDropDead(c) \/ RunAcquire(c) => TypeInv'
           /\ RunOpened(c) \/ RunAnswered(c) \/ RunDropLost(c) => TypeInv'
<1> USE IsSuspended, RunResumed, Locals, IdleType, BecomeType, LineType
    DEF At, Goto, Reply, TypeInv, TypeOK
<1>1. ASSUME NEW k \in Keys, Run(c, k) PROVE TypeInv'
  <2>1. k[1] \in Dbs /\ k[2] \in Tabs /\ sessions[k] \in Conns \cup {None}
    BY Zenon DEF Keys
  <2>2. CASE sessions[k] = None
    BY Zenon, <1>1, <2>1, <2>2, WaitingType DEF Run
  <2>3. CASE sessions[k] # None
    BY Zenon, <1>1, <2>1, <2>3 DEF Run
  <2>. QED
    BY Zenon, <2>2, <2>3
<1>2. ASSUME RunPing(c) PROVE TypeInv'
  BY Zenon, <1>2 DEF RunPing
<1>3. ASSUME RunDropDead(c) PROVE TypeInv'
  BY Zenon, <1>3, WaitingType DEF RunDropDead
<1>4. ASSUME RunAcquire(c) PROVE TypeInv'
  BY Zenon, <1>4, FreshIdentities DEF RunAcquire
<1>5. ASSUME RunOpened(c) PROVE TypeInv'
  <2>1. Key(c) \in Keys
    BY Zenon, <1>5 DEF RunOpened, Key, Keys, Running
  <2>. QED
    BY Zenon, <1>5, <2>1 DEF RunOpened
<1>6. ASSUME RunAnswered(c) PROVE TypeInv'
  <2>0. call[c].conn \in Conns
    BY Zenon, <1>6 DEF RunAnswered
  <2>1. line' \in [Conns -> Seq(Calls)]
    BY Zenon, <1>6, <2>0 DEF RunAnswered
  <2>3. stale' \subseteq Conns /\ dead' \subseteq Conns
    BY Zenon, <1>6, <2>0 DEF RunAnswered
  <2>2. call' \in [Calls -> SuspendedAt] /\ call' \in [Calls -> CallRecords]
    BY Zenon, <1>6 DEF RunAnswered
  <2>. QED
    BY Zenon, <1>6, <2>1, <2>2, <2>3 DEF RunAnswered
<1>7. ASSUME RunDropLost(c) PROVE TypeInv'
  BY Zenon, <1>7 DEF RunDropLost
<1>. QED
  BY Zenon, <1>1, <1>2, <1>3, <1>4, <1>5, <1>6, <1>7

LEMMA CancelType ==
    ASSUME TypeInv, NEW c \in Calls
    PROVE  /\ \A k \in Keys : Cancel(c, k) => TypeInv'
           /\ CancelAcquire(c) \/ CancelSend(c) => TypeInv'
<1> USE IsSuspended, IdleType, BecomeType DEF At, Goto, Reply, TypeInv, TypeOK
<1>1. ASSUME NEW k \in Keys, Cancel(c, k) PROVE TypeInv'
  BY Zenon, <1>1, WaitingType, RunResumed DEF Cancel, Keys
<1>2. ASSUME CancelAcquire(c) PROVE TypeInv'
  BY Zenon, <1>2, Resumed DEF CancelAcquire
<1>3. ASSUME CancelSend(c) PROVE TypeInv'
  <2>1. \A d \in Calls : call[d] \in SuspendedAt /\ [call[d] EXCEPT !.interrupted = TRUE] \in SuspendedAt
    BY Zenon, Resumed DEF Awaiting
  <2>2. CASE Reply(c)
    BY <1>3, <2>2 DEF CancelSend
  <2>3. CASE ~ Reply(c)
    <3>1. call' \in [Calls -> SuspendedAt]
      BY <1>3, <2>1, <2>3 DEF CancelSend
    <3>. QED
      BY <1>3, <2>1, <3>1 DEF CancelSend
  <2>. QED
    BY <2>2, <2>3
<1>. QED
  BY <1>1, <1>2, <1>3

LEMMA TypeStep == TypeInv /\ [Next]_vars => TypeInv'
<1> SUFFICES ASSUME TypeInv, [Next]_vars PROVE TypeInv'
  OBVIOUS
<1>1. CASE Invoke
  BY <1>1, LoadType, CloseType, PoolTakenType, RunType, CancelType DEF Invoke, Calls
<1>2. ASSUME NEW c \in Calls, Proceed(c) \/ SelectDone(c) \/ RunAnswered(c) PROVE TypeInv'
  BY <1>2, LoadType, CloseType, PoolTakenType, RunType, CancelType DEF Proceed
<1>3. ASSUME NEW s \in Conns, LoseConn(s) \/ GoStale(s) PROVE TypeInv'
  BY <1>3 DEF LoseConn, GoStale, TypeInv, TypeOK
<1>4. ASSUME NEW k \in Keys, EndSession(k) PROVE TypeInv'
  BY <1>4 DEF EndSession, TypeInv, TypeOK
<1>5. CASE UNCHANGED vars
  BY <1>5 DEF vars, TypeInv, TypeOK
<1>. QED
  BY <1>1, <1>2, <1>3, <1>4, <1>5 DEF Next, Step

(* The variables, and the locals of a call at each await, keep their types. *)
THEOREM TypeCorrect == Spec => [](TypeOK /\ TypeInv)
<1>1. TypeInv => TypeOK
  BY DEF TypeInv
<1>. QED
  BY <1>1, TypeInit, TypeStep, PTL DEF Spec

-----------------------------------------------------------------------------
(* The registry.  The guards exclude each other, every open pool has one   *)
(* owner, and a query's pool is the one registered.                        *)

OwnsGuard(c) == At(c, "closing") \/ At(c, "draining")
OwnsPool(c) == At(c, "loadInsert")

GuardsExclusive ==
    \A c \in Calls : OwnsGuard(c) =>
        \A d \in Calls : (OwnsGuard(d) => d = c) /\ ~ At(d, "selecting")

OneOwner ==
    /\ \A d, e \in Dbs : instances[d] # None /\ instances[d] = instances[e] => d = e
    /\ \A c \in Calls : OwnsPool(c) =>
          /\ call[c].pool \in open
          /\ \A d \in Dbs : instances[d] # call[c].pool
          /\ \A e \in Calls : OwnsPool(e) /\ call[e].pool = call[c].pool => e = c

QueriedIsRegistered ==
    \A c \in Calls : At(c, "selecting") => \E d \in Dbs : instances[d] = call[c].pool

RegistryInv ==
    GuardsExclusive /\ RegisteredPoolOpen /\ PoolsAccounted /\ OneOwner /\ QueriedIsRegistered

(* A step that leaves the registry alone, in which a call that owns no     *)
(* pool moves on without taking a guard or a pool to own.                  *)
LEMMA RegistryFrame ==
    ASSUME RegistryInv, NEW c \in Calls, UNCHANGED <<instances, open>>, ~ OwnsPool(c),
           call'[c].pc \notin {"loadInsert", "closing", "draining", "selecting"},
           \A d \in Calls : d # c => call'[d].pc = call[d].pc /\ call'[d].pool = call[d].pool
    PROVE  RegistryInv'
<1> USE DEF RegistryInv, OwnsGuard, OwnsPool, At
<1>1. GuardsExclusive'
  BY DEF GuardsExclusive
<1>2. RegisteredPoolOpen'
  BY DEF RegisteredPoolOpen
<1>3. PoolsAccounted'
  BY DEF PoolsAccounted
<1>4. OneOwner'
  BY DEF OneOwner
<1>5. QueriedIsRegistered'
  BY DEF QueriedIsRegistered
<1>. QED
  BY <1>1, <1>2, <1>3, <1>4, <1>5

LEMMA BecomesIdle ==
    ASSUME TypeInv, NEW c \in Calls, Reply(c)
    PROVE  call'[c].pc = "idle" /\ \A d \in Calls : d # c => call'[d] = call[d]
  BY IdleType, BecomeType DEF Reply

(* Most steps are of that kind. *)
LEMMA RegistryQuiet ==
    ASSUME TypeInv, RegistryInv, NEW c \in Calls, NEW l, NEW r \in Awaiting(l),
           UNCHANGED <<instances, open>>, ~ OwnsPool(c), Reply(c) \/ Become(c, r),
           l \notin {"loadInsert", "closing", "draining", "selecting"}
    PROVE  RegistryInv'
  BY BecomeType, BecomesIdle, RegistryFrame

LEMMA RegistryLoad ==
    ASSUME TypeInv, RegistryInv, NEW c \in Calls
    PROVE  /\ \A d \in Dbs : Load(c, d) => RegistryInv'
           /\ LoadLook(c) \/ LoadConnect(c) \/ LoadInsert(c) => RegistryInv'
<1> USE DEF At
<1>1. ASSUME NEW d \in Dbs, Load(c, d) PROVE RegistryInv'
  <2>1. [call[c] EXCEPT !.pc = "load", !.db = d] \in Awaiting("load")
    BY Zenon, <1>1, IsSuspended, Resumed DEF Load
  <2>. QED
    BY <1>1, <2>1, RegistryQuiet DEF Load, OwnsPool
<1>2. ASSUME LoadLook(c) PROVE RegistryInv'
  BY Zenon, <1>2, IsSuspended, IdleType, Resumed, RegistryQuiet DEF LoadLook, Goto, OwnsPool
<1>3. ASSUME LoadConnect(c) PROVE RegistryInv'
  <2>1. CASE Reply(c) /\ open' = open
    BY <1>3, <2>1, IdleType, RegistryQuiet DEF LoadConnect, OwnsPool
  <2>2. CASE /\ \E p \in Pools : FreePool(p)
             /\ open' = open \cup {NewPool}
             /\ Become(c, [call[c] EXCEPT !.pc = "loadInsert", !.pool = NewPool])
    <3> DEFINE r == [call[c] EXCEPT !.pc = "loadInsert", !.pool = NewPool]
    <3>1. NewPool \in Pools /\ FreePool(NewPool)
      BY <2>2, FreshIdentities
    <3>2. r \in Awaiting("loadInsert") /\ r.pool = NewPool
      BY Zenon, <1>3, <3>1, IsSuspended, Resumed DEF LoadConnect, SuspendedAt, CallRecords
    <3>3. /\ call'[c].pc = "loadInsert" /\ call'[c].pool = NewPool
          /\ \A d \in Calls : d # c => call'[d] = call[d]
      <4>1. Become(c, r)
        BY <2>2
      <4>. HIDE DEF r
      <4>. QED
        BY <3>2, <4>1, BecomeType
    <3>4. \A d \in Dbs : instances[d] # NewPool
      BY <3>1, NoneAssumption DEF FreePool, RegistryInv, RegisteredPoolOpen
    <3>5. GuardsExclusive'
      BY <3>3 DEF RegistryInv, GuardsExclusive, OwnsGuard
    <3>6. OneOwner'
      BY <1>3, <2>2, <3>1, <3>3, <3>4 DEF LoadConnect, FreePool, RegistryInv, OneOwner, OwnsPool
    <3>7. PoolsAccounted'
      <4>1. ASSUME NEW q \in open, NEW e \in Calls, At(e, "loadInsert"), call[e].pool = q
            PROVE  e # c
        BY <1>3, <4>1 DEF LoadConnect
      <4>. QED
        BY <1>3, <2>2, <3>3, <4>1 DEF LoadConnect, RegistryInv, PoolsAccounted
    <3>8. RegisteredPoolOpen' /\ QueriedIsRegistered'
      BY <1>3, <2>2, <3>3 DEF LoadConnect, RegistryInv, RegisteredPoolOpen, QueriedIsRegistered
    <3>. QED
      BY <3>5, <3>6, <3>7, <3>8 DEF RegistryInv
  <2>. QED
    BY <1>3, <2>1, <2>2 DEF LoadConnect
<1>4. ASSUME LoadInsert(c) PROVE RegistryInv'
  <2> DEFINE p == call[c].pool
  <2>1. call'[c].pc = "idle" /\ \A d \in Calls : d # c => call'[d] = call[d]
    BY <1>4, BecomesIdle DEF LoadInsert
  <2>2. /\ p \in open /\ p \in Pools /\ call[c].db \in Dbs
        /\ \A d \in Dbs : instances[d] # p
        /\ \A e \in Calls : OwnsPool(e) /\ call[e].pool = p => e = c
    BY <1>4, IsSuspended, Locals DEF LoadInsert, RegistryInv, OneOwner, OwnsPool
  <2>3. GuardsExclusive'
    BY <2>1 DEF RegistryInv, GuardsExclusive, OwnsGuard
  <2>4. CASE Pool(c) = None
    <3>1. open' = open /\ instances' = [instances EXCEPT ![call[c].db] = p]
      BY <1>4, <2>4 DEF LoadInsert
    <3>2. instances' [call[c].db] = p /\ \A d \in Dbs : d # call[c].db => instances'[d] = instances[d]
      BY <2>2, <3>1 DEF TypeInv, TypeOK
    <3>3. RegisteredPoolOpen'
      BY <2>2, <3>1, <3>2 DEF RegistryInv, RegisteredPoolOpen
    <3>6. PoolsAccounted'
      <4>1. ASSUME NEW q \in open, q # p
            PROVE  \/ \E d \in Dbs : instances'[d] = q
                   \/ \E e \in Calls : At(e, "loadInsert")' /\ call'[e].pool = q
        <5>1. CASE \E d \in Dbs : instances[d] = q
          BY <2>2, <2>4, <3>2, <4>1, <5>1, NoneAssumption DEF Pool, TypeInv, TypeOK
        <5>2. CASE \E e \in Calls : At(e, "loadInsert") /\ call[e].pool = q
          BY <2>1, <4>1, <5>2
        <5>. QED
          BY <4>1, <5>1, <5>2 DEF RegistryInv, PoolsAccounted
      <4>. QED
        BY <2>2, <3>1, <3>2, <4>1 DEF PoolsAccounted
    <3>4. OneOwner'
      BY <2>1, <2>2, <3>1, <3>2 DEF RegistryInv, OneOwner, OwnsPool
    <3>5. QueriedIsRegistered'
      BY <1>4, <2>1 DEF LoadInsert, MayWrite, QueriedIsRegistered
    <3>. QED
      BY <2>3, <3>3, <3>4, <3>5, <3>6 DEF RegistryInv
  <2>5. CASE Pool(c) # None
    <3>1. open' = open \ {p} /\ instances' = instances
      BY <1>4, <2>5 DEF LoadInsert
    <3>2. RegisteredPoolOpen' /\ PoolsAccounted'
      BY <2>1, <2>2, <3>1 DEF RegistryInv, RegisteredPoolOpen, PoolsAccounted
    <3>3. OneOwner'
      BY <2>1, <2>2, <3>1 DEF RegistryInv, OneOwner, OwnsPool
    <3>4. QueriedIsRegistered'
      BY <1>4, <2>1 DEF LoadInsert, MayWrite, QueriedIsRegistered
    <3>. QED
      BY <2>3, <3>2, <3>3, <3>4 DEF RegistryInv
  <2>. QED
    BY <2>4, <2>5
<1>. QED
  BY <1>1, <1>2, <1>3, <1>4

(* A writer takes the guard when no one else has it, and closes a pool     *)
(* while no query runs.                                                    *)
LEMMA RegistryClose ==
    ASSUME TypeInv, RegistryInv, NEW c \in Calls
    PROVE  /\ \A d \in Dbs \cup {None} : Close(c, d) => RegistryInv'
           /\ CloseAsk(c) \/ CloseBegin(c) \/ CloseDrained(c) => RegistryInv'
           /\ \A d \in Dbs : CloseTake(c, d) => RegistryInv'
<1> USE DEF At
<1>1. ASSUME NEW d \in Dbs \cup {None}, Close(c, d) PROVE RegistryInv'
  <2>1. [call[c] EXCEPT !.pc = "closeAsk", !.db = d] \in Awaiting("closeAsk")
    BY Zenon, <1>1, IsSuspended, Resumed DEF Close
  <2>. QED
    BY <1>1, <2>1, RegistryQuiet DEF Close, OwnsPool
<1>2. ASSUME CloseAsk(c) PROVE RegistryInv'
  <2>1. [call[c] EXCEPT !.pc = "close"] \in Awaiting("close")
    BY Zenon, <1>2, IsSuspended, Resumed DEF CloseAsk
  <2>. QED
    BY <1>2, <2>1, RegistryQuiet DEF CloseAsk, Goto, OwnsPool
(* Whatever a writer does next, it is alone. *)
<1>3. ASSUME NEW l, NEW r \in Awaiting(l), Become(c, r), l \in {"closing", "draining"},
             UNCHANGED <<instances, open>>, ~ OwnsPool(c),
             \A d \in Calls : d # c => ~ OwnsGuard(d) /\ ~ At(d, "selecting")
      PROVE  RegistryInv'
  <2>1. call'[c].pc = l /\ \A d \in Calls : d # c => call'[d] = call[d]
    BY <1>3, BecomeType
  <2>2. GuardsExclusive'
    BY <1>3, <2>1 DEF GuardsExclusive, OwnsGuard
  <2>3. RegisteredPoolOpen' /\ PoolsAccounted'
    BY <1>3, <2>1 DEF RegistryInv, RegisteredPoolOpen, PoolsAccounted, OwnsPool
  <2>4. OneOwner' /\ QueriedIsRegistered'
    BY <1>3, <2>1 DEF RegistryInv, OneOwner, QueriedIsRegistered, OwnsPool
  <2>. QED
    BY <2>2, <2>3, <2>4 DEF RegistryInv
<1>4. ASSUME CloseBegin(c) PROVE RegistryInv'
  <2> DEFINE found == {d \in Dbs : call[c].db \in {d, None} /\ instances[d] # None}
             r == [call[c] EXCEPT !.pc = "closing", !.dbs = found]
  <2>1. r \in Awaiting("closing")
    BY Zenon, <1>4, IsSuspended, Resumed DEF CloseBegin
  <2>2. CASE Reply(c)
    BY <1>4, <2>2, IdleType, RegistryQuiet DEF CloseBegin, OwnsPool
  <2>3. CASE Become(c, r)
    <3>1. \A d \in Calls : d # c => ~ OwnsGuard(d) /\ ~ At(d, "selecting")
      BY <1>4 DEF CloseBegin, MayWrite, MayRead, OwnsGuard
    <3>2. UNCHANGED <<instances, open>> /\ ~ OwnsPool(c)
      BY <1>4 DEF CloseBegin, OwnsPool
    <3>. HIDE DEF r
    <3>. QED
      BY <1>3, <2>1, <2>3, <3>1, <3>2
  <2>. QED
    BY <1>4, <2>2, <2>3 DEF CloseBegin
<1>5. ASSUME CloseDrained(c) PROVE RegistryInv'
  <2> DEFINE r == [call[c] EXCEPT !.pc = "closing", !.pool = None]
  <2>1. r \in Awaiting("closing")
    BY Zenon, <1>5, IsSuspended, Resumed DEF CloseDrained
  <2>2. CASE Reply(c)
    BY <1>5, <2>2, IdleType, RegistryQuiet DEF CloseDrained, OwnsPool
  <2>3. CASE Become(c, r)
    <3>1. \A d \in Calls : d # c => ~ OwnsGuard(d) /\ ~ At(d, "selecting")
      BY <1>5 DEF CloseDrained, RegistryInv, GuardsExclusive, OwnsGuard
    <3>2. UNCHANGED <<instances, open>> /\ ~ OwnsPool(c)
      BY <1>5 DEF CloseDrained, OwnsPool
    <3>. HIDE DEF r
    <3>. QED
      BY <1>3, <2>1, <2>3, <3>1, <3>2
  <2>. QED
    BY <1>5, <2>2, <2>3 DEF CloseDrained
<1>6. ASSUME NEW d \in Dbs, CloseTake(c, d) PROVE RegistryInv'
  <2> DEFINE p == instances[d]
             r == [call[c] EXCEPT !.pc = "draining", !.pool = p, !.dbs = @ \ {d}]
  <2>1. r \in Awaiting("draining") /\ Become(c, r)
    BY Zenon, <1>6, IsSuspended, Resumed DEF CloseTake, TypeInv, TypeOK
  <2>2. call'[c].pc = "draining" /\ \A e \in Calls : e # c => call'[e] = call[e]
    <3>. HIDE DEF r
    <3>. QED
      BY <2>1, BecomeType
  <2>3. /\ open' = open \ {p}
        /\ instances'[d] = None
        /\ \A e \in Dbs : e # d => instances'[e] = instances[e]
    BY <1>6 DEF CloseTake, TypeInv, TypeOK
  <2>4. \A e \in Calls : e # c => ~ OwnsGuard(e) /\ ~ At(e, "selecting")
    BY <1>6 DEF CloseTake, RegistryInv, GuardsExclusive, OwnsGuard
  <2>5. GuardsExclusive' /\ QueriedIsRegistered'
    BY <2>2, <2>4 DEF GuardsExclusive, OwnsGuard, QueriedIsRegistered
  <2>6. RegisteredPoolOpen'
    BY <2>3 DEF RegistryInv, RegisteredPoolOpen, OneOwner
  <2>7. PoolsAccounted'
    BY <1>6, <2>2, <2>3 DEF CloseTake, RegistryInv, PoolsAccounted
  <2>8. OneOwner'
    <3>1. \A e, f \in Dbs : instances'[e] # None /\ instances'[e] = instances'[f] => e = f
      BY <2>3 DEF RegistryInv, OneOwner
    <3>2. ASSUME NEW e \in Calls, OwnsPool(e)'
          PROVE  /\ OwnsPool(e) /\ call'[e] = call[e]
                 /\ call[e].pool \in open' /\ \A f \in Dbs : instances'[f] # call[e].pool
      <4>1. e # c /\ OwnsPool(e)
        BY <2>2, <3>2 DEF OwnsPool
      <4>2. call[e].pool \in Pools
        BY <4>1, IsSuspended, Locals DEF OwnsPool
      <4>. QED
        BY <2>2, <2>3, <4>1, <4>2, NoneAssumption DEF RegistryInv, OneOwner
    <3>. QED
      BY <3>1, <3>2 DEF RegistryInv, OneOwner
  <2>. QED
    BY <2>5, <2>6, <2>7, <2>8 DEF RegistryInv
<1>. QED
  BY <1>1, <1>2, <1>4, <1>5, <1>6

(* A query enters under the read guard, with the registered pool. *)
LEMMA RegistryTake ==
    ASSUME TypeInv, RegistryInv, NEW c \in Calls
    PROVE  /\ \A d \in Dbs : Select(c, d) => RegistryInv'
           /\ SelectLook(c) \/ SelectDone(c) \/ RunLookup(c) \/ CancelLook(c) => RegistryInv'
<1> USE DEF At
<1>1. ASSUME NEW d \in Dbs, Select(c, d) PROVE RegistryInv'
  <2>1. [call[c] EXCEPT !.pc = "select", !.db = d] \in Awaiting("select")
    BY Zenon, <1>1, IsSuspended, Resumed DEF Select
  <2>. QED
    BY <1>1, <2>1, RegistryQuiet DEF Select, OwnsPool
<1>2. ASSUME SelectDone(c) PROVE RegistryInv'
  BY <1>2, IdleType, RegistryQuiet DEF SelectDone, OwnsPool
<1>3. ASSUME call[c].pc \in {"select", "lookup", "cancel"}
      PROVE  Pool(c) # None => Pool(c) \in Pools
  BY <1>3, IsSuspended, Locals DEF Pool, TypeInv, TypeOK
<1>4. ASSUME RunLookup(c) PROVE RegistryInv'
  <2> DEFINE r == [call[c] EXCEPT !.pc = "acquiring", !.pool = Pool(c)]
  <2>1. CASE Reply(c)
    BY <1>4, <2>1, IdleType, RegistryQuiet DEF RunLookup, TakePool, OwnsPool
  <2>2. CASE Pool(c) # None /\ Become(c, r)
    <3>1. r \in Awaiting("acquiring")
      BY Zenon, <1>3, <1>4, <2>2, IsSuspended, Resumed DEF RunLookup
    <3>. HIDE DEF r
    <3>. QED
      BY <1>4, <2>2, <3>1, RegistryQuiet DEF RunLookup, TakePool, OwnsPool
  <2>. QED
    BY <1>4, <2>1, <2>2 DEF RunLookup, TakePool
<1>5. ASSUME CancelLook(c) PROVE RegistryInv'
  <2> DEFINE r == [call[c] EXCEPT !.pc = "cancelAcquire", !.pool = Pool(c)]
  <2>1. CASE Reply(c)
    BY <1>5, <2>1, IdleType, RegistryQuiet DEF CancelLook, TakePool, OwnsPool
  <2>2. CASE Pool(c) # None /\ Become(c, r)
    <3>1. r \in Awaiting("cancelAcquire")
      BY Zenon, <1>3, <1>5, <2>2, IsSuspended, Resumed DEF CancelLook
    <3>. HIDE DEF r
    <3>. QED
      BY <1>5, <2>2, <3>1, RegistryQuiet DEF CancelLook, TakePool, OwnsPool
  <2>. QED
    BY <1>5, <2>1, <2>2 DEF CancelLook, TakePool
<1>6. ASSUME SelectLook(c) PROVE RegistryInv'
  <2> DEFINE r == [call[c] EXCEPT !.pc = "selecting", !.pool = Pool(c)]
  <2>1. CASE Reply(c)
    BY <1>6, <2>1, IdleType, RegistryQuiet DEF SelectLook, TakePool, OwnsPool
  <2>2. CASE Pool(c) # None /\ Become(c, r)
    <3>0. call[c] \in SuspendedAt /\ call[c].pc = "select" /\ Pool(c) \in Pools
      BY <1>3, <1>6, <2>2, IsSuspended DEF SelectLook
    <3>1. r \in Awaiting("selecting")
      BY Zenon, <3>0, Resumed
    <3>9. r.pool = Pool(c)
      BY IsSuspended DEF CallRecords
    <3>2. /\ call'[c].pc = "selecting" /\ call'[c].pool = Pool(c)
          /\ \A d \in Calls : d # c => call'[d] = call[d]
      <4>. HIDE DEF r
      <4>. QED
        BY <2>2, <3>1, <3>9, BecomeType
    <3>3. instances' = instances /\ open' = open /\ ~ OwnsPool(c) /\ call[c].db \in Dbs
      BY <1>6, IsSuspended, Locals DEF SelectLook, TakePool, OwnsPool
    <3>4. \A d \in Calls : ~ OwnsGuard(d)
      BY <1>6 DEF SelectLook, TakePool, MayRead, OwnsGuard
    <3>5. GuardsExclusive'
      BY <3>2, <3>4 DEF GuardsExclusive, OwnsGuard
    <3>6. RegisteredPoolOpen' /\ PoolsAccounted'
      BY <3>2, <3>3 DEF RegistryInv, RegisteredPoolOpen, PoolsAccounted, OwnsPool
    <3>7. OneOwner'
      BY <3>2, <3>3 DEF RegistryInv, OneOwner, OwnsPool
    <3>8. QueriedIsRegistered'
      BY <3>2, <3>3 DEF RegistryInv, QueriedIsRegistered, Pool
    <3>. QED
      BY <3>5, <3>6, <3>7, <3>8 DEF RegistryInv
  <2>. QED
    BY <1>6, <2>1, <2>2 DEF SelectLook, TakePool
<1>. QED
  BY <1>1, <1>2, <1>4, <1>5, <1>6

(* A run never touches the registry but to read it. *)
LEMMA RegistryRun ==
    ASSUME TypeInv, RegistryInv, NEW c \in Calls
    PROVE  /\ \A k \in Keys : Run(c, k) => RegistryInv'
           /\ RunPing(c) \/ RunDropDead(c) \/ RunAcquire(c) => RegistryInv'
           /\ RunOpened(c) \/ RunAnswered(c) \/ RunDropLost(c) => RegistryInv'
<1> USE DEF At
<1>1. ASSUME NEW k \in Keys, Run(c, k) PROVE RegistryInv'
  <2> DEFINE R(l) == [call[c] EXCEPT !.pc = l, !.db = k[1], !.tab = k[2], !.conn = sessions[k]]
  <2>1. k[1] \in Dbs /\ k[2] \in Tabs /\ sessions[k] \in Conns \cup {None}
    BY DEF Keys, TypeInv, TypeOK
  <2>2. PICK l \in {"lookup", "pinging", "queued"} :
           Become(c, R(l)) /\ (IF l = "lookup" THEN sessions[k] = None ELSE sessions[k] \in Conns)
    BY Zenon, <1>1, <2>1 DEF Run
  <2>3. R(l) \in Awaiting(l)
    <3>1. call[c] \in SuspendedAt /\ call[c].pc = "idle"
      BY <1>1, IsSuspended DEF Run
    <3>. QED
      BY Zenon, <2>1, <2>2, <3>1, RunResumed
  <2>. HIDE DEF R
  <2>. QED
    BY <1>1, <2>2, <2>3, RegistryQuiet DEF Run, OwnsPool
<1>2. ASSUME RunPing(c) PROVE RegistryInv'
  <2>1. PICK l \in {"removeDead", "queued"} : Become(c, [call[c] EXCEPT !.pc = l])
    BY <1>2 DEF RunPing, Goto
  <2>2. [call[c] EXCEPT !.pc = l] \in Awaiting(l)
    <3>1. call[c] \in SuspendedAt /\ call[c].pc = "pinging"
      BY <1>2, IsSuspended DEF RunPing
    <3>. QED
      BY Zenon, <3>1, RunResumed
  <2>. QED
    BY <1>2, <2>1, <2>2, RegistryQuiet DEF RunPing, OwnsPool
<1>3. ASSUME RunDropDead(c) PROVE RegistryInv'
  <2>1. [call[c] EXCEPT !.pc = "lookup", !.conn = None, !.reconnected = TRUE] \in Awaiting("lookup")
    <3>1. call[c] \in SuspendedAt /\ call[c].pc = "removeDead"
      BY <1>3, IsSuspended DEF RunDropDead
    <3>. QED
      BY Zenon, <3>1, RunResumed
  <2>. QED
    BY <1>3, <2>1, RegistryQuiet DEF RunDropDead, OwnsPool
<1>4. ASSUME RunAcquire(c) PROVE RegistryInv'
  <2> DEFINE r == [call[c] EXCEPT !.pc = "opening", !.pool = None, !.conn = NewConn]
  <2>1. CASE Reply(c)
    BY <1>4, <2>1, IdleType, RegistryQuiet DEF RunAcquire, OwnsPool
  <2>2. CASE Become(c, r) /\ \E s \in Conns : FreeConn(s)
    <3>1. r \in Awaiting("opening")
      <4>1. call[c] \in SuspendedAt /\ call[c].pc = "acquiring" /\ NewConn \in Conns
        BY <1>4, <2>2, FreshIdentities, IsSuspended DEF RunAcquire
      <4>. QED
        BY Zenon, <4>1, RunResumed
    <3>. HIDE DEF r
    <3>. QED
      BY <1>4, <2>2, <3>1, RegistryQuiet DEF RunAcquire, OwnsPool
  <2>. QED
    BY <1>4, <2>1, <2>2 DEF RunAcquire
<1>5. ASSUME RunOpened(c) PROVE RegistryInv'
  <2> DEFINE s == IF sessions[Key(c)] = None THEN call[c].conn ELSE sessions[Key(c)]
             r == [call[c] EXCEPT !.pc = "queued", !.conn = s]
  <2>1. CASE Reply(c)
    BY <1>5, <2>1, IdleType, RegistryQuiet DEF RunOpened, OwnsPool
  <2>2. CASE Become(c, r)
    <3>1. s \in Conns
      <4>1. Key(c) \in Keys /\ call[c].conn \in Conns
        BY <1>5, IsSuspended, Locals DEF RunOpened, Key, Keys, Running
      <4>. QED
        BY <4>1 DEF TypeInv, TypeOK
    <3>2. r \in Awaiting("queued")
      <4>1. call[c] \in SuspendedAt /\ call[c].pc = "opening"
        BY <1>5, IsSuspended DEF RunOpened
      <4>. HIDE DEF s
      <4>. QED
        BY Zenon, <3>1, <4>1, RunResumed
    <3>. HIDE DEF r
    <3>. QED
      BY <1>5, <2>2, <3>2, RegistryQuiet DEF RunOpened, OwnsPool
  <2>. QED
    BY <1>5, <2>1, <2>2 DEF RunOpened
<1>6. ASSUME RunAnswered(c) PROVE RegistryInv'
  <2>1. CASE Reply(c)
    BY <1>6, <2>1, IdleType, RegistryQuiet DEF RunAnswered, OwnsPool
  <2>2. CASE Goto(c, "removeLost")
    <3>1. [call[c] EXCEPT !.pc = "removeLost"] \in Awaiting("removeLost")
      <4>1. call[c] \in SuspendedAt /\ call[c].pc = "queued"
        BY <1>6, IsSuspended DEF RunAnswered
      <4>. QED
        BY Zenon, <4>1, RunResumed
    <3>. QED
      BY <1>6, <2>2, <3>1, RegistryQuiet DEF RunAnswered, OwnsPool, Goto
  <2>. QED
    BY <1>6, <2>1, <2>2 DEF RunAnswered
<1>7. ASSUME RunDropLost(c) PROVE RegistryInv'
  BY <1>7, IdleType, RegistryQuiet DEF RunDropLost, OwnsPool
<1>. QED
  BY <1>1, <1>2, <1>3, <1>4, <1>5, <1>6, <1>7

LEMMA RegistryCancel ==
    ASSUME TypeInv, RegistryInv, NEW c \in Calls
    PROVE  /\ \A k \in Keys : Cancel(c, k) => RegistryInv'
           /\ CancelAcquire(c) \/ CancelSend(c) => RegistryInv'
<1> USE DEF At
<1>1. ASSUME NEW k \in Keys, Cancel(c, k) PROVE RegistryInv'
  <2> DEFINE r == [call[c] EXCEPT !.pc = "cancel", !.db = k[1], !.tab = k[2], !.conn = sessions[k]]
  <2>1. k[1] \in Dbs /\ k[2] \in Tabs /\ sessions[k] \in Conns
    BY <1>1 DEF Cancel, Keys, TypeInv, TypeOK
  <2>2. r \in Awaiting("cancel") /\ Become(c, r)
    <3>1. call[c] \in SuspendedAt /\ call[c].pc = "idle" /\ Become(c, r)
      BY <1>1, IsSuspended DEF Cancel
    <3>. QED
      BY Zenon, <2>1, <3>1, RunResumed
  <2>. HIDE DEF r
  <2>. QED
    BY <1>1, <2>2, RegistryQuiet DEF Cancel, OwnsPool
<1>2. ASSUME CancelAcquire(c) PROVE RegistryInv'
  <2>1. CASE Reply(c)
    BY <1>2, <2>1, IdleType, RegistryQuiet DEF CancelAcquire, OwnsPool
  <2>2. CASE Goto(c, "cancelSend")
    <3>1. [call[c] EXCEPT !.pc = "cancelSend"] \in Awaiting("cancelSend")
      <4>1. call[c] \in SuspendedAt /\ call[c].pc = "cancelAcquire"
        BY <1>2, IsSuspended DEF CancelAcquire
      <4>. QED
        BY Zenon, <4>1, Resumed
    <3>. QED
      BY <1>2, <2>2, <3>1, RegistryQuiet DEF CancelAcquire, OwnsPool, Goto
  <2>. QED
    BY <1>2, <2>1, <2>2 DEF CancelAcquire
<1>3. ASSUME CancelSend(c) PROVE RegistryInv'
  <2>1. CASE Reply(c)
    BY <1>3, <2>1, IdleType, RegistryQuiet DEF CancelSend, OwnsPool
  <2>2. CASE ~ Reply(c)
    <3>1. call'[c].pc = "idle"
      BY <1>3, <2>2 DEF CancelSend, Idle
    <3>2. ASSUME NEW d \in Calls, d # c
          PROVE  call'[d].pc = call[d].pc /\ call'[d].pool = call[d].pool
      BY <1>3, <2>2, <3>2, IsSuspended DEF CancelSend, CallRecords
    <3>. QED
      BY <1>3, <3>1, <3>2, RegistryFrame DEF CancelSend, OwnsPool
  <2>. QED
    BY <2>1, <2>2
<1>. QED
  BY <1>1, <1>2, <1>3

LEMMA RegistryStep == TypeInv /\ RegistryInv /\ [Next]_vars => RegistryInv'
<1> SUFFICES ASSUME TypeInv, RegistryInv, [Next]_vars PROVE RegistryInv'
  OBVIOUS
<1>1. CASE Invoke
  BY <1>1, RegistryLoad, RegistryClose, RegistryTake, RegistryRun, RegistryCancel DEF Invoke, Calls
<1>2. ASSUME NEW c \in Calls, Proceed(c) \/ SelectDone(c) \/ RunAnswered(c) PROVE RegistryInv'
  BY <1>2, RegistryLoad, RegistryClose, RegistryTake, RegistryRun, RegistryCancel DEF Proceed
(* The other steps leave the registry and the calls as they are. *)
<1>3. ASSUME UNCHANGED <<instances, open, call>> PROVE RegistryInv'
  BY <1>3 DEF RegistryInv, GuardsExclusive, RegisteredPoolOpen, PoolsAccounted, OneOwner,
              QueriedIsRegistered, OwnsGuard, OwnsPool, At
<1>4. ASSUME NEW s \in Conns, LoseConn(s) \/ GoStale(s) PROVE RegistryInv'
  BY <1>3, <1>4 DEF LoseConn, GoStale
<1>5. ASSUME NEW k \in Keys, EndSession(k) PROVE RegistryInv'
  BY <1>3, <1>5 DEF EndSession
<1>6. CASE UNCHANGED vars
  BY <1>3, <1>6 DEF vars
<1>. QED
  BY <1>1, <1>2, <1>4, <1>5, <1>6 DEF Next, Step

LEMMA RegistryInit == Init => RegistryInv
  BY DEF Init, Idle, RegistryInv, GuardsExclusive, RegisteredPoolOpen, PoolsAccounted, OneOwner,
         QueriedIsRegistered, OwnsGuard, OwnsPool, At

(* The fast path of load never hands out a closed pool, no pool leaks, and *)
(* no close pulls a pool from under a running select or execute.           *)
THEOREM RegistrySafe == Spec => []RegistrySafety
<1>1. TypeInv /\ RegistryInv => RegistrySafety
  <2> SUFFICES ASSUME TypeInv, RegistryInv PROVE QueryKeepsItsPool
    BY DEF RegistryInv, RegistrySafety
  <2> SUFFICES ASSUME NEW c \in Calls, At(c, "selecting") PROVE call[c].pool \in open
    BY DEF QueryKeepsItsPool
  <2>1. call[c].pool \in Pools
    BY IsSuspended, Locals DEF At
  <2>. QED
    BY <2>1, NoneAssumption DEF RegistryInv, QueriedIsRegistered, RegisteredPoolOpen
<1>2. TypeInv /\ RegistryInv /\ [Next]_vars => TypeInv' /\ RegistryInv'
  BY TypeStep, RegistryStep
<1>. QED
  BY TypeInit, RegistryInit, <1>1, <1>2, PTL DEF Spec

-----------------------------------------------------------------------------
(* The sessions of the editor's tabs.                                      *)

(* A step after which every call has the connection it had, for the same   *)
(* tab, or none; and every tab the session it had, or none.                *)
LEMMA ConnsFrame ==
    ASSUME TabsNeverShare,
           \A d \in Calls : \/ call'[d].conn = None
                            \/ call'[d].conn = call[d].conn /\ Key(d)' = Key(d),
           \A k \in Keys : sessions'[k] \in {None, sessions[k]}
    PROVE  TabsNeverShare'
<1>1. ASSUME NEW c \in Calls, NEW d \in Calls, call'[c].conn # None, call'[c].conn = call'[d].conn
      PROVE  Key(c)' = Key(d)'
  BY <1>1 DEF TabsNeverShare
<1>2. ASSUME NEW k \in Keys, NEW c \in Calls, sessions'[k] # None, sessions'[k] = call'[c].conn
      PROVE  Key(c)' = k
  BY <1>2 DEF TabsNeverShare
<1>3. ASSUME NEW j \in Keys, NEW k \in Keys, sessions'[k] # None, sessions'[j] = sessions'[k]
      PROVE  j = k
  BY <1>3 DEF TabsNeverShare
<1>. QED
  BY <1>1, <1>2, <1>3 DEF TabsNeverShare

(* The steps of one call that take no connection are of that kind. *)
LEMMA ConnsQuiet ==
    ASSUME TypeInv, TabsNeverShare, NEW c \in Calls, NEW r, Become(c, r),
           r.conn = None \/ (r.conn = call[c].conn /\ r.db = call[c].db /\ r.tab = call[c].tab),
           \A k \in Keys : sessions'[k] \in {None, sessions[k]}
    PROVE  TabsNeverShare'
<1>1. call'[c] = r /\ \A d \in Calls : d # c => call'[d] = call[d]
  BY DEF Become, TypeInv, TypeOK
<1>. QED
  BY <1>1, ConnsFrame DEF Key

LEMMA ConnsReply ==
    ASSUME TypeInv, TabsNeverShare, NEW c \in Calls, Reply(c),
           \A k \in Keys : sessions'[k] \in {None, sessions[k]}
    PROVE  TabsNeverShare'
<1>1. Idle.conn = None /\ Become(c, Idle)
  BY DEF Idle, Reply
<1>. QED
  BY <1>1, ConnsQuiet

(* What an assignment to some of the locals leaves alone. *)
LEMMA OtherLocals ==
    ASSUME TypeInv, NEW c \in Calls, NEW l
    PROVE  /\ [call[c] EXCEPT !.pc = l].conn = call[c].conn
           /\ [call[c] EXCEPT !.pc = l].db = call[c].db
           /\ [call[c] EXCEPT !.pc = l].tab = call[c].tab
           /\ call[c].pc \notin WithConn => call[c].conn = None
           /\ \A d : [call[c] EXCEPT !.pc = l, !.db = d].conn = call[c].conn
           /\ \A p : [call[c] EXCEPT !.pc = l, !.pool = p].conn = call[c].conn
           /\ \A p : [call[c] EXCEPT !.pc = l, !.pool = p].db = call[c].db
           /\ \A p : [call[c] EXCEPT !.pc = l, !.pool = p].tab = call[c].tab
           /\ \A ds : [call[c] EXCEPT !.pc = l, !.dbs = ds].conn = call[c].conn
           /\ \A p, d : [call[c] EXCEPT !.pc = l, !.pool = p, !.dbs = @ \ {d}].conn = call[c].conn
           /\ [call[c] EXCEPT !.pc = l, !.conn = None, !.reconnected = TRUE].conn = None
  BY IsSuspended DEF SuspendedAt, CallRecords

(* A call without a connection goes on without one. *)
LEMMA ConnsNone ==
    ASSUME TypeInv, TabsNeverShare, NEW c \in Calls, NEW r, Become(c, r),
           call[c].pc \notin WithConn, r.conn = call[c].conn,
           \A k \in Keys : sessions'[k] \in {None, sessions[k]}
    PROVE  TabsNeverShare'
  BY OtherLocals, ConnsQuiet

LEMMA ConnsLoad ==
    ASSUME TypeInv, TabsNeverShare, NEW c \in Calls
    PROVE  /\ \A d \in Dbs : Load(c, d) => TabsNeverShare'
           /\ LoadLook(c) \/ LoadConnect(c) \/ LoadInsert(c) => TabsNeverShare'
<1> USE DEF At, WithConn, Cancelling
<1>1. ASSUME NEW d \in Dbs, Load(c, d) PROVE TabsNeverShare'
  <2> DEFINE r == [call[c] EXCEPT !.pc = "load", !.db = d]
  <2>1. r.conn = call[c].conn /\ Become(c, r)
    BY <1>1, OtherLocals DEF Load
  <2>. HIDE DEF r
  <2>. QED
    BY <1>1, <2>1, ConnsNone DEF Load
<1>2. ASSUME LoadLook(c) PROVE TabsNeverShare'
  BY <1>2, OtherLocals, ConnsReply, ConnsNone DEF LoadLook, Goto
<1>3. ASSUME LoadConnect(c) PROVE TabsNeverShare'
  <2> DEFINE r == [call[c] EXCEPT !.pc = "loadInsert", !.pool = NewPool]
  <2>1. r.conn = call[c].conn
    BY OtherLocals
  <2>2. CASE Become(c, r)
    <3>. HIDE DEF r
    <3>. QED
      BY <1>3, <2>1, <2>2, ConnsNone DEF LoadConnect
  <2>3. CASE Reply(c)
    BY <1>3, <2>3, ConnsReply DEF LoadConnect
  <2>. QED
    BY <1>3, <2>2, <2>3 DEF LoadConnect
<1>4. ASSUME LoadInsert(c) PROVE TabsNeverShare'
  BY <1>4, ConnsReply DEF LoadInsert
<1>. QED
  BY <1>1, <1>2, <1>3, <1>4

(* A close takes sessions out of the map. *)
LEMMA ConnsClose ==
    ASSUME TypeInv, TabsNeverShare, NEW c \in Calls
    PROVE  /\ \A d \in Dbs \cup {None} : Close(c, d) => TabsNeverShare'
           /\ CloseAsk(c) \/ CloseBegin(c) \/ CloseDrained(c) => TabsNeverShare'
           /\ \A d \in Dbs : CloseTake(c, d) => TabsNeverShare'
<1> USE DEF At, WithConn, Cancelling
<1>1. ASSUME NEW d \in Dbs \cup {None}, Close(c, d) PROVE TabsNeverShare'
  <2> DEFINE r == [call[c] EXCEPT !.pc = "closeAsk", !.db = d]
  <2>1. r.conn = call[c].conn /\ Become(c, r)
    BY <1>1, OtherLocals DEF Close
  <2>2. \A k \in Keys : sessions'[k] \in {None, sessions[k]}
    BY <1>1 DEF Close
  <2>. HIDE DEF r
  <2>. QED
    BY <1>1, <2>1, <2>2, ConnsNone DEF Close
<1>2. ASSUME CloseAsk(c) PROVE TabsNeverShare'
  BY <1>2, OtherLocals, ConnsNone DEF CloseAsk, Goto
<1>3. ASSUME CloseBegin(c) PROVE TabsNeverShare'
  <2> DEFINE found == {d \in Dbs : call[c].db \in {d, None} /\ instances[d] # None}
             r == [call[c] EXCEPT !.pc = "closing", !.dbs = found]
  <2>1. r.conn = call[c].conn
    BY OtherLocals
  <2>2. CASE Become(c, r)
    <3>. HIDE DEF r
    <3>. QED
      BY <1>3, <2>1, <2>2, ConnsNone DEF CloseBegin
  <2>3. CASE Reply(c)
    BY <1>3, <2>3, ConnsReply DEF CloseBegin
  <2>. QED
    BY <1>3, <2>2, <2>3 DEF CloseBegin
<1>4. ASSUME CloseDrained(c) PROVE TabsNeverShare'
  <2> DEFINE r == [call[c] EXCEPT !.pc = "closing", !.pool = None]
  <2>1. r.conn = call[c].conn
    BY OtherLocals
  <2>2. CASE Become(c, r)
    <3>. HIDE DEF r
    <3>. QED
      BY <1>4, <2>1, <2>2, ConnsNone DEF CloseDrained
  <2>3. CASE Reply(c)
    BY <1>4, <2>3, ConnsReply DEF CloseDrained
  <2>. QED
    BY <1>4, <2>2, <2>3 DEF CloseDrained
<1>5. ASSUME NEW d \in Dbs, CloseTake(c, d) PROVE TabsNeverShare'
  <2> DEFINE r == [call[c] EXCEPT !.pc = "draining", !.pool = instances[d], !.dbs = @ \ {d}]
  <2>1. r.conn = call[c].conn /\ Become(c, r)
    BY <1>5, OtherLocals DEF CloseTake
  <2>. HIDE DEF r
  <2>. QED
    BY <1>5, <2>1, ConnsNone DEF CloseTake
<1>. QED
  BY <1>1, <1>2, <1>3, <1>4, <1>5

LEMMA ConnsTake ==
    ASSUME TypeInv, TabsNeverShare, NEW c \in Calls
    PROVE  /\ \A d \in Dbs : Select(c, d) => TabsNeverShare'
           /\ SelectLook(c) \/ SelectDone(c) \/ RunLookup(c) \/ CancelLook(c) => TabsNeverShare'
<1>1. ASSUME NEW d \in Dbs, Select(c, d) PROVE TabsNeverShare'
  <2> DEFINE r == [call[c] EXCEPT !.pc = "select", !.db = d]
  <2>1. r.conn = call[c].conn /\ Become(c, r)
    BY <1>1, OtherLocals DEF Select
  <2>. HIDE DEF r
  <2>. QED
    BY <1>1, <2>1, ConnsNone DEF Select, At, WithConn, Cancelling
<1>2. ASSUME SelectDone(c) PROVE TabsNeverShare'
  BY <1>2, ConnsReply DEF SelectDone
<1>3. ASSUME NEW l, TakePool(c, l) PROVE TabsNeverShare'
  <2> DEFINE r == [call[c] EXCEPT !.pc = l, !.pool = Pool(c)]
  <2>1. r.conn = call[c].conn /\ r.db = call[c].db /\ r.tab = call[c].tab
    BY OtherLocals
  <2>2. CASE Become(c, r)
    <3>. HIDE DEF r
    <3>. QED
      BY <1>3, <2>1, <2>2, ConnsQuiet DEF TakePool
  <2>3. CASE Reply(c)
    BY <1>3, <2>3, ConnsReply DEF TakePool
  <2>. QED
    BY <1>3, <2>2, <2>3 DEF TakePool
<1>. QED
  BY <1>1, <1>2, <1>3 DEF SelectLook, RunLookup, CancelLook

(* A call takes the session of its tab, which it may also put in the map,  *)
(* or a connection that no other call and no tab has.                      *)
LEMMA ConnsShared ==
    ASSUME TypeInv, TabsNeverShare, NEW c \in Calls, NEW r, Become(c, r), NEW k \in Keys, NEW s \in Conns,
           r.conn = s, <<r.db, r.tab>> = k,
           \/ sessions[k] = s
           \/ s = call[c].conn /\ Key(c) = k
           \/ FreeConn(s),
           sessions' = sessions \/ sessions' = [sessions EXCEPT ![k] = s]
    PROVE  TabsNeverShare'
<1>1. call'[c] = r /\ \A d \in Calls : d # c => call'[d] = call[d]
  BY DEF Become, TypeInv, TypeOK
<1>2. /\ \A j \in Keys : j # k => sessions'[j] = sessions[j]
      /\ sessions'[k] \in {s, sessions[k]}
  BY DEF TypeInv, TypeOK
<1>3. s # None
  BY NoneAssumption
<1>4. /\ \A d \in Calls : d # c /\ call[d].conn = s => Key(d) = k
      /\ \A j \in Keys : sessions[j] = s => j = k
  BY <1>3 DEF TabsNeverShare, FreeConn
<1>5. ASSUME NEW d \in Calls, NEW e \in Calls, call'[d].conn # None, call'[d].conn = call'[e].conn
      PROVE  Key(d)' = Key(e)'
  BY <1>1, <1>4, <1>5 DEF Key, TabsNeverShare
<1>6. ASSUME NEW j \in Keys, NEW d \in Calls, sessions'[j] # None, sessions'[j] = call'[d].conn
      PROVE  Key(d)' = j
  BY <1>1, <1>2, <1>4, <1>6 DEF Key, TabsNeverShare
<1>7. ASSUME NEW i \in Keys, NEW j \in Keys, sessions'[j] # None, sessions'[i] = sessions'[j]
      PROVE  i = j
  BY <1>2, <1>4, <1>7 DEF TabsNeverShare
<1>. QED
  BY <1>5, <1>6, <1>7 DEF TabsNeverShare

LEMMA ConnsRun ==
    ASSUME TypeInv, TabsNeverShare, NEW c \in Calls
    PROVE  /\ \A k \in Keys : Run(c, k) => TabsNeverShare'
           /\ RunPing(c) \/ RunDropDead(c) \/ RunAcquire(c) => TabsNeverShare'
           /\ RunOpened(c) \/ RunAnswered(c) \/ RunDropLost(c) => TabsNeverShare'
<1>1. ASSUME NEW k \in Keys, Run(c, k) PROVE TabsNeverShare'
  <2> DEFINE R(l) == [call[c] EXCEPT !.pc = l, !.db = k[1], !.tab = k[2], !.conn = sessions[k]]
  <2>1. PICK l : Become(c, R(l))
    BY <1>1 DEF Run
  <2>2. R(l).conn = sessions[k] /\ <<R(l).db, R(l).tab>> = k
    BY IsSuspended DEF CallRecords, Keys
  <2>3. sessions' = sessions
    BY <1>1 DEF Run
  <2>4. sessions[k] \in Conns \cup {None}
    BY DEF TypeInv, TypeOK
  <2>. HIDE DEF R
  <2>5. CASE sessions[k] = None
    BY <2>1, <2>2, <2>3, <2>5, ConnsQuiet
  <2>6. CASE sessions[k] # None
    BY <2>1, <2>2, <2>3, <2>4, <2>6, ConnsShared
  <2>. QED
    BY <2>5, <2>6
<1>2. ASSUME RunPing(c) PROVE TabsNeverShare'
  <2>1. PICK l : Become(c, [call[c] EXCEPT !.pc = l])
    BY <1>2 DEF RunPing, Goto
  <2>. QED
    BY <1>2, <2>1, OtherLocals, ConnsQuiet DEF RunPing
<1>3. ASSUME RunDropDead(c) PROVE TabsNeverShare'
  <2>1. \A k \in Keys : sessions'[k] \in {None, sessions[k]}
    BY <1>3 DEF RunDropDead, TypeInv, TypeOK
  <2>. QED
    BY <1>3, <2>1, OtherLocals, ConnsQuiet DEF RunDropDead
<1>4. ASSUME RunAcquire(c) PROVE TabsNeverShare'
  <2> DEFINE r == [call[c] EXCEPT !.pc = "opening", !.pool = None, !.conn = NewConn]
  <2>1. CASE Reply(c)
    BY <1>4, <2>1, ConnsReply DEF RunAcquire
  <2>2. CASE Become(c, r) /\ \E s \in Conns : FreeConn(s)
    <3>1. NewConn \in Conns /\ FreeConn(NewConn) /\ Key(c) \in Keys
      BY <1>4, <2>2, FreshIdentities, IsSuspended, Locals DEF RunAcquire, At, Key, Keys, Running
    <3>2. r.conn = NewConn /\ <<r.db, r.tab>> = Key(c)
      BY IsSuspended DEF CallRecords, Key
    <3>. HIDE DEF r
    <3>. QED
      BY <1>4, <2>2, <3>1, <3>2, ConnsShared DEF RunAcquire
  <2>. QED
    BY <1>4, <2>1, <2>2 DEF RunAcquire
<1>5. ASSUME RunOpened(c) PROVE TabsNeverShare'
  <2> DEFINE s == IF sessions[Key(c)] = None THEN call[c].conn ELSE sessions[Key(c)]
             r == [call[c] EXCEPT !.pc = "queued", !.conn = s]
  <2>1. CASE Reply(c) /\ sessions' = sessions
    BY <1>5, <2>1, ConnsReply
  <2>2. CASE Become(c, r) /\ sessions' = [sessions EXCEPT ![Key(c)] = s]
    <3>1. Key(c) \in Keys /\ call[c].conn \in Conns
      BY <1>5, IsSuspended, Locals DEF RunOpened, At, Key, Keys, Running
    <3>2. s \in Conns /\ (sessions[Key(c)] = s \/ s = call[c].conn)
      BY <3>1 DEF TypeInv, TypeOK
    <3>3. r.conn = s /\ <<r.db, r.tab>> = Key(c)
      BY IsSuspended DEF CallRecords, Key
    <3>. HIDE DEF r, s
    <3>. QED
      BY <2>2, <3>1, <3>2, <3>3, ConnsShared
  <2>. QED
    BY <1>5, <2>1, <2>2 DEF RunOpened
<1>6. ASSUME RunAnswered(c) PROVE TabsNeverShare'
  <2>1. CASE Reply(c)
    BY <1>6, <2>1, ConnsReply DEF RunAnswered
  <2>2. CASE Goto(c, "removeLost")
    BY <1>6, <2>2, OtherLocals, ConnsQuiet DEF RunAnswered, Goto
  <2>. QED
    BY <1>6, <2>1, <2>2 DEF RunAnswered
<1>7. ASSUME RunDropLost(c) PROVE TabsNeverShare'
  <2>1. \A k \in Keys : sessions'[k] \in {None, sessions[k]}
    BY <1>7 DEF RunDropLost, TypeInv, TypeOK
  <2>. QED
    BY <1>7, <2>1, ConnsReply DEF RunDropLost
<1>. QED
  BY <1>1, <1>2, <1>3, <1>4, <1>5, <1>6, <1>7

LEMMA ConnsCancel ==
    ASSUME TypeInv, TabsNeverShare, NEW c \in Calls
    PROVE  /\ \A k \in Keys : Cancel(c, k) => TabsNeverShare'
           /\ CancelAcquire(c) \/ CancelSend(c) => TabsNeverShare'
<1>1. ASSUME NEW k \in Keys, Cancel(c, k) PROVE TabsNeverShare'
  <2> DEFINE r == [call[c] EXCEPT !.pc = "cancel", !.db = k[1], !.tab = k[2], !.conn = sessions[k]]
  <2>1. Become(c, r) /\ sessions[k] \in Conns /\ sessions' = sessions
    BY <1>1 DEF Cancel, TypeInv, TypeOK
  <2>2. r.conn = sessions[k] /\ <<r.db, r.tab>> = k
    BY IsSuspended DEF CallRecords, Keys
  <2>. HIDE DEF r
  <2>. QED
    BY <2>1, <2>2, ConnsShared
<1>2. ASSUME CancelAcquire(c) PROVE TabsNeverShare'
  <2>1. CASE Reply(c)
    BY <1>2, <2>1, ConnsReply DEF CancelAcquire
  <2>2. CASE Goto(c, "cancelSend")
    BY <1>2, <2>2, OtherLocals, ConnsQuiet DEF CancelAcquire, Goto
  <2>. QED
    BY <1>2, <2>1, <2>2 DEF CancelAcquire
<1>3. ASSUME CancelSend(c) PROVE TabsNeverShare'
  <2>1. CASE Reply(c)
    BY <1>3, <2>1, ConnsReply DEF CancelSend
  <2>2. CASE ~ Reply(c)
    <3>1. call'[c].conn = None
      BY <1>3, <2>2 DEF CancelSend, Idle
    <3>2. ASSUME NEW d \in Calls, d # c
          PROVE  call'[d].conn = call[d].conn /\ Key(d)' = Key(d)
      BY <1>3, <2>2, <3>2, IsSuspended DEF CancelSend, CallRecords, Key
    <3>. QED
      BY <1>3, <3>1, <3>2, ConnsFrame DEF CancelSend
  <2>. QED
    BY <2>1, <2>2
<1>. QED
  BY <1>1, <1>2, <1>3

LEMMA ConnsStep == TypeInv /\ TabsNeverShare /\ [Next]_vars => TabsNeverShare'
<1> SUFFICES ASSUME TypeInv, TabsNeverShare, [Next]_vars PROVE TabsNeverShare'
  OBVIOUS
<1>1. CASE Invoke
  BY <1>1, ConnsLoad, ConnsClose, ConnsTake, ConnsRun, ConnsCancel DEF Invoke, Calls
<1>2. ASSUME NEW c \in Calls, Proceed(c) \/ SelectDone(c) \/ RunAnswered(c) PROVE TabsNeverShare'
  BY <1>2, ConnsLoad, ConnsClose, ConnsTake, ConnsRun, ConnsCancel DEF Proceed
<1>3. ASSUME call' = call, \A k \in Keys : sessions'[k] \in {None, sessions[k]}
      PROVE  TabsNeverShare'
  BY <1>3, ConnsFrame DEF Key
<1>4. ASSUME NEW s \in Conns, LoseConn(s) \/ GoStale(s) PROVE TabsNeverShare'
  BY <1>3, <1>4 DEF LoseConn, GoStale
<1>5. ASSUME NEW k \in Keys, EndSession(k) PROVE TabsNeverShare'
  BY <1>3, <1>5 DEF EndSession, TypeInv, TypeOK
<1>6. CASE UNCHANGED vars
  BY <1>3, <1>6 DEF vars
<1>. QED
  BY <1>1, <1>2, <1>4, <1>5, <1>6 DEF Next, Step

(* Statements of different tabs never meet on one connection, however many *)
(* statements of each tab are in flight.                                   *)
THEOREM TabsApart == Spec => []TabsNeverShare
<1>1. Init => TabsNeverShare
  BY DEF Init, Idle, TabsNeverShare
<1>. QED
  BY TypeInit, TypeStep, ConnsStep, <1>1, PTL DEF Spec

-----------------------------------------------------------------------------
(* What a step does to the runs, to the map and to the dead connections.   *)

(* What a step of another call leaves as it is. *)
Same(d) == /\ call'[d].pc = call[d].pc /\ Key(d)' = Key(d) /\ call'[d].conn = call[d].conn
           /\ call'[d].reconnected = call[d].reconnected

RunStep(c) == RunPing(c) \/ RunDropDead(c) \/ RunLookup(c) \/ RunAcquire(c) \/ RunOpened(c)
              \/ RunAnswered(c) \/ RunDropLost(c)

LEMMA OthersStay ==
    ASSUME TypeInv, NEW c \in Calls, NEW r, Become(c, r)
    PROVE  /\ \A d \in Calls : d # c => Same(d)
           /\ call'[c] = r
<1>1. call'[c] = r /\ \A d \in Calls : d # c => call'[d] = call[d]
  BY DEF Become, TypeInv, TypeOK
<1>. QED
  BY <1>1 DEF Same, Key

(* A step of a run is one of its actions, and every other run stays where  *)
(* it is.                                                                  *)
LEMMA Moves ==
    ASSUME TypeInv, [Next]_vars, NEW c \in Calls, call[c].pc \in Running
    PROVE  Same(c) \/ RunStep(c)
<1>1. ASSUME NEW d \in Calls, NEW r, Become(d, r), call[d].pc \notin Running PROVE Same(c)
  BY <1>1, OthersStay
<1> USE DEF At, Running
<1>2. CASE Invoke
  <2>1. PICK d \in Calls : call[d].pc = "idle" /\ \E r : Become(d, r)
    BY <1>2 DEF Invoke, Calls, Load, Close, Select, Run, Cancel
  <2>. QED
    BY <1>1, <2>1
<1>3. ASSUME NEW d \in Calls, Proceed(d) \/ SelectDone(d) \/ RunAnswered(d) PROVE Same(c) \/ RunStep(c)
  <2>1. CASE LoadLook(d) \/ LoadConnect(d) \/ LoadInsert(d)
    <3>1. call[d].pc \notin Running /\ \E r : Become(d, r)
      BY <2>1 DEF LoadLook, LoadConnect, LoadInsert, Goto, Reply
    <3>. QED
      BY <1>1, <3>1
  <2>2. CASE CloseAsk(d) \/ CloseBegin(d) \/ (\E b \in Dbs : CloseTake(d, b)) \/ CloseDrained(d)
    <3>1. call[d].pc \notin Running /\ \E r : Become(d, r)
      BY <2>2 DEF CloseAsk, CloseBegin, CloseTake, CloseDrained, Goto, Reply
    <3>. QED
      BY <1>1, <3>1
  <2>3. CASE SelectLook(d) \/ SelectDone(d) \/ CancelLook(d) \/ CancelAcquire(d)
    <3>1. call[d].pc \notin Running /\ \E r : Become(d, r)
      BY <2>3 DEF SelectLook, SelectDone, CancelLook, CancelAcquire, TakePool, Goto, Reply
    <3>. QED
      BY <1>1, <3>1
  <2>4. CASE CancelSend(d)
    <3>1. c # d
      BY <2>4 DEF CancelSend
    <3>2. CASE Reply(d)
      BY <3>1, <3>2, OthersStay DEF Reply
    <3>3. CASE ~ Reply(d)
      <4>1. call'[c] = call[c] \/ call'[c] = [call[c] EXCEPT !.interrupted = TRUE]
        BY <2>4, <3>1, <3>3 DEF CancelSend
      <4>. QED
        BY <4>1, IsSuspended DEF Same, Key, CallRecords
    <3>. QED
      BY <3>2, <3>3
  <2>5. CASE RunStep(d)
    <3>1. d # c => \E r : Become(d, r)
      BY <2>5 DEF RunStep, RunPing, RunDropDead, RunLookup, RunAcquire, RunOpened, RunAnswered,
                  RunDropLost, TakePool, Goto, Reply
    <3>. QED
      BY <2>5, <3>1, OthersStay
  <2>. QED
    BY <1>3, <2>1, <2>2, <2>3, <2>4, <2>5 DEF Proceed, RunStep
<1>4. ASSUME call' = call PROVE Same(c)
  BY <1>4 DEF Same, Key
<1>5. ASSUME NEW s \in Conns, LoseConn(s) \/ GoStale(s) PROVE Same(c)
  BY <1>4, <1>5 DEF LoseConn, GoStale
<1>6. ASSUME NEW k \in Keys, EndSession(k) PROVE Same(c)
  BY <1>4, <1>6 DEF EndSession
<1>7. CASE UNCHANGED vars
  BY <1>4, <1>7 DEF vars
<1>. QED
  BY <1>2, <1>3, <1>5, <1>6, <1>7 DEF Next, Step

LEMMA NextAwait ==
    ASSUME TypeInv, NEW c \in Calls, NEW l
    PROVE  /\ [call[c] EXCEPT !.pc = l].pc = l
           /\ \A d : [call[c] EXCEPT !.pc = l, !.db = d].pc = l
           /\ \A p : [call[c] EXCEPT !.pc = l, !.pool = p].pc = l
           /\ \A ds : [call[c] EXCEPT !.pc = l, !.dbs = ds].pc = l
           /\ \A p, d : [call[c] EXCEPT !.pc = l, !.pool = p, !.dbs = @ \ {d}].pc = l
           /\ \A d, t, s : [call[c] EXCEPT !.pc = l, !.db = d, !.tab = t, !.conn = s].pc = l
<1>1. call[c] \in CallRecords
  BY IsSuspended
<1>. QED
  BY <1>1 DEF CallRecords

(* Only Run makes a run out of a call. *)
LEMMA Starts ==
    ASSUME TypeInv, [Next]_vars, NEW c \in Calls, call[c].pc \notin Running, call'[c].pc \in Running
    PROVE  \E k \in Keys : Run(c, k)
<1>1. ASSUME NEW d \in Calls, NEW r, Become(d, r), r.pc \notin Running PROVE FALSE
  <2>1. call'[d].pc \notin Running /\ \A e \in Calls : e # d => Same(e)
    BY <1>1, OthersStay
  <2>. QED
    BY <2>1 DEF Same
<1>2. ASSUME NEW d \in Calls, Reply(d) PROVE FALSE
  BY <1>1, <1>2 DEF Reply, Idle, Running
<1>3. ASSUME NEW d \in Calls, NEW l, l \notin Running, Goto(d, l) PROVE FALSE
  <2> DEFINE r == [call[d] EXCEPT !.pc = l]
  <2>1. r.pc = l /\ Become(d, r)
    BY <1>3, NextAwait DEF Goto
  <2>. HIDE DEF r
  <2>. QED
    BY <1>1, <1>3, <2>1
<1>4. ASSUME NEW d \in Calls, NEW l, l \notin Running, TakePool(d, l) PROVE FALSE
  <2> DEFINE r == [call[d] EXCEPT !.pc = l, !.pool = Pool(d)]
  <2>1. r.pc = l /\ (Reply(d) \/ Become(d, r))
    BY <1>4, NextAwait DEF TakePool
  <2>. HIDE DEF r
  <2>. QED
    BY <1>1, <1>2, <1>4, <2>1
<1>5. CASE Invoke
  <2>1. ASSUME NEW d \in Calls, NEW l \in {"load", "closeAsk", "select"}, NEW b,
               Become(d, [call[d] EXCEPT !.pc = l, !.db = b])
        PROVE  FALSE
    <3> DEFINE r == [call[d] EXCEPT !.pc = l, !.db = b]
    <3>1. r.pc = l /\ Become(d, r)
      BY <2>1, NextAwait
    <3>. HIDE DEF r
    <3>. QED
      BY <1>1, <3>1 DEF Running
  <2>2. ASSUME NEW d \in Calls, NEW k \in Keys, Cancel(d, k) PROVE FALSE
    <3> DEFINE r == [call[d] EXCEPT !.pc = "cancel", !.db = k[1], !.tab = k[2],
                                    !.conn = sessions[k]]
    <3>1. r.pc = "cancel" /\ Become(d, r)
      BY <2>2, NextAwait DEF Cancel
    <3>. HIDE DEF r
    <3>. QED
      BY <1>1, <3>1 DEF Running
  <2>3. ASSUME NEW d \in Calls, NEW k \in Keys, Run(d, k) PROVE Run(c, k)
    <3>1. \E r : Become(d, r)
      BY <2>3 DEF Run
    <3>. QED
      BY <2>3, <3>1, OthersStay DEF Same
  <2>. QED
    BY <1>5, <2>1, <2>2, <2>3 DEF Invoke, Calls, Load, Close, Select
<1>6. ASSUME NEW d \in Calls, Proceed(d) \/ SelectDone(d) \/ RunAnswered(d) PROVE FALSE
  <2>1. CASE LoadLook(d) \/ LoadInsert(d) \/ CloseAsk(d) \/ CancelAcquire(d) \/ SelectDone(d)
    <3>1. Reply(d) \/ Goto(d, "connecting") \/ Goto(d, "close") \/ Goto(d, "cancelSend")
      BY <2>1 DEF LoadLook, LoadInsert, CloseAsk, CancelAcquire, SelectDone
    <3>. QED
      BY <1>2, <1>3, <3>1 DEF Running
  <2>2. CASE LoadConnect(d)
    <3> DEFINE r == [call[d] EXCEPT !.pc = "loadInsert", !.pool = NewPool]
    <3>1. r.pc = "loadInsert" /\ (Reply(d) \/ Become(d, r))
      BY <2>2, NextAwait DEF LoadConnect
    <3>. HIDE DEF r
    <3>. QED
      BY <1>1, <1>2, <3>1 DEF Running
  <2>3. CASE CloseBegin(d)
    <3> DEFINE found == {b \in Dbs : call[d].db \in {b, None} /\ instances[b] # None}
               r == [call[d] EXCEPT !.pc = "closing", !.dbs = found]
    <3>1. r.pc = "closing" /\ (Reply(d) \/ Become(d, r))
      BY <2>3, NextAwait DEF CloseBegin
    <3>. HIDE DEF r
    <3>. QED
      BY <1>1, <1>2, <3>1 DEF Running
  <2>4. ASSUME NEW b \in Dbs, CloseTake(d, b) PROVE FALSE
    <3> DEFINE r == [call[d] EXCEPT !.pc = "draining", !.pool = instances[b], !.dbs = @ \ {b}]
    <3>1. r.pc = "draining" /\ Become(d, r)
      BY <2>4, NextAwait DEF CloseTake
    <3>. HIDE DEF r
    <3>. QED
      BY <1>1, <3>1 DEF Running
  <2>5. CASE CloseDrained(d)
    <3> DEFINE r == [call[d] EXCEPT !.pc = "closing", !.pool = None]
    <3>1. r.pc = "closing" /\ (Reply(d) \/ Become(d, r))
      BY <2>5, NextAwait DEF CloseDrained
    <3>. HIDE DEF r
    <3>. QED
      BY <1>1, <1>2, <3>1 DEF Running
  <2>6. CASE SelectLook(d) \/ CancelLook(d)
    BY <1>4, <2>6 DEF SelectLook, CancelLook, Running
  <2>7. CASE CancelSend(d)
    <3>1. ~ Reply(d)
      BY <1>2
    <3>2. call'[c] = Idle \/ call'[c] = call[c] \/ call'[c] = [call[c] EXCEPT !.interrupted = TRUE]
      BY <2>7, <3>1 DEF CancelSend
    <3>. QED
      BY <3>2, IsSuspended DEF Idle, CallRecords, Running
  <2>8. CASE RunStep(d)
    <3>1. d # c /\ \E r : Become(d, r)
      BY <2>8 DEF RunStep, RunPing, RunDropDead, RunLookup, RunAcquire, RunOpened, RunAnswered,
                  RunDropLost, TakePool, Goto, Reply, At, Running
    <3>. QED
      BY <3>1, OthersStay DEF Same
  <2>. QED
    BY <1>6, <2>1, <2>2, <2>3, <2>4, <2>5, <2>6, <2>7, <2>8 DEF Proceed, RunStep
<1>7. CASE call' = call
  BY <1>7
<1>. QED
  BY <1>5, <1>6, <1>7 DEF Next, Step, LoseConn, GoStale, EndSession, vars

(* An entry of the map is removed, stays, or is filled by a run. *)
LEMMA MapMoves ==
    ASSUME TypeInv, [Next]_vars, NEW k \in Keys
    PROVE  sessions'[k] \in {None, sessions[k]} \/ \E e \in Calls : Refills(e, k)
<1>1. ASSUME NEW c \in Calls, RunOpened(c)
      PROVE  sessions'[k] \in {None, sessions[k]} \/ Refills(c, k)
  BY <1>1 DEF RunOpened, Refills, TypeInv, TypeOK
<1>2. ASSUME NEW c \in Calls, RunDropDead(c) \/ RunDropLost(c)
      PROVE  sessions'[k] \in {None, sessions[k]}
  BY <1>2 DEF RunDropDead, RunDropLost, TypeInv, TypeOK
<1>3. ASSUME NEW c \in Calls, NEW d, Close(c, d) PROVE sessions'[k] \in {None, sessions[k]}
  BY <1>3 DEF Close
<1>4. ASSUME NEW j \in Keys, EndSession(j) PROVE sessions'[k] \in {None, sessions[k]}
  BY <1>4 DEF EndSession, TypeInv, TypeOK
<1>5. CASE Invoke
  BY <1>3, <1>5 DEF Invoke, Load, Select, Run, Cancel, Calls
<1>6. ASSUME NEW c \in Calls, Proceed(c) \/ SelectDone(c) \/ RunAnswered(c)
      PROVE  sessions'[k] \in {None, sessions[k]} \/ Refills(c, k)
  BY <1>1, <1>2, <1>6 DEF Proceed, LoadLook, LoadConnect, LoadInsert, CloseAsk, CloseBegin,
     CloseTake, CloseDrained, SelectLook, SelectDone, RunPing, RunLookup, RunAcquire, RunAnswered,
     CancelLook, CancelAcquire, CancelSend, TakePool
<1>. QED
  BY <1>4, <1>5, <1>6 DEF Next, Step, LoseConn, GoStale, vars

(* A connection a call refers to does not come back to life. *)
LEMMA DeadStay ==
    ASSUME TypeInv, [Next]_vars, NEW d \in Calls, call[d].conn \in dead
    PROVE  call[d].conn \in dead'
<1>1. ASSUME NEW c \in Calls, RunAcquire(c) PROVE call[d].conn \in dead'
  <2>1. CASE dead' = dead \ {NewConn} /\ \E s \in Conns : FreeConn(s)
    BY <2>1, FreshIdentities DEF FreeConn
  <2>. QED
    BY <1>1, <2>1 DEF RunAcquire
<1>2. CASE Invoke
  BY <1>2 DEF Invoke, Load, Close, Select, Run, Cancel
<1>3. ASSUME NEW c \in Calls, Proceed(c) \/ SelectDone(c) \/ RunAnswered(c)
      PROVE  call[d].conn \in dead'
  BY <1>1, <1>3 DEF Proceed, LoadLook, LoadConnect, LoadInsert, CloseAsk, CloseBegin,
     CloseTake, CloseDrained, SelectLook, SelectDone, RunPing, RunDropDead, RunLookup, RunOpened,
     RunAnswered, RunDropLost, CancelLook, CancelAcquire, CancelSend, TakePool
<1>. QED
  BY <1>2, <1>3 DEF Next, Step, LoseConn, GoStale, EndSession, vars

-----------------------------------------------------------------------------
(* The entry of the tab a run works in is the connection the run has, or   *)
(* nothing, until another run opens the tab a new session; and a run that  *)
(* is about to drop the entry has found its connection dead.               *)
OwnEntry(c) ==
    /\ call[c].pc \in OnSession /\ c \notin refilled => sessions[Key(c)] \in {None, call[c].conn}
    /\ call[c].pc \in {"removeDead", "removeLost"} => call[c].conn \in dead

OwnEntries == \A c \in Calls : OwnEntry(c)

LEMMA OwnRunStep ==
    ASSUME TypeInv, NEW c \in Calls, OwnEntry(c), RunStep(c), c \in refilled => c \in refilled' \/
           call'[c].pc \notin OnSession
    PROVE  OwnEntry(c)'
<1>1. call[c] \in CallRecords
  BY IsSuspended
<1>2. ASSUME NEW l, Goto(c, l)
      PROVE  call'[c].pc = l /\ call'[c].conn = call[c].conn /\ Key(c)' = Key(c)
  <2> DEFINE r == [call[c] EXCEPT !.pc = l]
  <2>1. r.pc = l /\ r.conn = call[c].conn /\ r.db = call[c].db /\ r.tab = call[c].tab
    BY <1>1 DEF CallRecords
  <2>2. call'[c] = r
    BY <1>2, OthersStay DEF Goto
  <2>. HIDE DEF r
  <2>. QED
    BY <2>1, <2>2 DEF Key
<1>3. ASSUME call'[c].pc \notin OnSession PROVE OwnEntry(c)'
  BY <1>3 DEF OwnEntry, OnSession
<1>4. ASSUME Reply(c) PROVE OwnEntry(c)'
  BY <1>3, <1>4, BecomesIdle DEF OnSession
<1>5. CASE RunPing(c)
  <2>1. PICK l \in {"removeDead", "queued"} :
           Goto(c, l) /\ (l = "removeDead" => call[c].conn \in dead)
    BY <1>5 DEF RunPing
  <2>2. sessions' = sessions /\ dead' = dead /\ call[c].pc = "pinging"
    BY <1>5 DEF RunPing, At
  <2>. QED
    BY <1>2, <2>1, <2>2 DEF OwnEntry, OnSession
<1>6. CASE RunAnswered(c)
  <2>1. CASE Goto(c, "removeLost") /\ dead' = dead \cup {call[c].conn}
    <3>1. sessions' = sessions /\ call[c].pc = "queued"
      BY <1>6 DEF RunAnswered, At
    <3>. QED
      BY <1>2, <2>1, <3>1 DEF OwnEntry, OnSession
  <2>. QED
    BY <1>4, <1>6, <2>1 DEF RunAnswered
<1>7. CASE RunDropDead(c)
  <2> DEFINE r == [call[c] EXCEPT !.pc = "lookup", !.conn = None, !.reconnected = TRUE]
  <2>1. r.pc = "lookup"
    BY <1>1 DEF CallRecords
  <2>2. call'[c] = r
    BY <1>7, OthersStay DEF RunDropDead
  <2>. HIDE DEF r
  <2>. QED
    BY <1>3, <2>1, <2>2 DEF OnSession
<1>8. CASE RunLookup(c)
  <2> DEFINE r == [call[c] EXCEPT !.pc = "acquiring", !.pool = Pool(c)]
  <2>1. r.pc = "acquiring"
    BY <1>1 DEF CallRecords
  <2>2. Become(c, r) => call'[c] = r
    BY OthersStay
  <2>3. Reply(c) \/ Become(c, r)
    BY <1>8 DEF RunLookup, TakePool
  <2>. HIDE DEF r
  <2>. QED
    BY <1>3, <1>4, <2>1, <2>2, <2>3 DEF OnSession
<1>9. CASE RunAcquire(c)
  <2> DEFINE r == [call[c] EXCEPT !.pc = "opening", !.pool = None, !.conn = NewConn]
  <2>1. r.pc = "opening"
    BY <1>1 DEF CallRecords
  <2>2. Become(c, r) => call'[c] = r
    BY OthersStay
  <2>3. Reply(c) \/ Become(c, r)
    BY <1>9 DEF RunAcquire
  <2>. HIDE DEF r
  <2>. QED
    BY <1>3, <1>4, <2>1, <2>2, <2>3 DEF OnSession
<1>10. CASE RunOpened(c)
  <2> DEFINE s == IF sessions[Key(c)] = None THEN call[c].conn ELSE sessions[Key(c)]
             r == [call[c] EXCEPT !.pc = "queued", !.conn = s]
  <2>1. r.pc = "queued" /\ r.conn = s /\ r.db = call[c].db /\ r.tab = call[c].tab
    BY <1>1 DEF CallRecords
  <2>2. CASE Become(c, r) /\ sessions' = [sessions EXCEPT ![Key(c)] = s]
    <3>1. Key(c) \in Keys
      BY <1>10, IsSuspended, Locals DEF RunOpened, At, Key, Keys, Running
    <3>2. sessions'[Key(c)] = s
      BY <2>2, <3>1 DEF TypeInv, TypeOK
    <3>3. call'[c] = r
      BY <2>2, OthersStay
    <3>. HIDE DEF r, s
    <3>. QED
      BY <2>1, <3>2, <3>3 DEF OwnEntry, Key
  <2>. QED
    BY <1>4, <1>10, <2>2 DEF RunOpened
<1>11. CASE RunDropLost(c)
  BY <1>4, <1>11 DEF RunDropLost
<1>. QED
  BY <1>5, <1>6, <1>7, <1>8, <1>9, <1>10, <1>11 DEF RunStep

LEMMA OwnEntriesStep ==
    ASSUME TypeInv, OwnEntries, [Next]_vars, Observe
    PROVE  OwnEntries'
<1> SUFFICES ASSUME NEW c \in Calls PROVE OwnEntry(c)'
  BY DEF OwnEntries
<1>1. OwnEntry(c)
  BY DEF OwnEntries
<1>2. c \in refilled => c \in refilled' \/ call'[c].pc \notin OnSession
  BY DEF Observe
<1>3. CASE call[c].pc \in Running /\ Same(c)
  <2>1. Key(c) \in Keys
    BY <1>3, IsSuspended, Locals DEF Key, Keys
  <2>2. call[c].conn \in dead => call[c].conn \in dead'
    BY DeadStay
  <2>3. ASSUME call'[c].pc \in OnSession, c \notin refilled'
        PROVE  sessions'[Key(c)] \in {None, call[c].conn}
    <3>1. sessions[Key(c)] \in {None, call[c].conn}
      BY <1>1, <1>2, <1>3, <2>3 DEF OwnEntry, Same
    <3>2. ASSUME NEW e \in Calls, Refills(e, Key(c)) PROVE FALSE
      <4>1. e # c
        BY <1>3, <2>3, <3>2 DEF Refills, At, Same, OnSession
      <4>. QED
        BY <2>3, <3>2, <4>1 DEF Observe
    <3>. QED
      BY <2>1, <3>1, <3>2, MapMoves
  <2>. QED
    BY <1>1, <1>3, <2>2, <2>3 DEF OwnEntry, Same
<1>4. CASE RunStep(c)
  BY <1>1, <1>2, <1>4, OwnRunStep
<1>5. CASE call'[c].pc \notin Running
  BY <1>5 DEF OwnEntry, OnSession, Running
<1>6. CASE call[c].pc \notin Running /\ call'[c].pc \in Running
  <2>1. PICK k \in Keys : Run(c, k)
    BY <1>6, Starts
  <2> DEFINE R(l) == [call[c] EXCEPT !.pc = l, !.db = k[1], !.tab = k[2], !.conn = sessions[k]]
  <2>2. PICK l \in {"lookup", "pinging", "queued"} : Become(c, R(l))
    BY <2>1 DEF Run
  <2>3. R(l).pc = l /\ R(l).conn = sessions[k] /\ <<R(l).db, R(l).tab>> = k
    BY IsSuspended DEF CallRecords, Keys
  <2>4. call'[c] = R(l) /\ sessions' = sessions
    BY <2>1, <2>2, OthersStay DEF Run
  <2>. HIDE DEF R
  <2>. QED
    BY <2>3, <2>4 DEF OwnEntry, Key
<1>. QED
  BY <1>3, <1>4, <1>5, <1>6, Moves

LEMMA TabSteps == [TabNext]_tabVars => [Next]_vars
  BY DEF TabNext, Next, CloseTab, tabVars, vars

(* However the statements of a tab overlap, a run's cleanup takes a working *)
(* connection from its tab only when another run has just opened it, after  *)
(* the one the two of them shared was lost.                                 *)
THEOREM CleanupsSpareWorkingSessions == TabSpec => []OnlyDeadSessionsDropped
<1> DEFINE IInv == TypeInv /\ OwnEntries
<1>1. TabInit => IInv
  <2>1. Init => TypeInv
    BY TypeInit
  <2>. QED
    BY <2>1 DEF TabInit, Init, Idle, OwnEntries, OwnEntry, OnSession
<1>2. IInv /\ [TabNext]_tabVars => IInv'
  <2> SUFFICES ASSUME IInv, [TabNext]_tabVars PROVE IInv'
    OBVIOUS
  <2>1. TypeInv' /\ [Next]_vars
    BY TabSteps, TypeStep
  <2>2. CASE TabNext
    BY <2>1, <2>2, OwnEntriesStep DEF TabNext
  <2>3. CASE UNCHANGED tabVars
    BY <2>1, <2>3 DEF tabVars, vars, OwnEntries, OwnEntry, Key
  <2>. QED
    BY <2>1, <2>2, <2>3
<1>3. IInv => OnlyDeadSessionsDropped
  BY DEF OwnEntries, OwnEntry, OnlyDeadSessionsDropped, OnSession, At
<1>. QED
  BY <1>1, <1>2, <1>3, PTL DEF TabSpec

-----------------------------------------------------------------------------
(* A run that found its session's connection dead carries the notice until *)
(* it answers.                                                             *)
Reconnecting(c, k) ==
    /\ call[c].pc \in {"lookup", "acquiring", "opening", "queued", "removeLost"}
    /\ Key(c) = k
    /\ call[c].reconnected

Notice(k) ==
    \E c \in Calls : Reconnecting(c, k) /\ (call[c].pc = "queued" => call[c].conn = sessions[k])

(* A tab that lost its state untold has one run in flight, with the notice. *)
PromiseInv ==
    /\ state \in [Keys -> {"none", "kept", "told", "gone"}]
    /\ excused \subseteq {k \in Keys : state[k] = "gone"}
    /\ \A k \in Keys : state[k] \in {"kept", "told"} => sessions[k] # None
    /\ \A k \in Keys : state[k] = "gone" /\ k \notin excused => ~ Overlap(k) /\ Notice(k)

(* What a step of a run does to the map, and to the notice it carries. *)
LEMMA RunStepEffects ==
    ASSUME TypeInv, NEW c \in Calls, RunStep(c)
    PROVE  /\ call'[c].pc # call[c].pc
           /\ \A k \in Keys : Reconnecting(c, k) => Reconnecting(c, k)' \/ call'[c].pc = "idle"
           /\ call[c].pc \notin {"removeDead", "removeLost"} =>
                 \A k \in Keys : sessions[k] # None => sessions'[k] = sessions[k]
           /\ call[c].pc = "removeDead" => \A k \in Keys : Key(c) = k => Reconnecting(c, k)'
           /\ call[c].pc = "removeLost" => call'[c].pc = "idle"
           /\ call[c].pc = "queued" => sessions' = sessions
<1> DEFINE Goal ==
       /\ call'[c].pc # call[c].pc
       /\ \A k \in Keys : Reconnecting(c, k) => Reconnecting(c, k)' \/ call'[c].pc = "idle"
       /\ call[c].pc \notin {"removeDead", "removeLost"} =>
             \A k \in Keys : sessions[k] # None => sessions'[k] = sessions[k]
       /\ call[c].pc = "removeDead" => \A k \in Keys : Key(c) = k => Reconnecting(c, k)'
       /\ call[c].pc = "removeLost" => call'[c].pc = "idle"
       /\ call[c].pc = "queued" => sessions' = sessions
<1>. SUFFICES Goal
  OBVIOUS
<1>1. call[c] \in CallRecords
  BY IsSuspended
<1>2. ASSUME call[c].pc \in Running, Reply(c),
             call[c].pc # "removeDead",
             call[c].pc # "removeLost" => sessions' = sessions
      PROVE  Goal
  <2>1. call'[c].pc = "idle"
    BY <1>2, OthersStay DEF Reply, Idle
  <2>. QED
    BY <1>2, <2>1 DEF Running
<1>3. ASSUME NEW r, Become(c, r), r.db = call[c].db, r.tab = call[c].tab,
             r.reconnected = call[c].reconnected, r.pc # call[c].pc,
             call[c].pc \notin {"removeDead", "removeLost"},
             call[c].pc # "pinging" => r.pc \in {"acquiring", "opening", "queued", "removeLost"},
             \A k \in Keys : sessions[k] # None => sessions'[k] = sessions[k],
             call[c].pc = "queued" => sessions' = sessions
      PROVE  Goal
  <2>1. call'[c] = r
    BY <1>3, OthersStay
  <2>. QED
    BY <1>3, <2>1 DEF Reconnecting, Key
<1> HIDE DEF Goal
<1>4. CASE RunPing(c)
  <2>1. PICK l \in {"removeDead", "queued"} : Become(c, [call[c] EXCEPT !.pc = l])
    BY <1>4 DEF RunPing, Goto
  <2> DEFINE r == [call[c] EXCEPT !.pc = l]
  <2>2. r.db = call[c].db /\ r.tab = call[c].tab /\ r.reconnected = call[c].reconnected /\ r.pc = l
    BY <1>1 DEF CallRecords
  <2>3. Become(c, r) /\ call[c].pc = "pinging" /\ sessions' = sessions
    BY <1>4, <2>1 DEF RunPing, At
  <2>. HIDE DEF r
  <2>. QED
    BY <1>3, <2>1, <2>2, <2>3
<1>5. CASE RunDropDead(c)
  <2> DEFINE r == [call[c] EXCEPT !.pc = "lookup", !.conn = None, !.reconnected = TRUE]
  <2>1. r.db = call[c].db /\ r.tab = call[c].tab /\ r.reconnected /\ r.pc = "lookup"
    BY <1>1 DEF CallRecords
  <2>2. call'[c] = r /\ call[c].pc = "removeDead"
    BY <1>5, OthersStay DEF RunDropDead, At
  <2>. HIDE DEF r
  <2>. QED
    BY <2>1, <2>2 DEF Goal, Reconnecting, Key
<1>6. CASE RunLookup(c)
  <2> DEFINE r == [call[c] EXCEPT !.pc = "acquiring", !.pool = Pool(c)]
  <2>1. r.db = call[c].db /\ r.tab = call[c].tab /\ r.reconnected = call[c].reconnected
        /\ r.pc = "acquiring"
    BY <1>1 DEF CallRecords
  <2>2. call[c].pc = "lookup" /\ sessions' = sessions /\ (Reply(c) \/ Become(c, r))
    BY <1>6 DEF RunLookup, TakePool, At
  <2>. HIDE DEF r
  <2>3. CASE Reply(c)
    BY <1>2, <2>2, <2>3 DEF Running
  <2>4. CASE Become(c, r)
    BY <1>3, <2>1, <2>2, <2>4
  <2>. QED
    BY <2>2, <2>3, <2>4
<1>7. CASE RunAcquire(c)
  <2> DEFINE r == [call[c] EXCEPT !.pc = "opening", !.pool = None, !.conn = NewConn]
  <2>1. r.db = call[c].db /\ r.tab = call[c].tab /\ r.reconnected = call[c].reconnected
        /\ r.pc = "opening"
    BY <1>1 DEF CallRecords
  <2>2. call[c].pc = "acquiring" /\ sessions' = sessions /\ (Reply(c) \/ Become(c, r))
    BY <1>7 DEF RunAcquire, At
  <2>. HIDE DEF r
  <2>3. CASE Reply(c)
    BY <1>2, <2>2, <2>3 DEF Running
  <2>4. CASE Become(c, r)
    BY <1>3, <2>1, <2>2, <2>4
  <2>. QED
    BY <2>2, <2>3, <2>4
<1>8. CASE RunOpened(c)
  <2> DEFINE s == IF sessions[Key(c)] = None THEN call[c].conn ELSE sessions[Key(c)]
             r == [call[c] EXCEPT !.pc = "queued", !.conn = s]
  <2>1. r.db = call[c].db /\ r.tab = call[c].tab /\ r.reconnected = call[c].reconnected
        /\ r.pc = "queued"
    BY <1>1 DEF CallRecords
  <2>2. call[c].pc = "opening"
        /\ \/ Reply(c) /\ sessions' = sessions
           \/ Become(c, r) /\ sessions' = [sessions EXCEPT ![Key(c)] = s]
    BY <1>8 DEF RunOpened, At
  <2>3. \A k \in Keys : sessions[k] # None => [sessions EXCEPT ![Key(c)] = s][k] = sessions[k]
    BY DEF TypeInv, TypeOK
  <2>. HIDE DEF r, s
  <2>4. CASE Reply(c) /\ sessions' = sessions
    BY <1>2, <2>2, <2>4 DEF Running
  <2>5. CASE Become(c, r) /\ sessions' = [sessions EXCEPT ![Key(c)] = s]
    BY <1>3, <2>1, <2>2, <2>3, <2>5
  <2>. QED
    BY <2>2, <2>4, <2>5
<1>9. CASE RunAnswered(c)
  <2> DEFINE r == [call[c] EXCEPT !.pc = "removeLost"]
  <2>1. r.db = call[c].db /\ r.tab = call[c].tab /\ r.reconnected = call[c].reconnected
        /\ r.pc = "removeLost"
    BY <1>1 DEF CallRecords
  <2>2. call[c].pc = "queued" /\ sessions' = sessions /\ (Reply(c) \/ Become(c, r))
    BY <1>9 DEF RunAnswered, At, Goto
  <2>. HIDE DEF r
  <2>3. CASE Reply(c)
    BY <1>2, <2>2, <2>3 DEF Running
  <2>4. CASE Become(c, r)
    BY <1>3, <2>1, <2>2, <2>4
  <2>. QED
    BY <2>2, <2>3, <2>4
<1>10. CASE RunDropLost(c)
  BY <1>2, <1>10 DEF RunDropLost, At, Running
<1>. QED
  BY <1>4, <1>5, <1>6, <1>7, <1>8, <1>9, <1>10 DEF RunStep, Goal

(* An answer leaves the map as it is. *)
LEMMA AnswerEffects ==
    ASSUME TypeInv, [Next]_vars, NEW c \in Calls, NEW k, Leaves(c, k, "queued")
    PROVE  sessions' = sessions
<1>1. call[c].pc = "queued" /\ call'[c].pc = "idle"
  BY DEF Leaves, At
<1>2. RunStep(c)
  BY <1>1, Moves DEF Same, Running
<1>. QED
  BY <1>1, <1>2, RunStepEffects

(* A run waits for its new session's mutex with the session in the map. *)
LEMMA OpenedQueues ==
    ASSUME TypeInv, NEW c \in Calls, RunStep(c), call[c].pc # "pinging", call'[c].pc = "queued"
    PROVE  call'[c].conn = sessions'[Key(c)']
<1>1. call[c] \in CallRecords
  BY IsSuspended
<1>2. ~ Reply(c)
  BY OthersStay DEF Reply, Idle
<1>3. CASE RunOpened(c)
  <2> DEFINE s == IF sessions[Key(c)] = None THEN call[c].conn ELSE sessions[Key(c)]
             r == [call[c] EXCEPT !.pc = "queued", !.conn = s]
  <2>1. r.conn = s /\ r.db = call[c].db /\ r.tab = call[c].tab
    BY <1>1 DEF CallRecords
  <2>2. call'[c] = r /\ sessions' = [sessions EXCEPT ![Key(c)] = s]
    BY <1>2, <1>3, OthersStay DEF RunOpened
  <2>3. Key(c) \in Keys
    BY <1>3, IsSuspended, Locals DEF RunOpened, At, Key, Keys, Running
  <2>4. sessions'[Key(c)] = s
    BY <2>2, <2>3 DEF TypeInv, TypeOK
  <2>. HIDE DEF r, s
  <2>. QED
    BY <2>1, <2>2, <2>4 DEF Key
<1>4. ASSUME NEW r, Become(c, r), r.pc # "queued" PROVE FALSE
  BY <1>4, OthersStay
<1>5. CASE RunDropDead(c)
  <2> DEFINE r == [call[c] EXCEPT !.pc = "lookup", !.conn = None, !.reconnected = TRUE]
  <2>1. r.pc = "lookup" /\ Become(c, r)
    BY <1>1, <1>5 DEF CallRecords, RunDropDead
  <2>. HIDE DEF r
  <2>. QED
    BY <1>4, <2>1
<1>6. CASE RunLookup(c)
  <2> DEFINE r == [call[c] EXCEPT !.pc = "acquiring", !.pool = Pool(c)]
  <2>1. r.pc = "acquiring" /\ Become(c, r)
    BY <1>1, <1>2, <1>6 DEF CallRecords, RunLookup, TakePool
  <2>. HIDE DEF r
  <2>. QED
    BY <1>4, <2>1
<1>7. CASE RunAcquire(c)
  <2> DEFINE r == [call[c] EXCEPT !.pc = "opening", !.pool = None, !.conn = NewConn]
  <2>1. r.pc = "opening" /\ Become(c, r)
    BY <1>1, <1>2, <1>7 DEF CallRecords, RunAcquire
  <2>. HIDE DEF r
  <2>. QED
    BY <1>4, <2>1
<1>8. CASE RunAnswered(c)
  <2> DEFINE r == [call[c] EXCEPT !.pc = "removeLost"]
  <2>1. r.pc = "removeLost" /\ Become(c, r)
    BY <1>1, <1>2, <1>8 DEF CallRecords, RunAnswered, Goto
  <2>. HIDE DEF r
  <2>. QED
    BY <1>4, <2>1
<1>. QED
  BY <1>2, <1>3, <1>5, <1>6, <1>7, <1>8 DEF RunStep, RunPing, RunDropLost, At

(* A session that a run drops without reporting a loss is dropped by a run *)
(* that now carries the notice.                                            *)
LEMMA DropEffects ==
    ASSUME TypeInv, [Next]_vars, NEW k \in Keys, DroppedByRun(k), ~ ReportsLoss(k)
    PROVE  Notice(k)'
<1>1. PICK c \in Calls : call[c].pc \in Running /\ Key(c) = k /\ call'[c].pc # call[c].pc
  BY DEF DroppedByRun, RunsIn
<1>2. RunStep(c)
  BY <1>1, Moves DEF Same
<1>3. call[c].pc \in {"removeDead", "removeLost"}
  BY <1>2, RunStepEffects DEF DroppedByRun
<1>4. call[c].pc = "removeDead"
  BY <1>1, <1>2, <1>3, RunStepEffects DEF ReportsLoss, Leaves, At
<1>5. Reconnecting(c, k)'
  BY <1>1, <1>2, <1>4, RunStepEffects
<1>6. call'[c].pc = "lookup"
  <2>1. RunDropDead(c)
    BY <1>2, <1>4 DEF RunStep, RunPing, RunLookup, RunAcquire, RunOpened, RunAnswered, RunDropLost, At
  <2> DEFINE r == [call[c] EXCEPT !.pc = "lookup", !.conn = None, !.reconnected = TRUE]
  <2>2. r.pc = "lookup"
    BY IsSuspended DEF CallRecords
  <2>3. call'[c] = r
    BY <2>1, OthersStay DEF RunDropDead
  <2>. HIDE DEF r
  <2>. QED
    BY <2>2, <2>3
<1>. QED
  BY <1>5, <1>6 DEF Notice

-----------------------------------------------------------------------------
LEMMA StateMoves ==
    ASSUME TypeInv, PromiseInv, [Next]_vars, Observe, NEW k \in Keys
    PROVE  /\ state'[k] \in {"none", "kept", "told", "gone"}
           /\ state'[k] \in {"kept", "told"} =>
                 /\ sessions'[k] = sessions[k] /\ sessions[k] # None
                 /\ state[k] \notin {"kept", "told"} => AnsweredOnSession(k)
           /\ state'[k] = "kept" /\ state[k] = "gone" => AnsweredOnSession(k)
           /\ AnsweredOnSession(k) /\ Announced(k) => state'[k] = "told"
           /\ state'[k] = "gone" =>
                 /\ ~ AnsweredOnSession(k) /\ ~ ReportsLoss(k) /\ ~ Disconnected(k)
                 /\ state[k] # "gone" => state[k] \in {"kept", "told"} /\ DroppedByRun(k)
<1> DEFINE S == IF AnsweredOnSession(k) THEN IF Announced(k) THEN "told" ELSE "kept"
                ELSE IF ReportsLoss(k) \/ Disconnected(k) THEN "none"
                ELSE IF DroppedByRun(k) /\ state[k] \in {"kept", "told"} THEN "gone"
                ELSE state[k]
<1>1. state'[k] = S /\ state[k] \in {"none", "kept", "told", "gone"}
  BY DEF Observe, PromiseInv
<1>2. state[k] \in {"kept", "told"} => sessions[k] # None
  BY DEF PromiseInv
<1>3. AnsweredOnSession(k) => sessions' = sessions /\ sessions[k] # None
  <2>1. ASSUME NEW c \in Calls, Leaves(c, k, "queued"), call[c].conn = sessions[k]
        PROVE  sessions' = sessions /\ sessions[k] # None
    <3>1. call[c].conn # None
      BY <2>1, IsSuspended DEF Leaves, At, SuspendedAt, WithConn
    <3>. QED
      BY <2>1, <3>1, AnswerEffects
  <2>. QED
    BY <2>1 DEF AnsweredOnSession
<1>4. ~ Disconnected(k) /\ ~ DroppedByRun(k) /\ sessions[k] # None => sessions'[k] = sessions[k]
  BY DEF Disconnected
<1>. QED
  BY <1>1, <1>2, <1>3, <1>4

(* While nothing else runs in the tab, the notice is not lost. *)
LEMMA NoticeStays ==
    ASSUME TypeInv, [Next]_vars, NEW k \in Keys, Notice(k), ~ Overlap(k), ~ AnsweredOnSession(k),
           ~ ReportsLoss(k), ~ Disconnected(k), ~ Fails(k)
    PROVE  Notice(k)'
<1>1. PICK c \in Calls : Reconnecting(c, k) /\ (call[c].pc = "queued" => call[c].conn = sessions[k])
  BY DEF Notice
<1>2. call[c].pc \in Running /\ Key(c) = k
  BY <1>1 DEF Reconnecting, Running
<1>3. call'[c].pc # "idle"
  BY <1>1 DEF Reconnecting, AnsweredOnSession, ReportsLoss, Fails, Leaves, At
<1>4. CASE Same(c)
  <2>1. Reconnecting(c, k)'
    BY <1>1, <1>4 DEF Same, Reconnecting
  <2>2. ASSUME call[c].pc = "queued" PROVE call'[c].conn = sessions'[k]
    <3>1. sessions[k] # None
      BY <1>1, <2>2, IsSuspended DEF SuspendedAt, WithConn
    <3>2. ~ DroppedByRun(k)
      <4>1. ASSUME NEW d \in Calls, RunsIn(d, k), call'[d].pc # call[d].pc PROVE FALSE
        BY <1>2, <1>4, <4>1 DEF Same, Overlap, RunsIn
      <4>. QED
        BY <4>1 DEF DroppedByRun
    <3>. QED
      BY <1>1, <1>4, <2>2, <3>1, <3>2 DEF Same, Disconnected
  <2>. QED
    BY <1>4, <2>1, <2>2 DEF Same, Notice
<1>5. CASE RunStep(c)
  <2>1. Reconnecting(c, k)'
    BY <1>1, <1>3, <1>5, RunStepEffects
  <2>2. call'[c].pc = "queued" => call'[c].conn = sessions'[k]
    BY <1>1, <1>5, <2>1, OpenedQueues DEF Reconnecting
  <2>. QED
    BY <2>1, <2>2 DEF Notice
<1>. QED
  BY <1>2, <1>4, <1>5, Moves

LEMMA PromiseInvStep ==
    ASSUME TypeInv, PromiseInv, [Next]_vars, Observe
    PROVE  PromiseInv'
<1>1. state' \in [Keys -> {"none", "kept", "told", "gone"}]
  <2>1. \A k \in Keys : state'[k] \in {"none", "kept", "told", "gone"}
    BY StateMoves
  <2>. QED
    BY <2>1 DEF Observe
<1>2. excused' \subseteq {k \in Keys : state'[k] = "gone"}
  BY DEF Observe
<1>3. \A k \in Keys : state'[k] \in {"kept", "told"} => sessions'[k] # None
  BY StateMoves
<1>4. ASSUME NEW k \in Keys, state'[k] = "gone", k \notin excused'
      PROVE  ~ Overlap(k)' /\ Notice(k)'
  <2>1. /\ ~ AnsweredOnSession(k) /\ ~ ReportsLoss(k) /\ ~ Disconnected(k)
        /\ state[k] # "gone" => state[k] \in {"kept", "told"} /\ DroppedByRun(k)
    BY <1>4, StateMoves
  <2>2. k \notin excused /\ ~ Fails(k) /\ ~ Overlap(k)'
    BY <1>4 DEF Observe
  <2>3. CASE state[k] = "gone"
    <3>1. Notice(k) /\ ~ Overlap(k)
      BY <2>2, <2>3 DEF PromiseInv
    <3>. QED
      BY <2>1, <2>2, <3>1, NoticeStays
  <2>4. CASE DroppedByRun(k)
    BY <2>1, <2>2, <2>4, DropEffects
  <2>. QED
    BY <2>1, <2>3, <2>4
<1>. QED
  BY <1>1, <1>2, <1>3, <1>4 DEF PromiseInv

(* The first answer of a tab that has lost its state untold is that of the *)
(* one run in flight, and it carries the notice.                           *)
LEMMA FirstAnswerAnnounces ==
    ASSUME TypeInv, PromiseInv, NEW k \in Keys, state[k] = "gone", k \notin excused,
           AnsweredOnSession(k)
    PROVE  Announced(k)
<1>1. PICK c \in Calls : Reconnecting(c, k)
  BY DEF PromiseInv, Notice
<1>2. PICK d \in Calls : Leaves(d, k, "queued")
  BY DEF AnsweredOnSession
<1>3. ~ Overlap(k)
  BY DEF PromiseInv
<1>4. c = d
  BY <1>1, <1>2, <1>3 DEF Overlap, RunsIn, Reconnecting, Leaves, At, Running
<1>. QED
  BY <1>1, <1>2, <1>4 DEF Announced, Reconnecting

LEMMA PromiseStep ==
    ASSUME TypeInv, PromiseInv, TabsNeverShare', [Next]_vars, Observe
    PROVE  Promise!Next
<1>1. ASSUME NEW k \in Keys
      PROVE  /\ On[k] = IF state[k] \in {"kept", "told"} THEN sessions[k] ELSE None
             /\ On'[k] = IF state'[k] \in {"kept", "told"} THEN sessions'[k] ELSE None
             /\ Rely[k] = IF k \in excused THEN "excused" ELSE state[k]
             /\ Rely'[k] = IF k \in excused' THEN "excused" ELSE state'[k]
  BY DEF On, Rely
<1>2. ASSUME NEW k \in Keys
      PROVE  /\ k \in excused => state[k] = "gone"
             /\ k \in excused' => state'[k] = "gone"
             /\ state'[k] = "gone" /\ k \in excused => k \in excused'
             /\ state[k] \in {"none", "kept", "told", "gone"}
  BY DEF PromiseInv, Observe
<1>3. ASSUME NEW k \in Keys, state[k] = "gone", k \notin excused PROVE state'[k] # "kept"
  BY <1>3, StateMoves, FirstAnswerAnnounces
<1>4. ASSUME NEW k \in Keys
      PROVE  /\ \/ Rely[k] # "gone" /\ Rely'[k] = "kept" /\
                    (Rely[k] \in {"kept", "told"} => On'[k] = On[k])
                \/ Rely'[k] = "told"
                \/ Rely[k] \in {"kept", "told"} /\ Rely'[k] = "gone"
                \/ Rely[k] \in {"kept", "told", "gone"} /\ Rely'[k] = "excused"
                \/ Rely'[k] = "none"
                \/ Rely'[k] = Rely[k] /\ On'[k] = On[k]
             /\ On'[k] # None <=> Rely'[k] \in {"kept", "told"}
  <2>1. On'[k] # None <=> Rely'[k] \in {"kept", "told"}
    BY <1>1, <1>2, StateMoves
  <2>2. CASE state'[k] = "none"
    BY <1>1, <1>2, <2>1, <2>2
  <2>3. CASE state'[k] = "told"
    BY <1>1, <1>2, <2>1, <2>3
  <2>4. CASE state'[k] = "kept"
    <3>1. sessions'[k] = sessions[k] /\ k \notin excused'
      BY <1>2, <2>4, StateMoves
    <3>. QED
      BY <1>1, <1>2, <1>3, <2>1, <2>4, <3>1
  <2>5. CASE state'[k] = "gone"
    <3>1. state[k] = "gone" \/ state[k] \in {"kept", "told"}
      BY <2>5, StateMoves
    <3>. QED
      BY <1>1, <1>2, <2>1, <2>5, <3>1
  <2>. QED
    BY <2>2, <2>3, <2>4, <2>5, StateMoves
<1>5. ASSUME NEW j \in Keys, NEW k \in Keys, j # k, On'[j] # None PROVE On'[j] # On'[k]
  BY <1>1, <1>5, StateMoves DEF TabsNeverShare
<1>. QED
  BY <1>4, <1>5 DEF Promise!Next, Promise!AnswersQuietly, Promise!Announces, Promise!Loses,
     Promise!Excused, Promise!Forgets, Promise!Keeps, Promise!Relying

(* The plugin keeps the promise of TabPromise, also to a tab with several  *)
(* statements in flight: each step of EditorTabs is one of its steps, or   *)
(* changes nothing a tab can see.                                          *)
THEOREM TabsKeepPromise == TabSpec => PromiseKept
<1> DEFINE IInv == TypeInv /\ TabsNeverShare /\ PromiseInv
<1>1. TabInit => IInv /\ Promise!Init
  <2>1. Init => TypeInv /\ TabsNeverShare
    BY TypeInit DEF Init, Idle, TabsNeverShare
  <2>. QED
    BY <2>1 DEF TabInit, PromiseInv, Promise!Init, On, Rely
<1>2. IInv /\ [TabNext]_tabVars => IInv' /\ [Promise!Next]_<<On, Rely>>
  <2> SUFFICES ASSUME IInv, [TabNext]_tabVars PROVE IInv' /\ [Promise!Next]_<<On, Rely>>
    OBVIOUS
  <2>1. TypeInv' /\ TabsNeverShare' /\ [Next]_vars
    BY TabSteps, TypeStep, ConnsStep
  <2>2. CASE TabNext
    BY <2>1, <2>2, PromiseInvStep, PromiseStep DEF TabNext
  <2>3. CASE UNCHANGED tabVars
    <3>1. PromiseInv'
      BY <2>3 DEF tabVars, vars, PromiseInv, Notice, Overlap, RunsIn, Reconnecting, Key
    <3>2. UNCHANGED <<On, Rely>>
      BY <2>3 DEF tabVars, vars, On, Rely
    <3>. QED
      BY <2>1, <3>1, <3>2
  <2>. QED
    BY <2>2, <2>3
<1>. QED
  BY <1>1, <1>2, PTL DEF TabSpec, PromiseKept, Promise!Spec
=============================================================================
