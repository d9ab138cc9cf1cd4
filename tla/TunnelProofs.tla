---------------------------- MODULE TunnelProofs ----------------------------
(***************************************************************************)
(* Proofs about SshTunnels, for any number of callers, connections,        *)
(* tunnels and ports.                                                      *)
(*                                                                         *)
(* And about GridEdits, for any number of tabs, tables, rows and jobs.  A  *)
(* row added in the grid is stored once (AddedOnce): a save is followed by *)
(* the tab it was begun in, because only there its refresh takes the new   *)
(* rows out of the grid before they can be saved again (OnePlace,          *)
(* StoredOnce).  And a batch writes what was meant (BatchAsMeant), by      *)
(* induction over its rows: what it has written so far can be told from    *)
(* what the next row looks for (Partly, Marked, Told).                     *)
(***************************************************************************)
EXTENDS SshTunnels, GridEdits, FiniteSetTheorems, WellFoundedInduction, SequenceTheorems, TLAPS

Over(t) == tunnel[t].stage \in {"ending", "done"}

(* A caller that is about to insert its tunnel has the registry to itself, *)
(* and nobody else knows the tunnel.                                       *)
InsertingIsFresh ==
    \A c \in Callers : At(c, "inserting") =>
        LET t == call[c].tunnel IN
        /\ Runs(t) \/ Stage(t, "ending")
        /\ tunnels[tunnel[t].id] = None
        /\ \A i \in Connections : tunnels[i] # t
        /\ \A d \in Callers \ {c} : call[d].tunnel # t /\ ~ At(d, "inserting")

(* A thread that has reported an error has returned. *)
ErrorIsFinal == \A t \in Tunnels : tunnel[t].ready = "err" => Over(t)

(* A caller about to answer Err has a tunnel that is over or stopped. *)
FailingIsOver ==
    \A c \in Callers : At(c, "failing") => tunnel[call[c].tunnel].stop \/ Over(call[c].tunnel)

(* A caller knows only tunnels that have been made. *)
KnownIsMade ==
    \A c \in Callers : call[c].tunnel \in Tunnels => tunnel[call[c].tunnel].stage # "absent"

TunnelInv ==
    /\ TypeOK
    /\ EntriesHaveThreads
    /\ RunningIsRegistered
    /\ FailedIsGone
    /\ InsertingIsFresh
    /\ ErrorIsFinal
    /\ FailingIsOver
    /\ KnownIsMade

LEMMA TunnelInit == Init => TunnelInv
<1> SUFFICES ASSUME Init PROVE TunnelInv
    OBVIOUS
<1> USE DEF Init
<1>1. TypeOK
    BY DEF TypeOK, CallRecords
<1>2. \A t \in Tunnels : ~ Runs(t) /\ tunnel[t].ready # "err"
    BY DEF Absent, Runs, Serves, Serving, Stage
<1>3. \A c \in Callers : At(c, "idle") /\ call[c].tunnel \notin Tunnels
    BY NoneAssumption DEF At
<1>4. \A i \in Connections : tunnels[i] = None
    OBVIOUS
<1> HIDE DEF Init
<1> QED
    BY <1>4, <1>1, <1>2, <1>3 DEF TunnelInv, EntriesHaveThreads, RunningIsRegistered, FailedIsGone,
        InsertingIsFresh, ErrorIsFinal, FailingIsOver, KnownIsMade, At

-----------------------------------------------------------------------------
(* A step of a tunnel's threads changes no entry and no call, keeps ids    *)
(* and stop signals, and takes a running thread on or to its end.          *)
LEMMA ThreadQuiet ==
    ASSUME TunnelInv, TypeOK', UNCHANGED <<tunnels, call>>,
           \A u \in Tunnels : tunnel'[u].id = tunnel[u].id /\ tunnel'[u].stop = tunnel[u].stop,
           \A u \in Tunnels : \/ tunnel'[u].stage = tunnel[u].stage
                              \/ Runs(u) /\ tunnel'[u].stage \in Serving \cup {"ending"},
           \A u \in Tunnels : tunnel'[u].ready = "err" =>
                                 tunnel[u].ready = "err" \/ tunnel'[u].stage = "ending"
    PROVE  TunnelInv'
<1> USE DEF TunnelInv
<1>1. \A u \in Tunnels : Runs(u)' => Runs(u)
    BY DEF Runs, Serves, Serving, Stage
<1>2. \A u \in Tunnels : Runs(u) \/ Stage(u, "ending") => (Runs(u) \/ Stage(u, "ending"))'
    BY DEF Runs, Serves, Serving, Stage
<1>3. \A u \in Tunnels : Over(u) => Over(u)'
    BY DEF Runs, Serves, Serving, Stage, Over
<1>4. \A c \in Callers : (At(c, "inserting") \/ At(c, "failing")) => call[c].tunnel \in Tunnels
    BY DEF TypeOK, CallRecords, At
<1>5. EntriesHaveThreads'
    BY <1>2 DEF EntriesHaveThreads, TypeOK
<1>6. RunningIsRegistered'
    BY <1>1 DEF RunningIsRegistered, Registered, At
<1>7. FailedIsGone'
    BY DEF FailedIsGone, At
<1>8. InsertingIsFresh'
    BY <1>2, <1>4 DEF InsertingIsFresh, At
<1>9. ErrorIsFinal'
    BY <1>3 DEF ErrorIsFinal, Over
<1>10. FailingIsOver'
    BY <1>3, <1>4 DEF FailingIsOver, At
<1>11. KnownIsMade'
    BY DEF KnownIsMade, Serving
<1> QED
    BY <1>5, <1>6, <1>7, <1>8, <1>9, <1>10, <1>11

LEMMA ThreadStep ==
    ASSUME TunnelInv, NEW t \in Tunnels,
           \/ Handshake(t) \/ ThreadChecks(t) \/ ThreadAccepts(t) \/ OpenChannel(t)
           \/ OpenGivesUp(t) \/ ForwardEnds(t) \/ LoseLink(t)
    PROVE  TunnelInv'
<1>1. tunnel[t].stage # "absent" => tunnel[t] \in TunnelRecords
    BY DEF TunnelInv, TypeOK, Absent
<1>0. ASSUME NEW r \in TunnelRecords, tunnel' = [tunnel EXCEPT ![t] = r], UNCHANGED <<tunnels, call>>
      PROVE  TypeOK' /\ tunnel'[t] = r /\ \A u \in Tunnels \ {t} : tunnel'[u] = tunnel[u]
    BY <1>0 DEF TunnelInv, TypeOK
<1>2. CASE ThreadListens(t)
    <2> DEFINE r == [tunnel[t] EXCEPT !.stage = "checking", !.link = TRUE, !.ready = Report(t, "ok")]
    <2>1. tunnel' = [tunnel EXCEPT ![t] = r] /\ UNCHANGED <<tunnels, call>> /\ Stage(t, "connecting")
        BY <1>2 DEF ThreadListens
    <2>2. /\ r \in TunnelRecords
          /\ r.id = tunnel[t].id /\ r.stop = tunnel[t].stop /\ r.stage = "checking"
          /\ r.ready = "err" => tunnel[t].ready = "err"
        BY <1>1, <2>1 DEF TunnelRecords, Stages, Serving, Report, Stage
    <2> HIDE DEF r
    <2>3. TypeOK' /\ tunnel'[t] = r /\ \A u \in Tunnels \ {t} : tunnel'[u] = tunnel[u]
        BY <2>1, <2>2, <1>0
    <2> QED
        BY <2>1, <2>2, <2>3, ThreadQuiet DEF Runs, Serving
<1>3. CASE ThreadFails(t)
    <2> DEFINE r == [tunnel[t] EXCEPT !.stage = "ending", !.ready = Report(t, "err")]
    <2>1. tunnel' = [tunnel EXCEPT ![t] = r] /\ UNCHANGED <<tunnels, call>> /\ Stage(t, "connecting")
        BY <1>3 DEF ThreadFails
    <2>2. /\ r \in TunnelRecords
          /\ r.id = tunnel[t].id /\ r.stop = tunnel[t].stop /\ r.stage = "ending"
        BY <1>1, <2>1 DEF TunnelRecords, Stages, Serving, Report, Stage
    <2> HIDE DEF r
    <2>3. TypeOK' /\ tunnel'[t] = r /\ \A u \in Tunnels \ {t} : tunnel'[u] = tunnel[u]
        BY <2>1, <2>2, <1>0
    <2> QED
        BY <2>1, <2>2, <2>3, ThreadQuiet DEF Runs
<1>4. ASSUME NEW s \in Serving \cup {"ending"}, Serves(t), Enter(t, s), UNCHANGED <<tunnels, call>>
      PROVE  TunnelInv'
    <2> DEFINE r == [tunnel[t] EXCEPT !.stage = s]
    <2>1. tunnel' = [tunnel EXCEPT ![t] = r] /\ UNCHANGED <<tunnels, call>>
        BY <1>4 DEF Enter
    <2>2. /\ r \in TunnelRecords
          /\ r.id = tunnel[t].id /\ r.stop = tunnel[t].stop /\ r.stage = s
          /\ r.ready = tunnel[t].ready
        BY <1>1, <1>4 DEF TunnelRecords, Stages, Serving, Serves
    <2> HIDE DEF r
    <2>3. TypeOK' /\ tunnel'[t] = r /\ \A u \in Tunnels \ {t} : tunnel'[u] = tunnel[u]
        BY <2>1, <2>2, <1>0
    <2> QED
        BY <1>4, <2>1, <2>2, <2>3, ThreadQuiet DEF Runs
<1>5. CASE ThreadChecks(t)
    <2>1. \E s \in {"ending", "accepting"} : Enter(t, s)
        BY <1>5 DEF ThreadChecks
    <2> QED
        BY <1>5, <1>4, <2>1 DEF ThreadChecks, Serves, Stage, Serving
<1>6. CASE ThreadAccepts(t)
    BY <1>6, <1>4 DEF ThreadAccepts, Serves, Stage, Serving
<1>7. CASE OpenChannel(t)
    <2> DEFINE f == tunnel[t].forwards + 1
               r == [tunnel[t] EXCEPT !.stage = "checking", !.forwards = f]
    <2>1. tunnel' = [tunnel EXCEPT ![t] = r] /\ UNCHANGED <<tunnels, call>> /\ Stage(t, "opening")
        BY <1>7 DEF OpenChannel
    <2>2. /\ r \in TunnelRecords
          /\ r.id = tunnel[t].id /\ r.stop = tunnel[t].stop /\ r.stage = "checking"
          /\ r.ready = tunnel[t].ready
        <3>1. tunnel[t] \in TunnelRecords
            BY <1>1, <2>1 DEF Stage
        <3>2. f \in Nat
            BY <3>1 DEF TunnelRecords
        <3> HIDE DEF f
        <3> QED
            BY <3>1, <3>2 DEF TunnelRecords, Stages, Serving
    <2> HIDE DEF r
    <2>3. TypeOK' /\ tunnel'[t] = r /\ \A u \in Tunnels \ {t} : tunnel'[u] = tunnel[u]
        BY <2>1, <2>2, <1>0
    <2> QED
        BY <2>1, <2>2, <2>3, ThreadQuiet DEF Runs, Serves, Stage, Serving
<1>8. CASE OpenGivesUp(t)
    BY <1>8, <1>4 DEF OpenGivesUp, Serves, Stage, Serving
<1>9. ASSUME NEW r \in TunnelRecords, tunnel' = [tunnel EXCEPT ![t] = r], UNCHANGED <<tunnels, call>>,
             r.id = tunnel[t].id, r.stop = tunnel[t].stop, r.stage = tunnel[t].stage,
             r.ready = tunnel[t].ready
      PROVE  TunnelInv'
    <2>1. TypeOK' /\ tunnel'[t] = r /\ \A u \in Tunnels \ {t} : tunnel'[u] = tunnel[u]
        BY <1>9, <1>0
    <2> QED
        BY <1>9, <2>1, ThreadQuiet
<1>10. CASE ForwardEnds(t)
    <2> DEFINE r == [tunnel[t] EXCEPT !.forwards = @ - 1]
    <2>1. tunnel' = [tunnel EXCEPT ![t] = r] /\ UNCHANGED <<tunnels, call>>
        BY <1>10 DEF ForwardEnds
    <2>2. /\ r \in TunnelRecords
          /\ r.id = tunnel[t].id /\ r.stop = tunnel[t].stop /\ r.stage = tunnel[t].stage
          /\ r.ready = tunnel[t].ready
        <3>1. tunnel[t] \in TunnelRecords /\ tunnel[t].forwards > 0
            BY <1>10 DEF ForwardEnds, Absent, TunnelInv, TypeOK
        <3> QED
            BY <3>1 DEF TunnelRecords
    <2> HIDE DEF r
    <2> QED
        BY <2>1, <2>2, <1>9
<1>11. CASE LoseLink(t)
    <2> DEFINE r == [tunnel[t] EXCEPT !.link = FALSE]
    <2>1. tunnel' = [tunnel EXCEPT ![t] = r] /\ UNCHANGED <<tunnels, call>>
        BY <1>11 DEF LoseLink
    <2>2. /\ r \in TunnelRecords
          /\ r.id = tunnel[t].id /\ r.stop = tunnel[t].stop /\ r.stage = tunnel[t].stage
          /\ r.ready = tunnel[t].ready
        <3>1. tunnel[t] \in TunnelRecords
            BY <1>11 DEF LoseLink, Absent, TunnelInv, TypeOK
        <3> QED
            BY <3>1 DEF TunnelRecords
    <2> HIDE DEF r
    <2> QED
        BY <2>1, <2>2, <1>9
<1> QED
    BY <1>2, <1>3, <1>5, <1>6, <1>7, <1>8, <1>10, <1>11 DEF Handshake

-----------------------------------------------------------------------------
(* A caller that is answered, or hears of a failure.                       *)
LEMMA CallQuiet ==
    ASSUME TunnelInv, NEW c \in Callers, NEW l, NEW t,
           UNCHANGED <<tunnels, tunnel>>, Become(c, l, t),
           [pc |-> l, tunnel |-> t] \in CallRecords,
           l # "inserting", ~ At(c, "inserting"),
           l = "refused" => \A i \in Connections : tunnels[i] # None => tunnels[i] # t,
           t \in Tunnels => tunnel[t].stage # "absent",
           l = "failing" => tunnel[t].stop \/ Over(t),
           \A d \in Callers : At(d, "inserting") => call[d].tunnel # t
    PROVE  TunnelInv'
<1>1. TypeOK'
    BY DEF TunnelInv, TypeOK, Become
<1>2. \A d \in Callers : call'[d] = IF d = c THEN [pc |-> l, tunnel |-> t] ELSE call[d]
    BY DEF TunnelInv, TypeOK, Become
<1>3. \A d \in Callers : At(d, "inserting")' <=> At(d, "inserting")
    BY <1>2 DEF At
<1>4. \A d \in Callers : At(d, "inserting") => call'[d] = call[d]
    BY <1>2
<1>5. EntriesHaveThreads' /\ ErrorIsFinal'
    BY DEF TunnelInv, EntriesHaveThreads, ErrorIsFinal, Over, Runs, Serves, Stage
<1>6. RunningIsRegistered'
    BY <1>3, <1>4 DEF TunnelInv, RunningIsRegistered, Runs, Serves, Stage, Registered
<1>7. FailedIsGone'
    BY <1>2 DEF TunnelInv, FailedIsGone, At
<1>8. InsertingIsFresh'
    BY <1>2, <1>3, <1>4 DEF TunnelInv, InsertingIsFresh, Runs, Serves, Stage
<1>9. FailingIsOver'
    BY <1>2 DEF TunnelInv, FailingIsOver, At, Over
<1>10. KnownIsMade'
    BY <1>2 DEF TunnelInv, KnownIsMade
<1> QED
    BY <1>1, <1>5, <1>6, <1>7, <1>8, <1>9, <1>10 DEF TunnelInv

LEMMA AnswerStep ==
    ASSUME TunnelInv, NEW c \in Callers,
           \/ \E i \in Connections : CreateExisting(c, i) \/ CreateNoPort(c, i)
           \/ CreateHears(c)
    PROVE  TunnelInv'
<1>1. \A i \in Connections : tunnels[i] \in Tunnels \cup {None}
    BY DEF TunnelInv, TypeOK
<1>2. CASE \E i \in Connections : CreateExisting(c, i)
    <2> PICK i \in Connections : CreateExisting(c, i)
        BY <1>2
    <2>1. tunnels[i] \in Tunnels /\ ~ At(c, "inserting") /\ Unlocked
        BY <1>1 DEF CreateExisting, Resting, At
    <2>2. [pc |-> "given", tunnel |-> tunnels[i]] \in CallRecords
        BY <2>1 DEF CallRecords
    <2>3. tunnel[tunnels[i]].stage # "absent"
        BY <2>1, NoneAssumption DEF TunnelInv, EntriesHaveThreads, Runs, Serves, Serving, Stage
    <2> QED
        BY <2>1, <2>2, <2>3, CallQuiet DEF CreateExisting, Unlocked
<1>3. CASE \E i \in Connections : CreateNoPort(c, i)
    <2> PICK i \in Connections : CreateNoPort(c, i)
        BY <1>3
    <2>1. ~ At(c, "inserting") /\ Unlocked
        BY DEF CreateNoPort, Resting, At
    <2>2. [pc |-> "refused", tunnel |-> None] \in CallRecords
        BY DEF CallRecords
    <2> QED
        BY <2>1, <2>2, NoneAssumption, CallQuiet DEF CreateNoPort, Unlocked
<1>4. CASE CreateHears(c)
    <2> DEFINE t == call[c].tunnel
    <2>1. At(c, "waiting") /\ ~ At(c, "inserting") /\ UNCHANGED <<tunnels, tunnel>>
        BY <1>4 DEF CreateHears, At
    <2>2. t \in Tunnels
        BY <2>1 DEF TunnelInv, TypeOK, CallRecords, At
    <2>3. \A d \in Callers : At(d, "inserting") => call[d].tunnel # t
        BY <2>1 DEF TunnelInv, InsertingIsFresh
    <2>4. [pc |-> "given", tunnel |-> t] \in CallRecords /\ [pc |-> "failing", tunnel |-> t] \in CallRecords
        BY <2>2 DEF CallRecords, Creating
    <2>7. tunnel[t].stage # "absent"
        BY <2>2 DEF TunnelInv, KnownIsMade
    <2>5. CASE Become(c, "given", t)
        BY <2>1, <2>3, <2>4, <2>5, <2>7, CallQuiet
    <2>6. CASE tunnel[t].ready = "err" /\ Become(c, "failing", t)
        <3>1. Over(t)
            BY <2>2, <2>6 DEF TunnelInv, ErrorIsFinal
        <3> QED
            BY <2>1, <2>3, <2>4, <2>6, <2>7, <3>1, CallQuiet
    <2> QED
        BY <1>4, <2>5, <2>6 DEF CreateHears
<1> QED
    BY <1>2, <1>3, <1>4

-----------------------------------------------------------------------------
(* The steps of create_ssh_tunnel that change the registry or a tunnel.    *)
LEMMA CreateNewStep ==
    ASSUME TunnelInv, NEW c \in Callers, NEW i \in Connections, CreateNew(c, i)
    PROVE  TunnelInv'
<1> PICK t \in Tunnels, p \in Ports :
        /\ Free(t)
        /\ tunnel' = [tunnel EXCEPT ![t] = [Absent EXCEPT !.id = i, !.port = p, !.stage = "connecting"]]
        /\ Become(c, "inserting", t)
    BY DEF CreateNew
<1> DEFINE r == [Absent EXCEPT !.id = i, !.port = p, !.stage = "connecting"]
<1>1. /\ r \in TunnelRecords
      /\ r.id = i /\ r.stage = "connecting" /\ r.ready = "none"
    BY DEF Absent, TunnelRecords, Stages
<1>2. tunnel' = [tunnel EXCEPT ![t] = r] /\ UNCHANGED tunnels /\ Unlocked /\ tunnels[i] = None
    BY DEF CreateNew
<1> HIDE DEF r
<1>3. [pc |-> "inserting", tunnel |-> t] \in CallRecords
    BY DEF CallRecords, Creating
<1>4. TypeOK'
    BY <1>1, <1>2, <1>3 DEF TunnelInv, TypeOK, Become
<1>5. /\ tunnel'[t] = r
      /\ \A u \in Tunnels \ {t} : tunnel'[u] = tunnel[u]
      /\ call'[c] = [pc |-> "inserting", tunnel |-> t]
      /\ \A d \in Callers \ {c} : call'[d] = call[d]
    BY <1>2 DEF TunnelInv, TypeOK, Become
<1>6. /\ \A j \in Connections : tunnels[j] # t
      /\ \A d \in Callers : call[d].tunnel # t /\ ~ At(d, "inserting")
    BY <1>2 DEF Free, Unlocked
<1>7. /\ \A u \in Tunnels \ {t} : /\ Runs(u)' = Runs(u)
                                  /\ Stage(u, "ending")' = Stage(u, "ending")
                                  /\ Over(u)' = Over(u)
      /\ Runs(t)' /\ At(c, "inserting")'
    BY <1>1, <1>5 DEF Runs, Serves, Stage, Over, At
<1>8. EntriesHaveThreads'
    BY <1>2, <1>5, <1>6, <1>7 DEF TunnelInv, EntriesHaveThreads, TypeOK
<1>9. RunningIsRegistered'
    <2> SUFFICES ASSUME NEW u \in Tunnels \ {t}, Runs(u)', ~ tunnel'[u].stop
                 PROVE  Registered(u)'
        BY <1>5, <1>7 DEF RunningIsRegistered
    <2> QED
        BY <1>2, <1>5, <1>6, <1>7 DEF TunnelInv, RunningIsRegistered, Registered
<1>10. FailedIsGone'
    BY <1>2, <1>5 DEF TunnelInv, FailedIsGone, At
<1>11. InsertingIsFresh'
    BY <1>1, <1>2, <1>5, <1>6, <1>7 DEF InsertingIsFresh, At
<1>12. ErrorIsFinal'
    BY <1>1, <1>5, <1>7 DEF TunnelInv, ErrorIsFinal
<1>13. FailingIsOver'
    <2> SUFFICES ASSUME NEW d \in Callers \ {c}, At(d, "failing")
                 PROVE  (tunnel[call[d].tunnel].stop \/ Over(call[d].tunnel))'
        BY <1>5 DEF FailingIsOver, At
    <2>1. call[d].tunnel \in Tunnels \ {t}
        BY <1>6 DEF TunnelInv, TypeOK, CallRecords, At
    <2> QED
        BY <1>5, <1>7, <2>1 DEF TunnelInv, FailingIsOver
<1>14. KnownIsMade'
    BY <1>1, <1>5, <1>6 DEF TunnelInv, KnownIsMade
<1> QED
    BY <1>4, <1>8, <1>9, <1>10, <1>11, <1>12, <1>13, <1>14 DEF TunnelInv

LEMMA CreateInsertStep ==
    ASSUME TunnelInv, NEW c \in Callers, CreateInsert(c)
    PROVE  TunnelInv'
<1> DEFINE t == call[c].tunnel
<1>1. At(c, "inserting") /\ UNCHANGED tunnel
    BY DEF CreateInsert
<1>2. t \in Tunnels
    BY <1>1 DEF TunnelInv, TypeOK, CallRecords, At
<1>3. /\ Runs(t) \/ Stage(t, "ending")
      /\ \A i \in Connections : tunnels[i] # t
      /\ \A d \in Callers \ {c} : call[d].tunnel # t /\ ~ At(d, "inserting")
      /\ tunnels[tunnel[t].id] = None
    BY <1>1 DEF TunnelInv, InsertingIsFresh
<1>4. tunnel[t].id \in Connections
    BY <1>2, <1>3 DEF TunnelInv, TypeOK, TunnelRecords, Absent, Runs, Serves, Serving, Stage
<1>5. \A i \in Connections : tunnels'[i] = IF i = tunnel[t].id THEN t ELSE tunnels[i]
    BY <1>4 DEF CreateInsert, TunnelInv, TypeOK
<1>6. \A d \in Callers : call'[d] = IF d = c THEN [pc |-> "waiting", tunnel |-> t] ELSE call[d]
    BY DEF CreateInsert, Become, TunnelInv, TypeOK
<1>7. TypeOK'
    <2>1. [pc |-> "waiting", tunnel |-> t] \in CallRecords
        BY <1>2 DEF CallRecords, Creating
    <2> QED
        BY <1>1, <1>2, <2>1 DEF CreateInsert, Become, TunnelInv, TypeOK
<1>8. \A u \in Tunnels : /\ Runs(u)' = Runs(u)
                         /\ Stage(u, "ending")' = Stage(u, "ending")
                         /\ Over(u)' = Over(u)
    BY <1>1 DEF Runs, Serves, Stage, Over
<1> HIDE DEF t
<1>9. EntriesHaveThreads'
    BY <1>1, <1>2, <1>3, <1>5, <1>8 DEF TunnelInv, EntriesHaveThreads, TypeOK
<1>10. RunningIsRegistered'
    <2> SUFFICES ASSUME NEW u \in Tunnels, Runs(u), ~ tunnel[u].stop
                 PROVE  Registered(u)'
        BY <1>1, <1>8 DEF RunningIsRegistered
    <2>1. CASE u = t
        BY <1>1, <1>4, <1>5, <2>1 DEF Registered
    <2>2. CASE u # t
        <3>1. Registered(u)
            BY <1>3, <2>2 DEF TunnelInv, RunningIsRegistered, t
        <3>2. tunnel[u].id \in Connections
            BY DEF TunnelInv, TypeOK, TunnelRecords, Absent, Runs, Serves, Serving, Stage
        <3>3. u # None
            BY NoneAssumption
        <3> QED
            BY <1>1, <1>3, <1>5, <3>1, <3>2, <3>3 DEF Registered
    <2> QED
        BY <2>1, <2>2
<1>11. FailedIsGone'
    BY <1>3, <1>5, <1>6 DEF TunnelInv, FailedIsGone, At
<1>12. InsertingIsFresh'
    BY <1>3, <1>6 DEF InsertingIsFresh, At
<1>13. ErrorIsFinal'
    BY <1>1, <1>8 DEF TunnelInv, ErrorIsFinal
<1>14. FailingIsOver'
    BY <1>1, <1>6 DEF TunnelInv, FailingIsOver, At, Over
<1>15. KnownIsMade'
    BY <1>1, <1>6 DEF TunnelInv, KnownIsMade, t
<1> QED
    BY <1>7, <1>9, <1>10, <1>11, <1>12, <1>13, <1>14, <1>15 DEF TunnelInv

LEMMA CreateTimesOutStep ==
    ASSUME TunnelInv, NEW c \in Callers, CreateTimesOut(c)
    PROVE  TunnelInv'
<1> DEFINE t == call[c].tunnel
           r == [tunnel[t] EXCEPT !.stop = TRUE]
<1>1. /\ At(c, "waiting") /\ UNCHANGED tunnels /\ tunnel' = [tunnel EXCEPT ![t] = r]
      /\ Become(c, "failing", t)
    BY DEF CreateTimesOut
<1>2. t \in Tunnels
    BY <1>1 DEF TunnelInv, TypeOK, CallRecords, At
<1>3. tunnel[t] \in TunnelRecords
    BY <1>2 DEF TunnelInv, TypeOK, KnownIsMade, Absent
<1>4. /\ r \in TunnelRecords
      /\ r.stop /\ r.id = tunnel[t].id /\ r.stage = tunnel[t].stage /\ r.ready = tunnel[t].ready
    BY <1>3 DEF TunnelRecords
<1> HIDE DEF r
<1>5. [pc |-> "failing", tunnel |-> t] \in CallRecords
    BY <1>2 DEF CallRecords, Creating
<1>6. TypeOK'
    BY <1>1, <1>4, <1>5 DEF TunnelInv, TypeOK, Become
<1>7. /\ tunnel'[t] = r
      /\ \A u \in Tunnels \ {t} : tunnel'[u] = tunnel[u]
      /\ \A d \in Callers : call'[d] = IF d = c THEN [pc |-> "failing", tunnel |-> t] ELSE call[d]
    BY <1>1, <1>2 DEF TunnelInv, TypeOK, Become
<1>8. \A u \in Tunnels : /\ tunnel'[u].id = tunnel[u].id
                         /\ tunnel'[u].stage = tunnel[u].stage
                         /\ tunnel'[u].ready = tunnel[u].ready
                         /\ tunnel[u].stop => tunnel'[u].stop
    BY <1>4, <1>7
<1> HIDE DEF t
<1>9. EntriesHaveThreads'
    BY <1>1, <1>8 DEF TunnelInv, TypeOK, EntriesHaveThreads, Runs, Serves, Stage
<1>10. RunningIsRegistered'
    <2> SUFFICES ASSUME NEW u \in Tunnels, Runs(u), ~ tunnel'[u].stop
                 PROVE  (\/ Registered(u)
                         \/ \E d \in Callers : At(d, "inserting") /\ call[d].tunnel = u)'
        BY <1>8 DEF RunningIsRegistered, Runs, Serves, Stage
    <2>1. ~ tunnel[u].stop
        BY <1>8
    <2>2. CASE Registered(u)
        BY <1>1, <1>8, <2>2 DEF Registered
    <2>3. ASSUME NEW d \in Callers, At(d, "inserting"), call[d].tunnel = u
          PROVE  At(d, "inserting")' /\ call'[d].tunnel = u
        BY <1>1, <1>7, <2>3 DEF At
    <2> QED
        BY <2>1, <2>2, <2>3 DEF TunnelInv, RunningIsRegistered
<1>11. FailedIsGone'
    BY <1>1, <1>7 DEF TunnelInv, FailedIsGone, At
<1>12. InsertingIsFresh'
    <2> SUFFICES ASSUME NEW d \in Callers, At(d, "inserting"), d # c
                 PROVE  LET u == call[d].tunnel IN
                        (/\ Runs(u) \/ Stage(u, "ending")
                         /\ tunnels[tunnel[u].id] = None
                         /\ \A i \in Connections : tunnels[i] # u
                         /\ \A e \in Callers \ {d} : call[e].tunnel # u /\ ~ At(e, "inserting"))'
        BY <1>7 DEF InsertingIsFresh, At
    <2>1. call[d].tunnel \in Tunnels
        BY DEF TunnelInv, TypeOK, CallRecords, At
    <2>2. call'[d] = call[d] /\ \A e \in Callers : call'[e].tunnel = call[e].tunnel
        BY <1>7 DEF t
    <2> QED
        BY <1>1, <1>7, <1>8, <2>1, <2>2 DEF TunnelInv, InsertingIsFresh, Runs, Serves, Stage, At
<1>13. ErrorIsFinal'
    BY <1>8 DEF TunnelInv, ErrorIsFinal, Over
<1>14. FailingIsOver'
    <2> SUFFICES ASSUME NEW d \in Callers, At(d, "failing")', d # c
                 PROVE  (tunnel[call[d].tunnel].stop \/ Over(call[d].tunnel))'
        BY <1>4, <1>7 DEF FailingIsOver
    <2>1. At(d, "failing") /\ call[d].tunnel \in Tunnels /\ call'[d] = call[d]
        BY <1>7 DEF TunnelInv, TypeOK, CallRecords, At
    <2> QED
        BY <1>8, <2>1 DEF TunnelInv, FailingIsOver, Over
<1>15. KnownIsMade'
    BY <1>7, <1>8 DEF TunnelInv, KnownIsMade, t
<1> QED
    BY <1>6, <1>9, <1>10, <1>11, <1>12, <1>13, <1>14, <1>15 DEF TunnelInv

(* unregister_tunnel takes out only the entry of a tunnel that is over or  *)
(* stopped.                                                                *)
LEMMA UnregisterKeeps ==
    ASSUME TunnelInv, NEW t \in Tunnels, Unlocked, Unregister(t), tunnel[t].stop \/ Over(t)
    PROVE  /\ tunnels' \in [Connections -> Tunnels \cup {None}]
           /\ \A i \in Connections : tunnels'[i] # None => tunnels'[i] = tunnels[i] /\ tunnels[i] # t
           /\ \A u \in Tunnels : Runs(u) /\ ~ tunnel[u].stop => tunnels'[tunnel[u].id] = u
<1>1. \A i \in Connections : tunnels'[i] = IF tunnels[i] = t THEN None ELSE tunnels[i]
    BY DEF Unregister
<1>2. tunnels' \in [Connections -> Tunnels \cup {None}]
    BY DEF Unregister, TunnelInv, TypeOK
<1>3. ASSUME NEW u \in Tunnels, Runs(u), ~ tunnel[u].stop
      PROVE  tunnels'[tunnel[u].id] = u
    <2>1. Registered(u)
        BY <1>3 DEF TunnelInv, RunningIsRegistered, Unlocked
    <2>2. tunnel[u].id \in Connections
        BY <1>3 DEF TunnelInv, TypeOK, TunnelRecords, Absent, Runs, Serves, Serving, Stage
    <2>3. u # t
        BY <1>3 DEF Over, Runs, Serves, Serving, Stage
    <2> QED
        BY <1>1, <2>1, <2>2, <2>3 DEF Registered
<1> QED
    BY <1>1, <1>2, <1>3

LEMMA CreateFailsStep ==
    ASSUME TunnelInv, NEW c \in Callers, CreateFails(c)
    PROVE  TunnelInv'
<1> DEFINE t == call[c].tunnel
<1>1. /\ At(c, "failing") /\ Unlocked /\ UNCHANGED tunnel
      /\ Unregister(t) /\ Become(c, "refused", t)
    BY DEF CreateFails
<1>2. t \in Tunnels
    BY <1>1 DEF TunnelInv, TypeOK, CallRecords, At
<1>3. tunnel[t].stop \/ Over(t)
    BY <1>1 DEF TunnelInv, FailingIsOver
<1>4. /\ tunnels' \in [Connections -> Tunnels \cup {None}]
      /\ \A i \in Connections : tunnels'[i] # None => tunnels'[i] = tunnels[i] /\ tunnels[i] # t
      /\ \A u \in Tunnels : Runs(u) /\ ~ tunnel[u].stop => tunnels'[tunnel[u].id] = u
    BY <1>1, <1>2, <1>3, UnregisterKeeps
<1>5. \A d \in Callers : call'[d] = IF d = c THEN [pc |-> "refused", tunnel |-> t] ELSE call[d]
    BY <1>1 DEF Become, TunnelInv, TypeOK
<1>6. TypeOK'
    <2>1. [pc |-> "refused", tunnel |-> t] \in CallRecords
        BY <1>2 DEF CallRecords
    <2> QED
        BY <1>1, <1>4, <2>1 DEF Become, TunnelInv, TypeOK
<1> HIDE DEF t
<1>7. EntriesHaveThreads'
    BY <1>1, <1>4 DEF TunnelInv, EntriesHaveThreads, Runs, Serves, Stage
<1>8. RunningIsRegistered'
    BY <1>1, <1>4 DEF RunningIsRegistered, Registered, Runs, Serves, Stage
<1>9. FailedIsGone'
    BY <1>4, <1>5 DEF TunnelInv, FailedIsGone, At
<1>10. InsertingIsFresh'
    BY <1>1, <1>5 DEF InsertingIsFresh, Unlocked, At
<1>11. ErrorIsFinal'
    BY <1>1 DEF TunnelInv, ErrorIsFinal, Over
<1>12. FailingIsOver'
    BY <1>1, <1>5 DEF TunnelInv, FailingIsOver, Over, At
<1>13. KnownIsMade'
    BY <1>1, <1>5 DEF TunnelInv, KnownIsMade, t
<1> QED
    BY <1>6, <1>7, <1>8, <1>9, <1>10, <1>11, <1>12, <1>13 DEF TunnelInv

LEMMA ThreadEndsStep ==
    ASSUME TunnelInv, NEW t \in Tunnels, ThreadEnds(t)
    PROVE  TunnelInv'
<1> DEFINE r == [tunnel[t] EXCEPT !.stage = "done"]
<1>1. /\ Stage(t, "ending") /\ Unlocked /\ UNCHANGED call
      /\ Unregister(t) /\ tunnel' = [tunnel EXCEPT ![t] = r]
    BY DEF ThreadEnds, Enter
<1>2. tunnel[t] \in TunnelRecords
    BY <1>1 DEF TunnelInv, TypeOK, Stage, Absent
<1>3. /\ r \in TunnelRecords
      /\ r.stop = tunnel[t].stop /\ r.id = tunnel[t].id /\ r.stage = "done" /\ r.ready = tunnel[t].ready
    BY <1>2 DEF TunnelRecords, Stages
<1> HIDE DEF r
<1>4. /\ tunnels' \in [Connections -> Tunnels \cup {None}]
      /\ \A i \in Connections : tunnels'[i] # None => tunnels'[i] = tunnels[i] /\ tunnels[i] # t
      /\ \A u \in Tunnels : Runs(u) /\ ~ tunnel[u].stop => tunnels'[tunnel[u].id] = u
    BY <1>1, UnregisterKeeps DEF Over, Stage
<1>5. tunnel'[t] = r /\ \A u \in Tunnels \ {t} : tunnel'[u] = tunnel[u]
    BY <1>1 DEF TunnelInv, TypeOK
<1>6. TypeOK'
    BY <1>1, <1>3, <1>4 DEF TunnelInv, TypeOK
<1>7. \A u \in Tunnels : /\ tunnel'[u].id = tunnel[u].id /\ tunnel'[u].stop = tunnel[u].stop
                         /\ tunnel'[u].ready = tunnel[u].ready
                         /\ Over(u) => Over(u)'
                         /\ Runs(u)' => Runs(u)
                         /\ tunnel[u].stage # "absent" => tunnel'[u].stage # "absent"
    BY <1>1, <1>3, <1>5 DEF Over, Runs, Serves, Serving, Stage
<1>8. EntriesHaveThreads'
    BY <1>4, <1>5, <1>6 DEF TunnelInv, TypeOK, EntriesHaveThreads, Runs, Serves, Stage
<1>9. RunningIsRegistered'
    BY <1>4, <1>7 DEF RunningIsRegistered, Registered
<1>10. FailedIsGone'
    BY <1>1, <1>4 DEF TunnelInv, FailedIsGone, At
<1>11. InsertingIsFresh'
    BY <1>1 DEF InsertingIsFresh, Unlocked, At
<1>12. ErrorIsFinal'
    BY <1>7 DEF TunnelInv, ErrorIsFinal
<1>13. FailingIsOver'
    <2> SUFFICES ASSUME NEW d \in Callers, At(d, "failing")
                 PROVE  (tunnel[call[d].tunnel].stop \/ Over(call[d].tunnel))'
        BY <1>1 DEF FailingIsOver, At
    <2>1. call[d].tunnel \in Tunnels
        BY DEF TunnelInv, TypeOK, CallRecords, At
    <2> QED
        BY <1>1, <1>7, <2>1 DEF TunnelInv, FailingIsOver
<1>14. KnownIsMade'
    BY <1>1, <1>7 DEF TunnelInv, KnownIsMade
<1> QED
    BY <1>6, <1>8, <1>9, <1>10, <1>11, <1>12, <1>13, <1>14 DEF TunnelInv

LEMMA CloseStep ==
    ASSUME TunnelInv, NEW c \in Callers, NEW is \in SUBSET Connections, CloseTunnels(c, is)
    PROVE  TunnelInv'
<1> DEFINE closed(t) == \E i \in is : tunnels[i] = t
           r(t) == IF closed(t) THEN [tunnel[t] EXCEPT !.stop = TRUE] ELSE tunnel[t]
<1>1. /\ Unlocked
      /\ \A i \in Connections : tunnels'[i] = IF i \in is THEN None ELSE tunnels[i]
      /\ tunnels' \in [Connections -> Tunnels \cup {None}]
      /\ tunnel' = [t \in Tunnels |-> r(t)]
      /\ Become(c, "idle", None)
    BY DEF CloseTunnels, TunnelInv, TypeOK
<1>2. \A i \in Connections : tunnels[i] # None => tunnel[tunnels[i]].stage # "absent"
    BY DEF TunnelInv, EntriesHaveThreads, Runs, Serves, Serving, Stage
<1>3. ASSUME NEW t \in Tunnels
      PROVE  /\ r(t) \in TunnelRecords \cup {Absent}
             /\ r(t).id = tunnel[t].id /\ r(t).stage = tunnel[t].stage /\ r(t).ready = tunnel[t].ready
             /\ r(t).stop <=> tunnel[t].stop \/ closed(t)
    <2>1. CASE closed(t)
        <3>1. tunnel[t] \in TunnelRecords
            BY <1>2, <2>1, NoneAssumption DEF TunnelInv, TypeOK, Absent
        <3> QED
            BY <2>1, <3>1 DEF TunnelRecords
    <2>2. CASE ~ closed(t)
        BY <2>2 DEF TunnelInv, TypeOK
    <2> QED
        BY <2>1, <2>2
<1> HIDE DEF r
<1>4. \A t \in Tunnels : tunnel'[t] = r(t)
    BY <1>1
<1>5. \A d \in Callers : call'[d] = IF d = c THEN [pc |-> "idle", tunnel |-> None] ELSE call[d]
    BY <1>1 DEF Become, TunnelInv, TypeOK
<1>6. TypeOK'
    <2>1. [pc |-> "idle", tunnel |-> None] \in CallRecords
        BY DEF CallRecords
    <2> QED
        BY <1>1, <1>3, <2>1 DEF Become, TunnelInv, TypeOK
<1>7. \A t \in Tunnels : /\ tunnel'[t].id = tunnel[t].id
                         /\ tunnel'[t].stage = tunnel[t].stage
                         /\ tunnel'[t].ready = tunnel[t].ready
    BY <1>3, <1>4
<1>8. \A t \in Tunnels : tunnel'[t].stop <=> tunnel[t].stop \/ closed(t)
    BY <1>3, <1>4
<1>9. EntriesHaveThreads'
    BY <1>1, <1>7 DEF TunnelInv, TypeOK, EntriesHaveThreads, Runs, Serves, Stage
<1>10. RunningIsRegistered'
    <2> SUFFICES ASSUME NEW t \in Tunnels, Runs(t), ~ tunnel'[t].stop
                 PROVE  Registered(t)'
        BY <1>7 DEF RunningIsRegistered, Runs, Serves, Stage
    <2>1. tunnel[t].id \in Connections
        BY DEF TunnelInv, TypeOK, TunnelRecords, Absent, Runs, Serves, Serving, Stage
    <2>2. ~ tunnel[t].stop /\ ~ closed(t)
        BY <1>8
    <2>3. Registered(t)
        BY <1>1, <2>2 DEF TunnelInv, RunningIsRegistered, Unlocked
    <2> QED
        BY <1>1, <1>7, <2>1, <2>2, <2>3 DEF Registered
<1>11. FailedIsGone'
    BY <1>1, <1>5 DEF TunnelInv, FailedIsGone, At
<1>12. InsertingIsFresh'
    BY <1>1, <1>5 DEF InsertingIsFresh, Unlocked, At
<1>13. ErrorIsFinal'
    BY <1>7 DEF TunnelInv, ErrorIsFinal, Over
<1>14. FailingIsOver'
    <2> SUFFICES ASSUME NEW d \in Callers, At(d, "failing"), d # c
                 PROVE  (tunnel[call[d].tunnel].stop \/ Over(call[d].tunnel))'
        BY <1>5 DEF FailingIsOver, At
    <2>1. call[d].tunnel \in Tunnels /\ call'[d] = call[d]
        BY <1>5 DEF TunnelInv, TypeOK, CallRecords, At
    <2> QED
        BY <1>7, <1>8, <2>1 DEF TunnelInv, FailingIsOver, Over
<1>15. KnownIsMade'
    BY <1>5, <1>7, NoneAssumption DEF TunnelInv, KnownIsMade
<1> QED
    BY <1>6, <1>9, <1>10, <1>11, <1>12, <1>13, <1>14, <1>15 DEF TunnelInv

-----------------------------------------------------------------------------
LEMMA TunnelNext == TunnelInv /\ [Next]_vars => TunnelInv'
<1> SUFFICES ASSUME TunnelInv, [Next]_vars PROVE TunnelInv'
    OBVIOUS
<1>1. ASSUME NEW c \in Callers, Invoke(c) PROVE TunnelInv'
    <2>1. ASSUME NEW i \in Connections, CreateExisting(c, i) \/ CreateNoPort(c, i) PROVE TunnelInv'
        BY <2>1, AnswerStep
    <2>2. ASSUME NEW i \in Connections, CreateNew(c, i) PROVE TunnelInv'
        BY <2>2, CreateNewStep
    <2>3. ASSUME NEW i \in Connections, Close(c, i) PROVE TunnelInv'
        BY <2>3, CloseStep DEF Close
    <2>4. CASE CloseAll(c)
        BY <2>4, CloseStep DEF CloseAll
    <2> QED
        BY <1>1, <2>1, <2>2, <2>3, <2>4 DEF Invoke
<1>2. ASSUME NEW c \in Callers, Proceed(c) PROVE TunnelInv'
    BY <1>2, CreateInsertStep, AnswerStep, CreateTimesOutStep, CreateFailsStep DEF Proceed
<1>3. ASSUME NEW t \in Tunnels, Handshake(t) \/ Serve(t) \/ ForwardEnds(t) \/ ForwardStops(t) \/ LoseLink(t)
      PROVE  TunnelInv'
    BY <1>3, ThreadStep, ThreadEndsStep DEF Serve, ForwardStops
<1>4. CASE UNCHANGED vars
    <2>1. tunnels' = tunnels /\ tunnel' = tunnel /\ call' = call
        BY <1>4 DEF vars
    <2>2. TypeOK'
        BY <2>1 DEF TunnelInv, TypeOK
    <2>3. \A u \in Tunnels : /\ tunnel'[u] = tunnel[u]
                             /\ tunnel'[u].ready = "err" => tunnel[u].ready = "err"
        BY <2>1
    <2> QED
        BY <2>1, <2>2, <2>3, ThreadQuiet
<1> QED
    BY <1>1, <1>2, <1>3, <1>4 DEF Next

LEMMA TunnelInvariant == Spec => []TunnelInv
BY TunnelInit, TunnelNext, PTL DEF Spec

(* The variables of ssh.rs keep their types.                               *)
THEOREM TunnelTypes == Spec => []TypeOK
<1>1. TunnelInv => TypeOK
    BY DEF TunnelInv
<1> QED
    BY <1>1, TunnelInvariant, PTL

(* Every registered tunnel has a thread that will unregister it, and every *)
(* running, unstopped tunnel is registered where the user can close it:    *)
(* unregister_tunnel and the lock around the spawn do what they are for.   *)
THEOREM RegistryMatchesThreads == Spec => []RegistryIsCurrent
<1>1. TunnelInv => RegistryIsCurrent
    BY DEF TunnelInv, RegistryIsCurrent
<1> QED
    BY <1>1, TunnelInvariant, PTL

(* A tunnel whose create_ssh_tunnel has answered Err is not registered.    *)
THEOREM FailedTunnelsAreGone == Spec => []FailedIsGone
<1>1. TunnelInv => FailedIsGone
    BY DEF TunnelInv
<1> QED
    BY <1>1, TunnelInvariant, PTL

-----------------------------------------------------------------------------
(* The shapes of the grids and jobs, as far as new rows depend on them.     *)
Fields == {"pc", "kind", "tab", "table", "rows", "to", "from", "target", "query"}
EditShapes ==
    /\ active \in Tabs /\ copies \in [News -> Nat]
    /\ DOMAIN grid = Tabs /\ \A t \in Tabs : DOMAIN grid[t] = Slots
    /\ DOMAIN job = Jobs /\ \A j \in Jobs : job[j] = Idle \/ DOMAIN job[j] = Fields

(* A save under way that has a new row, and a grid that shows one.          *)
Stores(x, n) == x.kind = "save" /\ x.rows[n] # Missing
Shown(rows, n) == rows[n] # Missing

(* A new row is shown in one tab, and every save that has it was begun      *)
(* there.                                                                   *)
OnePlace ==
    \A n \in News, t \in Tabs :
        Shown(grid[t], n) =>
            /\ \A u \in Tabs : Shown(grid[u], n) => u = t
            /\ \A j \in Jobs : Stores(job[j], n) => job[j].tab = t

(* One save has a new row. Once that is committed it only waits for the     *)
(* refresh that will take the row out of the grid, and without such a save  *)
(* the row is not shown.                                                    *)
StoredOnce(n) ==
    /\ copies[n] <= 1
    /\ \A i, j \in Jobs : Stores(job[i], n) /\ Stores(job[j], n) => i = j
    /\ copies[n] = 1 => \A j \in Jobs : Stores(job[j], n) => job[j].pc = "refreshing"
    /\ copies[n] = 1 => \A t \in Tabs : Shown(grid[t], n) => \E j \in Jobs : Stores(job[j], n)

(* The inductive invariant. *)
EditInv == EditShapes /\ OnePlace /\ \A n \in News \ again : StoredOnce(n)

(* Steps that store no new row, show none, and take none from a save that   *)
(* was committed as long as the row is shown.                               *)
LEMMA Lasting ==
    ASSUME EditInv, EditShapes', copies' = copies, again \subseteq again',
           \A t \in Tabs, n \in News : Shown(grid'[t], n) => Shown(grid[t], n),
           \A j \in Jobs, n \in News :
               Stores(job'[j], n) => /\ Stores(job[j], n) /\ job'[j].tab = job[j].tab
                                     /\ job[j].pc = "refreshing" => job'[j].pc = "refreshing",
           \A n \in News \ again', t \in Tabs, j \in Jobs :
               copies[n] = 1 /\ Shown(grid'[t], n) /\ Stores(job[j], n) => Stores(job'[j], n)
    PROVE  EditInv'
<1>1. OnePlace'
    BY DEF EditInv, OnePlace
<1>2. ASSUME NEW n \in News \ again' PROVE StoredOnce(n)'
    <2>1. n \in News \ again /\ StoredOnce(n)
        BY <1>2 DEF EditInv
    <2>2. copies[n] <= 1 /\ copies'[n] = copies[n]
        BY <2>1 DEF StoredOnce
    <2>3. \A i, j \in Jobs : Stores(job'[i], n) /\ Stores(job'[j], n) => i = j
        BY <2>1 DEF StoredOnce
    <2>4. ASSUME copies[n] = 1, NEW j \in Jobs, Stores(job'[j], n) PROVE job'[j].pc = "refreshing"
        BY <2>1, <2>4 DEF StoredOnce
    <2>5. ASSUME copies[n] = 1, NEW t \in Tabs, Shown(grid'[t], n)
          PROVE  \E j \in Jobs : Stores(job'[j], n)
        BY <1>2, <2>1, <2>5 DEF StoredOnce
    <2> QED BY <2>2, <2>3, <2>4, <2>5 DEF StoredOnce
<1> QED BY <1>1, <1>2 DEF EditInv

(* The grid that Show puts into the active tab. *)
LEMMA ShowFacts ==
    ASSUME EditShapes, NEW rows, Show(rows), DOMAIN rows = Slots
    PROVE  /\ DOMAIN grid' = Tabs /\ \A t \in Tabs : DOMAIN grid'[t] = Slots
           /\ grid'[active] = rows /\ \A t \in Tabs : t # active => grid'[t] = grid[t]
BY DEF EditShapes, Show

(* One job takes a step. *)
LEMMA JobFacts ==
    ASSUME EditShapes, NEW j \in Jobs, NEW x, job' = [job EXCEPT ![j] = x]
    PROVE  /\ DOMAIN job' = Jobs /\ job'[j] = x /\ \A i \in Jobs : i # j => job'[i] = job[i]
BY DEF EditShapes

(* No job, no rows. *)
LEMMA IdleFacts ==
    /\ \A n : ~Stores(Idle, n) /\ Idle.pc = "none" /\ Idle.kind = "none"
    /\ \A n \in Slots : Idle.rows[n] = Missing
BY DEF Idle, Stores, Nothing

(* A job that is over, or begins and saves nothing. *)
LEMMA JobEnds ==
    ASSUME EditInv, NEW j \in Jobs, Ends(j), UNCHANGED <<active, copies>>,
           DOMAIN grid' = Tabs, \A t \in Tabs : DOMAIN grid'[t] = Slots,
           again \subseteq again',
           \A t \in Tabs, n \in News : Shown(grid'[t], n) => Shown(grid[t], n),
           \A n \in News \ again', t \in Tabs :
               copies[n] = 1 /\ Stores(job[j], n) => ~Shown(grid'[t], n)
    PROVE  EditInv'
<1>1. DOMAIN job' = Jobs /\ job'[j] = Idle /\ \A i \in Jobs : i # j => job'[i] = job[i]
    BY JobFacts DEF EditInv, Ends
<1>2. EditShapes'
    BY <1>1 DEF EditInv, EditShapes
<1>3. \A n : ~Stores(job'[j], n)
    BY <1>1, IdleFacts
<1> QED BY <1>1, <1>2, <1>3, Lasting

(* A job that saves nothing begins. *)
LEMMA JobBegins ==
    ASSUME EditInv, NEW j \in Jobs, NEW kind \in {"delete", "update", "select", "command"},
           NEW pc, NEW table, NEW rows, NEW to,
           Starts(j, kind, pc, table, rows, to), UNCHANGED <<active, grid, copies, again>>
    PROVE  EditInv'
<1> DEFINE x == [pc |-> pc, kind |-> kind, tab |-> active, table |-> table, rows |-> rows,
                 to |-> to, from |-> from[active], target |-> active, query |-> last]
<1>1. job' = [job EXCEPT ![j] = x] /\ job[j] = Idle
    BY DEF Starts
<1>2. DOMAIN x = Fields /\ \A n : ~Stores(x, n)
    BY DEF Fields, Stores
<1> HIDE DEF x
<1>3. DOMAIN job' = Jobs /\ job'[j] = x /\ \A i \in Jobs : i # j => job'[i] = job[i]
    BY <1>1, JobFacts DEF EditInv
<1>4. EditShapes'
    BY <1>2, <1>3 DEF EditInv, EditShapes
<1>5. \A n : ~Stores(job'[j], n) /\ ~Stores(job[j], n)
    BY <1>1, <1>2, <1>3, IdleFacts
<1> QED BY <1>3, <1>4, <1>5, Lasting

(* Steps that change neither the jobs nor which rows are shown as new. *)
LEMMA GridChanges ==
    ASSUME EditInv, UNCHANGED <<job, copies, again>>, active' \in Tabs,
           DOMAIN grid' = Tabs, \A t \in Tabs : DOMAIN grid'[t] = Slots,
           \A t \in Tabs, n \in News : Shown(grid'[t], n) => Shown(grid[t], n)
    PROVE  EditInv'
<1>1. EditShapes'
    BY DEF EditInv, EditShapes
<1> QED BY <1>1, Lasting

(* A cell is edited. *)
LEMMA EditKeeps == ASSUME EditInv, NEW s \in Slots, NEW c \in Columns, Edit(s, c) PROVE EditInv'
<1>1. PICK x \in Typed :
          LET cells == [grid[active][s].cells EXCEPT ![c] = x]
          IN  Show([grid[active] EXCEPT ![s] = [grid[active][s] EXCEPT !.cells = cells, !.edited = TRUE]])
    BY DEF Edit
<1> DEFINE cells == [grid[active][s].cells EXCEPT ![c] = x]
           row == [grid[active][s] EXCEPT !.cells = cells, !.edited = TRUE]
           rows == [grid[active] EXCEPT ![s] = row]
<1>2. UNCHANGED <<active, job, copies, again>> /\ grid[active][s] # Missing
    BY DEF Edit, editHistory
<1>3. Show(rows)
    BY <1>1
<1> HIDE DEF row
<1>4. DOMAIN rows = Slots /\ \A n \in Slots : n # s => rows[n] = grid[active][n]
    BY DEF EditInv, EditShapes
<1> HIDE DEF rows
<1>5. /\ DOMAIN grid' = Tabs /\ \A t \in Tabs : DOMAIN grid'[t] = Slots
      /\ grid'[active] = rows /\ \A t \in Tabs : t # active => grid'[t] = grid[t]
    BY <1>3, <1>4, ShowFacts DEF EditInv
<1>6. active' \in Tabs
    BY <1>2 DEF EditInv, EditShapes
<1>7. \A t \in Tabs, n \in News : Shown(grid'[t], n) => Shown(grid[t], n)
    BY <1>2, <1>4, <1>5 DEF Shown, Slots
<1> QED BY <1>2, <1>5, <1>6, <1>7, GridChanges

(* A row is added: it is shown nowhere else and no save has it.             *)
LEMMA AddedKeeps == ASSUME EditInv, NEW n \in News, NEW cells, Added(n, cells) PROVE EditInv'
<1> DEFINE row == [cells |-> cells, new |-> TRUE, edited |-> FALSE, orig |-> cells]
           rows == [grid[active] EXCEPT ![n] = row]
<1>1. /\ \A t \in Tabs : grid[t][n] = Missing
      /\ \A j \in Jobs : job[j].rows[n] = Missing
      /\ Show(rows) /\ copies' = [copies EXCEPT ![n] = 0] /\ again' = again \ {n}
      /\ UNCHANGED <<active, job>>
    BY DEF Added
<1> HIDE DEF row
<1>2. n \in Slots
    BY DEF Slots
<1>3. DOMAIN rows = Slots /\ \A m \in Slots : m # n => rows[m] = grid[active][m]
    BY DEF EditInv, EditShapes
<1> HIDE DEF rows
<1>4. /\ DOMAIN grid' = Tabs /\ \A t \in Tabs : DOMAIN grid'[t] = Slots
      /\ grid'[active] = rows /\ \A t \in Tabs : t # active => grid'[t] = grid[t]
    BY <1>1, <1>3, ShowFacts DEF EditInv
<1>5. copies' \in [News -> Nat] /\ copies'[n] = 0 /\ \A m \in News : m # n => copies'[m] = copies[m]
    BY <1>1 DEF EditInv, EditShapes
<1>6. EditShapes'
    BY <1>1, <1>4, <1>5 DEF EditInv, EditShapes
<1>7. \A j \in Jobs : ~Stores(job[j], n)
    BY <1>1 DEF Stores
<1>8. \A t \in Tabs : Shown(grid'[t], n) => t = active
    BY <1>1, <1>4 DEF Shown
<1>9. \A t \in Tabs, m \in News : m # n => (Shown(grid'[t], m) <=> Shown(grid[t], m))
    BY <1>3, <1>4 DEF Shown, Slots
<1>10. OnePlace'
    <2>1. SUFFICES ASSUME NEW m \in News, NEW t \in Tabs, Shown(grid'[t], m)
                   PROVE  /\ \A u \in Tabs : Shown(grid'[u], m) => u = t
                          /\ \A j \in Jobs : Stores(job[j], m) => job[j].tab = t
        BY <1>1 DEF OnePlace
    <2>2. CASE m = n
        BY <1>7, <1>8, <2>1, <2>2
    <2>3. CASE m # n
        BY <1>9, <2>1, <2>3 DEF EditInv, OnePlace
    <2> QED BY <2>2, <2>3
<1>11. ASSUME NEW m \in News \ again' PROVE StoredOnce(m)'
    <2>1. CASE m = n
        BY <1>1, <1>5, <1>7, <2>1 DEF StoredOnce
    <2>2. CASE m # n
        <3>1. StoredOnce(m) /\ copies'[m] = copies[m]
            BY <1>1, <1>5, <1>11, <2>2 DEF EditInv
        <3>2. \A t \in Tabs : Shown(grid'[t], m) <=> Shown(grid[t], m)
            BY <1>9, <2>2
        <3> QED BY <1>1, <3>1, <3>2 DEF StoredOnce
    <2> QED BY <2>1, <2>2
<1> QED BY <1>6, <1>10, <1>11 DEF EditInv

(* New rows are discarded. *)
LEMMA DiscardNewKeeps == ASSUME EditInv, DiscardNew PROVE EditInv'
<1> DEFINE rows == [s \in Slots |-> IF s \in News THEN Missing ELSE grid[active][s]]
<1>1. Show(rows) /\ UNCHANGED <<active, job, copies, again>>
    BY DEF DiscardNew, editHistory
<1>2. DOMAIN rows = Slots /\ \A n \in News : rows[n] = Missing
    BY DEF Slots
<1> HIDE DEF rows
<1>3. /\ DOMAIN grid' = Tabs /\ \A t \in Tabs : DOMAIN grid'[t] = Slots
      /\ grid'[active] = rows /\ \A t \in Tabs : t # active => grid'[t] = grid[t]
    BY <1>1, <1>2, ShowFacts DEF EditInv
<1>4. active' \in Tabs
    BY <1>1 DEF EditInv, EditShapes
<1>5. \A t \in Tabs, n \in News : Shown(grid'[t], n) => Shown(grid[t], n)
    BY <1>2, <1>3 DEF Shown
<1> QED BY <1>1, <1>3, <1>4, <1>5, GridChanges

(* A save begins: a row that another save has already counts as saved again.*)
LEMMA SaveKeeps == ASSUME EditInv, NEW j \in Jobs, Save(j) PROVE EditInv'
<1> DEFINE rows == [s \in Slots |-> IF s \in Pending(grid[active]) THEN grid[active][s] ELSE Missing]
           x == [pc |-> "checking", kind |-> "save", tab |-> active, table |-> name[active],
                 rows |-> rows, to |-> Blank, from |-> from[active], target |-> active,
                 query |-> last]
<1>1. /\ job' = [job EXCEPT ![j] = x] /\ job[j] = Idle
      /\ again' = again \cup
            {n \in NewIn(grid[active]) : \E i \in Jobs : Busy(i, {"save"}) /\ job[i].rows[n] # Missing}
      /\ UNCHANGED <<active, grid, copies>>
    BY DEF Save, Starts
<1>2. \A n \in News : rows[n] # Missing => grid[active][n] # Missing
    BY DEF Slots
<1> HIDE DEF rows
<1>3. DOMAIN x = Fields /\ x.kind = "save" /\ x.tab = active /\ x.pc = "checking" /\ x.rows = rows
    BY DEF Fields
<1> HIDE DEF x
<1>4. DOMAIN job' = Jobs /\ job'[j] = x /\ \A i \in Jobs : i # j => job'[i] = job[i]
    BY <1>1, JobFacts DEF EditInv
<1>5. EditShapes'
    BY <1>1, <1>3, <1>4 DEF EditInv, EditShapes
<1>6. \A n \in News : Stores(x, n) => Shown(grid[active], n)
    BY <1>2, <1>3 DEF Stores, Shown
<1>7. \A n : ~Stores(job[j], n)
    BY <1>1, IdleFacts
<1>8. active \in Tabs
    BY DEF EditInv, EditShapes
<1>9. OnePlace'
    <2>1. SUFFICES ASSUME NEW n \in News, NEW t \in Tabs, Shown(grid[t], n)
                   PROVE  /\ \A u \in Tabs : Shown(grid[u], n) => u = t
                          /\ \A i \in Jobs : Stores(job'[i], n) => job'[i].tab = t
        BY <1>1 DEF OnePlace
    <2>2. /\ \A u \in Tabs : Shown(grid[u], n) => u = t
          /\ \A i \in Jobs : Stores(job[i], n) => job[i].tab = t
        BY <2>1 DEF EditInv, OnePlace
    <2>3. Stores(x, n) => x.tab = t
        BY <1>3, <1>6, <1>8, <2>2
    <2> QED BY <1>4, <2>2, <2>3
<1>10. ASSUME NEW n \in News \ again' PROVE StoredOnce(n)'
    <2>1. StoredOnce(n)
        BY <1>1, <1>10 DEF EditInv
    <2>2. CASE Stores(x, n)
        <3>1. Shown(grid[active], n)
            BY <1>6, <2>2
        <3>2. \A i \in Jobs : ~Stores(job[i], n)
            BY <1>1, <1>10, <3>1 DEF Stores, Busy, NewIn, Shown
        <3>3. copies[n] # 1
            BY <1>8, <2>1, <3>1, <3>2 DEF StoredOnce
        <3>4. \A i \in Jobs : Stores(job'[i], n) => i = j
            BY <1>4, <3>2
        <3> QED BY <1>1, <2>1, <3>3, <3>4 DEF StoredOnce
    <2>3. CASE ~Stores(x, n)
        <3>1. \A i \in Jobs : (Stores(job'[i], n) <=> Stores(job[i], n))
            BY <1>4, <1>7, <2>3
        <3>2. \A i \in Jobs : Stores(job[i], n) => job'[i] = job[i]
            BY <1>4, <1>7
        <3> QED BY <1>1, <2>1, <3>1, <3>2 DEF StoredOnce
    <2> QED BY <2>2, <2>3
<1> QED BY <1>5, <1>9, <1>10 DEF EditInv

(* A save goes on to write. *)
LEMMA CheckKeeps == ASSUME EditInv, NEW j \in Jobs, Check(j) PROVE EditInv'
<1> DEFINE x == [job[j] EXCEPT !.pc = "writing", !.target = active]
<1>1. /\ job[j].kind = "save" /\ job[j].pc = "checking"
      /\ job' = [job EXCEPT ![j].pc = "writing", ![j].target = active]
      /\ UNCHANGED <<active, grid, copies, again>>
    BY DEF Check, Busy, editHistory
<1>2. DOMAIN job[j] = Fields
    BY <1>1, IdleFacts DEF EditInv, EditShapes
<1>3. job' = [job EXCEPT ![j] = x]
    BY <1>1, <1>2 DEF EditInv, EditShapes
<1>4. DOMAIN x = Fields /\ x.kind = "save" /\ x.tab = job[j].tab /\ x.rows = job[j].rows
    BY <1>1, <1>2 DEF Fields
<1> HIDE DEF x
<1>5. DOMAIN job' = Jobs /\ job'[j] = x /\ \A i \in Jobs : i # j => job'[i] = job[i]
    BY <1>3, JobFacts DEF EditInv
<1>6. EditShapes'
    BY <1>1, <1>4, <1>5 DEF EditInv, EditShapes
<1>7. \A i \in Jobs, n \in News :
          /\ Stores(job'[i], n) <=> Stores(job[i], n)
          /\ Stores(job'[i], n) => job'[i].tab = job[i].tab
          /\ job[i].pc = "refreshing" => job'[i].pc = "refreshing"
    BY <1>1, <1>4, <1>5 DEF Stores
<1> QED BY <1>1, <1>6, <1>7, Lasting

(* A job that writes, or is being prepared, has not stored what it saves.  *)
LEMMA NotStoredYet ==
    ASSUME EditInv, NEW j \in Jobs, job[j].pc # "refreshing", NEW n \in News \ again
    PROVE  ~(copies[n] = 1 /\ Stores(job[j], n))
BY DEF EditInv, StoredOnce

(* A job is over without having stored a new row. *)
LEMMA EndsUnstored ==
    ASSUME EditInv, NEW j \in Jobs, job[j].pc # "refreshing" \/ job[j].kind # "save",
           Ends(j), UNCHANGED <<active, copies, again>>,
           DOMAIN grid' = Tabs, \A t \in Tabs : DOMAIN grid'[t] = Slots,
           \A t \in Tabs, n \in News : Shown(grid'[t], n) => Shown(grid[t], n)
    PROVE  EditInv'
<1>1. \A n \in News \ again : ~(copies[n] = 1 /\ Stores(job[j], n))
    <2>1. CASE job[j].pc # "refreshing"
        BY <2>1, NotStoredYet
    <2>2. CASE job[j].kind # "save"
        BY <2>2 DEF Stores
    <2> QED BY <2>1, <2>2
<1> QED BY <1>1, JobEnds

(* A job fails. *)
LEMMA StopsKeep ==
    ASSUME EditInv, NEW j \in Jobs, CheckFails(j) \/ RollBack(j) \/ RunFails(j) PROVE EditInv'
<1>1. /\ job[j].pc \in {"checking", "writing"} \/ job[j].kind \in {"select", "command"}
      /\ Ends(j) /\ UNCHANGED <<active, grid, copies, again>>
    BY DEF CheckFails, RollBack, RunFails, Busy, editHistory
<1>2. DOMAIN grid' = Tabs /\ \A t \in Tabs : DOMAIN grid'[t] = Slots
    BY <1>1 DEF EditInv, EditShapes
<1> QED BY <1>1, <1>2, EndsUnstored

(* A grid that is patched shows no row it did not show. *)
LEMMA PatchedHides ==
    ASSUME NEW j
    PROVE  /\ DOMAIN Patched(j) = Slots
           /\ \A n \in Slots : Patched(j)[n] # Missing => grid[active][n] # Missing
BY DEF Patched

(* A batch is committed, and its new rows are stored. *)
LEMMA CommitKeeps == ASSUME EditInv, NEW j \in Jobs, Commit(j) PROVE EditInv'
<1>1. /\ job[j].pc = "writing"
      /\ IF job[j].kind = "save" THEN Goes(j, "refreshing") /\ UNCHANGED grid
         ELSE Ends(j) /\ Show(Patched(j))
      /\ copies' = [n \in News |->
            IF job[j].kind = "save" /\ job[j].rows[n] # Missing THEN copies[n] + 1 ELSE copies[n]]
      /\ UNCHANGED <<active, again>>
    BY DEF Commit
<1>2. CASE job[j].kind # "save"
    <2>1. copies' = copies
        BY <1>1, <1>2 DEF EditInv, EditShapes
    <2>2. /\ DOMAIN grid' = Tabs /\ \A t \in Tabs : DOMAIN grid'[t] = Slots
          /\ grid'[active] = Patched(j) /\ \A t \in Tabs : t # active => grid'[t] = grid[t]
        BY <1>1, <1>2, PatchedHides, ShowFacts DEF EditInv
    <2>3. \A t \in Tabs, n \in News : Shown(grid'[t], n) => Shown(grid[t], n)
        BY <2>2, PatchedHides DEF Shown, Slots
    <2> QED BY <1>1, <1>2, <2>1, <2>2, <2>3, EndsUnstored
<1>3. CASE job[j].kind = "save"
    <2> DEFINE x == [job[j] EXCEPT !.pc = "refreshing"]
    <2>1. DOMAIN job[j] = Fields
        BY <1>3, IdleFacts DEF EditInv, EditShapes
    <2>2. job' = [job EXCEPT ![j] = x] /\ UNCHANGED grid
        BY <1>1, <1>3 DEF Goes, EditInv, EditShapes
    <2>3. /\ DOMAIN x = Fields /\ x.kind = "save" /\ x.tab = job[j].tab /\ x.rows = job[j].rows
          /\ x.pc = "refreshing"
        BY <1>3, <2>1 DEF Fields
    <2> HIDE DEF x
    <2>4. DOMAIN job' = Jobs /\ job'[j] = x /\ \A i \in Jobs : i # j => job'[i] = job[i]
        BY <2>2, JobFacts DEF EditInv
    <2>5. /\ copies' \in [News -> Nat]
          /\ \A n \in News : copies'[n] = IF Stores(job[j], n) THEN copies[n] + 1 ELSE copies[n]
        <3>1. copies \in [News -> Nat]
            BY DEF EditInv, EditShapes
        <3>2. \A n \in News : Stores(job[j], n) <=> job[j].rows[n] # Missing
            BY <1>3 DEF Stores
        <3>3. copies' = [n \in News |-> IF job[j].rows[n] # Missing THEN copies[n] + 1 ELSE copies[n]]
            BY <1>1, <1>3
        <3>4. \A n \in News : copies'[n] = IF Stores(job[j], n) THEN copies[n] + 1 ELSE copies[n]
            BY <3>2, <3>3
        <3>5. copies' \in [News -> Nat]
            <4>1. \A n \in News : copies[n] \in Nat /\ copies[n] + 1 \in Nat
                BY <3>1
            <4>2. \A n \in News :
                      (IF job[j].rows[n] # Missing THEN copies[n] + 1 ELSE copies[n]) \in Nat
                BY <4>1
            <4> QED BY <3>3, <4>2
        <3> QED BY <3>4, <3>5
    <2>6. EditShapes'
        BY <1>1, <2>2, <2>3, <2>4, <2>5 DEF EditInv, EditShapes
    <2>7. \A i \in Jobs, n \in News :
              /\ Stores(job'[i], n) <=> Stores(job[i], n)
              /\ Stores(job'[i], n) => job'[i].tab = job[i].tab
              /\ job[i].pc = "refreshing" => job'[i].pc = "refreshing"
        BY <1>3, <2>3, <2>4 DEF Stores
    <2>8. OnePlace'
        BY <2>2, <2>7 DEF EditInv, OnePlace
    <2>9. ASSUME NEW n \in News \ again' PROVE StoredOnce(n)'
        <3>1. StoredOnce(n) /\ ~(copies[n] = 1 /\ Stores(job[j], n)) /\ copies[n] \in Nat
            BY <1>1, <2>9, NotStoredYet DEF EditInv, EditShapes
        <3>2. CASE Stores(job[j], n)
            <4>1. copies'[n] = 1
                BY <2>5, <3>1, <3>2 DEF StoredOnce
            <4>2. \A i \in Jobs : Stores(job'[i], n) => i = j
                BY <2>7, <3>1, <3>2 DEF StoredOnce
            <4>3. Stores(job'[j], n) /\ job'[j].pc = "refreshing"
                BY <2>3, <2>4, <2>7, <3>2
            <4> QED BY <4>1, <4>2, <4>3 DEF StoredOnce
        <3>3. CASE ~Stores(job[j], n)
            <4>1. copies'[n] = copies[n]
                BY <2>5, <3>3
            <4> QED BY <2>2, <2>7, <3>1, <4>1 DEF StoredOnce
        <3> QED BY <3>2, <3>3
    <2> QED BY <2>6, <2>8, <2>9 DEF EditInv
<1> QED BY <1>2, <1>3

(* Rows that were read are not new. *)
LEMMA FetchedHides ==
    ASSUME NEW p
    PROVE  DOMAIN Fetched(p) = Slots /\ \A n \in News : Fetched(p)[n] = Missing
BY IdsAssumption DEF Fetched, Slots

(* The refresh after a save is shown, in the tab the save began in or in    *)
(* another one.                                                             *)
LEMMA RefreshKeeps == ASSUME EditInv, NEW j \in Jobs, Refresh(j) PROVE EditInv'
<1> DEFINE rows == Fetched(<<job[j].tab, job[j].query>>)
<1>1. /\ Show(rows) /\ Ends(j) /\ UNCHANGED <<active, copies>>
      /\ again' = again \cup {n \in NewIn(job[j].rows) : active # job[j].tab}
    BY DEF Refresh
<1>2. DOMAIN rows = Slots /\ \A n \in News : rows[n] = Missing
    BY FetchedHides
<1> HIDE DEF rows
<1>3. /\ DOMAIN grid' = Tabs /\ \A t \in Tabs : DOMAIN grid'[t] = Slots
      /\ grid'[active] = rows /\ \A t \in Tabs : t # active => grid'[t] = grid[t]
    BY <1>1, <1>2, ShowFacts DEF EditInv
<1>4. \A t \in Tabs, n \in News : Shown(grid'[t], n) => Shown(grid[t], n) /\ t # active
    BY <1>2, <1>3 DEF Shown
<1>5. ASSUME NEW n \in News \ again', NEW t \in Tabs, Stores(job[j], n) PROVE ~Shown(grid'[t], n)
    <2>1. active = job[j].tab
        BY <1>1, <1>5 DEF NewIn, Stores
    <2>2. Shown(grid[t], n) => job[j].tab = t
        BY <1>5 DEF EditInv, OnePlace
    <2> QED BY <1>4, <2>1, <2>2
<1>6. again \subseteq again'
    BY <1>1
<1> QED BY <1>1, <1>3, <1>4, <1>5, <1>6, JobEnds

(* The refresh fails, and the new rows stay. *)
LEMMA RefreshFailsKeeps == ASSUME EditInv, NEW j \in Jobs, RefreshFails(j) PROVE EditInv'
<1>1. /\ Ends(j) /\ UNCHANGED <<active, grid, copies>> /\ again' = again \cup NewIn(job[j].rows)
    BY DEF RefreshFails
<1>2. \A n \in News \ again' : ~Stores(job[j], n)
    BY <1>1 DEF NewIn, Stores
<1>3. DOMAIN grid' = Tabs /\ (\A t \in Tabs : DOMAIN grid'[t] = Slots) /\ again \subseteq again'
    BY <1>1 DEF EditInv, EditShapes
<1> QED BY <1>1, <1>2, <1>3, JobEnds

(* A run answers. *)
LEMMA AnswerKeeps == ASSUME EditInv, NEW j \in Jobs, Answer(j) PROVE EditInv'
<1> DEFINE rows == Fetched(<<job[j].tab, job[j].table>>)
<1>1. /\ job[j].kind \in {"select", "command"}
      /\ IF job[j].kind = "select"
         THEN grid' = [grid EXCEPT ![active] = rows, ![job[j].tab] = rows]
         ELSE grid' = IF job[j].tab = active THEN grid ELSE [grid EXCEPT ![job[j].tab] = Nothing]
      /\ Ends(j) /\ UNCHANGED <<active, copies, again>>
    BY DEF Answer, Busy, editHistory
<1>2. DOMAIN rows = Slots /\ \A n \in News : rows[n] = Missing
    BY FetchedHides
<1>3. DOMAIN Nothing = Slots /\ \A n \in News : Nothing[n] = Missing
    BY DEF Nothing, Slots
<1> HIDE DEF rows
<1>4. DOMAIN grid' = Tabs /\ \A t \in Tabs : grid'[t] \in {grid[t], rows, Nothing}
    <2>1. CASE job[j].kind = "select"
        BY <1>1, <2>1 DEF EditInv, EditShapes
    <2>2. CASE job[j].kind # "select"
        BY <1>1, <2>2 DEF EditInv, EditShapes
    <2> QED BY <2>1, <2>2
<1>5. \A t \in Tabs : DOMAIN grid'[t] = Slots
    BY <1>2, <1>3, <1>4 DEF EditInv, EditShapes
<1>6. \A t \in Tabs, n \in News : Shown(grid'[t], n) => Shown(grid[t], n)
    BY <1>2, <1>3, <1>4 DEF Shown
<1> QED BY <1>1, <1>4, <1>5, <1>6, EndsUnstored

(* Removals, updates and runs begin. *)
LEMMA BeginsKeep ==
    ASSUME EditInv, NEW j \in Jobs,
           \/ \E s \in Slots : RemoveRow(j, s) \/ EditRecord(j, s)
           \/ RunQuery(j) \/ DiscardChanges(j)
    PROVE  EditInv'
<1>1. ASSUME NEW s \in Slots, RemoveRow(j, s) PROVE EditInv'
    BY <1>1, JobBegins DEF RemoveRow, editHistory
<1>2. ASSUME NEW s \in Slots, EditRecord(j, s) PROVE EditInv'
    <2>1. PICK c \in Columns, x \in Typed :
              Starts(j, "update", "writing", name[active], Only(s),
                     [grid[active][s].cells EXCEPT ![c] = x])
        BY <1>2 DEF EditRecord
    <2> QED BY <1>2, <2>1, JobBegins DEF EditRecord, editHistory
<1>3. ASSUME NEW kind \in {"select", "command"}, NEW a, Run(j, kind, a) PROVE EditInv'
    BY <1>3, JobBegins DEF Run, editHistory
<1> QED BY <1>1, <1>2, <1>3 DEF RunQuery, DiscardChanges

(* At the start no row is new. *)
LEMMA EditsStart == EditsInit => EditInv
<1> SUFFICES ASSUME EditsInit PROVE EditInv
    OBVIOUS
<1>1. /\ active \in Tabs /\ grid = [t \in Tabs |-> Fetched(from[t])]
      /\ job = [j \in Jobs |-> Idle] /\ copies = [n \in News |-> 0]
    BY DEF EditsInit
<1>2. EditShapes
    BY <1>1, FetchedHides DEF EditShapes
<1>3. \A t \in Tabs, n \in News : ~Shown(grid[t], n)
    BY <1>1, FetchedHides DEF Shown
<1>4. \A j \in Jobs, n \in News : ~Stores(job[j], n)
    BY <1>1, IdleFacts
<1>5. \A n \in News : copies[n] = 0
    BY <1>1
<1> QED BY <1>2, <1>3, <1>4, <1>5 DEF EditInv, OnePlace, StoredOnce

(* Every step keeps the invariant. *)
LEMMA EditsStep == EditInv /\ [EditsNext]_editVars => EditInv'
<1> SUFFICES ASSUME EditInv, [EditsNext]_editVars PROVE EditInv'
    OBVIOUS
<1>1. CASE \E s \in Slots, c \in Columns : Edit(s, c)
    BY <1>1, EditKeeps
<1>2. CASE \E n \in News : AddRow(n) \/ \E s \in Slots : Duplicate(n, s)
    BY <1>2, AddedKeeps DEF AddRow, Duplicate
<1>3. CASE DiscardNew
    BY <1>3, DiscardNewKeeps
<1>4. ASSUME NEW t \in Tabs, SwitchTab(t) PROVE EditInv'
    <2>1. UNCHANGED <<grid, job, copies, again>> /\ active' \in Tabs
        BY <1>4 DEF SwitchTab, editHistory
    <2>2. DOMAIN grid' = Tabs /\ \A u \in Tabs : DOMAIN grid'[u] = Slots
        BY <2>1 DEF EditInv, EditShapes
    <2> QED BY <2>1, <2>2, GridChanges
<1>5. ASSUME NEW j \in Jobs,
             \/ Save(j) \/ Check(j) \/ CheckFails(j) \/ Commit(j) \/ RollBack(j)
             \/ Refresh(j) \/ RefreshFails(j)
             \/ RunQuery(j) \/ DiscardChanges(j) \/ Answer(j) \/ RunFails(j)
             \/ \E s \in Slots : RemoveRow(j, s) \/ EditRecord(j, s)
      PROVE  EditInv'
    BY <1>5, SaveKeeps, CheckKeeps, StopsKeep, CommitKeeps, RefreshKeeps, RefreshFailsKeeps,
       AnswerKeeps, BeginsKeep
<1>6. CASE (\E p \in Places, i \in Ids : SomebodyElse(p, i)) \/ UNCHANGED editVars
    <2>1. UNCHANGED <<active, grid, job, copies, again>>
        BY <1>6 DEF SomebodyElse, editVars, editHistory
    <2>2. active' \in Tabs /\ DOMAIN grid' = Tabs /\ \A t \in Tabs : DOMAIN grid'[t] = Slots
        BY <2>1 DEF EditInv, EditShapes
    <2> QED BY <2>1, <2>2, GridChanges
<1> QED BY <1>1, <1>2, <1>3, <1>4, <1>5, <1>6 DEF EditsNext

(* A row added in the grid is stored once, unless it was saved again while *)
(* another save had it, or after a save whose refresh did not reach the    *)
(* grid (handleSave of DatabaseExplorer.tsx and ResultsGrid.tsx).          *)
THEOREM RowsAreAddedOnce == EditsSpec => []AddedOnce
<1>1. EditInv => AddedOnce
    BY DEF EditInv, StoredOnce, AddedOnce
<1> QED BY <1>1, EditsStart, EditsStep, PTL DEF EditsSpec

-----------------------------------------------------------------------------
(* A set that has 0, and n + 1 with every n, has every number: of the       *)
(* numbers up to k that are not in it none is the least.                    *)
LEMMA SetInduction ==
    ASSUME NEW S, 0 \in S, \A n \in Nat : n \in S => n + 1 \in S
    PROVE  Nat \subseteq S
<1>1. SUFFICES ASSUME NEW k \in Nat, k \notin S PROVE FALSE
    OBVIOUS
<1> DEFINE F == {0 .. m : m \in {n \in 0 .. k : n \notin S}}
<1>2. IsFiniteSet(0 .. k)
    BY FS_Interval
<1>3. IsWellFoundedOn(StrictSubsetOrdering(0 .. k), SUBSET (0 .. k))
    BY <1>2, FS_FiniteSubsetsOfFinite, FS_StrictSubsetOrderingWellFounded
<1>4. F # {} /\ F \subseteq SUBSET (0 .. k)
    BY <1>1
<1>5. \E x \in F : \A y \in F : ~ (<<y, x>> \in StrictSubsetOrdering(0 .. k))
    BY <1>3, <1>4, WFMin
<1>6. PICK m \in 0 .. k : m \notin S /\ \A y \in F : <<y, 0 .. m>> \notin StrictSubsetOrdering(0 .. k)
    BY <1>5
<1>7. m - 1 \in 0 .. k /\ m - 1 \notin S
    BY <1>6
<1>8. 0 .. (m - 1) \in F /\ 0 .. (m - 1) \subseteq 0 .. m /\ 0 .. (m-1) # 0 .. m
    <2>1. m \in 0 .. m /\ m \notin 0 .. (m - 1)
        OBVIOUS
    <2> QED BY <1>7, <2>1
<1>9. <<0 .. (m - 1), 0 .. m>> \in StrictSubsetOrdering(0 .. k)
    BY <1>8 DEF StrictSubsetOrdering
<1> QED
    BY <1>6, <1>8, <1>9

(* The states of a table as the rows of a batch are written, as SaveAll     *)
(* computes them.                                                           *)
Batch(f, T, rows, order, n) ==
    f = [k \in 0 .. n |-> IF k = 0 THEN T ELSE Write(f[k - 1], rows[order[k]])]

(* The recursion defines them. *)
LEMMA BatchExists ==
    ASSUME NEW T, NEW rows, NEW order PROVE \A n \in Nat : \E f : Batch(f, T, rows, order, n)
<1> DEFINE S == {n \in Nat : \E f : Batch(f, T, rows, order, n)}
<1>1. 0 \in S
    <2> DEFINE f == [k \in 0 .. 0 |-> T]
    <2>1. Batch(f, T, rows, order, 0)
        BY DEF Batch
    <2> QED BY <2>1
<1>2. ASSUME NEW n \in Nat, n \in S PROVE n + 1 \in S
    <2>1. PICK f : Batch(f, T, rows, order, n)
        BY <1>2
    <2> DEFINE g == [k \in 0 .. n + 1 |-> IF k = n + 1 THEN Write(f[n], rows[order[n + 1]]) ELSE f[k]]
    <2>2. \A k \in 0 .. n : f[k] = IF k = 0 THEN T ELSE Write(f[k - 1], rows[order[k]])
        BY <2>1 DEF Batch
    <2>3. \A k \in 0 .. n : g[k] = f[k]
        OBVIOUS
    <2>4. g[n + 1] = Write(g[n], rows[order[n + 1]])
        OBVIOUS
    <2>5. \A k \in 0 .. n + 1 : g[k] = IF k = 0 THEN T ELSE Write(g[k - 1], rows[order[k]])
        <3> SUFFICES ASSUME NEW k \in 0 .. n + 1
                     PROVE g[k] = IF k = 0 THEN T ELSE Write(g[k - 1], rows[order[k]])
            OBVIOUS
        <3> HIDE DEF g
        <3>1. CASE k = n + 1
            BY <3>1, <2>4
        <3>2. CASE k # n + 1
            <4>1. k \in 0 .. n /\ (k # 0 => k - 1 \in 0 .. n)
                BY <3>2
            <4> QED BY <4>1, <2>2, <2>3
        <3> QED BY <3>1, <3>2
    <2>6. DOMAIN g = 0 .. n + 1 /\ g = [k \in 0 .. n + 1 |-> g[k]]
        OBVIOUS
    <2> HIDE DEF g
    <2>7. Batch(g, T, rows, order, n + 1)
        BY <2>5, <2>6 DEF Batch
    <2> QED BY <2>7
<1> HIDE DEF S
<1>3. Nat \subseteq S
    BY <1>1, <1>2, SetInduction
<1> QED BY <1>3 DEF S

(* SaveAll is the last of them. *)
LEMMA SaveAllIs ==
    ASSUME NEW T, NEW rows, Len(Order(rows)) \in Nat
    PROVE  \E f : /\ Batch(f, T, rows, Order(rows), Len(Order(rows)))
                  /\ SaveAll(T, rows) = f[Len(Order(rows))]
<1>1. \E f : Batch(f, T, rows, Order(rows), Len(Order(rows)))
    BY BatchExists
<1>2. SaveAll(T, rows)
        = (CHOOSE f : Batch(f, T, rows, Order(rows), Len(Order(rows))))[Len(Order(rows))]
    BY Zenon DEF SaveAll, Batch
<1> QED BY <1>1, <1>2

(* A set as a sequence has each element once. *)
LEMMA SeqOfSet ==
    ASSUME NEW S, IsFiniteSet(S)
    PROVE  /\ Cardinality(S) \in Nat /\ SetToSeq(S) \in [1 .. Cardinality(S) -> S]
           /\ \A k, l \in 1 .. Cardinality(S) : SetToSeq(S)[k] = SetToSeq(S)[l] => k = l
<1>1. Cardinality(S) \in Nat /\ Bijection(1 .. Cardinality(S), S) # {}
    BY FS_CardinalityType DEF ExistsBijection
<1>2. \E f \in [1 .. Cardinality(S) -> S] : IsInjective(f)
    BY <1>1 DEF Bijection, Injection
<1>3. SetToSeq(S) \in [1 .. Cardinality(S) -> S] /\ IsInjective(SetToSeq(S))
    BY <1>2 DEF SetToSeq
<1> HIDE DEF SetToSeq
<1> QED BY <1>1, <1>3 DEF IsInjective

(* There are finitely many rows. *)
LEMMA SlotsFinite == IsFiniteSet(Slots)
BY FiniteAssumption, FS_Union DEF Slots

(* Every row that a batch writes is pending, and is written once.           *)
LEMMA OrderFacts ==
    ASSUME NEW rows
    PROVE  /\ Len(Order(rows)) \in Nat
           /\ \A k \in 1 .. Len(Order(rows)) : Order(rows)[k] \in Pending(rows)
           /\ \A k, l \in 1 .. Len(Order(rows)) : Order(rows)[k] = Order(rows)[l] => k = l
           /\ Len(Order(rows)) <= Cardinality(Pending(rows))
<1> DEFINE A == Pending(rows) \cap News
           B == Pending(rows) \cap Ids
           x == SetToSeq(A)
           y == SetToSeq(B)
           n == Len(Order(rows))
<1>1. A \cap B = {} /\ A \in SUBSET News /\ B \in SUBSET Ids /\ Pending(rows) \in SUBSET Slots
    BY IdsAssumption DEF Pending
<1>2. IsFiniteSet(A) /\ IsFiniteSet(B) /\ IsFiniteSet(Pending(rows))
    BY <1>1, FiniteAssumption, SlotsFinite, FS_Subset
<1>3. /\ Cardinality(A) \in Nat /\ x \in [1 .. Cardinality(A) -> A]
      /\ \A k, l \in 1 .. Cardinality(A) : x[k] = x[l] => k = l
    BY <1>2, SeqOfSet
<1>4. /\ Cardinality(B) \in Nat /\ y \in [1 .. Cardinality(B) -> B]
      /\ \A k, l \in 1 .. Cardinality(B) : y[k] = y[l] => k = l
    BY <1>2, SeqOfSet
<1>5. Order(rows) = x \o y
    BY DEF Order
<1>6. A \subseteq Pending(rows) /\ B \subseteq Pending(rows)
    OBVIOUS
<1> HIDE DEF A, B, x, y
<1>7. x \in Seq(A) /\ y \in Seq(B) /\ Len(x) = Cardinality(A) /\ Len(y) = Cardinality(B)
    BY <1>3, <1>4
<1>8. /\ n = Cardinality(A) + Cardinality(B) /\ n \in Nat
      /\ \A k \in 1 .. n : Order(rows)[k] = IF k <= Cardinality(A) THEN x[k] ELSE y[k - Cardinality(A)]
      /\ Order(rows) \in Seq(A \cup B)
    BY <1>3, <1>4, <1>5, <1>7
<1>9. ASSUME NEW k \in 1 .. n
      PROVE  IF k <= Cardinality(A) THEN k \in 1 .. Cardinality(A) /\ Order(rows)[k] \in A
             ELSE k - Cardinality(A) \in 1 .. Cardinality(B) /\ Order(rows)[k] \in B
    <2>1. Order(rows)[k] = IF k <= Cardinality(A) THEN x[k] ELSE y[k - Cardinality(A)]
        BY <1>8
    <2>2. CASE k <= Cardinality(A)
        <3>1. k \in 1 .. Cardinality(A)
            BY <1>3, <2>2
        <3> QED BY <1>3, <2>1, <2>2, <3>1
    <2>3. CASE ~ (k <= Cardinality(A))
        <3>1. k - Cardinality(A) \in 1 .. Cardinality(B)
            BY <1>3, <1>4, <1>8, <2>3
        <3> QED BY <1>4, <2>1, <2>3, <3>1
    <2> QED BY <2>2, <2>3
<1>10. ASSUME NEW k \in 1 .. n, NEW l \in 1 .. n, Order(rows)[k] = Order(rows)[l] PROVE k = l
    <2>1. CASE k <= Cardinality(A) /\ l <= Cardinality(A)
        BY <1>3, <1>8, <1>10, <2>1
    <2>2. CASE ~ (k <= Cardinality(A)) /\ ~ (l <= Cardinality(A))
        <3>1. y[k - Cardinality(A)] = y[l - Cardinality(A)]
            BY <1>8, <1>10, <2>2
        <3>2. k - Cardinality(A) = l - Cardinality(A)
            BY <1>4, <1>9, <2>2, <3>1
        <3> QED BY <1>3, <3>2
    <2> QED BY <1>1, <1>9, <1>10, <2>1, <2>2
<1>11. n <= Cardinality(Pending(rows))
    <2>1. Order(rows) \in [1 .. n -> Pending(rows)]
        <3>1. Order(rows) = [k \in 1 .. n |-> Order(rows)[k]]
            BY <1>8
        <3>2. \A k \in 1 .. n : Order(rows)[k] \in Pending(rows)
            BY <1>6, <1>9
        <3> HIDE DEF n
        <3> QED BY <3>1, <3>2
    <2>2. Order(rows) \in Injection(1 .. n, Pending(rows))
        BY <1>10, <2>1 DEF Injection, IsInjective
    <2>3. Cardinality(1 .. n) <= Cardinality(Pending(rows))
        BY <1>2, <2>2, FS_Injection
    <2>4. Cardinality(1 .. n) = n
        BY <1>8, FS_Interval
    <2> QED BY <2>3, <2>4
<1>12. \A k \in 1 .. n : Order(rows)[k] \in Pending(rows)
    BY <1>6, <1>9
<1> QED BY <1>8, <1>10, <1>11, <1>12

(* The states of a table. *)
StoredTables == [Ids -> Cells \cup {Missing}]

(* Rows by their columns. *)
LEMMA CellFacts ==
    /\ \A x, y \in Cells : (\A c \in Columns : x[c] = y[c]) => x = y
    /\ \A x \in Cells : x["k"] = x.k /\ x["v"] = x.v /\ x.k \in Keys \cup {Null} /\ x.v \in Typed \cup {Null}
    /\ \A x, y, z \in Cells : [c \in Columns |-> IF x[c] = y[c] THEN z[c] ELSE x[c]] \in Cells
    /\ \A x \in Cells, u \in Keys \cup {Null} :
          LET z == [x EXCEPT !.k = u] IN z \in Cells /\ z["k"] = u /\ z["v"] = x["v"]
    /\ Columns = {"k", "v"}
BY DEF Cells, Columns, Typed, Keys

(* Rows with the same values are the same. *)
LEMMA SameCells ==
    ASSUME NEW x \in Cells, NEW y \in Cells, \A c \in Columns : x[c] = y[c] PROVE x = y
BY CellFacts

(* The fields of a row of the grid. *)
LEMMA RowFacts ==
    ASSUME NEW row \in GridRows
    PROVE  row.cells \in Cells /\ row.orig \in Cells /\ row.new \in BOOLEAN /\ row.edited \in BOOLEAN
BY DEF GridRows

(* A statement that did not fail matched one row. *)
LEMMA ChangedIs ==
    ASSUME NEW T, NEW M \in SUBSET Ids, NEW cells, Changed(T, M, cells) # Failed
    PROVE  \E i \in Ids : M = {i} /\ Changed(T, M, cells) = [l \in Ids |-> IF l = i THEN cells[l] ELSE T[l]]
<1>1. Cardinality(M) = 1 /\ Changed(T, M, cells) = [i \in Ids |-> IF i \in M THEN cells[i] ELSE T[i]]
    BY DEF Changed, Checked
<1>2. IsFiniteSet(M)
    BY FiniteAssumption, FS_Subset
<1>3. PICK i : M = {i}
    BY <1>1, <1>2, FS_Singleton
<1> QED BY <1>1, <1>3

(* So did the UPDATE of an edited row, and it set the cells that were       *)
(* edited.                                                                  *)
LEMMA UpdateIs ==
    ASSUME NEW T \in StoredTables, NEW row \in GridRows, Update(T, row) # Failed, row.cells # row.orig
    PROVE  \E i \in Ids :
              /\ Matches(T, row) = {i} /\ T[i] # Missing
              /\ Update(T, row) = [l \in Ids |-> IF l = i THEN SetChanged(row, i, T) ELSE T[l]]
              /\ SetChanged(row, i, T) \in Cells
<1> DEFINE cells == [i \in Ids |-> IF T[i] = Missing THEN Missing ELSE SetChanged(row, i, T)]
           M == Matches(T, row)
<1>1. Update(T, row) = Changed(T, M, cells)
    BY DEF Update
<1>2. M \in SUBSET Ids /\ \A i \in M : T[i] # Missing
    BY RowFacts, MissingAssumption DEF Matches, WithKey, Having
<1> HIDE DEF M, cells
<1>3. PICK i \in Ids : M = {i} /\ Update(T, row) = [l \in Ids |-> IF l = i THEN cells[l] ELSE T[l]]
    BY <1>1, <1>2, ChangedIs
<1>4. T[i] # Missing /\ T[i] \in Cells
    BY <1>2, <1>3 DEF StoredTables
<1>5. cells[i] = SetChanged(row, i, T)
    BY <1>4 DEF cells
<1>6. SetChanged(row, i, T) \in Cells
    BY <1>4, RowFacts, CellFacts DEF SetChanged
<1>7. Update(T, row) = [l \in Ids |-> IF l = i THEN SetChanged(row, i, T) ELSE T[l]]
    BY <1>3, <1>5
<1> QED BY <1>3, <1>4, <1>6, <1>7 DEF M

(* An INSERT takes a free place, and its key is the one that was given or   *)
(* one that no row has.                                                     *)
LEMMA InsertIs ==
    ASSUME NEW T \in StoredTables, NEW row \in GridRows, Insert(T, row) # Failed
    PROVE  \E i \in Ids, x \in Keys \cup {Null} :
              /\ T[i] = Missing
              /\ Insert(T, row) = [T EXCEPT ![i] = [row.cells EXCEPT !.k = x]]
              /\ \/ x = row.cells.k
                 \/ Keyed /\ row.cells.k = Null /\ x \in Keys \ Typed /\ WithKey(T, x) = {}
<1> DEFINE free == {i \in Ids : T[i] = Missing}
           unused == {x \in Keys \ Typed : WithKey(T, x) = {}}
           i == CHOOSE l \in free : TRUE
           x == IF Keyed /\ row.cells.k = Null THEN CHOOSE u \in unused : TRUE ELSE row.cells.k
<1> DEFINE U == [T EXCEPT ![i] = [row.cells EXCEPT !.k = x]]
<1>0. Insert(T, row) = IF free = {} \/ (Keyed /\ unused = {}) THEN Failed ELSE Checked(U)
    BY DEF Insert
<1>1. free # {} /\ ~(Keyed /\ unused = {}) /\ Insert(T, row) = Checked(U)
    BY <1>0
<1>2. Insert(T, row) = U
    <2> HIDE DEF U
    <2> QED BY <1>1 DEF Checked
<1>3. i \in Ids /\ T[i] = Missing
    BY <1>1
<1>4. row.cells.k \in Keys \cup {Null}
    BY RowFacts, CellFacts
<1>5. CASE Keyed /\ row.cells.k = Null
    <2>1. x = CHOOSE u \in unused : TRUE
        BY <1>5
    <2>2. x \in unused
        BY <1>1, <1>5, <2>1
    <2>3. x \in Keys \ Typed /\ WithKey(T, x) = {}
        BY <2>2
    <2> HIDE DEF i, x
    <2> QED BY <1>2, <1>3, <1>5, <2>3
<1>6. CASE ~(Keyed /\ row.cells.k = Null)
    <2>1. x = row.cells.k
        BY <1>6
    <2> HIDE DEF i, x
    <2> QED BY <1>2, <1>3, <1>4, <2>1
<1> QED BY <1>5, <1>6

(* A row of a batch that can be told from the others, in the table as it is *)
(* before the batch.                                                        *)
Told(T, rows, s) ==
    /\ Keyed /\ ~rows[s].new => rows[s].cells.k = rows[s].orig.k
    /\ \A x \in Slots \ {s} :
          rows[x] # Missing =>
              IF ~Keyed THEN rows[x].cells # rows[s].orig
              ELSE /\ rows[x].cells.k # rows[s].cells.k
                   /\ rows[x].new /\ rows[x].cells.k = Null => WithKey(T, rows[s].cells.k) # {}

(* How a row that was written can be told afterwards. *)
Marked(T, row, is) ==
    IF ~Keyed THEN is = row.cells
    ELSE is.k = row.cells.k \/ (row.new /\ row.cells.k = Null /\ WithKey(T, is.k) = {})

(* What a save is meant to make of a row. *)
MeantBySave(row, was, is) ==
    \/ was = Missing /\ row.new /\ \A c \in Columns : row.cells[c] # Null => is[c] = row.cells[c]
    \/ /\ was # Missing /\ Identified(row, was)
       /\ \A c \in Columns : is[c] = IF row.cells[c] = row.orig[c] THEN was[c] ELSE row.cells[c]

(* A batch of which the rows D are written: keys are kept, and what differs *)
(* was meant and can be told.                                               *)
Partly(T, U, rows, D) ==
    /\ U \in StoredTables
    /\ \A i \in Ids : T[i] # Missing => U[i] # Missing /\ (Keyed => U[i].k = T[i].k)
    /\ \A i \in Ids : U[i] # T[i] =>
          U[i] # Missing /\ \E s \in D : MeantBySave(rows[s], T[i], U[i]) /\ Marked(T, rows[s], U[i])

(* The rows that differ. *)
Touched(T, U) == {i \in Ids : U[i] # T[i]}

(* More rows of the batch than needed. *)
LEMMA PartlyMore ==
    ASSUME NEW T, NEW U, NEW rows, NEW D, NEW E, Partly(T, U, rows, D), D \subseteq E
    PROVE  Partly(T, U, rows, E)
BY DEF Partly

(* One more row of the table is written. *)
LEMMA PartlyOne ==
    ASSUME NEW T, NEW U, NEW V, NEW rows, NEW D, NEW s, NEW i \in Ids, NEW is \in Cells,
           Partly(T, U, rows, D), V = [l \in Ids |-> IF l = i THEN is ELSE U[l]],
           T[i] # Missing /\ Keyed => is.k = T[i].k,
           MeantBySave(rows[s], T[i], is), Marked(T, rows[s], is)
    PROVE  Partly(T, V, rows, D \cup {s}) /\ Touched(T, V) \subseteq Touched(T, U) \cup {i}
<1>1. V[i] = is /\ \A l \in Ids : l # i => V[l] = U[l]
    OBVIOUS
<1>2. V \in StoredTables
    BY DEF Partly, StoredTables
<1>3. is # Missing
    BY MissingAssumption
<1>4. \A l \in Ids : T[l] # Missing => V[l] # Missing /\ (Keyed => V[l].k = T[l].k)
    BY <1>1, <1>3 DEF Partly
<1>5. ASSUME NEW l \in Ids, V[l] # T[l]
      PROVE  /\ V[l] # Missing
             /\ \E d \in D \cup {s} : MeantBySave(rows[d], T[l], V[l]) /\ Marked(T, rows[d], V[l])
    <2>1. CASE l = i
        BY <1>1, <1>3, <2>1
    <2>2. CASE l # i
        BY <1>1, <1>5, <2>2 DEF Partly
    <2> QED BY <2>1, <2>2
<1>6. Touched(T, V) \subseteq Touched(T, U) \cup {i}
    BY <1>1 DEF Touched
<1> QED BY <1>2, <1>4, <1>5, <1>6 DEF Partly

(* An UPDATE finds a row that the batch has not written before: such a row  *)
(* is marked, and what the UPDATE looks for is not its mark.                *)
LEMMA UpdateGoes ==
    ASSUME NEW T, NEW U, NEW rows \in Grids, NEW D \in SUBSET Slots, Partly(T, U, rows, D),
           \A d \in D : rows[d] # Missing,
           NEW s \in Slots \ D, rows[s] # Missing, ~rows[s].new, Told(T, rows, s),
           Update(U, rows[s]) # Failed
    PROVE  \E i : /\ Partly(T, Update(U, rows[s]), rows, D \cup {s})
                  /\ Touched(T, Update(U, rows[s])) \subseteq Touched(T, U) \cup {i}
<1> DEFINE row == rows[s]
           V == Update(U, row)
<1>1. row \in GridRows /\ row.cells \in Cells /\ row.orig \in Cells
    BY RowFacts DEF Grids
<1>2. U \in StoredTables
    BY DEF Partly
<1>3. CASE row.cells = row.orig
    <2>1. V = U
        BY <1>3 DEF Update
    <2>2. D \subseteq D \cup {s} /\ Touched(T, U) \subseteq Touched(T, U) \cup {s}
        OBVIOUS
    <2>3. Partly(T, U, rows, D \cup {s})
        BY <2>2, PartlyMore
    <2> QED BY <2>1, <2>2, <2>3
<1>4. CASE row.cells # row.orig
    <2>1. PICK i \in Ids :
              /\ Matches(U, row) = {i} /\ U[i] # Missing
              /\ V = [l \in Ids |-> IF l = i THEN SetChanged(row, i, U) ELSE U[l]]
              /\ SetChanged(row, i, U) \in Cells
        BY <1>1, <1>2, <1>4, UpdateIs
    <2> DEFINE is == SetChanged(row, i, U)
    <2>2. IF Keyed THEN U[i].k = row.cells.k /\ row.cells.k = row.orig.k ELSE U[i] = row.orig
        BY <2>1 DEF Matches, WithKey, Having, Told
    <2>3. U[i] = T[i]
        <3>1. SUFFICES ASSUME NEW d \in D, Marked(T, rows[d], U[i]) PROVE FALSE
            BY DEF Partly
        <3>2. d \in Slots \ {s} /\ rows[d] # Missing
            OBVIOUS
        <3> QED BY <2>2, <3>1, <3>2 DEF Marked, Told
    <2>4. T[i] \in Cells /\ T[i] # Missing
        BY <1>2, <2>1, <2>3 DEF StoredTables
    <2>5. \A c \in Columns : is[c] = IF row.cells[c] = row.orig[c] THEN T[i][c] ELSE row.cells[c]
        BY <2>3 DEF SetChanged
    <2> HIDE DEF is
    <2>6. Keyed => is.k = T[i].k /\ is.k = row.cells.k
        BY <1>1, <2>1, <2>2, <2>3, <2>4, <2>5, CellFacts DEF is
    <2>7. ~Keyed => is = row.cells
        BY <1>1, <2>1, <2>2, <2>3, <2>5, CellFacts DEF is
    <2>8. MeantBySave(row, T[i], is) /\ Marked(T, row, is)
        <3>1. Identified(row, T[i])
            BY <2>2, <2>3 DEF Identified
        <3>2. Marked(T, row, is)
            BY <2>6, <2>7 DEF Marked
        <3>3. MeantBySave(row, T[i], is)
            <4> HIDE DEF row
            <4> QED BY <2>4, <2>5, <3>1 DEF MeantBySave
        <3> QED BY <3>2, <3>3
    <2>9. is \in Cells /\ V = [l \in Ids |-> IF l = i THEN is ELSE U[l]]
        BY <2>1 DEF is
    <2> HIDE DEF V
    <2>10. Partly(T, V, rows, D \cup {s}) /\ Touched(T, V) \subseteq Touched(T, U) \cup {i}
        BY <2>6, <2>8, <2>9, PartlyOne
    <2> QED BY <2>10 DEF V
<1> QED BY <1>3, <1>4

(* An INSERT takes a place that was free before the batch, and if it gives a*)
(* key that is one nobody had then.                                         *)
LEMMA InsertGoes ==
    ASSUME NEW T, NEW U, NEW rows \in Grids, NEW D \in SUBSET Slots, Partly(T, U, rows, D),
           NEW s \in Slots, rows[s] # Missing, rows[s].new, T \in StoredTables,
           Insert(U, rows[s]) # Failed
    PROVE  \E i : /\ Partly(T, Insert(U, rows[s]), rows, D \cup {s})
                  /\ Touched(T, Insert(U, rows[s])) \subseteq Touched(T, U) \cup {i}
<1> DEFINE row == rows[s]
           V == Insert(U, row)
<1>1. row \in GridRows /\ row.cells \in Cells
    BY RowFacts DEF Grids
<1>2. U \in StoredTables
    BY DEF Partly
<1>3. PICK i \in Ids, x \in Keys \cup {Null} :
          /\ U[i] = Missing /\ V = [U EXCEPT ![i] = [row.cells EXCEPT !.k = x]]
          /\ \/ x = row.cells.k
             \/ Keyed /\ row.cells.k = Null /\ x \in Keys \ Typed /\ WithKey(U, x) = {}
    BY <1>1, <1>2, InsertIs
<1> DEFINE is == [row.cells EXCEPT !.k = x]
<1>4. is \in Cells /\ is["k"] = x /\ is["v"] = row.cells["v"] /\ is.k = x
    BY <1>1, CellFacts
<1>5. V = [l \in Ids |-> IF l = i THEN is ELSE U[l]]
    BY <1>2, <1>3 DEF StoredTables
<1> HIDE DEF is, V
<1>6. T[i] = Missing
    BY <1>3 DEF Partly
<1>7. \A c \in Columns : row.cells[c] # Null => is[c] = row.cells[c]
    BY <1>1, <1>3, <1>4, CellFacts
<1>8. Marked(T, row, is)
    <2>1. CASE x = row.cells.k
        <3>1. \A c \in Columns : is[c] = row.cells[c]
            BY <1>1, <1>4, <2>1, CellFacts
        <3>2. is = row.cells
            BY <1>1, <1>4, <3>1, SameCells
        <3> QED BY <3>2 DEF Marked
    <2>2. CASE Keyed /\ row.cells.k = Null /\ WithKey(U, x) = {}
        <3>1. WithKey(T, x) = {}
            BY <2>2 DEF WithKey, Partly
        <3> QED BY <1>4, <2>2, <3>1 DEF Marked
    <2> QED BY <1>3, <2>1, <2>2
<1>9. MeantBySave(row, T[i], is)
    BY <1>6, <1>7 DEF MeantBySave
<1>10. Partly(T, V, rows, D \cup {s}) /\ Touched(T, V) \subseteq Touched(T, U) \cup {i}
    <2>1. T[i] # Missing /\ Keyed => is.k = T[i].k
        BY <1>6
    <2>2. is \in Cells
        BY <1>4
    <2> QED BY <1>5, <1>8, <1>9, <2>1, <2>2, PartlyOne
<1> QED BY <1>10 DEF V

(* A row of the batch is written. *)
LEMMA WriteGoes ==
    ASSUME NEW T \in StoredTables, NEW U, NEW rows \in Grids, NEW D \in SUBSET Slots,
           Partly(T, U, rows, D), \A d \in D : rows[d] # Missing,
           NEW s \in Slots \ D, rows[s] # Missing, Told(T, rows, s), Write(U, rows[s]) # Failed
    PROVE  \E i : /\ Partly(T, Write(U, rows[s]), rows, D \cup {s})
                  /\ Touched(T, Write(U, rows[s])) \subseteq Touched(T, U) \cup {i}
<1>1. CASE rows[s].new
    <2>1. Write(U, rows[s]) = Insert(U, rows[s]) /\ s \in Slots
        BY <1>1 DEF Write
    <2>2. Insert(U, rows[s]) # Failed
        BY <2>1
    <2>3. \E i : /\ Partly(T, Insert(U, rows[s]), rows, D \cup {s})
                  /\ Touched(T, Insert(U, rows[s])) \subseteq Touched(T, U) \cup {i}
        BY <1>1, <2>1, <2>2, InsertGoes
    <2> QED BY <2>1, <2>3
<1>2. CASE ~rows[s].new
    <2>1. Write(U, rows[s]) = Update(U, rows[s])
        BY <1>2 DEF Write
    <2> QED BY <1>2, <2>1, UpdateGoes
<1> QED BY <1>1, <1>2

(* By induction over the rows of the batch, in their order. *)
LEMMA BatchGoes ==
    ASSUME NEW T \in StoredTables, NEW rows \in Grids, NEW order, NEW N \in Nat, NEW f,
           Batch(f, T, rows, order, N), f[N] # Failed,
           \A k \in 1 .. N : order[k] \in Slots /\ rows[order[k]] # Missing,
           \A k, l \in 1 .. N : order[k] = order[l] => k = l,
           \A s \in Slots : rows[s] # Missing => Told(T, rows, s)
    PROVE  /\ Partly(T, f[N], rows, {order[k] : k \in 1 .. N})
           /\ IsFiniteSet(Touched(T, f[N])) /\ Cardinality(Touched(T, f[N])) <= N
<1> DEFINE D(n) == {order[k] : k \in 1 .. n}
           Done(n) == /\ Partly(T, f[n], rows, D(n))
                      /\ IsFiniteSet(Touched(T, f[n])) /\ Cardinality(Touched(T, f[n])) <= n
           S == {n \in Nat : n <= N /\ f[n] # Failed => Done(n)}
<1>1. \A k \in 0 .. N : f[k] = IF k = 0 THEN T ELSE Write(f[k - 1], rows[order[k]])
    BY DEF Batch
<1>2. 0 \in S
    <2>1. f[0] = T
        BY <1>1
    <2>2. Partly(T, T, rows, D(0))
        BY DEF Partly
    <2>3. Touched(T, T) = {}
        BY DEF Touched
    <2>4. IsFiniteSet({}) /\ Cardinality({}) = 0
        BY FS_EmptySet
    <2> HIDE DEF D
    <2> QED BY <2>1, <2>2, <2>3, <2>4
<1>3. ASSUME NEW n \in Nat, n \in S PROVE n + 1 \in S
    <2>1. SUFFICES ASSUME n + 1 <= N, f[n + 1] # Failed PROVE Done(n + 1)
        OBVIOUS
    <2> DEFINE s == order[n + 1]
    <2>2. n + 1 \in 1 .. N /\ n + 1 \in 0 .. N /\ n + 1 # 0 /\ (n + 1) - 1 = n
        BY <2>1
    <2>3. f[n + 1] = Write(f[n], rows[s])
        BY <1>1, <2>2
    <2>4. f[n] # Failed
        BY <2>1, <2>3 DEF Write
    <2>5. Done(n)
        BY <1>3, <2>1, <2>4
    <2>6. s \in Slots /\ rows[s] # Missing /\ Told(T, rows, s)
        BY <2>2
    <2>7. s \notin D(n)
        <3>1. SUFFICES ASSUME NEW k \in 1 .. n, order[k] = order[n + 1] PROVE FALSE
            OBVIOUS
        <3>2. k \in 1 .. N /\ k # n + 1
            BY <2>1
        <3> QED BY <2>2, <3>1, <3>2
    <2>8. D(n) \in SUBSET Slots /\ \A d \in D(n) : rows[d] # Missing
        <3>1. \A k \in 1 .. n : k \in 1 .. N
            BY <2>1
        <3> QED BY <3>1
    <2>9. D(n + 1) = D(n) \cup {s}
        <3>1. 1 .. (n + 1) = (1 .. n) \cup {n + 1}
            OBVIOUS
        <3> QED BY <3>1
    <2> HIDE DEF D, s
    <2>10. PICK i : /\ Partly(T, Write(f[n], rows[s]), rows, D(n) \cup {s})
                    /\ Touched(T, Write(f[n], rows[s])) \subseteq Touched(T, f[n]) \cup {i}
        BY <2>1, <2>3, <2>5, <2>6, <2>7, <2>8, WriteGoes
    <2> DEFINE A == Touched(T, f[n])
               B == Touched(T, f[n + 1])
    <2>11. B \in SUBSET (A \cup {i}) /\ IsFiniteSet(A) /\ Cardinality(A) <= n
        BY <2>3, <2>5, <2>10
    <2> HIDE DEF A, B
    <2>12. IsFiniteSet(B) /\ Cardinality(B) <= n + 1
        <3>0. IsFiniteSet(A) /\ Cardinality(A) \in Nat
            BY <2>11, FS_CardinalityType
        <3>1. IsFiniteSet(A \cup {i}) /\ Cardinality(A \cup {i}) <= Cardinality(A) + 1
            BY <3>0, FS_AddElement
        <3>2. IsFiniteSet(B) /\ Cardinality(B) <= Cardinality(A \cup {i})
            BY <2>11, <3>1, FS_Subset
        <3>3. Cardinality(B) \in Nat /\ Cardinality(A \cup {i}) \in Nat
            BY <3>1, <3>2, FS_CardinalityType
        <3> QED BY <2>11, <3>0, <3>1, <3>2, <3>3
    <2>13. Partly(T, f[n + 1], rows, D(n + 1))
        BY <2>3, <2>9, <2>10
    <2>14. IsFiniteSet(Touched(T, f[n + 1])) /\ Cardinality(Touched(T, f[n + 1])) <= n + 1
        BY <2>12 DEF B
    <2> HIDE DEF S
    <2> QED BY <2>13, <2>14
<1>4. N \in S
    <2> HIDE DEF S
    <2> QED BY <1>2, <1>3, SetInduction
<1> QED BY <1>4

(* So a save that did not fail is as meant. *)
LEMMA SaveGoes ==
    ASSUME NEW T \in StoredTables, NEW rows \in Grids, SaveAll(T, rows) # Failed,
           \A s \in Slots : rows[s] # Missing => Told(T, rows, s)
    PROVE  /\ Partly(T, SaveAll(T, rows), rows, Pending(rows))
           /\ Cardinality(Touched(T, SaveAll(T, rows))) <= Cardinality({s \in Slots : rows[s] # Missing})
<1> DEFINE order == Order(rows)
           N == Len(order)
<1>1. /\ N \in Nat /\ N <= Cardinality(Pending(rows))
      /\ \A k \in 1 .. N : order[k] \in Pending(rows)
      /\ \A k, l \in 1 .. N : order[k] = order[l] => k = l
    BY OrderFacts
<1>2. PICK f : Batch(f, T, rows, order, N) /\ SaveAll(T, rows) = f[N]
    BY <1>1, SaveAllIs
<1>3. \A s \in Pending(rows) : s \in Slots /\ rows[s] # Missing
    BY DEF Pending
<1> HIDE DEF N, order
<1>4. /\ Partly(T, f[N], rows, {order[k] : k \in 1 .. N})
      /\ IsFiniteSet(Touched(T, f[N])) /\ Cardinality(Touched(T, f[N])) <= N
    BY <1>1, <1>2, <1>3, BatchGoes
<1>5. {order[k] : k \in 1 .. N} \subseteq Pending(rows)
    BY <1>1
<1>6. Partly(T, f[N], rows, Pending(rows))
    <2> DEFINE D == {order[k] : k \in 1 .. N}
    <2>1. Partly(T, f[N], rows, D) /\ D \subseteq Pending(rows)
        BY <1>4, <1>5
    <2> HIDE DEF D
    <2> QED BY <2>1, PartlyMore
<1>7. Cardinality(Pending(rows)) <= Cardinality({s \in Slots : rows[s] # Missing})
    <2> DEFINE A == {s \in Slots : rows[s] # Missing}
    <2>1. Pending(rows) \in SUBSET A /\ A \in SUBSET Slots
        BY DEF Pending
    <2> HIDE DEF A
    <2>2. IsFiniteSet(A)
        BY <2>1, SlotsFinite, FS_Subset
    <2>3. Cardinality(Pending(rows)) <= Cardinality(A)
        BY <2>1, <2>2, FS_Subset
    <2> QED BY <2>3 DEF A
<1>8. /\ Cardinality(Touched(T, f[N])) \in Nat /\ Cardinality(Pending(rows)) \in Nat
      /\ Cardinality({s \in Slots : rows[s] # Missing}) \in Nat
    <2> DEFINE A == {s \in Slots : rows[s] # Missing}
    <2>1. Pending(rows) \in SUBSET Slots /\ A \in SUBSET Slots
        BY DEF Pending
    <2> HIDE DEF A
    <2>2. IsFiniteSet(A) /\ IsFiniteSet(Pending(rows))
        BY <2>1, SlotsFinite, FS_Subset
    <2>3. Cardinality(A) \in Nat /\ Cardinality(Pending(rows)) \in Nat
        BY <2>2, FS_CardinalityType
    <2>4. Cardinality(Touched(T, f[N])) \in Nat
        BY <1>4, FS_CardinalityType
    <2> QED BY <2>3, <2>4 DEF A
<1> QED BY <1>1, <1>2, <1>4, <1>6, <1>7, <1>8

(* A row that nobody edited has the values it was loaded with. *)
AsLoaded(row) == row # Missing /\ ~row.edited => row.cells = row.orig

(* A job that writes is a save, a removal or an update, and the last two    *)
(* have a row.                                                              *)
Wanted(x) ==
    /\ x \in JobRecords
    /\ x.pc = "writing" => x.kind \in {"save", "delete", "update"}
    /\ x.kind \in {"delete", "update"} => \E s \in Slots : x.rows[s] # Missing
    /\ \A s \in Slots : AsLoaded(x.rows[s])

(* A batch that is committed with no row misled, and what has to be shown of*)
(* it.                                                                      *)
Batched(j) ==
    /\ Wanted(job[j]) /\ job[j].pc = "writing"
    /\ stored[<<job[j].target, job[j].table>>] \in StoredTables
    /\ Outcome(j) # Failed
    /\ \A s \in Slots : job[j].rows[s] # Missing => ~Misled(j, s)

MeansWell(j) ==
    LET T == stored[<<job[j].target, job[j].table>>] IN
    /\ \A i \in Ids : Outcome(j)[i] # T[i] => Meant(j, T[i], Outcome(j)[i])
    /\ Cardinality(Touched(T, Outcome(j))) <= Cardinality({s \in Slots : job[j].rows[s] # Missing})

(* A save. *)
LEMMA SaveMeansWell ==
    ASSUME NEW j, Batched(j), job[j].kind = "save" PROVE MeansWell(j)
<1> DEFINE T == stored[<<job[j].target, job[j].table>>]
           rows == job[j].rows
           V == SaveAll(T, rows)
<1>1. Outcome(j) = V
    BY DEF Batched, Outcome
<1>2. T \in StoredTables /\ rows \in Grids /\ V # Failed
    BY <1>1 DEF Batched, Wanted, JobRecords
<1>3. ASSUME NEW s \in Slots, rows[s] # Missing PROVE Told(T, rows, s)
    <2>1. ~Misled(j, s)
        BY <1>3 DEF Batched
    <2> QED BY <2>1 DEF Misled, Told
<1>4. /\ Partly(T, V, rows, Pending(rows))
      /\ Cardinality(Touched(T, V)) <= Cardinality({s \in Slots : rows[s] # Missing})
    <2> HIDE DEF T, rows, V
    <2> QED BY <1>2, <1>3, SaveGoes DEF V
<1>5. ASSUME NEW i \in Ids, V[i] # T[i] PROVE Meant(j, T[i], V[i])
    <2>1. PICK s \in Pending(rows) : V[i] # Missing /\ MeantBySave(rows[s], T[i], V[i])
        BY <1>4, <1>5 DEF Partly
    <2>2. s \in Slots /\ rows[s] # Missing
        BY DEF Pending
    <2> HIDE DEF V, T
    <2> QED BY <2>1, <2>2 DEF Meant, MeantBySave
<1> HIDE DEF V
<1> QED BY <1>1, <1>4, <1>5 DEF MeansWell

(* A removal or an update: its row is not new and has the key, or the       *)
(* values, it was loaded with.                                              *)
LEMMA RowMeansWell ==
    ASSUME NEW j, Batched(j), job[j].kind \in {"delete", "update"} PROVE MeansWell(j)
<1> DEFINE T == stored[<<job[j].target, job[j].table>>]
           rows == job[j].rows
           s == CHOOSE s \in Slots : rows[s] # Missing
           row == rows[s]
           to == job[j].to
           cells == IF job[j].kind = "delete" THEN [i \in Ids |-> Missing]
                    ELSE [i \in Ids |-> IF T[i] = Missing THEN Missing ELSE
                            SetChanged([cells |-> to, orig |-> row.cells], i, T)]
           M == MatchesNow(T, row)
<1>1. /\ T \in StoredTables /\ rows \in Grids /\ to \in Cells
      /\ \E x \in Slots : rows[x] # Missing
      /\ \A x \in Slots : AsLoaded(rows[x])
    BY DEF Batched, Wanted, JobRecords
<1>2. s \in Slots /\ row # Missing
    BY <1>1
<1>3. ~Misled(j, s)
    BY <1>2 DEF Batched
<1>4. ~row.new /\ (Keyed => row.cells.k = row.orig.k)
    BY <1>3 DEF Misled
<1>5. Outcome(j) = Changed(T, M, cells) /\ Outcome(j) # Failed
    BY DEF Batched, Outcome
<1>6. row \in GridRows /\ row.cells \in Cells /\ row.orig \in Cells /\ (~row.edited => row.cells = row.orig)
    BY <1>1, <1>2, RowFacts DEF Grids, AsLoaded
<1> HIDE DEF s, T, to
<1>7. M \in SUBSET Ids /\ \A i \in M : T[i] # Missing /\ Identified(row, T[i])
    BY <1>4, <1>6, MissingAssumption DEF MatchesNow, WithKey, Having, Identified
<1> HIDE DEF M, cells, row
<1>8. PICK i \in Ids : M = {i} /\ Outcome(j) = [l \in Ids |-> IF l = i THEN cells[l] ELSE T[l]]
    BY <1>5, <1>7, ChangedIs
<1>9. T[i] # Missing /\ T[i] \in Cells /\ Identified(row, T[i])
    BY <1>1, <1>7, <1>8 DEF StoredTables
<1>10. Outcome(j)[i] = cells[i] /\ \A l \in Ids : l # i => Outcome(j)[l] = T[l]
    BY <1>8
<1>11. Meant(j, T[i], cells[i])
    <2>1. CASE job[j].kind = "delete"
        <3>1. cells[i] = Missing
            BY <2>1 DEF cells
        <3> QED BY <1>2, <1>9, <2>1, <3>1 DEF Meant, row
    <2>2. CASE job[j].kind = "update"
        <3>1. cells[i] = [c \in Columns |-> IF to[c] = row.cells[c] THEN T[i][c] ELSE to[c]]
            BY <1>9, <2>2 DEF cells, SetChanged
        <3>2. cells[i] \in Cells
            BY <1>1, <1>6, <1>9, <3>1, CellFacts
        <3>3. cells[i] # Missing
            BY <3>2, MissingAssumption
        <3>4. \A c \in Columns : cells[i][c] = IF to[c] = row.cells[c] THEN T[i][c] ELSE to[c]
            BY <3>1
        <3> HIDE DEF cells
        <3> QED BY <1>2, <1>9, <2>2, <3>3, <3>4 DEF Meant, row, to
    <2> QED BY <2>1, <2>2
<1>12. Cardinality(Touched(T, Outcome(j))) <= Cardinality({x \in Slots : rows[x] # Missing})
    <2> DEFINE A == {x \in Slots : rows[x] # Missing}
               B == Touched(T, Outcome(j))
    <2>1. B \in SUBSET {i} /\ A \in SUBSET Slots /\ A # {}
        BY <1>1, <1>10 DEF Touched
    <2> HIDE DEF A, B
    <2>2. IsFiniteSet({i}) /\ Cardinality({i}) = 1 /\ IsFiniteSet(A)
        BY <2>1, FS_Singleton, SlotsFinite, FS_Subset
    <2>3. Cardinality(B) <= 1
        BY <2>1, <2>2, FS_Subset
    <2>4. Cardinality(A) \in Nat /\ Cardinality(A) # 0
        BY <2>1, <2>2, FS_CardinalityType, FS_EmptySet
    <2>5. IsFiniteSet(B) /\ Cardinality(B) \in Nat
        BY <2>1, <2>2, FS_Subset, FS_CardinalityType
    <2>6. Cardinality(B) <= Cardinality(A)
        BY <2>3, <2>4, <2>5
    <2> QED BY <2>6 DEF A, B
<1> QED BY <1>10, <1>11, <1>12 DEF MeansWell, T

(* There are no others. *)
LEMMA BatchMeansWell == ASSUME NEW j, Batched(j) PROVE MeansWell(j)
BY SaveMeansWell, RowMeansWell DEF Batched, Wanted

(* Whatever the rows are, a statement that did not fail leaves a table.     *)
LEMMA WriteTyped ==
    ASSUME NEW T, T = Failed \/ T \in StoredTables, NEW row \in GridRows, Write(T, row) # Failed
    PROVE  Write(T, row) \in StoredTables
<1>1. T # Failed /\ T \in StoredTables /\ Write(T, row) = IF row.new THEN Insert(T, row) ELSE Update(T, row)
    BY DEF Write
<1>2. CASE row.new
    <2>1. Insert(T, row) # Failed
        BY <1>1, <1>2
    <2>2. PICK i \in Ids, x \in Keys \cup {Null} :
              Insert(T, row) = [T EXCEPT ![i] = [row.cells EXCEPT !.k = x]]
        BY <1>1, <2>1, InsertIs
    <2>3. [row.cells EXCEPT !.k = x] \in Cells
        BY RowFacts, CellFacts
    <2>4. Insert(T, row) \in StoredTables
        BY <1>1, <2>2, <2>3 DEF StoredTables
    <2> QED BY <1>1, <1>2, <2>4
<1>3. CASE ~row.new /\ row.cells = row.orig
    BY <1>1, <1>3 DEF Update
<1>4. CASE ~row.new /\ row.cells # row.orig
    <2>1. Update(T, row) # Failed
        BY <1>1, <1>4
    <2>2. PICK i \in Ids :
              /\ Update(T, row) = [l \in Ids |-> IF l = i THEN SetChanged(row, i, T) ELSE T[l]]
              /\ SetChanged(row, i, T) \in Cells
        BY <1>1, <1>4, <2>1, UpdateIs
    <2>3. Update(T, row) \in StoredTables
        BY <1>1, <2>2 DEF StoredTables
    <2> QED BY <1>1, <1>4, <2>3
<1> QED BY <1>2, <1>3, <1>4

(* So do all of them, *)
LEMMA BatchTyped ==
    ASSUME NEW T \in StoredTables, NEW rows \in Grids, NEW order, NEW N \in Nat, NEW f,
           Batch(f, T, rows, order, N), f[N] # Failed,
           \A k \in 1 .. N : order[k] \in Slots /\ rows[order[k]] # Missing
    PROVE  f[N] \in StoredTables
<1> DEFINE S == {n \in Nat : n <= N => f[n] = Failed \/ f[n] \in StoredTables}
<1>1. \A k \in 0 .. N : f[k] = IF k = 0 THEN T ELSE Write(f[k - 1], rows[order[k]])
    BY DEF Batch
<1>2. 0 \in S
    BY <1>1
<1>3. ASSUME NEW n \in Nat, n \in S PROVE n + 1 \in S
    <2>1. SUFFICES ASSUME n + 1 <= N, f[n + 1] # Failed PROVE f[n + 1] \in StoredTables
        OBVIOUS
    <2>2. n + 1 \in 1 .. N /\ n + 1 \in 0 .. N /\ n + 1 # 0 /\ (n + 1) - 1 = n
        BY <2>1
    <2>3. f[n + 1] = Write(f[n], rows[order[n + 1]])
        BY <1>1, <2>2
    <2>4. rows[order[n + 1]] \in GridRows
        BY <2>2 DEF Grids
    <2>5. f[n] = Failed \/ f[n] \in StoredTables
        BY <1>3, <2>1
    <2> QED BY <2>1, <2>3, <2>4, <2>5, WriteTyped
<1>4. N \in S
    <2> HIDE DEF S
    <2> QED BY <1>2, <1>3, SetInduction
<1> QED BY <1>4

(* a save, *)
LEMMA SaveTyped ==
    ASSUME NEW T \in StoredTables, NEW rows \in Grids, SaveAll(T, rows) # Failed
    PROVE  SaveAll(T, rows) \in StoredTables
<1> DEFINE order == Order(rows)
           N == Len(order)
<1>1. N \in Nat /\ \A k \in 1 .. N : order[k] \in Pending(rows)
    BY OrderFacts
<1>2. PICK f : Batch(f, T, rows, order, N) /\ SaveAll(T, rows) = f[N]
    BY <1>1, SaveAllIs
<1>3. \A s \in Pending(rows) : s \in Slots /\ rows[s] # Missing
    BY DEF Pending
<1> HIDE DEF N, order
<1>4. \A k \in 1 .. N : order[k] \in Slots /\ rows[order[k]] # Missing
    BY <1>1, <1>3
<1>5. f[N] \in StoredTables
    BY <1>1, <1>2, <1>4, BatchTyped
<1> QED BY <1>2, <1>5

(* a statement of its own, *)
LEMMA ChangedTyped ==
    ASSUME NEW T \in StoredTables, NEW M \in SUBSET Ids, NEW cells \in StoredTables,
           Changed(T, M, cells) # Failed
    PROVE  Changed(T, M, cells) \in StoredTables
<1>1. PICK i \in Ids : Changed(T, M, cells) = [l \in Ids |-> IF l = i THEN cells[l] ELSE T[l]]
    BY ChangedIs
<1> QED BY <1>1 DEF StoredTables

(* and every job that writes. *)
LEMMA OutcomeTyped ==
    ASSUME NEW j, Wanted(job[j]), job[j].pc = "writing", Outcome(j) # Failed,
           stored[<<job[j].target, job[j].table>>] \in StoredTables
    PROVE  Outcome(j) \in StoredTables
<1> DEFINE T == stored[<<job[j].target, job[j].table>>]
           rows == job[j].rows
           s == CHOOSE s \in Slots : rows[s] # Missing
           row == rows[s]
           to == job[j].to
           M == MatchesNow(T, row)
           none == [i \in Ids |-> Missing]
           cells == [i \in Ids |-> IF T[i] = Missing THEN Missing ELSE
                            SetChanged([cells |-> to, orig |-> row.cells], i, T)]
<1>1. T \in StoredTables /\ rows \in Grids /\ to \in Cells
    BY DEF Wanted, JobRecords
<1>2. CASE job[j].kind = "save"
    <2>1. Outcome(j) = SaveAll(T, rows)
        BY <1>2 DEF Outcome
    <2> HIDE DEF T, rows
    <2> QED BY <1>1, <2>1, SaveTyped
<1>3. CASE job[j].kind \in {"delete", "update"}
    <2>1. s \in Slots /\ row # Missing
        BY <1>3 DEF Wanted
    <2>2. row \in GridRows /\ row.cells \in Cells
        BY <1>1, <2>1, RowFacts DEF Grids
    <2>3. M \in SUBSET Ids
        BY DEF MatchesNow, WithKey, Having
    <2>4. none \in StoredTables
        BY DEF StoredTables
    <2> HIDE DEF row, T, to
    <2>5. \A i \in Ids : T[i] = Missing \/ SetChanged([cells |-> to, orig |-> row.cells], i, T) \in Cells
        <3> TAKE i \in Ids
        <3>1. SetChanged([cells |-> to, orig |-> row.cells], i, T)
                = [c \in Columns |-> IF to[c] = row.cells[c] THEN T[i][c] ELSE to[c]]
            BY DEF SetChanged
        <3>2. T[i] # Missing => T[i] \in Cells
            BY <1>1 DEF StoredTables
        <3> QED BY <1>1, <2>2, <3>1, <3>2, CellFacts
    <2>6. cells \in StoredTables
        BY <2>5 DEF StoredTables
    <2>7. Outcome(j) = Changed(T, M, none) \/ Outcome(j) = Changed(T, M, cells)
        BY <1>3 DEF Outcome, T, row, to, s
    <2> HIDE DEF M, cells, none
    <2> QED BY <1>1, <2>3, <2>4, <2>6, <2>7, ChangedTyped
<1> QED BY <1>2, <1>3 DEF Wanted

(* Grids and jobs with rows as loaded. *)
LoadedGrids == {g \in Grids : \A s \in Slots : AsLoaded(g[s])}
Loaded(row) == row \in GridRows /\ AsLoaded(row)
WantedJobs == {x \in JobRecords : Wanted(x)}

(* The inductive invariant. *)
BatchInv ==
    /\ key \in {"id", "other", "none"} /\ active \in Tabs /\ last \in Tables
    /\ name \in [Tabs -> Tables] /\ from \in [Tabs -> Places]
    /\ grid \in [Tabs -> LoadedGrids]
    /\ stored \in [Places -> StoredTables]
    /\ job \in [Jobs -> WantedJobs \cup {Idle}]
    /\ copies \in [News -> Nat] /\ again \subseteq News /\ events \in 0 .. MaxEvents

(* A grid, row by row. *)
LEMMA GridMember ==
    ASSUME NEW rows, DOMAIN rows = Slots, rows = [s \in Slots |-> rows[s]],
           \A s \in Slots : rows[s] = Missing \/ Loaded(rows[s])
    PROVE  rows \in LoadedGrids
<1>1. rows \in Grids
    BY DEF Grids, Loaded
<1> QED BY <1>1 DEF LoadedGrids, AsLoaded, Loaded

(* A row of a grid. *)
LEMMA GridElement ==
    ASSUME NEW rows \in LoadedGrids, NEW s \in Slots, rows[s] # Missing
    PROVE  Loaded(rows[s])
BY DEF LoadedGrids, Grids, Loaded

(* Rows are left out. *)
LEMMA FewerRows ==
    ASSUME NEW rows \in LoadedGrids, NEW g, g = [s \in Slots |-> g[s]],
           \A s \in Slots : g[s] \in {rows[s], Missing}
    PROVE  g \in LoadedGrids
<1>1. DOMAIN g = Slots
    OBVIOUS
<1>2. \A s \in Slots : g[s] = Missing \/ Loaded(g[s])
    BY GridElement
<1> QED BY <1>1, <1>2, GridMember

(* One row is replaced. *)
LEMMA OneRow ==
    ASSUME NEW rows \in LoadedGrids, NEW s \in Slots, NEW row, Loaded(row)
    PROVE  [rows EXCEPT ![s] = row] \in LoadedGrids
<1> DEFINE g == [rows EXCEPT ![s] = row]
<1>1. DOMAIN rows = Slots
    BY DEF LoadedGrids, Grids
<1>2. g = [x \in Slots |-> g[x]] /\ DOMAIN g = Slots
    BY <1>1
<1>3. \A x \in Slots : g[x] = IF x = s THEN row ELSE rows[x]
    BY <1>1
<1> HIDE DEF g
<1>4. \A x \in Slots : g[x] = Missing \/ Loaded(g[x])
    BY <1>3, GridElement
<1> QED BY <1>2, <1>4, GridMember DEF g

(* No rows. *)
LEMMA NothingLoaded == Nothing \in LoadedGrids
<1>1. Nothing = [s \in Slots |-> Nothing[s]] /\ DOMAIN Nothing = Slots /\ \A s \in Slots : Nothing[s] = Missing
    BY DEF Nothing
<1> HIDE DEF Nothing
<1> QED BY <1>1, GridMember

(* Rows that were read. *)
LEMMA FetchedLoaded ==
    ASSUME NEW p \in Places, stored \in [Places -> StoredTables] PROVE Fetched(p) \in LoadedGrids
<1> DEFINE g == Fetched(p)
           row(s) == [cells |-> stored[p][s], new |-> FALSE, edited |-> FALSE, orig |-> stored[p][s]]
<1>1. /\ g = [s \in Slots |-> g[s]] /\ DOMAIN g = Slots
      /\ \A s \in Slots : g[s] = IF s \in Ids /\ stored[p][s] # Missing THEN row(s) ELSE Missing
    BY DEF Fetched
<1>2. ASSUME NEW s \in Ids, stored[p][s] # Missing PROVE Loaded(row(s))
    <2>1. stored[p][s] \in Cells
        BY <1>2 DEF StoredTables
    <2> QED BY <2>1 DEF GridRows, AsLoaded, Loaded
<1> HIDE DEF g, row
<1>3. \A s \in Slots : g[s] = Missing \/ Loaded(g[s])
    BY <1>1, <1>2
<1> QED BY <1>1, <1>3, GridMember DEF g

(* What the variables are after each kind of change. *)
LEMMA ShowTyped ==
    ASSUME BatchInv, NEW rows \in LoadedGrids, Show(rows) PROVE grid' \in [Tabs -> LoadedGrids]
BY DEF BatchInv, Show

LEMMA JobTyped ==
    ASSUME BatchInv, NEW j \in Jobs, NEW x \in WantedJobs \cup {Idle}, job' = [job EXCEPT ![j] = x]
    PROVE  job' \in [Jobs -> WantedJobs \cup {Idle}]
BY DEF BatchInv

(* The job is over. *)
LEMMA EndsTyped ==
    ASSUME BatchInv, NEW j \in Jobs, Ends(j) PROVE job' \in [Jobs -> WantedJobs \cup {Idle}]
BY JobTyped DEF Ends

(* Events are counted. *)
LEMMA EventTyped == ASSUME BatchInv, Event PROVE events' \in 0 .. MaxEvents
<1>1. events \in 0 .. MaxEvents /\ MaxEvents \in Nat /\ events < MaxEvents /\ events' = events + 1
    BY FiniteAssumption DEF BatchInv, Event
<1> QED BY <1>1

(* A job that is under way. *)
LEMMA JobFields ==
    ASSUME BatchInv, NEW j \in Jobs, job[j] # Idle
    PROVE  job[j] \in JobRecords /\ Wanted(job[j]) /\ job[j].rows \in LoadedGrids
<1>1. job[j] \in JobRecords /\ Wanted(job[j])
    BY DEF BatchInv, WantedJobs
<1>2. job[j].rows \in Grids
    BY <1>1 DEF JobRecords
<1> QED BY <1>1, <1>2 DEF Wanted, LoadedGrids

(* A job begins. *)
LEMMA StartsTyped ==
    ASSUME BatchInv, NEW j \in Jobs, NEW kind, NEW pc, NEW table \in Tables, NEW rows \in LoadedGrids,
           NEW to \in Cells, Starts(j, kind, pc, table, rows, to),
           \/ kind = "save" /\ pc = "checking"
           \/ kind \in {"delete", "update"} /\ pc = "writing" /\ \E s \in Slots : rows[s] # Missing
           \/ kind \in {"select", "command"} /\ pc = "running"
    PROVE  job' \in [Jobs -> WantedJobs \cup {Idle}] /\ events' \in 0 .. MaxEvents
<1> DEFINE x == [pc |-> pc, kind |-> kind, tab |-> active, table |-> table, rows |-> rows,
                 to |-> to, from |-> from[active], target |-> active, query |-> last]
<1>1. job' = [job EXCEPT ![j] = x] /\ Event
    BY DEF Starts
<1>2. active \in Tabs /\ last \in Tables /\ from[active] \in Places /\ rows \in Grids
    BY DEF BatchInv, LoadedGrids
<1>3. x \in JobRecords
    BY <1>2 DEF JobRecords
<1>4. x.pc = pc /\ x.kind = kind /\ x.rows = rows
    OBVIOUS
<1> HIDE DEF x
<1>5. Wanted(x)
    BY <1>3, <1>4 DEF Wanted, LoadedGrids
<1> QED BY <1>1, <1>3, <1>5, JobTyped, EventTyped DEF WantedJobs

(* What the edits leave alone. *)
Rest == <<key, from, last, name, stored>>

(* The grid that is shown. *)
LEMMA ActiveGrid == ASSUME BatchInv PROVE active \in Tabs /\ grid[active] \in LoadedGrids
BY DEF BatchInv

(* A row that is edited. *)
LEMMA RowEdited ==
    ASSUME NEW row \in GridRows, NEW cells \in Cells
    PROVE  Loaded([row EXCEPT !.cells = cells, !.edited = TRUE])
BY DEF GridRows, Loaded, AsLoaded

(* A cell is edited. *)
LEMMA EditTyped == ASSUME BatchInv, NEW s \in Slots, NEW c \in Columns, Edit(s, c) PROVE BatchInv'
<1> DEFINE row == grid[active][s]
<1>1. /\ Event /\ row # Missing
      /\ UNCHANGED <<Rest, active, job, copies, again>>
    BY DEF Edit, Rest, editHistory
<1>2. PICK x \in Typed :
          LET cells == [row.cells EXCEPT ![c] = x]
          IN  Show([grid[active] EXCEPT ![s] = [row EXCEPT !.cells = cells, !.edited = TRUE]])
    BY DEF Edit
<1> DEFINE cells == [row.cells EXCEPT ![c] = x]
           new == [row EXCEPT !.cells = cells, !.edited = TRUE]
<1>3. row \in GridRows
    BY <1>1, ActiveGrid, GridElement DEF Loaded
<1>4. row.cells \in Cells
    BY <1>3, RowFacts
<1>5. cells \in Cells
    BY <1>4 DEF Cells, Columns, Typed, Keys
<1>6. Show([grid[active] EXCEPT ![s] = new])
    BY <1>2
<1> HIDE DEF cells, row
<1>7. Loaded(new)
    BY <1>3, <1>5, RowEdited
<1> HIDE DEF new
<1>8. grid' \in [Tabs -> LoadedGrids]
    BY <1>6, <1>7, ActiveGrid, OneRow, ShowTyped
<1> QED BY <1>1, <1>8, EventTyped DEF BatchInv, Rest

(* A row is added, *)
LEMMA AddedTyped ==
    ASSUME BatchInv, NEW n \in News, NEW cells \in Cells, Added(n, cells) PROVE BatchInv'
<1> DEFINE row == [cells |-> cells, new |-> TRUE, edited |-> FALSE, orig |-> cells]
<1>1. /\ Event /\ Show([grid[active] EXCEPT ![n] = row])
      /\ copies' = [copies EXCEPT ![n] = 0] /\ again' = again \ {n}
      /\ UNCHANGED <<Rest, active, job>>
    BY DEF Added, Rest
<1>2. Loaded(row)
    BY DEF Loaded, AsLoaded, GridRows
<1> HIDE DEF row
<1>3. grid' \in [Tabs -> LoadedGrids]
    BY <1>1, <1>2, ActiveGrid, OneRow, ShowTyped DEF Slots
<1>4. copies' \in [News -> Nat] /\ again' \subseteq News
    BY <1>1 DEF BatchInv
<1> QED BY <1>1, <1>3, <1>4, EventTyped DEF BatchInv, Rest

(* an empty one *)
LEMMA AddRowTyped == ASSUME BatchInv, NEW n \in News, AddRow(n) PROVE BatchInv'
<1>1. Blank \in Cells
    BY DEF Blank, Cells
<1> QED BY <1>1, AddedTyped DEF AddRow

(* or a copy. *)
LEMMA DuplicateTyped ==
    ASSUME BatchInv, NEW n \in News, NEW s \in Slots, Duplicate(n, s) PROVE BatchInv'
<1> DEFINE cells == grid[active][s].cells
           none == [cells EXCEPT !.k = Null]
<1>1. cells \in Cells
    BY ActiveGrid, GridElement, RowFacts DEF Duplicate, Loaded
<1> HIDE DEF cells
<1>2. none \in Cells
    BY <1>1, CellFacts
<1>3. Added(n, none) \/ Added(n, cells)
    BY DEF Duplicate, cells
<1> HIDE DEF none
<1> QED BY <1>1, <1>2, <1>3, AddedTyped

(* New rows are discarded. *)
LEMMA DiscardNewTyped == ASSUME BatchInv, DiscardNew PROVE BatchInv'
<1> DEFINE rows == [s \in Slots |-> IF s \in News THEN Missing ELSE grid[active][s]]
<1>1. Show(rows) /\ UNCHANGED <<Rest, active, job, copies, again, events>>
    BY DEF DiscardNew, Rest, editHistory
<1>2. rows = [s \in Slots |-> rows[s]] /\ \A s \in Slots : rows[s] \in {grid[active][s], Missing}
    OBVIOUS
<1> HIDE DEF rows
<1>3. rows \in LoadedGrids
    BY <1>2, ActiveGrid, FewerRows
<1> QED BY <1>1, <1>3, ShowTyped DEF BatchInv, Rest

(* Another tab is active. *)
LEMMA SwitchTyped == ASSUME BatchInv, NEW t \in Tabs, SwitchTab(t) PROVE BatchInv'
<1>1. Event /\ active' = t /\ UNCHANGED <<Rest, grid, job, copies, again>>
    BY DEF SwitchTab, Rest, editHistory
<1> QED BY <1>1, EventTyped DEF BatchInv, Rest

(* A save begins *)
LEMMA SaveStartTyped == ASSUME BatchInv, NEW j \in Jobs, Save(j) PROVE BatchInv'
<1> DEFINE rows == [s \in Slots |-> IF s \in Pending(grid[active]) THEN grid[active][s] ELSE Missing]
<1>1. /\ Starts(j, "save", "checking", name[active], rows, Blank)
      /\ UNCHANGED <<Rest, active, grid, copies>> /\ again' \subseteq again \cup NewIn(grid[active])
    BY DEF Save, Rest
<1>2. rows = [s \in Slots |-> rows[s]] /\ \A s \in Slots : rows[s] \in {grid[active][s], Missing}
    OBVIOUS
<1> HIDE DEF rows
<1>3. rows \in LoadedGrids /\ name[active] \in Tables
    BY <1>2, ActiveGrid, FewerRows DEF BatchInv
<1>4. Blank \in Cells
    BY DEF Blank, Cells
<1>5. job' \in [Jobs -> WantedJobs \cup {Idle}] /\ events' \in 0 .. MaxEvents
    BY <1>1, <1>3, <1>4, StartsTyped
<1>6. again' \subseteq News
    BY <1>1 DEF NewIn, BatchInv
<1> QED BY <1>1, <1>5, <1>6 DEF BatchInv, Rest

(* and goes on to write. *)
LEMMA CheckTyped == ASSUME BatchInv, NEW j \in Jobs, Check(j) PROVE BatchInv'
<1> DEFINE x == [job[j] EXCEPT !.pc = "writing", !.target = active]
<1>1. /\ job[j].kind = "save" /\ job' = [job EXCEPT ![j].pc = "writing", ![j].target = active]
      /\ UNCHANGED <<Rest, active, grid, copies, again, events>>
    BY DEF Check, Busy, Rest, editHistory
<1>2. job[j] # Idle
    BY <1>1 DEF Idle
<1>3. job[j] \in JobRecords /\ Wanted(job[j])
    BY <1>2, JobFields
<1>4. job' = [job EXCEPT ![j] = x]
    BY <1>1, <1>3 DEF BatchInv, JobRecords
<1>5. x \in JobRecords /\ x.pc = "writing" /\ x.kind = "save" /\ x.rows = job[j].rows
    BY <1>1, <1>3, ActiveGrid DEF JobRecords
<1> HIDE DEF x
<1>6. Wanted(x)
    BY <1>3, <1>5 DEF Wanted
<1>7. job' \in [Jobs -> WantedJobs \cup {Idle}]
    BY <1>4, <1>5, <1>6, JobTyped DEF WantedJobs
<1> QED BY <1>1, <1>7 DEF BatchInv, Rest

(* A job fails. *)
LEMMA StopsTyped ==
    ASSUME BatchInv, NEW j \in Jobs, CheckFails(j) \/ RollBack(j) \/ RunFails(j) PROVE BatchInv'
<1>1. Ends(j) /\ UNCHANGED <<Rest, active, grid, copies, again, events>>
    BY DEF CheckFails, RollBack, RunFails, Rest, editHistory
<1> QED BY <1>1, EndsTyped DEF BatchInv, Rest

(* The rows of a job for one row. *)
LEMMA OnlyLoaded ==
    ASSUME BatchInv, NEW s \in Slots, grid[active][s] # Missing
    PROVE  Only(s) \in LoadedGrids /\ \E x \in Slots : Only(s)[x] # Missing
<1>1. /\ Only(s) = [x \in Slots |-> Only(s)[x]] /\ Only(s)[s] = grid[active][s]
      /\ \A x \in Slots : Only(s)[x] \in {grid[active][x], Missing}
    BY DEF Only
<1> QED BY <1>1, ActiveGrid, FewerRows

(* A removal begins. *)
LEMMA RemoveRowTyped == ASSUME BatchInv, NEW j \in Jobs, NEW s \in Slots, RemoveRow(j, s) PROVE BatchInv'
<1>1. /\ grid[active][s] # Missing
      /\ Starts(j, "delete", "writing", name[active], Only(s), Blank)
      /\ UNCHANGED <<Rest, active, grid, copies, again>>
    BY DEF RemoveRow, Rest, editHistory
<1>2. Blank \in Cells /\ name[active] \in Tables
    BY DEF Blank, Cells, BatchInv
<1>3. job' \in [Jobs -> WantedJobs \cup {Idle}] /\ events' \in 0 .. MaxEvents
    BY <1>1, <1>2, OnlyLoaded, StartsTyped
<1> QED BY <1>1, <1>3 DEF BatchInv, Rest

(* An update begins. *)
LEMMA EditRecordTyped == ASSUME BatchInv, NEW j \in Jobs, NEW s \in Slots, EditRecord(j, s) PROVE BatchInv'
<1> DEFINE cells == grid[active][s].cells
<1>1. PICK c \in Columns, x \in Typed :
          Starts(j, "update", "writing", name[active], Only(s), [cells EXCEPT ![c] = x])
    BY DEF EditRecord
<1>2. grid[active][s] # Missing /\ UNCHANGED <<Rest, active, grid, copies, again>>
    BY DEF EditRecord, Rest, editHistory
<1>3. cells \in Cells
    BY <1>2, ActiveGrid, GridElement, RowFacts DEF Loaded
<1> HIDE DEF cells
<1>4. [cells EXCEPT ![c] = x] \in Cells
    BY <1>3 DEF Cells, Columns, Typed, Keys
<1>5. name[active] \in Tables
    BY DEF BatchInv
<1>6. job' \in [Jobs -> WantedJobs \cup {Idle}] /\ events' \in 0 .. MaxEvents
    BY <1>1, <1>2, <1>4, <1>5, OnlyLoaded, StartsTyped
<1> QED BY <1>2, <1>6 DEF BatchInv, Rest

(* A grid that is patched: a row that counts as not edited has the values it*)
(* is now known to have.                                                    *)
LEMMA PatchedLoaded ==
    ASSUME BatchInv, NEW j \in Jobs, job[j] # Idle, job[j].kind \in {"delete", "update"}
    PROVE  Patched(j) \in LoadedGrids
<1> DEFINE s == CHOOSE s \in Slots : job[j].rows[s] # Missing
           old == job[j].rows[s]
           shown == grid[active]
           to == job[j].to
           row(x) == [shown[x] EXCEPT !.cells = to,
                        !.orig = IF shown[x].edited \/ old.edited THEN old.orig ELSE to,
                        !.edited = shown[x].edited \/ old.edited]
           g == Patched(j)
<1>1. /\ g = [x \in Slots |-> g[x]] /\ DOMAIN g = Slots
      /\ \A x \in Slots :
            g[x] = IF shown[x] = Missing \/ ~Same(shown[x], old) THEN shown[x]
                   ELSE IF job[j].kind = "delete" THEN Missing ELSE row(x)
    BY DEF Patched
<1>2. job[j] \in JobRecords /\ Wanted(job[j]) /\ job[j].rows \in LoadedGrids
    BY JobFields
<1>3. s \in Slots /\ job[j].rows[s] # Missing
    BY <1>2 DEF Wanted
<1>4. old \in GridRows /\ to \in Cells
    BY <1>2, <1>3, GridElement DEF Loaded, JobRecords
<1>5. shown \in LoadedGrids
    BY ActiveGrid
<1> HIDE DEF g, old, to, s
<1>6. ASSUME NEW x \in Slots, shown[x] # Missing PROVE Loaded(row(x))
    <2>1. shown[x] \in GridRows
        BY <1>5, <1>6, GridElement DEF Loaded
    <2> QED BY <1>4, <2>1 DEF GridRows, Loaded, AsLoaded
<1>7. \A x \in Slots : shown[x] = Missing \/ Loaded(shown[x])
    BY <1>5, GridElement
<1> HIDE DEF row, shown
<1>8. \A x \in Slots : g[x] = Missing \/ Loaded(g[x])
    BY <1>1, <1>6, <1>7
<1> QED BY <1>1, <1>8, GridMember DEF g

(* A batch is committed. *)
LEMMA CommitTyped == ASSUME BatchInv, NEW j \in Jobs, Commit(j) PROVE BatchInv'
<1> DEFINE p == <<job[j].target, job[j].table>>
           saves(n) == job[j].kind = "save" /\ job[j].rows[n] # Missing
<1>1. /\ job[j].pc = "writing" /\ Outcome(j) # Failed
      /\ stored' = [stored EXCEPT ![p] = Outcome(j)]
      /\ IF job[j].kind = "save" THEN Goes(j, "refreshing") /\ UNCHANGED grid
         ELSE Ends(j) /\ Show(Patched(j))
      /\ copies' = [n \in News |-> IF saves(n) THEN copies[n] + 1 ELSE copies[n]]
      /\ UNCHANGED <<key, active, name, from, last, again, events>>
    BY DEF Commit
<1>2. job[j] # Idle
    BY <1>1 DEF Idle
<1>3. job[j] \in JobRecords /\ Wanted(job[j])
    BY <1>2, JobFields
<1>4. p \in Places /\ stored[p] \in StoredTables
    BY <1>3 DEF JobRecords, Places, BatchInv
<1>5. Outcome(j) \in StoredTables
    BY <1>1, <1>3, <1>4, OutcomeTyped
<1>6. stored' \in [Places -> StoredTables]
    BY <1>1, <1>4, <1>5 DEF BatchInv
<1>7. copies' \in [News -> Nat]
    <2> HIDE DEF saves
    <2>1. \A n \in News : copies[n] \in Nat /\ copies[n] + 1 \in Nat
        BY DEF BatchInv
    <2>2. \A n \in News : (IF saves(n) THEN copies[n] + 1 ELSE copies[n]) \in Nat
        BY <2>1
    <2> QED BY <1>1, <2>2
<1>8. grid' \in [Tabs -> LoadedGrids] /\ job' \in [Jobs -> WantedJobs \cup {Idle}]
    <2>1. CASE job[j].kind # "save"
        <3>1. job[j].kind \in {"delete", "update"}
            BY <1>1, <1>3, <2>1 DEF Wanted
        <3>2. Patched(j) \in LoadedGrids
            BY <1>2, <3>1, PatchedLoaded
        <3> QED BY <1>1, <2>1, <3>2, EndsTyped, ShowTyped
    <2>2. CASE job[j].kind = "save"
        <3> DEFINE x == [job[j] EXCEPT !.pc = "refreshing"]
        <3>1. job' = [job EXCEPT ![j] = x] /\ UNCHANGED grid
            BY <1>1, <2>2 DEF Goes, BatchInv
        <3>2. x \in JobRecords /\ x.pc = "refreshing" /\ x.kind = "save" /\ x.rows = job[j].rows
            BY <1>3, <2>2 DEF JobRecords
        <3> HIDE DEF x
        <3>3. Wanted(x)
            BY <1>3, <3>2 DEF Wanted
        <3> QED BY <3>1, <3>2, <3>3, JobTyped DEF WantedJobs, BatchInv
    <2> QED BY <2>1, <2>2
<1> QED BY <1>1, <1>6, <1>7, <1>8 DEF BatchInv

(* The refresh is shown, *)
LEMMA RefreshTyped == ASSUME BatchInv, NEW j \in Jobs, Refresh(j) PROVE BatchInv'
<1> DEFINE p == <<job[j].tab, job[j].query>>
<1>1. /\ job[j].pc = "refreshing" /\ Show(Fetched(p)) /\ from' = [from EXCEPT ![active] = p]
      /\ again' = again \cup {n \in NewIn(job[j].rows) : active # job[j].tab}
      /\ Ends(j) /\ UNCHANGED <<key, active, name, last, stored, copies, events>>
    BY DEF Refresh
<1>2. job[j] # Idle
    BY <1>1 DEF Idle
<1>3. p \in Places
    BY <1>2, JobFields DEF JobRecords, Places
<1> HIDE DEF p
<1>4. Fetched(p) \in LoadedGrids
    BY <1>3, FetchedLoaded DEF BatchInv
<1>5. from' \in [Tabs -> Places] /\ again' \subseteq News
    BY <1>1, <1>3 DEF BatchInv, NewIn
<1> QED BY <1>1, <1>4, <1>5, ShowTyped, EndsTyped DEF BatchInv

(* or fails. *)
LEMMA RefreshFailsTyped == ASSUME BatchInv, NEW j \in Jobs, RefreshFails(j) PROVE BatchInv'
<1>1. again' = again \cup NewIn(job[j].rows) /\ Ends(j) /\ UNCHANGED <<Rest, active, grid, copies, events>>
    BY DEF RefreshFails, Rest
<1>2. again' \subseteq News
    BY <1>1 DEF BatchInv, NewIn
<1> QED BY <1>1, <1>2, EndsTyped DEF BatchInv, Rest

(* A run begins *)
LEMMA RunTyped ==
    ASSUME BatchInv, NEW j \in Jobs, NEW kind \in {"select", "command"}, NEW a \in Tables, Run(j, kind, a)
    PROVE  BatchInv'
<1>1. /\ Starts(j, kind, "running", a, Nothing, Blank) /\ name' = [name EXCEPT ![active] = a]
      /\ UNCHANGED <<key, active, grid, from, last, stored, copies, again>>
    BY DEF Run, editHistory
<1>2. Blank \in Cells
    BY DEF Blank, Cells
<1>3. job' \in [Jobs -> WantedJobs \cup {Idle}] /\ events' \in 0 .. MaxEvents
    BY <1>1, <1>2, NothingLoaded, StartsTyped
<1>4. name' \in [Tabs -> Tables]
    BY <1>1 DEF BatchInv
<1> QED BY <1>1, <1>3, <1>4 DEF BatchInv

(* and answers. *)
LEMMA AnswerTyped == ASSUME BatchInv, NEW j \in Jobs, Answer(j) PROVE BatchInv'
<1> DEFINE p == <<job[j].tab, job[j].table>>
           rows == Fetched(p)
<1>1. /\ job[j].kind \in {"select", "command"}
      /\ IF job[j].kind = "select"
         THEN /\ grid' = [grid EXCEPT ![active] = rows, ![job[j].tab] = rows]
              /\ from' = [from EXCEPT ![active] = p, ![job[j].tab] = p]
              /\ last' = job[j].table
         ELSE /\ grid' = IF job[j].tab = active THEN grid ELSE [grid EXCEPT ![job[j].tab] = Nothing]
              /\ UNCHANGED <<from, last>>
      /\ Ends(j) /\ UNCHANGED <<key, active, name, stored, copies, again, events>>
    BY DEF Answer, Busy, editHistory
<1>2. job[j] # Idle
    BY <1>1 DEF Idle
<1>3. job[j].tab \in Tabs /\ job[j].table \in Tables /\ p \in Places
    BY <1>2, JobFields DEF JobRecords, Places
<1>4. rows \in LoadedGrids
    BY <1>3, FetchedLoaded DEF BatchInv
<1> HIDE DEF rows, p
<1>5. grid' \in [Tabs -> LoadedGrids]
    <2>1. CASE job[j].kind = "select"
        BY <1>1, <1>4, <2>1 DEF BatchInv
    <2>2. CASE job[j].kind # "select"
        BY <1>1, <2>2, NothingLoaded DEF BatchInv
    <2> QED BY <2>1, <2>2
<1>6. from' \in [Tabs -> Places] /\ last' \in Tables
    <2>1. CASE job[j].kind = "select"
        BY <1>1, <1>3, <2>1 DEF BatchInv
    <2>2. CASE job[j].kind # "select"
        BY <1>1, <2>2 DEF BatchInv
    <2> QED BY <2>1, <2>2
<1> QED BY <1>1, <1>5, <1>6, EndsTyped DEF BatchInv

(* Another client writes. *)
LEMMA OtherTyped == ASSUME BatchInv, NEW p \in Places, NEW i \in Ids, SomebodyElse(p, i) PROVE BatchInv'
<1>1. /\ Event /\ stored[p][i] # Missing
      /\ UNCHANGED <<key, active, name, grid, from, last, job, copies, again>>
    BY DEF SomebodyElse, editHistory
<1>2. PICK x \in Altered(stored[p][i]) : stored' = [stored EXCEPT ![p][i] = x]
    BY DEF SomebodyElse
<1>3. stored[p] \in StoredTables /\ stored[p][i] \in Cells
    BY <1>1 DEF BatchInv, StoredTables
<1>4. x \in Cells \cup {Missing}
    BY <1>3 DEF Altered, Cells, Columns, Typed, Keys
<1>5. stored' \in [Places -> StoredTables]
    BY <1>2, <1>3, <1>4 DEF BatchInv, StoredTables
<1> QED BY <1>1, <1>5, EventTyped DEF BatchInv

(* At the start the grids show what is stored. *)
LEMMA BatchStart == EditsInit => BatchInv
<1> SUFFICES ASSUME EditsInit PROVE BatchInv
    OBVIOUS
<1>1. PICK a \in Tables : name = [t \in Tabs |-> a] /\ from = [t \in Tabs |-> <<t, a>>] /\ last = a
    BY DEF EditsInit
<1>2. /\ key \in {"id", "other", "none"} /\ active \in Tabs
      /\ stored = [p \in Places |-> [i \in Ids |-> IF i \in {1, 2} THEN [k |-> i, v |-> 1] ELSE Missing]]
      /\ grid = [t \in Tabs |-> Fetched(from[t])] /\ job = [j \in Jobs |-> Idle]
      /\ copies = [n \in News |-> 0] /\ again = {} /\ events = 0
    BY DEF EditsInit
<1>3. \A i \in {1, 2} : [k |-> i, v |-> 1] \in Cells
    BY DEF Cells, Keys, Typed
<1>4. stored \in [Places -> StoredTables]
    BY <1>2, <1>3 DEF StoredTables
<1>5. from \in [Tabs -> Places] /\ name \in [Tabs -> Tables] /\ last \in Tables
    BY <1>1 DEF Places
<1>6. grid \in [Tabs -> LoadedGrids]
    BY <1>2, <1>4, <1>5, FetchedLoaded
<1> QED BY <1>2, <1>4, <1>5, <1>6, FiniteAssumption DEF BatchInv

(* Every step keeps the invariant. *)
LEMMA BatchStep == BatchInv /\ [EditsNext]_editVars => BatchInv'
<1> SUFFICES ASSUME BatchInv, [EditsNext]_editVars PROVE BatchInv'
    OBVIOUS
<1>1. CASE \E s \in Slots, c \in Columns : Edit(s, c)
    BY <1>1, EditTyped
<1>2. CASE \E n \in News : AddRow(n) \/ \E s \in Slots : Duplicate(n, s)
    BY <1>2, AddRowTyped, DuplicateTyped
<1>3. CASE DiscardNew
    BY <1>3, DiscardNewTyped
<1>4. CASE \E t \in Tabs : SwitchTab(t)
    BY <1>4, SwitchTyped
<1>5. ASSUME NEW j \in Jobs,
             \/ Save(j) \/ Check(j) \/ CheckFails(j) \/ Commit(j) \/ RollBack(j)
             \/ Refresh(j) \/ RefreshFails(j) \/ Answer(j) \/ RunFails(j)
      PROVE  BatchInv'
    BY <1>5, SaveStartTyped, CheckTyped, StopsTyped, CommitTyped, RefreshTyped, RefreshFailsTyped,
       AnswerTyped
<1>6. ASSUME NEW j \in Jobs, RunQuery(j) PROVE BatchInv'
    BY <1>6, RunTyped DEF RunQuery
<1>7. ASSUME NEW j \in Jobs, DiscardChanges(j) PROVE BatchInv'
    BY <1>7, RunTyped DEF DiscardChanges, BatchInv
<1>8. ASSUME NEW j \in Jobs, NEW s \in Slots, RemoveRow(j, s) \/ EditRecord(j, s) PROVE BatchInv'
    BY <1>8, RemoveRowTyped, EditRecordTyped
<1>9. CASE \E p \in Places, i \in Ids : SomebodyElse(p, i)
    BY <1>9, OtherTyped
<1>10. CASE UNCHANGED editVars
    BY <1>10 DEF editVars, BatchInv
<1> QED BY <1>1, <1>2, <1>3, <1>4, <1>5, <1>6, <1>7, <1>8, <1>9, <1>10 DEF EditsNext

(* It has the type invariant. *)
LEMMA EditsTypes == BatchInv => EditsTyped
<1>1. LoadedGrids \subseteq Grids /\ WantedJobs \subseteq JobRecords
    BY DEF LoadedGrids, WantedJobs
<1> QED BY <1>1 DEF BatchInv, EditsTyped, StoredTables

(* The grids, the jobs and the tables are what GridEdits takes them for, and*)
(* a batch leaves a table of rows whatever the user edited (applyGridWrites *)
(* and handleSave of MainContent.tsx).                                      *)
THEOREM EditsAreTyped == EditsSpec => []EditsTyped
BY EditsTypes, BatchStart, BatchStep, PTL DEF EditsSpec

(* The commit of a batch. *)
LEMMA CommitMeansWell ==
    ASSUME BatchInv, NEW j \in Jobs, Commit(j), \A s \in Slots : job[j].rows[s] # Missing => ~Misled(j, s)
    PROVE  LET p == <<job[j].target, job[j].table>> IN
           /\ \A i \in Ids : stored'[p][i] # stored[p][i] => Meant(j, stored[p][i], stored'[p][i])
           /\ Cardinality({i \in Ids : stored'[p][i] # stored[p][i]})
                <= Cardinality({s \in Slots : job[j].rows[s] # Missing})
<1> DEFINE p == <<job[j].target, job[j].table>>
<1>1. /\ job[j].pc = "writing" /\ Outcome(j) # Failed
      /\ stored' = [stored EXCEPT ![p] = Outcome(j)]
    BY DEF Commit
<1>2. job[j] # Idle
    BY <1>1 DEF Idle
<1>3. job[j] \in JobRecords /\ Wanted(job[j])
    BY <1>2, JobFields
<1>4. p \in Places /\ stored[p] \in StoredTables
    BY <1>3 DEF JobRecords, Places, BatchInv
<1>5. stored'[p] = Outcome(j)
    BY <1>1, <1>4 DEF BatchInv
<1>6. MeansWell(j)
    BY <1>1, <1>3, <1>4, BatchMeansWell DEF Batched
<1> QED BY <1>5, <1>6 DEF MeansWell, Touched

(* A batch that goes to the table its rows are of, none of them misled,     *)
(* inserts the new rows, changes the edited cells of rows that still have   *)
(* the key or the values they were loaded with, or removes one of those, and*)
(* changes no other row, for no more rows than it has (handleSave,          *)
(* handleUpdateRow, handleDeleteRow and applyGridWrites of MainContent.tsx).*)
THEOREM BatchesAreAsMeant == EditsSpec => BatchAsMeant
<1> DEFINE Act == \A j \in Jobs :
        LET p == <<job[j].target, job[j].table>> IN
        Commit(j) /\ ~Astray(j) /\ (\A s \in Slots : job[j].rows[s] # Missing => ~Misled(j, s))
        => /\ \A i \in Ids : stored'[p][i] # stored[p][i] => Meant(j, stored[p][i], stored'[p][i])
           /\ Cardinality({i \in Ids : stored'[p][i] # stored[p][i]})
                <= Cardinality({s \in Slots : job[j].rows[s] # Missing})
<1>1. BatchInv /\ [EditsNext]_editVars => [Act]_editVars
    <2>1. BatchInv => Act
        BY CommitMeansWell
    <2> HIDE DEF Act
    <2> QED BY <2>1
<1>2. BatchAsMeant <=> [][Act]_editVars
    BY DEF BatchAsMeant
<1> HIDE DEF Act
<1> QED BY <1>1, <1>2, BatchStart, BatchStep, PTL DEF EditsSpec
=============================================================================
