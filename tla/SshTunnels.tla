----------------------------- MODULE SshTunnels -----------------------------
(***************************************************************************)
(* The registry of SSH tunnels and the threads that serve them: the        *)
(* commands create_ssh_tunnel, close_ssh_tunnel and close_all_tunnels of   *)
(* ssh.rs, which run on threads of their own, and run_tunnel with the      *)
(* threads it spawns for the connections it forwards.                      *)
(*                                                                         *)
(* A tunnel t stands for what one create_ssh_tunnel makes: an entry of the *)
(* registry, a stop signal, a channel on which its thread reports, the     *)
(* thread and its listener.  The registry's mutex is never held across a   *)
(* wait: each of its critical sections is one action, save that            *)
(* create_ssh_tunnel spawns the thread before it inserts the entry.        *)
(***************************************************************************)
EXTENDS Naturals, FiniteSets

CONSTANTS
    Callers,        \* threads that call the commands, each one call at a time
    Connections,    \* connection ids, the keys of the registry
    Tunnels,        \* identities of tunnels
    Ports,          \* local ports
    MaxForwards,    \* bound: connections forwarded by one tunnel at a time
    None

ASSUME NoneAssumption == None \notin Connections \cup Tunnels \cup Ports
ASSUME BoundAssumption == MaxForwards \in Nat

VARIABLES
    tunnels,        \* TUNNELS: the registered tunnel of each connection
    tunnel,         \* the tunnels, registered or not
    call            \* what each caller waits for or was last told

vars == <<tunnels, tunnel, call>>

(* connecting: up to the bind.  checking: about to read the stop signal.   *)
(* accepting: about to accept.  opening: in open_direct_tcpip.  ending:    *)
(* run_tunnel has returned, its listener is closed.                        *)
Serving == {"checking", "accepting", "opening"}
Stages == {"connecting", "ending", "done"} \cup Serving

(* ready: the first message on the channel, the only one anybody reads.    *)
(* link: the SSH session's connection to the server is up.  forwards: the  *)
(* number of threads that run pump.                                        *)
Absent == [id |-> None, port |-> None, stop |-> FALSE, stage |-> "absent", ready |-> "none",
           link |-> FALSE, forwards |-> 0]

TunnelRecords ==
    [id : Connections, port : Ports, stop : BOOLEAN, stage : Stages, ready : {"none", "ok", "err"},
     link : BOOLEAN, forwards : Nat]

(* given, refused: idle again, and last told Ok or Err about the tunnel.   *)
(* Refused without one: no port was free.                                  *)
Resting == {"idle", "given", "refused"}
Creating == {"inserting", "waiting", "failing"}
CallRecords ==
    [pc : Creating \cup {"given", "refused"}, tunnel : Tunnels]
        \cup [pc : {"idle", "refused"}, tunnel : {None}]

TypeOK ==
    /\ tunnels \in [Connections -> Tunnels \cup {None}]
    /\ tunnel \in [Tunnels -> TunnelRecords \cup {Absent}]
    /\ call \in [Callers -> CallRecords]

At(c, l) == call[c].pc = l
Unlocked == \A c \in Callers : ~ At(c, "inserting")
Registered(t) == tunnels[tunnel[t].id] = t
Stage(t, s) == tunnel[t].stage = s
Serves(t) == tunnel[t].stage \in Serving
Runs(t) == Serves(t) \/ Stage(t, "connecting")

(* The identity of a tunnel is free when nothing refers to it. *)
Free(t) ==
    /\ tunnel[t].stage \in {"absent", "done"}
    /\ tunnel[t].forwards = 0
    /\ \A i \in Connections : tunnels[i] # t
    /\ \A c \in Callers : call[c].tunnel # t

FreePort(p) == \A t \in Tunnels : Serves(t) => tunnel[t].port # p

Become(c, l, t) == call' = [call EXCEPT ![c] = [pc |-> l, tunnel |-> t]]
Enter(t, s) == tunnel' = [tunnel EXCEPT ![t].stage = s]

Init ==
    /\ tunnels = [i \in Connections |-> None]
    /\ tunnel = [t \in Tunnels |-> Absent]
    /\ call = [c \in Callers |-> [pc |-> "idle", tunnel |-> None]]

-----------------------------------------------------------------------------
(* unregister_tunnel: drop the entry of the connection, if it is this one. *)

(* Mutant: whatever tunnel the connection has. *)
UnregisterAny(t) == tunnels' = [tunnels EXCEPT ![tunnel[t].id] = None]

Unregister(t) == tunnels' = [i \in Connections |-> IF tunnels[i] = t THEN None ELSE tunnels[i]]

-----------------------------------------------------------------------------
(* create_ssh_tunnel                                                       *)

CreateExisting(c, i) ==
    /\ call[c].pc \in Resting
    /\ Unlocked
    /\ tunnels[i] # None
    /\ Become(c, "given", tunnels[i])
    /\ UNCHANGED <<tunnels, tunnel>>

(* A port is free when nobody listens on it at this moment. *)
CreateNew(c, i) ==
    /\ call[c].pc \in Resting
    /\ Unlocked
    /\ tunnels[i] = None
    /\ \E t \in Tunnels, p \in Ports :
        /\ Free(t)
        /\ FreePort(p)
        /\ tunnel' = [tunnel EXCEPT ![t] = [Absent EXCEPT !.id = i, !.port = p,
                                                          !.stage = "connecting"]]
        /\ Become(c, "inserting", t)
    /\ UNCHANGED tunnels

CreateInsert(c) ==
    /\ At(c, "inserting")
    /\ tunnels' = [tunnels EXCEPT ![tunnel[call[c].tunnel].id] = call[c].tunnel]
    /\ Become(c, "waiting", call[c].tunnel)
    /\ UNCHANGED tunnel

CreateNoPort(c, i) ==
    /\ call[c].pc \in Resting
    /\ Unlocked
    /\ tunnels[i] = None
    /\ \A p \in Ports : ~ FreePort(p)
    /\ Become(c, "refused", None)
    /\ UNCHANGED <<tunnels, tunnel>>

(* The thread has reported. *)
CreateHears(c) ==
    /\ At(c, "waiting")
    /\ \/ /\ tunnel[call[c].tunnel].ready = "ok"
          /\ Become(c, "given", call[c].tunnel)
       \/ /\ tunnel[call[c].tunnel].ready = "err"
          /\ Become(c, "failing", call[c].tunnel)
    /\ UNCHANGED <<tunnels, tunnel>>

(* Mutant: recv without a time limit. *)
CreateWaitsForever(c) == FALSE /\ UNCHANGED vars

CreateTimesOut(c) ==
    /\ At(c, "waiting")
    /\ tunnel[call[c].tunnel].ready = "none"
    /\ tunnel' = [tunnel EXCEPT ![call[c].tunnel].stop = TRUE]
    /\ Become(c, "failing", call[c].tunnel)
    /\ UNCHANGED tunnels

(* Mutant: the entry is left to the exiting thread. *)
CreateFailsOnly(c) ==
    /\ At(c, "failing")
    /\ Become(c, "refused", call[c].tunnel)
    /\ UNCHANGED <<tunnels, tunnel>>

CreateFails(c) ==
    /\ At(c, "failing")
    /\ Unlocked
    /\ Unregister(call[c].tunnel)
    /\ Become(c, "refused", call[c].tunnel)
    /\ UNCHANGED tunnel

-----------------------------------------------------------------------------
(* close_ssh_tunnel and close_all_tunnels.  Closing what is not there      *)
(* changes nothing.                                                        *)

CloseTunnels(c, is) ==
    /\ call[c].pc \in Resting
    /\ Unlocked
    /\ tunnels' = [i \in Connections |-> IF i \in is THEN None ELSE tunnels[i]]
    /\ tunnel' = [t \in Tunnels |-> IF \E i \in is : tunnels[i] = t
                                     THEN [tunnel[t] EXCEPT !.stop = TRUE]
                                     ELSE tunnel[t]]
    /\ Become(c, "idle", None)

Close(c, i) == CloseTunnels(c, {i})
CloseAll(c) == CloseTunnels(c, Connections)

-----------------------------------------------------------------------------
(* The thread of a tunnel                                                  *)

Report(t, r) == IF tunnel[t].ready = "none" THEN r ELSE tunnel[t].ready

(* Connected, authenticated and bound. *)
ThreadListens(t) ==
    /\ Stage(t, "connecting")
    /\ FreePort(tunnel[t].port)
    /\ tunnel' = [tunnel EXCEPT ![t].stage = "checking", ![t].link = TRUE,
                                ![t].ready = Report(t, "ok")]
    /\ UNCHANGED <<tunnels, call>>

(* Any step up to the bind fails, each after a time limit of its own. *)
ThreadFails(t) ==
    /\ Stage(t, "connecting")
    /\ tunnel' = [tunnel EXCEPT ![t].stage = "ending", ![t].ready = Report(t, "err")]
    /\ UNCHANGED <<tunnels, call>>

ThreadChecks(t) ==
    /\ Stage(t, "checking")
    /\ Enter(t, IF tunnel[t].stop THEN "ending" ELSE "accepting")
    /\ UNCHANGED <<tunnels, call>>

(* A client has connected, nobody has, or accept fails. *)
ThreadAccepts(t) ==
    /\ Stage(t, "accepting")
    /\ \/ tunnel[t].forwards < MaxForwards /\ Enter(t, "opening")
       \/ Enter(t, "checking")
       \/ Enter(t, "ending")
    /\ UNCHANGED <<tunnels, call>>

OpenChannel(t) ==
    /\ Stage(t, "opening")
    /\ tunnel[t].link
    /\ tunnel' = [tunnel EXCEPT ![t].stage = "checking", ![t].forwards = @ + 1]
    /\ UNCHANGED <<tunnels, call>>

(* The server refuses the channel, the tunnel is stopped, or the deadline  *)
(* has passed: the client's connection is dropped.                         *)
OpenGivesUp(t) ==
    /\ Stage(t, "opening")
    /\ Enter(t, "checking")
    /\ UNCHANGED <<tunnels, call>>

(* Mutant: the thread does not wait for the registry's lock. *)
ThreadEndsUnlocked(t) ==
    /\ Stage(t, "ending")
    /\ Unregister(t)
    /\ Enter(t, "done")
    /\ UNCHANGED call

ThreadEnds(t) ==
    /\ Stage(t, "ending")
    /\ Unlocked
    /\ Unregister(t)
    /\ Enter(t, "done")
    /\ UNCHANGED call

(* A pump ends because one of its two ends has closed or failed, or        *)
(* because it finds its tunnel stopped, whatever it waits for.             *)
ForwardEnds(t) ==
    /\ tunnel[t].forwards > 0
    /\ tunnel' = [tunnel EXCEPT ![t].forwards = @ - 1]
    /\ UNCHANGED <<tunnels, call>>

(* Mutant: a write that makes no progress is retried for ever. *)
ForwardStopsOnLoss(t) == ~ tunnel[t].link /\ ForwardEnds(t)

ForwardStops(t) == tunnel[t].stop /\ ForwardEnds(t)

(* The server, or the network, drops the SSH session. *)
LoseLink(t) ==
    /\ tunnel[t].link
    /\ tunnel' = [tunnel EXCEPT ![t].link = FALSE]
    /\ UNCHANGED <<tunnels, call>>

-----------------------------------------------------------------------------

Invoke(c) ==
    \/ \E i \in Connections :
        CreateExisting(c, i) \/ CreateNew(c, i) \/ CreateNoPort(c, i) \/ Close(c, i)
    \/ CloseAll(c)

Proceed(c) == CreateInsert(c) \/ CreateHears(c) \/ CreateTimesOut(c) \/ CreateFails(c)

Handshake(t) == ThreadListens(t) \/ ThreadFails(t)

Serve(t) == ThreadChecks(t) \/ ThreadAccepts(t) \/ OpenChannel(t) \/ OpenGivesUp(t) \/ ThreadEnds(t)

Next ==
    \/ \E c \in Callers : Invoke(c) \/ Proceed(c)
    \/ \E t \in Tunnels :
        Handshake(t) \/ Serve(t) \/ ForwardEnds(t) \/ ForwardStops(t) \/ LoseLink(t)

Spec == Init /\ [][Next]_vars

(* Threads are scheduled, and a caller waits for 45 s, a channel for 30 s  *)
(* at most.  The registry's mutex is not fair, but held for an instant at  *)
(* a time: who finds it free again and again gets it.                      *)
FairSpec ==
    /\ Spec
    /\ \A c \in Callers : WF_vars(Proceed(c)) /\ SF_vars(CreateFails(c))
    /\ \A t \in Tunnels : WF_vars(Serve(t)) /\ SF_vars(ThreadEnds(t)) /\ WF_vars(ForwardStops(t))

(* Only each connect and each read of a handshake has a time limit, not    *)
(* the handshake as a whole: that it ends needs a server that is silent,   *)
(* or gone, or does its part.                                              *)
HandshakesEndSpec == FairSpec /\ \A t \in Tunnels : WF_vars(Handshake(t))

-----------------------------------------------------------------------------
(* Properties                                                              *)

(* Every entry of the registry has a thread that will still take it out,   *)
(* however early the thread fails: the thread is spawned before the entry  *)
(* is inserted, but under the registry's lock.                             *)
EntriesHaveThreads ==
    \A i \in Connections : tunnels[i] # None =>
        tunnel[tunnels[i]].id = i /\ (Runs(tunnels[i]) \/ Stage(tunnels[i], "ending"))

(* A tunnel that runs and has not been told to stop is the one registered  *)
(* for its connection, or about to be, so that the user can close it: no   *)
(* tunnel outlives its entry, no cleanup takes the entry of a replacement. *)
RunningIsRegistered ==
    \A t \in Tunnels : Runs(t) /\ ~ tunnel[t].stop =>
        Registered(t) \/ \E c \in Callers : At(c, "inserting") /\ call[c].tunnel = t

(* The registry has the running tunnels, and those only, whatever thread    *)
(* fails or is stopped when.                                               *)
RegistryIsCurrent == EntriesHaveThreads /\ RunningIsRegistered

(* Once create_ssh_tunnel has answered Err, its tunnel is not registered   *)
(* any more: a retry is not handed a dead one.                             *)
FailedIsGone ==
    \A c \in Callers : At(c, "refused") => \A i \in Connections :
        tunnels[i] # None => tunnels[i] # call[c].tunnel

(* A stopped tunnel goes away, with every connection it forwards, once its *)
(* handshake is over.                                                      *)
StoppedTunnelEnds ==
    \A t \in Tunnels : tunnel[t].stop /\ ~ Stage(t, "connecting") ~>
        ~ Serves(t) /\ tunnel[t].forwards = 0

(* create_ssh_tunnel answers, even when the handshake never ends. *)
CreateAnswers == \A c \in Callers : ~ (call[c].pc \in Resting) ~> call[c].pc \in Resting

(* Once the connection to the server was lost, running again reconnects,   *)
(* MainContent.tsx 2249: refuted where it went through a tunnel.  One that *)
(* has lost its SSH session stays registered, to be handed to every later  *)
(* run: its thread goes on accepting and never looks at the session.       *)
LostTunnelGoes ==
    \A t \in Tunnels : (Serves(t) /\ ~ tunnel[t].link) ~> ~ (Serves(t) /\ ~ tunnel[t].link)
=============================================================================
