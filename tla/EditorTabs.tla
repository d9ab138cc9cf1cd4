----------------------------- MODULE EditorTabs -----------------------------
(***************************************************************************)
(* What the user of an editor tab sees of SqlPlugin.  A tab whose last     *)
(* statement answered on a connection relies on the state of that          *)
(* connection: its settings, temporary tables and open transaction.  The   *)
(* history variables record when that state is lost, what the tab has been *)
(* told since, and which tabs were closed.  Statements of one tab come     *)
(* from Run, from batches of the grid and from the transaction buttons,    *)
(* and may overlap.                                                        *)
(***************************************************************************)
EXTENDS SqlPlugin

VARIABLES
    state,      \* of each tab: "none" to lose, "kept", "told" by its last answer that
                \* it is new, or "gone" untold
    excused,    \* tabs that had a failed run, or two at once, while their state was gone
    refilled,   \* runs whose tab got a new session from another run since they have theirs
    closed      \* tabs closed in the editor

tabVars == <<vars, state, excused, refilled, closed>>

TabInit ==
    /\ Init
    /\ state = [k \in Keys |-> "none"]
    /\ excused = {}
    /\ refilled = {}
    /\ closed = {}

RunsIn(c, k) == call[c].pc \in Running /\ Key(c) = k

(* In a step, a run of tab k answers its statement; it fails before it had *)
(* a connection; it reports that the connection was lost.                  *)
Leaves(c, k, l) == At(c, l) /\ Key(c) = k /\ call'[c].pc = "idle"
Fails(k) == \E c \in Calls, l \in {"lookup", "acquiring", "opening"} : Leaves(c, k, l)
ReportsLoss(k) == \E c \in Calls : Leaves(c, k, "removeLost")

(* A run drops the tab's session; other removals are closes the user asked for. *)
DroppedByRun(k) ==
    /\ sessions[k] # None /\ sessions'[k] # sessions[k]
    /\ \E c \in Calls : RunsIn(c, k) /\ call'[c].pc # call[c].pc
Disconnected(k) == sessions[k] # None /\ sessions'[k] # sessions[k] /\ ~ DroppedByRun(k)

(* An answer from a connection the map no longer has (it was closed while  *)
(* the statement ran) gives the tab nothing to rely on.                    *)
AnsweredOnSession(k) ==
    \E c \in Calls : Leaves(c, k, "queued") /\ call[c].conn = sessions[k]

Announced(k) == \E c \in Calls : Leaves(c, k, "queued") /\ call[c].reconnected

(* Two statements of the tab are in flight: which of them will be told of  *)
(* the new connection is not said.                                         *)
Overlap(k) == \E c, d \in Calls : c # d /\ RunsIn(c, k) /\ RunsIn(d, k)

(* A run fills the empty entry of tab k. *)
Refills(d, k) == At(d, "opening") /\ Key(d) = k /\ sessions[k] = None /\ sessions'[k] # None

(* Where a run has taken the session it works on. *)
OnSession == {"pinging", "removeDead", "queued", "removeLost"}

Observe ==
    /\ state' = [k \in Keys |->
            IF AnsweredOnSession(k) THEN IF Announced(k) THEN "told" ELSE "kept"
            ELSE IF ReportsLoss(k) \/ Disconnected(k) THEN "none"
            ELSE IF DroppedByRun(k) /\ state[k] \in {"kept", "told"} THEN "gone"
            ELSE state[k]]
    /\ excused' = {k \in Keys : state'[k] = "gone" /\ (k \in excused \/ Fails(k) \/ Overlap(k)')}
    /\ refilled' = {c \in Calls :
            /\ call'[c].pc \in OnSession
            /\ c \in refilled \/ \E d \in Calls : d # c /\ Refills(d, Key(c))}

(* The editor runs nothing more in a closed tab. *)
OpenTabsOnly ==
    \A c \in RunCalls : At(c, "idle") /\ call'[c].pc \in Running =>
        <<call'[c].db, call'[c].tab>> \notin closed

CloseTab(k) == EndSession(k) /\ closed' = closed \cup {k}

TabNext ==
    /\ \/ Step /\ OpenTabsOnly /\ UNCHANGED closed
       \/ \E k \in Keys : CloseTab(k)
    /\ Observe

TabSpec == TabInit /\ [][TabNext]_tabVars

-----------------------------------------------------------------------------
(* What TabPromise sees of a tab. *)
On == [k \in Keys |-> IF state[k] \in {"kept", "told"} THEN sessions[k] ELSE None]
Rely == [k \in Keys |-> IF k \in excused THEN "excused" ELSE state[k]]

Promise == INSTANCE TabPromise WITH Tabs <- Keys, on <- On, rely <- Rely

(* RECONNECTED_NOTICE, "shown when an idle session's connection had died   *)
(* and a new one was opened": what the plugin does implements TabPromise.  *)
(* The flag behind the notice is a local of the run that found the old     *)
(* connection dead, hence the exceptions for a failure and for a second    *)
(* run that answers before it.                                             *)
PromiseKept == Promise!Spec

(* "Errors after which the pinned connection is unusable; the session is   *)
(* dropped": a run about to drop its tab's session finds an unusable one   *)
(* in the map or nothing, never one that works, unless the map was empty   *)
(* and another run has put it there since.                                 *)
OnlyDeadSessionsDropped ==
    \A c \in Calls \ refilled :
        At(c, "removeDead") \/ At(c, "removeLost") => sessions[Key(c)] \in dead \cup {None}

(* The same without exception.  Refuted: of two runs that lost the same    *)
(* connection, the slower one drops the session the other has opened.      *)
WorkingSessionsStay ==
    \A c \in Calls :
        At(c, "removeDead") \/ At(c, "removeLost") => sessions[Key(c)] \in dead \cup {None}

(* end_session closes the connection of a closed tab: with no run of the   *)
(* tab in flight, the map has no session for it.                           *)
ClosedTabHasNoSession ==
    \A k \in closed : (\A c \in Calls : ~ RunsIn(c, k)) => sessions[k] = None
=============================================================================
