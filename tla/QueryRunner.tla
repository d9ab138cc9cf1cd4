----------------------------- MODULE QueryRunner -----------------------------
(***************************************************************************)
(* executeQuery and cancelQuery of MainContent.tsx: the re-entrancy gate,  *)
(* the generation of runs, the cancel tokens, the session that Stop asks   *)
(* the server to cancel, and what the results panel shows; with the        *)
(* handlers that use the same flags, Save and the visual optimizer.  The   *)
(* path of a run is the one through the SQL plugin; a psql console's is    *)
(* not modelled.  The front end is single-threaded: an action runs from    *)
(* one await to the next.                                                  *)
(***************************************************************************)
EXTENDS Naturals

CONSTANTS
    Runs,           \* calls of executeQuery
    Tools,          \* calls of handleSave and handleVisualOptimize
    Tabs,           \* editor tabs, each with a session
    MaxStatements,  \* bound: statements of a script
    MaxGen,         \* bound: generations
    None

ASSUME NoneAssumption == None \notin Runs \cup Tools \cup Tabs
ASSUME BoundAssumption == MaxStatements \in Nat \ {0} /\ MaxGen \in Nat

VARIABLES
    gate,           \* isExecutingRef
    executing,      \* isExecuting: the toolbar has a Cancel button
    gen,            \* executionGenRef
    cancelFlag,     \* cancelFlagRef
    token,          \* currentRunCancelRef: the run that owns the token
    running,        \* runningSessionRef: the tab of the session
    run,            \* where each run is, and its locals
    tools,          \* handlers under way
    shown           \* whose outcome the results panel shows

vars == <<gate, executing, gen, cancelFlag, token, running, run, tools, shown>>

Awaits == {"connecting", "confirming", "sent", "looking", "dropping"}

(* left: statements not sent yet.  cancelled: the run's cancel token.      *)
(* asked: the server was asked to cancel the statement in flight.          *)
RunRecords ==
    [pc : Awaits \cup {"idle"}, gen : 0..MaxGen, tab : Tabs, script : BOOLEAN,
     left : 0..MaxStatements, cancelled : BOOLEAN, asked : BOOLEAN]

TypeOK ==
    /\ gate \in BOOLEAN
    /\ executing \in BOOLEAN
    /\ gen \in 0..MaxGen
    /\ cancelFlag \in BOOLEAN
    /\ token \in Runs \cup {None}
    /\ running \in Tabs \cup {None}
    /\ run \in [Runs -> RunRecords]
    /\ tools \subseteq Tools
    /\ shown \in Runs \cup Tools \cup {None, "cancelled", "refused"}

At(r, l) == run[r].pc = l
Live(r) == run[r].pc # "idle"
Current(r) == run[r].gen = gen
Idle(r) == [run[r] EXCEPT !.pc = "idle", !.left = 0, !.cancelled = FALSE, !.asked = FALSE]

Init ==
    /\ gate = FALSE /\ executing = FALSE /\ cancelFlag = FALSE
    /\ gen = 0
    /\ token = None /\ running = None /\ shown = None
    /\ run \in [Runs -> {[pc |-> "idle", gen |-> 0, tab |-> t, script |-> FALSE, left |-> 0,
                          cancelled |-> FALSE, asked |-> FALSE] : t \in Tabs}]
    /\ tools = {}

-----------------------------------------------------------------------------
(* The end of executeQuery                                                 *)

(* Mutant: an abandoned run resets the flags too. *)
FinallyAlways(r, b) ==
    /\ run' = [run EXCEPT ![r] = Idle(r)]
    /\ gate' = FALSE /\ executing' = FALSE /\ cancelFlag' = FALSE

(* finally: only the latest generation resets the flags.  b: whether the   *)
(* toolbar has the Cancel button by then.                                  *)
Finally(r, b) ==
    /\ run' = [run EXCEPT ![r] = Idle(r)]
    /\ IF Current(r)
       THEN gate' = FALSE /\ executing' = FALSE /\ cancelFlag' = FALSE
       ELSE executing' = b /\ UNCHANGED <<gate, cancelFlag>>

Await(r, l, b) ==
    /\ run' = [run EXCEPT ![r].pc = l]
    /\ executing' = b
    /\ UNCHANGED <<gate, cancelFlag>>

(* catch: an abandoned run leaves what is shown, by then s; a lost         *)
(* connection's handle is dropped before the error is shown.               *)
Catch(r, s, b) ==
    IF cancelFlag \/ ~ Current(r)
    THEN shown' = s /\ Finally(r, b)
    ELSE \/ shown' = r /\ Finally(r, b)
         \/ shown' = s /\ Await(r, "dropping", b)

(* After the last statement: an abandoned run returns; another shows its   *)
(* rows, for which it may have to look up the schema of their table.       *)
Succeed(r, s, b) ==
    IF run[r].cancelled \/ ~ Current(r)
    THEN shown' = s /\ Finally(r, b)
    ELSE shown' = r /\ (Finally(r, b) \/ Await(r, "looking", b))

(* runStatement, up to the answer of the plugin. *)
Send(r) ==
    /\ run' = [run EXCEPT ![r].pc = "sent", ![r].left = @ - 1, ![r].asked = FALSE]
    /\ running' = run[r].tab

-----------------------------------------------------------------------------
(* executeQuery                                                            *)

(* Mutant: a run does not clear the flag of an earlier Stop. *)
StartFlagKept(r, t, s, n) ==
    /\ ~ gate /\ ~ Live(r) /\ gen < MaxGen
    /\ gen' = gen + 1
    /\ run' = [run EXCEPT ![r] =
            [pc |-> "connecting", gen |-> gen + 1, tab |-> t, script |-> s, left |-> n,
             cancelled |-> FALSE, asked |-> FALSE]]
    /\ token' = r
    /\ gate' = TRUE /\ executing' = TRUE
    /\ shown' = None
    /\ UNCHANGED <<cancelFlag, running, tools>>

Start(r, t, s, n) ==
    /\ ~ gate /\ ~ Live(r) /\ gen < MaxGen
    /\ gen' = gen + 1
    /\ cancelFlag' = FALSE
    /\ run' = [run EXCEPT ![r] =
            [pc |-> "connecting", gen |-> gen + 1, tab |-> t, script |-> s, left |-> n,
             cancelled |-> FALSE, asked |-> FALSE]]
    /\ token' = r
    /\ gate' = TRUE /\ executing' = TRUE
    /\ shown' = None
    /\ UNCHANGED <<running, tools>>

(* No connection, no statement, or variables to be filled in first. *)
Refuse ==
    /\ ~ gate /\ gen < MaxGen
    /\ gen' = gen + 1
    /\ cancelFlag' = FALSE
    /\ shown' \in {shown, "refused"}
    /\ UNCHANGED <<gate, executing, token, running, run, tools>>

(* What a run shows of the statements it has made, before it looks whether *)
(* it is abandoned: the list of a script, a success without rows.          *)
Listed(r) == IF run[r].script THEN {r} ELSE {r, shown}

(* A single statement is sent whatever has happened since the start; a     *)
(* script looks at its token before every statement.  Some statements are  *)
(* rejected instead of sent.                                               *)
Execute(r) ==
    \/ /\ ~ (run[r].script /\ run[r].cancelled)
       /\ Send(r)
       /\ executing' = TRUE
       /\ UNCHANGED <<gate, cancelFlag, shown>>
    \/ /\ ~ (run[r].script /\ run[r].cancelled)
       /\ Catch(r, IF run[r].script THEN r ELSE shown, TRUE)
       /\ UNCHANGED running
    \/ /\ run[r].script /\ run[r].cancelled
       /\ Succeed(r, r, TRUE)
       /\ UNCHANGED running

(* ensureConnectionDb resolves; a dangerous statement is to be confirmed.  *)
Connected(r) ==
    /\ At(r, "connecting")
    /\ \/ Execute(r)
       \/ Await(r, "confirming", executing) /\ UNCHANGED <<running, shown>>
    /\ UNCHANGED <<gen, token, tools>>

(* No connection, or the settings deny the statement. *)
ConnectFails(r) ==
    /\ At(r, "connecting")
    /\ Catch(r, shown, executing)
    /\ UNCHANGED <<gen, token, running, tools>>

Confirmed(r) ==
    /\ At(r, "confirming")
    /\ Execute(r)
    /\ UNCHANGED <<gen, token, tools>>

Declined(r) ==
    /\ At(r, "confirming")
    /\ Finally(r, executing)
    /\ UNCHANGED <<gen, token, running, tools, shown>>

(* Mutant: the loop looks at the global flag, which a newer run clears. *)
GoesOnUnlessFlag(r) == run[r].script /\ run[r].left > 0 /\ ~ cancelFlag

GoesOn(r) == run[r].script /\ run[r].left > 0 /\ ~ run[r].cancelled

NextStatement(r) ==
    /\ At(r, "sent") /\ GoesOn(r)
    /\ Send(r)
    /\ UNCHANGED <<gate, executing, gen, cancelFlag, token, tools, shown>>

Answered(r) ==
    /\ At(r, "sent") /\ ~ GoesOn(r)
    /\ running' = None
    /\ \E s \in Listed(r) : Succeed(r, s, executing)
    /\ UNCHANGED <<gen, token, tools>>

Fails(r) ==
    /\ At(r, "sent")
    /\ running' = None
    /\ Catch(r, IF run[r].script THEN r ELSE shown, executing)
    /\ UNCHANGED <<gen, token, tools>>

Looked(r) ==
    /\ At(r, "looking")
    /\ shown' = r
    /\ Finally(r, executing)
    /\ UNCHANGED <<gen, token, running, tools>>

Dropped(r) ==
    /\ At(r, "dropping")
    /\ shown' = r
    /\ Finally(r, executing)
    /\ UNCHANGED <<gen, token, running, tools>>

-----------------------------------------------------------------------------
(* cancelQuery                                                             *)

(* Mutant, and what the code once did: Stop only raises the global flag. *)
CancelledByFlag ==
    [r \in Runs |-> [run[r] EXCEPT !.asked = @ \/ (At(r, "sent") /\ run[r].tab = running)]]

Cancelled ==
    [r \in Runs |->
        [run[r] EXCEPT !.cancelled = @ \/ (Live(r) /\ r = token),
                       !.asked = @ \/ (At(r, "sent") /\ run[r].tab = running)]]

(* Mutant, and what the code once did: the gate stays with the stopped run. *)
StopKeepsGate ==
    /\ executing /\ gen < MaxGen
    /\ run' = Cancelled
    /\ gen' = gen + 1
    /\ cancelFlag' = TRUE /\ executing' = FALSE
    /\ shown' = "cancelled"
    /\ UNCHANGED <<gate, token, running, tools>>

Stop ==
    /\ executing /\ gen < MaxGen
    /\ run' = Cancelled
    /\ gen' = gen + 1
    /\ cancelFlag' = TRUE /\ gate' = FALSE /\ executing' = FALSE
    /\ shown' = "cancelled"
    /\ UNCHANGED <<token, running, tools>>

-----------------------------------------------------------------------------
(* handleSave, handleVisualOptimize: they show the Cancel button but do    *)
(* not take the gate, and open it at their end.                            *)

ToolStarts(t) ==
    /\ t \notin tools
    /\ tools' = tools \cup {t}
    /\ executing' = TRUE
    /\ shown' \in {shown, None}
    /\ UNCHANGED <<gate, gen, cancelFlag, token, running, run>>

ToolEnds(t) ==
    /\ t \in tools
    /\ tools' = tools \ {t}
    /\ executing' = FALSE /\ gate' = FALSE
    /\ shown' \in {shown, t}
    /\ UNCHANGED <<gen, cancelFlag, token, running, run>>

-----------------------------------------------------------------------------

Continue(r) ==
    \/ Connected(r) \/ ConnectFails(r) \/ Confirmed(r) \/ Declined(r)
    \/ NextStatement(r) \/ Answered(r) \/ Fails(r) \/ Looked(r) \/ Dropped(r)

Next ==
    \/ \E r \in Runs, t \in Tabs :
        \/ Start(r, t, FALSE, 1)
        \/ \E n \in 1..MaxStatements : Start(r, t, TRUE, n)
    \/ \E r \in Runs : Continue(r)
    \/ Refuse
    \/ Stop
    \/ \E t \in Tools : ToolStarts(t) \/ ToolEnds(t)

Spec == Init /\ [][Next]_vars

(* History: the runs that lost their gate to the end of such a handler. *)
VARIABLE opened

ToolOpensGate == gate /\ ~ gate' /\ tools' # tools

HistoryInit == Init /\ opened = {}

HistoryNext ==
    /\ Next
    /\ opened' = {r \in Runs : Live(r)' /\ (r \in opened \/ (ToolOpensGate /\ Current(r)))}

HistorySpec == HistoryInit /\ [][HistoryNext]_<<vars, opened>>

-----------------------------------------------------------------------------
(* Properties                                                              *)

(* "A duplicate press is dropped rather than double-executed": a run that  *)
(* nobody stopped holds the gate and the token, hence there is one at      *)
(* most, unless Save or the optimizer opened its gate.  It is about the    *)
(* runs of executeQuery: batches and transaction buttons take no gate.     *)
OnlyStoppedOverlap ==
    \A r \in Runs \ opened :
        Live(r) /\ ~ run[r].cancelled => gate /\ Current(r) /\ token = r

(* The gate is never left closed: a run of the latest generation holds it  *)
(* and will open it, or no Run would do anything any more.                 *)
GateHasOwner == gate => \E r \in Runs : Live(r) /\ Current(r)

(* "Only the latest generation may clear shared run state": the gate is    *)
(* opened by the end of the run that holds it, by Stop, or by a tool, and  *)
(* never by the late end of an abandoned run.                              *)
OnlyOwnerOpensGate ==
    [][gate /\ ~ gate' =>
        \/ gen' # gen
        \/ tools' # tools
        \/ \E r \in Runs : Live(r) /\ Current(r) /\ ~ Live(r)']_vars

(* A run that nobody stopped or superseded does not end in silence: the    *)
(* flag of an earlier Stop does not swallow its error.                     *)
OutcomeShown ==
    [][\A r \in Runs :
        Live(r) /\ Current(r) /\ ~ At(r, "confirming") /\ ~ Live(r)' => shown' = r]_vars

(* A stopped script sends no further statement, whatever runs after it.    *)
StoppedScriptEnds ==
    [][\A r \in Runs :
        run[r].script /\ run[r].cancelled /\ Live(r)' => run'[r].left = run[r].left]_vars

(* "Stop the statement on the server too", MainContent.tsx 2334: the       *)
(* statement that a stopped run has in flight is one that the server was   *)
(* asked to cancel.  Refuted: a run stopped while it connects sends its    *)
(* statement all the same.                                                 *)
StopReachesServer ==
    \A r \in Runs : At(r, "sent") /\ run[r].cancelled => run[r].asked
=============================================================================
