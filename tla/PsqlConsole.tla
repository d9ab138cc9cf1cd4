----------------------------- MODULE PsqlConsole -----------------------------
(***************************************************************************)
(* The psql console: executeQuery of MainContent.tsx where a tab's         *)
(* statements go to the psql binary, each to a process of its own          *)
(* (cli_execute_query), and the list of commands and outputs that          *)
(* PsqlWindow shows.  Runs share the refs of QueryRunner and three more:   *)
(* the command that is running, the lines printed since the terminal was   *)
(* cleared, and the last query, which \watch repeats.  Lines and commands  *)
(* are named by the generation of the run they are of.  The tab's          *)
(* database and the display that \c and \x change are left out.            *)
(***************************************************************************)
EXTENDS Naturals, Sequences, SequencesExt

CONSTANTS
    Runs,           \* calls of executeQuery
    Tabs,           \* tabs with a console
    MaxStatements,  \* bound: statements of a script
    MaxGen,         \* bound: generations
    MaxClears,      \* bound: entries removed by the user, and consoles cleared
    None

ASSUME NoneAssumption == None \notin Runs \cup Tabs
ASSUME BoundAssumption == MaxStatements \in Nat /\ MaxGen \in Nat /\ MaxClears \in Nat

VARIABLES
    gate,           \* isExecutingRef
    executing,      \* isExecuting: the toolbar has a Cancel button
    gen,            \* executionGenRef
    cancelFlag,     \* cancelFlagRef
    token,          \* currentRunCancelRef: the run that owns the token
    command,        \* runningCmdRef
    queried,        \* lastPsqlQueryRef is not empty
    output,         \* psqlOutputRef: whose lines it has
    entries,        \* psqlEntries, of each tab
    run,            \* where each run is, and its locals
    clears

flags == <<gate, executing, cancelFlag>>
vars == <<flags, gen, token, command, queried, output, entries, run, clears>>

Gens == 1..MaxGen
Kinds == {"single", "connect", "script", "watch"}

(* late: the run made the entry anyway, though stopped or superseded.      *)
(* alone: no other run was under way while it was.                         *)
Entries == [of : Gens, command : Gens, lines : SUBSET Gens, late : BOOLEAN, alone : BOOLEAN]

(* seen: the entries when the run began.  failed: a statement of the       *)
(* script did.                                                             *)
RunRecords ==
    [pc : {"idle", "connecting", "preparing", "sent", "testing", "sleeping"},
     gen : 0..MaxGen, tab : Tabs, kind : Kinds, left : 0..MaxStatements,
     cancelled : BOOLEAN, failed : BOOLEAN, seen : Seq(Entries), alone : BOOLEAN]

TypeOK ==
    /\ gate \in BOOLEAN /\ executing \in BOOLEAN /\ cancelFlag \in BOOLEAN
    /\ queried \in BOOLEAN
    /\ gen \in 0..MaxGen
    /\ token \in Runs \cup {None}
    /\ command \in 0..MaxGen
    /\ output \subseteq Gens
    /\ entries \in [Tabs -> Seq(Entries)]
    /\ run \in [Runs -> RunRecords]
    /\ clears \in 0..MaxClears

At(r, l) == run[r].pc = l
Live(r) == ~ At(r, "idle")
Current(r) == run[r].gen = gen
Stopped(r) == cancelFlag \/ run[r].cancelled \/ ~ Current(r)
Idle(t) == [pc |-> "idle", gen |-> 0, tab |-> t, kind |-> "single", left |-> 0,
            cancelled |-> FALSE, failed |-> FALSE, seen |-> << >>, alone |-> FALSE]

Init ==
    /\ gate = FALSE /\ executing = FALSE /\ cancelFlag = FALSE /\ queried = FALSE
    /\ gen = 0 /\ command = 0 /\ clears = 0
    /\ token = None
    /\ output = {}
    /\ entries = [t \in Tabs |-> << >>]
    /\ run \in [Runs -> {Idle(t) : t \in Tabs}]

-----------------------------------------------------------------------------
(* The end of a run                                                        *)

(* finally: only the latest generation resets the flags. *)
Ends(r) ==
    /\ run' = [run EXCEPT ![r] = Idle(run[r].tab)]
    /\ IF Current(r) THEN gate' = FALSE /\ executing' = FALSE /\ cancelFlag' = FALSE
       ELSE UNCHANGED flags

(* The list is the one the run has seen at its start, with one entry more. *)
Enter(r, lines, late) ==
    entries' = [entries EXCEPT ![run[r].tab] =
        Append(run[r].seen,
            [of |-> run[r].gen, command |-> command, lines |-> lines,
             late |-> late, alone |-> run[r].alone])]

Printed(r) == output \cup {run[r].gen}

(* An error, the end of a \watch, or a \c: entered whatever has become of  *)
(* the run.                                                                *)
EntersAnyway(r) ==
    /\ Enter(r, Printed(r), ~ Current(r))
    /\ output' = {}
    /\ Ends(r)

(* Mutant: the end of a run looks at the flag that the next run clears. *)
SucceedsUnlessFlag(r, lines) ==
    /\ output' = lines
    /\ IF cancelFlag THEN UNCHANGED entries ELSE Enter(r, lines, FALSE)
    /\ Ends(r)

(* A stopped run returns in silence, its lines left where they are. *)
Succeeds(r, lines) ==
    /\ output' = lines
    /\ IF Stopped(r) THEN UNCHANGED entries ELSE Enter(r, lines, FALSE)
    /\ Ends(r)

Awaits(r, l) == run' = [run EXCEPT ![r].pc = l] /\ UNCHANGED <<flags, entries>>

-----------------------------------------------------------------------------
(* executeQuery up to the tool                                             *)

(* Mutant: the terminal is not cleared. *)
BeginsDirty(r, kind) ==
    /\ gate' = TRUE /\ executing' = TRUE
    /\ queried' \in {queried, queried \/ kind \in {"single", "script"}}
    /\ output' = output

(* The start of the CLI path, which takes the gate again. *)
Begins(r, kind) ==
    /\ gate' = TRUE /\ executing' = TRUE
    /\ queried' \in {queried, queried \/ kind \in {"single", "script"}}
    /\ output' = {}

(* A tab of its own connection waits for it first. *)
Start(r, t, kind, n) ==
    /\ ~ gate /\ ~ Live(r) /\ gen < MaxGen
    /\ gen' = gen + 1
    /\ cancelFlag' = FALSE
    /\ token' = r
    /\ command' = gen + 1
    /\ \E l \in {"connecting", "preparing"} :
          /\ run' = [s \in Runs |->
                IF s = r
                THEN [pc |-> l, gen |-> gen + 1, tab |-> t, kind |-> kind, left |-> n,
                      cancelled |-> FALSE, failed |-> FALSE, seen |-> entries[t],
                      alone |-> \A o \in Runs : ~ Live(o)]
                ELSE [run[s] EXCEPT !.alone = FALSE]]
          /\ IF l = "preparing" THEN Begins(r, kind)
             ELSE gate' = TRUE /\ executing' = TRUE /\ UNCHANGED <<queried, output>>
    /\ UNCHANGED <<entries, clears>>

(* Mutant: the Cancel button is not shown again. *)
ConnectedQuietly(r) ==
    /\ At(r, "connecting")
    /\ run' = [run EXCEPT ![r].pc = "preparing"]
    /\ gate' = TRUE
    /\ queried' \in {queried, queried \/ run[r].kind \in {"single", "script"}}
    /\ output' = {}
    /\ command' = run[r].gen
    /\ UNCHANGED <<executing, cancelFlag, gen, token, entries, clears>>

Connected(r) ==
    /\ At(r, "connecting")
    /\ Begins(r, run[r].kind)
    /\ command' = run[r].gen
    /\ run' = [run EXCEPT ![r].pc = "preparing"]
    /\ UNCHANGED <<cancelFlag, gen, token, entries, clears>>

(* No connection: the error goes to the results panel. *)
ConnectFails(r) ==
    /\ At(r, "connecting")
    /\ Ends(r)
    /\ UNCHANGED <<gen, token, command, queried, output, entries, clears>>

(* No version, no binary, its download declined or failed. *)
NoTool(r) ==
    /\ At(r, "preparing")
    /\ EntersAnyway(r)
    /\ UNCHANGED <<gen, token, command, queried, clears>>

-----------------------------------------------------------------------------
(* Statements                                                              *)

(* Mutant: the loop of a \watch looks at the shared flags alone. *)
WatchesUnlessFlag(r) == gate /\ ~ cancelFlag

Watches(r) == gate /\ ~ Stopped(r)

(* The loop of a script, with the lines it has printed.  One with a failed *)
(* statement throws; the error goes to the results panel.                  *)
Loop(r, lines, failed) ==
    \/ /\ run[r].left > 0 /\ ~ Stopped(r)
       /\ \E l \in {"sent", "testing"} :
             run' = [run EXCEPT ![r].pc = l, ![r].left = @ - 1, ![r].failed = failed]
       /\ output' = lines
       /\ UNCHANGED <<flags, entries>>
    \/ /\ run[r].left = 0 \/ Stopped(r)
       /\ IF failed THEN Ends(r) /\ output' = lines /\ UNCHANGED entries
          ELSE Succeeds(r, lines)

(* The tool is there.  A single statement is sent whatever has happened.   *)
Prepared(r) ==
    /\ At(r, "preparing")
    /\ CASE run[r].kind = "single" -> Awaits(r, "sent") /\ UNCHANGED output
         [] run[r].kind = "connect" -> Awaits(r, "testing") /\ UNCHANGED output
         [] run[r].kind = "script" -> Loop(r, output, FALSE)
         [] run[r].kind = "watch" ->
               IF queried /\ Watches(r) THEN Awaits(r, "sent") /\ output' = Printed(r)
               ELSE EntersAnyway(r)
    /\ UNCHANGED <<gen, token, command, queried, clears>>

(* psql has printed its result. *)
Answered(r) ==
    /\ At(r, "sent")
    /\ CASE run[r].kind = "single" -> Succeeds(r, Printed(r))
         [] run[r].kind = "script" -> Loop(r, Printed(r), run[r].failed)
         [] run[r].kind = "watch" ->
               IF Watches(r) THEN Awaits(r, "sleeping") /\ output' = Printed(r)
               ELSE EntersAnyway(r)
    /\ UNCHANGED <<gen, token, command, queried, clears>>

(* Or an error, which a script only takes down. *)
Fails(r) ==
    /\ At(r, "sent")
    /\ IF run[r].kind = "script" THEN Loop(r, output, TRUE) ELSE EntersAnyway(r)
    /\ UNCHANGED <<gen, token, command, queried, clears>>

(* \c has tried the other database. *)
Tested(r) ==
    /\ At(r, "testing")
    /\ IF run[r].kind = "script" THEN Loop(r, Printed(r), run[r].failed) ELSE EntersAnyway(r)
    /\ UNCHANGED <<gen, token, command, queried, clears>>

(* \watch looks ten times a second whether it is to go on. *)
Slept(r) ==
    /\ At(r, "sleeping")
    /\ IF Watches(r) THEN Awaits(r, "sent") /\ UNCHANGED output ELSE EntersAnyway(r)
    /\ UNCHANGED <<gen, token, command, queried, clears>>

-----------------------------------------------------------------------------
(* The user                                                                *)

(* cancelQuery.  The psql process goes on. *)
Stop ==
    /\ executing /\ gen < MaxGen
    /\ gen' = gen + 1
    /\ cancelFlag' = TRUE /\ gate' = FALSE /\ executing' = FALSE
    /\ run' = [r \in Runs |-> [run[r] EXCEPT !.cancelled = @ \/ (Live(r) /\ r = token)]]
    /\ UNCHANGED <<token, command, queried, output, entries, clears>>

(* handleSave and the optimizer open the gate at their end (QueryRunner). *)
ToolEnds ==
    /\ gate' = FALSE /\ executing' = FALSE
    /\ UNCHANGED <<cancelFlag, gen, token, command, queried, output, entries, run, clears>>

Removed == clears < MaxClears /\ clears' = clears + 1

Clear(t) ==
    /\ entries[t] # << >> /\ Removed
    /\ entries' = [entries EXCEPT ![t] = << >>]
    /\ output' = {}
    /\ UNCHANGED <<flags, gen, token, command, queried, run>>

RemoveLast(t) ==
    /\ entries[t] # << >> /\ Removed
    /\ entries' = [entries EXCEPT ![t] = SubSeq(@, 1, Len(@) - 1)]
    /\ UNCHANGED <<flags, gen, token, command, queried, output, run>>

-----------------------------------------------------------------------------

Continue(r) ==
    \/ Connected(r) \/ ConnectFails(r) \/ NoTool(r) \/ Prepared(r)
    \/ Answered(r) \/ Fails(r) \/ Tested(r) \/ Slept(r)

Next ==
    \/ \E r \in Runs, t \in Tabs :
        \/ \E kind \in {"single", "connect", "watch"} : Start(r, t, kind, 0)
        \/ \E n \in 1..MaxStatements : Start(r, t, "script", n)
    \/ \E r \in Runs : Continue(r)
    \/ Stop
    \/ ToolEnds
    \/ \E t \in Tabs : Clear(t) \/ RemoveLast(t)

(* What is not the user's doing goes on: connects and tool checks have     *)
(* time limits, the interval of a \watch passes, and psql is assumed to    *)
(* answer.                                                                 *)
Spec == Init /\ [][Next]_vars /\ \A r \in Runs : WF_vars(Continue(r))

-----------------------------------------------------------------------------
(* Properties                                                              *)

(* The gate is not closed for good: a run of the latest generation will    *)
(* open it, or the Cancel button is there.  A run stopped while it was     *)
(* connecting takes the gate after its Stop, and no end of a run opens it. *)
GateReopens ==
    gate => executing \/ \E r \in Runs : Live(r) /\ Current(r)

(* An entry has the command and the lines of its run, if no other run was  *)
(* under way with it: what a run leaves in the refs does not reach the     *)
(* next.                                                                   *)
EntryIsOwn ==
    \A t \in Tabs : \A i \in 1..Len(entries[t]) :
        LET e == entries[t][i] IN
        e.alone => e.command = e.of /\ e.lines \subseteq {e.of}

InTime(list) == \A i \in 1..Len(list) : ~ list[i].late

(* "A newer run, or the cancel itself, owns the UI": the list of a console *)
(* only grows, as long as the user removes nothing and no stopped run      *)
(* makes an entry.  One does when it ends with an error, a \c or a \watch, *)
(* for which nothing looks whether it was stopped: then its list replaces  *)
(* what came after it, as it brings back what the user has removed.        *)
EntriesKept ==
    [][\A t \in Tabs :
        clears' = 0 /\ InTime(entries[t]) /\ InTime(entries'[t])
        => IsPrefix(entries[t], entries'[t])]_vars

(* A run that is stopped or superseded ends, a \watch too, although the    *)
(* next run clears the flag of the Stop and closes the gate again.         *)
StoppedEnds == \A r \in Runs : Live(r) /\ ~ Current(r) ~> ~ Live(r)
=============================================================================
