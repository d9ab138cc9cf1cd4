----------------------------- MODULE GridWrites ------------------------------
(***************************************************************************)
(* Transactions of the editor tabs: the statements a tab runs, the Begin,  *)
(* Commit and Rollback of the toolbar, the indicator that tells whether a  *)
(* tab is in a transaction, and the batches of the results grid            *)
(* (applyGridWrites), which open a transaction, or a savepoint when the    *)
(* indicator shows one.  Each tab has a session of its own on the server;  *)
(* jobs of a tab overlap: nothing in the front end keeps them apart.       *)
(***************************************************************************)
EXTENDS Naturals, FiniteSets, Sequences, SequencesExt

CONSTANTS
    Tabs,
    Batches,        \* bound: batches of the grid, each runs once
    Statements,     \* bound: statements and buttons, each runs once
    Engines,        \* which database engines are followed
    MaxJobs,        \* bound: of these, how many run
    Rows,           \* bound: writes of a batch
    MaxLosses,      \* bound: connections the server loses
    None            \* the tab of a job that does not run

Jobs == Batches \cup Statements

ASSUME JobsAssumption == Batches \cap Statements = {}
ASSUME NoneAssumption == None \notin Tabs
ASSUME EnginesAssumption == Engines \subseteq {"postgres", "mysql"}
ASSUME RowsAssumption == Rows \in Nat \ {0}
ASSUME LossesAssumption == MaxLosses \in Nat

VARIABLES
    engine,
    active,     \* activeTabIdRef
    shown,      \* txStateRef: the indicator of the toolbar
    mark,       \* transaction.active of each tab
    job,
    session,    \* external: the server side of each tab
    durable,    \* external: the grid writes that are committed
    astray,     \* history: tabs whose indicator may be off
    losses

vars == <<engine, active, shown, mark, job, session, durable, astray, losses>>

Opens == {"begin"}
Ends == {"commit", "rollback"}
UserStatements == Opens \cup Ends \cup {"ddl", "other"}
GridStatements == {"begin", "save", "write", "release", "commit", "back", "rollback"}

Writes(j) == {<<j, n>> : n \in 1..Rows}

(* in: applyGridWrites read the indicator as being in a transaction.       *)
(* alone: history, no other job ran in the tab and no answer was lost.     *)
(* right: history, the indicator was right up to the first statement.      *)
JobRecords ==
    [kind : {"none", "control", "run", "grid"}, tab : Tabs \cup {None},
     stmt : UserStatements \cup GridStatements, reply : {"none", "ok", "miss", "err"},
     out : {"pending", "done", "saved", "failed"},
     in : BOOLEAN, row : 1..Rows, alone : BOOLEAN, right : BOOLEAN]

SessionRecords ==
    [tx : {"auto", "open", "aborted", "lost"}, by : {"user", "grid"},
     held : SUBSET UNION {Writes(j) : j \in Batches},
     saves : Seq(SUBSET UNION {Writes(j) : j \in Batches})]

TypeOK ==
    /\ engine \in Engines
    /\ active \in Tabs
    /\ shown = mark[active]
    /\ mark \in [Tabs -> BOOLEAN]
    /\ job \in [Jobs -> JobRecords]
    /\ session \in [Tabs -> SessionRecords]
    /\ durable \subseteq UNION {Writes(j) : j \in Batches}
    /\ astray \subseteq Tabs
    /\ losses \in 0..MaxLosses

Waiting ==
    [kind |-> "none", tab |-> None, stmt |-> "other", reply |-> "none",
     out |-> "pending", in |-> FALSE, row |-> 1, alone |-> FALSE, right |-> FALSE]

Session(tx, by, held, saves) == [tx |-> tx, by |-> by, held |-> held, saves |-> saves]
AutoCommit == Session("auto", "user", {}, <<>>)
InTx(t) == session[t].tx \in {"open", "aborted"}

Running(j) == job[j].kind # "none"
RunningIn(t) == {j \in Jobs : Running(j) /\ job[j].tab = t}

Init ==
    /\ engine \in Engines
    /\ active \in Tabs
    /\ shown = FALSE
    /\ mark = [t \in Tabs |-> FALSE]
    /\ job = [j \in Jobs |-> Waiting]
    /\ session = [t \in Tabs |-> AutoCommit]
    /\ durable = {}
    /\ astray = {}
    /\ losses = 0

-----------------------------------------------------------------------------
(* Jobs of the front end                                                   *)

(* A second job in a tab disturbs the first. *)
Joined(t, new) ==
    [i \in Jobs |-> IF i \in RunningIn(t) THEN [job[i] EXCEPT !.alone = FALSE] ELSE new[i]]

Start(j, kind, stmt, in) ==
    /\ job[j] = Waiting
    /\ Cardinality({i \in Jobs : job[i] # Waiting}) < MaxJobs
    /\ job' = Joined(active, [job EXCEPT ![j] =
                 [kind |-> kind, tab |-> active, stmt |-> stmt, reply |-> "none", out |-> "pending",
                  in |-> in, row |-> 1,
                  alone |-> kind = "grid" /\ RunningIn(active) = {},
                  right |-> kind = "grid" /\ shown = InTx(active)]])
    /\ astray' = IF RunningIn(active) = {} THEN astray ELSE astray \cup {active}
    /\ UNCHANGED <<engine, active, shown, mark, session, durable, losses>>

(* The toolbar's buttons and the statements of the editor. *)
StartControl(j) == \E s \in Opens \cup Ends : Start(j, "control", s, FALSE)
StartRun(j) == \E s \in UserStatements : Start(j, "run", s, FALSE)

(* Mutant: a batch opens a transaction of its own in any case. *)
StartGridPlain(j) == Start(j, "grid", "begin", FALSE)

(* applyGridWrites begins with a savepoint inside a transaction. *)
StartGrid(j) == Start(j, "grid", IF shown THEN "save" ELSE "begin", shown)

(* setTabTransaction, of whichever tab is active by then. *)
SetTransaction(j, v) ==
    /\ shown' = v
    /\ mark' = [mark EXCEPT ![active] = v]
    /\ astray' = IF active = job[j].tab THEN astray ELSE astray \cup {active, job[j].tab}

KeepTransaction(j) ==
    /\ UNCHANGED <<shown, mark>>
    /\ astray' = IF active = job[j].tab THEN astray ELSE astray \cup {job[j].tab}

Answered(j) == job[j].reply # "none"
Ended(j, out) == job' = [job EXCEPT ![j] = [Waiting EXCEPT !.out = out]]
Goes(j, stmt) == job' = [job EXCEPT ![j].stmt = stmt, ![j].reply = "none"]

(* handleTxControl sets what it asked for. *)
AnswerControl(j) ==
    /\ job[j].kind = "control" /\ Answered(j)
    /\ Ended(j, "done")
    /\ \/ job[j].reply = "ok" /\ SetTransaction(j, job[j].stmt \in Opens)
       \/ job[j].reply = "err" /\ KeepTransaction(j)
    /\ UNCHANGED <<engine, active, session, durable, losses>>

(* Mutant: only the begin of a transaction is tracked. *)
AnswerRunBegin(j) ==
    /\ job[j].kind = "run" /\ Answered(j)
    /\ Ended(j, "done")
    /\ LET tracks == job[j].reply = "ok" /\ job[j].stmt \in Opens
       IN \/ tracks /\ SetTransaction(j, TRUE)
          \/ ~tracks /\ KeepTransaction(j)
    /\ UNCHANGED <<engine, active, session, durable, losses>>

(* trackTransaction compares the statement with the indicator. *)
AnswerRun(j) ==
    /\ job[j].kind = "run" /\ Answered(j)
    /\ Ended(j, "done")
    /\ LET tracks == job[j].reply = "ok" /\ job[j].stmt \in (IF shown THEN Ends ELSE Opens)
       IN \/ tracks /\ SetTransaction(j, ~shown)
          \/ ~tracks /\ KeepTransaction(j)
    /\ UNCHANGED <<engine, active, session, durable, losses>>

(* Mutant: a write that fails ends the batch, and nothing is rolled back. *)
AnswerGridStays(j) ==
    LET good == job[j].reply = "ok"
    IN /\ job[j].kind = "grid" /\ Running(j) /\ Answered(j)
       /\ \/ job[j].stmt \in {"begin", "save"} /\ good /\ Goes(j, "write")
          \/ job[j].stmt \in {"begin", "save"} /\ ~good /\ Ended(j, "failed")
          \/ /\ job[j].stmt = "write" /\ good /\ job[j].row < Rows
             /\ job' = [job EXCEPT ![j].row = @ + 1, ![j].reply = "none"]
          \/ /\ job[j].stmt = "write" /\ good /\ job[j].row = Rows
             /\ Goes(j, IF job[j].in THEN "release" ELSE "commit")
          \/ job[j].stmt \in {"release", "commit"} /\ good /\ Ended(j, "saved")
          \/ job[j].stmt \in {"write", "release", "commit"} /\ ~good /\ Ended(j, "failed")
       /\ UNCHANGED <<engine, active, shown, mark, session, durable, astray, losses>>

(* The next statement of a batch: every write must change one row; what    *)
(* fails is rolled back.  A failed begin or savepoint ends the batch.      *)
AnswerGrid(j) ==
    LET good == job[j].reply = "ok"
    IN /\ job[j].kind = "grid" /\ Running(j) /\ Answered(j)
       /\ \/ job[j].stmt \in {"begin", "save"} /\ good /\ Goes(j, "write")
          \/ job[j].stmt \in {"begin", "save"} /\ ~good /\ Ended(j, "failed")
          \/ /\ job[j].stmt = "write" /\ good /\ job[j].row < Rows
             /\ job' = [job EXCEPT ![j].row = @ + 1, ![j].reply = "none"]
          \/ /\ job[j].stmt = "write" /\ good /\ job[j].row = Rows
             /\ Goes(j, IF job[j].in THEN "release" ELSE "commit")
          \/ job[j].stmt \in {"release", "commit"} /\ good /\ Ended(j, "saved")
          \/ /\ job[j].stmt \in {"write", "release", "commit"} /\ ~good
             /\ Goes(j, IF job[j].in THEN "back" ELSE "rollback")
          \/ job[j].stmt \in {"back", "rollback"} /\ Ended(j, "failed")
       /\ UNCHANGED <<engine, active, shown, mark, session, durable, astray, losses>>

(* The effect of a tab switch restores the indicator of the tab. *)
SwitchTab(t) ==
    /\ t # active
    /\ active' = t
    /\ shown' = mark[t]
    /\ UNCHANGED <<engine, mark, job, session, durable, astray, losses>>

-----------------------------------------------------------------------------
(* The server (external)                                                   *)

(* A statement in state s leaves it in state r; w is what it commits. *)
Effect(j, s, r, reply, w) ==
    /\ session' = [session EXCEPT ![job[j].tab] = r]
    /\ durable' = durable \cup w
    /\ job' = [job EXCEPT ![j].reply = reply]
    /\ astray' = IF job[j].kind # "grid" /\ r = AutoCommit /\ s.tx = "open"
                    /\ (job[j].stmt = "ddl" \/ reply = "err")
                 THEN astray \cup {job[j].tab} ELSE astray
    /\ UNCHANGED <<engine, active, shown, mark, losses>>

(* After an error PostgreSQL refuses everything until a rollback. *)
Aborted(s) == IF s.tx = "open" /\ engine = "postgres" THEN [s EXCEPT !.tx = "aborted"] ELSE s

Opener(j) == IF job[j].kind = "grid" THEN "grid" ELSE "user"

(* In MySQL a begin commits what is open; the toolbar's begin sets the     *)
(* isolation level before, which MySQL refuses inside a transaction.       *)
DoBegin(j, s) ==
    \/ s.tx = "auto" /\ Effect(j, s, Session("open", Opener(j), {}, <<>>), "ok", {})
    \/ s.tx = "open" /\ engine = "postgres" /\ Effect(j, s, s, "ok", {})
    \/ /\ s.tx = "open" /\ engine = "mysql" /\ job[j].kind # "control"
       /\ Effect(j, s, Session("open", Opener(j), {}, <<>>), "ok", s.held)
    \/ s.tx = "open" /\ engine = "mysql" /\ job[j].kind = "control" /\ Effect(j, s, s, "err", {})
    \/ s.tx = "aborted" /\ Effect(j, s, s, "err", {})

(* A commit may fail on a deferred constraint. *)
DoCommit(j, s) ==
    \/ s.tx # "aborted" /\ Effect(j, s, AutoCommit, "ok", s.held)
    \/ s.tx = "open" /\ engine = "postgres" /\ Effect(j, s, AutoCommit, "err", {})
    \/ s.tx = "aborted" /\ Effect(j, s, AutoCommit, "ok", {})

DoRollback(j, s) == Effect(j, s, AutoCommit, "ok", {})

(* Outside a transaction PostgreSQL refuses a savepoint, MySQL forgets it. *)
DoSave(j, s) ==
    \/ s.tx = "open" /\ Effect(j, s, [s EXCEPT !.saves = Append(@, s.held)], "ok", {})
    \/ s.tx = "auto" /\ Effect(j, s, s, IF engine = "mysql" THEN "ok" ELSE "err", {})
    \/ s.tx = "aborted" /\ Effect(j, s, s, "err", {})

DoRelease(j, s) ==
    IF s.tx = "open" /\ s.saves # <<>>
    THEN Effect(j, s, [s EXCEPT !.saves = Front(@)], "ok", {})
    ELSE Effect(j, s, Aborted(s), "err", {})

DoBack(j, s) ==
    IF s.tx # "auto" /\ s.saves # <<>>
    THEN Effect(j, s, [s EXCEPT !.tx = "open", !.held = Last(s.saves)], "ok", {})
    ELSE Effect(j, s, Aborted(s), "err", {})

(* A write changes one row, none or several ("miss"), or fails. *)
DoWrite(j, s) ==
    LET w == <<j, job[j].row>>
        written == IF s.tx = "open" THEN [s EXCEPT !.held = @ \cup {w}] ELSE s
    IN \/ /\ s.tx # "aborted"
          /\ \E reply \in {"ok", "miss"} :
                Effect(j, s, written, reply, IF s.tx = "auto" THEN {w} ELSE {})
       \/ s.tx # "aborted" /\ Effect(j, s, s, "miss", {})
       \/ Effect(j, s, Aborted(s), "err", {})

(* In MySQL a change of the schema commits what is open. *)
DoDdl(j, s) ==
    \/ engine = "mysql" /\ Effect(j, s, AutoCommit, "ok", s.held)
    \/ engine = "postgres" /\ s.tx # "aborted" /\ Effect(j, s, s, "ok", {})
    \/ Effect(j, s, Aborted(s), "err", {})

DoOther(j, s) ==
    \/ s.tx # "aborted" /\ Effect(j, s, s, "ok", {})
    \/ Effect(j, s, Aborted(s), "err", {})

Do(j, s) ==
    CASE job[j].stmt = "begin" -> DoBegin(j, s)
      [] job[j].stmt = "commit" -> DoCommit(j, s)
      [] job[j].stmt = "rollback" -> DoRollback(j, s)
      [] job[j].stmt = "save" -> DoSave(j, s)
      [] job[j].stmt = "release" -> DoRelease(j, s)
      [] job[j].stmt = "back" -> DoBack(j, s)
      [] job[j].stmt = "write" -> DoWrite(j, s)
      [] job[j].stmt = "ddl" -> DoDdl(j, s)
      [] job[j].stmt = "other" -> DoOther(j, s)

Asked(j) == Running(j) /\ ~Answered(j)
Gone(j) == session[job[j].tab].tx = "lost"

(* A statement on a lost connection fails, and the next one opens another; *)
(* one that comes after a pause is pinged before, and runs on the new one. *)
Serve(j) ==
    /\ Asked(j)
    /\ \/ ~Gone(j) /\ Do(j, session[job[j].tab])
       \/ Gone(j) /\ Effect(j, session[job[j].tab], AutoCommit, "err", {})
       \/ Gone(j) /\ job[j].stmt \notin GridStatements \ {"begin", "save"} /\ Do(j, AutoCommit)

(* The server drops a connection, with what is open on it and any answer   *)
(* that is under way.                                                      *)
Lose(t) ==
    /\ losses < MaxLosses
    /\ losses' = losses + 1
    /\ session' = [session EXCEPT ![t] = Session("lost", "user", {}, <<>>)]
    /\ job' = [j \in Jobs |->
                 IF j \in RunningIn(t) /\ Answered(j) THEN [job[j] EXCEPT !.reply = "err", !.alone = FALSE]
                 ELSE IF j \in RunningIn(t) /\ job[j].stmt = "save" THEN [job[j] EXCEPT !.right = FALSE]
                 ELSE job[j]]
    /\ astray' = astray \cup {t}
    /\ UNCHANGED <<engine, active, shown, mark, durable>>

-----------------------------------------------------------------------------
Next ==
    \/ \E j \in Statements : StartControl(j) \/ StartRun(j) \/ AnswerControl(j) \/ AnswerRun(j)
    \/ \E j \in Batches : StartGrid(j) \/ AnswerGrid(j)
    \/ \E j \in Jobs : Serve(j)
    \/ \E t \in Tabs : SwitchTab(t) \/ Lose(t)

Spec == Init /\ [][Next]_vars

-----------------------------------------------------------------------------
(* A batch that had its tab for itself is saved whole or not at all: what  *)
(* the grid reports is what the tab's transaction or the database holds,   *)
(* whichever row fails, matches no row, or several.                        *)
Left(j) == Writes(j) \cap (durable' \cup session'[job[j].tab].held)
BatchIsWhole ==
    [][\A j \in Batches : job[j].kind = "grid" /\ job[j].alone /\ job[j].right /\ Running(j) =>
          /\ job'[j].out = "failed" => Left(j) = {}
          /\ job'[j].out = "saved" => Left(j) = Writes(j)]_vars

(* As the comment on applyGridWrites has it: the batch is rolled back as a *)
(* whole, whatever the indicator shows.                                    *)
FailedBatchUndone ==
    [][\A j \in Batches : job[j].kind = "grid" /\ job[j].alone /\ Running(j) =>
          (job'[j].out = "failed" => Left(j) = {})]_vars

(* A batch does not end a transaction that the user has opened. *)
EndsUsers(j) ==
    /\ job[j].kind = "grid" /\ Asked(j) /\ Answered(j)'
    /\ InTx(job[j].tab) /\ session[job[j].tab].by = "user"
    /\ ~(session'[job[j].tab].tx \in {"open", "aborted"} /\ session'[job[j].tab].by = "user")
TransactionKept ==
    [][\A j \in Batches : job[j].alone /\ job[j].right => ~EndsUsers(j)]_vars

(* The indicator of a tab is right whenever the tab rests, unless two jobs *)
(* overlapped in it, an answer came while another tab was active, the      *)
(* connection was lost, or the server ended the transaction on its own.    *)
IndicatorHonest ==
    \A t \in Tabs : t \notin astray /\ RunningIn(t) = {} => mark[t] = InTx(t)
=============================================================================
