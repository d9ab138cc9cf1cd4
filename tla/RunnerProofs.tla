---------------------------- MODULE RunnerProofs ----------------------------
(***************************************************************************)
(* Proofs about QueryRunner, for any number of runs, tabs and handlers,    *)
(* and below it about MultiQuery, for any number of connections, databases *)
(* and runs.  There a run that met no other one has the rows for itself    *)
(* (OthersMixed), which say of each target whether it is still to settle   *)
(* (RowsAreOf).  Last about SqlText, for texts of any length: the scanners *)
(* leap over whole regions where the reading of SQL takes one lexeme at a  *)
(* time, and wherever they land the reading says what they think (ScanOk). *)
(***************************************************************************)
EXTENDS QueryRunner, MultiQuery, SqlText, FiniteSetTheorems, WellFoundedInduction, TLAPS

Panel == Runs \cup Tools \cup {None, "cancelled", "refused"}

(* Generations only grow. *)
GensPassed == \A r \in Runs : run[r].gen <= gen

(* The flag is raised only while no run of the latest generation is live.  *)
FlagIsStale == cancelFlag => \A r \in Runs : Live(r) => run[r].gen < gen

(* A run whose token is set is under way, and superseded. *)
TokenIsStale == \A r \in Runs : run[r].cancelled => Live(r) /\ run[r].gen < gen

LeftToSend == \A r \in Runs : run[r].pc \in {"connecting", "confirming"} => run[r].left > 0

RunnerInv ==
    /\ TypeOK
    /\ GateHasOwner
    /\ GensPassed
    /\ FlagIsStale
    /\ TokenIsStale
    /\ LeftToSend

LEMMA RunShape ==
    ASSUME TypeOK, NEW r \in Runs
    PROVE  /\ run[r].pc \in Awaits \cup {"idle"}
           /\ run[r].gen \in Nat /\ run[r].gen \in 0..MaxGen
           /\ run[r].tab \in Tabs /\ run[r].script \in BOOLEAN
           /\ run[r].left \in Nat /\ run[r].left \in 0..MaxStatements
           /\ run[r].cancelled \in BOOLEAN /\ run[r].asked \in BOOLEAN
           /\ gen \in Nat
    BY BoundAssumption DEF TypeOK, RunRecords

LEMMA RunnerInit == Init => RunnerInv
<1> SUFFICES ASSUME Init PROVE RunnerInv
    OBVIOUS
<1>1. \A r \in Runs : \E t \in Tabs :
        run[r] = [pc |-> "idle", gen |-> 0, tab |-> t, script |-> FALSE, left |-> 0,
                  cancelled |-> FALSE, asked |-> FALSE]
    BY DEF Init
<1>2. 0 \in 0..MaxGen /\ 0 \in 0..MaxStatements
    BY BoundAssumption
<1>3. \A t \in Tabs : [pc |-> "idle", gen |-> 0, tab |-> t, script |-> FALSE, left |-> 0,
                      cancelled |-> FALSE, asked |-> FALSE] \in RunRecords
    BY <1>2 DEF RunRecords
<1>4. run \in [Runs -> RunRecords]
    BY <1>3 DEF Init
<1>5. TypeOK
    BY <1>2, <1>4 DEF Init, TypeOK
<1> QED
    BY <1>1, <1>5 DEF RunnerInv, Init, GateHasOwner, GensPassed, FlagIsStale, TokenIsStale, LeftToSend

-----------------------------------------------------------------------------
(* A live run goes on to a place x, or ends.  The gate may be opened, and  *)
(* has to be when its holder ends; the flag may be lowered.                *)
LEMMA OneRunMoves ==
    ASSUME RunnerInv, NEW r \in Runs, NEW x \in RunRecords,
           run' = [run EXCEPT ![r] = x],
           x.gen = run[r].gen,
           x.cancelled => run[r].cancelled /\ x.pc # "idle",
           x.pc # "idle" => Live(r),
           x.pc \in {"connecting", "confirming"} => x.left > 0,
           gate' \in BOOLEAN, executing' \in BOOLEAN, cancelFlag' \in BOOLEAN,
           running' \in Tabs \cup {None}, shown' \in Panel,
           gate' => gate /\ (x.pc # "idle" \/ ~ Current(r)),
           cancelFlag' => cancelFlag,
           UNCHANGED <<gen, token, tools>>
    PROVE  RunnerInv'
<1> USE DEF RunnerInv
<1>1. run'[r] = x /\ \A s \in Runs \ {r} : run'[s] = run[s]
    BY DEF TypeOK
<1>2. TypeOK'
    BY DEF TypeOK, Panel
<1>3. GateHasOwner'
    BY <1>1 DEF GateHasOwner, Live, Current
<1>4. GensPassed'
    BY <1>1 DEF GensPassed
<1>5. FlagIsStale'
    BY <1>1 DEF FlagIsStale, Live
<1>6. TokenIsStale'
    BY <1>1 DEF TokenIsStale, Live
<1>7. LeftToSend'
    BY <1>1 DEF LeftToSend
<1> QED
    BY <1>2, <1>3, <1>4, <1>5, <1>6, <1>7

LEMMA FinallyKeeps ==
    ASSUME RunnerInv, NEW r \in Runs, NEW b \in BOOLEAN, Finally(r, b),
           running' \in Tabs \cup {None}, shown' \in Panel,
           UNCHANGED <<gen, token, tools>>
    PROVE  RunnerInv'
<1> DEFINE x == Idle(r)
<1>1. x \in RunRecords /\ x.pc = "idle" /\ x.gen = run[r].gen /\ ~ x.cancelled
    <2>1. run[r] \in RunRecords
        BY DEF RunnerInv, TypeOK
    <2>2. 0 \in 0..MaxStatements
        BY BoundAssumption
    <2> QED
        BY <2>1, <2>2 DEF Idle, RunRecords
<1>2. run' = [run EXCEPT ![r] = x]
    BY DEF Finally
<1>3. /\ gate' \in BOOLEAN /\ executing' \in BOOLEAN /\ cancelFlag' \in BOOLEAN
      /\ (gate' => gate /\ ~ Current(r)) /\ (cancelFlag' => cancelFlag)
    BY DEF Finally, RunnerInv, TypeOK
<1> HIDE DEF x
<1> QED
    BY <1>1, <1>2, <1>3, OneRunMoves

LEMMA AwaitKeeps ==
    ASSUME RunnerInv, NEW r \in Runs, NEW l \in {"confirming", "looking", "dropping"},
           NEW b \in BOOLEAN, Await(r, l, b), Live(r),
           l = "confirming" => At(r, "connecting"),
           running' \in Tabs \cup {None}, shown' \in Panel,
           UNCHANGED <<gen, token, tools>>
    PROVE  RunnerInv'
<1> DEFINE x == [run[r] EXCEPT !.pc = l]
<1>1. x \in RunRecords /\ x.pc = l /\ x.gen = run[r].gen /\ x.cancelled = run[r].cancelled /\ x.left = run[r].left
    <2>1. run[r] \in RunRecords
        BY DEF RunnerInv, TypeOK
    <2> QED
        BY <2>1 DEF RunRecords, Awaits
<1>2. run' = [run EXCEPT ![r] = x]
    BY DEF Await
<1>3. gate' = gate /\ cancelFlag' = cancelFlag /\ executing' \in BOOLEAN /\ gate \in BOOLEAN /\ cancelFlag \in BOOLEAN
    BY DEF Await, RunnerInv, TypeOK
<1>4. l = "confirming" => run[r].left > 0
    BY DEF RunnerInv, LeftToSend, At
<1> HIDE DEF x
<1> QED
    BY <1>1, <1>2, <1>3, <1>4, OneRunMoves

LEMMA CatchKeeps ==
    ASSUME RunnerInv, NEW r \in Runs, NEW s \in Panel, NEW b \in BOOLEAN,
           Catch(r, s, b), Live(r), running' \in Tabs \cup {None}, UNCHANGED <<gen, token, tools>>
    PROVE  RunnerInv'
<1>1. shown' \in Panel
    BY DEF Catch, Panel
<1>2. CASE Finally(r, b)
    BY <1>1, <1>2, FinallyKeeps
<1>3. CASE Await(r, "dropping", b)
    BY <1>1, <1>3, AwaitKeeps
<1> QED
    BY <1>2, <1>3 DEF Catch

LEMMA SucceedKeeps ==
    ASSUME RunnerInv, NEW r \in Runs, NEW s \in Panel, NEW b \in BOOLEAN,
           Succeed(r, s, b), Live(r), running' \in Tabs \cup {None}, UNCHANGED <<gen, token, tools>>
    PROVE  RunnerInv'
<1>1. shown' \in Panel
    BY DEF Succeed, Panel
<1>2. CASE Finally(r, b)
    BY <1>1, <1>2, FinallyKeeps
<1>3. CASE Await(r, "looking", b)
    BY <1>1, <1>3, AwaitKeeps
<1> QED
    BY <1>2, <1>3 DEF Succeed

LEMMA SendKeeps ==
    ASSUME RunnerInv, NEW r \in Runs, Send(r), Live(r), run[r].left > 0,
           executing' \in BOOLEAN, UNCHANGED <<gate, cancelFlag, shown, gen, token, tools>>
    PROVE  RunnerInv'
<1> DEFINE x == [run[r] EXCEPT !.pc = "sent", !.left = @ - 1, !.asked = FALSE]
<1>1. run[r].left - 1 \in 0..MaxStatements
    <2>1. run[r].left \in 0..MaxStatements /\ MaxStatements \in Nat
        BY RunShape, BoundAssumption DEF RunnerInv
    <2> QED
        BY <2>1
<1>2. x \in RunRecords /\ x.pc = "sent" /\ x.gen = run[r].gen /\ x.cancelled = run[r].cancelled
    <2>1. run[r] \in RunRecords
        BY DEF RunnerInv, TypeOK
    <2> QED
        BY <1>1, <2>1 DEF RunRecords, Awaits
<1>3. run' = [run EXCEPT ![r] = x]
    BY DEF Send
<1>4. running' \in Tabs \cup {None}
    BY RunShape DEF RunnerInv, Send
<1>5. /\ gate' = gate /\ cancelFlag' = cancelFlag /\ gate' \in BOOLEAN /\ cancelFlag' \in BOOLEAN
      /\ shown' \in Panel /\ executing' \in BOOLEAN /\ UNCHANGED <<gen, token, tools>>
    BY DEF RunnerInv, TypeOK, Panel
<1>6. (x.cancelled => run[r].cancelled /\ x.pc # "idle") /\ (x.pc \in {"connecting", "confirming"} => x.left > 0)
    BY <1>2
<1>7. (gate' => gate /\ (x.pc # "idle" \/ ~ Current(r))) /\ (cancelFlag' => cancelFlag)
    BY <1>2, <1>5
<1> HIDE DEF x
<1> QED
    BY <1>2, <1>3, <1>4, <1>5, <1>6, <1>7, OneRunMoves

LEMMA ExecuteKeeps ==
    ASSUME RunnerInv, NEW r \in Runs, Execute(r), run[r].pc \in {"connecting", "confirming"},
           UNCHANGED <<gen, token, tools>>
    PROVE  RunnerInv'
<1>1. Live(r) /\ run[r].left > 0
    BY DEF Live, RunnerInv, LeftToSend
<1>2. r \in Panel /\ shown \in Panel /\ running \in Tabs \cup {None}
    BY DEF RunnerInv, TypeOK, Panel
<1>3. CASE Send(r) /\ executing' = TRUE /\ UNCHANGED <<gate, cancelFlag, shown>>
    BY <1>1, <1>3, SendKeeps
<1>4. CASE Catch(r, IF run[r].script THEN r ELSE shown, TRUE) /\ UNCHANGED running
    <2>1. (IF run[r].script THEN r ELSE shown) \in Panel
        BY <1>2
    <2> QED
        BY <1>1, <1>2, <1>4, <2>1, CatchKeeps
<1>5. CASE Succeed(r, r, TRUE) /\ UNCHANGED running
    BY <1>1, <1>2, <1>5, SucceedKeeps
<1> QED
    BY <1>3, <1>4, <1>5 DEF Execute

LEMMA ContinueKeeps ==
    ASSUME RunnerInv, NEW r \in Runs, Continue(r)
    PROVE  RunnerInv'
<1>1. /\ r \in Panel /\ shown \in Panel /\ running \in Tabs \cup {None} /\ None \in Tabs \cup {None}
      /\ executing \in BOOLEAN
    BY DEF RunnerInv, TypeOK, Panel
<1>2. (IF run[r].script THEN r ELSE shown) \in Panel /\ Listed(r) \subseteq Panel
    BY <1>1 DEF Listed
<1>3. CASE Connected(r)
    <2>1. At(r, "connecting") /\ Live(r) /\ UNCHANGED <<gen, token, tools>>
        BY <1>3 DEF Connected, At, Live
    <2>2. CASE Execute(r)
        BY <2>1, <2>2, ExecuteKeeps DEF At
    <2>3. CASE Await(r, "confirming", executing) /\ UNCHANGED <<running, shown>>
        BY <1>1, <2>1, <2>3, AwaitKeeps
    <2> QED
        BY <1>3, <2>2, <2>3 DEF Connected
<1>4. CASE ConnectFails(r)
    BY <1>1, <1>4, CatchKeeps DEF ConnectFails, At, Live
<1>5. CASE Confirmed(r)
    BY <1>5, ExecuteKeeps DEF Confirmed, At
<1>6. CASE Declined(r)
    BY <1>1, <1>6, FinallyKeeps DEF Declined
<1>7. CASE NextStatement(r)
    BY <1>1, <1>7, SendKeeps DEF NextStatement, GoesOn, At, Live
<1>8. CASE Answered(r)
    BY <1>1, <1>2, <1>8, SucceedKeeps DEF Answered, At, Live
<1>9. CASE Fails(r)
    BY <1>1, <1>2, <1>9, CatchKeeps DEF Fails, At, Live
<1>10. CASE Looked(r) \/ Dropped(r)
    BY <1>1, <1>10, FinallyKeeps DEF Looked, Dropped
<1> QED
    BY <1>3, <1>4, <1>5, <1>6, <1>7, <1>8, <1>9, <1>10 DEF Continue

LEMMA StartKeeps ==
    ASSUME RunnerInv, NEW r \in Runs, NEW t \in Tabs, NEW s \in BOOLEAN, NEW n \in 1..MaxStatements,
           Start(r, t, s, n)
    PROVE  RunnerInv'
<1> USE DEF RunnerInv
<1> DEFINE x == [pc |-> "connecting", gen |-> gen + 1, tab |-> t, script |-> s, left |-> n,
                 cancelled |-> FALSE, asked |-> FALSE]
<1>1. gen \in Nat /\ gen + 1 \in 0..MaxGen /\ n \in 0..MaxStatements /\ n > 0 /\ gen' = gen + 1
    BY BoundAssumption DEF Start, TypeOK
<1>2. x \in RunRecords /\ x.pc = "connecting" /\ x.gen = gen + 1 /\ x.left = n /\ x.cancelled = FALSE
    BY <1>1 DEF RunRecords, Awaits
<1>3. run' = [run EXCEPT ![r] = x]
    BY DEF Start
<1> HIDE DEF x
<1>4. run'[r] = x /\ \A q \in Runs \ {r} : run'[q] = run[q]
    BY <1>3 DEF TypeOK
<1>5. TypeOK'
    BY <1>1, <1>2, <1>3 DEF TypeOK, Start
<1>6. GateHasOwner'
    BY <1>1, <1>2, <1>4 DEF GateHasOwner, Live, Current
<1>7. \A q \in Runs \ {r} : run[q].gen < gen + 1
    <2>1. \A q \in Runs : run[q].gen \in Nat /\ run[q].gen <= gen
        BY RunShape DEF GensPassed
    <2> QED
        BY <1>1, <2>1
<1>8. \A q \in Runs \ {r} : run[q].gen <= gen + 1
    <2>1. \A q \in Runs : run[q].gen \in Nat /\ run[q].gen <= gen
        BY RunShape DEF GensPassed
    <2> QED
        BY <1>1, <2>1
<1>9. GensPassed'
    BY <1>1, <1>2, <1>4, <1>8 DEF GensPassed
<1>10. FlagIsStale'
    BY DEF FlagIsStale, Start
<1>11. TokenIsStale'
    BY <1>1, <1>2, <1>4, <1>7 DEF TokenIsStale, Live
<1>12. LeftToSend'
    BY <1>1, <1>2, <1>4 DEF LeftToSend
<1> QED
    BY <1>5, <1>6, <1>9, <1>10, <1>11, <1>12

(* The next generation supersedes every run. *)
LEMMA AllSuperseded ==
    ASSUME RunnerInv, NEW r \in Runs
    PROVE  gen \in Nat /\ run[r].gen < gen + 1 /\ run[r].gen <= gen + 1
<1>1. gen \in Nat /\ run[r].gen \in Nat /\ run[r].gen <= gen
    BY RunShape DEF RunnerInv, GensPassed
<1> QED
    BY <1>1

LEMMA RefuseKeeps ==
    ASSUME RunnerInv, Refuse
    PROVE  RunnerInv'
<1>1. gen' = gen + 1 /\ run' = run /\ ~ gate' /\ ~ cancelFlag'
    BY DEF Refuse
<1>2. TypeOK'
    <2>1. gen' \in 0..MaxGen
        BY BoundAssumption DEF Refuse, RunnerInv, TypeOK
    <2> QED
        BY <2>1 DEF Refuse, RunnerInv, TypeOK
<1>3. GensPassed' /\ TokenIsStale'
    BY <1>1, AllSuperseded DEF RunnerInv, GensPassed, TokenIsStale, Live
<1> QED
    BY <1>1, <1>2, <1>3 DEF RunnerInv, GateHasOwner, FlagIsStale, LeftToSend

LEMMA StopKeeps ==
    ASSUME RunnerInv, Stop
    PROVE  RunnerInv'
<1> USE DEF RunnerInv
<1>1. gen' = gen + 1 /\ gate' = FALSE
    BY DEF Stop
<1>2. run' \in [Runs -> RunRecords]
    <2> SUFFICES ASSUME NEW r \in Runs
                 PROVE  [run[r] EXCEPT !.cancelled = @ \/ (Live(r) /\ r = token),
                                       !.asked = @ \/ (At(r, "sent") /\ run[r].tab = running)] \in RunRecords
        BY DEF Stop, Cancelled
    <2>1. run[r] \in RunRecords
        BY DEF TypeOK
    <2> QED
        BY <2>1 DEF RunRecords
<1>3. \A r \in Runs : /\ run'[r].pc = run[r].pc /\ run'[r].gen = run[r].gen
                      /\ run'[r].left = run[r].left
                      /\ run'[r].cancelled => run[r].cancelled \/ Live(r)
    <2> TAKE r \in Runs
    <2>1. run[r] \in RunRecords
        BY DEF TypeOK
    <2>2. run'[r] = [run[r] EXCEPT !.cancelled = @ \/ (Live(r) /\ r = token),
                                   !.asked = @ \/ (At(r, "sent") /\ run[r].tab = running)]
        BY DEF Stop, Cancelled
    <2> QED
        BY <2>1, <2>2 DEF RunRecords
<1>4. TypeOK'
    <2>1. gen' \in 0..MaxGen
        BY BoundAssumption DEF Stop, TypeOK
    <2> QED
        BY <1>2, <2>1 DEF Stop, TypeOK
<1>5. GensPassed' /\ FlagIsStale'
    BY <1>1, <1>3, AllSuperseded DEF GensPassed, FlagIsStale
<1>6. TokenIsStale'
    BY <1>1, <1>3, AllSuperseded DEF TokenIsStale, Live
<1>7. LeftToSend'
    BY <1>3 DEF LeftToSend
<1> QED
    BY <1>1, <1>4, <1>5, <1>6, <1>7 DEF GateHasOwner

LEMMA ToolsKeep ==
    ASSUME RunnerInv, NEW t \in Tools, ToolStarts(t) \/ ToolEnds(t)
    PROVE  RunnerInv'
<1>1. TypeOK'
    BY DEF ToolStarts, ToolEnds, RunnerInv, TypeOK
<1>2. UNCHANGED <<gen, cancelFlag, run>> /\ (gate' => gate)
    BY DEF ToolStarts, ToolEnds
<1> QED
    BY <1>1, <1>2 DEF RunnerInv, GateHasOwner, GensPassed, FlagIsStale, TokenIsStale, LeftToSend, Live, Current

LEMMA RunnerStep == RunnerInv /\ [Next]_vars => RunnerInv'
<1> SUFFICES ASSUME RunnerInv, [Next]_vars PROVE RunnerInv'
    OBVIOUS
<1>1. ASSUME NEW r \in Runs, NEW t \in Tabs, Start(r, t, FALSE, 1)
      PROVE  RunnerInv'
    <2>1. 1 \in 1..MaxStatements
        BY BoundAssumption
    <2> QED
        BY <1>1, <2>1, StartKeeps
<1>2. ASSUME NEW r \in Runs, NEW t \in Tabs, NEW n \in 1..MaxStatements, Start(r, t, TRUE, n)
      PROVE  RunnerInv'
    BY <1>2, StartKeeps
<1>3. CASE \E r \in Runs : Continue(r)
    BY <1>3, ContinueKeeps
<1>4. CASE Refuse \/ Stop
    BY <1>4, RefuseKeeps, StopKeeps
<1>5. CASE \E t \in Tools : ToolStarts(t) \/ ToolEnds(t)
    BY <1>5, ToolsKeep
<1>6. CASE UNCHANGED vars
    BY <1>6 DEF vars, RunnerInv, TypeOK, GateHasOwner, GensPassed, FlagIsStale, TokenIsStale,
        LeftToSend, Live, Current
<1> QED
    BY <1>1, <1>2, <1>3, <1>4, <1>5, <1>6 DEF Next

-----------------------------------------------------------------------------

(* The flags of executeQuery and the locals of its runs keep their types,  *)
(* at every await.                                                         *)
THEOREM RunnerTypes == Spec => []TypeOK
<1>1. RunnerInv => TypeOK
    BY DEF RunnerInv
<1> QED
    BY <1>1, RunnerInit, RunnerStep, PTL DEF Spec

(* A closed gate is held by a run of the latest generation, so that it     *)
(* cannot stay closed for ever with nobody to open it.                     *)
THEOREM GateIsHeld == Spec => []GateHasOwner
<1>1. RunnerInv => GateHasOwner
    BY DEF RunnerInv
<1> QED
    BY <1>1, RunnerInit, RunnerStep, PTL DEF Spec

-----------------------------------------------------------------------------
(* What a step may not do                                                  *)

(* A current run has neither been stopped nor is the flag raised. *)
LEMMA CurrentIsClean ==
    ASSUME RunnerInv, NEW r \in Runs, Live(r), Current(r)
    PROVE  ~ cancelFlag /\ ~ run[r].cancelled
<1>1. ~ (run[r].gen < gen)
    BY RunShape DEF RunnerInv, Current
<1> QED
    BY <1>1 DEF RunnerInv, FlagIsStale, TokenIsStale

(* Only a run that ends opens the gate, and only its holder. *)
LEMMA EndOpensGate ==
    ASSUME RunnerInv, NEW r \in Runs, Continue(r), gate, ~ gate'
    PROVE  Live(r) /\ Current(r) /\ ~ Live(r)'
<1>1. Live(r)
    BY DEF Continue, Connected, ConnectFails, Confirmed, Declined, NextStatement, Answered, Fails, Looked,
        Dropped, At, Live
<1>2. \E b : Finally(r, b)
    BY DEF Continue, Connected, ConnectFails, Confirmed, Declined, NextStatement, Answered, Fails, Looked,
        Dropped, Execute, Catch, Succeed, Await
<1>3. Current(r) /\ run' = [run EXCEPT ![r] = Idle(r)]
    BY <1>2 DEF Finally
<1>4. Idle(r).pc = "idle"
    <2>1. run[r] \in RunRecords
        BY DEF RunnerInv, TypeOK
    <2> QED
        BY <2>1 DEF Idle, RunRecords
<1> QED
    BY <1>1, <1>3, <1>4 DEF Live, RunnerInv, TypeOK

(* The gate is opened by the run that holds it, by Stop or by a handler,   *)
(* and never by the late end of an abandoned run.                          *)
THEOREM AbandonedRunsLeaveTheGate == Spec => OnlyOwnerOpensGate
<1> DEFINE A == gate /\ ~ gate' =>
                    \/ gen' # gen
                    \/ tools' # tools
                    \/ \E r \in Runs : Live(r) /\ Current(r) /\ ~ Live(r)'
<1>1. RunnerInv /\ [Next]_vars => [A]_vars
    <2> SUFFICES ASSUME RunnerInv, Next, gate, ~ gate', gen' = gen, tools' = tools
                 PROVE  \E r \in Runs : Live(r) /\ Current(r) /\ ~ Live(r)'
        OBVIOUS
    <2>1. gen' # gen + 1
        BY DEF RunnerInv, TypeOK
    <2>2. \E r \in Runs : Continue(r)
        BY <2>1 DEF Next, Start, Refuse, Stop, ToolStarts, ToolEnds
    <2> QED
        BY <2>2, EndOpensGate
<1>2. OnlyOwnerOpensGate <=> [][A]_vars
    BY DEF OnlyOwnerOpensGate
<1> HIDE DEF A
<1> QED
    BY <1>1, <1>2, RunnerInit, RunnerStep, PTL DEF Spec

(* A step of one run leaves the others where they are. *)
LEMMA OthersStay ==
    ASSUME RunnerInv, NEW r \in Runs, NEW q \in Runs, q # r, Continue(r)
    PROVE  run'[q] = run[q]
    BY DEF Continue, Connected, ConnectFails, Confirmed, Declined, NextStatement, Answered, Fails, Looked,
        Dropped, Execute, Catch, Succeed, Await, Finally, Send, RunnerInv, TypeOK

LEMMA EndShows ==
    ASSUME RunnerInv, NEW r \in Runs, Continue(r), Live(r), Current(r), ~ At(r, "confirming"), ~ Live(r)'
    PROVE  shown' = r
<1>1. ~ cancelFlag /\ ~ run[r].cancelled
    BY CurrentIsClean
<1>2. ~ Send(r) /\ \A l \in Awaits, b \in {executing, TRUE} : ~ Await(r, l, b)
    <2>1. run[r] \in RunRecords /\ run \in [Runs -> RunRecords]
        BY DEF RunnerInv, TypeOK
    <2>2. ASSUME NEW x \in RunRecords, x.pc # "idle", run' = [run EXCEPT ![r] = x]
          PROVE  FALSE
        BY <2>1, <2>2 DEF Live
    <2>3. \A l \in Awaits : [run[r] EXCEPT !.pc = l] \in RunRecords /\ [run[r] EXCEPT !.pc = l].pc # "idle"
        BY <2>1 DEF RunRecords, Awaits
    <2>4. \A l \in Awaits, b \in {executing, TRUE} : ~ Await(r, l, b)
        BY <2>2, <2>3 DEF Await
    <2>5. run'[r].pc = "idle"
        BY DEF Live
    <2>6. ~ Send(r)
        <3> DEFINE x == [run[r] EXCEPT !.pc = "sent", !.left = @ - 1, !.asked = FALSE]
        <3>1. x.pc = "sent"
            BY <2>1 DEF RunRecords
        <3>2. Send(r) => run'[r] = x
            BY <2>1 DEF Send
        <3> HIDE DEF x
        <3> QED
            BY <2>5, <3>1, <3>2
    <2> QED
        BY <2>4, <2>6
<1>3. ASSUME NEW s, NEW b \in {executing, TRUE}, Catch(r, s, b) \/ Succeed(r, s, b)
      PROVE  shown' = r
    BY <1>1, <1>2, <1>3 DEF Catch, Succeed, Awaits
<1>4. CASE Connected(r)
    <2>1. ~ Await(r, "confirming", executing)
        BY <1>2 DEF Awaits
    <2>2. Execute(r)
        BY <1>4, <2>1 DEF Connected
    <2> QED
        BY <2>2, <1>2, <1>3 DEF Execute
<1>5. CASE ConnectFails(r)
    BY <1>5, <1>3 DEF ConnectFails
<1>6. CASE NextStatement(r)
    BY <1>6, <1>2 DEF NextStatement
<1>7. CASE Answered(r)
    BY <1>7, <1>3 DEF Answered
<1>8. CASE Fails(r)
    BY <1>8, <1>3 DEF Fails
<1>9. CASE Looked(r) \/ Dropped(r)
    BY <1>9 DEF Looked, Dropped
<1> QED
    BY <1>4, <1>5, <1>6, <1>7, <1>8, <1>9 DEF Continue, Confirmed, Declined

(* A run that nobody stopped or superseded shows its outcome when it ends. *)
THEOREM NoRunEndsInSilence == Spec => OutcomeShown
<1> DEFINE A == \A r \in Runs :
                    Live(r) /\ Current(r) /\ ~ At(r, "confirming") /\ ~ Live(r)' => shown' = r
<1>1. RunnerInv /\ [Next]_vars => [A]_vars
    <2> SUFFICES ASSUME RunnerInv, Next, NEW r \in Runs,
                        Live(r), Current(r), ~ At(r, "confirming"), ~ Live(r)'
                 PROVE  shown' = r
        OBVIOUS
    <2>1. CASE \E q \in Runs : Continue(q)
        <3>1. PICK q \in Runs : Continue(q)
            BY <2>1
        <3>2. q = r
            BY <3>1, OthersStay DEF Live
        <3> QED
            BY <3>1, <3>2, EndShows
    <2>2. CASE Stop
        <3>1. run[r] \in RunRecords
            BY DEF RunnerInv, TypeOK
        <3>2. run'[r] = [run[r] EXCEPT !.cancelled = @ \/ (Live(r) /\ r = token),
                                       !.asked = @ \/ (At(r, "sent") /\ run[r].tab = running)]
            BY <2>2 DEF Stop, Cancelled
        <3> QED
            BY <3>1, <3>2 DEF Live, RunRecords
    <2>3. CASE Refuse \/ \E t \in Tools : ToolStarts(t) \/ ToolEnds(t)
        BY <2>3 DEF Refuse, ToolStarts, ToolEnds, Live
    <2>4. ASSUME NEW q \in Runs, NEW t, NEW s, NEW n, Start(q, t, s, n)
          PROVE  Live(r)'
        BY <2>4 DEF Start, Live, RunnerInv, TypeOK
    <2> QED
        BY <2>1, <2>2, <2>3, <2>4 DEF Next
<1>2. OutcomeShown <=> [][A]_vars
    BY DEF OutcomeShown
<1> HIDE DEF A
<1> QED
    BY <1>1, <1>2, RunnerInit, RunnerStep, PTL DEF Spec

(* A script that was stopped sends no further statement, whatever has been *)
(* started after it.                                                       *)
THEOREM StoppedScriptsEnd == Spec => StoppedScriptEnds
<1> DEFINE A == \A r \in Runs :
                    run[r].script /\ run[r].cancelled /\ Live(r)' => run'[r].left = run[r].left
<1>1. RunnerInv /\ [Next]_vars => [A]_vars
    <2> SUFFICES ASSUME RunnerInv, Next, NEW r \in Runs, run[r].script, run[r].cancelled, Live(r)'
                 PROVE  run'[r].left = run[r].left
        OBVIOUS
    <2>1. Live(r) /\ run[r] \in RunRecords /\ run \in [Runs -> RunRecords]
        BY DEF RunnerInv, TypeOK, TokenIsStale
    <2>2. CASE \E q \in Runs : Continue(q)
        <3>1. PICK q \in Runs : Continue(q)
            BY <2>2
        <3>2. CASE q # r
            BY <3>1, <3>2, OthersStay
        <3>3. CASE q = r
            <4>1. ~ GoesOn(r) /\ (run[r].script /\ run[r].cancelled)
                BY DEF GoesOn
            <4>2. ASSUME NEW s, NEW b, Catch(r, s, b) \/ Succeed(r, s, b)
                  PROVE  (\E c : Finally(r, c)) \/ (\E l, c : Await(r, l, c))
                BY <4>2 DEF Catch, Succeed
            <4>3. Execute(r) => (\E c : Finally(r, c)) \/ (\E l, c : Await(r, l, c))
                BY <4>1, <4>2 DEF Execute
            <4>4. (\E b : Finally(r, b)) \/ (\E l, b : Await(r, l, b))
                BY <3>1, <3>3, <4>1, <4>2, <4>3 DEF Continue, Connected, ConnectFails, Confirmed,
                    Declined, NextStatement, Answered, Fails, Looked, Dropped
            <4>5. ASSUME NEW b, Finally(r, b)
                  PROVE  FALSE
                BY <2>1, <4>5 DEF Finally, Idle, Live, RunRecords
            <4>6. ASSUME NEW l, NEW b, Await(r, l, b)
                  PROVE  run'[r].left = run[r].left
                BY <2>1, <4>6 DEF Await, RunRecords
            <4> QED
                BY <4>4, <4>5, <4>6
        <3> QED
            BY <3>2, <3>3
    <2>3. CASE Stop
        <3>1. run'[r] = [run[r] EXCEPT !.cancelled = @ \/ (Live(r) /\ r = token),
                                       !.asked = @ \/ (At(r, "sent") /\ run[r].tab = running)]
            BY <2>3 DEF Stop, Cancelled
        <3> QED
            BY <2>1, <3>1 DEF RunRecords
    <2>4. CASE Refuse \/ \E t \in Tools : ToolStarts(t) \/ ToolEnds(t)
        BY <2>4 DEF Refuse, ToolStarts, ToolEnds
    <2>5. ASSUME NEW q \in Runs, NEW t, NEW s, NEW n, Start(q, t, s, n)
          PROVE  run'[r] = run[r]
        BY <2>1, <2>5 DEF Start, Live
    <2> QED
        BY <2>2, <2>3, <2>4, <2>5 DEF Next
<1>2. StoppedScriptEnds <=> [][A]_vars
    BY DEF StoppedScriptEnds
<1> HIDE DEF A
<1> QED
    BY <1>1, <1>2, RunnerInit, RunnerStep, PTL DEF Spec

-----------------------------------------------------------------------------
(* Overlapping runs                                                        *)

(* Of the latest generation there is one run at most. *)
CurrentHasToken == \A r \in Runs : Live(r) /\ Current(r) => token = r

OverlapInv == OnlyStoppedOverlap /\ CurrentHasToken

(* A step of a run or of a handler neither starts a run nor supersedes one. *)
LEMMA StaysCurrent ==
    ASSUME RunnerInv, NEW q \in Runs, Continue(q), NEW r \in Runs, Live(r)'
    PROVE  /\ Live(r) /\ UNCHANGED <<gen, token, tools>>
           /\ run'[r].gen = run[r].gen /\ (run[r].cancelled => run'[r].cancelled)
<1>1. run[r] \in RunRecords /\ run \in [Runs -> RunRecords]
    BY DEF RunnerInv, TypeOK
<1>2. UNCHANGED <<gen, token, tools>>
    BY DEF Continue, Connected, ConnectFails, Confirmed, Declined, NextStatement, Answered, Fails,
        Looked, Dropped
<1>3. CASE q # r
    BY <1>2, <1>3, OthersStay DEF Live
<1>4. CASE q = r
    <2>1. Live(r)
        BY <1>4 DEF Continue, Connected, ConnectFails, Confirmed, Declined, NextStatement, Answered,
            Fails, Looked, Dropped, At, Live
    <2>2. (\E b : Finally(r, b)) \/ (\E l, b : Await(r, l, b)) \/ Send(r)
        BY <1>4 DEF Continue, Connected, ConnectFails, Confirmed, Declined, NextStatement,
            Answered, Fails, Looked, Dropped, Execute, Catch, Succeed
    <2>3. ASSUME NEW b, Finally(r, b)
          PROVE  FALSE
        BY <1>1, <2>3 DEF Finally, Idle, Live, RunRecords
    <2>4. ASSUME NEW l, NEW b, Await(r, l, b)
          PROVE  run'[r].gen = run[r].gen /\ run'[r].cancelled = run[r].cancelled
        BY <1>1, <2>4 DEF Await, RunRecords
    <2>5. CASE Send(r)
        BY <1>1, <2>5 DEF Send, RunRecords
    <2> QED
        BY <1>2, <2>1, <2>2, <2>3, <2>4, <2>5
<1> QED
    BY <1>3, <1>4

LEMMA OverlapStep ==
    ASSUME RunnerInv, OnlyStoppedOverlap, CurrentHasToken, HistoryNext
    PROVE  OnlyStoppedOverlap'
<1> SUFFICES ASSUME NEW r \in Runs, r \notin opened', Live(r)', ~ run'[r].cancelled
             PROVE  gate' /\ Current(r)' /\ token' = r
    BY DEF OnlyStoppedOverlap
<1>0. Next /\ r \notin opened /\ ~ (ToolOpensGate /\ Current(r))
    BY DEF HistoryNext
<1>1. run[r] \in RunRecords /\ run \in [Runs -> RunRecords]
    BY DEF RunnerInv, TypeOK
<1>2. ASSUME NEW q \in Runs, Continue(q)
      PROVE  gate' /\ Current(r)' /\ token' = r
    <2>1. Live(r) /\ UNCHANGED <<gen, token>> /\ run'[r].gen = run[r].gen /\ ~ run[r].cancelled
        BY <1>2, StaysCurrent
    <2>2. gate /\ Current(r) /\ token = r
        BY <1>0, <2>1 DEF OnlyStoppedOverlap
    <2>3. gate'
        <3>1. CASE q = r
            BY <1>2, <2>2, <3>1, EndOpensGate
        <3>2. CASE q # r
            <4>1. Live(q)
                BY <1>2 DEF Continue, Connected, ConnectFails, Confirmed, Declined, NextStatement, Answered,
                    Fails, Looked, Dropped, At, Live
            <4>2. ~ Current(q)
                BY <2>2, <3>2, <4>1 DEF CurrentHasToken
            <4> QED
                BY <1>2, <2>2, <4>2, EndOpensGate
        <3> QED
            BY <3>1, <3>2
    <2> QED
        BY <2>1, <2>2, <2>3 DEF Current
<1>3. ASSUME NEW q \in Runs, NEW t, NEW s, NEW n, Start(q, t, s, n)
      PROVE  gate' /\ Current(r)' /\ token' = r
    <2>1. q = r
        <3>1. q # r => run'[r] = run[r]
            BY <1>1, <1>3 DEF Start
        <3> QED
            BY <1>0, <1>3, <3>1 DEF Start, Live, OnlyStoppedOverlap
    <2>2. run'[r].gen = gen + 1
        BY <1>1, <1>3, <2>1 DEF Start
    <2> QED
        BY <1>3, <2>1, <2>2 DEF Start, Current
<1>4. ~ Stop
    <2> SUFFICES ASSUME Stop
                 PROVE  FALSE
        OBVIOUS
    <2>1. run'[r] = [run[r] EXCEPT !.cancelled = @ \/ (Live(r) /\ r = token),
                                   !.asked = @ \/ (At(r, "sent") /\ run[r].tab = running)]
        BY DEF Stop, Cancelled
    <2>2. run'[r].pc = run[r].pc /\ run'[r].cancelled = (run[r].cancelled \/ (Live(r) /\ r = token))
        BY <1>1, <2>1 DEF RunRecords
    <2> QED
        BY <1>0, <2>2 DEF Live, OnlyStoppedOverlap
<1>5. ~ Refuse
    BY <1>0 DEF Refuse, Live, OnlyStoppedOverlap
<1>6. ASSUME NEW t \in Tools, ToolStarts(t) \/ ToolEnds(t)
      PROVE  gate' /\ Current(r)' /\ token' = r
    <2>1. UNCHANGED <<gen, token, run>>
        BY <1>6 DEF ToolStarts, ToolEnds
    <2>2. gate /\ Current(r) /\ token = r
        BY <1>0, <2>1 DEF OnlyStoppedOverlap, Live
    <2>3. ~ ToolEnds(t)
        <3>1. ToolEnds(t) => ToolOpensGate
            BY <2>2 DEF ToolEnds, ToolOpensGate
        <3> QED
            BY <1>0, <2>2, <3>1
    <2> QED
        BY <1>6, <2>1, <2>2, <2>3 DEF ToolStarts, Current
<1> QED
    BY <1>0, <1>2, <1>3, <1>4, <1>5, <1>6 DEF Next

LEMMA TokenStep ==
    ASSUME RunnerInv, CurrentHasToken, Next
    PROVE  CurrentHasToken'
<1> SUFFICES ASSUME NEW r \in Runs, Live(r)', Current(r)'
             PROVE  token' = r
    BY DEF CurrentHasToken
<1>1. run \in [Runs -> RunRecords] /\ run[r].gen # gen + 1
    <2>1. run[r].gen \in Nat /\ gen \in Nat /\ run[r].gen <= gen
        BY RunShape DEF RunnerInv, GensPassed
    <2> QED
        BY <2>1 DEF RunnerInv, TypeOK
<1>2. ASSUME NEW q \in Runs, Continue(q)
      PROVE  token' = r
    BY <1>2, StaysCurrent DEF CurrentHasToken, Current
<1>3. ASSUME NEW q \in Runs, NEW t, NEW s, NEW n, Start(q, t, s, n)
      PROVE  token' = r
    <2>1. q # r => run'[r] = run[r]
        BY <1>1, <1>3 DEF Start
    <2> QED
        BY <1>1, <1>3, <2>1 DEF Start, Current
<1>4. ~ Stop
    <2> SUFFICES ASSUME Stop
                 PROVE  FALSE
        OBVIOUS
    <2>1. run'[r] = [run[r] EXCEPT !.cancelled = @ \/ (Live(r) /\ r = token),
                                   !.asked = @ \/ (At(r, "sent") /\ run[r].tab = running)]
        BY DEF Stop, Cancelled
    <2>2. run'[r].gen = run[r].gen /\ gen' = gen + 1
        BY <1>1, <2>1 DEF RunRecords, Stop
    <2> QED
        BY <1>1, <2>2 DEF Current
<1>5. ~ Refuse
    <2>1. Refuse => gen' = gen + 1 /\ run' = run
        BY DEF Refuse
    <2> QED
        BY <1>1, <2>1 DEF Current
<1>6. ASSUME NEW t \in Tools, ToolStarts(t) \/ ToolEnds(t)
      PROVE  token' = r
    BY <1>6 DEF ToolStarts, ToolEnds, CurrentHasToken, Live, Current
<1> QED
    BY <1>2, <1>3, <1>4, <1>5, <1>6 DEF Next

(* "A duplicate press is dropped rather than double-executed": runs of     *)
(* executeQuery overlap only with runs that were stopped, or whose gate    *)
(* Save or the optimizer opened at its end.                                *)
THEOREM RunsOverlapOnlyWhenStopped == HistorySpec => []OnlyStoppedOverlap
<1> DEFINE hvars == <<vars, opened>>
           IInv == RunnerInv /\ OverlapInv
<1>1. HistoryInit => IInv
    <2>1. ASSUME Init, NEW r \in Runs
          PROVE  ~ Live(r)
        BY <2>1 DEF Init, Live
    <2> QED
        BY <2>1, RunnerInit DEF HistoryInit, OverlapInv, OnlyStoppedOverlap, CurrentHasToken
<1>2. IInv /\ [HistoryNext]_hvars => IInv'
    <2> SUFFICES ASSUME IInv, [HistoryNext]_hvars
                 PROVE  IInv'
        OBVIOUS
    <2>1. CASE HistoryNext
        <3>1. Next
            BY <2>1 DEF HistoryNext
        <3> QED
            BY <2>1, <3>1, RunnerStep, OverlapStep, TokenStep DEF OverlapInv
    <2>2. CASE UNCHANGED hvars
        <3>1. RunnerInv'
            BY <2>2, RunnerStep
        <3> QED
            BY <2>2, <3>1 DEF vars, OverlapInv, OnlyStoppedOverlap, CurrentHasToken, Live, Current
    <2> QED
        BY <2>1, <2>2
<1>3. IInv => OnlyStoppedOverlap
    BY DEF OverlapInv
<1> QED
    BY <1>1, <1>2, <1>3, PTL DEF HistorySpec

-----------------------------------------------------------------------------
(* What is fetched, and what waits for it. *)
Answers == SUBSET Schemas
RequestRecords == [node : Nodes, visit : Nat, out : Answers]
Waits == [all : BOOLEAN, requests : SUBSET Requests]

(* Lists and selections are of the connections and their databases, and    *)
(* whatever is known or waited for has been requested.                     *)
ListsTyped ==
    /\ visit \in Nat
    /\ chosen \subseteq Targets
    /\ lists \in [Nodes -> Answers \cup {Nil}]
    /\ known \in [Nodes -> Requests \cup {Nil}]
    /\ request \in [Requests -> RequestRecords \cup {Nil}]
    /\ waiting \subseteq Waits
    /\ \A n \in Nodes : known[n] # Nil => request[known[n]] \in RequestRecords
    /\ \A w \in waiting : \A q \in w.requests : request[q] \in RequestRecords

(* What a run still has to do, and what its workers do, are targets of its *)
(* own that have something to execute.                                     *)
RoundTyped(r) ==
    /\ DOMAIN round[r] = {"visit", "of", "length", "todo", "busy"}
    /\ round[r].visit \in 0 .. visit
    /\ round[r].of \subseteq Targets
    /\ round[r].todo \subseteq round[r].of
    /\ DOMAIN round[r].busy \subseteq round[r].of \ round[r].todo
    /\ \A t \in round[r].todo \cup DOMAIN round[r].busy : round[r].length[t[1]] # 0
    /\ Cardinality(DOMAIN round[r].busy) <= Width

RoundsTyped == DOMAIN round = Rounds /\ \A r \in Rounds : RoundTyped(r)

(* Of two runs under way both have met another one. *)
MetIsMixed == \A r, s \in Rounds : r # s /\ UnderWay(r) /\ UnderWay(s) => r \in mixed

(* The parts of the property. *)
SaysSo == \A r \in Rounds \ mixed : UnderWay(r) => isExecuting

(* A run that is under way, or whose rows are still shown. *)
StillShown(r) == UnderWay(r) \/ \E t \in DOMAIN rows : rows[t].round = r

RowsAreOf(r) ==
    /\ DOMAIN rows = round[r].of
    /\ \A t \in DOMAIN rows :
        /\ rows[t].round = r /\ rows[t].of = t
        /\ (rows[t].status = "running")
             <=> (\/ t \in round[r].todo \cup DOMAIN round[r].busy
                  \/ round[r].length[t[1]] = 0)

RowsMatch == \A r \in Rounds \ mixed : round[r].visit = visit /\ StillShown(r) => RowsAreOf(r)
(* The rows of a run that another one runs beside are not looked at. *)
OthersMixed == \A r, s \in Rounds : UnderWay(r) /\ r # s /\ (\E t \in DOMAIN rows : rows[t].round = s) => s \in mixed

(* A row is that of some run. *)
RowsTyped == \A t \in DOMAIN rows : rows[t].round \in Rounds

(* The inductive invariant. *)
MultiInv ==
    /\ ListsTyped /\ RoundsTyped
    /\ MetIsMixed /\ SaysSo
    /\ RowsMatch /\ OthersMixed /\ RowsTyped

-----------------------------------------------------------------------------
(* A fetch gives each connection a request of its own, and changes none that*)
(* is known.                                                                *)
LEMMA FetchKeeps ==
    ASSUME ListsTyped, NEW nodes \in SUBSET Nodes, Fetch(nodes)
    PROVE  /\ known' \in [Nodes -> Requests \cup {Nil}]
           /\ request' \in [Requests -> RequestRecords \cup {Nil}]
           /\ lists' = lists
           /\ \A n \in nodes : known'[n] \in Requests
           /\ \A n \in Nodes : known'[n] # Nil => request'[known'[n]] \in RequestRecords
           /\ \A q \in Requests : request[q] \in RequestRecords => request'[q] \in RequestRecords
<1> DEFINE new == {n \in nodes : known[n] = Nil}
           free == {q \in Requests : request[q] = Nil}
<1>1. PICK id \in Injection(new, free) :
        /\ known' = [n \in Nodes |-> IF n \in new THEN id[n] ELSE known[n]]
        /\ request' = [q \in Requests |->
                         IF q \in Range(id)
                         THEN [node |-> CHOOSE n \in new : id[n] = q, visit |-> visit,
                               out |-> {}]
                         ELSE request[q]]
        /\ UNCHANGED lists
    BY DEF Fetch
<1>2. id \in [new -> free] /\ new \subseteq Nodes /\ free \subseteq Requests
    BY DEF Injection
<1>3. \A q \in Range(id) :
        [node |-> CHOOSE n \in new : id[n] = q, visit |-> visit, out |-> {}] \in RequestRecords
    BY <1>2 DEF Range, RequestRecords, Answers, ListsTyped
<1> HIDE DEF new, free
<1>4. known' \in [Nodes -> Requests \cup {Nil}]
    BY <1>1, <1>2 DEF ListsTyped
<1>5. request' \in [Requests -> RequestRecords \cup {Nil}]
    BY <1>1, <1>3 DEF ListsTyped
<1>6. \A n \in nodes : known'[n] \in Requests
    BY <1>1, <1>2 DEF new, ListsTyped
<1>7. \A q \in Requests : request[q] \in RequestRecords => request'[q] \in RequestRecords
    BY <1>1, <1>3
<1>8. \A n \in Nodes : known'[n] # Nil => request'[known'[n]] \in RequestRecords
    BY <1>1, <1>2, <1>3, <1>7 DEF ListsTyped, Range
<1> QED
    BY <1>1, <1>4, <1>5, <1>6, <1>7, <1>8

(* Steps that leave the lists alone. *)
LEMMA NoFetchTyped ==
    ASSUME ListsTyped, UNCHANGED <<listVars, waiting>>, visit' \in Nat, chosen' \subseteq Targets
    PROVE  ListsTyped'
BY DEF ListsTyped, listVars

(* A fetch keeps the types of the lists. *)
LEMMA FetchTyped ==
    ASSUME ListsTyped, NEW nodes \in SUBSET Nodes, Fetch(nodes),
           visit' = visit, chosen' \subseteq Targets,
           NEW new, new \subseteq Waits, waiting' \subseteq waiting \cup new,
           \A w \in new : \A q \in w.requests : request'[q] \in RequestRecords
    PROVE  ListsTyped'
<1>1. \A w \in waiting : w.requests \subseteq Requests
    BY DEF ListsTyped, Waits
<1>2. \A w \in waiting' : \A q \in w.requests : request'[q] \in RequestRecords
    BY <1>1, FetchKeeps DEF ListsTyped
<1>3. lists' \in [Nodes -> Answers \cup {Nil}]
    BY FetchKeeps DEF ListsTyped
<1>4. waiting' \subseteq Waits /\ visit' \in Nat
    BY DEF ListsTyped
<1> QED
    BY <1>2, <1>3, <1>4, FetchKeeps DEF ListsTyped

(* Every step keeps the types of the lists and of the selection.            *)
LEMMA ListsStep ==
    ASSUME ListsTyped, MultiNext
    PROVE  ListsTyped'
<1>1. CASE Open
    BY <1>1 DEF Open, ListsTyped
<1>2. CASE Leave \/ Toggle
    <2>1. \A n \in Nodes : Offered(n) \subseteq Schemas
        BY MultiAssumption DEF Offered, ListsTyped, Answers
    <2> QED
        <3>1. visit' = visit /\ UNCHANGED <<listVars, waiting>>
            BY <1>2 DEF Leave, Toggle
        <3>2. chosen' \subseteq Targets
            <4>1. \A n \in Nodes : \A x \in Offered(n) : <<n, x>> \in Targets
                BY <2>1 DEF Targets
            <4>2. chosen \subseteq Targets
                BY DEF ListsTyped
            <4>3. CASE Leave
                BY <4>2, <4>3 DEF Leave
            <4>4. CASE Toggle
                <5>1. PICK n \in Nodes : \E x \in Offered(n) :
                        chosen' = IF <<n, x>> \in chosen THEN chosen \ {<<n, x>>}
                                  ELSE chosen \cup {<<n, x>>}
                    BY <4>4 DEF Toggle
                <5>2. PICK t \in Targets : chosen' \subseteq chosen \cup {t}
                    BY <4>1, <5>1
                <5> QED BY <4>2, <5>2
            <4> QED BY <1>2, <4>3, <4>4
        <3>3. visit' \in Nat
            BY <3>1 DEF ListsTyped
        <3> QED BY <3>1, <3>2, <3>3, NoFetchTyped
<1>3. CASE SelectAll
    <2>1. CASE chosen # {}
        BY <1>3, <2>1, NoFetchTyped DEF SelectAll, ListsTyped
    <2>2. CASE chosen = {}
        <3>1. Fetch(Nodes) /\ waiting' = waiting \cup {[all |-> TRUE, requests |-> Range(known')]}
              /\ chosen' = chosen /\ visit' = visit
            BY <1>3, <2>2 DEF SelectAll
        <3>2. [all |-> TRUE, requests |-> Range(known')] \in Waits
              /\ \A q \in Range(known') : request'[q] \in RequestRecords
            <4>1. \A q \in Range(known') : \E n \in Nodes : q = known'[n] /\ known'[n] \in Requests
                BY <3>1, FetchKeeps DEF Range
            <4> QED BY <4>1, <3>1, FetchKeeps, MultiAssumption DEF Waits
        <3>3. chosen' \subseteq Targets
            BY <3>1 DEF ListsTyped
        <3> DEFINE w == [all |-> TRUE, requests |-> Range(known')]
        <3>4. waiting' = waiting \cup {w} /\ {w} \subseteq Waits
              /\ \A v \in {w} : \A q \in v.requests : request'[q] \in RequestRecords
            BY <3>1, <3>2
        <3> HIDE DEF w
        <3> QED BY <3>1, <3>3, <3>4, FetchTyped
    <2> QED BY <2>1, <2>2
<1>4. ASSUME NEW n \in Nodes, Expand(n) \/ ToggleNode(n)
      PROVE ListsTyped'
    <2>1. Fetch({n}) /\ chosen' = chosen /\ visit' = visit
          /\ waiting' \subseteq waiting \cup {[all |-> FALSE, requests |-> {known'[n]}]}
        BY <1>4 DEF Expand, ToggleNode
    <2>2. [all |-> FALSE, requests |-> {known'[n]}] \in Waits
          /\ request'[known'[n]] \in RequestRecords
        BY <2>1, FetchKeeps, MultiAssumption DEF Waits
    <2>3. chosen' \subseteq Targets /\ {n} \subseteq Nodes
        BY <2>1 DEF ListsTyped
    <2> DEFINE w == [all |-> FALSE, requests |-> {known'[n]}]
    <2>4. waiting' \subseteq waiting \cup {w} /\ {w} \subseteq Waits
          /\ \A v \in {w} : \A q \in v.requests : request'[q] \in RequestRecords
        BY <2>1, <2>2
    <2> HIDE DEF w
    <2> QED BY <2>1, <2>3, <2>4, FetchTyped
<1>5. ASSUME NEW q \in Requests, ListArrives(q) \/ ListFails(q)
      PROVE ListsTyped'
    <2>1. request[q] \in RequestRecords
        BY <1>5 DEF ListArrives, ListFails, ListsTyped
    <2>2. request' \in [Requests -> RequestRecords \cup {Nil}]
          /\ \A k \in Requests : request[k] \in RequestRecords => request'[k] \in RequestRecords
        BY <1>5, <2>1, MultiAssumption DEF ListArrives, ListFails, ListsTyped, RequestRecords, Answers
    <2>3. /\ lists' \in [Nodes -> Answers \cup {Nil}]
          /\ known' \in [Nodes -> Requests \cup {Nil}]
          /\ \A n \in Nodes : known'[n] # Nil => known'[n] = known[n]
        BY <1>5, <2>1 DEF ListArrives, ListFails, ListsTyped, RequestRecords, Answers
    <2> QED BY <1>5, <2>2, <2>3 DEF ListsTyped, ListArrives, ListFails, Waits
<1>6. ASSUME NEW w \in waiting, Chosen(w)
      PROVE ListsTyped'
    <2>1. \A q \in w.requests : request[q].node \in Nodes /\ request[q].out \subseteq Schemas
        BY DEF ListsTyped, RequestRecords, Answers
    <2>2. UNION {{request[q].node} \X request[q].out : q \in w.requests} \subseteq Targets
        BY <2>1 DEF Targets
    <2> QED BY <1>6, <2>2 DEF Chosen, ListsTyped, listVars
<1>7. ASSUME NEW r \in Rounds, StartRound(r)
      PROVE ListsTyped'
    <2> DEFINE nodes == {t[1] : t \in chosen}
    <2>1. Fetch(nodes) /\ UNCHANGED <<visit, chosen, waiting>>
        BY <1>7 DEF StartRound
    <2>2. nodes \subseteq Nodes
        BY DEF ListsTyped, Targets
    <2> HIDE DEF nodes
    <2> DEFINE none == {}
    <2>3. /\ visit' = visit /\ chosen' \subseteq Targets
          /\ none \subseteq Waits /\ waiting' \subseteq waiting \cup none
          /\ \A w \in none : \A q \in w.requests : request'[q] \in RequestRecords
        BY <2>1 DEF ListsTyped
    <2> HIDE DEF none
    <2> QED BY <2>1, <2>2, <2>3, FetchTyped
<1>8. ASSUME NEW r \in Rounds, NEW t \in Targets, TargetGoes(r, t) \/ TargetFails(r, t)
      PROVE ListsTyped'
    BY <1>8, NoFetchTyped DEF TargetGoes, TargetFails, ListsTyped
<1> QED
    BY <1>1, <1>2, <1>3, <1>4, <1>5, <1>6, <1>7, <1>8 DEF MultiNext

-----------------------------------------------------------------------------
(* The targets that a run has still to settle. *)
AtWork(r) == round[r].todo \cup DOMAIN round[r].busy

(* A run keeps what it was started with. *)
KeepsText(r) ==
    /\ round'[r].visit = round[r].visit /\ round'[r].of = round[r].of
    /\ round'[r].length = round[r].length

(* There are finitely many targets, so that workers can be counted.         *)
LEMMA TargetsFinite == IsFiniteSet(Targets) /\ \A S \in SUBSET Targets : IsFiniteSet(S)
BY MultiAssumption, FS_Product, FS_Subset DEF Targets

(* Steps of one run leave the others typed. *)
LEMMA OthersTyped ==
    ASSUME RoundsTyped, visit' = visit, DOMAIN round' = Rounds,
           NEW r \in Rounds, RoundTyped(r)', \A s \in Rounds \ {r} : round'[s] = round[s]
    PROVE  RoundsTyped'
<1>1. \A s \in Rounds \ {r} : RoundTyped(s)'
    BY DEF RoundsTyped, RoundTyped
<1> QED BY <1>1 DEF RoundsTyped

(* A target that settles leaves the run, and with it its worker or the next *)
(* target for that worker: there are no more of them than before.           *)
LEMMA SettleRound ==
    ASSUME RoundsTyped, NEW r \in Rounds, NEW t \in DOMAIN round[r].busy, NEW status,
           TargetSettles(r, t, status), visit' = visit
    PROVE  /\ RoundsTyped' /\ KeepsText(r)
           /\ \A s \in Rounds \ {r} : round'[s] = round[s]
           /\ AtWork(r)' = AtWork(r) \ {t}
<1> DEFINE was == DOMAIN round[r].busy
           rest == Restrict(round[r].busy, was \ {t})
<1>1. DOMAIN rest = was \ {t}
    BY DEF Restrict
<1>2. /\ was \subseteq Targets /\ IsFiniteSet(was)
      /\ Cardinality(was) \in Nat /\ Cardinality(was \ {t}) = Cardinality(was) - 1
      /\ IsFiniteSet(was \ {t})
    BY TargetsFinite, FS_RemoveElement, FS_CardinalityType, FS_Subset DEF RoundsTyped, RoundTyped
<1>3. Cardinality(was) <= Width /\ Width \in Nat
    BY MultiAssumption DEF RoundsTyped, RoundTyped
<1>4. CASE round[r].todo = {}
    <2>1. round' = [round EXCEPT ![r].busy = rest]
        BY <1>4 DEF TargetSettles
    <2> HIDE DEF rest
    <2>2. /\ DOMAIN round' = Rounds /\ DOMAIN round'[r] = DOMAIN round[r]
          /\ KeepsText(r) /\ round'[r].todo = round[r].todo /\ round'[r].busy = rest
          /\ \A s \in Rounds \ {r} : round'[s] = round[s]
        BY <2>1 DEF RoundsTyped, RoundTyped, KeepsText
    <2>3. RoundTyped(r)'
        BY <2>2, <1>1, <1>2, <1>3 DEF RoundsTyped, RoundTyped, KeepsText
    <2>4. RoundsTyped'
        BY <2>2, <2>3, OthersTyped
    <2>5. AtWork(r)' = AtWork(r) \ {t}
        BY <2>2, <1>1, <1>4 DEF AtWork
    <2> QED BY <2>2, <2>4, <2>5
<1>5. CASE round[r].todo # {}
    <2>1. PICK next \in round[r].todo :
            round' = [round EXCEPT
                        ![r].todo = @ \ {next},
                        ![r].busy = [u \in DOMAIN rest \cup {next} |->
                                       IF u = next THEN round[r].length[next[1]] + 1
                                       ELSE rest[u]]]
        BY <1>5 DEF TargetSettles
    <2> HIDE DEF rest
    <2>2. /\ DOMAIN round' = Rounds /\ DOMAIN round'[r] = DOMAIN round[r]
          /\ KeepsText(r) /\ round'[r].todo = round[r].todo \ {next}
          /\ DOMAIN round'[r].busy = (was \ {t}) \cup {next}
          /\ \A s \in Rounds \ {r} : round'[s] = round[s]
        <3> DEFINE busy == [u \in DOMAIN rest \cup {next} |->
                              IF u = next THEN round[r].length[next[1]] + 1 ELSE rest[u]]
        <3>1. DOMAIN busy = (was \ {t}) \cup {next}
            BY <1>1
        <3>2. round' = [round EXCEPT ![r].todo = @ \ {next}, ![r].busy = busy]
            BY <2>1
        <3> HIDE DEF busy
        <3>3. DOMAIN round[r] = {"visit", "of", "length", "todo", "busy"} /\ DOMAIN round = Rounds
            BY DEF RoundsTyped, RoundTyped
        <3>4. /\ DOMAIN round' = Rounds /\ \A s \in Rounds \ {r} : round'[s] = round[s]
              /\ round'[r] = [round[r] EXCEPT !.todo = @ \ {next}, !.busy = busy]
            BY <3>2, <3>3
        <3>5. /\ DOMAIN round'[r] = DOMAIN round[r]
              /\ round'[r].visit = round[r].visit /\ round'[r].of = round[r].of
              /\ round'[r].length = round[r].length
            BY <3>4, <3>3
        <3>6. round'[r].todo = round[r].todo \ {next} /\ round'[r].busy = busy
            BY <3>4, <3>3
        <3>7. DOMAIN round'[r].busy = (was \ {t}) \cup {next}
            BY <3>1, <3>6
        <3>8. KeepsText(r)
            BY <3>5 DEF KeepsText
        <3> QED BY <3>3, <3>4, <3>5, <3>6, <3>7, <3>8
    <2>3. next \notin was
        BY DEF RoundsTyped, RoundTyped
    <2>4. Cardinality((was \ {t}) \cup {next}) = Cardinality(was)
        <3> DEFINE less == was \ {t}
        <3>1. IsFiniteSet(less) /\ next \notin less
            BY <1>2, <2>3
        <3>2. Cardinality(less \cup {next}) = Cardinality(less) + 1
            <4> HIDE DEF less
            <4> QED BY <3>1, FS_AddElement
        <3> QED BY <1>2, <3>2
    <2>5. RoundTyped(r)'
        <3>1. Cardinality(DOMAIN round'[r].busy) <= Width
            BY <2>2, <2>4, <1>3
        <3>2. RoundTyped(r)
            BY DEF RoundsTyped
        <3>3. /\ round'[r].todo \subseteq round'[r].of
              /\ DOMAIN round'[r].busy \subseteq round'[r].of \ round'[r].todo
            BY <2>2, <2>3, <3>2 DEF RoundTyped, KeepsText
        <3>4. \A u \in round'[r].todo \cup DOMAIN round'[r].busy : round'[r].length[u[1]] # 0
            BY <2>2, <3>2 DEF RoundTyped, KeepsText
        <3> QED BY <2>2, <3>1, <3>2, <3>3, <3>4 DEF RoundTyped, KeepsText
    <2>6. RoundsTyped'
        BY <2>2, <2>5, OthersTyped
    <2>7. AtWork(r)' = AtWork(r) \ {t}
        <3>1. t \notin round[r].todo
            BY DEF RoundsTyped, RoundTyped
        <3> QED BY <2>2, <2>3, <3>1 DEF AtWork
    <2> QED BY <2>2, <2>6, <2>7
<1> QED
    BY <1>4, <1>5

(* A run starts with a worker for each of the first targets. *)
LEMMA RoundStarted ==
    ASSUME ListsTyped, RoundsTyped, NEW r \in Rounds, StartRound(r)
    PROVE  /\ RoundsTyped'
           /\ \A s \in Rounds \ {r} : round'[s] = round[s]
           /\ round'[r].visit = visit /\ round'[r].of = chosen
           /\ AtWork(r)' \subseteq chosen
           /\ \A t \in chosen : t \in AtWork(r)' <=> round'[r].length[t[1]] # 0
           /\ isExecuting' = (AtWork(r)' # {})
<1>1. PICK length \in [Nodes -> 0 .. MaxLength] :
        LET todo == {t \in chosen : length[t[1]] > 0}
            first == IF Cardinality(todo) < Width THEN Cardinality(todo) ELSE Width
        IN  \E take \in SUBSET todo :
            /\ Cardinality(take) = first
            /\ round' = [round EXCEPT ![r] =
                 [visit |-> visit, of |-> chosen, length |-> length, todo |-> todo \ take,
                  busy |-> [t \in take |-> length[t[1]] + 1]]]
            /\ isExecuting' = (todo # {})
    BY DEF StartRound
<1> DEFINE todo == {t \in chosen : length[t[1]] > 0}
<1>2. PICK take \in SUBSET todo :
        /\ Cardinality(take) = IF Cardinality(todo) < Width THEN Cardinality(todo) ELSE Width
        /\ round' = [round EXCEPT ![r] =
             [visit |-> visit, of |-> chosen, length |-> length, todo |-> todo \ take,
              busy |-> [t \in take |-> length[t[1]] + 1]]]
        /\ isExecuting' = (todo # {})
    BY <1>1
<1>3. \A t \in chosen : length[t[1]] \in Nat
    BY DEF ListsTyped, Targets
<1>4. \A t \in chosen : t \in todo <=> length[t[1]] # 0
    BY <1>3
<1>5. todo \subseteq chosen /\ chosen \subseteq Targets /\ visit \in Nat
    BY DEF ListsTyped
<1> HIDE DEF todo
<1>6. Cardinality(take) <= Width
    BY <1>2, <1>5, MultiAssumption, TargetsFinite, FS_CardinalityType
<1>7. /\ DOMAIN round' = Rounds /\ \A s \in Rounds \ {r} : round'[s] = round[s]
      /\ round'[r] = [visit |-> visit, of |-> chosen, length |-> length, todo |-> todo \ take,
                      busy |-> [t \in take |-> length[t[1]] + 1]]
    BY <1>2 DEF RoundsTyped
<1>8. AtWork(r)' = todo
    BY <1>7, <1>2 DEF AtWork
<1>9. visit' = visit
    BY DEF StartRound
<1>10. RoundTyped(r)'
    <2>1. DOMAIN round'[r].busy = take
        BY <1>7
    <2>2. Cardinality(DOMAIN round'[r].busy) <= Width
        BY <2>1, <1>6
    <2> QED BY <2>1, <2>2, <1>2, <1>4, <1>5, <1>7, <1>9 DEF RoundTyped
<1>11. RoundsTyped'
    BY <1>7, <1>9, <1>10, OthersTyped
<1> QED
    BY <1>2, <1>4, <1>5, <1>7, <1>8, <1>11

-----------------------------------------------------------------------------
(* What holds of runs beside each other. *)
Beside == MetIsMixed /\ SaysSo /\ RowsMatch /\ OthersMixed /\ RowsTyped

(* A run is under way as long as it has targets to settle. *)
LEMMA LiveIsAtWork == \A r : UnderWay(r) <=> AtWork(r) # {}
BY DEF UnderWay, AtWork

(* A run that starts meets those under way; what the rows showed is gone.   *)
LEMMA StartBeside ==
    ASSUME ListsTyped, RoundsTyped, Beside, NEW r \in Rounds, StartRound(r)
    PROVE  Beside'
<1>1. /\ \A s \in Rounds \ {r} : round'[s] = round[s]
      /\ round'[r].visit = visit /\ round'[r].of = chosen
      /\ AtWork(r)' \subseteq chosen
      /\ \A t \in chosen : t \in AtWork(r)' <=> round'[r].length[t[1]] # 0
      /\ isExecuting' = UnderWay(r)'
    BY RoundStarted, LiveIsAtWork DEF UnderWay, AtWork
<1>2. /\ ~UnderWay(r) /\ visit' = visit
      /\ rows' = [t \in chosen |-> Running(r, t)]
      /\ mixed' = IF LiveRounds = {} THEN mixed \ {r} ELSE mixed \cup LiveRounds \cup {r}
    BY DEF StartRound
<1>3. \A s \in Rounds \ {r} : UnderWay(s)' <=> UnderWay(s)
    BY <1>1 DEF UnderWay
<1>4. MetIsMixed'
    BY <1>2, <1>3 DEF MetIsMixed, LiveRounds
<1>5. SaysSo'
    BY <1>1, <1>2, <1>3 DEF SaysSo, LiveRounds
<1>6. \A t \in chosen : rows'[t].round = r /\ rows'[t].of = t /\ rows'[t].status = "running"
    BY <1>2 DEF Running
<1>7. DOMAIN rows' = chosen
    BY <1>2
<1>8. RowsTyped'
    BY <1>6, <1>7 DEF RowsTyped
<1>9. RowsAreOf(r)'
    BY <1>1, <1>6, <1>7 DEF RowsAreOf, AtWork
<1>10. RowsMatch'
    <2> SUFFICES ASSUME NEW s \in Rounds \ {r}, s \notin mixed', StillShown(s)' PROVE FALSE
        BY <1>9 DEF RowsMatch
    <2>1. UnderWay(s)
        BY <1>3, <1>6, <1>7 DEF StillShown
    <2> QED BY <2>1, <1>2 DEF LiveRounds
<1>11. OthersMixed'
    <2> SUFFICES ASSUME NEW s \in Rounds \ {r}, UnderWay(s)' PROVE r \in mixed'
        BY <1>6, <1>7 DEF OthersMixed
    <2> QED BY <1>2, <1>3 DEF LiveRounds
<1> QED
    BY <1>4, <1>5, <1>8, <1>10, <1>11 DEF Beside

(* A target that settles writes its row. If the run met no other, that row  *)
(* is its own.                                                              *)
LEMMA SettleBeside ==
    ASSUME RoundsTyped, Beside, NEW r \in Rounds, NEW t \in DOMAIN round[r].busy,
           NEW status \in {"done", "error"}, TargetSettles(r, t, status), UNCHANGED <<visit, mixed>>
    PROVE  Beside'
<1>1. /\ KeepsText(r) /\ \A s \in Rounds \ {r} : round'[s] = round[s]
      /\ AtWork(r)' = AtWork(r) \ {t}
    BY SettleRound
<1>2. /\ DOMAIN rows' = DOMAIN rows
      /\ \A u \in DOMAIN rows : rows'[u] = IF u = t THEN [status |-> status, round |-> r, of |-> t]
                                           ELSE rows[u]
      /\ isExecuting' = (isExecuting /\ UnderWay(r)')
    BY DEF TargetSettles, RowsOf, UnderWay
<1>3. /\ UnderWay(r) /\ \A s \in Rounds : UnderWay(s)' => UnderWay(s)
    BY <1>1, LiveIsAtWork DEF UnderWay, AtWork
<1>4. MetIsMixed' /\ SaysSo'
    <2>1. MetIsMixed'
        BY <1>3 DEF Beside, MetIsMixed
    <2>2. SaysSo'
        <3> SUFFICES ASSUME NEW s \in Rounds \ mixed, UnderWay(s)' PROVE isExecuting'
            BY DEF SaysSo
        <3>1. s = r
            BY <1>3 DEF Beside, MetIsMixed
        <3> QED BY <3>1, <1>2, <1>3 DEF Beside, SaysSo
    <2> QED BY <2>1, <2>2
<1>5. RowsTyped'
    BY <1>2 DEF Beside, RowsTyped
<1>6. OthersMixed'
    <2> SUFFICES ASSUME NEW q \in Rounds, NEW s \in Rounds, UnderWay(q)', q # s,
                        NEW u \in DOMAIN rows, rows'[u].round = s
                 PROVE  s \in mixed
        BY <1>2 DEF OthersMixed
    <2>1. CASE u = t
        BY <2>1, <1>2, <1>3 DEF Beside, MetIsMixed
    <2>2. CASE u # t
        BY <2>2, <1>2, <1>3 DEF Beside, OthersMixed
    <2> QED BY <2>1, <2>2
<1>7. RowsMatch'
    <2> SUFFICES ASSUME NEW s \in Rounds \ mixed, round'[s].visit = visit, StillShown(s)'
                 PROVE  RowsAreOf(s)'
        BY DEF RowsMatch
    <2>1. s = r
        <3>1. CASE UnderWay(s)'
            BY <3>1, <1>3 DEF Beside, MetIsMixed
        <3>2. CASE \E u \in DOMAIN rows : rows'[u].round = s
            BY <3>2, <1>2, <1>3 DEF Beside, OthersMixed
        <3> QED BY <3>1, <3>2, <1>2 DEF StillShown
    <2>2. RowsAreOf(r)
        BY <2>1, <1>1, <1>3 DEF Beside, RowsMatch, StillShown, KeepsText
    <2>3. /\ t \in AtWork(r) /\ t \notin AtWork(r)' /\ round'[r].length[t[1]] # 0
        BY <1>1 DEF AtWork, RoundsTyped, RoundTyped, KeepsText
    <2>4. DOMAIN rows' = round'[r].of
        BY <2>2, <1>1, <1>2 DEF RowsAreOf, KeepsText
    <2>5. ASSUME NEW u \in DOMAIN rows
          PROVE  /\ rows'[u].round = r /\ rows'[u].of = u
                 /\ (rows'[u].status = "running")
                      <=> (u \in AtWork(r)' \/ round'[r].length[u[1]] = 0)
        <3>1. CASE u = t
            BY <3>1, <1>2, <2>3
        <3>2. CASE u # t
            BY <3>2, <1>1, <1>2, <2>2 DEF RowsAreOf, AtWork, KeepsText
        <3> QED BY <3>1, <3>2
    <2> QED BY <2>1, <2>4, <2>5, <1>2 DEF RowsAreOf, AtWork
<1> QED
    BY <1>4, <1>5, <1>6, <1>7 DEF Beside

(* Steps that leave the runs alone. *)
LEMMA SameRounds ==
    ASSUME RoundsTyped, visit' \in Nat, visit <= visit', visit \in Nat, UNCHANGED round
    PROVE  RoundsTyped'
BY DEF RoundsTyped, RoundTyped

(* And those that leave the rows alone, too. *)
LEMMA SameBeside ==
    ASSUME Beside, UNCHANGED <<visit, rows, round, isExecuting, mixed>>
    PROVE  Beside'
BY DEF Beside, MetIsMixed, SaysSo, RowsMatch, OthersMixed, RowsTyped, UnderWay, StillShown, RowsAreOf

(* An answer that is not the last one of its target. *)
LEMMA AnswerBeside ==
    ASSUME RoundsTyped, Beside, NEW r \in Rounds, NEW t \in DOMAIN round[r].busy,
           round' = [round EXCEPT ![r].busy[t] = @ - 1],
           UNCHANGED <<visit, rows, isExecuting, mixed>>
    PROVE  RoundsTyped' /\ Beside'
<1>1. /\ DOMAIN round' = Rounds /\ \A s \in Rounds \ {r} : round'[s] = round[s]
      /\ DOMAIN round'[r] = DOMAIN round[r] /\ KeepsText(r)
      /\ round'[r].todo = round[r].todo /\ DOMAIN round'[r].busy = DOMAIN round[r].busy
    BY DEF RoundsTyped, RoundTyped, KeepsText
<1>2. RoundTyped(r)'
    BY <1>1 DEF RoundsTyped, RoundTyped, KeepsText
<1>3. RoundsTyped'
    BY <1>1, <1>2, OthersTyped
<1>4. \A s \in Rounds : /\ UnderWay(s)' <=> UnderWay(s)
                        /\ round'[s].visit = round[s].visit
                        /\ StillShown(s)' <=> StillShown(s)
                        /\ RowsAreOf(s)' <=> RowsAreOf(s)
    <2> TAKE s \in Rounds
    <2>1. CASE s = r
        BY <2>1, <1>1 DEF UnderWay, StillShown, RowsAreOf, KeepsText
    <2>2. CASE s # r
        BY <2>2, <1>1 DEF UnderWay, StillShown, RowsAreOf
    <2> QED BY <2>1, <2>2
<1>5. Beside'
    BY <1>4 DEF Beside, MetIsMixed, SaysSo, RowsMatch, OthersMixed, RowsTyped
<1> QED BY <1>3, <1>5

(* A new visit clears the rows, and whoever is under way has met it.        *)
LEMMA OpenBeside ==
    ASSUME ListsTyped, RoundsTyped, Beside, Open
    PROVE  RoundsTyped' /\ Beside'
<1>1. /\ visit' = visit + 1 /\ visit \in Nat /\ rows' = Blank /\ DOMAIN Blank = {}
      /\ mixed' = mixed \cup LiveRounds /\ UNCHANGED <<round, isExecuting>>
    BY DEF Open, ListsTyped, Blank
<1>2. RoundsTyped'
    BY <1>1, SameRounds
<1>3. \A s \in Rounds : (UnderWay(s)' <=> UnderWay(s)) /\ (UnderWay(s) => s \in mixed')
    BY <1>1 DEF UnderWay, LiveRounds
<1>4. MetIsMixed' /\ SaysSo' /\ OthersMixed' /\ RowsTyped'
    BY <1>1, <1>3 DEF Beside, MetIsMixed, SaysSo, OthersMixed, RowsTyped
<1>5. RowsMatch'
    BY <1>1, <1>3 DEF RowsMatch, StillShown
<1> QED BY <1>2, <1>4, <1>5 DEF Beside

(* At the start nobody runs. *)
LEMMA MultiStart == MultiInit => MultiInv
<1> SUFFICES ASSUME MultiInit PROVE MultiInv
    OBVIOUS
<1>1. ListsTyped
    BY DEF MultiInit, ListsTyped, Targets
<1>2. RoundsTyped
    <2>1. Cardinality({}) = 0 /\ DOMAIN Blank = {}
        BY FS_EmptySet DEF Blank
    <2>2. /\ DOMAIN Ready = {"visit", "of", "length", "todo", "busy"}
          /\ Ready.visit = 0 /\ Ready.of = {} /\ Ready.todo = {} /\ DOMAIN Ready.busy = {}
        BY <2>1 DEF Ready
    <2>3. DOMAIN round = Rounds /\ \A r \in Rounds : round[r] = Ready
        BY DEF MultiInit
    <2>4. 0 <= Width /\ visit = 0
        BY MultiAssumption DEF MultiInit
    <2>5. \A r \in Rounds : DOMAIN round[r].busy = {}
        BY <2>2, <2>3
    <2>6. \A r \in Rounds : Cardinality(DOMAIN round[r].busy) = 0
        BY <2>1, <2>5
    <2>7. \A r \in Rounds : RoundTyped(r)
        BY <2>2, <2>3, <2>4, <2>5, <2>6 DEF RoundTyped
    <2> QED BY <2>3, <2>7 DEF RoundsTyped
<1>3. /\ \A r \in Rounds : ~UnderWay(r)
      /\ DOMAIN rows = {}
    BY DEF MultiInit, UnderWay, Ready, Blank
<1>4. MetIsMixed /\ SaysSo /\ RowsMatch /\ OthersMixed /\ RowsTyped
    BY <1>3 DEF MetIsMixed, SaysSo, RowsMatch, OthersMixed, RowsTyped, StillShown
<1> QED
    BY <1>1, <1>2, <1>4 DEF MultiInv

(* Every step keeps the invariant. *)
LEMMA MultiStep == MultiInv /\ [MultiNext]_multiVars => MultiInv'
<1> SUFFICES ASSUME MultiInv, [MultiNext]_multiVars PROVE MultiInv'
    OBVIOUS
<1> USE DEF MultiInv, Beside
<1>1. CASE UNCHANGED multiVars
    <2>1. ListsTyped'
        BY <1>1, NoFetchTyped DEF multiVars, ListsTyped
    <2>2. RoundsTyped'
        BY <1>1, SameRounds DEF multiVars, ListsTyped
    <2> QED BY <1>1, <2>1, <2>2, SameBeside DEF multiVars
<1>2. ASSUME MultiNext PROVE ListsTyped'
    BY <1>2, ListsStep
<1>3. ASSUME UNCHANGED <<visit, rows, round, isExecuting, mixed>>, MultiNext PROVE MultiInv'
    <2>1. RoundsTyped'
        BY <1>3, SameRounds DEF ListsTyped
    <2> QED BY <1>2, <1>3, <2>1, SameBeside
<1>4. CASE Open
    BY <1>2, <1>4, OpenBeside DEF MultiNext
<1>5. CASE Leave \/ Toggle \/ SelectAll
    BY <1>3, <1>5 DEF MultiNext, Leave, Toggle, SelectAll
<1>6. ASSUME NEW n \in Nodes, Expand(n) \/ ToggleNode(n) PROVE MultiInv'
    BY <1>3, <1>6 DEF MultiNext, Expand, ToggleNode
<1>7. ASSUME NEW q \in Requests, ListArrives(q) \/ ListFails(q) PROVE MultiInv'
    BY <1>3, <1>7 DEF MultiNext, ListArrives, ListFails
<1>8. ASSUME NEW w \in waiting, Chosen(w) PROVE MultiInv'
    BY <1>3, <1>8 DEF MultiNext, Chosen
<1>9. ASSUME NEW r \in Rounds, StartRound(r) PROVE MultiInv'
    BY <1>2, <1>9, RoundStarted, StartBeside DEF MultiNext
<1>10. ASSUME NEW r \in Rounds, NEW t \in Targets, TargetGoes(r, t) \/ TargetFails(r, t) PROVE MultiInv'
    <2>1. MultiNext
        BY <1>10 DEF MultiNext
    <2>2. t \in DOMAIN round[r].busy /\ UNCHANGED <<visit, mixed>>
        BY <1>10 DEF TargetGoes, TargetFails
    <2>3. CASE TargetSettles(r, t, "done") \/ TargetSettles(r, t, "error")
        BY <1>2, <2>1, <2>2, <2>3, SettleRound, SettleBeside
    <2>4. CASE round' = [round EXCEPT ![r].busy[t] = @ - 1] /\ UNCHANGED <<rows, isExecuting>>
        BY <1>2, <2>1, <2>2, <2>4, AnswerBeside
    <2> QED BY <1>10, <2>3, <2>4 DEF TargetGoes, TargetFails
<1> QED
    BY <1>1, <1>4, <1>5, <1>6, <1>7, <1>8, <1>9, <1>10 DEF MultiNext

(* The invariant is more than the property. *)
LEMMA MultiShows == MultiInv => RowsAreTheRuns
<1> SUFFICES ASSUME MultiInv, NEW r \in Rounds \ mixed
             PROVE  /\ UnderWay(r) => isExecuting
                    /\ Cardinality(DOMAIN round[r].busy) <= Width
                    /\ round[r].visit = visit /\ (\E t \in DOMAIN rows : rows[t].round = r)
                         => RowsAreOf(r)
    BY DEF RowsAreTheRuns, RowsAreOf
<1> QED
    BY DEF MultiInv, SaysSo, RoundsTyped, RoundTyped, RowsMatch, StillShown

(* For any connections, databases, workers, runs and visits: a run that met *)
(* no other one shows, in the visit it was started in, the outcome of each  *)
(* of its targets in that target's row and nothing else, has never more     *)
(* workers than the limit, and the dialog says that it is executing until it*)
(* is over (executeQuery of MultiQueryDialog.tsx).                          *)
THEOREM RowsAreShown == MultiSpec => []RowsAreTheRuns
BY MultiStart, MultiStep, MultiShows, PTL DEF MultiSpec

-----------------------------------------------------------------------------
(* SqlText.  First the recursive functions of its scanners and of its      *)
(* reading, which exist because each value hangs on the one before it      *)
(* (Forward) or on the two behind it (Backward).                           *)

(* Induction over the naturals, with a set in the place of a predicate.    *)
LEMMA SetInduction ==
    ASSUME NEW S, 0 \in S, \A n \in Nat : n \in S => n + 1 \in S
    PROVE  Nat \subseteq S
<1>1. SUFFICES ASSUME NEW k \in Nat, k \notin S PROVE FALSE
    OBVIOUS
<1> DEFINE F == {0 .. m : m \in {n \in 0 .. k : n \notin S}}
<1>2. IsFiniteSet(0 .. k)
    BY FS_Interval
<1>3. IsWellFoundedOn(StrictSubsetOrdering(0 .. k), SUBSET (0 .. k))
    BY <1>2, FS_FiniteSubsetsOfFinite, FS_StrictSubsetOrderingWellFounded
<1>4. F # {} /\ F \subseteq SUBSET (0 .. k)
    BY <1>1
<1>5. \E x \in F : \A y \in F : ~ (<<y, x>> \in StrictSubsetOrdering(0 .. k))
    BY <1>3, <1>4, WFMin
<1>6. PICK m \in 0 .. k : m \notin S /\ \A y \in F : <<y, 0 .. m>> \notin StrictSubsetOrdering(0 .. k)
    BY <1>5
<1>7. m - 1 \in 0 .. k /\ m - 1 \notin S
    BY <1>6
<1>8. 0 .. (m - 1) \in F /\ 0 .. (m - 1) \subseteq 0 .. m /\ 0 .. (m-1) # 0 .. m
    <2>1. m \in 0 .. m /\ m \notin 0 .. (m - 1)
        OBVIOUS
    <2> QED BY <1>7, <2>1
<1>9. <<0 .. (m - 1), 0 .. m>> \in StrictSubsetOrdering(0 .. k)
    BY <1>8 DEF StrictSubsetOrdering
<1> QED BY <1>6, <1>8, <1>9

(* What is computed from left to right: each value from the one before it. *)
Moves(N, S, a, g) == N \in Nat /\ a \in S /\ g \in [1..N -> [S -> S]]
Moved(N, S, a, g, f) ==
    f \in [0..N -> S] /\ \A n \in 0..N : f[n] = IF n = 0 THEN a ELSE g[n][f[n - 1]]

LEMMA Forward ==
    ASSUME NEW N, NEW S, NEW a, NEW g, Moves(N, S, a, g)
    PROVE  \E f : Moved(N, S, a, g, f)
<1> USE DEF Moves
<1> DEFINE Does(f, m) == \A n \in 0..m : f[n] = IF n = 0 THEN a ELSE g[n][f[n - 1]]
           A == {m \in Nat : m <= N => \E f \in [0..N -> S] : Does(f, m)}
<1>1. 0 \in A
    <2>1. [n \in 0..N |-> a] \in [0..N -> S] /\ Does([n \in 0..N |-> a], 0)
        OBVIOUS
    <2> QED BY <2>1
<1>2. ASSUME NEW m \in Nat, m \in A PROVE m + 1 \in A
    <2> SUFFICES ASSUME m + 1 <= N PROVE \E f \in [0..N -> S] : Does(f, m + 1)
        OBVIOUS
    <2>1. PICK f \in [0..N -> S] : Does(f, m)
        BY <1>2
    <2> DEFINE h == [n \in 0..N |-> IF n = m + 1 THEN g[n][f[m]] ELSE f[n]]
    <2>2. g[m + 1][f[m]] \in S
        OBVIOUS
    <2>3. h \in [0..N -> S]
        BY <2>2
    <2>4. ASSUME NEW n \in 0..(m + 1) PROVE h[n] = IF n = 0 THEN a ELSE g[n][h[n - 1]]
        <3>1. CASE n = m + 1
            <4>1. h[n] = g[n][f[m]] /\ h[n - 1] = f[m]
                BY <3>1
            <4> QED BY <3>1, <4>1
        <3>2. CASE n \in 0..m
            <4>1. h[n] = f[n] /\ (n # 0 => h[n - 1] = f[n - 1])
                BY <3>2
            <4> QED BY <2>1, <3>2, <4>1
        <3> QED BY <3>1, <3>2
    <2> QED BY <2>3, <2>4
<1>3. Nat \subseteq A
    <2> HIDE DEF A
    <2> QED BY <1>1, <1>2, SetInduction
<1>4. N \in A
    <2> HIDE DEF A
    <2> QED BY <1>3
<1> QED BY <1>4 DEF Moved

(* What is computed from right to left: each value from the two behind it. *)
Leaps(N, S, base, g) ==
    /\ N \in Nat /\ base \in [Nat -> S] /\ g \in [Nat -> [[Nat -> S] -> S]]
    /\ \A k \in Nat, f, h \in [Nat -> S] :
            f[k + 1] = h[k + 1] /\ f[k + 2] = h[k + 2] => g[k][f] = g[k][h]

Leapt(N, S, base, g, f) ==
    f \in [Nat -> S] /\ \A k \in Nat : f[k] = IF k > N THEN base[k] ELSE g[k][f]

LEMMA Backward ==
    ASSUME NEW N, NEW S, NEW base, NEW g, Leaps(N, S, base, g)
    PROVE  \E f : Leapt(N, S, base, g, f)
<1> USE DEF Leaps
<1> DEFINE Does(f, n) == \A k \in Nat : k + n > N => f[k] = IF k > N THEN base[k] ELSE g[k][f]
           A == {n \in Nat : \E f \in [Nat -> S] : Does(f, n)}
<1>1. 0 \in A
    <2>1. base \in [Nat -> S] /\ Does(base, 0)
        OBVIOUS
    <2> QED BY <2>1
<1>2. ASSUME NEW n \in Nat, n \in A PROVE n + 1 \in A
    <2>1. PICK f \in [Nat -> S] : Does(f, n)
        BY <1>2
    <2>2. CASE n > N
        <3>1. Does(f, n + 1)
            BY <2>1, <2>2
        <3> QED BY <3>1
    <2>3. CASE n <= N
        <3> DEFINE m == N - n
                   h == [k \in Nat |-> IF k = m THEN g[m][f] ELSE f[k]]
        <3>1. m \in Nat
            BY <2>3
        <3>2. g[m][f] \in S
            <4> HIDE DEF m
            <4> QED BY <3>1
        <3>3. h \in [Nat -> S]
            BY <3>2
        <3>4. ASSUME NEW k \in Nat, k + (n + 1) > N PROVE h[k] = IF k > N THEN base[k] ELSE g[k][h]
            <4>1. k >= m /\ f[k + 1] = h[k + 1] /\ f[k + 2] = h[k + 2]
                BY <3>1, <3>4
            <4>2. g[k][f] = g[k][h]
                BY <3>3, <4>1
            <4>3. CASE k = m
                BY <3>1, <4>2, <4>3
            <4>4. CASE k # m
                <5>1. k + n > N /\ h[k] = f[k]
                    BY <3>1, <4>1, <4>4
                <5>2. f[k] = IF k > N THEN base[k] ELSE g[k][f]
                    BY <2>1, <5>1
                <5> QED BY <4>2, <5>1, <5>2
            <4> QED BY <4>3, <4>4
        <3> HIDE DEF h, m
        <3>5. Does(h, n + 1)
            BY <3>4
        <3> QED BY <3>3, <3>5
    <2> QED BY <2>2, <2>3
<1>3. Nat \subseteq A
    <2> HIDE DEF A
    <2> QED BY <1>1, <1>2, SetInduction
<1>6. N + 1 \in A
    <2> HIDE DEF A
    <2> QED BY <1>3
<1>4. PICK f \in [Nat -> S] : Does(f, N + 1)
    BY <1>6
<1>5. ASSUME NEW k \in Nat PROVE f[k] = IF k > N THEN base[k] ELSE g[k][f]
    <2>1. k + (N + 1) > N
        OBVIOUS
    <2>2. Does(f, N + 1)
        BY <1>4
    <2> QED BY <2>1, <2>2
<1> QED BY <1>4, <1>5 DEF Leapt

(* The least and the greatest of some positions.                           *)
LEMMA MinIs ==
    ASSUME NEW S \in SUBSET Nat, S # {}
    PROVE  Min(S) \in S /\ \A x \in S : Min(S) <= x
<1> DEFINE A == {n \in Nat : \A x \in S : x > n} \cup {n \in Nat : \E x \in S : x <= n /\ \A y \in S : x <= y}
<1>1. 0 \in A
    OBVIOUS
<1>2. ASSUME NEW n \in Nat, n \in A PROVE n + 1 \in A
    <2>1. CASE \A x \in S : x > n
        <3>1. CASE n + 1 \in S
            BY <2>1, <3>1
        <3>2. CASE n + 1 \notin S
            <4>1. \A x \in S : x > n + 1
                BY <2>1, <3>2
            <4> QED BY <4>1
        <3> QED BY <3>1, <3>2
    <2>2. CASE \E x \in S : x <= n /\ \A y \in S : x <= y
        BY <2>2
    <2> QED BY <1>2, <2>1, <2>2
<1>3. Nat \subseteq A
    <2> HIDE DEF A
    <2> QED BY <1>1, <1>2, SetInduction
<1>4. PICK s \in S : TRUE
    OBVIOUS
<1>5. s \in A
    BY <1>3
<1>6. \E x \in S : \A y \in S : x <= y
    BY <1>5
<1> QED BY <1>6 DEF Min

LEMMA MaxIs ==
    ASSUME NEW N \in Nat, NEW S \in SUBSET (0..N), S # {}
    PROVE  Max(S) \in S /\ \A x \in S : x <= Max(S)
<1> DEFINE T == {N - x : x \in S}
<1>1. \A x \in S : x \in Nat /\ N - x \in Nat
    OBVIOUS
<1>a. T \in SUBSET Nat /\ T # {}
    BY <1>1
<1>2. Min(T) \in T /\ \A y \in T : Min(T) <= y
    BY <1>a, MinIs
<1>3. PICK x \in S : Min(T) = N - x
    BY <1>2
<1>4. \A y \in S : x >= y
    <2> TAKE y \in S
    <2>1. N - y \in T
        OBVIOUS
    <2>2. N - x <= N - y
        BY <1>2, <1>3, <2>1
    <2> QED BY <1>1, <2>2
<1>5. \E z \in S : \A y \in S : z >= y
    BY <1>4
<1> QED BY <1>5 DEF Max

(* The recursive functions of the scanners exist.                          *)
QuoteEnds(t, i, my, end) ==
    end = [k \in Nat |->
            IF k > Len(t) THEN Len(t) + 1
            ELSE IF Escapes(t, i, my) /\ t[k] = "\\" /\ k < Len(t)
                 THEN end[IF t[k + 1] = "E'" THEN k + 1 ELSE k + 2]
            ELSE IF t[k] \notin Ends(t[i]) THEN end[k + 1]
            ELSE IF Item(t, k + 1) = Doubles(t[i]) THEN end[k + 2]
            ELSE k + 1]

LEMMA QuoteEndIs ==
    ASSUME NEW t \in Seq(Lexemes), NEW i \in 1..Len(t), NEW my
    PROVE  \E end : QuoteEnds(t, i, my, end) /\ QuoteEnd(t, i, my) = end[i + 1]
<1> DEFINE base == [k \in Nat |-> Len(t) + 1]
           body(k, f) ==
                    IF Escapes(t, i, my) /\ t[k] = "\\" /\ k < Len(t)
                         THEN f[IF t[k + 1] = "E'" THEN k + 1 ELSE k + 2]
                    ELSE IF t[k] \notin Ends(t[i]) THEN f[k + 1]
                    ELSE IF Item(t, k + 1) = Doubles(t[i]) THEN f[k + 2]
                    ELSE k + 1
           g == [k \in Nat |-> [f \in [Nat -> Nat] |-> body(k, f)]]
<1>1. base \in [Nat -> Nat] /\ Len(t) \in Nat
    OBVIOUS
<1>2. g \in [Nat -> [[Nat -> Nat] -> Nat]]
    <2>1. ASSUME NEW k \in Nat, NEW f \in [Nat -> Nat] PROVE body(k, f) \in Nat
        <3>1. f[k + 1] \in Nat /\ f[k + 2] \in Nat /\ k + 1 \in Nat
            <4>1. k + 1 \in Nat /\ k + 2 \in Nat
                OBVIOUS
            <4> HIDE DEF body, g, base
            <4> QED BY <4>1
        <3>2. f[IF t[k + 1] = "E'" THEN k + 1 ELSE k + 2] \in Nat
            <4>1. CASE t[k + 1] = "E'"
                BY <3>1, <4>1
            <4>2. CASE t[k + 1] # "E'"
                BY <3>1, <4>2
            <4> QED BY <4>1, <4>2
        <3> QED BY <3>1, <3>2
    <2> HIDE DEF body
    <2> QED BY <2>1
<1>3. ASSUME NEW k \in Nat, NEW f \in [Nat -> Nat], NEW h \in [Nat -> Nat],
             f[k + 1] = h[k + 1], f[k + 2] = h[k + 2]
      PROVE  g[k][f] = g[k][h]
    <2>1. body(k, f) = body(k, h)
        BY <1>3
    <2> HIDE DEF body
    <2> QED BY <2>1
<1>4. Leaps(Len(t), Nat, base, g)
    <2> HIDE DEF base, g
    <2> QED BY <1>1, <1>2, <1>3 DEF Leaps
<1>5. PICK f : Leapt(Len(t), Nat, base, g, f)
    BY <1>4, Backward
<1>6. QuoteEnds(t, i, my, f)
    <2>1. ASSUME NEW k \in Nat
          PROVE  f[k] = IF k > Len(t) THEN Len(t) + 1
            ELSE IF Escapes(t, i, my) /\ t[k] = "\\" /\ k < Len(t)
                 THEN f[IF t[k + 1] = "E'" THEN k + 1 ELSE k + 2]
            ELSE IF t[k] \notin Ends(t[i]) THEN f[k + 1]
            ELSE IF Item(t, k + 1) = Doubles(t[i]) THEN f[k + 2]
            ELSE k + 1
        BY <1>5 DEF Leapt
    <2>2. f = [k \in Nat |-> f[k]]
        BY <1>5 DEF Leapt
    <2> QED BY <2>1, <2>2 DEF QuoteEnds
<1>7. QuoteEnd(t, i, my) = (CHOOSE end : QuoteEnds(t, i, my, end))[i + 1]
    BY Zenon DEF QuoteEnd, QuoteEnds
<1> QED BY <1>6, <1>7

CommentEnds(t, i, my, end) ==
    end = [k \in Nat |->
            [depth \in Nat |->
                IF depth = 0 \/ k > Len(t) THEN k
                ELSE IF t[k] = "/*" /\ ~my THEN end[k + 1][depth + 1]
                ELSE IF t[k] = "*/" THEN end[k + 1][depth - 1]
                ELSE end[k + 1][depth]]]

LEMMA CommentEndIs ==
    ASSUME NEW t \in Seq(Lexemes), NEW i \in 1..Len(t), NEW my
    PROVE  \E end : CommentEnds(t, i, my, end) /\ CommentEnd(t, i, my) = end[i + 1][1]
<1> DEFINE S == [Nat -> Nat]
           base == [k \in Nat |-> [depth \in Nat |-> k]]
           body(k, f, depth) ==
                IF depth = 0 \/ k > Len(t) THEN k
                ELSE IF t[k] = "/*" /\ ~my THEN f[k + 1][depth + 1]
                ELSE IF t[k] = "*/" THEN f[k + 1][depth - 1]
                ELSE f[k + 1][depth]
           g == [k \in Nat |-> [f \in [Nat -> S] |-> [depth \in Nat |-> body(k, f, depth)]]]
<1>1. base \in [Nat -> S] /\ Len(t) \in Nat
    OBVIOUS
<1>2. g \in [Nat -> [[Nat -> S] -> S]]
    <2>1. ASSUME NEW k \in Nat, NEW f \in [Nat -> S], NEW depth \in Nat
          PROVE  body(k, f, depth) \in Nat
        <3>1. k + 1 \in Nat /\ depth + 1 \in Nat
            OBVIOUS
        <3> DEFINE F == f[k + 1]
        <3>2. F \in [Nat -> Nat]
            BY <3>1
        <3>3. depth # 0 => depth - 1 \in Nat
            OBVIOUS
        <3>4. F[depth + 1] \in Nat /\ F[depth] \in Nat /\ (depth # 0 => F[depth - 1] \in Nat)
            <4> HIDE DEF F
            <4> QED BY <3>1, <3>2, <3>3
        <3> QED BY <3>4
    <2> HIDE DEF body
    <2>2. ASSUME NEW k \in Nat, NEW f \in [Nat -> S] PROVE [depth \in Nat |-> body(k, f, depth)] \in S
        BY <2>1
    <2> QED BY <2>2
<1>3. ASSUME NEW k \in Nat, NEW f \in [Nat -> S], NEW h \in [Nat -> S],
             f[k + 1] = h[k + 1], f[k + 2] = h[k + 2]
      PROVE  g[k][f] = g[k][h]
    <2>1. ASSUME NEW depth \in Nat PROVE body(k, f, depth) = body(k, h, depth)
        BY <1>3
    <2> HIDE DEF body
    <2> QED BY <2>1
<1>4. Leaps(Len(t), S, base, g)
    <2> HIDE DEF base, g, S
    <2> QED BY <1>1, <1>2, <1>3 DEF Leaps
<1>5. PICK f : Leapt(Len(t), S, base, g, f)
    <2> HIDE DEF base, g, S
    <2> QED BY <1>4, Backward
<1>6. ASSUME NEW k \in Nat PROVE f[k] = [depth \in Nat |-> body(k, f, depth)]
    <2>1. CASE k > Len(t)
        <3>1. f[k] = base[k]
            BY <1>5, <2>1 DEF Leapt
        <3>2. \A depth \in Nat : body(k, f, depth) = k
            BY <2>1
        <3> HIDE DEF body
        <3> QED BY <3>1, <3>2
    <2>2. CASE ~(k > Len(t))
        <3>1. f[k] = g[k][f] /\ f \in [Nat -> S]
            BY <1>5, <2>2 DEF Leapt
        <3> HIDE DEF body
        <3> QED BY <3>1
    <2> QED BY <2>1, <2>2
<1>7. CommentEnds(t, i, my, f)
    <2>1. f = [k \in Nat |-> f[k]]
        BY <1>5 DEF Leapt
    <2>2. f = [k \in Nat |-> [depth \in Nat |-> body(k, f, depth)]]
        <3> HIDE DEF body
        <3> QED BY <1>6, <2>1
    <2> QED BY <2>2 DEF CommentEnds
<1>8. CommentEnd(t, i, my) = (CHOOSE end : CommentEnds(t, i, my, end))[i + 1][1]
    BY Zenon DEF CommentEnd, CommentEnds
<1> QED BY <1>7, <1>8

-----------------------------------------------------------------------------
(* The reading, one lexeme at a time (Follows).                            *)

(* What a reading may be at.                                               *)
Contexts == {"code", "--", "/*", "directive", "meta", "data"} \cup Quotes \cup Dollars
Roles == {"code", "region", "cut", "data"}
Records ==
    [in : Contexts, role : Roles, depth : Nat, body : Nat, escaped : BOOLEAN,
     closed : Quotes \cup {"none"}, delimiter : Lexemes, first : Lexemes \cup {"none"}, piece : Nat]
Reads ==
    {r \in Records : (r.in = "/*" => r.depth > 0) /\ (r.escaped => r.in \in Quotes)}

(* Two readings in the same statement.                                     *)
Same(x, r) ==
    x.piece = r.piece /\ x.first = r.first /\ x.body = r.body /\ x.delimiter = r.delimiter

LEMMA InContextIs ==
    ASSUME NEW r \in Records, NEW ctx \in Contexts, NEW role \in Roles
    PROVE  LET x == InContext(r, ctx, role)
           IN /\ x \in Records /\ x.in = ctx /\ x.role = role /\ x.closed = "none"
              /\ x.depth = r.depth /\ x.escaped = r.escaped /\ Same(x, r)
BY DEF InContext, Records, Same

LEMMA BegunIs ==
    ASSUME NEW r \in Records, NEW c \in Lexemes
    PROVE  LET x == Begun(r, c)
           IN /\ x \in Records /\ x.in = r.in /\ x.role = r.role /\ x.closed = r.closed
              /\ x.depth = r.depth /\ x.escaped = r.escaped /\ x.piece = r.piece /\ x.body = r.body
              /\ x.delimiter = r.delimiter /\ x.first = IF r.first = "none" THEN c ELSE r.first
BY DEF Begun, Records

LEMMA NextPieceIs ==
    ASSUME NEW r \in Records
    PROVE  LET x == NextPiece(r)
           IN /\ x \in Records /\ x.in = r.in /\ x.role = r.role /\ x.closed = r.closed
              /\ x.depth = r.depth /\ x.escaped = r.escaped /\ x.piece = r.piece + 1 /\ x.body = r.body
              /\ x.delimiter = r.delimiter /\ x.first = "none"
<1>1. r.piece + 1 \in Nat
    BY DEF Records
<1> QED BY <1>1 DEF NextPiece, Records

LEMMA BodyIs ==
    ASSUME NEW r \in Records, NEW n \in Nat
    PROVE  LET x == [r EXCEPT !.body = n]
           IN /\ x \in Records /\ x.in = r.in /\ x.role = r.role /\ x.closed = r.closed
              /\ x.depth = r.depth /\ x.escaped = r.escaped /\ x.piece = r.piece /\ x.body = n
              /\ x.delimiter = r.delimiter /\ x.first = r.first
BY DEF Records

LEMMA DepthIs ==
    ASSUME NEW r \in Records, NEW n \in Nat
    PROVE  LET x == [r EXCEPT !.depth = n]
           IN /\ x \in Records /\ x.in = r.in /\ x.role = r.role /\ x.closed = r.closed
              /\ x.depth = n /\ x.escaped = r.escaped /\ Same(x, r)
BY DEF Records, Same

(* A quoted region.                                                        *)
LEMMA ReadQuotedIs ==
    ASSUME NEW r \in Reads, r.in \in Quotes, NEW c \in Lexemes, NEW my \in BOOLEAN
    PROVE  LET x == ReadQuoted(c, r, my)
               closes == c \in Ends(r.in) /\ (r.escaped => c = "E'")
           IN /\ x \in Reads /\ x.role = "region" /\ Same(x, r)
              /\ closes => x.in = "code" /\ x.closed = r.in /\ ~x.escaped
              /\ ~closes => /\ x.in = r.in /\ x.closed = r.closed
                            /\ x.escaped <=> /\ r.in = "E'" \/ (my /\ r.in \in {"'", "double"})
                                             /\ c = "\\" /\ ~r.escaped
<1> DEFINE closes == c \in Ends(r.in) /\ (r.escaped => c = "E'")
           x == ReadQuoted(c, r, my)
           y == InContext(r, "code", "region")
           escapes == r.in = "E'" \/ (my /\ r.in \in {"'", "double"})
<1>1. r \in Records /\ "code" \in Contexts /\ "region" \in Roles
    BY DEF Reads, Contexts, Roles
<1>2. /\ y \in Records /\ y.in = "code" /\ y.role = "region" /\ y.closed = "none"
      /\ y.depth = r.depth /\ y.escaped = r.escaped /\ Same(y, r)
    BY <1>1, InContextIs
<1>3. CASE closes
    <2>1. x = [y EXCEPT !.closed = r.in, !.escaped = FALSE]
        BY <1>3 DEF ReadQuoted
    <2> HIDE DEF x, y
    <2>2. x \in Records /\ x.in = "code" /\ x.role = "region" /\ x.closed = r.in /\ ~x.escaped /\ Same(x, r)
        BY <1>2, <2>1 DEF Records, Same
    <2>3. x \in Reads
        BY <2>2 DEF Reads
    <2> QED BY <1>3, <2>2, <2>3 DEF x
<1>4. CASE ~closes
    <2>1. x = [r EXCEPT !.role = "region", !.escaped = escapes /\ c = "\\" /\ ~@]
        BY <1>4 DEF ReadQuoted
    <2> DEFINE e == escapes /\ c = "\\" /\ ~r.escaped
    <2>2. x = [r EXCEPT !.role = "region", !.escaped = e] /\ e \in BOOLEAN
        BY <1>1, <2>1 DEF Records
    <2>3. x.escaped <=> escapes /\ c = "\\" /\ ~r.escaped
        <3> HIDE DEF x, e
        <3>1. x.escaped = e
            BY <1>1, <2>2 DEF Records
        <3> QED BY <3>1 DEF e
    <2> HIDE DEF x, e
    <2>4. x \in Records /\ x.in = r.in /\ x.role = "region" /\ x.closed = r.closed /\ x.depth = r.depth /\ Same(x, r)
        BY <1>1, <2>2 DEF Records, Same
    <2>5. x \in Reads
        BY <2>4 DEF Reads
    <2> QED BY <1>4, <2>3, <2>4, <2>5 DEF x
<1> QED BY <1>3, <1>4

(* A comment.                                                              *)
LEMMA ReadCommentIs ==
    ASSUME NEW r \in Reads, r.in = "/*", NEW c \in Lexemes, NEW my \in BOOLEAN
    PROVE  LET x == ReadComment(c, r, my)
               depth == IF c = "/*" /\ ~my THEN r.depth + 1
                        ELSE IF c = "*/" THEN r.depth - 1 ELSE r.depth
           IN /\ x \in Reads /\ x.role = "region" /\ x.closed = "none" /\ ~x.escaped /\ Same(x, r)
              /\ x.depth = depth /\ x.in = IF depth = 0 THEN "code" ELSE "/*"
<1> DEFINE depth == IF c = "/*" /\ ~my THEN r.depth + 1
                        ELSE IF c = "*/" THEN r.depth - 1 ELSE r.depth
           ctx == IF depth = 0 THEN "code" ELSE "/*"
           y == InContext(r, ctx, "region")
           x == ReadComment(c, r, my)
<1>a. r \in Records /\ r.depth \in Nat /\ r.depth > 0
    BY DEF Reads, Records
<1>b. ~r.escaped
    BY DEF Reads, Quotes
<1>c. ctx \in Contexts /\ "region" \in Roles
    BY DEF Contexts, Roles
<1>1. r \in Records /\ ctx \in Contexts /\ "region" \in Roles /\ depth \in Nat /\ ~r.escaped
    BY <1>a, <1>b, <1>c
<1>2. x = [y EXCEPT !.depth = depth]
    BY Zenon DEF ReadComment
<1> HIDE DEF depth, ctx
<1>3. /\ y \in Records /\ y.in = ctx /\ y.role = "region" /\ y.closed = "none"
      /\ y.escaped = r.escaped /\ Same(y, r)
    BY <1>1, InContextIs
<1> HIDE DEF x, y
<1>4. /\ x \in Records /\ x.in = ctx /\ x.role = "region" /\ x.closed = "none"
      /\ x.depth = depth /\ x.escaped = y.escaped /\ Same(x, y)
    BY <1>1, <1>2, <1>3, DepthIs
<1>5. Same(x, r)
    BY <1>3, <1>4 DEF Same
<1>6. x \in Reads
    BY <1>1, <1>3, <1>4 DEF Reads, ctx
<1> QED BY <1>1, <1>3, <1>4, <1>5, <1>6 DEF x, ctx, depth

Reopens(r, c) == r.closed # "none" /\ c = Doubles(r.closed)
Comments(c, my) == c \in {"--", "/*"} \/ (my /\ c = "#")

LEMMA LexemesAre ==
    /\ Quotes \subseteq Lexemes /\ Dollars \subseteq Lexemes /\ Quotes \subseteq Contexts /\ Dollars \subseteq Contexts
    /\ Quotes \cap Dollars = {} /\ "code" \notin Quotes \cup Dollars
    /\ \A c \in Quotes \cup Dollars :
        c # "line" /\ c # "semicolon" /\ c # "DELIMITER" /\ c \notin Backslashes
        /\ c \notin {"--", "#", "/*", "*/", "ATOMIC", "CASE", "END", "code", "directive", "meta", "data"}
    /\ "none" \notin Lexemes /\ "eof" \notin Lexemes
BY DEF Lexemes, Words, Quotes, Dollars, Backslashes, Contexts

(* A lexeme in code, in a text without directives, commands and data.      *)
LEMMA ReadReopens ==
    ASSUME NEW t, NEW i, NEW r \in Reads, r.in = "code", NEW my, Reopens(r, t[i])
    PROVE  LET x == ReadCode(t, i, r, my)
           IN x \in Reads /\ x.in = r.closed /\ x.in \in Quotes /\ x.role = "region" /\ ~x.escaped /\ Same(x, r)
<1> DEFINE x == ReadCode(t, i, r, my)
<1>1. x = InContext(r, r.closed, "region")
    BY DEF ReadCode, Reopens
<1>2. r \in Records /\ r.closed \in Quotes /\ ~r.escaped
    BY LexemesAre DEF Reads, Records, Reopens
<1>3. "region" \in Roles /\ r.closed \in Contexts
    BY <1>2, LexemesAre DEF Roles
<1> HIDE DEF x
<1>4. x \in Records /\ x.in = r.closed /\ x.role = "region" /\ x.escaped = r.escaped /\ Same(x, r)
    BY <1>1, <1>2, <1>3, InContextIs
<1>5. x \in Reads
    BY <1>2, <1>4, LexemesAre DEF Reads, Quotes
<1> QED BY <1>2, <1>4, <1>5 DEF x

LEMMA ReadCuts ==
    ASSUME NEW t, NEW i, NEW r \in Reads, r.in = "code", NEW my, ~Reopens(r, t[i]),
           t[i] = r.delimiter, t[i] = "semicolon" => r.body = 0
    PROVE  LET x == ReadCode(t, i, r, my)
           IN /\ x \in Reads
              /\ x.in = IF ~my /\ r.first = "COPY" THEN "data" ELSE "code"
              /\ x.role = "cut" /\ x.closed = "none" /\ x.first = "none"
              /\ x.piece = r.piece + 1 /\ x.body = r.body /\ x.delimiter = r.delimiter
<1> DEFINE ctx == IF ~my /\ r.first = "COPY" THEN "data" ELSE "code"
           y == InContext(r, ctx, "cut")
           x == ReadCode(t, i, r, my)
<1>1. x = NextPiece(y)
    BY DEF ReadCode, Reopens
<1>2. r \in Records /\ ~r.escaped
    BY LexemesAre DEF Reads
<1>3. ctx \in Contexts /\ ctx # "/*" /\ "cut" \in Roles
    BY DEF Contexts, Roles
<1> HIDE DEF ctx, x, y
<1>4. y \in Records /\ y.in = ctx /\ y.role = "cut" /\ y.closed = "none" /\ y.escaped = r.escaped /\ Same(y, r)
    BY <1>2, <1>3, InContextIs DEF y
<1>5. /\ x \in Records /\ x.in = y.in /\ x.role = y.role /\ x.closed = y.closed
      /\ x.escaped = y.escaped /\ x.piece = y.piece + 1 /\ x.body = y.body
      /\ x.delimiter = y.delimiter /\ x.first = "none"
    BY <1>1, <1>4, NextPieceIs
<1>6. x \in Reads
    BY <1>2, <1>3, <1>4, <1>5 DEF Reads
<1> QED BY <1>4, <1>5, <1>6 DEF Same, ctx, x

LEMMA ReadDirective ==
    ASSUME NEW t, NEW i, NEW r \in Reads, r.in = "code", NEW my, ~Reopens(r, t[i]),
           t[i] # r.delimiter, t[i] = "DELIMITER", r.first = "none"
    PROVE  ReadCode(t, i, r, my) \in Reads
<1> DEFINE y == InContext(r, "directive", "cut")
           x == ReadCode(t, i, r, my)
<1>1. x = NextPiece(y)
    BY DEF ReadCode, Reopens
<1>2. r \in Records /\ ~r.escaped /\ "directive" \in Contexts /\ "cut" \in Roles
    BY LexemesAre DEF Reads, Contexts, Roles
<1> HIDE DEF x, y
<1>3. y \in Records /\ y.in = "directive" /\ y.escaped = r.escaped
    BY <1>2, InContextIs DEF y
<1>4. x \in Records /\ x.in = y.in /\ x.escaped = y.escaped
    BY <1>1, <1>3, NextPieceIs
<1>5. x \in Reads
    BY <1>2, <1>3, <1>4 DEF Reads
<1> QED BY <1>5 DEF x

LEMMA ReadCommand ==
    ASSUME NEW t, NEW i, NEW r \in Reads, r.in = "code", NEW my, ~Reopens(r, t[i]),
           t[i] # r.delimiter, t[i] \in Backslashes, r.first = "none", ~my
    PROVE  ReadCode(t, i, r, my) \in Reads /\ ReadCode(t, i, r, my).in = "meta"
<1> DEFINE y == NextPiece(r)
           x == ReadCode(t, i, r, my)
<1>1. x = InContext(y, "meta", "code")
    BY DEF ReadCode, Reopens, Backslashes
<1>2. r \in Records /\ ~r.escaped /\ "meta" \in Contexts /\ "code" \in Roles
    BY LexemesAre DEF Reads, Contexts, Roles
<1> HIDE DEF x, y
<1>3. y \in Records /\ y.escaped = r.escaped
    BY <1>2, NextPieceIs DEF y
<1>4. x \in Records /\ x.in = "meta" /\ x.escaped = y.escaped
    BY <1>1, <1>2, <1>3, InContextIs
<1>5. x \in Reads
    BY <1>2, <1>3, <1>4 DEF Reads
<1> QED BY <1>4, <1>5 DEF x

(* Where a lexeme in code does none of these.                              *)
Goes(r, c, my) ==
    /\ r.in = "code" /\ ~Reopens(r, c)
    /\ c = r.delimiter => c = "semicolon" /\ r.body # 0
    /\ ~(c = "DELIMITER" /\ r.first = "none") /\ ~(c \in Backslashes /\ r.first = "none" /\ ~my)

LEMMA ReadOpensComment ==
    ASSUME NEW t, NEW i, NEW r \in Reads, NEW my, Goes(r, t[i], my), Comments(t[i], my)
    PROVE  LET x == ReadCode(t, i, r, my)
           IN /\ x \in Reads /\ x.in = (IF t[i] = "/*" THEN "/*" ELSE "--")
              /\ x.role = "region" /\ x.depth = 1 /\ Same(x, r)
<1> DEFINE ctx == IF t[i] = "/*" THEN t[i] ELSE "--"
           y == InContext(r, ctx, "region")
           x == ReadCode(t, i, r, my)
<1>1. x = [y EXCEPT !.depth = 1]
    BY DEF ReadCode, Reopens, Goes, Comments
<1>2. r \in Records /\ ~r.escaped /\ ctx \in Contexts /\ "region" \in Roles
    BY LexemesAre DEF Reads, Contexts, Roles, Goes
<1> HIDE DEF ctx, x, y
<1>3. y \in Records /\ y.in = ctx /\ y.role = "region" /\ y.escaped = r.escaped /\ Same(y, r)
    BY <1>2, InContextIs DEF y
<1>4. x \in Records /\ x.in = y.in /\ x.role = y.role /\ x.depth = 1 /\ x.escaped = y.escaped /\ Same(x, y)
    BY <1>1, <1>3, DepthIs
<1>5. x \in Reads
    BY <1>2, <1>3, <1>4 DEF Reads
<1> QED BY <1>3, <1>4, <1>5 DEF Same, ctx, x

LEMMA ReadOpens ==
    ASSUME NEW t, NEW i, NEW r \in Reads, NEW my, Goes(r, t[i], my),
           OpensQuote(t[i], r, my)
    PROVE  LET x == ReadCode(t, i, r, my)
           IN /\ x \in Reads /\ x.in = t[i] /\ x.role = "region" /\ ~x.escaped /\ x.closed = "none"
              /\ x.piece = r.piece /\ x.body = r.body /\ x.delimiter = r.delimiter
              /\ x.first = IF r.first = "none" THEN t[i] ELSE r.first
<1> DEFINE y == InContext(r, t[i], "region")
           x == ReadCode(t, i, r, my)
<1>0. t[i] \in Quotes \cup Dollars
    BY DEF OpensQuote, Quotes
<1>1. x = Begun(y, t[i])
    BY <1>0, LexemesAre DEF ReadCode, Reopens, Goes
<1>2. r \in Records /\ ~r.escaped /\ t[i] \in Contexts /\ t[i] \in Lexemes /\ "region" \in Roles
    BY <1>0, LexemesAre DEF Reads, Roles, Goes
<1> HIDE DEF x, y
<1>3. y \in Records /\ y.in = t[i] /\ y.role = "region" /\ y.escaped = r.escaped /\ y.closed = "none" /\ Same(y, r)
    BY <1>2, InContextIs DEF y
<1>4. /\ x \in Records /\ x.in = y.in /\ x.role = y.role /\ x.closed = y.closed
      /\ x.escaped = y.escaped /\ x.piece = y.piece /\ x.body = y.body
      /\ x.delimiter = y.delimiter /\ x.first = IF y.first = "none" THEN t[i] ELSE y.first
    BY <1>1, <1>2, <1>3, BegunIs
<1>5. x \in Reads
    BY <1>0, <1>2, <1>3, <1>4, LexemesAre DEF Reads
<1> QED BY <1>2, <1>3, <1>4, <1>5 DEF Same, x

LEMMA ReadLine ==
    ASSUME NEW t, NEW i, NEW r \in Reads, NEW my, Goes(r, t[i], my), t[i] = "line"
    PROVE  LET x == ReadCode(t, i, r, my)
           IN /\ x \in Reads /\ x.in = "code" /\ x.role = "code" /\ x.closed = "none" /\ Same(x, r)
<1> DEFINE x == ReadCode(t, i, r, my)
<1>1. x = InContext(r, "code", "code")
    BY LexemesAre DEF ReadCode, Reopens, Goes, Backslashes, OpensQuote
<1>2. r \in Records /\ ~r.escaped /\ "code" \in Contexts /\ "code" \in Roles
    BY LexemesAre DEF Reads, Contexts, Roles, Goes
<1> HIDE DEF x
<1>3. x \in Records /\ x.in = "code" /\ x.role = "code" /\ x.closed = "none" /\ x.escaped = r.escaped /\ Same(x, r)
    BY <1>1, <1>2, InContextIs
<1>4. x \in Reads
    BY <1>2, <1>3 DEF Reads
<1> QED BY <1>3, <1>4 DEF x

BodyAt(r, c, my) ==
    IF ~my /\ (c = "ATOMIC" \/ (c = "CASE" /\ r.body > 0)) THEN r.body + 1
    ELSE IF ~my /\ c = "END" /\ r.body > 0 THEN r.body - 1 ELSE r.body

LEMMA ReadWord ==
    ASSUME NEW t, NEW i, NEW r \in Reads, NEW my, Goes(r, t[i], my), t[i] \in Lexemes,
           ~Comments(t[i], my), t[i] # "line", ~OpensQuote(t[i], r, my)
    PROVE  LET x == ReadCode(t, i, r, my)
           IN /\ x \in Reads /\ x.in = "code" /\ x.role = "code" /\ x.closed = "none"
              /\ x.piece = r.piece /\ x.body = BodyAt(r, t[i], my) /\ x.delimiter = r.delimiter
              /\ x.first = IF r.first = "none" THEN t[i] ELSE r.first
<1> DEFINE y == InContext(r, "code", "code")
           z == Begun(y, t[i])
           x == ReadCode(t, i, r, my)
           opens == ~my /\ (t[i] = "ATOMIC" \/ (t[i] = "CASE" /\ r.body > 0))
           closes == ~my /\ t[i] = "END" /\ r.body > 0
           body == IF opens THEN z.body + 1 ELSE IF closes THEN z.body - 1 ELSE z.body
<1>2. r \in Records /\ ~r.escaped /\ "code" \in Contexts /\ "code" \in Roles /\ r.body \in Nat
    BY LexemesAre DEF Reads, Records, Contexts, Roles, Goes
<1>3. y \in Records /\ y.in = "code" /\ y.role = "code" /\ y.escaped = r.escaped /\ y.closed = "none" /\ Same(y, r)
    <2> HIDE DEF y
    <2> QED BY <1>2, InContextIs DEF y
<1>4. /\ z \in Records /\ z.in = y.in /\ z.role = y.role /\ z.closed = y.closed
      /\ z.escaped = y.escaped /\ z.piece = y.piece /\ z.body = y.body
      /\ z.delimiter = y.delimiter /\ z.first = IF y.first = "none" THEN t[i] ELSE y.first
    <2> HIDE DEF y, z
    <2> QED BY <1>3, BegunIs DEF z
<1>5. x = [z EXCEPT !.body = IF opens THEN @ + 1 ELSE IF closes THEN @ - 1 ELSE @]
    BY DEF ReadCode, Reopens, Goes, Comments
<1> HIDE DEF x, y, z
<1>6. x = [z EXCEPT !.body = body]
    BY <1>4, <1>5
<1>7. body = BodyAt(r, t[i], my) /\ body \in Nat
    BY <1>2, <1>3, <1>4 DEF BodyAt, Same
<1> HIDE DEF body
<1>8. /\ x \in Records /\ x.in = z.in /\ x.role = z.role /\ x.closed = z.closed
      /\ x.escaped = z.escaped /\ x.piece = z.piece /\ x.body = body
      /\ x.delimiter = z.delimiter /\ x.first = z.first
    BY <1>4, <1>6, <1>7, BodyIs
<1>9. x \in Reads
    BY <1>2, <1>3, <1>4, <1>8 DEF Reads
<1> QED BY <1>2, <1>3, <1>4, <1>7, <1>8, <1>9 DEF Same, x

(* What one lexeme does to a reading, in a text without directives,        *)
(* commands and data.                                                      *)
Cuts(r, c) == c = "semicolon" /\ r.body = 0

InCode(r, c, x, my) ==
    /\ Reopens(r, c) => x.in = r.closed /\ x.role = "region" /\ ~x.escaped /\ Same(x, r)
    /\ ~Reopens(r, c) /\ Cuts(r, c) =>
        /\ x.in = "code" /\ x.role = "cut" /\ x.closed = "none" /\ x.first = "none"
        /\ x.piece = r.piece + 1 /\ x.body = r.body
    /\ ~Reopens(r, c) /\ ~Cuts(r, c) =>
        /\ Comments(c, my) =>
            x.in = (IF c = "/*" THEN "/*" ELSE "--") /\ x.role = "region" /\ x.depth = 1 /\ Same(x, r)
        /\ c \in Quotes \cup Dollars =>
            /\ x.in = c /\ x.role = "region" /\ ~x.escaped /\ x.piece = r.piece /\ x.body = r.body
            /\ x.first = IF r.first = "none" THEN c ELSE r.first
        /\ c = "line" => x.in = "code" /\ x.role = "code" /\ x.closed = "none" /\ Same(x, r)
        /\ ~Comments(c, my) /\ c \notin Quotes \cup Dollars /\ c # "line" =>
            /\ x.in = "code" /\ x.role = "code" /\ x.closed = "none" /\ x.piece = r.piece
            /\ x.body = BodyAt(r, c, my) /\ x.first = IF r.first = "none" THEN c ELSE r.first
            /\ ~(c \in Backslashes /\ r.first = "none" /\ ~my)

InQuotes(r, c, x, my) ==
    LET closes == c \in Ends(r.in) /\ (r.escaped => c = "E'")
    IN /\ x.role = "region" /\ Same(x, r)
       /\ closes => x.in = "code" /\ x.closed = r.in
       /\ ~closes => /\ x.in = r.in
                     /\ x.escaped <=> /\ r.in \in {"backtick", "E'"} \/ (my /\ r.in = "'")
                                      /\ c = "\\" /\ ~r.escaped

InComment(r, c, x, my) ==
    LET depth == IF c = "/*" /\ ~my THEN r.depth + 1
                 ELSE IF c = "*/" THEN r.depth - 1 ELSE r.depth
    IN /\ x.role = "region" /\ x.closed = "none" /\ Same(x, r)
       /\ x.depth = depth /\ x.in = IF depth = 0 THEN "code" ELSE "/*"

Until(r, c, x, end) ==
    x.role = "region" /\ x.closed = "none" /\ Same(x, r) /\ x.in = IF c = end THEN "code" ELSE r.in

Follows(r, c, x, my) ==
    /\ r.in = "code" => InCode(r, c, x, my)
    /\ r.in \in Quotes => InQuotes(r, c, x, my)
    /\ r.in = "/*" => InComment(r, c, x, my)
    /\ r.in = "--" => Until(r, c, x, "line")
    /\ r.in \in Dollars => Until(r, c, x, r.in)

LEMMA ReadUntil ==
    ASSUME NEW r \in Reads, NEW c, NEW end, r.in \in {"--"} \cup Dollars,
           NEW x, x = InContext(r, IF c = end THEN "code" ELSE r.in, "region")
    PROVE  x \in Reads /\ Until(r, c, x, end)
<1> DEFINE ctx == IF c = end THEN "code" ELSE r.in
<1>1. r \in Records /\ ~r.escaped /\ ctx \in Contexts /\ ctx # "/*" /\ "region" \in Roles
    BY LexemesAre DEF Reads, Contexts, Quotes, Dollars, Roles
<1>2. x = InContext(r, ctx, "region")
    OBVIOUS
<1> HIDE DEF ctx
<1>3. x \in Records /\ x.in = ctx /\ x.role = "region" /\ x.closed = "none" /\ x.escaped = r.escaped /\ Same(x, r)
    BY <1>1, <1>2, InContextIs
<1>4. x \in Reads
    BY <1>1, <1>3 DEF Reads
<1> QED BY <1>3, <1>4 DEF ctx, Until

LEMMA ReadCodeIs ==
    ASSUME NEW t, NEW i, NEW r \in Reads, r.in = "code", NEW my \in BOOLEAN, t[i] \in Lexemes
    PROVE  ReadCode(t, i, r, my) \in Reads
<1>1. CASE Reopens(r, t[i])
    BY <1>1, ReadReopens
<1>2. CASE ~Reopens(r, t[i]) /\ t[i] = r.delimiter /\ (t[i] = "semicolon" => r.body = 0)
    BY <1>2, ReadCuts
<1>3. CASE ~Reopens(r, t[i]) /\ t[i] # r.delimiter /\ t[i] = "DELIMITER" /\ r.first = "none"
    BY <1>3, ReadDirective
<1>4. CASE ~Reopens(r, t[i]) /\ t[i] # r.delimiter /\ t[i] \in Backslashes /\ r.first = "none" /\ ~my
    BY <1>4, ReadCommand
<1>5. CASE Goes(r, t[i], my)
    <2>1. CASE Comments(t[i], my)
        BY <1>5, <2>1, ReadOpensComment
    <2>2. CASE OpensQuote(t[i], r, my)
        BY <1>5, <2>2, ReadOpens
    <2>3. CASE t[i] = "line"
        BY <1>5, <2>3, ReadLine
    <2> QED BY <1>5, <2>1, <2>2, <2>3, ReadWord
<1> QED BY <1>1, <1>2, <1>3, <1>4, <1>5 DEF Goes, Backslashes

LEMMA AtCode ==
    ASSUME NEW t, NEW i, NEW r, NEW my, r.in = "code"
    PROVE  Read(t, i, r, my) = ReadCode(t, i, r, my)
BY DEF Read

LEMMA AtQuoted ==
    ASSUME NEW t, NEW i, NEW r, NEW my, r.in \in Quotes
    PROVE  Read(t, i, r, my) = ReadQuoted(t[i], r, my)
BY DEF Read, Quotes

LEMMA AtComment ==
    ASSUME NEW t, NEW i, NEW r, NEW my, r.in = "/*"
    PROVE  Read(t, i, r, my) = ReadComment(t[i], r, my)
BY DEF Read, Quotes

LEMMA AtLine ==
    ASSUME NEW t, NEW i, NEW r, NEW my, r.in = "--"
    PROVE  Read(t, i, r, my) = InContext(r, IF t[i] = "line" THEN "code" ELSE r.in, "region")
BY DEF Read, Quotes

LEMMA AtDollar ==
    ASSUME NEW t, NEW i, NEW r, NEW my, r.in \in Dollars
    PROVE  Read(t, i, r, my) = InContext(r, IF t[i] = r.in THEN "code" ELSE r.in, "region")
BY DEF Read, Quotes, Dollars

LEMMA AtOthers ==
    ASSUME NEW t, NEW i, NEW r, NEW my
    PROVE  /\ r.in = "directive" => Read(t, i, r, my) =
                [InContext(r, "code", "cut") EXCEPT !.delimiter = IF t[i] = "line" THEN @ ELSE t[i]]
           /\ r.in = "meta" => Read(t, i, r, my) =
                IF t[i] = "line" THEN NextPiece(InContext(r, "code", "cut")) ELSE r
           /\ r.in = "data" => Read(t, i, r, my) = InContext(r, IF EndsData(t, i) THEN "code" ELSE "data", "data")
BY DEF Read, Quotes, Dollars

LEMMA ReadIs ==
    ASSUME NEW t, NEW i, NEW r \in Reads, NEW my \in BOOLEAN, t[i] \in Lexemes
    PROVE  Read(t, i, r, my) \in Reads
<1>1. r \in Records /\ "code" \in Contexts /\ "data" \in Contexts /\ "cut" \in Roles /\ "data" \in Roles /\ "region" \in Roles
    BY DEF Reads, Contexts, Roles
<1>2. CASE r.in = "code"
    <2>1. ReadCode(t, i, r, my) \in Reads
        BY <1>2, ReadCodeIs
    <2> QED BY <1>2, <2>1, AtCode
<1>3. CASE r.in \in Quotes
    <2>1. ReadQuoted(t[i], r, my) \in Reads
        BY <1>3, ReadQuotedIs
    <2> QED BY <1>3, <2>1, AtQuoted
<1>4. CASE r.in = "/*"
    <2>1. ReadComment(t[i], r, my) \in Reads
        BY <1>4, ReadCommentIs
    <2> QED BY <1>4, <2>1, AtComment
<1>5. CASE r.in = "--"
    <2>1. InContext(r, IF t[i] = "line" THEN "code" ELSE r.in, "region") \in Reads
        BY <1>1, <1>5, ReadUntil
    <2> QED BY <1>5, <2>1, AtLine
<1>6. CASE r.in \in Dollars
    <2>1. InContext(r, IF t[i] = r.in THEN "code" ELSE r.in, "region") \in Reads
        BY <1>1, <1>6, ReadUntil
    <2> QED BY <1>6, <2>1, AtDollar
<1>7. CASE r.in = "directive"
    <2> DEFINE y == InContext(r, "code", "cut")
               d == IF t[i] = "line" THEN y.delimiter ELSE t[i]
    <2>1. Read(t, i, r, my) = [y EXCEPT !.delimiter = d]
        <3>1. Read(t, i, r, my) = [y EXCEPT !.delimiter = IF t[i] = "line" THEN @ ELSE t[i]]
            BY <1>7, AtOthers
        <3>2. y \in Records
            BY <1>1, InContextIs
        <3> HIDE DEF y
        <3> QED BY <3>1, <3>2 DEF Records
    <2>2. ~r.escaped
        BY <1>7, LexemesAre DEF Reads
    <2> HIDE DEF y, d
    <2>3. y \in Records /\ y.in = "code" /\ y.escaped = r.escaped
        BY <1>1, InContextIs DEF y
    <2>4. d \in Lexemes
        BY <2>3 DEF d, Records
    <2>5. [y EXCEPT !.delimiter = d] \in Records
        BY <2>3, <2>4 DEF Records
    <2>6. [y EXCEPT !.delimiter = d].in = "code" /\ [y EXCEPT !.delimiter = d].escaped = r.escaped
        BY <2>3 DEF Records
    <2> QED BY <2>1, <2>2, <2>5, <2>6 DEF Reads
<1>8. CASE r.in = "meta"
    <2> DEFINE y == InContext(r, "code", "cut")
               x == NextPiece(y)
    <2>1. CASE t[i] = "line"
        <3>1. Read(t, i, r, my) = x
            BY <1>8, <2>1, AtOthers
        <3>2. ~r.escaped
            BY <1>8, LexemesAre DEF Reads, Quotes
        <3> HIDE DEF x, y
        <3>3. y \in Records /\ y.in = "code" /\ y.escaped = r.escaped
            BY <1>1, InContextIs DEF y
        <3>4. x \in Records /\ x.in = "code" /\ x.escaped = r.escaped
            BY <3>3, NextPieceIs DEF x
        <3> QED BY <3>1, <3>2, <3>4 DEF Reads
    <2>2. CASE t[i] # "line"
        BY <1>8, <2>2, AtOthers
    <2> QED BY <2>1, <2>2
<1>9. CASE r.in = "data"
    <2> DEFINE ctx == IF EndsData(t, i) THEN "code" ELSE "data"
               x == InContext(r, ctx, "data")
    <2>1. Read(t, i, r, my) = x
        BY <1>9, AtOthers
    <2>2. ~r.escaped /\ ctx \in Contexts /\ ctx # "/*"
        BY <1>1, <1>9, LexemesAre DEF Reads, Quotes
    <2> HIDE DEF x, ctx
    <2>3. x \in Records /\ x.in = ctx /\ x.escaped = r.escaped
        BY <1>1, <2>2, InContextIs DEF x
    <2> QED BY <2>1, <2>2, <2>3 DEF Reads
<1> QED BY <1>1, <1>2, <1>3, <1>4, <1>5, <1>6, <1>7, <1>8, <1>9 DEF Records, Contexts

LEMMA ReadFollows ==
    ASSUME NEW t, NEW i, NEW r \in Reads, NEW my \in BOOLEAN, t[i] \in Lexemes, t[i] # "DELIMITER",
           r.delimiter = "semicolon", Read(t, i, r, my).in \notin {"meta", "data"},
           r.in \notin {"directive", "meta", "data"}, ~OwnQuoting(t[i], r, my)
    PROVE  /\ Follows(r, t[i], Read(t, i, r, my), my)
           /\ Read(t, i, r, my).delimiter = "semicolon" /\ Read(t, i, r, my).in # "directive"
<1> DEFINE x == Read(t, i, r, my)
           c == t[i]
<1>1. CASE r.in = "code"
    <2>1. x = ReadCode(t, i, r, my)
        BY <1>1, AtCode
    <2>2. CASE Reopens(r, c)
        <3>1. x.in = r.closed /\ x.in \in Quotes /\ x.role = "region" /\ ~x.escaped /\ Same(x, r)
            BY <1>1, <2>1, <2>2, ReadReopens
        <3> HIDE DEF x
        <3> QED BY <1>1, <2>2, <3>1, LexemesAre DEF Follows, InCode, Same, x
    <2>3. CASE ~Reopens(r, c) /\ Cuts(r, c)
        <3>1. /\ x.in = "code" \/ x.in = "data"
              /\ x.role = "cut" /\ x.closed = "none" /\ x.first = "none"
              /\ x.piece = r.piece + 1 /\ x.body = r.body /\ x.delimiter = r.delimiter
            <4>1. c = r.delimiter /\ (c = "semicolon" => r.body = 0)
                BY <2>3 DEF Cuts
            <4>2. LET y == ReadCode(t, i, r, my)
                  IN /\ y.in = IF ~my /\ r.first = "COPY" THEN "data" ELSE "code"
                     /\ y.role = "cut" /\ y.closed = "none" /\ y.first = "none"
                     /\ y.piece = r.piece + 1 /\ y.body = r.body /\ y.delimiter = r.delimiter
                BY <1>1, <2>3, <4>1, ReadCuts
            <4> HIDE DEF x, c
            <4> QED BY <2>1, <4>2
        <3>2. x.in = "code"
            BY <3>1
        <3> HIDE DEF x
        <3> QED BY <1>1, <2>3, <3>1, <3>2, LexemesAre DEF Follows, InCode, x
    <2>4. CASE ~Reopens(r, c) /\ ~Cuts(r, c)
        <3>0. ~(c \in Backslashes /\ r.first = "none" /\ ~my)
            <4> SUFFICES ASSUME c \in Backslashes, r.first = "none", ~my PROVE x.in = "meta"
                OBVIOUS
            <4>1. c # r.delimiter
                BY DEF Backslashes
            <4> QED BY <1>1, <2>1, <2>4, <4>1, ReadCommand
        <3>1. Goes(r, c, my)
            BY <1>1, <2>4, <3>0 DEF Goes, Cuts
        <3>2. CASE Comments(c, my)
            <4>1. x.in = (IF c = "/*" THEN "/*" ELSE "--") /\ x.role = "region" /\ x.depth = 1 /\ Same(x, r)
                BY <2>1, <3>1, <3>2, ReadOpensComment
            <4>2. c \notin Quotes \cup Dollars /\ c # "line"
                BY <3>2, LexemesAre DEF Comments
            <4> HIDE DEF x, c
            <4>3. InCode(r, c, x, my)
                BY <2>4, <3>2, <4>1, <4>2 DEF InCode
            <4>4. x.in # "directive" /\ x.delimiter = "semicolon"
                BY <4>1 DEF Same
            <4> QED BY <1>1, <4>3, <4>4, LexemesAre DEF Follows, x, c
        <3>3. CASE c \in Quotes \cup Dollars
            <4>1. /\ x.in = c /\ x.role = "region" /\ ~x.escaped /\ x.closed = "none"
                  /\ x.piece = r.piece /\ x.body = r.body /\ x.delimiter = r.delimiter
                  /\ x.first = IF r.first = "none" THEN c ELSE r.first
                <5>1. OpensQuote(c, r, my)
                    BY <1>1, <3>3 DEF OwnQuoting, OpensQuote, Quotes
                <5>2. Goes(r, t[i], my) /\ OpensQuote(t[i], r, my)
                    BY <3>1, <5>1
                <5> DEFINE y == ReadCode(t, i, r, my)
                <5>3. /\ y.in = t[i] /\ y.role = "region" /\ ~y.escaped /\ y.closed = "none"
                      /\ y.piece = r.piece /\ y.body = r.body /\ y.delimiter = r.delimiter
                      /\ y.first = IF r.first = "none" THEN t[i] ELSE r.first
                    BY <5>2, ReadOpens
                <5>4. x = y
                    BY <2>1
                <5> HIDE DEF x, y
                <5> QED BY <5>3, <5>4
            <4>2. ~Comments(c, my) /\ c # "line" /\ c # "directive"
                BY <3>3, LexemesAre DEF Comments
            <4> HIDE DEF x, c
            <4>3. InCode(r, c, x, my)
                BY <2>4, <3>3, <4>1, <4>2 DEF InCode
            <4> QED BY <1>1, <4>1, <4>2, <4>3, LexemesAre DEF Follows, x, c
        <3>4. CASE c = "line"
            <4>1. x.in = "code" /\ x.role = "code" /\ x.closed = "none" /\ Same(x, r)
                BY <2>1, <3>1, <3>4, ReadLine
            <4>2. ~Comments(c, my) /\ c \notin Quotes \cup Dollars
                BY <3>4, LexemesAre DEF Comments
            <4> HIDE DEF x, c
            <4>3. InCode(r, c, x, my)
                BY <2>4, <3>4, <4>1, <4>2 DEF InCode
            <4>4. x.in # "directive" /\ x.delimiter = "semicolon"
                BY <4>1 DEF Same
            <4> QED BY <1>1, <4>3, <4>4, LexemesAre DEF Follows, x, c
        <3>5. CASE ~Comments(c, my) /\ c \notin Quotes \cup Dollars /\ c # "line"
            <4>1. /\ x.in = "code" /\ x.role = "code" /\ x.closed = "none"
                  /\ x.piece = r.piece /\ x.body = BodyAt(r, c, my) /\ x.delimiter = r.delimiter
                  /\ x.first = IF r.first = "none" THEN c ELSE r.first
                <5>1. ~OpensQuote(c, r, my)
                    BY <3>5 DEF OpensQuote, Quotes
                <5> QED BY <2>1, <3>1, <3>5, <5>1, ReadWord
            <4> HIDE DEF x, c
            <4>3. InCode(r, c, x, my)
                BY <2>4, <3>0, <3>5, <4>1 DEF InCode
            <4> QED BY <1>1, <4>1, <4>3, LexemesAre DEF Follows, x, c
        <3> QED BY <3>2, <3>3, <3>4, <3>5
    <2> QED BY <2>2, <2>3, <2>4
<1>2. CASE r.in \in Quotes
    <2> DEFINE closes == c \in Ends(r.in) /\ (r.escaped => c = "E'")
    <2>1. /\ x.role = "region" /\ Same(x, r)
          /\ closes => x.in = "code" /\ x.closed = r.in
          /\ ~closes => /\ x.in = r.in
                        /\ x.escaped <=> /\ r.in \in {"backtick", "E'"} \/ (my /\ r.in = "'")
                                         /\ c = "\\" /\ ~r.escaped
        <3>1. x = ReadQuoted(c, r, my)
            BY <1>2, AtQuoted
        <3>2. c = "\\" => (/\ r.in \in {"backtick", "E'"} \/ (my /\ r.in = "'")
                           <=> r.in = "E'" \/ (my /\ r.in \in {"'", "double"}))
            BY <1>2 DEF OwnQuoting, Quotes
        <3> HIDE DEF x, c
        <3>3. /\ x.role = "region" /\ Same(x, r)
              /\ closes => x.in = "code" /\ x.closed = r.in
              /\ ~closes => /\ x.in = r.in
                            /\ x.escaped <=> /\ r.in = "E'" \/ (my /\ r.in \in {"'", "double"})
                                             /\ c = "\\" /\ ~r.escaped
            BY <1>2, <3>1, ReadQuotedIs DEF c
        <3> QED BY <3>2, <3>3
    <2>2. InQuotes(r, c, x, my)
        BY <2>1 DEF InQuotes
    <2>3. r.in \notin {"code", "/*", "--", "directive"} /\ r.in \notin Dollars
        BY <1>2, LexemesAre
    <2>4. x.in # "directive" /\ x.delimiter = "semicolon"
        BY <2>1, <2>3 DEF Same
    <2> QED BY <2>2, <2>3, <2>4 DEF Follows
<1>3. CASE r.in = "/*"
    <2>1. InComment(r, c, x, my)
        <3>1. x = ReadComment(c, r, my)
            BY <1>3, AtComment
        <3> HIDE DEF x
        <3> QED BY <1>3, <3>1, ReadCommentIs DEF InComment
    <2>2. x.in # "directive" /\ x.delimiter = "semicolon"
        BY <2>1 DEF InComment, Same
    <2> QED BY <1>3, <2>1, <2>2, LexemesAre DEF Follows
<1>4. CASE r.in \in {"--"} \cup Dollars
    <2> DEFINE end == IF r.in = "--" THEN "line" ELSE r.in
    <2>1. x = InContext(r, IF c = end THEN "code" ELSE r.in, "region")
        <3>1. CASE r.in = "--"
            BY <3>1, AtLine
        <3>2. CASE r.in \in Dollars
            <4>1. end = r.in
                BY <3>2, LexemesAre
            <4> QED BY <3>2, <4>1, AtDollar
        <3> QED BY <1>4, <3>1, <3>2
    <2>3. Until(r, c, x, end)
        <3> HIDE DEF x, c, end
        <3> QED BY <1>4, <2>1, ReadUntil
    <2>4. r.in \notin {"code", "/*"} \cup Quotes
        BY <1>4, LexemesAre
    <2>5. x.in # "directive" /\ x.delimiter = "semicolon"
        BY <1>4, <2>3, LexemesAre DEF Until, Same
    <2>6. r.in \in Dollars => end = r.in
        BY LexemesAre
    <2> HIDE DEF x, c
    <2> QED BY <1>4, <2>3, <2>4, <2>5, <2>6, LexemesAre DEF Follows, x, c
<1> QED BY <1>1, <1>2, <1>3, <1>4 DEF Reads, Records, Contexts

(* From a number to a later one, step by step.                             *)
LEMMA Upward ==
    ASSUME NEW A, NEW a \in Nat, NEW b \in Nat, a \in A, \A k \in a..(b - 1) : k \in A => k + 1 \in A
    PROVE  a..b \subseteq A
<1> DEFINE S == {n \in Nat : a + n <= b => a + n \in A}
<1>1. 0 \in S
    OBVIOUS
<1>2. ASSUME NEW n \in Nat, n \in S PROVE n + 1 \in S
    <2> SUFFICES ASSUME a + (n + 1) <= b PROVE a + (n + 1) \in A
        OBVIOUS
    <2>1. a + n \in A /\ a + n \in a..(b - 1)
        BY <1>2
    <2>2. (a + n) + 1 \in A
        BY <2>1
    <2>3. (a + n) + 1 = a + (n + 1)
        OBVIOUS
    <2> QED BY <2>2, <2>3
<1> HIDE DEF S
<1>3. Nat \subseteq S
    BY <1>1, <1>2, SetInduction
<1>4. ASSUME NEW k \in a..b PROVE k \in A
    <2>1. k - a \in Nat /\ a + (k - a) = k /\ k <= b
        OBVIOUS
    <2>2. k - a \in S
        BY <2>1, <1>3
    <2> QED BY <2>1, <2>2 DEF S
<1> QED BY <1>4

(* A text u and a reading rd of it.                                        *)
Window(u, rd, my) ==
    /\ u \in Seq(Lexemes) /\ \A k \in 1..Len(u) : u[k] # "DELIMITER"
    /\ my \in BOOLEAN
    /\ rd \in [0..Len(u) -> Reads]
    /\ \A k \in 0..Len(u) : rd[k].in \notin {"directive", "meta", "data"}
    /\ \A k \in 1..Len(u) : Follows(rd[k - 1], u[k], rd[k], my)

LEMMA WindowAt ==
    ASSUME NEW u, NEW rd, NEW my, Window(u, rd, my), NEW k \in 1..Len(u)
    PROVE  /\ rd[k - 1] \in Reads /\ rd[k] \in Reads
           /\ u[k] \in Lexemes /\ u[k] # "DELIMITER" /\ u[k] # "eof" /\ Item(u, k) = u[k]
           /\ Len(u) \in Nat /\ k \in Nat /\ k - 1 \in 0..Len(u)
           /\ my \in BOOLEAN /\ Follows(rd[k - 1], u[k], rd[k], my)
BY LexemesAre DEF Window, Item

(* A script without DELIMITER, commands of psql and the data of a COPY,    *)
(* where the editor has no rule of its own: the theorems read the text as  *)
(* its dialect does.                                                       *)
Plain ==
    /\ ByTheBook /\ "DELIMITER" \notin Range(text)
    /\ \A i \in 1..Len(text) : Reading(text, mysql)[i].in \notin {"meta", "data"}

LEMMA OutsetIs ==
    /\ Outset \in Reads /\ Outset.in = "code" /\ Outset.closed = "none" /\ Outset.first = "none"
    /\ Outset.body = 0 /\ Outset.delimiter = "semicolon" /\ Outset.piece = 1
<1>1. "code" \in Contexts /\ "cut" \in Roles /\ "semicolon" \in Lexemes
    BY DEF Contexts, Roles, Lexemes
<1> QED BY <1>1 DEF Outset, Reads, Records

LEMMA ReadingIs ==
    ASSUME NEW t \in Seq(Lexemes), NEW my \in BOOLEAN
    PROVE  /\ Reading(t, my) \in [0..Len(t) -> Reads]
           /\ Reading(t, my)[0] = Outset
           /\ \A i \in 1..Len(t) : Reading(t, my)[i] = Read(t, i, Reading(t, my)[i - 1], my)
<1> DEFINE N == Len(t)
           Is(f) == f = [i \in 0..N |-> IF i = 0 THEN Outset ELSE Read(t, i, f[i - 1], my)]
           g == [i \in 1..N |-> [r \in Reads |-> Read(t, i, r, my)]]
<1>1. N \in Nat /\ Outset \in Reads
    BY OutsetIs
<1>2. \A i \in 1..N, r \in Reads : Read(t, i, r, my) \in Reads
    <2> TAKE i \in 1..N, r \in Reads
    <2>1. t[i] \in Lexemes
        OBVIOUS
    <2> QED BY <2>1, ReadIs
<1>3. g \in [1..N -> [Reads -> Reads]]
    BY <1>2
<1>4. \A i \in 1..N, r \in Reads : g[i][r] = Read(t, i, r, my)
    OBVIOUS
<1> HIDE DEF g, N
<1>5. PICK f : Moved(N, Reads, Outset, g, f)
    BY <1>1, <1>3, Forward DEF Moves
<1>6. f \in [0..N -> Reads] /\ \A i \in 0..N : f[i] = IF i = 0 THEN Outset ELSE g[i][f[i - 1]]
    BY <1>5 DEF Moved
<1>7. \A i \in 0..N : f[i] = IF i = 0 THEN Outset ELSE Read(t, i, f[i - 1], my)
    <2> TAKE i \in 0..N
    <2>1. i # 0 => f[i - 1] \in Reads /\ i \in 1..N
        BY <1>1, <1>6
    <2> QED BY <2>1, <1>4, <1>6
<1>8. Is(f)
    BY <1>6, <1>7
<1>9. Reading(t, my) = CHOOSE x : Is(x)
    BY Zenon DEF Reading, N
<1> DEFINE h == CHOOSE x : Is(x)
<1>10. Is(h)
    BY <1>8
<1> HIDE DEF h
<1>11. DOMAIN h = 0..N /\ h = [i \in 0..N |-> h[i]] /\ h[0] = Outset
    BY <1>1, <1>10
<1>12. ASSUME NEW i \in 1..N PROVE h[i] = Read(t, i, h[i - 1], my)
    <2>1. i \in 0..N /\ i # 0
        BY <1>1
    <2> QED BY <2>1, <1>10
<1> DEFINE A == {i \in Nat : h[i] \in Reads}
<1>13. 0..N \subseteq A
    <2>1. 0 \in A
        BY <1>1, <1>11
    <2>2. ASSUME NEW k \in 0..(N - 1), k \in A PROVE k + 1 \in A
        <3>1. k + 1 \in 1..N /\ (k + 1) - 1 = k /\ k + 1 \in Nat
            BY <1>1
        <3>2. h[k + 1] = Read(t, k + 1, h[k], my)
            BY <3>1, <1>12
        <3> QED BY <3>1, <3>2, <2>2, <1>2
    <2> HIDE DEF A
    <2> QED BY <1>1, <2>1, <2>2, Upward
<1>14. h \in [0..N -> Reads]
    BY <1>11, <1>13
<1>15. Reading(t, my) = h
    BY <1>9 DEF h
<1> HIDE DEF Is
<1> QED BY <1>11, <1>12, <1>14, <1>15 DEF N

LEMMA PlainWindow ==
    ASSUME NEW t \in Seq(Lexemes), NEW my \in BOOLEAN, "DELIMITER" \notin Range(t),
           \A i \in 1..Len(t) : /\ Reading(t, my)[i].in \notin {"meta", "data"}
                                /\ ~OwnQuoting(t[i], Reading(t, my)[i - 1], my)
    PROVE  /\ Window(t, Reading(t, my), my)
           /\ \A i \in 0..Len(t) : Reading(t, my)[i].delimiter = "semicolon"
<1> DEFINE rd == Reading(t, my)
           N == Len(t)
           A == {i \in Nat : /\ rd[i].delimiter = "semicolon" /\ rd[i].in \notin {"meta", "data", "directive"}
                             /\ i # 0 => Follows(rd[i - 1], t[i], rd[i], my)}
<1>1. /\ rd \in [0..N -> Reads] /\ rd[0] = Outset /\ N \in Nat
      /\ \A i \in 1..N : rd[i] = Read(t, i, rd[i - 1], my)
    BY ReadingIs
<1>2. \A i \in 1..N : /\ t[i] \in Lexemes /\ t[i] # "DELIMITER" /\ rd[i].in \notin {"meta", "data"}
                       /\ ~OwnQuoting(t[i], rd[i - 1], my)
    BY DEF Range
<1> HIDE DEF rd, N
<1>3. 0 \in A
    BY <1>1, OutsetIs
<1>4. ASSUME NEW k \in 0..(N - 1), k \in A PROVE k + 1 \in A
    <2>1. k + 1 \in 1..N /\ (k + 1) - 1 = k /\ k + 1 \in Nat /\ k \in 0..N
        BY <1>1
    <2>2. rd[k + 1] = Read(t, k + 1, rd[k], my)
        BY <2>1, <1>1
    <2>3. /\ t[k + 1] \in Lexemes /\ t[k + 1] # "DELIMITER" /\ rd[k + 1].in \notin {"meta", "data"}
          /\ ~OwnQuoting(t[k + 1], rd[k], my)
        BY <2>1, <1>2
    <2>4. rd[k] \in Reads
        BY <2>1, <1>1
    <2>5. /\ Follows(rd[k], t[k + 1], rd[k + 1], my)
          /\ rd[k + 1].delimiter = "semicolon" /\ rd[k + 1].in # "directive"
        <3>1. rd[k].delimiter = "semicolon" /\ rd[k].in \notin {"directive", "meta", "data"}
            BY <1>4
        <3>2. Read(t, k + 1, rd[k], my).in \notin {"meta", "data"}
            BY <2>2, <2>3
        <3> HIDE DEF A
        <3>3. /\ Follows(rd[k], t[k + 1], Read(t, k + 1, rd[k], my), my)
              /\ Read(t, k + 1, rd[k], my).delimiter = "semicolon"
              /\ Read(t, k + 1, rd[k], my).in # "directive"
            BY <2>3, <2>4, <3>1, <3>2, ReadFollows
        <3> QED BY <2>2, <3>3
    <2> QED BY <2>1, <2>3, <2>5
<1>5. 0..N \subseteq A
    <2> HIDE DEF A
    <2> QED BY <1>1, <1>3, <1>4, Upward
<1>6. \A i \in 0..N : rd[i].delimiter = "semicolon" /\ rd[i].in \notin {"meta", "data", "directive"}
    BY <1>5
<1>7. \A i \in 1..N : Follows(rd[i - 1], t[i], rd[i], my)
    <2> TAKE i \in 1..N
    <2>1. i \in 0..N /\ i # 0
        BY <1>1
    <2> QED BY <2>1, <1>5
<1>8. Window(t, rd, my)
    BY <1>1, <1>2, <1>6, <1>7 DEF Window, N
<1> QED BY <1>6, <1>8 DEF rd, N

(* A part of a text is one, too.                                           *)
IsPart(u, rd, p, q, w, rw) ==
    w = SubSeq(u, p, q) /\ rw = [k \in 0..(q - p + 1) |-> rd[k + p - 1]]
Shifted(u, rd, p, q, w, rw) ==
    /\ Len(w) = q - p + 1 /\ rw[0] = rd[p - 1]
    /\ \A k \in 1..(q - p + 1) : w[k] = u[k + p - 1] /\ rw[k] = rd[k + p - 1]

LEMMA PartWindow ==
    ASSUME NEW u, NEW rd, NEW my, Window(u, rd, my), NEW p \in 1..Len(u), NEW q \in p..Len(u),
           NEW w, NEW rw, IsPart(u, rd, p, q, w, rw)
    PROVE  Window(w, rw, my) /\ Shifted(u, rd, p, q, w, rw)
<1> DEFINE M == q - p + 1
<1>1. u \in Seq(Lexemes) /\ Len(u) \in Nat /\ my \in BOOLEAN /\ M \in Nat
    BY DEF Window
<1>a. w = SubSeq(u, p, q) /\ rw = [k \in 0..M |-> rd[k + p - 1]]
    BY DEF IsPart
<1>2. w \in Seq(Lexemes) /\ Len(w) = M /\ \A k \in 1..M : w[k] = u[k + p - 1]
    BY <1>1, <1>a
<1>3. \A k \in 0..M : k + p - 1 \in 0..Len(u)
    BY <1>1
<1>4. rw \in [0..M -> Reads] /\ \A k \in 0..M : rw[k] = rd[k + p - 1]
    BY <1>a, <1>3 DEF Window
<1> HIDE DEF M
<1>5. ASSUME NEW k \in 1..M PROVE w[k] # "DELIMITER" /\ Follows(rw[k - 1], w[k], rw[k], my)
    <2>1. k + p - 1 \in 1..Len(u) /\ k \in 0..M /\ k - 1 \in 0..M /\ (k + p - 1) - 1 = (k - 1) + p - 1
        BY <1>1 DEF M
    <2>2. u[k + p - 1] # "DELIMITER" /\ Follows(rd[(k + p - 1) - 1], u[k + p - 1], rd[k + p - 1], my)
        BY <2>1, WindowAt
    <2>3. w[k] = u[k + p - 1] /\ rw[k] = rd[k + p - 1] /\ rw[k - 1] = rd[(k + p - 1) - 1]
        BY <2>1, <1>2, <1>4
    <2> QED BY <2>2, <2>3
<1>8. ASSUME NEW k \in 0..M PROVE rw[k].in \notin {"directive", "meta", "data"}
    <2>1. rw[k] = rd[k + p - 1] /\ k + p - 1 \in 0..Len(u)
        BY <1>3, <1>4
    <2> QED BY <2>1 DEF Window
<1>6. Window(w, rw, my)
    BY <1>1, <1>2, <1>4, <1>5, <1>8 DEF Window
<1>7. 0 \in 0..M /\ 0 + p - 1 = p - 1 /\ \A k \in 1..M : k \in 0..M
    BY <1>1
<1> QED BY <1>2, <1>4, <1>6, <1>7 DEF M, Shifted

-----------------------------------------------------------------------------
(* The leaps: from where a string, a comment or a dollar-quoted body opens *)
(* to where the reading closes it.                                         *)

(* Where a scanner stands: behind the text, at code that does not go on    *)
(* with the string before it, or at the line break behind a comment.       *)
StandsAt(u, rd, i) ==
    i <= Len(u) => \/ rd[i - 1].in = "code" /\ ~Reopens(rd[i - 1], u[i])
                   \/ rd[i - 1].in = "--" /\ u[i] = "line"

(* A region from i up to e, at which the scanner stands.                   *)
Within(rd, i, e, r) == \A k \in i..(e - 1) : rd[k].role = "region" /\ Same(rd[k], r)
Leap(u, rd, i, e) ==
    e \in (i + 1)..(Len(u) + 1) /\ Within(rd, i, e, rd[i]) /\ StandsAt(u, rd, e)

LEMMA SameIs == \A x, y, z : Same(x, x) /\ (Same(x, y) /\ Same(y, z) => Same(x, z)) /\ (Same(x, y) => Same(y, x))
BY DEF Same

LEMMA WithinJoins ==
    ASSUME NEW rd, NEW i \in Nat, NEW k \in Nat, NEW e \in Nat, NEW r, i <= k,
           Within(rd, i, k, r), Within(rd, k, e, r)
    PROVE  Within(rd, i, e, r)
<1> SUFFICES ASSUME NEW m \in i..(e - 1) PROVE rd[m].role = "region" /\ Same(rd[m], r)
    BY DEF Within
<1>1. m \in i..(k - 1) \/ m \in k..(e - 1)
    OBVIOUS
<1> QED BY <1>1 DEF Within

(* Strings: what is left of one at j.                                      *)
Inside(u, rd, i, j, e) ==
    (/\ rd[j - 1].in = u[i] /\ Same(rd[j - 1], rd[i])
     /\ rd[j - 1].escaped => j <= Len(u) /\ u[j] = "E'") =>
        e \in j..(Len(u) + 1) /\ Within(rd, j, e, rd[i]) /\ StandsAt(u, rd, e)

LEMMA InsideClose ==
    ASSUME NEW u, NEW rd, NEW my, Window(u, rd, my), NEW i \in 1..Len(u), u[i] \in Quotes,
           NEW k \in (i + 1)..Len(u), rd[k - 1].in = u[i], Same(rd[k - 1], rd[i]),
           u[k] \in Ends(u[i]), rd[k - 1].escaped => u[k] = "E'"
    PROVE  rd[k].in = "code" /\ rd[k].closed = u[i] /\ rd[k].role = "region" /\ Same(rd[k], rd[i])
<1>1. k \in 1..Len(u)
    BY DEF Window
<1>2. Follows(rd[k - 1], u[k], rd[k], my)
    BY <1>1, WindowAt
<1>3. InQuotes(rd[k - 1], u[k], rd[k], my)
    BY <1>2 DEF Follows
<1>4. rd[k].in = "code" /\ rd[k].closed = u[i] /\ rd[k].role = "region" /\ Same(rd[k], rd[k - 1])
    BY <1>3 DEF InQuotes
<1> QED BY <1>4, SameIs

LEMMA InsideGoes ==
    ASSUME NEW u, NEW rd, NEW my, Window(u, rd, my), NEW i \in 1..Len(u), u[i] \in Quotes,
           NEW k \in (i + 1)..Len(u), rd[k - 1].in = u[i], Same(rd[k - 1], rd[i]),
           ~(u[k] \in Ends(u[i]) /\ (rd[k - 1].escaped => u[k] = "E'"))
    PROVE  /\ rd[k].in = u[i] /\ rd[k].role = "region" /\ Same(rd[k], rd[i])
           /\ rd[k].escaped <=> Escapes(u, i, my) /\ u[k] = "\\" /\ ~rd[k - 1].escaped
<1>1. k \in 1..Len(u)
    BY DEF Window
<1>2. Follows(rd[k - 1], u[k], rd[k], my)
    BY <1>1, WindowAt
<1>3. InQuotes(rd[k - 1], u[k], rd[k], my)
    BY <1>2 DEF Follows
<1>4. /\ rd[k].in = rd[k - 1].in /\ rd[k].role = "region" /\ Same(rd[k], rd[k - 1])
      /\ rd[k].escaped <=> /\ rd[k - 1].in \in {"backtick", "E'"} \/ (my /\ rd[k - 1].in = "'")
                           /\ u[k] = "\\" /\ ~rd[k - 1].escaped
    BY <1>3 DEF InQuotes
<1>5. Escapes(u, i, my) <=> rd[k - 1].in \in {"backtick", "E'"} \/ (my /\ rd[k - 1].in = "'")
    BY DEF Escapes
<1> QED BY <1>4, <1>5, SameIs

LEMMA QuoteInside ==
    ASSUME NEW u, NEW rd, NEW my, Window(u, rd, my), NEW i \in 1..Len(u), u[i] \in Quotes,
           NEW end, QuoteEnds(u, i, my, end)
    PROVE  \A j \in (i + 1)..(Len(u) + 1) : Inside(u, rd, i, j, end[j])
<1> DEFINE N == Len(u)
           A == {n \in Nat : \A j \in (i + 1)..(N + 1) : j + n >= N + 1 => Inside(u, rd, i, j, end[j])}
<1>1. N \in Nat /\ i \in Nat
    BY DEF Window
<1>2. \A k \in Nat : end[k] = IF k > N THEN N + 1
            ELSE IF Escapes(u, i, my) /\ u[k] = "\\" /\ k < N
                 THEN end[IF u[k + 1] = "E'" THEN k + 1 ELSE k + 2]
            ELSE IF u[k] \notin Ends(u[i]) THEN end[k + 1]
            ELSE IF Item(u, k + 1) = Doubles(u[i]) THEN end[k + 2]
            ELSE k + 1
    BY DEF QuoteEnds
<1> HIDE DEF N
<1>3. 0 \in A
    <2> SUFFICES ASSUME NEW j \in (i + 1)..(N + 1), j >= N + 1 PROVE Inside(u, rd, i, j, end[j])
        OBVIOUS
    <2>1. j = N + 1 /\ j \in Nat
        BY <1>1
    <2>2. end[j] = N + 1
        BY <1>1, <1>2, <2>1
    <2>3. Within(rd, j, j, rd[i]) /\ StandsAt(u, rd, j) /\ j \in j..(N + 1)
        BY <1>1, <2>1 DEF Within, StandsAt, N
    <2> QED BY <2>1, <2>2, <2>3 DEF Inside, N
<1>4. ASSUME NEW n \in Nat, n \in A PROVE n + 1 \in A
    <2> SUFFICES ASSUME NEW j \in (i + 1)..(N + 1), j + (n + 1) >= N + 1 PROVE Inside(u, rd, i, j, end[j])
        OBVIOUS
    <2>1. CASE j + n >= N + 1
        BY <1>4, <2>1
    <2>2. CASE j <= N
        <3> SUFFICES ASSUME rd[j - 1].in = u[i], Same(rd[j - 1], rd[i]), rd[j - 1].escaped => u[j] = "E'"
                     PROVE  end[j] \in j..(N + 1) /\ Within(rd, j, end[j], rd[i]) /\ StandsAt(u, rd, end[j])
            BY DEF Inside, N
        <3>1. j \in Nat /\ j \in 1..N /\ j \in (i + 1)..N /\ j + 1 \in (i + 1)..(N + 1) /\ j + 1 \in Nat /\ (j + 1) - 1 = j
            BY <1>1, <2>2
        <3>2. Inside(u, rd, i, j + 1, end[j + 1])
            <4>1. (j + 1) + n >= N + 1
                BY <1>1
            <4> QED BY <1>4, <3>1, <4>1
        <3>3. j < N => j + 2 \in (i + 1)..(N + 1) /\ Inside(u, rd, i, j + 2, end[j + 2]) /\ (j + 2) - 1 = j + 1
            <4>1. j < N => (j + 2) + n >= N + 1 /\ j + 2 \in (i + 1)..(N + 1)
                BY <1>1
            <4> QED BY <1>1, <1>4, <4>1
        <3>4. ~(j > N) /\ j \in 1..Len(u) /\ j \in (i + 1)..Len(u)
            BY <1>1, <2>2, <3>1 DEF N
        <3> HIDE DEF A
        \* one lexeme that is read as part of the string
        <3>5. ASSUME NEW m \in (j + 1)..(N + 1), Within(rd, j, m, rd[i]), Inside(u, rd, i, m, end[m]),
                     rd[m - 1].in = u[i], Same(rd[m - 1], rd[i]),
                     rd[m - 1].escaped => m <= N /\ u[m] = "E'", end[j] = end[m]
              PROVE  end[j] \in j..(N + 1) /\ Within(rd, j, end[j], rd[i]) /\ StandsAt(u, rd, end[j])
            <4>1. end[m] \in m..(N + 1) /\ Within(rd, m, end[m], rd[i]) /\ StandsAt(u, rd, end[m])
                BY <3>5 DEF Inside, N
            <4>2. m \in Nat /\ end[m] \in Nat /\ end[m] \in j..(N + 1) /\ j <= m
                BY <1>1, <3>1, <4>1
            <4> QED BY <3>1, <3>5, <4>1, <4>2, WithinJoins
        <3>6. CASE Escapes(u, i, my) /\ u[j] = "\\" /\ j < N
            <4>1. end[j] = end[IF u[j + 1] = "E'" THEN j + 1 ELSE j + 2]
                BY <1>2, <3>1, <3>4, <3>6
            <4>2. u[j] \notin Ends(u[i]) /\ u[j] # "E'"
                BY <3>6 DEF Ends
            <4>3. rd[j].in = u[i] /\ rd[j].role = "region" /\ Same(rd[j], rd[i]) /\ rd[j].escaped
                BY <3>4, <3>6, <4>2, InsideGoes
            <4>4. Within(rd, j, j + 1, rd[i])
                BY <3>1, <4>3 DEF Within
            <4>5. CASE u[j + 1] = "E'"
                <5>1. end[j] = end[j + 1] /\ j + 1 <= N /\ j + 1 \in (j + 1)..(N + 1)
                    BY <1>1, <3>6, <4>1, <4>5
                <5> QED BY <3>1, <3>2, <3>5, <4>3, <4>4, <4>5, <5>1
            <4>6. CASE u[j + 1] # "E'"
                <5>a. end[j] = end[j + 2]
                    BY <4>1, <4>6
                <5>b. j + 2 \in (j + 1)..(N + 1) /\ j + 1 \in (i + 1)..N
                    BY <1>1, <3>1, <3>6
                <5>1. end[j] = end[j + 2] /\ j + 2 \in (j + 1)..(N + 1) /\ j + 1 \in (i + 1)..Len(u)
                    BY <5>a, <5>b DEF N
                <5>2. /\ rd[j + 1].in = u[i] /\ rd[j + 1].role = "region" /\ Same(rd[j + 1], rd[i])
                      /\ ~rd[j + 1].escaped
                    <6>1. rd[(j + 1) - 1].in = u[i] /\ Same(rd[(j + 1) - 1], rd[i]) /\ rd[(j + 1) - 1].escaped
                        BY <3>1, <4>3
                    <6>2. ~(u[j + 1] \in Ends(u[i]) /\ (rd[(j + 1) - 1].escaped => u[j + 1] = "E'"))
                        BY <4>6, <6>1
                    <6> QED BY <5>1, <6>1, <6>2, InsideGoes
                <5>3. Within(rd, j, j + 2, rd[i])
                    <6>1. \A k \in j..((j + 2) - 1) : k = j \/ k = j + 1
                        BY <3>1
                    <6> QED BY <4>3, <5>2, <6>1 DEF Within
                <5> QED BY <3>3, <3>5, <3>6, <5>1, <5>2, <5>3
            <4> QED BY <4>5, <4>6
        <3>7. CASE ~(Escapes(u, i, my) /\ u[j] = "\\" /\ j < N) /\ u[j] \notin Ends(u[i])
            <4>1. end[j] = end[j + 1]
                BY <1>2, <3>1, <3>4, <3>7
            <4>2. /\ rd[j].in = u[i] /\ rd[j].role = "region" /\ Same(rd[j], rd[i])
                  /\ rd[j].escaped <=> Escapes(u, i, my) /\ u[j] = "\\" /\ ~rd[j - 1].escaped
                BY <3>4, <3>7, InsideGoes
            <4>3. Within(rd, j, j + 1, rd[i])
                BY <3>1, <4>2 DEF Within
            <4>4. CASE ~rd[j].escaped
                <5>1. j + 1 \in (j + 1)..(N + 1)
                    BY <1>1, <3>1
                <5> QED BY <3>1, <3>2, <3>5, <4>1, <4>2, <4>3, <4>4, <5>1
            <4>5. CASE rd[j].escaped
                \* a backslash at the end of the text
                <5>1. j = N
                    BY <1>1, <3>1, <3>7, <4>2, <4>5
                <5>2. end[j] = N + 1
                    BY <1>1, <1>2, <3>1, <4>1, <5>1
                <5>3. StandsAt(u, rd, N + 1) /\ N + 1 \in j..(N + 1)
                    BY <1>1, <5>1 DEF StandsAt, N
                <5> QED BY <4>3, <5>1, <5>2, <5>3
            <4> QED BY <4>4, <4>5
        <3>8. CASE ~(Escapes(u, i, my) /\ u[j] = "\\" /\ j < N) /\ u[j] \in Ends(u[i])
            <4>1. rd[j].in = "code" /\ rd[j].closed = u[i] /\ rd[j].role = "region" /\ Same(rd[j], rd[i])
                BY <3>4, <3>8, InsideClose
            <4>2. Within(rd, j, j + 1, rd[i])
                BY <3>1, <4>1 DEF Within
            <4>3. CASE Item(u, j + 1) = Doubles(u[i])
                <5>1. end[j] = end[j + 2]
                    BY <1>2, <3>1, <3>4, <3>8, <4>3
                <5>2. Doubles(u[i]) # "eof"
                    BY LexemesAre DEF Doubles
                <5>3. j < N /\ j + 1 \in 1..Len(u) /\ u[j + 1] = Doubles(u[i])
                    BY <1>1, <3>1, <4>3, <5>2 DEF Item, N
                <5>4. Reopens(rd[j], u[j + 1])
                    BY <4>1, <5>3, LexemesAre DEF Reopens
                <5>5. Follows(rd[(j + 1) - 1], u[j + 1], rd[j + 1], my)
                    BY <5>3, WindowAt
                <5>6. InCode(rd[j], u[j + 1], rd[j + 1], my)
                    BY <3>1, <4>1, <5>5 DEF Follows
                <5>7. /\ rd[j + 1].in = u[i] /\ rd[j + 1].role = "region" /\ Same(rd[j + 1], rd[j])
                      /\ ~rd[j + 1].escaped
                    BY <4>1, <5>4, <5>6 DEF InCode
                <5>8. Same(rd[j + 1], rd[i])
                    BY <4>1, <5>7, SameIs
                <5>9. Within(rd, j, j + 2, rd[i])
                    <6>1. \A k \in j..((j + 2) - 1) : k = j \/ k = j + 1
                        BY <3>1
                    <6> QED BY <4>1, <5>7, <5>8, <6>1 DEF Within
                <5>10. j + 2 \in (j + 1)..(N + 1)
                    BY <1>1, <3>1, <5>3
                <5> QED BY <3>3, <3>5, <5>1, <5>3, <5>7, <5>8, <5>9, <5>10
            <4>4. CASE Item(u, j + 1) # Doubles(u[i])
                <5>1. end[j] = j + 1
                    BY <1>2, <3>1, <3>4, <3>8, <4>4
                <5>2. j + 1 <= Len(u) => ~Reopens(rd[j], u[j + 1])
                    <6> SUFFICES ASSUME j + 1 <= Len(u) PROVE u[j + 1] # Doubles(u[i])
                        BY <4>1 DEF Reopens
                    <6>1. j + 1 \in 1..Len(u)
                        BY <1>1, <3>1 DEF N
                    <6> QED BY <4>4, <6>1 DEF Item
                <5>3. StandsAt(u, rd, j + 1)
                    BY <3>1, <4>1, <5>2 DEF StandsAt
                <5> QED BY <3>1, <4>2, <5>1, <5>3
            <4> QED BY <4>3, <4>4
        <3> QED BY <3>6, <3>7, <3>8
    <2> QED BY <1>1, <2>1, <2>2
<1>5. Nat \subseteq A
    <2> HIDE DEF A
    <2> QED BY <1>3, <1>4, SetInduction
<1>6. ASSUME NEW j \in (i + 1)..(N + 1) PROVE Inside(u, rd, i, j, end[j])
    <2>1. N + 1 \in Nat /\ j + (N + 1) >= N + 1
        BY <1>1
    <2>2. N + 1 \in A
        <3> HIDE DEF A
        <3> QED BY <1>5, <2>1
    <2> QED BY <2>1, <2>2
<1> QED BY <1>6 DEF N

(* At code that does not go on with the string before it.                  *)
Plainly(u, rd, i) == i \in 1..Len(u) /\ rd[i - 1].in = "code" /\ ~Reopens(rd[i - 1], u[i])

LEMMA PlainlyIs ==
    ASSUME NEW u, NEW rd, NEW my, Window(u, rd, my), NEW i, Plainly(u, rd, i)
    PROVE  InCode(rd[i - 1], u[i], rd[i], my) /\ i \in 1..Len(u) /\ i \in Nat /\ Len(u) \in Nat
<1>1. i \in 1..Len(u) /\ rd[i - 1].in = "code"
    BY DEF Plainly
<1>2. Follows(rd[i - 1], u[i], rd[i], my) /\ i \in Nat /\ Len(u) \in Nat
    BY <1>1, WindowAt
<1> QED BY <1>1, <1>2 DEF Follows

LEMMA OpensIs ==
    ASSUME NEW u, NEW rd, NEW my, Window(u, rd, my), NEW i, Plainly(u, rd, i)
    PROVE  /\ Comments(u[i], my) => /\ rd[i].in = (IF u[i] = "/*" THEN "/*" ELSE "--")
                                    /\ rd[i].role = "region" /\ rd[i].depth = 1 /\ Same(rd[i], rd[i - 1])
           /\ u[i] \in Quotes \cup Dollars =>
                /\ rd[i].in = u[i] /\ rd[i].role = "region" /\ ~rd[i].escaped
                /\ rd[i].piece = rd[i - 1].piece /\ rd[i].body = rd[i - 1].body
                /\ rd[i].first = IF rd[i - 1].first = "none" THEN u[i] ELSE rd[i - 1].first
<1>1. InCode(rd[i - 1], u[i], rd[i], my) /\ ~Reopens(rd[i - 1], u[i])
    BY PlainlyIs DEF Plainly
<1>2. Comments(u[i], my) \/ u[i] \in Quotes \cup Dollars => ~Cuts(rd[i - 1], u[i])
    BY LexemesAre DEF Comments, Cuts
<1> QED BY <1>1, <1>2 DEF InCode

LEMMA QuoteLeap ==
    ASSUME NEW u, NEW rd, NEW my, Window(u, rd, my), NEW i, Plainly(u, rd, i), u[i] \in Quotes
    PROVE  Leap(u, rd, i, QuoteEnd(u, i, my))
<1>1. i \in 1..Len(u) /\ i \in Nat /\ Len(u) \in Nat
    BY PlainlyIs
<1>2. rd[i].in = u[i] /\ rd[i].role = "region" /\ ~rd[i].escaped
    BY OpensIs
<1>3. u \in Seq(Lexemes)
    BY DEF Window
<1>4. PICK end : QuoteEnds(u, i, my, end) /\ QuoteEnd(u, i, my) = end[i + 1]
    BY <1>1, <1>3, QuoteEndIs
<1>5. i + 1 \in (i + 1)..(Len(u) + 1) /\ (i + 1) - 1 = i
    BY <1>1
<1>6. Inside(u, rd, i, i + 1, end[i + 1])
    BY <1>1, <1>4, <1>5, QuoteInside
<1> DEFINE e == end[i + 1]
<1>7. e \in (i + 1)..(Len(u) + 1) /\ Within(rd, i + 1, e, rd[i]) /\ StandsAt(u, rd, e)
    BY <1>2, <1>5, <1>6, SameIs DEF Inside
<1>8. Within(rd, i, e, rd[i])
    <2>1. Within(rd, i, i + 1, rd[i])
        BY <1>1, <1>2, SameIs DEF Within
    <2>2. e \in Nat
        BY <1>1, <1>7
    <2> HIDE DEF e
    <2> QED BY <1>1, <1>7, <2>1, <2>2, WithinJoins
<1> QED BY <1>4, <1>7, <1>8 DEF Leap

(* Comments: what is left of one at k.                                     *)
LEMMA CommentInside ==
    ASSUME NEW u, NEW rd, NEW my, Window(u, rd, my), NEW i \in 1..Len(u),
           NEW end, CommentEnds(u, i, my, end)
    PROVE  \A k \in (i + 1)..(Len(u) + 1) :
                rd[k - 1].in = "/*" /\ Same(rd[k - 1], rd[i]) =>
                    LET e == end[k][rd[k - 1].depth]
                    IN e \in k..(Len(u) + 1) /\ Within(rd, k, e, rd[i]) /\ StandsAt(u, rd, e)
<1> DEFINE N == Len(u)
           E(k) == end[k][rd[k - 1].depth]
           Good(k) == rd[k - 1].in = "/*" /\ Same(rd[k - 1], rd[i]) =>
                         E(k) \in k..(N + 1) /\ Within(rd, k, E(k), rd[i]) /\ StandsAt(u, rd, E(k))
           A == {n \in Nat : \A k \in (i + 1)..(N + 1) : k + n = N + 1 => Good(k)}
<1>1. N \in Nat /\ i \in Nat
    BY DEF Window
<1>2. \A k \in Nat : \A depth \in Nat :
        end[k][depth] = IF depth = 0 \/ k > N THEN k
                        ELSE IF u[k] = "/*" /\ ~my THEN end[k + 1][depth + 1]
                        ELSE IF u[k] = "*/" THEN end[k + 1][depth - 1]
                        ELSE end[k + 1][depth]
    BY DEF CommentEnds
<1>3. \A k \in 0..N : rd[k] \in Reads /\ rd[k].depth \in Nat /\ (rd[k].in = "/*" => rd[k].depth > 0)
    BY DEF Window, Reads, Records
<1> HIDE DEF N
<1>4. 0 \in A
    <2> SUFFICES ASSUME NEW k \in (i + 1)..(N + 1), k + 0 = N + 1 PROVE Good(k)
        OBVIOUS
    <2>1. k = N + 1 /\ k \in Nat /\ k > N /\ k - 1 \in 0..N
        BY <1>1
    <2>2. E(k) = k
        BY <1>2, <1>3, <2>1
    <2> HIDE DEF E
    <2>3. Within(rd, k, k, rd[i]) /\ StandsAt(u, rd, k) /\ k \in k..(N + 1)
        BY <1>1, <2>1 DEF Within, StandsAt, N
    <2> QED BY <2>2, <2>3
<1>5. ASSUME NEW n \in Nat, n \in A PROVE n + 1 \in A
    <2> SUFFICES ASSUME NEW k \in (i + 1)..(N + 1), k + (n + 1) = N + 1 PROVE Good(k)
        <3> HIDE DEF Good
        <3> QED OBVIOUS
    <2> SUFFICES ASSUME rd[k - 1].in = "/*", Same(rd[k - 1], rd[i])
                 PROVE  E(k) \in k..(N + 1) /\ Within(rd, k, E(k), rd[i]) /\ StandsAt(u, rd, E(k))
        OBVIOUS
    <2>1. k \in 1..N /\ k \in Nat /\ k + 1 \in (i + 1)..(N + 1) /\ (k + 1) - 1 = k /\ k + 1 \in Nat
          /\ k - 1 \in 0..N /\ k \in 0..N /\ ~(k > N) /\ (k + 1) + n = N + 1
        BY <1>1
    <2>2. Good(k + 1)
        BY <1>5, <2>1
    <2> HIDE DEF A
    <2>3. Follows(rd[k - 1], u[k], rd[k], my)
        <3>1. k \in 1..Len(u)
            BY <2>1 DEF N
        <3> QED BY <3>1, WindowAt
    <2>4. InComment(rd[k - 1], u[k], rd[k], my)
        BY <2>3 DEF Follows
    <2> DEFINE d == rd[k - 1].depth
               depth == IF u[k] = "/*" /\ ~my THEN d + 1
                        ELSE IF u[k] = "*/" THEN d - 1 ELSE d
    <2>5. /\ rd[k].role = "region" /\ rd[k].closed = "none" /\ Same(rd[k], rd[k - 1])
          /\ rd[k].depth = depth /\ rd[k].in = IF depth = 0 THEN "code" ELSE "/*"
        BY <2>4 DEF InComment
    <2>6. Same(rd[k], rd[i])
        BY <2>5, SameIs
    <2>7. d \in Nat /\ d > 0
        BY <1>3, <2>1
    <2>8. E(k) = end[k + 1][rd[k].depth]
        <3>1. end[k][d] = IF d = 0 \/ k > N THEN k
                        ELSE IF u[k] = "/*" /\ ~my THEN end[k + 1][d + 1]
                        ELSE IF u[k] = "*/" THEN end[k + 1][d - 1]
                        ELSE end[k + 1][d]
            BY <1>2, <2>1, <2>7
        <3> QED BY <2>1, <2>5, <2>7, <3>1
    <2> HIDE DEF d
    <2>9. Within(rd, k, k + 1, rd[i])
        <3>1. \A m \in k..((k + 1) - 1) : m = k
            BY <2>1
        <3> QED BY <2>5, <2>6, <3>1 DEF Within
    <2>10. CASE depth = 0
        <3>1. rd[k].depth = 0 /\ rd[k].in = "code"
            BY <2>5, <2>10
        <3>2. E(k) = k + 1
            BY <1>2, <2>1, <2>8, <3>1
        <3> HIDE DEF E, Good
        <3>3. StandsAt(u, rd, k + 1)
            BY <2>1, <2>5, <3>1 DEF StandsAt, Reopens
        <3>4. k + 1 \in k..(N + 1)
            BY <2>1
        <3> QED BY <2>9, <3>2, <3>3, <3>4
    <2>11. CASE depth # 0
        <3>1. rd[k].in = "/*"
            BY <2>5, <2>11
        <3>2. E(k) = E(k + 1)
            BY <2>1, <2>8
        <3>3. E(k + 1) \in (k + 1)..(N + 1) /\ Within(rd, k + 1, E(k + 1), rd[i]) /\ StandsAt(u, rd, E(k + 1))
            BY <2>1, <2>2, <2>6, <3>1
        <3> HIDE DEF E
        <3>4. E(k + 1) \in Nat /\ E(k + 1) \in k..(N + 1)
            BY <1>1, <2>1, <3>3
        <3>5. Within(rd, k, E(k + 1), rd[i])
            BY <2>1, <2>9, <3>3, <3>4, WithinJoins
        <3> QED BY <3>2, <3>3, <3>4, <3>5
    <2> QED BY <2>10, <2>11
<1>6. Nat \subseteq A
    <2> HIDE DEF A
    <2> QED BY <1>4, <1>5, SetInduction
<1>7. ASSUME NEW k \in (i + 1)..(N + 1) PROVE Good(k)
    <2>1. (N + 1) - k \in Nat /\ k + ((N + 1) - k) = N + 1
        BY <1>1
    <2>2. (N + 1) - k \in A
        <3> HIDE DEF A
        <3> QED BY <1>6, <2>1
    <2> QED BY <2>1, <2>2
<1> QED BY <1>7 DEF N

LEMMA CommentLeap ==
    ASSUME NEW u, NEW rd, NEW my, Window(u, rd, my), NEW i, Plainly(u, rd, i), u[i] = "/*"
    PROVE  Leap(u, rd, i, CommentEnd(u, i, my))
<1>1. i \in 1..Len(u) /\ i \in Nat /\ Len(u) \in Nat
    BY PlainlyIs
<1>2. rd[i].in = "/*" /\ rd[i].role = "region" /\ rd[i].depth = 1
    BY OpensIs DEF Comments
<1>3. u \in Seq(Lexemes)
    BY DEF Window
<1>4. PICK end : CommentEnds(u, i, my, end) /\ CommentEnd(u, i, my) = end[i + 1][1]
    BY <1>1, <1>3, CommentEndIs
<1>5. i + 1 \in (i + 1)..(Len(u) + 1) /\ (i + 1) - 1 = i
    BY <1>1
<1> DEFINE e == end[i + 1][1]
<1>7. e \in (i + 1)..(Len(u) + 1) /\ Within(rd, i + 1, e, rd[i]) /\ StandsAt(u, rd, e)
    <2>1. rd[(i + 1) - 1].in = "/*" /\ Same(rd[(i + 1) - 1], rd[i]) /\ rd[(i + 1) - 1].depth = 1
        BY <1>2, <1>5, SameIs
    <2>2. end[i + 1][rd[(i + 1) - 1].depth] = e
        BY <2>1
    <2>3. LET x == end[i + 1][rd[(i + 1) - 1].depth]
          IN x \in (i + 1)..(Len(u) + 1) /\ Within(rd, i + 1, x, rd[i]) /\ StandsAt(u, rd, x)
        BY <1>1, <1>4, <1>5, <2>1, CommentInside
    <2> HIDE DEF e
    <2> QED BY <2>2, <2>3
<1>8. Within(rd, i, e, rd[i])
    <2>1. Within(rd, i, i + 1, rd[i])
        BY <1>1, <1>2, SameIs DEF Within
    <2>2. e \in Nat
        BY <1>1, <1>7
    <2> HIDE DEF e
    <2> QED BY <1>1, <1>7, <2>1, <2>2, WithinJoins
<1> QED BY <1>4, <1>7, <1>8 DEF Leap

(* The first of some lexemes.                                              *)
NoneOf(u, a, b, end) == \A k \in a..b : u[k] # end

LEMMA FirstOfIs ==
    ASSUME NEW u \in Seq(Lexemes), NEW i \in 1..(Len(u) + 1), NEW end \in Lexemes
    PROVE  /\ FirstOf(u, i, {end}) \in i..(Len(u) + 1)
           /\ FirstOf(u, i, {end}) <= Len(u) => u[FirstOf(u, i, {end})] = end
           /\ NoneOf(u, i, FirstOf(u, i, {end}) - 1, end)
<1> DEFINE N == Len(u)
           S == {k \in i..(N + 1) : Item(u, k) \in {end} \cup {"eof"}}
           m == Min(S)
<1>1. N \in Nat /\ i \in Nat
    OBVIOUS
<1>2. N + 1 \in S
    BY <1>1 DEF Item
<1>3. S \in SUBSET Nat
    BY <1>1
<1>4. FirstOf(u, i, {end}) = m
    BY DEF FirstOf
<1>5. m \in S /\ \A x \in S : m <= x
    <2> HIDE DEF S
    <2> QED BY <1>2, <1>3, MinIs
<1> HIDE DEF m
<1>6. m \in i..(N + 1)
    BY <1>5
<1>7. m <= N => u[m] = end
    <2> SUFFICES ASSUME m <= N PROVE u[m] = end
        OBVIOUS
    <2>1. m \in 1..N
        BY <1>1, <1>6
    <2>2. Item(u, m) = u[m] /\ u[m] \in Lexemes
        BY <2>1 DEF Item
    <2> QED BY <1>5, <2>2, LexemesAre
<1>8. ASSUME NEW k \in i..(m - 1) PROVE u[k] # end
    <2>1. k \in 1..N /\ k \in i..(N + 1) /\ ~(m <= k)
        BY <1>1, <1>6
    <2>2. k \notin S
        BY <1>5, <2>1
    <2> QED BY <2>1, <2>2 DEF Item
<1>9. NoneOf(u, i, m - 1, end)
    BY <1>8 DEF NoneOf
<1> QED BY <1>4, <1>6, <1>7, <1>9

(* What is read up to it in a line comment or between dollars.             *)
LEMMA LineInside ==
    ASSUME NEW u, NEW rd, NEW my, Window(u, rd, my), NEW i \in 1..Len(u), NEW end,
           \/ rd[i].in = "--" /\ end = "line"
           \/ rd[i].in \in Dollars /\ end = rd[i].in,
           rd[i].role = "region",
           NEW m \in (i + 1)..(Len(u) + 1), NoneOf(u, i + 1, m - 1, end)
    PROVE  /\ Within(rd, i, m, rd[i]) /\ rd[m - 1].in = rd[i].in /\ Same(rd[m - 1], rd[i])
           /\ m <= Len(u) => Until(rd[m - 1], u[m], rd[m], end)
<1> DEFINE A == {k \in Nat : rd[k].role = "region" /\ Same(rd[k], rd[i]) /\ rd[k].in = rd[i].in}
<1>1. i \in Nat /\ Len(u) \in Nat /\ m \in Nat /\ m - 1 \in Nat /\ m - 1 \in i..(m - 1)
    BY DEF Window
<1>2. ASSUME NEW k \in 1..Len(u), rd[k - 1].in = rd[i].in PROVE Until(rd[k - 1], u[k], rd[k], end)
    <2>1. Follows(rd[k - 1], u[k], rd[k], my)
        BY WindowAt
    <2> QED BY <1>2, <2>1, LexemesAre DEF Follows
<1>3. i \in A
    BY <1>1, SameIs
<1>4. ASSUME NEW k \in i..((m - 1) - 1), k \in A PROVE k + 1 \in A
    <2>1. k + 1 \in 1..Len(u) /\ (k + 1) - 1 = k /\ k + 1 \in (i + 1)..(m - 1) /\ k + 1 \in Nat
        BY <1>1
    <2>2. rd[k].role = "region" /\ Same(rd[k], rd[i]) /\ rd[k].in = rd[i].in
        BY <1>4
    <2>3. Until(rd[k], u[k + 1], rd[k + 1], end) /\ u[k + 1] # end
        BY <1>2, <2>1, <2>2 DEF NoneOf
    <2>4. rd[k + 1].role = "region" /\ Same(rd[k + 1], rd[k]) /\ rd[k + 1].in = rd[k].in
        BY <2>3 DEF Until
    <2> QED BY <2>1, <2>2, <2>4, SameIs
<1>5. i..(m - 1) \subseteq A
    <2> HIDE DEF A
    <2> QED BY <1>1, <1>3, <1>4, Upward
<1>6. Within(rd, i, m, rd[i])
    BY <1>5 DEF Within
<1>7. rd[m - 1].in = rd[i].in /\ Same(rd[m - 1], rd[i])
    BY <1>1, <1>5
<1>8. m <= Len(u) => m \in 1..Len(u)
    BY <1>1
<1> QED BY <1>2, <1>6, <1>7, <1>8

LEMMA LineLeap ==
    ASSUME NEW u, NEW rd, NEW my, Window(u, rd, my), NEW i, Plainly(u, rd, i), IsLineComment(u, i, my)
    PROVE  Leap(u, rd, i, LineEnd(u, i))
<1> DEFINE m == LineEnd(u, i)
<1>1. i \in 1..Len(u) /\ i \in Nat /\ Len(u) \in Nat /\ i \in 1..(Len(u) + 1) /\ u \in Seq(Lexemes)
    BY PlainlyIs DEF Window
<1>2. rd[i].in = "--" /\ rd[i].role = "region" /\ u[i] # "line"
    BY OpensIs DEF Comments, IsLineComment
<1>3. "line" \in Lexemes
    BY DEF Lexemes
<1>4. m \in i..(Len(u) + 1) /\ (m <= Len(u) => u[m] = "line") /\ NoneOf(u, i, m - 1, "line")
    BY <1>1, <1>3, FirstOfIs DEF LineEnd
<1> HIDE DEF m
<1>5. m \in (i + 1)..(Len(u) + 1) /\ NoneOf(u, i + 1, m - 1, "line")
    <2>1. m # i
        BY <1>1, <1>2, <1>4
    <2> QED BY <1>1, <1>4, <2>1 DEF NoneOf
<1>6. Within(rd, i, m, rd[i]) /\ rd[m - 1].in = "--"
    BY <1>1, <1>2, <1>5, LineInside
<1>7. StandsAt(u, rd, m)
    BY <1>4, <1>6 DEF StandsAt
<1> QED BY <1>5, <1>6, <1>7 DEF Leap, m

LEMMA PastIs ==
    ASSUME NEW t, NEW i \in Nat, Len(t) \in Nat
    PROVE  Past(t, i) = IF i <= Len(t) + 1 THEN i ELSE Len(t) + 1
<1> DEFINE S == {i, Len(t) + 1}
<1>1. Min(S) \in S /\ \A x \in S : Min(S) <= x
    BY MinIs
<1>2. Past(t, i) = Min(S)
    BY DEF Past
<1> QED BY <1>1, <1>2

LEMMA DollarLeap ==
    ASSUME NEW u, NEW rd, NEW my, Window(u, rd, my), NEW i, Plainly(u, rd, i), u[i] \in Dollars
    PROVE  Leap(u, rd, i, DollarEnd(u, i))
<1> DEFINE m == FirstOf(u, i + 1, {u[i]})
<1>1. /\ i \in 1..Len(u) /\ i \in Nat /\ Len(u) \in Nat /\ i + 1 \in 1..(Len(u) + 1)
      /\ u \in Seq(Lexemes) /\ u[i] \in Lexemes
    BY PlainlyIs, LexemesAre DEF Window
<1>2. rd[i].in = u[i] /\ rd[i].role = "region"
    BY OpensIs
<1>3. m \in (i + 1)..(Len(u) + 1) /\ (m <= Len(u) => u[m] = u[i]) /\ NoneOf(u, i + 1, m - 1, u[i])
    BY <1>1, FirstOfIs
<1>4. DollarEnd(u, i) = Past(u, m + 1)
    BY DEF DollarEnd
<1> HIDE DEF m
<1>5. m \in Nat /\ m + 1 \in Nat
    BY <1>1, <1>3
<1>6. Within(rd, i, m, rd[i]) /\ (m <= Len(u) => Until(rd[m - 1], u[m], rd[m], u[i])) /\ Same(rd[m - 1], rd[i])
    <2>1. rd[i].in \in Dollars /\ u[i] = rd[i].in
        BY <1>2
    <2> QED BY <1>1, <1>2, <1>3, <2>1, LineInside
<1>7. CASE m = Len(u) + 1
    <2>1. DollarEnd(u, i) = m
        BY <1>1, <1>4, <1>5, <1>7, PastIs
    <2>2. StandsAt(u, rd, m)
        BY <1>1, <1>7 DEF StandsAt
    <2> QED BY <1>3, <1>6, <2>1, <2>2 DEF Leap
<1>8. CASE m <= Len(u)
    <2>1. DollarEnd(u, i) = m + 1
        BY <1>1, <1>4, <1>5, <1>8, PastIs
    <2>2. rd[m].role = "region" /\ rd[m].closed = "none" /\ rd[m].in = "code" /\ Same(rd[m], rd[m - 1])
        BY <1>3, <1>6, <1>8 DEF Until
    <2>3. Same(rd[m], rd[i])
        BY <1>6, <2>2, SameIs
    <2>4. Within(rd, i, m + 1, rd[i])
        <3>1. \A k \in i..((m + 1) - 1) : k \in i..(m - 1) \/ k = m
            BY <1>1, <1>5
        <3> QED BY <1>6, <2>2, <2>3, <3>1 DEF Within
    <2>5. StandsAt(u, rd, m + 1)
        <3>1. (m + 1) - 1 = m
            BY <1>5
        <3> QED BY <2>2, <3>1 DEF StandsAt, Reopens
    <2>6. m + 1 \in (i + 1)..(Len(u) + 1)
        BY <1>1, <1>3, <1>5, <1>8
    <2> QED BY <2>1, <2>4, <2>5, <2>6 DEF Leap
<1> QED BY <1>1, <1>3, <1>5, <1>7, <1>8

-----------------------------------------------------------------------------
(* Behind any other lexeme the scanner stands at code again.               *)
LEMMA OneLexeme ==
    ASSUME NEW u, NEW rd, NEW my, Window(u, rd, my), NEW i, Plainly(u, rd, i),
           ~Comments(u[i], my), u[i] \notin Quotes \cup Dollars
    PROVE  /\ StandsAt(u, rd, i + 1) /\ rd[i].in = "code" /\ rd[i].closed = "none"
           /\ Cuts(rd[i - 1], u[i]) => /\ rd[i].role = "cut" /\ rd[i].first = "none"
                                       /\ rd[i].piece = rd[i - 1].piece + 1 /\ rd[i].body = rd[i - 1].body
           /\ ~Cuts(rd[i - 1], u[i]) /\ u[i] = "line" => rd[i].role = "code" /\ Same(rd[i], rd[i - 1])
           /\ ~Cuts(rd[i - 1], u[i]) /\ u[i] # "line" =>
                /\ rd[i].role = "code" /\ rd[i].piece = rd[i - 1].piece
                /\ rd[i].body = BodyAt(rd[i - 1], u[i], my)
                /\ rd[i].first = IF rd[i - 1].first = "none" THEN u[i] ELSE rd[i - 1].first
                /\ ~(u[i] \in Backslashes /\ rd[i - 1].first = "none" /\ ~my)
<1>1. InCode(rd[i - 1], u[i], rd[i], my) /\ ~Reopens(rd[i - 1], u[i]) /\ i \in Nat
    BY PlainlyIs DEF Plainly
<1>2. rd[i].in = "code" /\ rd[i].closed = "none"
    BY <1>1 DEF InCode
<1>3. StandsAt(u, rd, i + 1)
    <2>1. (i + 1) - 1 = i
        BY <1>1
    <2> QED BY <1>2, <2>1 DEF StandsAt, Reopens
<1> QED BY <1>1, <1>2, <1>3 DEF InCode

(* At the line break behind a comment.                                     *)
LEMMA BehindComment ==
    ASSUME NEW u, NEW rd, NEW my, Window(u, rd, my), NEW i \in 1..Len(u), rd[i - 1].in = "--", u[i] = "line"
    PROVE  StandsAt(u, rd, i + 1) /\ rd[i].in = "code" /\ rd[i].role = "region" /\ Same(rd[i], rd[i - 1])
<1>1. Follows(rd[i - 1], u[i], rd[i], my) /\ i \in Nat
    BY WindowAt
<1>2. Until(rd[i - 1], u[i], rd[i], "line")
    BY <1>1 DEF Follows
<1>3. rd[i].in = "code" /\ rd[i].closed = "none" /\ rd[i].role = "region" /\ Same(rd[i], rd[i - 1])
    BY <1>2 DEF Until
<1>4. StandsAt(u, rd, i + 1)
    <2>1. (i + 1) - 1 = i
        BY <1>1
    <2> QED BY <1>3, <2>1 DEF StandsAt, Reopens
<1> QED BY <1>3, <1>4

-----------------------------------------------------------------------------
(* stripSqlToCode.                                                         *)

(* What stripSqlToCode has seen of a text that is one statement, up to     *)
(* where it stands.                                                        *)
Uncut(u, rd) == \A k \in 1..Len(u) : rd[k].role # "cut"
SeenSoFar(u, rd, s) ==
    /\ s.i \in 1..(Len(u) + 1) /\ StandsAt(u, rd, s.i)
    /\ s.seen \subseteq 1..(s.i - 1)
    /\ \A k \in 1..(s.i - 1) : u[k] # "line" => (k \in s.seen <=> rd[k].role = "code")
Strips(u, rd) == {s \in [i : Nat, seen : SUBSET Nat] : SeenSoFar(u, rd, s)}

LEMMA StripLeaps ==
    ASSUME NEW u, NEW rd, NEW s \in Strips(u, rd), s.i <= Len(u), Len(u) \in Nat,
           NEW e, Leap(u, rd, s.i, e)
    PROVE  [s EXCEPT !.i = e] \in Strips(u, rd) /\ [s EXCEPT !.i = e].i > s.i
<1> DEFINE z == [s EXCEPT !.i = e]
<1>1. s \in [i : Nat, seen : SUBSET Nat] /\ SeenSoFar(u, rd, s)
    BY DEF Strips
<1>2. e \in (s.i + 1)..(Len(u) + 1) /\ e \in Nat /\ Within(rd, s.i, e, rd[s.i]) /\ StandsAt(u, rd, e) /\ s.i \in Nat
    BY <1>1 DEF Leap
<1>3. z \in [i : Nat, seen : SUBSET Nat] /\ z.i = e /\ z.seen = s.seen
    BY <1>1, <1>2
<1> HIDE DEF z
<1>4. s.seen \subseteq 1..(s.i - 1) /\ \A k \in 1..(s.i - 1) : u[k] # "line" => (k \in s.seen <=> rd[k].role = "code")
    BY <1>1 DEF SeenSoFar
<1>5. ASSUME NEW k \in 1..(e - 1), u[k] # "line" PROVE k \in s.seen <=> rd[k].role = "code"
    <2>1. CASE k \in 1..(s.i - 1)
        BY <1>4, <1>5, <2>1
    <2>2. CASE k \in s.i..(e - 1)
        <3>1. rd[k].role = "region"
            BY <1>2, <2>2 DEF Within
        <3>2. k \notin s.seen
            BY <1>2, <1>4, <2>2
        <3> QED BY <3>1, <3>2
    <2> QED BY <1>2, <2>1, <2>2
<1>6. SeenSoFar(u, rd, z)
    <2>1. e \in 1..(Len(u) + 1) /\ s.seen \subseteq 1..(e - 1)
        BY <1>2, <1>4
    <2> QED BY <1>2, <1>3, <1>5, <2>1 DEF SeenSoFar
<1> QED BY <1>2, <1>3, <1>6 DEF Strips, z

LEMMA StripSees ==
    ASSUME NEW u, NEW rd, NEW s \in Strips(u, rd), s.i <= Len(u), Len(u) \in Nat,
           StandsAt(u, rd, s.i + 1), u[s.i] # "line" => rd[s.i].role = "code",
           NEW z, z = [i |-> s.i + 1, seen |-> s.seen \cup {s.i}]
    PROVE  z \in Strips(u, rd) /\ z.i > s.i
<1>1. s \in [i : Nat, seen : SUBSET Nat] /\ SeenSoFar(u, rd, s) /\ s.i \in Nat
    BY DEF Strips
<1>2. z \in [i : Nat, seen : SUBSET Nat] /\ z.i = s.i + 1 /\ z.seen = s.seen \cup {s.i}
    BY <1>1
<1>4. /\ s.seen \subseteq 1..(s.i - 1) /\ s.i \in 1..(Len(u) + 1)
      /\ \A k \in 1..(s.i - 1) : u[k] # "line" => (k \in s.seen <=> rd[k].role = "code")
    BY <1>1 DEF SeenSoFar
<1>5. ASSUME NEW k \in 1..((s.i + 1) - 1), u[k] # "line" PROVE k \in s.seen \cup {s.i} <=> rd[k].role = "code"
    <2>1. CASE k \in 1..(s.i - 1)
        <3>1. k # s.i
            BY <1>1, <2>1
        <3> QED BY <1>4, <1>5, <2>1, <3>1
    <2>2. CASE k = s.i
        BY <1>5, <2>2
    <2> QED BY <1>1, <2>1, <2>2
<1>6. SeenSoFar(u, rd, z)
    <2>1. s.i + 1 \in 1..(Len(u) + 1) /\ s.seen \cup {s.i} \subseteq 1..((s.i + 1) - 1)
        BY <1>1, <1>4
    <2> QED BY <1>2, <1>5, <2>1 DEF SeenSoFar
<1> QED BY <1>1, <1>2, <1>6 DEF Strips

LEMMA StripStepIs ==
    ASSUME NEW u, NEW rd, NEW my, Window(u, rd, my), Uncut(u, rd), NEW s \in Strips(u, rd), s.i <= Len(u)
    PROVE  StripStep(u, s, my) \in Strips(u, rd) /\ StripStep(u, s, my).i > s.i
<1> DEFINE i == s.i
           c == u[i]
           z == StripStep(u, s, my)
<1>1. i \in 1..Len(u) /\ Len(u) \in Nat /\ SeenSoFar(u, rd, s)
    BY DEF Strips, SeenSoFar, Window
<1>2. StandsAt(u, rd, i)
    BY <1>1 DEF SeenSoFar
<1>3. CASE rd[i - 1].in = "--" /\ c = "line"
    <2>1. z = [i |-> s.i + 1, seen |-> s.seen \cup {s.i}]
        BY <1>3, LexemesAre DEF StripStep, IsLineComment
    <2>2. StandsAt(u, rd, i + 1)
        BY <1>1, <1>3, BehindComment
    <2> HIDE DEF z
    <2>3. z \in Strips(u, rd) /\ z.i > s.i
        BY <1>1, <1>3, <2>1, <2>2, StripSees
    <2> QED BY <2>3 DEF z
<1>4. CASE Plainly(u, rd, i)
    <2>1. CASE c \in Quotes
        <3>1. z = [s EXCEPT !.i = QuoteEnd(u, i, my)]
            BY <2>1 DEF StripStep
        <3>2. Leap(u, rd, i, QuoteEnd(u, i, my))
            BY <1>4, <2>1, QuoteLeap
        <3> HIDE DEF z
        <3>3. z \in Strips(u, rd) /\ z.i > s.i
            BY <1>1, <3>1, <3>2, StripLeaps
        <3> QED BY <3>3 DEF z
    <2>2. CASE IsLineComment(u, i, my)
        <3>1. z = [s EXCEPT !.i = LineEnd(u, i)]
            BY <2>2, LexemesAre DEF StripStep, IsLineComment
        <3>2. Leap(u, rd, i, LineEnd(u, i))
            BY <1>4, <2>2, LineLeap
        <3> HIDE DEF z
        <3>3. z \in Strips(u, rd) /\ z.i > s.i
            BY <1>1, <3>1, <3>2, StripLeaps
        <3> QED BY <3>3 DEF z
    <2>3. CASE c = "/*"
        <3>1. z = [s EXCEPT !.i = CommentEnd(u, i, my)]
            BY <2>3, LexemesAre DEF StripStep, IsLineComment
        <3>2. Leap(u, rd, i, CommentEnd(u, i, my))
            BY <1>4, <2>3, CommentLeap
        <3> HIDE DEF z
        <3>3. z \in Strips(u, rd) /\ z.i > s.i
            BY <1>1, <3>1, <3>2, StripLeaps
        <3> QED BY <3>3 DEF z
    <2>4. CASE c \in Dollars
        <3>1. z = [s EXCEPT !.i = DollarEnd(u, i)]
            BY <2>4, LexemesAre DEF StripStep, IsLineComment
        <3>2. Leap(u, rd, i, DollarEnd(u, i))
            BY <1>4, <2>4, DollarLeap
        <3> HIDE DEF z
        <3>3. z \in Strips(u, rd) /\ z.i > s.i
            BY <1>1, <3>1, <3>2, StripLeaps
        <3> QED BY <3>3 DEF z
    <2>5. CASE c \notin Quotes \cup Dollars /\ ~IsLineComment(u, i, my) /\ c # "/*"
        <3>1. z = [i |-> s.i + 1, seen |-> s.seen \cup {s.i}]
            BY <2>5 DEF StripStep
        <3>2. ~Comments(c, my)
            BY <2>5 DEF Comments, IsLineComment
        <3> HIDE DEF z
        <3>3. StandsAt(u, rd, i + 1) /\ (Cuts(rd[i - 1], c) => rd[i].role = "cut")
              /\ (~Cuts(rd[i - 1], c) => rd[i].role = "code")
            BY <1>4, <2>5, <3>2, OneLexeme
        <3>4. rd[i].role = "code"
            BY <1>1, <3>3 DEF Uncut
        <3>5. z \in Strips(u, rd) /\ z.i > s.i
            BY <1>1, <3>1, <3>3, <3>4, StripSees
        <3> QED BY <3>5 DEF z
    <2> QED BY <2>1, <2>2, <2>3, <2>4, <2>5
<1> QED BY <1>1, <1>2, <1>3, <1>4 DEF StandsAt, Plainly

(* What is in sight of a statement is its code, line breaks apart.         *)
LEMMA StripIs ==
    ASSUME NEW u, NEW rd, NEW my, Window(u, rd, my), Uncut(u, rd), StandsAt(u, rd, 1)
    PROVE  /\ StripSqlToCode(u, my) \subseteq 1..Len(u)
           /\ \A k \in 1..Len(u) : u[k] # "line" => (k \in StripSqlToCode(u, my) <=> rd[k].role = "code")
<1> DEFINE N == Len(u)
           S == Strips(u, rd)
           a == [i |-> 1, seen |-> {}]
           Is(f) == f = [n \in 0..N |-> IF n = 0 THEN a
                                        ELSE IF f[n - 1].i > N THEN f[n - 1]
                                        ELSE StripStep(u, f[n - 1], my)]
           g == [n \in 1..N |-> [s \in S |-> IF s.i > N THEN s ELSE StripStep(u, s, my)]]
<1>1. N \in Nat
    BY DEF Window
<1>2. a \in S
    <2>1. a.i = 1 /\ a.seen = {} /\ a \in [i : Nat, seen : SUBSET Nat]
        OBVIOUS
    <2> HIDE DEF a
    <2>2. SeenSoFar(u, rd, a)
        BY <1>1, <2>1 DEF SeenSoFar
    <2> QED BY <2>1, <2>2 DEF Strips
<1>3. ASSUME NEW s \in S PROVE s.i \in 1..(N + 1) /\ (~(s.i > N) => StripStep(u, s, my) \in S /\ StripStep(u, s, my).i > s.i)
    <2>1. s.i \in 1..(N + 1)
        BY DEF Strips, SeenSoFar
    <2>2. ~(s.i > N) => s.i <= Len(u)
        BY <1>1, <2>1
    <2> QED BY <2>1, <2>2, StripStepIs
<1> HIDE DEF a, S, N
<1>4. g \in [1..N -> [S -> S]]
    BY <1>3
<1>5. \A n \in 1..N, s \in S : g[n][s] = IF s.i > N THEN s ELSE StripStep(u, s, my)
    OBVIOUS
<1> HIDE DEF g
<1>6. PICK f : Moved(N, S, a, g, f)
    BY <1>1, <1>2, <1>4, Forward DEF Moves
<1>7. f \in [0..N -> S] /\ \A n \in 0..N : f[n] = IF n = 0 THEN a ELSE g[n][f[n - 1]]
    BY <1>6 DEF Moved
<1>8. \A n \in 0..N : f[n] = IF n = 0 THEN a
                             ELSE IF f[n - 1].i > N THEN f[n - 1] ELSE StripStep(u, f[n - 1], my)
    <2> TAKE n \in 0..N
    <2>1. n # 0 => f[n - 1] \in S /\ n \in 1..N
        BY <1>1, <1>7
    <2> QED BY <2>1, <1>5, <1>7
<1>9. Is(f)
    BY <1>7, <1>8
<1>10. StripSqlToCode(u, my) = (CHOOSE x : Is(x))[N].seen
    BY Zenon DEF StripSqlToCode, N, a
<1> DEFINE h == CHOOSE x : Is(x)
<1>11. Is(h)
    BY <1>9
<1> HIDE DEF h
<1>12. \A n \in 0..N : h[n] = IF n = 0 THEN a
                              ELSE IF h[n - 1].i > N THEN h[n - 1] ELSE StripStep(u, h[n - 1], my)
    BY <1>11
<1> DEFINE A == {n \in Nat : h[n] \in S /\ (h[n].i > n \/ h[n].i > N)}
<1>13. 0 \in A
    <2>1. h[0] = a
        BY <1>1, <1>12
    <2> QED BY <1>1, <1>2, <1>3, <2>1
<1>14. ASSUME NEW n \in 0..(N - 1), n \in A PROVE n + 1 \in A
    <2>1. n + 1 \in 0..N /\ (n + 1) - 1 = n /\ n + 1 # 0 /\ n + 1 \in Nat
        BY <1>1
    <2>2. h[n + 1] = IF h[n].i > N THEN h[n] ELSE StripStep(u, h[n], my)
        BY <1>12, <2>1
    <2>3. h[n] \in S /\ (h[n].i > n \/ h[n].i > N)
        BY <1>14
    <2>4. h[n].i \in 1..(N + 1) /\ (~(h[n].i > N) => StripStep(u, h[n], my) \in S /\ StripStep(u, h[n], my).i > h[n].i)
        BY <1>3, <2>3
    <2>5. CASE h[n].i > N
        BY <2>1, <2>2, <2>3, <2>5
    <2>6. CASE ~(h[n].i > N)
        <3>1. h[n + 1] \in S /\ h[n + 1].i > h[n].i /\ h[n].i > n
            BY <2>2, <2>3, <2>4, <2>6
        <3>2. h[n + 1].i \in 1..(N + 1)
            BY <1>3, <3>1
        <3> QED BY <1>1, <2>1, <2>4, <3>1, <3>2
    <2> QED BY <2>5, <2>6
<1>15. 0..N \subseteq A
    <2> HIDE DEF A
    <2> QED BY <1>1, <1>13, <1>14, Upward
<1>16. h[N] \in S /\ h[N].i = N + 1
    <2>1. N \in A
        <3> HIDE DEF A
        <3> QED BY <1>1, <1>15
    <2>2. h[N] \in S /\ h[N].i > N
        BY <2>1
    <2> QED BY <1>1, <1>3, <2>2
<1> DEFINE z == h[N]
<1>17. SeenSoFar(u, rd, z) /\ z.i = N + 1
    BY <1>16 DEF Strips, S
<1> HIDE DEF z
<1>18. z.seen \subseteq 1..N /\ \A k \in 1..N : u[k] # "line" => (k \in z.seen <=> rd[k].role = "code")
    <2>1. (N + 1) - 1 = N
        BY <1>1
    <2> QED BY <1>17, <2>1 DEF SeenSoFar
<1>19. StripSqlToCode(u, my) = z.seen
    BY <1>10 DEF z, h
<1> QED BY <1>18, <1>19 DEF N

-----------------------------------------------------------------------------
(* The statements of a reading.                                            *)

(* A lexeme stays in the statement before it or cuts that off.             *)
LEMMA LexemeIs ==
    ASSUME NEW u, NEW rd, NEW my, Window(u, rd, my), NEW k \in 1..Len(u)
    PROVE  /\ rd[k].role \in {"code", "region", "cut"}
           /\ rd[k].role = "cut" => rd[k].piece = rd[k - 1].piece + 1
           /\ rd[k].role # "cut" =>
                rd[k].piece = rd[k - 1].piece /\ (rd[k - 1].first # "none" => rd[k].first = rd[k - 1].first)
<1> DEFINE r == rd[k - 1]
           x == rd[k]
           c == u[k]
<1>1. Follows(r, c, x, my) /\ r \in Reads /\ k - 1 \in 0..Len(u)
    BY WindowAt
<1>2. r.in \in Contexts \ {"directive", "meta", "data"}
    BY <1>1 DEF Window, Reads, Records
<1> HIDE DEF r, x, c
<1>3. CASE r.in = "code"
    <2>1. InCode(r, c, x, my)
        BY <1>1, <1>3 DEF Follows
    <2>2. CASE Reopens(r, c)
        BY <2>1, <2>2 DEF InCode, Same, x, r
    <2>3. CASE ~Reopens(r, c) /\ Cuts(r, c)
        BY <2>1, <2>3 DEF InCode, x, r
    <2>4. CASE ~Reopens(r, c) /\ ~Cuts(r, c)
        BY <2>1, <2>4 DEF InCode, Same, x, r
    <2> QED BY <2>2, <2>3, <2>4 DEF x, r
<1>4. CASE r.in \in Quotes
    BY <1>1, <1>4 DEF Follows, InQuotes, Same, x, r
<1>5. CASE r.in = "/*"
    BY <1>1, <1>5 DEF Follows, InComment, Same, x, r
<1>6. CASE r.in \in {"--"} \cup Dollars
    BY <1>1, <1>6 DEF Follows, Until, Same, x, r
<1> QED BY <1>2, <1>3, <1>4, <1>5, <1>6 DEF Contexts

LEMMA PieceIs ==
    ASSUME NEW u, NEW rd, NEW my, Window(u, rd, my), NEW k \in 0..Len(u)
    PROVE  rd[k].piece \in Nat
BY DEF Window, Reads, Records

(* Statements are numbered in their order.                                 *)
LEMMA PiecesGrow ==
    ASSUME NEW u, NEW rd, NEW my, Window(u, rd, my), NEW a \in 0..Len(u), NEW b \in a..Len(u)
    PROVE  rd[a].piece <= rd[b].piece
<1> DEFINE A == {k \in Nat : rd[k].piece \in Nat /\ rd[a].piece <= rd[k].piece}
<1>1. a \in Nat /\ b \in Nat /\ Len(u) \in Nat
    BY DEF Window
<1>2. a \in A
    BY <1>1, PieceIs
<1>3. ASSUME NEW k \in a..(b - 1), k \in A PROVE k + 1 \in A
    <2>1. k + 1 \in 1..Len(u) /\ (k + 1) - 1 = k /\ k \in 0..Len(u) /\ k + 1 \in 0..Len(u)
        BY <1>1
    <2>2. rd[k].piece \in Nat /\ rd[k + 1].piece \in Nat /\ rd[a].piece \in Nat
        BY <2>1, PieceIs
    <2>3. rd[k + 1].piece = rd[k].piece \/ rd[k + 1].piece = rd[k].piece + 1
        BY <2>1, LexemeIs
    <2> QED BY <1>1, <1>3, <2>2, <2>3
<1>4. a..b \subseteq A
    <2> HIDE DEF A
    <2> QED BY <1>1, <1>2, <1>3, Upward
<1> QED BY <1>1, <1>4

(* Within a statement they stay the same, and so does its first lexeme.    *)
LEMMA PieceStays ==
    ASSUME NEW u, NEW rd, NEW my, Window(u, rd, my), NEW a \in 0..Len(u), NEW b \in a..Len(u),
           \A k \in (a + 1)..b : rd[k].role # "cut"
    PROVE  rd[b].piece = rd[a].piece /\ (rd[a].first # "none" => rd[b].first = rd[a].first)
<1> DEFINE A == {k \in Nat : rd[k].piece = rd[a].piece /\ (rd[a].first # "none" => rd[k].first = rd[a].first)}
<1>1. a \in Nat /\ b \in Nat /\ Len(u) \in Nat
    BY DEF Window
<1>2. a \in A
    BY <1>1
<1>3. ASSUME NEW k \in a..(b - 1), k \in A PROVE k + 1 \in A
    <2>1. k + 1 \in 1..Len(u) /\ (k + 1) - 1 = k /\ k + 1 \in (a + 1)..b /\ k + 1 \in Nat
        BY <1>1
    <2>2. rd[k + 1].role # "cut"
        BY <2>1
    <2>3. rd[k + 1].piece = rd[k].piece /\ (rd[k].first # "none" => rd[k + 1].first = rd[k].first)
        BY <2>1, <2>2, LexemeIs
    <2> QED BY <1>3, <2>1, <2>3
<1>4. a..b \subseteq A
    <2> HIDE DEF A
    <2> QED BY <1>1, <1>2, <1>3, Upward
<1> QED BY <1>1, <1>4

(* A statement starts behind a cut, and line breaks do not start it.       *)
Starts(r) == r.in = "code" /\ r.closed = "none" /\ r.first = "none" /\ r.body = 0

LEMMA LinesBefore ==
    ASSUME NEW u, NEW rd, NEW my, Window(u, rd, my), NEW a \in 1..Len(u), NEW m \in a..Len(u),
           Starts(rd[a - 1]), \A k \in a..(m - 1) : u[k] = "line"
    PROVE  Starts(rd[m - 1])
<1> DEFINE A == {k \in Nat : Starts(rd[k])}
<1>1. a \in Nat /\ m \in Nat /\ Len(u) \in Nat /\ a - 1 \in Nat /\ m - 1 \in Nat /\ m - 1 \in (a - 1)..(m - 1)
    BY DEF Window
<1>2. a - 1 \in A
    BY <1>1
<1>3. ASSUME NEW k \in (a - 1)..((m - 1) - 1), k \in A PROVE k + 1 \in A
    <2>1. k + 1 \in 1..Len(u) /\ (k + 1) - 1 = k /\ k + 1 \in a..(m - 1) /\ k + 1 \in Nat
        BY <1>1
    <2>2. Starts(rd[k]) /\ u[k + 1] = "line"
        BY <1>3, <2>1
    <2>3. Plainly(u, rd, k + 1)
        BY <2>1, <2>2 DEF Plainly, Starts, Reopens
    <2>4. ~Comments("line", my) /\ "line" \notin Quotes \cup Dollars /\ ~Cuts(rd[k], "line")
        BY LexemesAre DEF Comments, Cuts
    <2>5. rd[k + 1].in = "code" /\ rd[k + 1].closed = "none" /\ Same(rd[k + 1], rd[k])
        BY <2>1, <2>2, <2>3, <2>4, OneLexeme
    <2> QED BY <2>1, <2>2, <2>5 DEF Starts, Same
<1>4. (a - 1)..(m - 1) \subseteq A
    <2> HIDE DEF A
    <2> QED BY <1>1, <1>2, <1>3, Upward
<1> QED BY <1>1, <1>4

(* What starts with COPY is a COPY until it is cut off.                    *)
LEMMA CopyStays ==
    ASSUME NEW u, NEW rd, NEW my, Window(u, rd, my), NEW m \in 1..Len(u), NEW i \in (m + 1)..(Len(u) + 1),
           Starts(rd[m - 1]), u[m] = "COPY", \A k \in m..(i - 1) : rd[k].role # "cut"
    PROVE  rd[i - 1].first = "COPY"
<1>1. m \in Nat /\ i \in Nat /\ Len(u) \in Nat /\ m \in 0..Len(u) /\ i - 1 \in m..Len(u)
    BY DEF Window
<1>2. Plainly(u, rd, m)
    BY DEF Plainly, Starts, Reopens
<1>3. ~Comments("COPY", my) /\ "COPY" \notin Quotes \cup Dollars /\ ~Cuts(rd[m - 1], "COPY")
    BY DEF Comments, Cuts, Quotes, Dollars
<1>4. rd[m].first = "COPY"
    BY <1>2, <1>3, OneLexeme DEF Starts
<1>5. \A k \in (m + 1)..(i - 1) : rd[k].role # "cut"
    BY <1>1
<1> QED BY <1>1, <1>4, <1>5, PieceStays

(* What belongs to a statement, and the part of the text that is the       *)
(* current one up to i.                                                    *)
Of(u, rd, p) ==
    {k \in 1..Len(u) : rd[k].piece = p /\ rd[k].role \in {"code", "region"} /\ u[k] # "line"}

Opened(u, rd, start, i) ==
    /\ Starts(rd[start - 1])
    /\ \A k \in start..(i - 1) : rd[k].role # "cut"
    /\ \A k \in 1..(start - 1) : rd[k].role # "cut" => rd[k].piece < rd[start - 1].piece

LEMMA OpenedPiece ==
    ASSUME NEW u, NEW rd, NEW my, Window(u, rd, my), NEW i \in 1..(Len(u) + 1), NEW start \in 1..i,
           Opened(u, rd, start, i), NEW k \in start..(i - 1)
    PROVE  rd[k].piece = rd[start - 1].piece /\ rd[k].role \in {"code", "region"}
<1>1. i \in Nat /\ start \in Nat /\ Len(u) \in Nat
    BY DEF Window
<1>2. start - 1 \in 0..Len(u) /\ k \in (start - 1)..Len(u) /\ k \in 1..Len(u) /\ (start - 1) + 1 = start
    BY <1>1
<1>3. \A m \in ((start - 1) + 1)..k : rd[m].role # "cut"
    BY <1>1, <1>2 DEF Opened
<1>4. rd[k].piece = rd[start - 1].piece
    BY <1>2, <1>3, PieceStays
<1>5. rd[k].role # "cut"
    BY DEF Opened
<1> QED BY <1>2, <1>4, <1>5, LexemeIs

LEMMA FullIs ==
    ASSUME NEW u, NEW rd, NEW my, Window(u, rd, my), NEW i \in 1..(Len(u) + 1), NEW start \in 1..i,
           Opened(u, rd, start, i), i <= Len(u) => rd[i].role = "cut"
    PROVE  Full(u, start, i) = Of(u, rd, rd[start - 1].piece)
<1> DEFINE p == rd[start - 1].piece
<1>1. i \in Nat /\ start \in Nat /\ Len(u) \in Nat
    BY DEF Window
<1>2. ASSUME NEW k \in Full(u, start, i) PROVE k \in Of(u, rd, p)
    <2>1. k \in start..(i - 1) /\ u[k] # "line" /\ k \in 1..Len(u)
        BY <1>1 DEF Full
    <2>2. rd[k].piece = p /\ rd[k].role \in {"code", "region"}
        BY <2>1, OpenedPiece
    <2> QED BY <2>1, <2>2 DEF Of
<1>3. ASSUME NEW k \in Of(u, rd, p) PROVE k \in Full(u, start, i)
    <2>1. k \in 1..Len(u) /\ rd[k].piece = p /\ rd[k].role # "cut" /\ u[k] # "line"
        BY DEF Of
    <2>2. rd[k].piece \in Nat /\ p \in Nat
        BY <1>1, <2>1, PieceIs
    <2>3. ~(k < start)
        <3> SUFFICES ASSUME k < start PROVE FALSE
            OBVIOUS
        <3>1. k \in 1..(start - 1)
            BY <1>1, <2>1
        <3>2. rd[k].piece < p
            BY <2>1, <3>1 DEF Opened
        <3> QED BY <2>1, <2>2, <3>2
    <2>4. ~(i <= k)
        <3> SUFFICES ASSUME i <= k PROVE FALSE
            OBVIOUS
        <3>1. i \in 1..Len(u) /\ i \in 0..Len(u) /\ k \in i..Len(u) /\ i - 1 \in 0..Len(u)
              /\ start - 1 \in 0..Len(u) /\ i - 1 \in (start - 1)..Len(u)
            BY <1>1, <2>1
        <3>2. rd[i].piece = rd[i - 1].piece + 1
            BY <1>1, <3>1, LexemeIs
        <3>3. rd[i].piece <= rd[k].piece /\ p <= rd[i - 1].piece
            BY <3>1, PiecesGrow
        <3>4. rd[i - 1].piece \in Nat /\ rd[i].piece \in Nat
            BY <3>1, PieceIs
        <3> HIDE DEF p
        <3> QED BY <2>1, <2>2, <3>2, <3>3, <3>4
    <2>5. k \in start..(i - 1)
        BY <1>1, <2>1, <2>3, <2>4
    <2> QED BY <2>1, <2>5 DEF Full
<1> QED BY <1>2, <1>3

-----------------------------------------------------------------------------
(* What was found.                                                         *)
FoundRecords == [start : Nat, last : Nat, end : Nat, lineNumber : Nat]

Lines(u, i) == Cardinality({k \in 1..(i - 1) : u[k] = "line"})

Statement(u, rd, f) ==
    /\ f.start \in Of(u, rd, rd[f.start].piece) /\ f.last \in Of(u, rd, rd[f.start].piece)
    /\ f.lineNumber = 1 + Lines(u, f.start)
    /\ f.start = Min(Of(u, rd, rd[f.start].piece)) /\ f.last = Max(Of(u, rd, rd[f.start].piece))
    /\ f.start \in 1..Len(u) /\ f.last \in f.start..Len(u) /\ f.last < f.end /\ f.end <= Len(u) + 1
    /\ Starts(rd[f.start - 1])
    /\ \A k \in f.start..f.last : rd[k].role # "cut"

FoundOk(u, rd, found, start) ==
    /\ found \in Seq(FoundRecords)
    /\ \A n \in 1..Len(found) : Statement(u, rd, found[n]) /\ found[n].end < start
    /\ \A m, n \in 1..Len(found) : m < n => found[m].end < found[n].start
    /\ \A k \in 1..(start - 1) : k <= Len(u) /\ rd[k].role # "cut" /\ u[k] # "line" =>
          \E n \in 1..Len(found) : rd[found[n].start].piece = rd[k].piece

(* No COPY is cut off: its data would follow.                              *)
NoData(u, rd, my) ==
    \A k \in 1..Len(u) : Plainly(u, rd, k) /\ Cuts(rd[k - 1], u[k]) /\ ~my => rd[k - 1].first # "COPY"
Dataless(u, my, found, start) ==
    ~my /\ IsCopy(u, found) => \A k \in start..Len(u) : ~EndsData(u, k)

LEMMA NewStatement ==
    ASSUME NEW u, NEW rd, NEW my, Window(u, rd, my), NEW i \in 1..(Len(u) + 1), NEW start \in 1..i,
           Opened(u, rd, start, i), i <= Len(u) => rd[i].role = "cut", Full(u, start, i) # {},
           NEW f, f.start = Min(Full(u, start, i)), f.last = Max(Full(u, start, i)), f.end = i,
           f.lineNumber = 1 + Lines(u, f.start)
    PROVE  /\ Statement(u, rd, f) /\ f.start \in start..(i - 1) /\ rd[f.start].piece = rd[start - 1].piece
           /\ f.last \in start..(i - 1)
<1> DEFINE F == Full(u, start, i)
           p == rd[start - 1].piece
<1>1. i \in Nat /\ start \in Nat /\ Len(u) \in Nat
    BY DEF Window
<1>2. F = Of(u, rd, p)
    BY FullIs
<1>3. F \in SUBSET Nat /\ F \in SUBSET (0..Len(u)) /\ F \subseteq start..(i - 1)
    BY <1>1 DEF Full
<1>4. \A k \in start..(i - 1) : k \in F <=> u[k] # "line"
    BY DEF Full
<1>0. f.start = Min(F) /\ f.last = Max(F) /\ F # {}
    OBVIOUS
<1> HIDE DEF F
<1>5. f.start \in F /\ (\A x \in F : f.start <= x) /\ f.last \in F /\ (\A x \in F : x <= f.last)
    <2>1. f.start \in F /\ \A x \in F : f.start <= x
        BY <1>0, <1>3, MinIs
    <2>2. Max(F) \in F /\ \A x \in F : x <= Max(F)
        BY <1>0, <1>1, <1>3, MaxIs
    <2> QED BY <1>0, <2>1, <2>2
<1>6. f.start \in start..(i - 1) /\ f.last \in start..(i - 1) /\ f.start <= f.last
    BY <1>3, <1>5
<1>7. rd[f.start].piece = p
    BY <1>6, OpenedPiece
<1>8. f.start \in 1..Len(u) /\ f.last \in f.start..Len(u) /\ f.last < f.end /\ f.end <= Len(u) + 1
    BY <1>1, <1>6
<1>9. Starts(rd[f.start - 1])
    <2>1. \A k \in start..(f.start - 1) : u[k] = "line"
        <3> SUFFICES ASSUME NEW k \in start..(f.start - 1) PROVE u[k] = "line"
            OBVIOUS
        <3>1. k \in start..(i - 1) /\ ~(f.start <= k)
            BY <1>1, <1>6
        <3> QED BY <1>4, <1>5, <3>1
    <2>2. start \in 1..Len(u) /\ f.start \in start..Len(u)
        BY <1>1, <1>6
    <2>3. Starts(rd[start - 1])
        BY DEF Opened
    <2> QED BY <2>1, <2>2, <2>3, LinesBefore
<1>10. \A k \in f.start..f.last : rd[k].role # "cut"
    <2> TAKE k \in f.start..f.last
    <2>1. k \in start..(i - 1)
        BY <1>1, <1>6
    <2> QED BY <2>1 DEF Opened
<1>11. Of(u, rd, rd[f.start].piece) = F
    BY <1>2, <1>7
<1>12. Statement(u, rd, f)
    BY <1>5, <1>8, <1>9, <1>10, <1>11 DEF Statement, F
<1> QED BY <1>6, <1>7, <1>12

LEMMA LinesCounted ==
    ASSUME NEW to \in Int, NEW K, K \subseteq 1..to
    PROVE  Cardinality(K) \in Nat
<1>1. IsFiniteSet(1..to)
    BY FS_Interval
<1>2. IsFiniteSet(K)
    BY <1>1, FS_Subset
<1> QED BY <1>2, FS_CardinalityType

LEMMA Emitted ==
    ASSUME NEW u, NEW rd, NEW my, Window(u, rd, my), NEW i \in 1..(Len(u) + 1), NEW start \in 1..i,
           Opened(u, rd, start, i), i <= Len(u) => rd[i].role = "cut",
           NEW found, FoundOk(u, rd, found, start)
    PROVE  FoundOk(u, rd, Emit(u, found, start, i), i + 1)
<1> DEFINE full == Full(u, start, i)
           f == [start |-> Min(full), last |-> Max(full), end |-> i,
                 lineNumber |-> 1 + Cardinality({k \in 1..(Min(full) - 1) : u[k] = "line"})]
           after == Emit(u, found, start, i)
<1>1. i \in Nat /\ start \in Nat /\ Len(u) \in Nat /\ found \in Seq(FoundRecords) /\ Len(found) \in Nat
    BY DEF Window, FoundOk
<1>2. \A n \in 1..Len(found) : Statement(u, rd, found[n]) /\ found[n].end < start /\ found[n] \in FoundRecords
    BY DEF FoundOk
<1>3. \A n \in 1..Len(found) : found[n].end \in Nat /\ found[n].end < i + 1
    <2> TAKE n \in 1..Len(found)
    <2>1. found[n].end \in Nat /\ found[n].end < start
        BY <1>2 DEF FoundRecords
    <2> QED BY <1>1, <2>1
<1>4. CASE full = {}
    <2>1. after = found
        BY <1>4 DEF Emit
    <2>2. ASSUME NEW k \in 1..((i + 1) - 1), k <= Len(u), rd[k].role # "cut", u[k] # "line"
          PROVE  \E n \in 1..Len(found) : rd[found[n].start].piece = rd[k].piece
        <3>1. k \notin start..(i - 1)
            BY <1>4, <2>2 DEF Full
        <3>2. k # i
            BY <2>2
        <3>3. k \in 1..(start - 1)
            BY <1>1, <3>1, <3>2
        <3> QED BY <2>2, <3>3 DEF FoundOk
    <2>3. \A m, n \in 1..Len(found) : m < n => found[m].end < found[n].start
        BY DEF FoundOk
    <2> HIDE DEF after
    <2>4. FoundOk(u, rd, found, i + 1)
        BY <1>1, <1>2, <1>3, <2>2, <2>3 DEF FoundOk
    <2> QED BY <2>1, <2>4 DEF after
<1>5. CASE full # {}
    <2>1. after = Append(found, f)
        BY <1>5 DEF Emit
    <2>2. f.start = Min(full) /\ f.last = Max(full) /\ f.end = i /\ f.lineNumber = 1 + Lines(u, f.start)
        BY DEF Lines
    <2>3. Min(full) \in Nat /\ Max(full) \in Nat
        <3>1. full \in SUBSET Nat /\ full \in SUBSET (0..Len(u))
            BY <1>1 DEF Full
        <3> HIDE DEF full
        <3>2. Min(full) \in full
            BY <1>5, <3>1, MinIs
        <3>3. Max(full) \in full
            BY <1>1, <1>5, <3>1, MaxIs
        <3> QED BY <3>1, <3>2, <3>3
    <2>4. f \in FoundRecords
        <3> DEFINE K == {k \in 1..(Min(full) - 1) : u[k] = "line"}
                   to == Min(full) - 1
        <3>1. to \in Int
            <4> HIDE DEF full, f, K, after
            <4> QED BY <2>3
        <3>2. K \subseteq 1..to
            OBVIOUS
        <3>3. f = [start |-> Min(full), last |-> Max(full), end |-> i, lineNumber |-> 1 + Cardinality(K)]
            OBVIOUS
        <3> HIDE DEF K, f, to
        <3>4. Cardinality(K) \in Nat
            BY <3>1, <3>2, LinesCounted
        <3> HIDE DEF full
        <3>5. 1 + Cardinality(K) \in Nat
            BY <3>4
        <3> QED BY <1>1, <2>3, <3>3, <3>5 DEF FoundRecords
    <2> HIDE DEF f
    <2>5. /\ Statement(u, rd, f) /\ f.start \in start..(i - 1) /\ rd[f.start].piece = rd[start - 1].piece
        BY <1>5, <2>2, NewStatement
    <2> HIDE DEF full, after
    <2>6. /\ after \in Seq(FoundRecords) /\ Len(after) = Len(found) + 1 /\ after[Len(found) + 1] = f
          /\ \A n \in 1..Len(found) : after[n] = found[n]
        BY <1>1, <2>1, <2>4
    <2>7. ASSUME NEW n \in 1..Len(after) PROVE Statement(u, rd, after[n]) /\ after[n].end < i + 1
        <3>1. CASE n \in 1..Len(found)
            BY <1>2, <1>3, <2>6, <3>1
        <3>2. CASE n = Len(found) + 1
            BY <1>1, <2>2, <2>5, <2>6, <3>2
        <3> QED BY <1>1, <2>6, <3>1, <3>2
    <2>8. ASSUME NEW m \in 1..Len(after), NEW n \in 1..Len(after), m < n PROVE after[m].end < after[n].start
        <3>1. m \in 1..Len(found) /\ after[m] = found[m]
            BY <1>1, <2>6, <2>8
        <3>2. CASE n \in 1..Len(found)
            <4>1. after[n] = found[n]
                BY <2>6, <3>2
            <4> QED BY <2>8, <3>1, <3>2, <4>1 DEF FoundOk
        <3>3. CASE n = Len(found) + 1
            <4>1. found[m].end < start /\ found[m].end \in Nat
                BY <1>2, <1>3, <3>1
            <4>2. after[n] = f
                BY <2>6, <3>3
            <4> QED BY <1>1, <2>5, <3>1, <4>1, <4>2
        <3> QED BY <1>1, <2>6, <3>2, <3>3
    <2>9. ASSUME NEW k \in 1..((i + 1) - 1), k <= Len(u), rd[k].role # "cut", u[k] # "line"
          PROVE  \E n \in 1..Len(after) : rd[after[n].start].piece = rd[k].piece
        <3>1. k # i
            BY <2>9
        <3>2. CASE k \in 1..(start - 1)
            <4>1. PICK n \in 1..Len(found) : rd[found[n].start].piece = rd[k].piece
                BY <2>9, <3>2 DEF FoundOk
            <4>2. n \in 1..Len(after) /\ after[n] = found[n]
                BY <1>1, <2>6
            <4> QED BY <4>1, <4>2
        <3>3. CASE k \in start..(i - 1)
            <4>1. rd[k].piece = rd[f.start].piece
                BY <2>5, <3>3, OpenedPiece
            <4>2. Len(found) + 1 \in 1..Len(after)
                BY <1>1, <2>6
            <4> QED BY <2>6, <4>1, <4>2
        <3> QED BY <1>1, <3>1, <3>2, <3>3
    <2>10. FoundOk(u, rd, after, i + 1)
        BY <2>6, <2>7, <2>8, <2>9 DEF FoundOk
    <2> QED BY <2>10 DEF after
<1> QED BY <1>4, <1>5

(* After a COPY that has no data none are skipped.                         *)
LEMMA EmittedDataless ==
    ASSUME NEW u, NEW rd, NEW my, Window(u, rd, my), NoData(u, rd, my), NEW i, Plainly(u, rd, i),
           Cuts(rd[i - 1], u[i]), NEW start \in 1..i, Opened(u, rd, start, i), rd[i].role = "cut",
           NEW found, FoundOk(u, rd, found, start), Dataless(u, my, found, start)
    PROVE  Dataless(u, my, Emit(u, found, start, i), i + 1)
<1> DEFINE full == Full(u, start, i)
           after == Emit(u, found, start, i)
<1>1. /\ i \in 1..Len(u) /\ i \in Nat /\ start \in Nat /\ Len(u) \in Nat /\ i \in 1..(Len(u) + 1)
      /\ found \in Seq(FoundRecords) /\ Len(found) \in Nat
    BY PlainlyIs DEF FoundOk
<1> SUFFICES ASSUME ~my, IsCopy(u, after), NEW j \in (i + 1)..Len(u) PROVE ~EndsData(u, j)
    BY DEF Dataless
<1>2. CASE full = {}
    <2>1. after = found
        BY <1>2 DEF Emit
    <2>2. j \in start..Len(u)
        BY <1>1
    <2> HIDE DEF after
    <2> QED BY <2>1, <2>2 DEF Dataless
<1>3. CASE full # {}
    <2>1. PICK f : /\ after = Append(found, f) /\ f.start = Min(full) /\ f.last = Max(full) /\ f.end = i
                   /\ f.lineNumber = 1 + Lines(u, f.start)
        <3> DEFINE g == [start |-> Min(full), last |-> Max(full), end |-> i,
                         lineNumber |-> 1 + Cardinality({k \in 1..(Min(full) - 1) : u[k] = "line"})]
        <3>1. after = Append(found, g)
            BY <1>3 DEF Emit
        <3>2. g.start = Min(full) /\ g.last = Max(full) /\ g.end = i /\ g.lineNumber = 1 + Lines(u, g.start)
            BY DEF Lines
        <3> HIDE DEF g, after, full
        <3> QED BY <3>1, <3>2
    <2>2. /\ Statement(u, rd, f) /\ f.start \in start..(i - 1)
        BY <1>1, <1>3, <2>1, NewStatement
    <2> HIDE DEF full, after
    <2>3. after[Len(after)] = f
        BY <1>1, <2>1
    <2>4. u[f.start] = "COPY"
        BY <2>3 DEF IsCopy
    <2>5. f.start \in 1..Len(u) /\ i \in (f.start + 1)..(Len(u) + 1) /\ \A m \in f.start..(i - 1) : m \in start..(i - 1)
        BY <1>1, <2>2
    <2>6. Starts(rd[f.start - 1]) /\ \A m \in f.start..(i - 1) : rd[m].role # "cut"
        BY <2>2, <2>5 DEF Statement, Opened
    <2>7. rd[i - 1].first = "COPY"
        BY <2>4, <2>5, <2>6, CopyStays
    <2> QED BY <1>1, <2>7 DEF NoData
<1> QED BY <1>2, <1>3

LEMMA NoDataSkipped ==
    ASSUME NEW u \in Seq(Lexemes), NEW i \in 1..Len(u), \A k \in (i + 1)..Len(u) : ~EndsData(u, k)
    PROVE  DataEnd(u, i + 1) = i + 1
<1> DEFINE ends == {k \in (i + 1)..Len(u) : u[k] = "line" /\ Item(u, k + 1) = "\\." /\ Item(u, k + 2) \in {"line", "eof"}}
<1>1. ASSUME NEW k \in ends PROVE FALSE
    <2>1. k \in (i + 1)..Len(u) /\ u[k] = "line" /\ Item(u, k + 1) = "\\." /\ Item(u, k + 2) \in {"line", "eof"}
        OBVIOUS
    <2>2. k + 1 \in 1..Len(u) /\ u[k + 1] = "\\."
        BY <2>1 DEF Item
    <2>3. k + 1 \in (i + 1)..Len(u) /\ (k + 1) - 1 = k /\ (k + 1) + 1 = k + 2 /\ k \in 1..Len(u)
        BY <2>1, <2>2
    <2>4. Item(u, k) = "line"
        BY <2>1, <2>3 DEF Item
    <2>5. EndsData(u, k + 1)
        BY <2>1, <2>2, <2>3, <2>4 DEF EndsData
    <2> QED BY <2>3, <2>5
<1>2. ends = {}
    BY <1>1
<1> QED BY <1>2 DEF DataEnd

-----------------------------------------------------------------------------
(* splitStatements.                                                        *)

(* What the scanner of splitStatements knows where it stands.              *)
ScanRecords ==
    [i : Nat, start : Nat, fresh : BOOLEAN, delimiter : {"semicolon"}, atomic : Nat, case : Nat,
     found : Seq(FoundRecords)]
Depths(r, s) == r.body = s.atomic + s.case /\ (s.case > 0 => s.atomic > 0) /\ (s.fresh <=> r.first = "none")
ScanOk(u, rd, my, s) ==
    /\ s.i \in 1..(Len(u) + 1) /\ s.start \in 1..s.i /\ StandsAt(u, rd, s.i) /\ Depths(rd[s.i - 1], s)
    /\ Opened(u, rd, s.start, s.i)
    /\ FoundOk(u, rd, s.found, s.start)
    /\ Dataless(u, my, s.found, s.start)
Scans(u, rd, my) == {s \in ScanRecords : ScanOk(u, rd, my, s)}

LEMMA IntoIs ==
    ASSUME NEW s \in ScanRecords, NEW e \in Nat
    PROVE  LET z == Into(s, e)
           IN /\ z \in ScanRecords /\ z.i = e /\ z.start = s.start /\ z.fresh = FALSE
              /\ z.atomic = s.atomic /\ z.case = s.case /\ z.found = s.found
BY DEF Into, ScanRecords

LEMMA SkipIs ==
    ASSUME NEW s \in ScanRecords, NEW e \in Nat
    PROVE  LET z == Skip(s, e)
           IN /\ z \in ScanRecords /\ z.i = e /\ z.start = s.start /\ z.fresh = s.fresh
              /\ z.atomic = s.atomic /\ z.case = s.case /\ z.found = s.found
BY DEF Skip, ScanRecords

NoneCut(rd, a, b) == \A k \in a..(b - 1) : rd[k].role # "cut"

(* It goes on within a statement.                                          *)
LEMMA ScansOn ==
    ASSUME NEW u, NEW rd, NEW my, Window(u, rd, my), NEW s \in Scans(u, rd, my), s.i <= Len(u),
           NEW z \in ScanRecords, z.i \in (s.i + 1)..(Len(u) + 1), z.start = s.start, z.found = s.found,
           StandsAt(u, rd, z.i), NoneCut(rd, s.i, z.i), Depths(rd[z.i - 1], z)
    PROVE  z \in Scans(u, rd, my) /\ z.i > s.i
<1>1. s \in ScanRecords /\ ScanOk(u, rd, my, s) /\ Len(u) \in Nat /\ s.i \in Nat
    BY DEF Scans, ScanRecords, Window
<1>2. z.i \in 1..(Len(u) + 1) /\ z.i > s.i /\ s.start \in 1..z.i /\ s.start \in Nat /\ z.i \in Nat
    BY <1>1 DEF ScanOk
<1>3. Opened(u, rd, s.start, z.i)
    <2>1. Opened(u, rd, s.start, s.i)
        BY <1>1 DEF ScanOk
    <2>2. ASSUME NEW k \in s.start..(z.i - 1) PROVE rd[k].role # "cut"
        <3>1. CASE k \in s.start..(s.i - 1)
            BY <2>1, <3>1 DEF Opened
        <3>2. CASE k \in s.i..(z.i - 1)
            BY <3>2 DEF NoneCut
        <3> QED BY <1>1, <1>2, <3>1, <3>2
    <2> QED BY <2>1, <2>2 DEF Opened
<1>4. ScanOk(u, rd, my, z)
    BY <1>1, <1>2, <1>3 DEF ScanOk
<1> QED BY <1>2, <1>4 DEF Scans

(* It leaps over a region that opens where it stands.                      *)
LEMMA LeapsOver ==
    ASSUME NEW u, NEW rd, NEW my, Window(u, rd, my), NEW s \in Scans(u, rd, my), s.i <= Len(u),
           NEW e, Leap(u, rd, s.i, e), rd[s.i].body = rd[s.i - 1].body
    PROVE  /\ rd[s.i].first = rd[s.i - 1].first => Skip(s, e) \in Scans(u, rd, my) /\ Skip(s, e).i > s.i
           /\ rd[s.i].first # "none" => Into(s, e) \in Scans(u, rd, my) /\ Into(s, e).i > s.i
<1>1. s \in ScanRecords /\ ScanOk(u, rd, my, s) /\ Len(u) \in Nat /\ s.i \in Nat
    BY DEF Scans, ScanRecords, Window
<1>2. e \in (s.i + 1)..(Len(u) + 1) /\ e \in Nat /\ Within(rd, s.i, e, rd[s.i]) /\ StandsAt(u, rd, e)
    BY <1>1 DEF Leap
<1>3. NoneCut(rd, s.i, e)
    BY <1>2 DEF Within, NoneCut
<1>4. rd[e - 1].body = rd[s.i].body /\ rd[e - 1].first = rd[s.i].first
    <2>1. e - 1 \in s.i..(e - 1)
        BY <1>1, <1>2
    <2> QED BY <1>2, <2>1 DEF Within, Same
<1>5. Depths(rd[s.i - 1], s)
    BY <1>1 DEF ScanOk
<1>6. ASSUME rd[s.i].first = rd[s.i - 1].first PROVE Skip(s, e) \in Scans(u, rd, my) /\ Skip(s, e).i > s.i
    <2> DEFINE z == Skip(s, e)
    <2>1. /\ z \in ScanRecords /\ z.i = e /\ z.start = s.start /\ z.fresh = s.fresh
          /\ z.atomic = s.atomic /\ z.case = s.case /\ z.found = s.found
        BY <1>1, <1>2, SkipIs
    <2> HIDE DEF z
    <2>2. Depths(rd[z.i - 1], z)
        BY <1>4, <1>5, <1>6, <2>1 DEF Depths
    <2>3. z \in Scans(u, rd, my) /\ z.i > s.i
        BY <1>2, <1>3, <2>1, <2>2, ScansOn
    <2> QED BY <2>3 DEF z
<1>7. ASSUME rd[s.i].first # "none" PROVE Into(s, e) \in Scans(u, rd, my) /\ Into(s, e).i > s.i
    <2> DEFINE z == Into(s, e)
    <2>1. /\ z \in ScanRecords /\ z.i = e /\ z.start = s.start /\ z.fresh = FALSE
          /\ z.atomic = s.atomic /\ z.case = s.case /\ z.found = s.found
        BY <1>1, <1>2, IntoIs
    <2> HIDE DEF z
    <2>2. Depths(rd[z.i - 1], z)
        BY <1>4, <1>5, <1>7, <2>1 DEF Depths
    <2>3. z \in Scans(u, rd, my) /\ z.i > s.i
        BY <1>2, <1>3, <2>1, <2>2, ScansOn
    <2> QED BY <2>3 DEF z
<1> QED BY <1>6, <1>7

(* It steps over one lexeme.                                               *)
LEMMA StepsOver ==
    ASSUME NEW u, NEW rd, NEW my, Window(u, rd, my), NEW s \in Scans(u, rd, my), s.i <= Len(u),
           StandsAt(u, rd, s.i + 1), rd[s.i].role # "cut",
           NEW z \in ScanRecords, z.i = s.i + 1, z.start = s.start, z.found = s.found, Depths(rd[s.i], z)
    PROVE  z \in Scans(u, rd, my) /\ z.i > s.i
<1>1. s \in ScanRecords /\ ScanOk(u, rd, my, s) /\ Len(u) \in Nat /\ s.i \in Nat
    BY DEF Scans, ScanRecords, Window
<1>2. z.i \in (s.i + 1)..(Len(u) + 1) /\ z.i - 1 = s.i
    BY <1>1
<1>3. NoneCut(rd, s.i, z.i)
    <2>1. \A k \in s.i..(z.i - 1) : k = s.i
        BY <1>1, <1>2
    <2> QED BY <2>1 DEF NoneCut
<1> QED BY <1>2, <1>3, ScansOn

LEMMA KeywordIs ==
    ASSUME NEW s \in ScanRecords, NEW c \in {"ATOMIC", "CASE", "END"}, NEW r, NEW x, Depths(r, s),
           x.body = BodyAt(r, c, FALSE), x.first # "none"
    PROVE  LET z == Keyword(s, c)
           IN z \in ScanRecords /\ z.i = s.i + 1 /\ z.start = s.start /\ z.found = s.found /\ Depths(x, z)
<1> DEFINE a == IF c = "ATOMIC" THEN s.atomic + 1
                ELSE IF c = "END" /\ s.case = 0 /\ s.atomic > 0 THEN s.atomic - 1 ELSE s.atomic
           b == IF c = "CASE" /\ s.atomic > 0 THEN s.case + 1
                ELSE IF c = "END" /\ s.atomic > 0 /\ s.case > 0 THEN s.case - 1 ELSE s.case
           y == [s EXCEPT !.atomic = a, !.case = b]
           z == Keyword(s, c)
<1>1. s.atomic \in Nat /\ s.case \in Nat /\ s.i \in Nat /\ s.i + 1 \in Nat
    BY DEF ScanRecords
<1>2. z = Into(y, s.i + 1)
    BY DEF Keyword
<1>3. a \in Nat /\ b \in Nat
    BY <1>1
<1>4. /\ (b > 0 => a > 0)
      /\ a + b = IF c = "ATOMIC" \/ (c = "CASE" /\ s.atomic + s.case > 0) THEN s.atomic + s.case + 1
                 ELSE IF c = "END" /\ s.atomic + s.case > 0 THEN s.atomic + s.case - 1 ELSE s.atomic + s.case
    BY <1>1 DEF Depths
<1> HIDE DEF a, b
<1>5. y \in ScanRecords /\ y.start = s.start /\ y.found = s.found /\ y.atomic = a /\ y.case = b
    BY <1>3 DEF ScanRecords
<1> HIDE DEF y, z
<1>6. /\ z \in ScanRecords /\ z.i = s.i + 1 /\ z.start = s.start /\ z.found = s.found
      /\ z.atomic = a /\ z.case = b /\ z.fresh = FALSE
    BY <1>1, <1>2, <1>5, IntoIs
<1>7. x.body = a + b
    BY <1>1, <1>4 DEF BodyAt, Depths
<1>8. Depths(x, z)
    BY <1>4, <1>6, <1>7 DEF Depths
<1> QED BY <1>6, <1>8 DEF z

(* It cuts a statement off.                                                *)
LEMMA CutsOff ==
    ASSUME NEW u, NEW rd, NEW my, Window(u, rd, my), NoData(u, rd, my), NEW s \in Scans(u, rd, my),
           Plainly(u, rd, s.i), Cuts(rd[s.i - 1], u[s.i])
    PROVE  Terminator(u, s, my) \in Scans(u, rd, my) /\ Terminator(u, s, my).i > s.i
<1> DEFINE i == s.i
           found == Emit(u, s.found, s.start, s.i)
           to == IF IsCopy(u, found) /\ ~my THEN DataEnd(u, s.i + 1) ELSE s.i + 1
           y == [s EXCEPT !.found = found]
           z == Terminator(u, s, my)
<1>1. /\ s \in ScanRecords /\ ScanOk(u, rd, my, s) /\ Len(u) \in Nat /\ i \in 1..Len(u) /\ i \in Nat
      /\ u \in Seq(Lexemes) /\ i + 1 \in Nat /\ i \in 1..(Len(u) + 1) /\ u[i] = "semicolon" /\ rd[i - 1].body = 0
    BY PlainlyIs DEF Scans, Window, Cuts
<1>2. s.start \in 1..i /\ Opened(u, rd, s.start, i) /\ FoundOk(u, rd, s.found, s.start)
      /\ Dataless(u, my, s.found, s.start) /\ Depths(rd[i - 1], s)
    BY <1>1 DEF ScanOk
<1>3. /\ StandsAt(u, rd, i + 1) /\ rd[i].in = "code" /\ rd[i].closed = "none" /\ rd[i].role = "cut"
      /\ rd[i].first = "none" /\ rd[i].piece = rd[i - 1].piece + 1 /\ rd[i].body = rd[i - 1].body
    <2>1. ~Comments(u[i], my) /\ u[i] \notin Quotes \cup Dollars
        BY <1>1, LexemesAre DEF Comments
    <2> QED BY <2>1, OneLexeme
<1>4. FoundOk(u, rd, found, i + 1)
    BY <1>1, <1>2, <1>3, Emitted
<1>5. Dataless(u, my, found, i + 1)
    BY <1>2, <1>3, EmittedDataless
<1>6. to = i + 1
    <2>1. CASE IsCopy(u, found) /\ ~my
        <3>1. \A k \in (i + 1)..Len(u) : ~EndsData(u, k)
            BY <1>5, <2>1 DEF Dataless
        <3>2. DataEnd(u, i + 1) = i + 1
            BY <1>1, <3>1, NoDataSkipped
        <3> QED BY <2>1, <3>2
    <2>2. CASE ~(IsCopy(u, found) /\ ~my)
        BY <2>2
    <2> QED BY <2>1, <2>2
<1>7. z = Restart(y, to)
    BY DEF Terminator
<1> HIDE DEF found, to
<1>8. found \in Seq(FoundRecords)
    BY <1>4 DEF FoundOk
<1>9. y \in ScanRecords /\ y.found = found /\ y.atomic = s.atomic /\ y.case = s.case
    BY <1>1, <1>8 DEF ScanRecords
<1> HIDE DEF y, z
<1>10. /\ z \in ScanRecords /\ z.i = i + 1 /\ z.start = i + 1 /\ z.fresh = TRUE /\ z.found = found
       /\ z.atomic = s.atomic /\ z.case = s.case
    BY <1>1, <1>6, <1>7, <1>9 DEF Restart, ScanRecords
<1>11. Depths(rd[i], z)
    BY <1>1, <1>2, <1>3, <1>10 DEF Depths
<1>12. Opened(u, rd, i + 1, i + 1)
    <2>1. Starts(rd[(i + 1) - 1])
        BY <1>1, <1>3 DEF Starts
    <2>2. \A k \in (i + 1)..((i + 1) - 1) : rd[k].role # "cut"
        BY <1>1
    <2>3. ASSUME NEW k \in 1..((i + 1) - 1), rd[k].role # "cut" PROVE rd[k].piece < rd[(i + 1) - 1].piece
        <3>1. k # i
            BY <1>3, <2>3
        <3>2. k \in 0..Len(u) /\ i - 1 \in k..Len(u) /\ i - 1 \in 0..Len(u) /\ (i + 1) - 1 = i
            BY <1>1, <3>1
        <3>3. rd[k].piece <= rd[i - 1].piece
            BY <3>2, PiecesGrow
        <3>4. rd[k].piece \in Nat /\ rd[i - 1].piece \in Nat
            BY <3>2, PieceIs
        <3> QED BY <1>3, <3>2, <3>3, <3>4
    <2> QED BY <2>1, <2>2, <2>3 DEF Opened
<1>13. ScanOk(u, rd, my, z)
    <2>1. i + 1 \in 1..(Len(u) + 1) /\ i + 1 \in 1..(i + 1) /\ (i + 1) - 1 = i
        BY <1>1
    <2> QED BY <1>3, <1>4, <1>5, <1>10, <1>11, <1>12, <2>1 DEF ScanOk
<1> QED BY <1>1, <1>10, <1>13 DEF Scans, z

(* It steps into code.                                                     *)
LEMMA StepsInto ==
    ASSUME NEW u, NEW rd, NEW my, Window(u, rd, my), NEW s \in Scans(u, rd, my), Plainly(u, rd, s.i),
           ~Comments(u[s.i], my), u[s.i] \notin Quotes \cup Dollars, u[s.i] # "line",
           ~Cuts(rd[s.i - 1], u[s.i])
    PROVE  /\ ~(s.fresh /\ u[s.i] \in Backslashes /\ ~my)
           /\ BodyAt(rd[s.i - 1], u[s.i], my) = rd[s.i - 1].body =>
                 Into(s, s.i + 1) \in Scans(u, rd, my) /\ Into(s, s.i + 1).i > s.i
           /\ u[s.i] \in {"ATOMIC", "CASE", "END"} /\ ~my =>
                 Keyword(s, u[s.i]) \in Scans(u, rd, my) /\ Keyword(s, u[s.i]).i > s.i
<1> DEFINE i == s.i
           c == u[i]
<1>1. /\ s \in ScanRecords /\ ScanOk(u, rd, my, s) /\ Len(u) \in Nat /\ i \in 1..Len(u) /\ i \in Nat
      /\ i <= Len(u) /\ c \in Lexemes /\ i + 1 \in Nat
    BY PlainlyIs, WindowAt DEF Scans
<1>2. Depths(rd[i - 1], s)
    BY <1>1 DEF ScanOk
<1>3. /\ StandsAt(u, rd, i + 1) /\ rd[i].role = "code" /\ rd[i].body = BodyAt(rd[i - 1], c, my)
      /\ rd[i].first = IF rd[i - 1].first = "none" THEN c ELSE rd[i - 1].first
      /\ ~(c \in Backslashes /\ rd[i - 1].first = "none" /\ ~my)
    BY OneLexeme
<1>4. rd[i].first # "none" /\ rd[i].role # "cut"
    BY <1>1, <1>3, LexemesAre
<1>5. ASSUME BodyAt(rd[i - 1], c, my) = rd[i - 1].body
      PROVE  Into(s, i + 1) \in Scans(u, rd, my) /\ Into(s, i + 1).i > i
    <2> DEFINE z == Into(s, i + 1)
    <2>1. /\ z \in ScanRecords /\ z.i = i + 1 /\ z.start = s.start /\ z.fresh = FALSE
          /\ z.atomic = s.atomic /\ z.case = s.case /\ z.found = s.found
        BY <1>1, IntoIs
    <2> HIDE DEF z
    <2>2. Depths(rd[i], z)
        BY <1>2, <1>3, <1>4, <1>5, <2>1 DEF Depths
    <2>3. z \in Scans(u, rd, my) /\ z.i > s.i
        BY <1>1, <1>3, <1>4, <2>1, <2>2, StepsOver
    <2> QED BY <2>3 DEF z
<1>6. ASSUME c \in {"ATOMIC", "CASE", "END"}, ~my
      PROVE  Keyword(s, c) \in Scans(u, rd, my) /\ Keyword(s, c).i > i
    <2> DEFINE z == Keyword(s, c)
    <2>1. rd[i].body = BodyAt(rd[i - 1], c, FALSE)
        BY <1>3, <1>6 DEF BodyAt
    <2>2. z \in ScanRecords /\ z.i = i + 1 /\ z.start = s.start /\ z.found = s.found /\ Depths(rd[i], z)
        BY <1>1, <1>2, <1>4, <1>6, <2>1, KeywordIs
    <2> HIDE DEF z
    <2>3. z \in Scans(u, rd, my) /\ z.i > s.i
        BY <1>1, <1>3, <1>4, <2>2, StepsOver
    <2> QED BY <2>3 DEF z
<1> QED BY <1>2, <1>3, <1>5, <1>6 DEF Depths

LEMMA StepIs ==
    ASSUME NEW u, NEW rd, NEW my, Window(u, rd, my), NoData(u, rd, my), NEW s \in Scans(u, rd, my), s.i <= Len(u)
    PROVE  Step(u, s, my) \in Scans(u, rd, my) /\ Step(u, s, my).i > s.i
<1> DEFINE i == s.i
           c == u[i]
           z == Step(u, s, my)
<1>1. /\ s \in ScanRecords /\ ScanOk(u, rd, my, s) /\ Len(u) \in Nat /\ i \in 1..Len(u) /\ i \in Nat
      /\ u \in Seq(Lexemes) /\ i + 1 \in Nat
    BY DEF Scans, ScanOk, Window
<1>2. StandsAt(u, rd, i) /\ Depths(rd[i - 1], s) /\ s.delimiter = "semicolon"
    BY <1>1 DEF ScanOk, ScanRecords
<1>3. c \in Lexemes /\ c # "DELIMITER"
    BY <1>1, WindowAt
<1>4. CASE c = "line"
    <2>1. z = Skip(s, i + 1)
        BY <1>2, <1>4, LexemesAre DEF Step, IsLineComment, Backslashes, Dollars
    <2>2. /\ StandsAt(u, rd, i + 1) /\ rd[i].role # "cut" /\ Same(rd[i], rd[i - 1])
        <3>1. CASE Plainly(u, rd, i)
            <4>1. ~Comments(c, my) /\ c \notin Quotes \cup Dollars /\ ~Cuts(rd[i - 1], c)
                BY <1>4, LexemesAre DEF Comments, Cuts
            <4> QED BY <1>4, <3>1, <4>1, OneLexeme
        <3>2. CASE rd[i - 1].in = "--"
            BY <1>1, <1>4, <3>2, BehindComment
        <3> QED BY <1>1, <1>2, <3>1, <3>2 DEF StandsAt, Plainly
    <2> DEFINE y == Skip(s, i + 1)
    <2>3. /\ y \in ScanRecords /\ y.i = i + 1 /\ y.start = s.start /\ y.fresh = s.fresh
          /\ y.atomic = s.atomic /\ y.case = s.case /\ y.found = s.found
        BY <1>1, SkipIs
    <2> HIDE DEF y, z
    <2>4. Depths(rd[i], y)
        BY <1>2, <2>2, <2>3 DEF Depths, Same
    <2>5. y \in Scans(u, rd, my) /\ y.i > s.i
        BY <1>1, <2>2, <2>3, <2>4, StepsOver
    <2> QED BY <2>1, <2>5 DEF y, z
<1>5. CASE Plainly(u, rd, i) /\ c # "line"
    <2>1. CASE c \in Quotes
        <3>1. z = Into(s, QuoteEnd(u, i, my))
            BY <1>2, <1>3, <2>1, LexemesAre DEF Step
        <3>2. Leap(u, rd, i, QuoteEnd(u, i, my))
            BY <1>5, <2>1, QuoteLeap
        <3>3. /\ rd[i].body = rd[i - 1].body
              /\ rd[i].first = IF rd[i - 1].first = "none" THEN c ELSE rd[i - 1].first
            BY <1>5, <2>1, OpensIs
        <3>4. rd[i].first # "none"
            BY <1>3, <3>3, LexemesAre
        <3> HIDE DEF z
        <3>5. z \in Scans(u, rd, my) /\ z.i > s.i
            BY <1>1, <3>1, <3>2, <3>3, <3>4, LeapsOver
        <3> QED BY <3>5 DEF z
    <2>2. CASE IsLineComment(u, i, my)
        <3>1. z = Skip(s, LineEnd(u, i))
            BY <1>2, <2>2, LexemesAre DEF Step, IsLineComment, Backslashes
        <3>2. Leap(u, rd, i, LineEnd(u, i))
            BY <1>5, <2>2, LineLeap
        <3>3. Same(rd[i], rd[i - 1])
            BY <1>5, <2>2, OpensIs DEF IsLineComment, Comments
        <3> HIDE DEF z
        <3>4. z \in Scans(u, rd, my) /\ z.i > s.i
            BY <1>1, <3>1, <3>2, <3>3, LeapsOver DEF Same
        <3> QED BY <3>4 DEF z
    <2>3. CASE c = "/*"
        <3>1. z = Skip(s, CommentEnd(u, i, my))
            BY <1>2, <2>3, LexemesAre DEF Step, IsLineComment, Backslashes
        <3>2. Leap(u, rd, i, CommentEnd(u, i, my))
            BY <1>5, <2>3, CommentLeap
        <3>3. Same(rd[i], rd[i - 1])
            BY <1>5, <2>3, OpensIs DEF Comments
        <3> HIDE DEF z
        <3>4. z \in Scans(u, rd, my) /\ z.i > s.i
            BY <1>1, <3>1, <3>2, <3>3, LeapsOver DEF Same
        <3> QED BY <3>4 DEF z
    <2>4. CASE c \in Dollars
        <3>1. z = Into(s, DollarEnd(u, i))
            BY <1>2, <1>3, <2>4, LexemesAre DEF Step, IsLineComment
        <3>2. Leap(u, rd, i, DollarEnd(u, i))
            BY <1>5, <2>4, DollarLeap
        <3>3. /\ rd[i].body = rd[i - 1].body
              /\ rd[i].first = IF rd[i - 1].first = "none" THEN c ELSE rd[i - 1].first
            BY <1>5, <2>4, OpensIs
        <3>4. rd[i].first # "none"
            BY <1>3, <3>3, LexemesAre
        <3> HIDE DEF z
        <3>5. z \in Scans(u, rd, my) /\ z.i > s.i
            BY <1>1, <3>1, <3>2, <3>3, <3>4, LeapsOver
        <3> QED BY <3>5 DEF z
    <2>5. CASE Cuts(rd[i - 1], c)
        <3>1. c = "semicolon" /\ s.atomic = 0
            <4>1. s.atomic \in Nat /\ s.case \in Nat
                BY <1>1 DEF ScanRecords
            <4> QED BY <1>2, <2>5, <4>1 DEF Cuts, Depths
        <3>2. z = Terminator(u, s, my)
            BY <1>2, <3>1, LexemesAre DEF Step, IsLineComment, Backslashes
        <3> HIDE DEF z
        <3>3. z \in Scans(u, rd, my) /\ z.i > s.i
            BY <1>5, <2>5, <3>2, CutsOff
        <3> QED BY <3>3 DEF z
    <2>6. CASE ~Cuts(rd[i - 1], c) /\ c \notin Quotes \cup Dollars /\ ~IsLineComment(u, i, my) /\ c # "/*"
        <3>1. ~Comments(c, my)
            BY <2>6 DEF Comments, IsLineComment
        <3>2. ~(s.fresh /\ c \in Backslashes /\ ~my)
            BY <1>5, <2>6, <3>1, StepsInto
        <3>3. CASE c \in {"ATOMIC", "CASE", "END"} /\ ~my
            <4>1. z = Keyword(s, c)
                BY <1>2, <1>3, <2>6, <3>2, <3>3 DEF Step
            <4> HIDE DEF z
            <4>2. z \in Scans(u, rd, my) /\ z.i > s.i
                BY <1>5, <2>6, <3>1, <3>3, <4>1, StepsInto
            <4> QED BY <4>2 DEF z
        <3>4. CASE ~(c \in {"ATOMIC", "CASE", "END"} /\ ~my)
            <4>1. ~(c = "semicolon" /\ s.atomic = 0)
                <5>1. s.atomic \in Nat /\ s.case \in Nat
                    BY <1>1 DEF ScanRecords
                <5> QED BY <1>2, <2>6, <5>1 DEF Cuts, Depths
            <4>2. z = Into(s, i + 1)
                BY <1>2, <1>3, <1>5, <2>6, <3>2, <3>4, <4>1 DEF Step
            <4>3. BodyAt(rd[i - 1], c, my) = rd[i - 1].body
                BY <3>4 DEF BodyAt
            <4> HIDE DEF z
            <4>4. z \in Scans(u, rd, my) /\ z.i > s.i
                BY <1>5, <2>6, <3>1, <4>2, <4>3, StepsInto
            <4> QED BY <4>4 DEF z
        <3> QED BY <3>3, <3>4
    <2> QED BY <2>1, <2>2, <2>3, <2>4, <2>5, <2>6
<1> QED BY <1>1, <1>2, <1>4, <1>5 DEF StandsAt, Plainly

(* What splitStatements finds.                                             *)
LEMMA SplitIs ==
    ASSUME NEW u, NEW rd, NEW my, Window(u, rd, my), NoData(u, rd, my), Starts(rd[0])
    PROVE  FoundOk(u, rd, SplitStatements(u, my), Len(u) + 2)
<1> DEFINE N == Len(u)
           S == Scans(u, rd, my)
           a == Started
           Is(f) == f = [n \in 0..N |-> IF n = 0 THEN a
                                        ELSE IF f[n - 1].i > N THEN f[n - 1]
                                        ELSE Step(u, f[n - 1], my)]
           g == [n \in 1..N |-> [s \in S |-> IF s.i > N THEN s ELSE Step(u, s, my)]]
<1>1. N \in Nat
    BY DEF Window
<1>2. a \in S
    <2>1. /\ a.i = 1 /\ a.start = 1 /\ a.fresh = TRUE /\ a.atomic = 0 /\ a.case = 0 /\ a.found = <<>>
          /\ a \in ScanRecords
        BY DEF Started, ScanRecords
    <2> HIDE DEF a
    <2>2. StandsAt(u, rd, 1)
        BY DEF StandsAt, Starts, Reopens
    <2>3. Depths(rd[0], a)
        BY <2>1 DEF Depths, Starts
    <2>4. Opened(u, rd, 1, 1)
        BY DEF Opened
    <2>5. FoundOk(u, rd, <<>>, 1)
        BY DEF FoundOk
    <2>6. Dataless(u, my, <<>>, 1)
        BY DEF Dataless, IsCopy
    <2>7. ScanOk(u, rd, my, a)
        BY <1>1, <2>1, <2>2, <2>3, <2>4, <2>5, <2>6 DEF ScanOk
    <2> QED BY <2>1, <2>7 DEF Scans
<1>3. ASSUME NEW s \in S PROVE s.i \in 1..(N + 1) /\ (~(s.i > N) => Step(u, s, my) \in S /\ Step(u, s, my).i > s.i)
    <2>1. s.i \in 1..(N + 1)
        BY DEF Scans, ScanOk
    <2>2. ~(s.i > N) => s.i <= Len(u)
        BY <1>1, <2>1
    <2> QED BY <2>1, <2>2, StepIs
<1> HIDE DEF a, S, N
<1>4. g \in [1..N -> [S -> S]]
    BY <1>3
<1>5. \A n \in 1..N, s \in S : g[n][s] = IF s.i > N THEN s ELSE Step(u, s, my)
    OBVIOUS
<1> HIDE DEF g
<1>6. PICK f : Moved(N, S, a, g, f)
    BY <1>1, <1>2, <1>4, Forward DEF Moves
<1>7. f \in [0..N -> S] /\ \A n \in 0..N : f[n] = IF n = 0 THEN a ELSE g[n][f[n - 1]]
    BY <1>6 DEF Moved
<1>8. \A n \in 0..N : f[n] = IF n = 0 THEN a
                             ELSE IF f[n - 1].i > N THEN f[n - 1] ELSE Step(u, f[n - 1], my)
    <2> TAKE n \in 0..N
    <2>1. n # 0 => f[n - 1] \in S /\ n \in 1..N
        BY <1>1, <1>7
    <2> QED BY <2>1, <1>5, <1>7
<1>9. Is(f)
    BY <1>7, <1>8
<1> DEFINE h == CHOOSE x : Is(x)
<1>10. LET s == (CHOOSE x : Is(x))[N] IN SplitStatements(u, my) = Emit(u, s.found, s.start, s.i)
    BY Zenon DEF SplitStatements, N, a
<1>11. Is(h)
    BY <1>9
<1> HIDE DEF h
<1>12. \A n \in 0..N : h[n] = IF n = 0 THEN a
                              ELSE IF h[n - 1].i > N THEN h[n - 1] ELSE Step(u, h[n - 1], my)
    BY <1>11
<1> DEFINE A == {n \in Nat : h[n] \in S /\ (h[n].i > n \/ h[n].i > N)}
<1>13. 0 \in A
    <2>1. h[0] = a
        BY <1>1, <1>12
    <2> QED BY <1>1, <1>2, <1>3, <2>1
<1>14. ASSUME NEW n \in 0..(N - 1), n \in A PROVE n + 1 \in A
    <2>1. n + 1 \in 0..N /\ (n + 1) - 1 = n /\ n + 1 # 0 /\ n + 1 \in Nat
        BY <1>1
    <2>2. h[n + 1] = IF h[n].i > N THEN h[n] ELSE Step(u, h[n], my)
        BY <1>12, <2>1
    <2>3. h[n] \in S /\ (h[n].i > n \/ h[n].i > N)
        BY <1>14
    <2>4. h[n].i \in 1..(N + 1) /\ (~(h[n].i > N) => Step(u, h[n], my) \in S /\ Step(u, h[n], my).i > h[n].i)
        BY <1>3, <2>3
    <2>5. CASE h[n].i > N
        BY <2>1, <2>2, <2>3, <2>5
    <2>6. CASE ~(h[n].i > N)
        <3>1. h[n + 1] \in S /\ h[n + 1].i > h[n].i /\ h[n].i > n
            BY <2>2, <2>3, <2>4, <2>6
        <3>2. h[n + 1].i \in 1..(N + 1)
            BY <1>3, <3>1
        <3> QED BY <1>1, <2>1, <2>4, <3>1, <3>2
    <2> QED BY <2>5, <2>6
<1>15. 0..N \subseteq A
    <2> HIDE DEF A
    <2> QED BY <1>1, <1>13, <1>14, Upward
<1>16. h[N] \in S /\ h[N].i = N + 1
    <2>1. N \in A
        <3> HIDE DEF A
        <3> QED BY <1>1, <1>15
    <2>2. h[N] \in S /\ h[N].i > N
        BY <2>1
    <2> QED BY <1>1, <1>3, <2>2
<1> DEFINE s == h[N]
<1>17. ScanOk(u, rd, my, s) /\ s.i = N + 1
    BY <1>16 DEF Scans, S
<1>18. SplitStatements(u, my) = Emit(u, s.found, s.start, s.i)
    BY <1>10 DEF h
<1> HIDE DEF s
<1>19. s.start \in 1..(N + 1) /\ Opened(u, rd, s.start, N + 1) /\ FoundOk(u, rd, s.found, s.start)
    BY <1>17 DEF ScanOk
<1>20. FoundOk(u, rd, Emit(u, s.found, s.start, N + 1), (N + 1) + 1)
    <2>1. N + 1 \in 1..(Len(u) + 1) /\ ~(N + 1 <= Len(u))
        BY <1>1 DEF N
    <2> QED BY <1>19, <2>1, Emitted
<1>21. (N + 1) + 1 = N + 2
    BY <1>1
<1> QED BY <1>17, <1>18, <1>20, <1>21 DEF N

(* In a plain text no data follow a COPY, and its reading starts at code.  *)
LEMMA PlainStarts ==
    ASSUME NEW t \in Seq(Lexemes), NEW my \in BOOLEAN, "DELIMITER" \notin Range(t),
           \A i \in 1..Len(t) : /\ Reading(t, my)[i].in \notin {"meta", "data"}
                                /\ ~OwnQuoting(t[i], Reading(t, my)[i - 1], my)
    PROVE  NoData(t, Reading(t, my), my) /\ Starts(Reading(t, my)[0])
<1> DEFINE rd == Reading(t, my)
<1>1. /\ Len(t) \in Nat /\ rd \in [0..Len(t) -> Reads] /\ rd[0] = Outset
      /\ \A i \in 1..Len(t) : rd[i] = Read(t, i, rd[i - 1], my)
    BY ReadingIs
<1>2. \A i \in 0..Len(t) : rd[i].delimiter = "semicolon"
    BY PlainWindow
<1> HIDE DEF rd
<1>3. ASSUME NEW k \in 1..Len(t), Plainly(t, rd, k), Cuts(rd[k - 1], t[k]), ~my, rd[k - 1].first = "COPY"
      PROVE  FALSE
    <2>1. k - 1 \in 0..Len(t) /\ rd[k - 1] \in Reads
        BY <1>1
    <2>2. rd[k - 1].in = "code" /\ ~Reopens(rd[k - 1], t[k]) /\ t[k] = "semicolon" /\ rd[k - 1].body = 0
        BY <1>3 DEF Plainly, Cuts
    <2>3. t[k] = rd[k - 1].delimiter
        BY <1>2, <2>1, <2>2
    <2> DEFINE x == ReadCode(t, k, rd[k - 1], my)
    <2>4. x.in = IF ~my /\ rd[k - 1].first = "COPY" THEN "data" ELSE "code"
        BY <2>1, <2>2, <2>3, ReadCuts
    <2>5. rd[k] = x
        BY <1>1, <2>2 DEF Read
    <2> HIDE DEF x
    <2>6. rd[k].in = "data"
        BY <1>3, <2>4, <2>5
    <2> QED BY <2>6 DEF rd
<1>4. NoData(t, rd, my)
    BY <1>3 DEF NoData
<1>5. Starts(rd[0])
    BY <1>1, OutsetIs DEF Starts
<1> QED BY <1>4, <1>5 DEF rd

(* What was found are the statements that have something to run.           *)
LEMMA StatementsAre ==
    ASSUME NEW u, NEW rd, NEW my, Window(u, rd, my), NEW found, FoundOk(u, rd, found, Len(u) + 2),
           NEW P, P = {p \in {rd[i].piece : i \in 1..Len(u)} : Of(u, rd, p) # {}}
    PROVE  Parts(found) = {<<Min(Of(u, rd, p)), Max(Of(u, rd, p))>> : p \in P}
<1> DEFINE Q == {<<Min(Of(u, rd, p)), Max(Of(u, rd, p))>> : p \in P}
<1>1. Len(u) \in Nat /\ found \in Seq(FoundRecords) /\ Len(found) \in Nat
    BY DEF Window, FoundOk
<1>2. ASSUME NEW n \in 1..Len(found) PROVE <<found[n].start, found[n].last>> \in Q
    <2> DEFINE p == rd[found[n].start].piece
    <2>1. Statement(u, rd, found[n])
        BY DEF FoundOk
    <2>2. /\ found[n].start \in Of(u, rd, p) /\ found[n].start \in 1..Len(u)
          /\ found[n].start = Min(Of(u, rd, p)) /\ found[n].last = Max(Of(u, rd, p))
        BY <2>1 DEF Statement
    <2>3. p \in P
        BY <2>2
    <2> HIDE DEF p
    <2> QED BY <2>2, <2>3
<1>3. ASSUME NEW p \in P
      PROVE  \E n \in 1..Len(found) : <<Min(Of(u, rd, p)), Max(Of(u, rd, p))>> = <<found[n].start, found[n].last>>
    <2>1. PICK k : k \in Of(u, rd, p)
        OBVIOUS
    <2>2. k \in 1..Len(u) /\ rd[k].piece = p /\ rd[k].role # "cut" /\ u[k] # "line"
        BY <2>1 DEF Of
    <2>3. k \in 1..((Len(u) + 2) - 1) /\ k <= Len(u)
        BY <1>1, <2>2
    <2>4. PICK n \in 1..Len(found) : rd[found[n].start].piece = rd[k].piece
        BY <2>2, <2>3 DEF FoundOk
    <2>5. Statement(u, rd, found[n])
        BY DEF FoundOk
    <2>6. found[n].start = Min(Of(u, rd, p)) /\ found[n].last = Max(Of(u, rd, p))
        BY <2>2, <2>4, <2>5 DEF Statement
    <2> QED BY <2>6
<1> HIDE DEF Q
<1>4. Parts(found) \subseteq Q
    BY <1>2 DEF Parts
<1>5. Q \subseteq Parts(found)
    BY <1>3 DEF Parts, Q
<1> QED BY <1>4, <1>5 DEF Q

(* A statement on its own: read as in the text, and not cut.               *)
Alone(u, rd, my, f, w, rw) ==
    /\ Window(w, rw, my) /\ Uncut(w, rw) /\ Starts(rw[0])
    /\ Len(w) = f.last - f.start + 1
    /\ \A k \in 1..Len(w) : w[k] = u[k + f.start - 1] /\ rw[k] = rd[k + f.start - 1]

LEMMA AloneIs ==
    ASSUME NEW u, NEW rd, NEW my, Window(u, rd, my), NEW f, Statement(u, rd, f),
           NEW w, w = SubSeq(u, f.start, f.last)
    PROVE  \E rw : Alone(u, rd, my, f, w, rw)
<1> DEFINE p == f.start
           q == f.last
           rw == [k \in 0..(q - p + 1) |-> rd[k + p - 1]]
<1>1. /\ p \in 1..Len(u) /\ q \in p..Len(u) /\ Starts(rd[p - 1]) /\ Len(u) \in Nat /\ p \in Nat /\ q \in Nat
      /\ \A k \in p..q : rd[k].role # "cut"
    BY DEF Statement, Window
<1>2. w = SubSeq(u, p, q)
    OBVIOUS
<1> HIDE DEF p, q
<1>a. IsPart(u, rd, p, q, w, rw)
    BY <1>2 DEF IsPart
<1> HIDE DEF rw
<1>b. Window(w, rw, my) /\ Shifted(u, rd, p, q, w, rw)
    <2>1. p \in 1..Len(u) /\ q \in p..Len(u)
        BY <1>1
    <2> QED BY <1>a, <2>1, PartWindow
<1>3. /\ Window(w, rw, my) /\ Len(w) = q - p + 1 /\ rw[0] = rd[p - 1]
      /\ \A k \in 1..(q - p + 1) : w[k] = u[k + p - 1] /\ rw[k] = rd[k + p - 1]
    BY <1>b DEF Shifted
<1>4. ASSUME NEW k \in 1..Len(w) PROVE rw[k].role # "cut"
    <2>1. k \in 1..(q - p + 1) /\ k + p - 1 \in p..q
        BY <1>1, <1>3
    <2> QED BY <1>1, <1>3, <2>1
<1>5. Uncut(w, rw) /\ Starts(rw[0])
    BY <1>1, <1>3, <1>4 DEF Uncut
<1>6. Alone(u, rd, my, f, w, rw)
    BY <1>3, <1>5 DEF Alone, p, q
<1> QED BY <1>6

(* Stripped on its own it shows its code.                                  *)
SeenOf(u, my, f) == {i + f.start - 1 : i \in StripSqlToCode(SubSeq(u, f.start, f.last), my)}
ShowsCode(u, rd, my, f) ==
    {i \in SeenOf(u, my, f) : u[i] # "line"} = {i \in f.start..f.last : rd[i].role = "code" /\ u[i] # "line"}

LEMMA StatementStripped ==
    ASSUME NEW u, NEW rd, NEW my, Window(u, rd, my), NEW f, Statement(u, rd, f)
    PROVE  ShowsCode(u, rd, my, f)
<1> DEFINE w == SubSeq(u, f.start, f.last)
           strip == StripSqlToCode(w, my)
           p == f.start
           q == f.last
           seen == SeenOf(u, my, f)
<1>1. p \in 1..Len(u) /\ q \in p..Len(u) /\ Len(u) \in Nat /\ p \in Nat /\ q \in Nat
    BY DEF Statement, Window
<1>2. seen = {i + p - 1 : i \in strip}
    BY DEF SeenOf
<1>a. w = SubSeq(u, f.start, f.last)
    OBVIOUS
<1> HIDE DEF w, strip, seen
<1>b. PICK rw : Alone(u, rd, my, f, w, rw)
    BY <1>a, AloneIs
<1>3. /\ Window(w, rw, my) /\ Uncut(w, rw) /\ Starts(rw[0])
      /\ Len(w) = q - p + 1
      /\ \A k \in 1..Len(w) : w[k] = u[k + p - 1] /\ rw[k] = rd[k + p - 1]
    BY <1>b DEF Alone
<1> HIDE DEF p, q
<1>4. StandsAt(w, rw, 1)
    BY <1>3 DEF StandsAt, Starts, Reopens
<1>5. strip \subseteq 1..Len(w) /\ \A k \in 1..Len(w) : w[k] # "line" => (k \in strip <=> rw[k].role = "code")
    BY <1>3, <1>4, StripIs DEF strip
<1>6. ASSUME NEW i \in seen, u[i] # "line" PROVE i \in p..q /\ rd[i].role = "code"
    <2>1. PICK k \in strip : i = k + p - 1
        BY <1>2
    <2>2. k \in 1..Len(w) /\ w[k] = u[i] /\ rw[k] = rd[i]
        BY <1>3, <1>5, <2>1
    <2>3. rd[i].role = "code"
        BY <1>5, <1>6, <2>2
    <2> QED BY <1>1, <1>3, <2>1, <2>2, <2>3
<1>7. ASSUME NEW i \in p..q, rd[i].role = "code", u[i] # "line" PROVE i \in seen
    <2> DEFINE k == i - p + 1
    <2>1. k \in 1..Len(w) /\ k + p - 1 = i
        BY <1>1, <1>3
    <2> HIDE DEF k
    <2>2. w[k] = u[i] /\ rw[k] = rd[i]
        BY <1>3, <2>1
    <2>3. k \in strip
        BY <1>5, <1>7, <2>1, <2>2
    <2> QED BY <1>2, <2>1, <2>3
<1> QED BY <1>6, <1>7 DEF ShowsCode, p, q, seen

(* A text that is not cut is one statement at most.                        *)
LEMMA UncutNoData ==
    ASSUME NEW u, NEW rd, NEW my, Window(u, rd, my), Uncut(u, rd)
    PROVE  NoData(u, rd, my)
<1> SUFFICES ASSUME NEW k \in 1..Len(u), Plainly(u, rd, k), Cuts(rd[k - 1], u[k]) PROVE FALSE
    BY DEF NoData
<1>1. ~Comments(u[k], my) /\ u[k] \notin Quotes \cup Dollars
    BY LexemesAre DEF Comments, Cuts
<1>2. rd[k].role = "cut"
    BY <1>1, OneLexeme
<1> QED BY <1>2 DEF Uncut

LEMMA UncutIsOne ==
    ASSUME NEW u, NEW rd, NEW my, Window(u, rd, my), Uncut(u, rd), NEW found, FoundOk(u, rd, found, Len(u) + 2)
    PROVE  ~(Len(found) > 1)
<1> SUFFICES ASSUME Len(found) > 1 PROVE FALSE
    OBVIOUS
<1>1. Len(found) \in Nat /\ 1 \in 1..Len(found) /\ 2 \in 1..Len(found) /\ Len(u) \in Nat
    BY DEF FoundOk, Window
<1>2. Statement(u, rd, found[1]) /\ Statement(u, rd, found[2]) /\ found[1].end < found[2].start
    BY <1>1 DEF FoundOk
<1>3. ASSUME NEW k \in 1..Len(u) PROVE rd[k].piece = rd[0].piece
    <2>1. 0 \in 0..Len(u) /\ k \in 0..Len(u)
        BY <1>1
    <2>2. \A m \in (0 + 1)..k : rd[m].role # "cut"
        <3> TAKE m \in (0 + 1)..k
        <3>1. m \in 1..Len(u)
            BY <1>1
        <3> QED BY <3>1 DEF Uncut
    <2> QED BY <2>1, <2>2, PieceStays
<1>4. found[1].start \in 1..Len(u) /\ found[2].start \in 1..Len(u)
    BY <1>2 DEF Statement
<1>5. rd[found[1].start].piece = rd[found[2].start].piece
    BY <1>3, <1>4
<1>6. found[1].start = found[2].start
    BY <1>2, <1>5 DEF Statement
<1>7. found[1].last \in found[1].start..Len(u) /\ found[1].last < found[1].end
    BY <1>2 DEF Statement
<1>8. found[1] \in FoundRecords
    BY <1>1 DEF FoundOk
<1>9. found[1].end \in Nat
    BY <1>8 DEF FoundRecords
<1> QED BY <1>1, <1>2, <1>4, <1>6, <1>7, <1>9

(* Run on its own a statement is one.                                      *)
LEMMA StatementRuns ==
    ASSUME NEW u, NEW rd, NEW my, Window(u, rd, my), NEW f, Statement(u, rd, f),
           NEW w, w = SubSeq(u, f.start, f.last)
    PROVE  ExecuteQuery(w, my) = <<w>>
<1> DEFINE parts == SplitStatements(w, my)
<1>a. PICK rw : Alone(u, rd, my, f, w, rw)
    BY AloneIs
<1>1. Window(w, rw, my) /\ Uncut(w, rw) /\ Starts(rw[0])
    BY <1>a DEF Alone
<1>2. NoData(w, rw, my)
    BY <1>1, UncutNoData
<1>3. FoundOk(w, rw, parts, Len(w) + 2)
    BY <1>1, <1>2, SplitIs
<1> HIDE DEF parts
<1>4. ~(Len(parts) > 1)
    BY <1>1, <1>3, UncutIsOne
<1> QED BY <1>4 DEF ExecuteQuery, parts

-----------------------------------------------------------------------------
(* The caret.                                                              *)
LEMMA CaretIs ==
    ASSUME NEW found \in Seq(FoundRecords), found # <<>>, NEW caret \in Nat,
           \A n \in 1..Len(found) : found[n].start <= found[n].last /\ found[n].last < found[n].end,
           \A m, n \in 1..Len(found) : m < n => found[m].end < found[n].start,
           NEW before, before = {n \in 1..Len(found) : found[n].start <= caret},
           NEW m, m = (IF before = {} THEN 1 ELSE Max(before))
    PROVE  ResolveStatementAtOffset(found, caret) = m /\ m \in 1..Len(found)
<1> DEFINE L == Len(found)
           inside == {n \in 1..L : found[n].start <= caret /\ caret <= found[n].end}
           gap == {n \in 1..(L - 1) : found[n].end < caret /\ caret < found[n + 1].start}
           at == inside \cup gap
           behind == found[L].end < caret
<1>1. L \in Nat /\ L \in 1..L /\ 1 \in 1..L
    OBVIOUS
<1>2. ASSUME NEW n \in 1..L
      PROVE  /\ found[n].start \in Nat /\ found[n].end \in Nat /\ found[n].start < found[n].end
             /\ n < L => n + 1 \in 1..L
    <2>1. found[n] \in FoundRecords
        OBVIOUS
    <2>2. found[n].start \in Nat /\ found[n].end \in Nat /\ found[n].last \in Nat
        BY <2>1 DEF FoundRecords
    <2>3. found[n].start <= found[n].last /\ found[n].last < found[n].end
        OBVIOUS
    <2> QED BY <1>1, <2>2, <2>3
<1>3. ASSUME NEW k \in 1..L, NEW n \in 1..L, k < n PROVE found[k].end < found[n].start
    BY <1>3
<1>4. ResolveStatementAtOffset(found, caret) =
        IF at # {} THEN Min(at) ELSE IF behind THEN L ELSE 1
    BY DEF ResolveStatementAtOffset
<1>5. CASE before = {}
    <2>1. ASSUME NEW n \in 1..L PROVE ~(found[n].start <= caret)
        BY <1>5
    <2>2. ASSUME NEW n \in 1..L PROVE ~(found[n].end < caret) /\ n \notin at
        <3>1. ~(found[n].start <= caret) /\ ~(found[n].end < caret)
            BY <1>2, <2>1
        <3> QED BY <3>1
    <2>3. at = {}
        <3>1. at \subseteq 1..L
            BY <1>1
        <3> HIDE DEF at
        <3> QED BY <2>2, <3>1
    <2>4. ~behind
        BY <1>1, <2>2
    <2> HIDE DEF at, behind, L
    <2> QED BY <1>1, <1>4, <1>5, <2>3, <2>4 DEF L
<1>6. CASE before # {}
    <2>1. m \in 1..L /\ found[m].start <= caret /\ \A n \in 1..L : found[n].start <= caret => n <= m
        <3>1. before \in SUBSET (0..L)
            BY <1>1
        <3>2. Max(before) \in before /\ \A x \in before : x <= Max(before)
            <4> HIDE DEF L
            <4> QED BY <1>1, <1>6, <3>1, MaxIs
        <3> QED BY <1>6, <3>2
    <2> DEFINE s(n) == found[n].start
               e(n) == found[n].end
    <2>2. \A n \in 1..L : s(n) \in Nat /\ e(n) \in Nat /\ s(n) < e(n)
        BY <1>2
    <2>3. \A k, n \in 1..L : k < n => e(k) < s(n)
        BY <1>3
    <2>4. inside = {n \in 1..L : s(n) <= caret /\ caret <= e(n)} /\ gap = {n \in 1..(L - 1) : e(n) < caret /\ caret < s(n + 1)}
        OBVIOUS
    <2>5. s(m) <= caret /\ \A n \in 1..L : s(n) <= caret => n <= m
        BY <2>1
    <2>6. behind <=> e(L) < caret
        OBVIOUS
    <2> HIDE DEF s, e, inside, gap, behind, L
    <2>7. \A n \in 1..(L - 1) : n \in 1..L /\ n + 1 \in 1..L
        BY <1>1
    <2>8. ASSUME NEW n \in inside PROVE n = m
        <3>1. n \in 1..L /\ n <= m /\ caret <= e(n)
            BY <2>4, <2>5
        <3>2. ~(n < m)
            BY <2>1, <2>2, <2>3, <2>5, <3>1
        <3> QED BY <2>1, <3>1, <3>2
    <2>9. ASSUME NEW n \in gap PROVE n = m
        <3>1. n \in 1..L /\ n + 1 \in 1..L /\ e(n) < caret /\ caret < s(n + 1)
            BY <2>4, <2>7
        <3>2. n <= m
            <4>1. s(n) <= caret
                BY <2>2, <3>1
            <4> QED BY <2>5, <3>1, <4>1
        <3>3. ~(n < m)
            <4> SUFFICES ASSUME n < m PROVE FALSE
                OBVIOUS
            <4>1. n + 1 <= m
                BY <2>1, <3>1
            <4>2. s(n + 1) <= s(m)
                <5>1. CASE n + 1 = m
                    BY <2>1, <2>2, <5>1
                <5>2. CASE n + 1 < m
                    <6>1. e(n + 1) < s(m) /\ s(n + 1) < e(n + 1)
                        BY <2>1, <2>2, <2>3, <3>1, <5>2
                    <6> QED BY <2>1, <2>2, <3>1, <6>1
                <5> QED BY <2>1, <3>1, <4>1, <5>1, <5>2
            <4> QED BY <2>1, <2>2, <2>5, <3>1, <4>2
        <3> QED BY <2>1, <3>1, <3>2, <3>3
    <2>10. at \subseteq {m}
        BY <2>8, <2>9
    <2>11. CASE caret <= e(m) \/ m < L
        <3>1. m \in at
            <4>1. CASE caret <= e(m)
                BY <2>1, <2>4, <2>5, <4>1
            <4>2. CASE ~(caret <= e(m)) /\ m < L
                <5>1. m \in 1..(L - 1) /\ m + 1 \in 1..L /\ ~(m + 1 <= m)
                    BY <1>1, <2>1, <4>2
                <5>2. ~(s(m + 1) <= caret)
                    BY <2>5, <5>1
                <5>3. s(m + 1) \in Nat /\ e(m) \in Nat
                    BY <2>1, <2>2, <5>1
                <5>4. caret < s(m + 1) /\ e(m) < caret
                    BY <4>2, <5>2, <5>3
                <5> QED BY <2>4, <5>1, <5>4
            <4> QED BY <2>11, <4>1, <4>2
        <3>2. at = {m}
            BY <2>10, <3>1
        <3> HIDE DEF at
        <3>3. Min(at) = m
            <4>1. at \in SUBSET Nat /\ at # {}
                BY <2>1, <3>2
            <4> QED BY <3>2, <4>1, MinIs
        <3> QED BY <1>4, <2>1, <3>2, <3>3 DEF L
    <2>12. CASE ~(caret <= e(m)) /\ m = L
        <3>1. m \notin at
            <4>1. m \notin 1..(L - 1)
                BY <1>1, <2>12
            <4> QED BY <2>4, <2>12, <4>1
        <3>2. at = {}
            BY <2>10, <3>1
        <3>3. behind
            <4>1. e(L) \in Nat
                BY <1>1, <2>2
            <4>2. e(L) < caret
                BY <2>12, <4>1
            <4> QED BY <2>6, <4>2
        <3> HIDE DEF at
        <3> QED BY <1>4, <2>1, <2>12, <3>2, <3>3 DEF L
    <2> QED BY <1>1, <2>1, <2>11, <2>12
<1> QED BY <1>5, <1>6

-----------------------------------------------------------------------------
(* The text that is typed.                                                 *)
TextStands == script \in Scripts /\ mysql \in BOOLEAN /\ text \in Seq(script.lexemes)

LEMMA ScriptIs == ASSUME script \in Scripts PROVE script.lexemes \subseteq Lexemes
BY ScriptsAssumption

LEMMA TextStays == TextSpec => []TextStands
<1>1. TextInit => TextStands
    BY DEF TextInit, TextStands
<1>2. TextStands /\ [TextNext]_textVars => TextStands'
    <2> SUFFICES ASSUME TextStands, [TextNext]_textVars PROVE TextStands'
        OBVIOUS
    <2>1. CASE UNCHANGED textVars
        BY <2>1 DEF textVars, TextStands
    <2>2. ASSUME NEW c \in script.lexemes, Type(c) PROVE TextStands'
        BY <2>2 DEF Type, TextStands
    <2> QED BY <2>1, <2>2 DEF TextNext
<1> QED BY <1>1, <1>2, PTL DEF TextSpec

LEMMA TextIs ==
    ASSUME TextStands, Plain
    PROVE  LET rd == Reading(text, mysql)
           IN /\ Window(text, rd, mysql) /\ text \in Seq(Lexemes)
              /\ FoundOk(text, rd, Found, Len(text) + 2)
<1> DEFINE rd == Reading(text, mysql)
<1>1. text \in Seq(Lexemes) /\ mysql \in BOOLEAN
    BY ScriptIs DEF TextStands
<1>2. /\ "DELIMITER" \notin Range(text)
      /\ \A i \in 1..Len(text) :
            rd[i].in \notin {"meta", "data"} /\ ~OwnQuoting(text[i], rd[i - 1], mysql)
    BY DEF Plain, ByTheBook
<1>3. Window(text, rd, mysql)
    BY <1>1, <1>2, PlainWindow
<1>4. NoData(text, rd, mysql) /\ Starts(rd[0])
    BY <1>1, <1>2, PlainStarts
<1> HIDE DEF rd
<1>5. FoundOk(text, rd, SplitStatements(text, mysql), Len(text) + 2)
    BY <1>3, <1>4, SplitIs
<1> QED BY <1>1, <1>3, <1>5 DEF rd, Found

LEMMA LinesGrow ==
    ASSUME NEW u, NEW i \in Nat \ {0}, NEW j \in Nat, i <= j
    PROVE  Lines(u, i) \in Nat /\ Lines(u, i) <= Lines(u, j) /\ Lines(u, i) < i
<1> DEFINE to == i - 1
           I == {k \in 1..(i - 1) : u[k] = "line"}
           J == {k \in 1..(j - 1) : u[k] = "line"}
<1>1. to \in Nat /\ j - 1 \in Int /\ to <= j - 1
    OBVIOUS
<1>2. Lines(u, i) = Cardinality(I) /\ Lines(u, j) = Cardinality(J)
    BY DEF Lines
<1>3. I \subseteq 1..to /\ J \subseteq 1..(j - 1) /\ I \subseteq J
    OBVIOUS
<1>4. IsFiniteSet(1..to) /\ Cardinality(1..to) = to
    <2> HIDE DEF to
    <2>1. IsFiniteSet(1..to) /\ Cardinality(1..to) = IF 1 > to THEN 0 ELSE to - 1 + 1
        BY <1>1, FS_Interval
    <2> QED BY <1>1, <2>1
<1>5. IsFiniteSet(1..(j - 1))
    BY <1>1, FS_Interval
<1> HIDE DEF I, J, to
<1>6. Cardinality(I) <= Cardinality(1..to)
    BY <1>3, <1>4, FS_Subset
<1>7. IsFiniteSet(J)
    BY <1>3, <1>5, FS_Subset
<1>8. IsFiniteSet(I) /\ Cardinality(I) <= Cardinality(J)
    BY <1>3, <1>7, FS_Subset
<1>9. Cardinality(I) \in Nat /\ Cardinality(J) \in Nat
    BY <1>7, <1>8, FS_CardinalityType
<1> QED BY <1>1, <1>2, <1>4, <1>6, <1>8, <1>9 DEF to

(* What is found in such a script lies in it, in its order, starts and     *)
(* ends with something to run, and carries the number of its line.         *)
THEOREM StatementsAreTyped == TextSpec => [](Plain => TextTyped)
<1>1. ASSUME TextStands, Plain PROVE TextTyped
    <2> DEFINE rd == Reading(text, mysql)
               found == Found
    <2>1. Window(text, rd, mysql) /\ FoundOk(text, rd, found, Len(text) + 2) /\ Len(text) \in Nat
        BY <1>1, TextIs DEF Window
    <2> HIDE DEF found, rd
    <2>2. ASSUME NEW n \in 1..Len(found)
          PROVE  /\ found[n].start \in 1..Len(text) /\ found[n].last \in found[n].start..Len(text)
                 /\ found[n].last < found[n].end /\ found[n].end <= Len(text) + 1 /\ found[n].end \in Nat
                 /\ text[found[n].start] # "line" /\ text[found[n].last] # "line"
                 /\ found[n].lineNumber = 1 + Lines(text, found[n].start)
        <3> DEFINE f == found[n]
        <3>1. Statement(text, rd, f) /\ f \in FoundRecords
            BY <2>1 DEF FoundOk
        <3> HIDE DEF f
        <3>2. f.end \in Nat
            BY <3>1 DEF FoundRecords
        <3>3. text[f.start] # "line" /\ text[f.last] # "line"
            BY <3>1 DEF Statement, Of
        <3>4. /\ f.start \in 1..Len(text) /\ f.last \in f.start..Len(text)
              /\ f.last < f.end /\ f.end <= Len(text) + 1
              /\ f.lineNumber = 1 + Lines(text, f.start)
            BY <3>1 DEF Statement
        <3> QED BY <3>2, <3>3, <3>4 DEF f
    <2>3. ASSUME NEW n \in 1..Len(found) PROVE found[n].lineNumber \in 1..(1 + Len(text))
        <3> DEFINE i == found[n].start
        <3>1. i \in 1..Len(text) /\ found[n].lineNumber = 1 + Lines(text, i)
            BY <2>2
        <3> HIDE DEF i
        <3>2. i \in Nat \ {0} /\ i <= i /\ i \in Nat
            BY <2>1, <3>1
        <3>3. Lines(text, i) \in Nat /\ Lines(text, i) < i
            BY <3>2, LinesGrow
        <3> QED BY <2>1, <3>1, <3>3
    <2>4. ASSUME NEW m \in 1..Len(found), NEW n \in 1..Len(found), m < n
          PROVE  found[m].end <= found[n].start /\ found[m].lineNumber <= found[n].lineNumber
        <3>1. found[m].end < found[n].start
            BY <2>1, <2>4 DEF FoundOk
        <3> DEFINE i == found[m].start
                   j == found[n].start
        <3>2. /\ i \in 1..Len(text) /\ j \in 1..Len(text) /\ found[m].end \in Nat /\ i < found[m].end
              /\ found[m].lineNumber = 1 + Lines(text, i) /\ found[n].lineNumber = 1 + Lines(text, j)
            <4>1. found[m].last \in found[m].start..Len(text) /\ found[m].last < found[m].end /\ found[m].end \in Nat
                BY <2>2
            <4>2. i \in 1..Len(text) /\ j \in 1..Len(text)
                BY <2>2
            <4> QED BY <2>1, <2>2, <4>1, <4>2
        <3>3. found[m].end < j
            BY <3>1
        <3> HIDE DEF i, j
        <3>4. i \in Nat \ {0} /\ j \in Nat \ {0} /\ i <= j /\ j <= j /\ j \in Nat
            BY <2>1, <3>2, <3>3
        <3>5. Lines(text, i) \in Nat /\ Lines(text, i) <= Lines(text, j) /\ Lines(text, j) \in Nat
            BY <3>4, LinesGrow
        <3>6. found[m].lineNumber <= found[n].lineNumber
            BY <3>2, <3>5
        <3>7. found[m].end <= j
            BY <3>2, <3>3, <3>4
        <3> QED BY <3>6, <3>7 DEF j
    <2>5. script \in Scripts /\ mysql \in BOOLEAN /\ text \in Seq(script.lexemes)
        BY <1>1 DEF TextStands
    <2>6. ASSUME NEW n \in 1..Len(found)
          PROVE  /\ 1 <= found[n].start /\ found[n].start <= found[n].last
                 /\ found[n].last < found[n].end /\ found[n].end <= Len(text) + 1
                 /\ text[found[n].start] # "line" /\ text[found[n].last] # "line"
                 /\ found[n].lineNumber \in 1..(1 + Len(text))
        <3>1. found[n].start \in 1..Len(text) /\ found[n].last \in found[n].start..Len(text)
            BY <2>2
        <3>2. 1 <= found[n].start /\ found[n].start <= found[n].last
            BY <2>1, <3>1
        <3> QED BY <2>2, <2>3, <3>2
    <2> QED BY <2>4, <2>5, <2>6 DEF TextTyped, found
<1>2. TextStands => (Plain => TextTyped)
    BY <1>1
<1> QED BY <1>2, TextStays, PTL

(* A script without directives, meta-commands and COPY data, and without   *)
(* the quoting and the commands the editor has its own rules for           *)
(* (ByTheBook), is cut exactly where its dialect ends a statement, however *)
(* long it is.                                                             *)
THEOREM CutsWhereTheDialectDoes == TextSpec => [](Plain => SplitsAtTerminators)
<1>1. ASSUME TextStands, Plain PROVE SplitsAtTerminators
    <2> DEFINE rd == Reading(text, mysql)
               Q == {rd[i].piece : i \in 1..Len(text)}
               P == {p \in Q : Of(text, rd, p) # {}}
    <2>1. Window(text, rd, mysql) /\ FoundOk(text, rd, Found, Len(text) + 2)
        BY <1>1, TextIs
    <2>2. P = {p \in {rd[i].piece : i \in 1..Len(text)} : Of(text, rd, p) # {}}
        OBVIOUS
    <2>3. CutsAsRead <=> Parts(Found) = {<<Min(Of(text, rd, p)), Max(Of(text, rd, p))>> : p \in P}
        BY DEF CutsAsRead, Of
    <2> HIDE DEF P, rd
    <2>4. Parts(Found) = {<<Min(Of(text, rd, p)), Max(Of(text, rd, p))>> : p \in P}
        BY <2>1, <2>2, StatementsAre
    <2> QED BY <2>3, <2>4 DEF SplitsAtTerminators
<1>2. TextStands => (Plain => SplitsAtTerminators)
    BY <1>1
<1> QED BY <1>2, TextStays, PTL

(* Each statement of such a script, stripped on its own, shows exactly the *)
(* code it has within the script.                                          *)
THEOREM CodeIsSeenAlone == TextSpec => [](Plain => StrippedAlone)
<1>1. ASSUME TextStands, Plain PROVE StrippedAlone
    <2> DEFINE rd == Reading(text, mysql)
               code(p, q) == {i \in p..q : rd[i].role = "code" /\ text[i] # "line"}
               seen(p, q) == {i + p - 1 : i \in StripSqlToCode(SubSeq(text, p, q), mysql)}
    <2>1. Window(text, rd, mysql) /\ FoundOk(text, rd, Found, Len(text) + 2)
        BY <1>1, TextIs
    <2>2. (\A part \in Parts(Found) :
                {i \in seen(part[1], part[2]) : text[i] # "line"} = code(part[1], part[2]))
            => StrippedAlone
        BY DEF StrippedAlone
    <2>3. ASSUME NEW n \in 1..Len(Found)
          PROVE  {i \in seen(Found[n].start, Found[n].last) : text[i] # "line"} = code(Found[n].start, Found[n].last)
        <3> DEFINE f == Found[n]
        <3>1. Statement(text, rd, f)
            BY <2>1 DEF FoundOk
        <3> HIDE DEF f, rd
        <3>2. ShowsCode(text, rd, mysql, f)
            BY <2>1, <3>1, StatementStripped
        <3> QED BY <3>2 DEF f, ShowsCode, SeenOf
    <2> HIDE DEF code, seen
    <2>4. ASSUME NEW part \in Parts(Found)
          PROVE  {i \in seen(part[1], part[2]) : text[i] # "line"} = code(part[1], part[2])
        <3>1. PICK n \in 1..Len(Found) : part = <<Found[n].start, Found[n].last>>
            BY DEF Parts
        <3>2. part[1] = Found[n].start /\ part[2] = Found[n].last
            BY <3>1
        <3> QED BY <2>3, <3>2
    <2> QED BY <2>2, <2>4
<1>2. TextStands => (Plain => StrippedAlone)
    BY <1>1
<1> QED BY <1>2, TextStays, PTL

(* In such a script what is painted under the caret is the last statement  *)
(* that starts at or before it, and Run sends that one whole.              *)
THEOREM CaretRunsOne == TextSpec => [](Plain => CursorRunsWhatItShows)
<1>1. ASSUME TextStands, Plain PROVE CursorRunsWhatItShows
    <2> DEFINE rd == Reading(text, mysql)
               found == Found
    <2>1. Window(text, rd, mysql) /\ FoundOk(text, rd, found, Len(text) + 2) /\ text \in Seq(Lexemes)
        BY <1>1, TextIs
    <2> HIDE DEF found, rd
    <2>2. found \in Seq(FoundRecords) /\ \A n \in 1..Len(found) : Statement(text, rd, found[n])
        BY <2>1 DEF FoundOk
    <2>3. \A m, n \in 1..Len(found) : m < n => found[m].end < found[n].start
        BY <2>1 DEF FoundOk
    <2>4. \A n \in 1..Len(found) : found[n].start <= found[n].last /\ found[n].last < found[n].end
        <3> TAKE n \in 1..Len(found)
        <3>1. /\ found[n].start \in 1..Len(text) /\ found[n].last \in found[n].start..Len(text)
              /\ found[n].last < found[n].end
            BY <2>2 DEF Statement
        <3> QED BY <3>1
    <2>5. ASSUME found # <<>>, NEW caret \in 1..(Len(text) + 1),
                 NEW before, before = {n \in 1..Len(found) : found[n].start <= caret}
          PROVE  LET painted == ResolveStatementAtOffset(found, caret)
                     selected == StatementText(text, found[painted])
                 IN /\ painted = IF before = {} THEN 1 ELSE Max(before)
                    /\ ExecuteQuery(selected, mysql) = <<selected>>
        <3> DEFINE at == ResolveStatementAtOffset(found, caret)
                   sent == StatementText(text, found[at])
                   m == IF before = {} THEN 1 ELSE Max(before)
        <3>1. caret \in Nat
            BY <2>1
        <3>2. at = m /\ at \in 1..Len(found)
            BY <2>2, <2>3, <2>4, <2>5, <3>1, CaretIs
        <3>3. sent = SubSeq(text, found[at].start, found[at].last)
            BY DEF StatementText
        <3> HIDE DEF at, sent
        <3>4. Statement(text, rd, found[at])
            BY <2>2, <3>2
        <3>5. ExecuteQuery(sent, mysql) = <<sent>>
            BY <2>1, <3>3, <3>4, StatementRuns
        <3> QED BY <3>2, <3>5 DEF at, sent
    <2> QED BY <2>5 DEF CursorRunsWhatItShows, found
<1>2. TextStands => (Plain => CursorRunsWhatItShows)
    BY <1>1
<1> QED BY <1>2, TextStays, PTL
=============================================================================
