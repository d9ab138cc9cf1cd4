-------------------------- MODULE PsqlConsoleProofs --------------------------
(***************************************************************************)
(* Proofs about PsqlConsole, for any number of runs, tabs, statements and  *)
(* generations: the gate is not closed for good (GateReopens), an entry is *)
(* of the run it names (EntryIsOwn), and a console's list only grows       *)
(* (EntriesKept).                                                          *)
(*                                                                         *)
(* A step of a run is one of two: it goes on, or it ends, and then it may  *)
(* make an entry (ContinueGoesOrFinishes).  GateReopens is inductive.  For *)
(* the others: a generation has one run (Distinct); what a run alone has   *)
(* printed is all that the refs hold (Apart), and what it saw at its start *)
(* was right (Remembered); and the run of the latest generation has seen   *)
(* the whole list, unless a stopped run made an entry since (Latest).      *)
(*                                                                         *)
(* And about CliTools, for any number of chains of commands: what the next *)
(* lookup finds is whole (LoneDownloadsAreWhole).  There is one download   *)
(* that the page has not left (OneDownload), and what it has put beside    *)
(* the place of the binary is its own file until it is whole               *)
(* (UnpackedIsOwn).                                                        *)
(***************************************************************************)
EXTENDS PsqlConsole, CliTools, SequenceTheorems, TLAPS

Own(e) == e.alone => e.command = e.of /\ e.lines \subseteq {e.of}
OwnList(list) == \A i \in 1..Len(list) : Own(list[i])

Named ==
    \A r \in Runs : /\ run[r].gen <= gen
                    /\ Live(r) => run[r].gen \in Gens /\ command \in Gens

(* A \c is tried, not sent.                                                *)
Kinded == \A r \in Runs : run[r].kind = "connect" => run[r].pc \notin {"sent", "sleeping"}

Distinct == \A r, s \in Runs : Live(r) /\ Live(s) /\ run[r].gen = run[s].gen => r = s

Apart ==
    \A r \in Runs :
        Live(r) /\ run[r].alone =>
            /\ \A s \in Runs \ {r} : ~ Live(s)
            /\ command = run[r].gen
            /\ At(r, "connecting") \/ output \subseteq {run[r].gen}

Remembered == \A r \in Runs : OwnList(run[r].seen)

Latest ==
    clears = 0 =>
        \A r \in Runs :
            Live(r) /\ Current(r) /\ InTime(entries[run[r].tab]) =>
                entries[run[r].tab] = run[r].seen

ConsoleInv ==
    /\ TypeOK /\ Named /\ Kinded /\ Distinct
    /\ Apart /\ Remembered /\ EntryIsOwn
    /\ Latest /\ GateReopens
-----------------------------------------------------------------------------
(* Records of runs.                                                        *)

Places == {"idle", "connecting", "preparing", "sent", "testing", "sleeping"}

LEMMA RunTyped ==
    ASSUME NEW rec \in RunRecords, NEW l \in Places
    PROVE  LET new == [rec EXCEPT !.pc = l]
           IN  /\ new \in RunRecords /\ new.pc = l
               /\ new.gen = rec.gen /\ new.tab = rec.tab /\ new.kind = rec.kind
               /\ new.left = rec.left /\ new.seen = rec.seen /\ new.alone = rec.alone
    BY DEF RunRecords, Places

LEMMA IdleTyped ==
    ASSUME NEW t \in Tabs
    PROVE  /\ Idle(t) \in RunRecords /\ Idle(t).pc = "idle" /\ Idle(t).gen = 0
           /\ Idle(t).kind = "single" /\ Idle(t).seen = << >> /\ Idle(t).alone = FALSE
    <1>1. 0 \in 0..MaxGen /\ 0 \in 0..MaxStatements  BY BoundAssumption
    <1>2. << >> \in Seq(Entries)  BY EmptySeq
    <1>3. QED  BY <1>1, <1>2 DEF Idle, RunRecords, Kinds

(* What the step of a run leaves of it, and of the others.                 *)
Moves(r) ==
    /\ run' \in [Runs -> RunRecords]
    /\ Live(r)' /\ ~ At(r, "connecting")'
    /\ run'[r].gen = run[r].gen /\ run'[r].tab = run[r].tab
    /\ run'[r].seen = run[r].seen /\ run'[r].alone = run[r].alone
    /\ run'[r].kind = run[r].kind
    /\ run[r].kind = "connect" => run'[r].pc \notin {"sent", "sleeping"}
    /\ \A s \in Runs \ {r} : run'[s] = run[s]

LEMMA PcMoves ==
    ASSUME TypeOK, NEW r \in Runs, NEW l \in Places \ {"idle", "connecting"},
           run[r].kind = "connect" => l \notin {"sent", "sleeping"},
           run' = [run EXCEPT ![r].pc = l]
    PROVE  Moves(r)
    <1>1. run[r] \in RunRecords  BY DEF TypeOK
    <1>2. run' = [run EXCEPT ![r] = [run[r] EXCEPT !.pc = l]]  BY DEF TypeOK
    <1>3. QED  BY <1>1, <1>2, RunTyped DEF Moves, Live, At, TypeOK

LEMMA LoopMoves ==
    ASSUME TypeOK, NEW r \in Runs, NEW l \in {"sent", "testing"}, NEW failed \in BOOLEAN,
           run[r].left > 0, run[r].kind = "script",
           run' = [run EXCEPT ![r].pc = l, ![r].left = @ - 1, ![r].failed = failed]
    PROVE  Moves(r)
    <1>1. run[r] \in RunRecords  BY DEF TypeOK
    <1>2. run[r].left - 1 \in 0..MaxStatements  BY <1>1, BoundAssumption DEF RunRecords
    <1> DEFINE new == [run[r] EXCEPT !.pc = l, !.left = run[r].left - 1, !.failed = failed]
    <1>3. run' = [run EXCEPT ![r] = new]  BY DEF TypeOK
    <1>4. /\ new \in RunRecords /\ new.pc = l /\ new.gen = run[r].gen /\ new.tab = run[r].tab
          /\ new.kind = run[r].kind /\ new.seen = run[r].seen /\ new.alone = run[r].alone
        BY <1>1, <1>2 DEF RunRecords
    <1> HIDE DEF new
    <1>5. QED  BY <1>3, <1>4 DEF Moves, Live, At, TypeOK

Leaves(r) ==
    /\ run' \in [Runs -> RunRecords]
    /\ ~ Live(r)' /\ run'[r].gen = 0 /\ run'[r].seen = << >> /\ run'[r].alone = FALSE
    /\ \A s \in Runs \ {r} : run'[s] = run[s]
    /\ IF Current(r) THEN gate' = FALSE /\ executing' = FALSE /\ cancelFlag' = FALSE
       ELSE UNCHANGED flags

LEMMA EndsLeaves == ASSUME TypeOK, NEW r \in Runs, Ends(r) PROVE Leaves(r)
    <1>1. run[r].tab \in Tabs  BY DEF TypeOK, RunRecords
    <1>2. run' = [run EXCEPT ![r] = Idle(run[r].tab)]  BY DEF Ends
    <1>3. QED  BY <1>1, <1>2, IdleTyped DEF Leaves, Ends, Live, At, TypeOK

-----------------------------------------------------------------------------
(* A run goes on or ends.                                                  *)

Goes(r) ==
    /\ Live(r) /\ Moves(r)
    /\ \/ output' = {}
       \/ ~ At(r, "connecting") /\ output' \subseteq Printed(r)
    /\ command' \in {command, run[r].gen}
    /\ \/ UNCHANGED flags
       \/ gate' = TRUE /\ executing' = TRUE /\ UNCHANGED cancelFlag
    /\ queried' \in BOOLEAN
    /\ UNCHANGED <<gen, token, entries, clears>>

Finishes(r) ==
    /\ Live(r) /\ Leaves(r)
    /\ \/ UNCHANGED entries
       \/ /\ ~ At(r, "connecting")
          /\ \E lines \in SUBSET Printed(r) : Enter(r, lines, ~ Current(r))
    /\ output' \subseteq Printed(r)
    /\ UNCHANGED <<gen, token, command, queried, clears>>

LEMMA AnywayFinishes ==
    ASSUME TypeOK, NEW r \in Runs, Live(r), ~ At(r, "connecting"), EntersAnyway(r),
           UNCHANGED <<gen, token, command, queried, clears>>
    PROVE  Finishes(r)
    BY EndsLeaves DEF EntersAnyway, Finishes

LEMMA SucceedsFinishes ==
    ASSUME TypeOK, NEW r \in Runs, Live(r), ~ At(r, "connecting"),
           NEW lines \in SUBSET Printed(r), Succeeds(r, lines),
           UNCHANGED <<gen, token, command, queried, clears>>
    PROVE  Finishes(r)
    <1>1. Leaves(r) /\ output' = lines  BY EndsLeaves DEF Succeeds
    <1>2. UNCHANGED entries \/ Enter(r, lines, ~ Current(r))
        <2>1. CASE Stopped(r)  BY <2>1 DEF Succeeds
        <2>2. CASE ~ Stopped(r)
            <3>1. ~ Current(r) <=> FALSE  BY <2>2 DEF Stopped, Current
            <3>2. (~ Current(r)) = FALSE  BY <3>1
            <3>3. QED  BY <2>2, <3>2 DEF Succeeds
        <2>3. QED  BY <2>1, <2>2
    <1>3. QED  BY <1>1, <1>2 DEF Finishes

LEMMA LoopGoesOrFinishes ==
    ASSUME TypeOK, NEW r \in Runs, Live(r), ~ At(r, "connecting"),
           NEW lines \in SUBSET Printed(r), NEW failed \in BOOLEAN, Loop(r, lines, failed),
           run[r].kind = "script",
           UNCHANGED <<gen, token, command, queried, clears>>
    PROVE  Goes(r) \/ Finishes(r)
    <1>0. queried' \in BOOLEAN  BY DEF TypeOK
    <1>1. CASE run[r].left > 0 /\ ~ Stopped(r)
               /\ \E l \in {"sent", "testing"} :
                    run' = [run EXCEPT ![r].pc = l, ![r].left = @ - 1, ![r].failed = failed]
               /\ output' = lines /\ UNCHANGED <<flags, entries>>
        <2>1. Moves(r)  BY <1>1, LoopMoves
        <2>2. QED  BY <1>0, <1>1, <2>1 DEF Goes
    <1>2. CASE Ends(r) /\ output' = lines /\ UNCHANGED entries
        BY <1>2, EndsLeaves DEF Finishes
    <1>3. CASE Succeeds(r, lines)  BY <1>3, SucceedsFinishes
    <1>4. QED  BY <1>1, <1>2, <1>3 DEF Loop

LEMMA AwaitsGoes ==
    ASSUME TypeOK, NEW r \in Runs, Live(r), ~ At(r, "connecting"),
           NEW l \in {"sent", "testing", "sleeping"}, Awaits(r, l),
           run[r].kind = "connect" => l = "testing", output' \subseteq Printed(r),
           UNCHANGED <<gen, token, command, queried, clears>>
    PROVE  Goes(r)
    <1>1. Moves(r)  BY PcMoves DEF Awaits, Places
    <1>2. queried' \in BOOLEAN  BY DEF TypeOK
    <1>3. QED  BY <1>1, <1>2 DEF Goes, Awaits

LEMMA ContinueGoesOrFinishes ==
    ASSUME TypeOK, Kinded, NEW r \in Runs, Continue(r)
    PROVE  Goes(r) \/ Finishes(r)
    <1>1. output \subseteq Printed(r) /\ run[r].kind \in Kinds /\ run[r].failed \in BOOLEAN
        BY DEF Printed, TypeOK, RunRecords
    <1>2. CASE Connected(r)
        <2>1. Moves(r)  BY <1>2, PcMoves DEF Connected, Places
        <2>2. queried' \in BOOLEAN  BY <1>2 DEF Connected, Begins, TypeOK
        <2>3. QED  BY <1>2, <2>1, <2>2 DEF Goes, Connected, Begins, Live, At
    <1>3. CASE ConnectFails(r)
        BY <1>1, <1>3, EndsLeaves DEF ConnectFails, Finishes, Live, At
    <1>4. CASE NoTool(r)
        <2>1. Live(r) /\ ~ At(r, "connecting")  BY <1>4 DEF NoTool, Live, At
        <2>2. QED  BY <1>4, <2>1, AnywayFinishes DEF NoTool
    <1>5. CASE Prepared(r)
        <2>1. Live(r) /\ ~ At(r, "connecting") /\ UNCHANGED <<gen, token, command, queried, clears>>
            BY <1>5 DEF Prepared, Live, At
        <2>2. CASE run[r].kind = "single"
            <3>1. Awaits(r, "sent") /\ UNCHANGED output  BY <1>5, <2>2 DEF Prepared
            <3>2. QED  BY <1>1, <2>1, <2>2, <3>1, AwaitsGoes
        <2>3. CASE run[r].kind = "connect"
            <3>1. Awaits(r, "testing") /\ UNCHANGED output  BY <1>5, <2>3 DEF Prepared
            <3>2. QED  BY <1>1, <2>1, <3>1, AwaitsGoes
        <2>4. CASE run[r].kind = "script"
            <3>1. Loop(r, output, FALSE)  BY <1>5, <2>4 DEF Prepared
            <3>2. QED  BY <1>1, <2>1, <2>4, <3>1, LoopGoesOrFinishes
        <2>5. CASE run[r].kind = "watch"
            <3>1. \/ Awaits(r, "sent") /\ output' = Printed(r)
                  \/ EntersAnyway(r)
                BY <1>5, <2>5 DEF Prepared
            <3>2. QED  BY <2>1, <2>5, <3>1, AwaitsGoes, AnywayFinishes
        <2>6. QED  BY <1>1, <2>2, <2>3, <2>4, <2>5 DEF Kinds
    <1>6. CASE Answered(r)
        <2>1. Live(r) /\ ~ At(r, "connecting") /\ UNCHANGED <<gen, token, command, queried, clears>>
            BY <1>6 DEF Answered, Live, At
        <2>2. CASE run[r].kind = "single"
            <3>1. Succeeds(r, Printed(r))  BY <1>6, <2>2 DEF Answered
            <3>2. QED  BY <2>1, <3>1, SucceedsFinishes
        <2>3. CASE run[r].kind = "script"
            <3>1. Loop(r, Printed(r), run[r].failed)  BY <1>6, <2>3 DEF Answered
            <3>2. QED  BY <1>1, <2>1, <2>3, <3>1, LoopGoesOrFinishes
        <2>4. CASE run[r].kind = "watch"
            <3>1. \/ Awaits(r, "sleeping") /\ output' = Printed(r)
                  \/ EntersAnyway(r)
                BY <1>6, <2>4 DEF Answered
            <3>2. QED  BY <2>1, <2>4, <3>1, AwaitsGoes, AnywayFinishes
        <2>5. run[r].kind # "connect"  BY <1>6 DEF Answered, At, Kinded
        <2>6. QED  BY <1>1, <2>2, <2>3, <2>4, <2>5 DEF Kinds
    <1>7. CASE Fails(r)
        <2>1. Live(r) /\ ~ At(r, "connecting") /\ UNCHANGED <<gen, token, command, queried, clears>>
            BY <1>7 DEF Fails, Live, At
        <2>2. (run[r].kind = "script" /\ Loop(r, output, TRUE)) \/ EntersAnyway(r)
            BY <1>7 DEF Fails
        <2>3. QED  BY <1>1, <2>1, <2>2, LoopGoesOrFinishes, AnywayFinishes
    <1>8. CASE Tested(r)
        <2>1. Live(r) /\ ~ At(r, "connecting") /\ UNCHANGED <<gen, token, command, queried, clears>>
            BY <1>8 DEF Tested, Live, At
        <2>2. \/ run[r].kind = "script" /\ Loop(r, Printed(r), run[r].failed)
              \/ EntersAnyway(r)
            BY <1>8 DEF Tested
        <2>3. QED  BY <1>1, <2>1, <2>2, LoopGoesOrFinishes, AnywayFinishes
    <1>9. CASE Slept(r)
        <2>1. Live(r) /\ ~ At(r, "connecting") /\ UNCHANGED <<gen, token, command, queried, clears>>
            BY <1>9 DEF Slept, Live, At
        <2>2. \/ Awaits(r, "sent") /\ UNCHANGED output
              \/ EntersAnyway(r)
            BY <1>9 DEF Slept
        <2>3. run[r].kind # "connect"  BY <1>9 DEF Slept, At, Kinded
        <2>4. QED  BY <1>1, <2>1, <2>2, <2>3, AwaitsGoes, AnywayFinishes
    <1>10. QED
        BY <1>2, <1>3, <1>4, <1>5, <1>6, <1>7, <1>8, <1>9 DEF Continue

-----------------------------------------------------------------------------
(* The other steps: a run starts, or the runs stay where they are.         *)

(* All but the marks that say whether a run was stopped or had company.    *)
Stays(r) ==
    /\ run'[r].pc = run[r].pc /\ run'[r].gen = run[r].gen /\ run'[r].tab = run[r].tab
    /\ run'[r].kind = run[r].kind /\ run'[r].seen = run[r].seen
    /\ run'[r].alone => run[r].alone

Starts(r, t) ==
    /\ ~ Live(r) /\ gen < MaxGen /\ gen' = gen + 1 /\ command' = gen + 1
    /\ run' \in [Runs -> RunRecords]
    /\ Live(r)' /\ run'[r].gen = gen + 1 /\ run'[r].tab = t /\ run'[r].seen = entries[t]
    /\ run'[r].pc \notin {"sent", "sleeping"}
    /\ run'[r].alone => \A s \in Runs : ~ Live(s)
    /\ \A s \in Runs \ {r} : Stays(s) /\ run'[s].alone = FALSE
    /\ output' = {} \/ (At(r, "connecting")' /\ output' = output)
    /\ gate' = TRUE /\ executing' = TRUE /\ cancelFlag' = FALSE
    /\ queried' \in BOOLEAN /\ token' = r
    /\ UNCHANGED <<entries, clears>>

LEMMA StartStarts ==
    ASSUME TypeOK, NEW r \in Runs, NEW t \in Tabs, NEW kind \in Kinds,
           NEW n \in 0..MaxStatements, Start(r, t, kind, n)
    PROVE  Starts(r, t)
    <1>1. PICK l \in {"connecting", "preparing"} :
            /\ run' = [s \in Runs |->
                IF s = r
                THEN [pc |-> l, gen |-> gen + 1, tab |-> t, kind |-> kind, left |-> n,
                      cancelled |-> FALSE, failed |-> FALSE, seen |-> entries[t],
                      alone |-> \A o \in Runs : ~ Live(o)]
                ELSE [run[s] EXCEPT !.alone = FALSE]]
            /\ IF l = "preparing" THEN Begins(r, kind)
               ELSE gate' = TRUE /\ executing' = TRUE /\ UNCHANGED <<queried, output>>
        BY DEF Start
    <1> DEFINE new == [pc |-> l, gen |-> gen + 1, tab |-> t, kind |-> kind, left |-> n,
                       cancelled |-> FALSE, failed |-> FALSE, seen |-> entries[t],
                       alone |-> \A o \in Runs : ~ Live(o)]
    <1>2. gen < MaxGen /\ gen' = gen + 1 /\ gen + 1 \in 0..MaxGen
        BY BoundAssumption DEF Start, TypeOK
    <1>3. new \in RunRecords
        <2>1. entries[t] \in Seq(Entries)  BY DEF TypeOK
        <2>2. (\A o \in Runs : ~ Live(o)) \in BOOLEAN  OBVIOUS
        <2>3. QED  BY <1>2, <2>1, <2>2 DEF RunRecords
    <1>4. run'[r] = new  BY <1>1
    <1>5. \A s \in Runs \ {r} : run'[s] = [run[s] EXCEPT !.alone = FALSE]  BY <1>1
    <1>6. \A s \in Runs \ {r} :
            run'[s] \in RunRecords /\ Stays(s) /\ run'[s].alone = FALSE
        <2> TAKE s \in Runs \ {r}
        <2>1. run[s] \in RunRecords  BY DEF TypeOK
        <2>2. QED  BY <1>5, <2>1 DEF RunRecords, Stays
    <1>7. run' \in [Runs -> RunRecords]
        <2> HIDE DEF new
        <2>1. \A s \in Runs : run'[s] \in RunRecords  BY <1>3, <1>4, <1>6
        <2>2. QED  BY <1>1, <2>1
    <1>8. /\ run'[r].pc = l /\ run'[r].gen = gen + 1 /\ run'[r].tab = t
          /\ run'[r].seen = entries[t]
        BY <1>4
    <1>9. run'[r].alone => \A s \in Runs : ~ Live(s)  BY <1>4
    <1>10. /\ gate' = TRUE /\ executing' = TRUE /\ queried' \in BOOLEAN
           /\ output' = {} \/ (At(r, "connecting")' /\ output' = output)
        BY <1>1, <1>8 DEF Begins, TypeOK, At
    <1> HIDE DEF new
    <1>11. QED
        BY <1>2, <1>6, <1>7, <1>8, <1>9, <1>10 DEF Start, Starts, Live, At

(* The user stops a run, removes entries, or ends another tool.            *)
Rests ==
    /\ run' \in [Runs -> RunRecords] /\ \A r \in Runs : Stays(r)
    /\ UNCHANGED <<token, command, queried>>
    /\ output' = {} \/ UNCHANGED output
    /\ \/ UNCHANGED entries /\ clears' = clears
       \/ clears' # 0 /\ clears' \in 0..MaxClears /\ UNCHANGED gen
    /\ \A t \in Tabs : \/ entries'[t] = entries[t]
                       \/ entries'[t] = << >>
                       \/ entries[t] # << >> /\ entries'[t] = SubSeq(entries[t], 1, Len(entries[t]) - 1)
    /\ entries' \in [Tabs -> Seq(Entries)]
    /\ gen' = gen \/ (gen < MaxGen /\ gen' = gen + 1 /\ gate' = FALSE)
    /\ \/ UNCHANGED flags
       \/ gate' = FALSE /\ executing' = FALSE /\ cancelFlag' \in BOOLEAN

LEMMA SameRests == ASSUME TypeOK, run' = run PROVE \A r \in Runs : Stays(r)
    BY DEF Stays

LEMMA StopRests == ASSUME TypeOK, Stop PROVE Rests
    <1>1. \A r \in Runs : Stays(r) /\ run'[r] \in RunRecords
        <2> TAKE r \in Runs
        <2>1. run[r] \in RunRecords  BY DEF TypeOK
        <2>2. run'[r] = [run[r] EXCEPT !.cancelled = run[r].cancelled \/ (Live(r) /\ r = token)]
            BY DEF Stop
        <2>3. (run[r].cancelled \/ (Live(r) /\ r = token)) \in BOOLEAN  OBVIOUS
        <2>4. QED  BY <2>1, <2>2, <2>3 DEF RunRecords, Stays
    <1>2. run' \in [Runs -> RunRecords]  BY <1>1 DEF Stop
    <1>3. QED  BY <1>1, <1>2 DEF Stop, Rests, TypeOK

LEMMA ShorterTyped ==
    ASSUME NEW s \in Seq(Entries), s # << >>
    PROVE  /\ SubSeq(s, 1, Len(s) - 1) \in Seq(Entries)
           /\ Len(SubSeq(s, 1, Len(s) - 1)) = Len(s) - 1
           /\ \A i \in 1..Len(s) - 1 : SubSeq(s, 1, Len(s) - 1)[i] = s[i]
    <1>1. Len(s) \in Nat \ {0} /\ \A i \in 1..Len(s) : s[i] \in Entries
        BY EmptySeq, ElementOfSeq, LenProperties
    <1>2. \A i \in 1 .. Len(s) - 1 : s[i] \in Entries  BY <1>1
    <1> DEFINE m == Len(s) - 1
               short == SubSeq(s, 1, m)
    <1>3. m \in Nat  BY <1>1
    <1> HIDE DEF m
    <1>4. /\ short \in Seq(Entries)
          /\ Len(short) = IF 1 <= m THEN m - 1 + 1 ELSE 0
          /\ \A i \in 1 .. m - 1 + 1 : short[i] = s[1 + i - 1]
        BY <1>2, <1>3, SubSeqProperties DEF m
    <1> HIDE DEF short
    <1>5. Len(short) = m  BY <1>3, <1>4
    <1>6. \A i \in 1 .. m : i \in 1 .. m - 1 + 1 /\ 1 + i - 1 = i  BY <1>3
    <1>7. \A i \in 1 .. m : short[i] = s[i]  BY <1>4, <1>6
    <1>8. QED  BY <1>4, <1>5, <1>7 DEF m, short

LEMMA RemovalRests ==
    ASSUME TypeOK, NEW t \in Tabs, Clear(t) \/ RemoveLast(t)
    PROVE  Rests
    <1>1. entries[t] \in Seq(Entries) /\ entries[t] # << >>  BY DEF TypeOK, Clear, RemoveLast
    <1>2. clears' # 0 /\ clears' \in 0..MaxClears
        BY BoundAssumption DEF Clear, RemoveLast, Removed, TypeOK
    <1>3. PICK s \in {<< >>, SubSeq(entries[t], 1, Len(entries[t]) - 1)} :
            entries' = [entries EXCEPT ![t] = s]
        BY DEF Clear, RemoveLast
    <1>4. s \in Seq(Entries)  BY <1>1, <1>3, ShorterTyped, EmptySeq
    <1>5. entries' \in [Tabs -> Seq(Entries)]  BY <1>3, <1>4 DEF TypeOK
    <1>6. \A u \in Tabs : entries'[u] = IF u = t THEN s ELSE entries[u]  BY <1>3 DEF TypeOK
    <1>7. \A r \in Runs : Stays(r)  BY SameRests DEF Clear, RemoveLast
    <1>8. QED
        BY <1>1, <1>2, <1>3, <1>5, <1>6, <1>7 DEF Rests, Clear, RemoveLast, TypeOK

LEMMA ToolRests == ASSUME TypeOK, ToolEnds \/ UNCHANGED vars PROVE Rests
    <1>1. \A r \in Runs : Stays(r)  BY SameRests DEF ToolEnds, vars
    <1>2. QED  BY <1>1 DEF ToolEnds, vars, flags, Rests, TypeOK

(* Every step is one of four.                                              *)
LEMMA StepCases ==
    ASSUME TypeOK, Kinded, [Next]_vars
    PROVE  \/ \E r \in Runs, t \in Tabs : Starts(r, t)
           \/ \E r \in Runs : Goes(r) \/ Finishes(r)
           \/ Rests
    <1>1. ASSUME NEW r \in Runs, NEW t \in Tabs, NEW kind \in {"single", "connect", "watch"},
                 Start(r, t, kind, 0)
          PROVE  Starts(r, t)
        BY <1>1, StartStarts, BoundAssumption DEF Kinds
    <1>2. ASSUME NEW r \in Runs, NEW t \in Tabs, NEW n \in 1..MaxStatements,
                 Start(r, t, "script", n)
          PROVE  Starts(r, t)
        BY <1>2, StartStarts, BoundAssumption DEF Kinds
    <1>3. ASSUME NEW r \in Runs, Continue(r) PROVE Goes(r) \/ Finishes(r)
        BY <1>3, ContinueGoesOrFinishes
    <1>4. QED
        BY <1>1, <1>2, <1>3, StopRests, RemovalRests, ToolRests DEF Next

-----------------------------------------------------------------------------
(* Types and generations.                                                  *)

LEMMA TypeInit == Init => TypeOK /\ Named /\ Kinded /\ Distinct
    <1> SUFFICES ASSUME Init PROVE TypeOK /\ Named /\ Kinded /\ Distinct  OBVIOUS
    <1>1. \A r \in Runs : run[r] \in RunRecords /\ run[r].pc = "idle" /\ run[r].gen = 0
        <2> TAKE r \in Runs
        <2>1. PICK t \in Tabs : run[r] = Idle(t)  BY DEF Init
        <2>2. QED  BY <2>1, IdleTyped
    <1>2. run \in [Runs -> RunRecords]  BY <1>1 DEF Init
    <1>3. 0 \in 0..MaxGen /\ 0 \in 0..MaxClears  BY BoundAssumption
    <1>4. << >> \in Seq(Entries)  BY EmptySeq
    <1>5. entries \in [Tabs -> Seq(Entries)]  BY <1>4 DEF Init
    <1>6. TypeOK  BY <1>2, <1>3, <1>5 DEF Init, TypeOK
    <1>7. QED  BY <1>1, <1>6 DEF Named, Kinded, Distinct, Live, At, Init

(* The list a run leaves when it makes an entry.                           *)
LEMMA EnterMakes ==
    ASSUME TypeOK, Named, NEW r \in Runs, Live(r), NEW lines \in SUBSET Printed(r),
           NEW late \in BOOLEAN, Enter(r, lines, late)
    PROVE  LET e == [of |-> run[r].gen, command |-> command, lines |-> lines,
                     late |-> late, alone |-> run[r].alone]
           IN  /\ e \in Entries
               /\ entries' \in [Tabs -> Seq(Entries)]
               /\ entries'[run[r].tab] = Append(run[r].seen, e)
               /\ \A t \in Tabs \ {run[r].tab} : entries'[t] = entries[t]
    <1> DEFINE e == [of |-> run[r].gen, command |-> command, lines |-> lines,
                     late |-> late, alone |-> run[r].alone]
    <1>1. run[r].tab \in Tabs /\ run[r].seen \in Seq(Entries) /\ run[r].alone \in BOOLEAN
        BY DEF TypeOK, RunRecords
    <1>2. run[r].gen \in Gens /\ command \in Gens  BY DEF Named
    <1>3. lines \subseteq Gens  BY <1>2 DEF Printed, TypeOK
    <1>4. e \in Entries  BY <1>1, <1>2, <1>3 DEF Entries
    <1>5. entries' = [entries EXCEPT ![run[r].tab] = Append(run[r].seen, e)]  BY DEF Enter
    <1> HIDE DEF e
    <1>6. Append(run[r].seen, e) \in Seq(Entries)  BY <1>1, <1>4, AppendProperties
    <1>7. QED  BY <1>1, <1>4, <1>5, <1>6 DEF e, TypeOK

LEMMA TypeStep ==
    ASSUME TypeOK, Named, Kinded, Distinct, [Next]_vars
    PROVE  (TypeOK /\ Named /\ Kinded /\ Distinct)'
    <1>0. /\ \A r \in Runs : run[r].gen \in Nat /\ run[r].gen <= gen
          /\ \A r \in Runs : Live(r) => run[r].gen \in Gens /\ command \in Gens
          /\ gen \in Nat /\ Gens \subseteq 0..MaxGen
        BY BoundAssumption DEF TypeOK, RunRecords, Named, Gens
    <1>1. ASSUME NEW r \in Runs, NEW t \in Tabs, Starts(r, t)
          PROVE  (TypeOK /\ Named /\ Kinded /\ Distinct)'
        <2>1. gen' \in Gens /\ command' \in Gens /\ gen' \in 0..MaxGen /\ command' \in 0..MaxGen
            BY <1>1, BoundAssumption DEF Starts, TypeOK, Gens
        <2>2. TypeOK'  BY <1>1, <2>1 DEF Starts, TypeOK
        <2>3. \A s \in Runs \ {r} : run[s].gen <= gen + 1 /\ run[s].gen # gen + 1
            BY <1>0
        <2>4. gen + 1 <= gen + 1  BY <1>0
        <2>5. Named'  BY <1>0, <1>1, <2>1, <2>3, <2>4 DEF Starts, Stays, Named, Live, At
        <2>6. Distinct'  BY <1>1, <2>3 DEF Starts, Stays, Distinct, Live, At
        <2>7. Kinded'  BY <1>1 DEF Starts, Stays, Kinded
        <2>8. QED  BY <2>2, <2>5, <2>6, <2>7
    <1>2. ASSUME NEW r \in Runs, Goes(r) PROVE (TypeOK /\ Named /\ Kinded /\ Distinct)'
        <2>0. /\ Live(r) /\ command' \in {command, run[r].gen}
              /\ output' = {} \/ output' \subseteq output \cup {run[r].gen}
            BY <1>2 DEF Goes, Printed
        <2>1. run[r].gen \in Gens /\ command' \in Gens  BY <1>0, <2>0
        <2>2. command' \in 0..MaxGen /\ output' \subseteq Gens
            BY <1>0, <2>0, <2>1 DEF TypeOK
        <2>3. TypeOK'  BY <1>2, <2>2 DEF Goes, Moves, TypeOK, flags
        <2>4. Named'  BY <1>0, <1>2, <2>1 DEF Goes, Moves, Named, Live, At
        <2>5. Distinct'  BY <1>2 DEF Goes, Moves, Distinct, Live, At
        <2>6. Kinded'  BY <1>2 DEF Goes, Moves, Kinded
        <2>7. QED  BY <2>3, <2>4, <2>5, <2>6
    <1>3. ASSUME NEW r \in Runs, Finishes(r) PROVE (TypeOK /\ Named /\ Kinded /\ Distinct)'
        <2>0. Live(r) /\ output' \subseteq output \cup {run[r].gen}
            BY <1>3 DEF Finishes, Printed
        <2>1. run[r].gen \in Gens /\ output' \subseteq Gens
            BY <1>0, <2>0 DEF TypeOK
        <2>2. entries' \in [Tabs -> Seq(Entries)]
            <3>1. CASE UNCHANGED entries  BY <3>1 DEF TypeOK
            <3>2. CASE \E lines \in SUBSET Printed(r) : Enter(r, lines, ~ Current(r))
                <4>1. (~ Current(r)) \in BOOLEAN  OBVIOUS
                <4>2. QED  BY <1>3, <3>2, <4>1, EnterMakes DEF Finishes
            <3>3. QED  BY <1>3, <3>1, <3>2 DEF Finishes
        <2>3. gate' \in BOOLEAN /\ executing' \in BOOLEAN /\ cancelFlag' \in BOOLEAN
            BY <1>3 DEF Finishes, Leaves, flags, TypeOK
        <2>4. TypeOK'  BY <1>3, <2>1, <2>2, <2>3 DEF Finishes, Leaves, TypeOK
        <2>5. 0 <= gen  BY BoundAssumption DEF TypeOK
        <2>6. Named'  BY <1>0, <1>3, <2>5 DEF Finishes, Leaves, Named, Live, At
        <2>7. Distinct'  BY <1>3 DEF Finishes, Leaves, Distinct, Live, At
        <2>8. Kinded'  BY <1>3 DEF Finishes, Leaves, Kinded, Live, At
        <2>9. QED  BY <2>4, <2>6, <2>7, <2>8
    <1>4. ASSUME Rests PROVE (TypeOK /\ Named /\ Kinded /\ Distinct)'
        <2>1. gen' \in 0..MaxGen /\ gen <= gen'  BY <1>4, BoundAssumption DEF Rests, TypeOK
        <2>2. TypeOK'  BY <1>4, <2>1 DEF Rests, TypeOK, flags
        <2>3. \A r \in Runs : run[r].gen <= gen'
            <3>1. gen' \in Nat  BY <2>1
            <3>2. QED  BY <1>0, <2>1, <3>1
        <2>4. Named'  BY <1>0, <1>4, <2>3 DEF Rests, Stays, Named, Live, At
        <2>5. Distinct'  BY <1>4 DEF Rests, Stays, Distinct, Live, At
        <2>6. Kinded'  BY <1>4 DEF Rests, Stays, Kinded
        <2>7. QED  BY <2>2, <2>4, <2>5, <2>6
    <1>5. QED  BY <1>1, <1>2, <1>3, <1>4, StepCases

-----------------------------------------------------------------------------
(* The gate.                                                               *)

LEMMA GateStep ==
    ASSUME TypeOK, Named, Kinded, Distinct, GateReopens, [Next]_vars
    PROVE  GateReopens'
    <1>1. ASSUME NEW r \in Runs, NEW t \in Tabs, Starts(r, t) PROVE GateReopens'
        BY <1>1 DEF Starts, GateReopens
    <1>2. ASSUME NEW r \in Runs, Goes(r) PROVE GateReopens'
        <2>0. gen' = gen /\ Moves(r)  BY <1>2 DEF Goes
        <2>1. \A s \in Runs : Live(s) /\ Current(s) => (Live(s) /\ Current(s))'
            BY <2>0 DEF Moves, Live, At, Current
        <2>2. executing' \/ (gate' = gate /\ executing' = executing)  BY <1>2 DEF Goes, flags
        <2>3. QED  BY <2>1, <2>2 DEF GateReopens
    <1>3. ASSUME NEW r \in Runs, Finishes(r) PROVE GateReopens'
        <2>1. CASE Current(r)  BY <1>3, <2>1 DEF Finishes, Leaves, GateReopens
        <2>2. CASE ~ Current(r)
            <3>1. \A s \in Runs : Live(s) /\ Current(s) => (Live(s) /\ Current(s))'
                BY <1>3, <2>2 DEF Finishes, Leaves, Live, At, Current
            <3>2. QED  BY <1>3, <2>2, <3>1 DEF Finishes, Leaves, GateReopens, flags
        <2>3. QED  BY <2>1, <2>2
    <1>4. ASSUME Rests PROVE GateReopens'
        <2>1. CASE gate'
            <3>1. UNCHANGED <<gate, executing, gen>>  BY <1>4, <2>1 DEF Rests, flags
            <3>2. \A s \in Runs : Live(s) /\ Current(s) => (Live(s) /\ Current(s))'
                BY <1>4, <3>1 DEF Rests, Stays, Live, At, Current
            <3>3. QED  BY <3>1, <3>2 DEF GateReopens
        <2>2. QED  BY <2>1 DEF GateReopens
    <1>5. QED  BY <1>1, <1>2, <1>3, <1>4, StepCases

-----------------------------------------------------------------------------
(* Whose an entry is.                                                      *)

LEMMA OwnAppend ==
    ASSUME NEW s \in Seq(Entries), NEW e \in Entries, OwnList(s), Own(e)
    PROVE  OwnList(Append(s, e))
    <1>1. /\ Len(Append(s, e)) = Len(s) + 1 /\ Len(s) \in Nat
          /\ \A i \in 1..Len(s) : Append(s, e)[i] = s[i]
          /\ Append(s, e)[Len(s) + 1] = e
        BY AppendProperties, LenProperties
    <1>2. \A i \in 1..Len(s) + 1 : i \in 1..Len(s) \/ i = Len(s) + 1  BY <1>1
    <1>3. QED  BY <1>1, <1>2 DEF OwnList

LEMMA OwnStep ==
    ASSUME TypeOK, Named, Kinded, Apart, Remembered, EntryIsOwn, [Next]_vars
    PROVE  (Apart /\ Remembered /\ EntryIsOwn)'
    <1>0. \A t \in Tabs : OwnList(entries[t])  BY DEF EntryIsOwn, OwnList, Own
    <1>1. ASSUME \A t \in Tabs : OwnList(entries[t])' PROVE EntryIsOwn'
        BY <1>1 DEF EntryIsOwn, OwnList, Own
    <1>2. ASSUME NEW r \in Runs, NEW t \in Tabs, Starts(r, t)
          PROVE  (Apart /\ Remembered /\ EntryIsOwn)'
        <2>1. Remembered'  BY <1>0, <1>2 DEF Starts, Stays, Remembered, OwnList
        <2>2. Apart'  BY <1>2 DEF Starts, Stays, Apart, Live, At
        <2>3. EntryIsOwn'  BY <1>2 DEF Starts, EntryIsOwn
        <2>4. QED  BY <2>1, <2>2, <2>3
    <1>3. ASSUME NEW r \in Runs, Goes(r) PROVE (Apart /\ Remembered /\ EntryIsOwn)'
        <2>1. Remembered'  BY <1>3 DEF Goes, Moves, Remembered, OwnList
        <2>2. EntryIsOwn'  BY <1>3 DEF Goes, EntryIsOwn
        <2>3. \A s \in Runs \ {r} : ~ (Live(s)' /\ run'[s].alone)
            BY <1>3 DEF Goes, Moves, Apart, Live, At
        <2>4. run[r].alone =>
                /\ \A s \in Runs \ {r} : ~ Live(s)'
                /\ command' = run'[r].gen /\ output' \subseteq {run'[r].gen}
            BY <1>3 DEF Goes, Moves, Apart, Printed, Live, At
        <2>5. Apart'  BY <1>3, <2>3, <2>4 DEF Goes, Moves, Apart
        <2>6. QED  BY <2>1, <2>2, <2>5
    <1>4. ASSUME NEW r \in Runs, Finishes(r) PROVE (Apart /\ Remembered /\ EntryIsOwn)'
        <2>1. OwnList(<< >>)  BY DEF OwnList
        <2>2. Remembered'  BY <1>4, <2>1 DEF Finishes, Leaves, Remembered, OwnList
        <2>3. Apart'
            <3>1. \A s \in Runs : Live(s)' => s # r  BY <1>4 DEF Finishes, Leaves
            <3>2. \A s \in Runs \ {r} : ~ (Live(s)' /\ run'[s].alone)
                BY <1>4 DEF Finishes, Leaves, Apart, Live, At
            <3>3. QED  BY <3>1, <3>2 DEF Apart
        <2>4. EntryIsOwn'
            <3>1. CASE UNCHANGED entries  BY <3>1 DEF EntryIsOwn
            <3>2. ASSUME ~ At(r, "connecting"), NEW lines \in SUBSET Printed(r),
                         Enter(r, lines, ~ Current(r))
                  PROVE  EntryIsOwn'
                <4> DEFINE e == [of |-> run[r].gen, command |-> command, lines |-> lines,
                                 late |-> ~ Current(r), alone |-> run[r].alone]
                <4>1. (~ Current(r)) \in BOOLEAN /\ Live(r)  BY <1>4 DEF Finishes
                <4>2. /\ e \in Entries /\ entries'[run[r].tab] = Append(run[r].seen, e)
                      /\ \A t \in Tabs \ {run[r].tab} : entries'[t] = entries[t]
                    BY <3>2, <4>1, EnterMakes
                <4>3. Own(e)  BY <3>2, <4>1 DEF Own, Apart, Printed
                <4> HIDE DEF e
                <4>4. run[r].seen \in Seq(Entries) /\ OwnList(run[r].seen)
                    BY DEF TypeOK, RunRecords, Remembered
                <4>5. \A t \in Tabs : OwnList(entries'[t])
                    BY <1>0, <4>2, <4>3, <4>4, OwnAppend
                <4>6. QED  BY <1>1, <4>5 DEF OwnList
            <3>3. QED  BY <1>4, <3>1, <3>2 DEF Finishes
        <2>5. QED  BY <2>2, <2>3, <2>4
    <1>5. ASSUME Rests PROVE (Apart /\ Remembered /\ EntryIsOwn)'
        <2>1. Remembered'  BY <1>5 DEF Rests, Stays, Remembered, OwnList
        <2>2. Apart'  BY <1>5 DEF Rests, Stays, Apart, Live, At
        <2>3. ASSUME NEW t \in Tabs PROVE OwnList(entries'[t])
            <3>1. CASE entries'[t] = entries[t]  BY <1>0, <3>1
            <3>2. CASE entries'[t] = << >>  BY <3>2 DEF OwnList
            <3>3. CASE entries[t] # << >>
                       /\ entries'[t] = SubSeq(entries[t], 1, Len(entries[t]) - 1)
                <4>1. entries[t] \in Seq(Entries) /\ Len(entries[t]) \in Nat
                    BY LenProperties DEF TypeOK
                <4>2. Len(entries'[t]) = Len(entries[t]) - 1
                      /\ \A i \in 1..Len(entries[t]) - 1 : entries'[t][i] = entries[t][i]
                    BY <3>3, <4>1, ShorterTyped
                <4>3. \A i \in 1..Len(entries[t]) - 1 : i \in 1..Len(entries[t])  BY <4>1
                <4>4. QED  BY <1>0, <4>2, <4>3 DEF OwnList
            <3>4. QED  BY <1>5, <3>1, <3>2, <3>3 DEF Rests
        <2>4. QED  BY <1>1, <2>1, <2>2, <2>3 DEF OwnList
    <1>6. QED  BY <1>2, <1>3, <1>4, <1>5, StepCases

-----------------------------------------------------------------------------
(* What a console's list becomes.                                          *)

LEMMA LateAppend ==
    ASSUME NEW s \in Seq(Entries), NEW e \in Entries, e.late
    PROVE  ~ InTime(Append(s, e))
    <1>1. /\ Len(Append(s, e)) = Len(s) + 1 /\ Len(s) \in Nat
          /\ Append(s, e)[Len(s) + 1] = e
        BY AppendProperties, LenProperties
    <1>2. Len(s) + 1 \in 1..Len(s) + 1  BY <1>1
    <1>3. QED  BY <1>1, <1>2 DEF InTime

LEMMA PrefixOfSelf == ASSUME NEW s PROVE Len(s) \in Nat => IsPrefix(s, s)
    BY DEF IsPrefix

LEMMA PrefixOfAppend ==
    ASSUME NEW s \in Seq(Entries), NEW e \in Entries
    PROVE  IsPrefix(s, Append(s, e))
    <1>1. /\ Len(s) \in Nat /\ Len(Append(s, e)) = Len(s) + 1
          /\ Append(s, e) = s \o <<e>> /\ <<e>> \in Seq(Entries)
        BY AppendProperties, AppendIsConcat, LenProperties
    <1>2. SubSeq(s, 1, Len(s)) = SubSeq(s \o <<e>>, 1, Len(s))
        <2>1. CASE Len(s) = 0
            BY <2>1, SubSeqEmpty
        <2>2. CASE Len(s) # 0
            <3>1. 1 \in 1..Len(s) /\ Len(s) \in 1..Len(s)  BY <1>1, <2>2
            <3>2. QED  BY <1>1, <3>1, SubSeqOfConcat1
        <2>3. QED  BY <2>1, <2>2
    <1>3. Len(s) <= Len(s) + 1  BY <1>1
    <1>4. QED  BY <1>1, <1>2, <1>3 DEF IsPrefix

(* The entry of a run, in the list of its tab.                             *)
LEMMA EntryComes ==
    ASSUME TypeOK, Named, NEW r \in Runs, Finishes(r), entries' # entries
    PROVE  \E e \in Entries :
              /\ e.late <=> ~ Current(r)
              /\ entries'[run[r].tab] = Append(run[r].seen, e)
              /\ \A t \in Tabs \ {run[r].tab} : entries'[t] = entries[t]
    <1>1. PICK lines \in SUBSET Printed(r) : Enter(r, lines, ~ Current(r))  BY DEF Finishes
    <1>2. (~ Current(r)) \in BOOLEAN /\ Live(r)  BY DEF Finishes
    <1> DEFINE e == [of |-> run[r].gen, command |-> command, lines |-> lines,
                     late |-> ~ Current(r), alone |-> run[r].alone]
    <1>3. /\ e \in Entries /\ entries'[run[r].tab] = Append(run[r].seen, e)
          /\ \A t \in Tabs \ {run[r].tab} : entries'[t] = entries[t]
        BY <1>1, <1>2, EnterMakes
    <1>4. e.late <=> ~ Current(r)  OBVIOUS
    <1> HIDE DEF e
    <1>5. QED  BY <1>3, <1>4

LEMMA LatestStep ==
    ASSUME TypeOK, Named, Kinded, Distinct, Latest, [Next]_vars
    PROVE  Latest'
    <1>0. /\ \A r \in Runs : run[r].gen \in Nat /\ run[r].gen <= gen
          /\ \A r \in Runs : run[r].tab \in Tabs
          /\ gen \in Nat
        BY BoundAssumption DEF TypeOK, RunRecords, Named
    <1>1. \A r \in Runs : run[r].gen # gen + 1  BY <1>0
    <1> SUFFICES ASSUME clears' = 0, NEW s \in Runs, Live(s)', Current(s)',
                        InTime(entries[run[s].tab])'
                 PROVE  entries'[run'[s].tab] = run'[s].seen
        BY DEF Latest
    <1>2. ASSUME NEW r \in Runs, NEW t \in Tabs, Starts(r, t)
          PROVE  entries'[run'[s].tab] = run'[s].seen
        <2>1. CASE s = r  BY <1>2, <2>1 DEF Starts
        <2>2. CASE s # r  BY <1>1, <1>2, <2>2 DEF Starts, Stays, Current
        <2>3. QED  BY <2>1, <2>2
    <1>3. ASSUME NEW r \in Runs, Goes(r) PROVE entries'[run'[s].tab] = run'[s].seen
        <2>1. gen' = gen /\ entries' = entries /\ clears' = clears /\ Moves(r) /\ Live(r)
            BY <1>3 DEF Goes
        <2>2. /\ Live(s) /\ Current(s) /\ run'[s].tab = run[s].tab /\ run'[s].seen = run[s].seen
            BY <2>1 DEF Moves, Live, At, Current
        <2>3. QED  BY <2>1, <2>2 DEF Latest, InTime
    <1>4. ASSUME NEW r \in Runs, Finishes(r) PROVE entries'[run'[s].tab] = run'[s].seen
        <2>1. gen' = gen /\ clears' = clears /\ Leaves(r) /\ Live(r)  BY <1>4 DEF Finishes
        <2>2. s # r /\ run'[s] = run[s] /\ Live(s) /\ Current(s)
            BY <2>1 DEF Leaves, Live, At, Current
        <2>3. ~ Current(r)  BY <2>1, <2>2 DEF Distinct, Current
        <2>4. CASE entries' = entries  BY <2>1, <2>2, <2>4 DEF Latest, InTime
        <2>5. CASE entries' # entries
            <3>1. PICK e \in Entries :
                    /\ e.late <=> ~ Current(r)
                    /\ entries'[run[r].tab] = Append(run[r].seen, e)
                    /\ \A t \in Tabs \ {run[r].tab} : entries'[t] = entries[t]
                BY <1>4, <2>5, EntryComes
            <3>2. run[r].seen \in Seq(Entries)  BY DEF TypeOK, RunRecords
            <3>3. run[s].tab # run[r].tab  BY <2>2, <2>3, <3>1, <3>2, LateAppend DEF InTime
            <3>4. entries'[run[s].tab] = entries[run[s].tab]  BY <1>0, <3>1, <3>3
            <3>5. QED  BY <2>1, <2>2, <3>4 DEF Latest, InTime
        <2>6. QED  BY <2>4, <2>5
    <1>5. ASSUME Rests PROVE entries'[run'[s].tab] = run'[s].seen
        <2>1. entries' = entries /\ clears' = clears  BY <1>5 DEF Rests
        <2>2. Live(s) /\ run'[s].gen = run[s].gen /\ run'[s].tab = run[s].tab
              /\ run'[s].seen = run[s].seen
            BY <1>5 DEF Rests, Stays, Live, At
        <2>3. gen' = gen  BY <1>1, <1>5, <2>2 DEF Rests, Current
        <2>4. Current(s)  BY <2>2, <2>3 DEF Current
        <2>5. QED  BY <2>1, <2>2, <2>4 DEF Latest, InTime
    <1>6. QED  BY <1>2, <1>3, <1>4, <1>5, StepCases

LEMMA KeptStep ==
    ASSUME TypeOK, Named, Kinded, Distinct, Latest, [Next]_vars,
           NEW t \in Tabs, clears' = 0, InTime(entries[t]), InTime(entries'[t])
    PROVE  IsPrefix(entries[t], entries'[t])
    <1>0. Len(entries[t]) \in Nat  BY LenProperties DEF TypeOK
    <1>1. CASE entries'[t] = entries[t]  BY <1>0, <1>1, PrefixOfSelf
    <1>2. ASSUME NEW r \in Runs, Finishes(r), entries'[t] # entries[t]
          PROVE  IsPrefix(entries[t], entries'[t])
        <2>1. PICK e \in Entries :
                /\ e.late <=> ~ Current(r)
                /\ entries'[run[r].tab] = Append(run[r].seen, e)
                /\ \A u \in Tabs \ {run[r].tab} : entries'[u] = entries[u]
            BY <1>2, EntryComes
        <2>2. t = run[r].tab /\ run[r].seen \in Seq(Entries)
            BY <1>2, <2>1 DEF TypeOK, RunRecords
        <2>3. Current(r)  BY <2>1, <2>2, LateAppend
        <2>4. clears = 0 /\ Live(r)  BY <1>2 DEF Finishes
        <2>5. entries[t] = run[r].seen  BY <2>2, <2>3, <2>4 DEF Latest
        <2>6. QED  BY <2>1, <2>2, <2>5, PrefixOfAppend
    <1>3. CASE Rests  BY <1>1, <1>3 DEF Rests
    <1>4. CASE \E r \in Runs, u \in Tabs : Starts(r, u)  BY <1>1, <1>4 DEF Starts
    <1>5. CASE \E r \in Runs : Goes(r)  BY <1>1, <1>5 DEF Goes
    <1>6. QED  BY <1>1, <1>2, <1>3, <1>4, <1>5, StepCases

-----------------------------------------------------------------------------
(* The theorems.                                                           *)

LEMMA ConsoleInit == Init => ConsoleInv
    <1> SUFFICES ASSUME Init PROVE ConsoleInv  OBVIOUS
    <1>1. \A r \in Runs : run[r].pc = "idle" /\ run[r].seen = << >>
        <2> TAKE r \in Runs
        <2>1. PICK t \in Tabs : run[r] = Idle(t)  BY DEF Init
        <2>2. QED  BY <2>1, IdleTyped
    <1>2. Apart /\ Latest  BY <1>1 DEF Apart, Latest, Live, At
    <1>3. Remembered  BY <1>1 DEF Remembered, OwnList
    <1>4. EntryIsOwn  BY DEF Init, EntryIsOwn
    <1>5. GateReopens  BY DEF Init, GateReopens
    <1>6. QED  BY <1>2, <1>3, <1>4, <1>5, TypeInit DEF ConsoleInv

LEMMA ConsoleStep == ConsoleInv /\ [Next]_vars => ConsoleInv'
    BY TypeStep, GateStep, OwnStep, LatestStep DEF ConsoleInv

THEOREM ConsoleSafety == Spec => []ConsoleInv
    BY ConsoleInit, ConsoleStep, PTL DEF Spec

(* The gate of the console is not closed for good: a run of the latest     *)
(* generation will open it, or the Cancel button is shown, although a run  *)
(* that was stopped while it connected takes the gate again (executeQuery, *)
(* cancelQuery).                                                           *)
THEOREM GateIsReopened == Spec => []GateReopens
    <1>1. ConsoleInv => GateReopens  BY DEF ConsoleInv
    <1>2. QED  BY <1>1, ConsoleSafety, PTL

(* An entry names the command and holds the lines of the run that made it, *)
(* if that run was alone: nothing that an earlier run left in the shared   *)
(* refs gets into it (executeQuery over the psql binary).                  *)
THEOREM EntriesAreOwn == Spec => []EntryIsOwn
    <1>1. ConsoleInv => EntryIsOwn  BY DEF ConsoleInv
    <1>2. QED  BY <1>1, ConsoleSafety, PTL

(* The list of a console only grows as long as the user removes nothing    *)
(* and no stopped run makes an entry, although each run puts back the list *)
(* it saw when it began (executeQuery, setPsqlEntries).                    *)
THEOREM EntriesStay == Spec => EntriesKept
    <1> DEFINE A == \A t \in Tabs :
                       clears' = 0 /\ InTime(entries[t]) /\ InTime(entries'[t])
                       => IsPrefix(entries[t], entries'[t])
    <1>1. ConsoleInv /\ [Next]_vars => [A]_vars  BY KeptStep DEF ConsoleInv
    <1>2. EntriesKept <=> [][A]_vars  BY DEF EntriesKept
    <1> HIDE DEF A
    <1>3. QED  BY <1>1, <1>2, ConsoleSafety, PTL DEF Spec

-----------------------------------------------------------------------------
Commands == {"ensure", "remove", "check", "list"}
TaskRecords ==
    [kind : {"idle", "refresh", "download", "remove"}, todo : Seq(Commands),
     at : {"begin", "sent", "unpacking", "unpacked", "removing", "seen"},
     saw : BOOLEAN, mine : BOOLEAN]
TasksTyped ==
    /\ tasks \in [Tasks -> TaskRecords]
    /\ cache \in [dir : BOOLEAN, tree : Files, bin : Files]
    /\ left \in BOOLEAN

(* Only the first command of a download fetches anything. *)
EnsureIsFirst ==
    \A t \in Tasks : \A i \in DOMAIN tasks[t].todo :
        tasks[t].todo[i] = "ensure" => i = 1 /\ tasks[t].kind = "download"
(* Of downloads that the page has not left there is one. *)
OneDownload ==
    \A s, t \in Tasks : tasks[s].kind = "download" /\ tasks[t].kind = "download"
                        => s = t /\ tasks[s].mine
(* What the one download has unpacked is its own file, until it is whole. *)
UnpackedIsOwn ==
    \A t \in Tasks :
        /\ AtCommand(t, "ensure", "unpacking") => cache.tree \in {t, "none"}
        /\ AtCommand(t, "ensure", "unpacked") => cache.tree \in {"whole", "none"}

-----------------------------------------------------------------------------
(* A chain that fetches nothing. *)
Harmless(task) == \A i \in DOMAIN task.todo : task.todo[i] # "ensure"

(* The chains of the page: a download begins with what it fetches.          *)
LEMMA ChainsTyped ==
    /\ ToolIdle \in TaskRecords /\ Refreshing \in TaskRecords /\ Listing \in TaskRecords
    /\ Downloading \in TaskRecords /\ Removing \in TaskRecords
    /\ ToolIdle.todo = <<>> /\ ToolIdle.kind = "idle" /\ Refreshing.kind = "refresh" /\ Listing.kind = "refresh"
    /\ Removing.kind = "remove" /\ Downloading.kind = "download" /\ Downloading.mine
    /\ ToolIdle.at = "begin" /\ Refreshing.at = "begin" /\ Listing.at = "begin"
    /\ Removing.at = "begin" /\ Downloading.at = "begin"
    /\ Harmless(ToolIdle) /\ Harmless(Refreshing) /\ Harmless(Listing) /\ Harmless(Removing)
    /\ \A i \in DOMAIN Downloading.todo : Downloading.todo[i] = "ensure" => i = 1
<1>2. /\ <<>> \in Seq(Commands) /\ <<"check">> \in Seq(Commands) /\ <<"list">> \in Seq(Commands)
      /\ <<"ensure", "check", "list">> \in Seq(Commands)
      /\ <<"remove", "list", "check">> \in Seq(Commands)
    BY DEF Commands
<1>1. ToolIdle.todo = <<>> /\ ToolIdle.kind = "idle" /\ ToolIdle.at = "begin" /\ ToolIdle \in TaskRecords
    BY <1>2 DEF ToolIdle, TaskRecords
<1>6. \A kind \in {"refresh", "download", "remove"}, todo \in Seq(Commands) :
          /\ Task(kind, todo) \in TaskRecords
          /\ Task(kind, todo).kind = kind /\ Task(kind, todo).todo = todo
          /\ Task(kind, todo).at = "begin" /\ Task(kind, todo).mine
    BY <1>1 DEF Task, TaskRecords
<1>3. /\ ToolIdle \in TaskRecords /\ Refreshing \in TaskRecords /\ Listing \in TaskRecords
      /\ Downloading \in TaskRecords /\ Removing \in TaskRecords
    BY <1>1, <1>2, <1>6 DEF Refreshing, Listing, Downloading, Removing
<1>7. /\ Refreshing.todo = <<"check">> /\ Listing.todo = <<"list">>
      /\ Removing.todo = <<"remove", "list", "check">>
      /\ Downloading.todo = <<"ensure", "check", "list">>
    BY <1>2, <1>6 DEF Refreshing, Listing, Downloading, Removing
<1>4. Harmless(ToolIdle) /\ Harmless(Refreshing) /\ Harmless(Listing) /\ Harmless(Removing)
    BY <1>1, <1>7 DEF Harmless
<1>5. \A i \in DOMAIN Downloading.todo : Downloading.todo[i] = "ensure" => i = 1
    BY <1>7
<1> QED
    BY <1>1, <1>2, <1>3, <1>4, <1>5, <1>6 DEF Refreshing, Listing, Downloading, Removing

(* A command that goes on, ends with the next one to begin, or fails.       *)
GoesOn(t, new) ==
    \E at \in {"begin", "sent", "unpacking", "unpacked", "removing", "seen"}, saw \in BOOLEAN :
        new = [tasks[t] EXCEPT !.at = at, !.saw = saw]
ChainEnded(t) == [tasks[t] EXCEPT !.todo = Tail(@), !.at = "begin"]
TaskMoves(t, new) ==
    \/ GoesOn(t, new)
    \/ tasks[t].todo # <<>> /\ new = ChainEnded(t)
    \/ new = ToolIdle

(* However a command moves, the chains stay what they are. *)
LEMMA MovesKeep ==
    ASSUME TasksTyped, EnsureIsFirst, NEW t \in Tasks, NEW new, TaskMoves(t, new),
           tasks' = [tasks EXCEPT ![t] = new], left' = left,
           cache' \in [dir : BOOLEAN, tree : Files, bin : Files]
    PROVE  /\ TasksTyped' /\ EnsureIsFirst' /\ tasks'[t] = new
           /\ \A s \in Tasks \ {t} : tasks'[s] = tasks[s]
           /\ OneDownload => OneDownload'
           /\ new.todo = tasks[t].todo \/ Harmless(new)
<1>1. /\ new \in TaskRecords /\ new.kind \in {tasks[t].kind, "idle"}
      /\ new.kind = "download" => new.mine = tasks[t].mine
      /\ new.todo = tasks[t].todo \/ Harmless(new)
    <2>1. CASE GoesOn(t, new)
        BY <2>1 DEF TasksTyped, TaskRecords, GoesOn
    <2>2. CASE tasks[t].todo # <<>> /\ new = ChainEnded(t)
        <3>1. tasks[t].todo \in Seq(Commands) /\ tasks[t] \in TaskRecords
            BY DEF TasksTyped, TaskRecords
        <3>2. /\ Tail(tasks[t].todo) \in Seq(Commands)
              /\ \A i \in DOMAIN Tail(tasks[t].todo) :
                     i + 1 \in DOMAIN tasks[t].todo /\ i + 1 # 1
                     /\ Tail(tasks[t].todo)[i] = tasks[t].todo[i + 1]
            BY <2>2, <3>1
        <3> QED BY <2>2, <3>1, <3>2 DEF TaskRecords, EnsureIsFirst, Harmless, ChainEnded
    <2>3. CASE new = ToolIdle
        BY <2>3, ChainsTyped
    <2> QED BY <2>1, <2>2, <2>3 DEF TaskMoves
<1>2. tasks'[t] = new /\ \A s \in Tasks \ {t} : tasks'[s] = tasks[s]
    BY DEF TasksTyped
<1>3. TasksTyped'
    BY <1>1 DEF TasksTyped
<1>4. EnsureIsFirst'
    <2>1. CASE new.todo = tasks[t].todo /\ new.kind = tasks[t].kind
        BY <2>1, <1>2 DEF EnsureIsFirst
    <2>2. CASE Harmless(new)
        BY <2>2, <1>2 DEF EnsureIsFirst, Harmless
    <2>3. CASE new = ToolIdle
        BY <2>3, <1>2, ChainsTyped DEF EnsureIsFirst, Harmless
    <2>4. new = ToolIdle \/ new.kind = tasks[t].kind
        BY DEF TaskMoves, GoesOn, ChainEnded, TasksTyped, TaskRecords
    <2> QED BY <1>1, <2>1, <2>2, <2>3, <2>4
<1>5. OneDownload => OneDownload'
    BY <1>1, <1>2 DEF OneDownload
<1> QED
    BY <1>1, <1>2, <1>3, <1>4, <1>5

(* The end of a command is one of these moves. *)
LEMMA EndsMove ==
    ASSUME TasksTyped, NEW t \in Tasks, CommandEnds(t), tasks[t].todo # <<>>
    PROVE  \E new : TaskMoves(t, new) /\ tasks' = [tasks EXCEPT ![t] = new] /\ new.at = "begin"
<1>1. ChainEnded(t).at = "begin" /\ TaskMoves(t, ChainEnded(t))
    BY DEF TasksTyped, TaskRecords, TaskMoves, ChainEnded
<1>2. ToolIdle.at = "begin" /\ TaskMoves(t, ToolIdle)
    BY ChainsTyped DEF TaskMoves
<1>3. tasks' = [tasks EXCEPT ![t] = IF Len(tasks[t].todo) = 1 THEN ToolIdle ELSE ChainEnded(t)]
    BY DEF CommandEnds, ChainEnded
<1> QED BY <1>1, <1>2, <1>3

(* And so is its progress. *)
LEMMA NowMoves ==
    ASSUME TasksTyped, NEW t \in Tasks,
           NEW at \in {"begin", "sent", "unpacking", "unpacked", "removing", "seen"}, Now(t, at)
    PROVE  \E new : /\ TaskMoves(t, new) /\ tasks' = [tasks EXCEPT ![t] = new] /\ new.at = at
                    /\ new.todo = tasks[t].todo
<1> DEFINE new == [tasks[t] EXCEPT !.at = at]
<1>1. tasks' = [tasks EXCEPT ![t] = new] /\ new.at = at /\ new.todo = tasks[t].todo
    BY DEF Now, TasksTyped, TaskRecords
<1>2. new = [tasks[t] EXCEPT !.at = at, !.saw = tasks[t].saw] /\ tasks[t].saw \in BOOLEAN
    BY DEF TasksTyped, TaskRecords
<1> QED BY <1>1, <1>2 DEF TaskMoves, GoesOn

-----------------------------------------------------------------------------
(* What holds of the cache as long as no page was left during its download. *)
CacheHolds == OneDownload /\ UnpackedIsOwn /\ cache.bin \in {"none", "whole"}

(* Who fetches is the one download. *)
LEMMA FetchingIsDownload ==
    ASSUME TasksTyped, EnsureIsFirst, NEW t \in Tasks, NEW at, AtCommand(t, "ensure", at)
    PROVE  tasks[t].kind = "download"
<1>1. tasks[t].todo \in Seq(Commands) /\ tasks[t].todo # <<>>
    BY DEF TasksTyped, TaskRecords, AtCommand
<1>2. 1 \in DOMAIN tasks[t].todo /\ tasks[t].todo[1] = "ensure"
    BY <1>1 DEF AtCommand
<1> QED BY <1>2 DEF EnsureIsFirst

(* A step of a download, which has the cache for itself. *)
LEMMA DownloadHolds ==
    ASSUME TasksTyped, EnsureIsFirst, CacheHolds, NEW t \in Tasks, NEW at, AtCommand(t, "ensure", at),
           NEW new, TaskMoves(t, new), tasks' = [tasks EXCEPT ![t] = new], left' = left,
           cache' \in [dir : BOOLEAN, tree : Files, bin : Files],
           cache'.bin \in {"none", "whole"},
           new.at = "unpacking" => cache'.tree \in {t, "none"},
           new.at = "unpacked" => cache'.tree \in {"whole", "none"}
    PROVE  TasksTyped' /\ EnsureIsFirst' /\ CacheHolds'
<1>1. /\ TasksTyped' /\ EnsureIsFirst' /\ tasks'[t] = new /\ OneDownload'
      /\ \A s \in Tasks \ {t} : tasks'[s] = tasks[s]
    BY MovesKeep DEF CacheHolds
<1>2. \A s \in Tasks \ {t} : tasks[s].kind # "download"
    BY FetchingIsDownload DEF CacheHolds, OneDownload
<1>3. \A s \in Tasks, when \in {"unpacking", "unpacked"} :
          AtCommand(s, "ensure", when)' => s = t /\ new.at = when
    BY <1>1, <1>2, FetchingIsDownload DEF AtCommand, EnsureIsFirst
<1>4. UnpackedIsOwn'
    BY <1>3 DEF UnpackedIsOwn
<1> QED BY <1>1, <1>4 DEF CacheHolds

(* A step of another command, which may remove files but makes none. *)
LEMMA OtherHolds ==
    ASSUME TasksTyped, EnsureIsFirst, NEW t \in Tasks, NEW new, TaskMoves(t, new),
           tasks' = [tasks EXCEPT ![t] = new], left' = left,
           tasks[t].todo # <<>> => Head(tasks[t].todo) # "ensure",
           cache' \in [dir : BOOLEAN, tree : Files, bin : Files],
           cache'.bin \in {"none", cache.bin}, cache'.tree \in {"none", cache.tree}
    PROVE  TasksTyped' /\ EnsureIsFirst' /\ (CacheHolds => CacheHolds')
<1>1. /\ TasksTyped' /\ EnsureIsFirst' /\ tasks'[t] = new /\ (OneDownload => OneDownload')
      /\ \A s \in Tasks \ {t} : tasks'[s] = tasks[s]
      /\ new.todo = tasks[t].todo \/ Harmless(new)
    BY MovesKeep
<1>2. \A s \in Tasks, at \in {"unpacking", "unpacked"} :
          AtCommand(s, "ensure", at)' => AtCommand(s, "ensure", at)
    <2> SUFFICES ASSUME NEW s \in Tasks, NEW at \in {"unpacking", "unpacked"},
                        AtCommand(s, "ensure", at)'
                 PROVE  s # t
        BY <1>1 DEF AtCommand
    <2>1. tasks'[s].todo \in Seq(Commands) /\ tasks'[s].todo # <<>>
          /\ Head(tasks'[s].todo) = "ensure"
        BY <1>1 DEF TasksTyped, TaskRecords, AtCommand
    <2>2. 1 \in DOMAIN tasks'[s].todo /\ tasks'[s].todo[1] = "ensure"
        BY <2>1
    <2> QED BY <1>1, <2>1, <2>2 DEF Harmless
<1>3. CacheHolds => CacheHolds'
    BY <1>1, <1>2 DEF CacheHolds, UnpackedIsOwn
<1> QED BY <1>1, <1>3

-----------------------------------------------------------------------------
(* The inductive invariant. *)
ToolInvs == TasksTyped /\ EnsureIsFirst /\ (~left => CacheHolds)

(* At the start nothing is cached and nobody is at work. *)
LEMMA ToolStart == ToolInit => ToolInvs
<1> SUFFICES ASSUME ToolInit PROVE ToolInvs
    OBVIOUS
<1>1. TasksTyped /\ \A t \in Tasks : tasks[t] = ToolIdle
    BY ChainsTyped DEF ToolInit, TasksTyped, Files
<1>2. EnsureIsFirst /\ OneDownload /\ UnpackedIsOwn
    BY <1>1, ChainsTyped DEF EnsureIsFirst, OneDownload, UnpackedIsOwn, AtCommand
<1> QED BY <1>1, <1>2 DEF ToolInvs, CacheHolds, ToolInit

(* A step of the command that fetches, and one of another command. *)
LEMMA FetchStep ==
    ASSUME ToolInvs, NEW t \in Tasks, NEW at, AtCommand(t, "ensure", at), NEW new, TaskMoves(t, new),
           tasks' = [tasks EXCEPT ![t] = new], left' = left,
           cache' \in [dir : BOOLEAN, tree : Files, bin : Files],
           ~left => /\ cache'.bin \in {"none", "whole"}
                    /\ new.at = "unpacking" => cache'.tree \in {t, "none"}
                    /\ new.at = "unpacked" => cache'.tree \in {"whole", "none"}
    PROVE  ToolInvs'
<1>1. TasksTyped /\ EnsureIsFirst /\ (~left => CacheHolds)
    BY DEF ToolInvs
<1>2. TasksTyped' /\ EnsureIsFirst'
    BY <1>1, MovesKeep
<1>3. CASE ~left
    <2>1. TasksTyped' /\ EnsureIsFirst' /\ CacheHolds'
        BY <1>1, <1>3, DownloadHolds
    <2> QED BY <2>1 DEF ToolInvs
<1>4. CASE left
    BY <1>2, <1>4 DEF ToolInvs
<1> QED BY <1>3, <1>4

(* Commands other than the one that fetches keep the invariant if they make *)
(* no file.                                                                 *)
LEMMA OtherStep ==
    ASSUME ToolInvs, NEW t \in Tasks, NEW new, TaskMoves(t, new),
           tasks' = [tasks EXCEPT ![t] = new], left' = left,
           tasks[t].todo # <<>> => Head(tasks[t].todo) # "ensure",
           cache' \in [dir : BOOLEAN, tree : Files, bin : Files],
           cache'.bin \in {"none", cache.bin}, cache'.tree \in {"none", cache.tree}
    PROVE  ToolInvs'
<1>1. TasksTyped /\ EnsureIsFirst /\ (~left => CacheHolds)
    BY DEF ToolInvs
<1>2. TasksTyped' /\ EnsureIsFirst' /\ (CacheHolds => CacheHolds')
    BY <1>1, OtherHolds
<1> QED BY <1>1, <1>2 DEF ToolInvs

(* Every step of a command keeps the invariant. *)
LEMMA CommandsKeep ==
    ASSUME ToolInvs, NEW t \in Tasks
    PROVE  Ensure(t) \/ Unpack(t) \/ Unpacked(t) \/ RelocateBinaries(t) \/ DownloadFails(t)
           \/ RemoveCached(t) \/ Unlink(t) \/ ToolRemoved(t) \/ RemoveFails(t)
           \/ Look(t) \/ FetchTools(t) \/ ListCached(t) => ToolInvs'
<1>1. /\ TasksTyped /\ tasks[t] \in TaskRecords
      /\ cache \in [dir : BOOLEAN, tree : Files, bin : Files] /\ (~left => cache.bin \in {"none", "whole"})
    BY DEF ToolInvs, TasksTyped, CacheHolds
<1>5. /\ TaskMoves(t, ToolIdle) /\ ToolIdle.at = "begin" /\ t \in Files
      /\ "none" \in Files /\ "part" \in Files /\ "whole" \in Files
    BY ChainsTyped DEF Files, TaskMoves
<1>6. ~left => /\ AtCommand(t, "ensure", "unpacking") => cache.tree \in {t, "none"}
               /\ AtCommand(t, "ensure", "unpacked") => cache.tree \in {"whole", "none"}
    BY DEF ToolInvs, CacheHolds, UnpackedIsOwn
<1>8. ASSUME Ensure(t) PROVE ToolInvs'
    <2>1. CASE FindAvailable
        <3>1. CommandEnds(t) /\ cache' = cache /\ left' = left /\ AtCommand(t, "ensure", "begin")
            BY <1>8, <2>1 DEF Ensure, Settles
        <3>2. tasks[t].todo # <<>>
            BY <3>1 DEF AtCommand
        <3> QED BY <1>1, <3>1, <3>2, FetchStep, EndsMove
    <2>2. CASE ~FindAvailable
        <3>1. /\ Now(t, "sent") /\ left' = left /\ AtCommand(t, "ensure", "begin")
              /\ cache' \in [dir : BOOLEAN, tree : Files, bin : Files] /\ cache'.bin = cache.bin
            BY <1>1, <1>8, <2>2 DEF Ensure, Settles
        <3> QED BY <1>1, <3>1, FetchStep, NowMoves
    <2> QED BY <2>1, <2>2
<1>9. ASSUME Unpack(t) PROVE ToolInvs'
    <2>1. /\ AtCommand(t, "ensure", "sent") /\ Now(t, "unpacking") /\ left' = left
          /\ cache' \in [dir : BOOLEAN, tree : Files, bin : Files]
          /\ cache'.bin = cache.bin /\ cache'.tree = t
        BY <1>1, <1>5, <1>9 DEF Unpack, Settles
    <2> QED BY <1>1, FetchStep, <2>1, NowMoves
<1>10. ASSUME Unpacked(t) PROVE ToolInvs'
    <2>1. /\ AtCommand(t, "ensure", "unpacking") /\ Now(t, "unpacked") /\ left' = left
          /\ cache' \in [dir : BOOLEAN, tree : Files, bin : Files]
          /\ cache'.bin \in {cache.bin, "whole"} /\ cache'.tree = IF cache.tree = t THEN "whole" ELSE cache.tree
        BY <1>1, <1>5, <1>10 DEF Unpacked, Written, Settles
    <2> QED BY <1>1, FetchStep, <1>6, <2>1, NowMoves
<1>11. ASSUME RelocateBinaries(t) PROVE ToolInvs'
    <2>1. /\ AtCommand(t, "ensure", "unpacked") /\ left' = left
          /\ cache' \in [dir : BOOLEAN, tree : Files, bin : Files]
          /\ cache'.bin \in {cache.bin, cache.tree} /\ cache'.tree = "none"
          /\ CommandEnds(t) \/ tasks' = [tasks EXCEPT ![t] = ToolIdle]
          /\ cache'.bin = cache.bin \/ cache.tree # "none"
        BY <1>1, <1>5, <1>11 DEF RelocateBinaries, Settles
    <2>2. ~left => cache'.bin \in {"none", "whole"}
        BY <1>1, <1>6, <2>1
    <2>3. CASE CommandEnds(t)
        BY <1>1, FetchStep, <2>1, <2>2, <2>3, EndsMove DEF AtCommand
    <2>4. CASE tasks' = [tasks EXCEPT ![t] = ToolIdle]
        BY FetchStep, <1>5, <2>1, <2>2, <2>4
    <2> QED BY <2>1, <2>3, <2>4
<1>12. ASSUME DownloadFails(t) PROVE ToolInvs'
    <2>1. PICK at : AtCommand(t, "ensure", at)
        BY <1>12 DEF DownloadFails
    <2>2. /\ cache' \in [dir : BOOLEAN, tree : Files, bin : Files]
          /\ cache'.bin = IF cache.bin = t THEN "part" ELSE cache.bin
          /\ tasks' = [tasks EXCEPT ![t] = ToolIdle] /\ left' = left
        BY <1>1, <1>5, <1>12 DEF DownloadFails, Written, Settles
    <2>3. ~left => cache.bin # t
        BY <1>1, ToolAssumption
    <2> QED BY <1>1, FetchStep, <1>5, <2>1, <2>2, <2>3
<1>13. ASSUME RemoveCached(t) PROVE ToolInvs'
    <2>1. /\ AtCommand(t, "remove", "begin") /\ cache' = cache /\ left' = left
          /\ Now(t, "removing") \/ CommandEnds(t)
        BY <1>13 DEF RemoveCached, Settles
    <2>2. \E new : TaskMoves(t, new) /\ tasks' = [tasks EXCEPT ![t] = new]
        BY <1>1, <2>1, NowMoves, EndsMove DEF AtCommand
    <2> QED BY <1>1, OtherStep, <2>1, <2>2 DEF AtCommand
<1>14. ASSUME Unlink(t) PROVE ToolInvs'
    <2>1. /\ AtCommand(t, "remove", "removing") /\ tasks' = tasks /\ left' = left
          /\ cache' \in [dir : BOOLEAN, tree : Files, bin : Files]
          /\ cache'.bin \in {"none", cache.bin} /\ cache'.tree \in {"none", cache.tree}
        BY <1>1, <1>5, <1>14 DEF Unlink, Settles
    <2>2. /\ GoesOn(t, tasks[t])
          /\ tasks' = [tasks EXCEPT ![t] = tasks[t]]
        <3>1. /\ tasks[t] = [tasks[t] EXCEPT !.at = tasks[t].at, !.saw = tasks[t].saw]
              /\ tasks[t].at \in {"begin", "sent", "unpacking", "unpacked", "removing", "seen"}
              /\ tasks[t].saw \in BOOLEAN
            BY <1>1 DEF TasksTyped, TaskRecords
        <3> QED BY <1>1, <2>1, <3>1 DEF TasksTyped, GoesOn
    <2> QED BY OtherStep, <2>1, <2>2 DEF AtCommand, TaskMoves
<1>15. ASSUME ToolRemoved(t) PROVE ToolInvs'
    <2>1. /\ AtCommand(t, "remove", "removing") /\ CommandEnds(t) /\ left' = left
          /\ cache' \in [dir : BOOLEAN, tree : Files, bin : Files]
          /\ cache'.bin = cache.bin /\ cache'.tree = cache.tree
        BY <1>1, <1>5, <1>15 DEF ToolRemoved, Settles
    <2> QED BY <1>1, OtherStep, <2>1, EndsMove DEF AtCommand
<1>16. ASSUME RemoveFails(t) PROVE ToolInvs'
    BY <1>1, OtherStep, <1>5, <1>16 DEF RemoveFails, AtCommand, Settles
<1>17. ASSUME Look(t) PROVE ToolInvs'
    <2>1. PICK saw \in BOOLEAN : tasks' = [tasks EXCEPT ![t] = [tasks[t] EXCEPT !.at = "seen", !.saw = saw]]
        BY <1>17 DEF Look
    <2>2. TaskMoves(t, [tasks[t] EXCEPT !.at = "seen", !.saw = saw])
        BY DEF TaskMoves, GoesOn
    <2>3. cache' = cache /\ left' = left /\ Head(tasks[t].todo) # "ensure"
        BY <1>17 DEF Look, AtCommand, Settles
    <2> DEFINE new == [tasks[t] EXCEPT !.at = "seen", !.saw = saw]
    <2> HIDE DEF new
    <2> QED BY <1>1, <2>1, <2>2, <2>3, OtherStep DEF new
<1>18. ASSUME FetchTools(t) \/ ListCached(t) PROVE ToolInvs'
    <2>1. /\ CommandEnds(t) /\ cache' = cache /\ left' = left
          /\ tasks[t].todo # <<>> /\ Head(tasks[t].todo) # "ensure"
        BY <1>18 DEF FetchTools, ListCached, AtCommand
    <2> QED BY <1>1, <2>1, OtherStep, EndsMove
<1> QED BY <1>8, <1>9, <1>10, <1>11, <1>12, <1>13, <1>14, <1>15, <1>16, <1>17, <1>18

(* A chain that begins, beside which there is no other download. *)
LEMMA ChainBegins ==
    ASSUME ToolInvs, NEW t \in Tasks, tasks[t] = ToolIdle, NEW chain \in TaskRecords,
           \/ Harmless(chain) /\ chain.kind # "download"
           \/ chain = Downloading /\ (~left => \A s \in Tasks : tasks[s].kind # "download"),
           chain.at = "begin",
           tasks' = [tasks EXCEPT ![t] = chain], cache' = cache, left' = left
    PROVE  ToolInvs'
<1>1. TasksTyped /\ EnsureIsFirst /\ (~left => CacheHolds)
    BY DEF ToolInvs
<1>2. TasksTyped' /\ tasks'[t] = chain /\ \A s \in Tasks \ {t} : tasks'[s] = tasks[s]
    BY <1>1 DEF TasksTyped
<1>3. EnsureIsFirst'
    BY <1>1, <1>2, ChainsTyped DEF EnsureIsFirst, Harmless
<1>4. \A s \in Tasks, at \in {"unpacking", "unpacked"} :
          AtCommand(s, "ensure", at)' => AtCommand(s, "ensure", at)
    BY <1>2 DEF AtCommand
<1>5. ~left => OneDownload'
    BY <1>1, <1>2, ChainsTyped DEF OneDownload, CacheHolds
<1> QED BY <1>1, <1>2, <1>3, <1>4, <1>5 DEF ToolInvs, CacheHolds, UnpackedIsOwn

(* The page asks anew: both chains fetch nothing. *)
LEMMA RefreshKeeps ==
    ASSUME ToolInvs, NEW s \in Tasks, NEW t \in Tasks, Refresh(s, t), cache' = cache, left' = left
    PROVE  ToolInvs'
<1>1. TasksTyped /\ EnsureIsFirst /\ (~left => CacheHolds)
    BY DEF ToolInvs
<1>2. /\ tasks'[s] = Refreshing /\ tasks'[t] = Listing /\ TasksTyped'
      /\ \A r \in Tasks \ {s, t} : tasks'[r] = tasks[r]
    BY <1>1, ChainsTyped DEF Refresh, TasksTyped
<1>3. EnsureIsFirst'
    BY <1>1, <1>2, ChainsTyped DEF EnsureIsFirst, Harmless
<1>4. \A r \in Tasks, at \in {"unpacking", "unpacked"} :
          AtCommand(r, "ensure", at)' => AtCommand(r, "ensure", at)
    BY <1>2, ChainsTyped DEF AtCommand
<1>5. ~left => OneDownload'
    BY <1>1, <1>2, ChainsTyped DEF OneDownload, CacheHolds
<1> QED BY <1>1, <1>2, <1>3, <1>4, <1>5 DEF ToolInvs, CacheHolds, UnpackedIsOwn

(* Leaving the page during a download ends the promise; otherwise no        *)
(* download is under way.                                                   *)
LEMMA LeaveKeeps == ToolInvs /\ LeavePage => ToolInvs'
<1> SUFFICES ASSUME ToolInvs, LeavePage PROVE ToolInvs'
    OBVIOUS
<1>1. TasksTyped /\ EnsureIsFirst /\ (~left => CacheHolds)
    BY DEF ToolInvs
<1>2. /\ TasksTyped' /\ cache' = cache
      /\ \A t \in Tasks : /\ tasks'[t].todo = tasks[t].todo /\ tasks'[t].kind = tasks[t].kind
                          /\ tasks'[t].at = tasks[t].at
    BY <1>1 DEF LeavePage, TasksTyped, TaskRecords, Busy
<1>3. EnsureIsFirst'
    BY <1>1, <1>2 DEF EnsureIsFirst
<1>4. ~left' => ~left /\ \A t \in Tasks : tasks[t].kind # "download"
    BY <1>1 DEF LeavePage, Busy, CacheHolds, OneDownload
<1>5. ~left' => OneDownload'
    BY <1>2, <1>4 DEF OneDownload
<1>6. UnpackedIsOwn => UnpackedIsOwn'
    BY <1>2 DEF UnpackedIsOwn, AtCommand
<1> QED BY <1>1, <1>2, <1>3, <1>4, <1>5, <1>6 DEF ToolInvs, CacheHolds

(* A restart leaves parts only in the unpacked tree. *)
LEMMA ToolRestartKeeps == ToolInvs /\ ToolRestart => ToolInvs'
<1> SUFFICES ASSUME ToolInvs, ToolRestart PROVE ToolInvs'
    OBVIOUS
<1>1. TasksTyped /\ EnsureIsFirst /\ (~left => CacheHolds) /\ left' = left
    BY DEF ToolInvs, ToolRestart
<1>2. TasksTyped' /\ \A t \in Tasks : tasks'[t] = ToolIdle
    BY <1>1, ChainsTyped DEF ToolRestart, TasksTyped, Files
<1>3. EnsureIsFirst' /\ OneDownload' /\ UnpackedIsOwn'
    BY <1>2, ChainsTyped DEF EnsureIsFirst, OneDownload, UnpackedIsOwn, AtCommand
<1>4. ~left => cache'.bin \in {"none", "whole"}
    BY <1>1, ToolAssumption DEF ToolRestart, CacheHolds, TasksTyped
<1> QED BY <1>1, <1>2, <1>3, <1>4 DEF ToolInvs, CacheHolds

(* Every step keeps the invariant. *)
LEMMA ToolStep == ToolInvs /\ [ToolNext]_toolVars => ToolInvs'
<1> SUFFICES ASSUME ToolInvs, [ToolNext]_toolVars PROVE ToolInvs'
    OBVIOUS
<1>1. ASSUME NEW s \in Tasks, NEW t \in Tasks, OpenPage(s, t) \/ ClickRefresh(s, t)
      PROVE  ToolInvs'
    BY <1>1, RefreshKeeps DEF OpenPage, ClickRefresh
<1>2. ASSUME NEW t \in Tasks, HandleDownload(t) PROVE ToolInvs'
    <2>1. ~left => \A s \in Tasks : tasks[s].kind # "download"
        BY <1>2 DEF ToolInvs, CacheHolds, OneDownload, HandleDownload, Busy
    <2>2. /\ tasks[t] = ToolIdle /\ tasks' = [tasks EXCEPT ![t] = Downloading]
          /\ cache' = cache /\ left' = left
        BY <1>2 DEF HandleDownload
    <2> QED BY <2>1, <2>2, ChainsTyped, ChainBegins
<1>3. ASSUME NEW t \in Tasks, HandleRemove(t) PROVE ToolInvs'
    <2>1. /\ tasks[t] = ToolIdle /\ tasks' = [tasks EXCEPT ![t] = Removing]
          /\ cache' = cache /\ left' = left
        BY <1>3 DEF HandleRemove
    <2>2. /\ Removing \in TaskRecords /\ Harmless(Removing) /\ Removing.kind # "download"
          /\ Removing.at = "begin"
        <3>1. /\ Removing.kind = "remove" /\ Removing \in TaskRecords /\ Harmless(Removing)
              /\ Removing.at = "begin"
            BY ChainsTyped
        <3> QED BY <3>1
    <2> QED BY <2>1, <2>2, ChainBegins
<1>4. ASSUME tasks' = tasks, cache' = cache, left' = left PROVE ToolInvs'
    BY <1>4 DEF ToolInvs, TasksTyped, EnsureIsFirst, CacheHolds, OneDownload, UnpackedIsOwn, AtCommand
<1>5. CASE InstallOutside
    BY <1>4, <1>5 DEF InstallOutside
<1>6. CASE UNCHANGED toolVars
    BY <1>4, <1>6 DEF toolVars
<1> QED BY <1>1, <1>2, <1>3, <1>5, <1>6, CommandsKeep, LeaveKeeps, ToolRestartKeeps DEF ToolNext

(* Whatever fails, is removed or crashes on the way, a cached binary that   *)
(* the next lookup would use is a whole one, as long as no page was left    *)
(* during its download (ensure in cli_tools.rs, which unpacks beside the    *)
(* place it looks in).                                                      *)
THEOREM DownloadsAreWhole == ToolSpec => []LoneDownloadsAreWhole
<1>1. ToolInvs => LoneDownloadsAreWhole
    BY DEF ToolInvs, CacheHolds, LoneDownloadsAreWhole
<1> QED BY <1>1, ToolStart, ToolStep, PTL DEF ToolSpec
=============================================================================
