----------------------------- MODULE GridProofs ------------------------------
(***************************************************************************)
(* Proofs about GridWrites, for any number of tabs, jobs, rows and lost    *)
(* connections: the indicator is right when a tab rests (IndicatorHonest), *)
(* a batch is saved whole or not at all (BatchIsWhole), and does not end a *)
(* transaction of the user (TransactionKept).                              *)
(*                                                                         *)
(* None is inductive.  Between the steps of a job the indicator lags       *)
(* behind the server: Told says what it will be told, for the one job that *)
(* a tab may have without going astray.  What of a batch is held, saved    *)
(* and durable is fixed by the statement it is at and the answer it has    *)
(* (Batched), because nobody else has its rows (KeptApart).                *)
(***************************************************************************)
EXTENDS GridWrites, SequenceTheorems, TLAPS

Plain == {"begin", "write", "commit", "rollback"}
Inner == {"save", "write", "release", "back"}

(* What a job of each kind may be at.                                      *)
FormedAt(j) ==
    /\ Running(j) => job[j].tab \in Tabs /\ job[j].out = "pending"
    /\ job[j].kind = "grid" =>
          j \in Batches /\ job[j].stmt \in (IF job[j].in THEN Inner ELSE Plain)
    /\ job[j].kind \in {"control", "run"} => j \in Statements /\ job[j].stmt \in UserStatements
    /\ job[j].kind = "control" => job[j].stmt \in Opens \cup Ends

Formed == \A j \in Jobs : FormedAt(j)

(* Nothing is held outside a transaction; only PostgreSQL aborts one.      *)
Tx(s) == s.tx \in {"open", "aborted"}

Sound(s) ==
    /\ s \in SessionRecords
    /\ ~ Tx(s) => s.held = {} /\ s.saves = << >>
    /\ s.tx = "aborted" => engine = "postgres"

Closed == \A t \in Tabs : Sound(session[t]) /\ (session[t].tx = "lost" => t \in astray)

Only(j) == \A i \in Jobs : Running(i) /\ job[i].tab = job[j].tab => i = j

(* What the indicator of the tab will be told.                             *)
Told(j) ==
    LET t == job[j].tab IN
    IF job[j].reply = "ok" /\ job[j].stmt \in Opens THEN InTx(t)
    ELSE IF job[j].reply = "ok" /\ job[j].stmt \in Ends THEN ~ InTx(t)
    ELSE mark[t] = InTx(t)

(* Where a batch is with the tab's transaction.                            *)
Between(j) ==
    LET t == job[j].tab IN
    /\ mark[t] = job[j].in
    /\ IF job[j].in THEN InTx(t)
       ELSE CASE job[j].stmt = "begin" ->
                    IF job[j].reply = "none" THEN ~ InTx(t) ELSE job[j].reply = "ok" /\ InTx(t)
              [] job[j].stmt = "write" -> InTx(t)
              [] job[j].stmt \in {"commit", "rollback"} -> job[j].reply # "none" => ~ InTx(t)

IndicatedAt(j) ==
    Running(j) /\ job[j].tab \notin astray =>
        /\ Only(j)
        /\ IF job[j].kind = "grid" THEN Between(j) ELSE Told(j)

Indicated == \A j \in Jobs : IndicatedAt(j)

(* A session has none of the writes S, nor has a savepoint of it.          *)
ClearOf(S, s) ==
    /\ S \cap s.held = {}
    /\ \A i \in 1..Len(s.saves) : S \cap s.saves[i] = {}

(* What a batch writes is nowhere before it runs, and in its tab then.     *)
Apart(j) ==
    /\ job[j] = Waiting => Writes(j) \cap durable = {}
    /\ \A t \in Tabs : job[j] = Waiting \/ (Running(j) /\ job[j].tab # t) =>
          ClearOf(Writes(j), session[t])

KeptApart == \A j \in Batches : Apart(j)

UpTo(j, n) == {<<j, m>> : m \in 1..n}

(* At statement st, answered or not, with the tab's session s and what is  *)
(* durable: d.                                                             *)
Stands(j, st, reply, row, in, s, d) ==
    LET mine == Writes(j) \cap s.held
    IN  /\ \A i \in 1..Len(s.saves) : Writes(j) \cap s.saves[i] = {}
        /\ Writes(j) \cap d = IF st = "commit" /\ reply = "ok" THEN Writes(j) ELSE {}
        /\ st \in {"begin", "save"} => row = 1 /\ mine = {}
        /\ st = "begin" =>
              /\ reply = "none" => ~ Tx(s)
              /\ reply = "ok" => s.tx = "open" /\ s.by = "grid"
        /\ st = "save" =>
              /\ reply = "none" => Tx(s)
              /\ reply = "ok" => s.tx = "open" /\ s.saves # << >>
        /\ st = "write" =>
              /\ reply = "none" => s.tx = "lost" \/ (s.tx = "open" /\ mine = UpTo(j, row - 1))
              /\ reply = "ok" => s.tx = "open" /\ mine = UpTo(j, row)
        /\ st \in {"commit", "release"} /\ reply = "none" =>
              s.tx = "lost" \/ (s.tx = "open" /\ mine = Writes(j))
        /\ st = "release" =>
              /\ reply = "ok" => mine = Writes(j)
              /\ reply \notin {"none", "ok"} => ~ Tx(s)
        /\ st \in {"back", "rollback"} /\ reply # "none" => mine = {}
        /\ in /\ Tx(s) /\ st # "save" =>
              s.saves # << >> \/ (st \in {"release", "back"} /\ reply # "none")
        /\ ~ in /\ Tx(s) => s.by = "grid"

Batched(j) ==
    /\ Only(j)
    /\ Stands(j, job[j].stmt, job[j].reply, job[j].row, job[j].in, session[job[j].tab], durable)

(* A batch that had its tab for itself.                                    *)
Lone(j) == job[j].kind = "grid" /\ job[j].alone /\ job[j].right

BatchInv == \A j \in Batches : Lone(j) => Batched(j)

GridInv ==
    /\ TypeOK /\ Formed /\ Closed
    /\ Indicated /\ IndicatorHonest
    /\ KeptApart /\ BatchInv
-----------------------------------------------------------------------------
(* Sequences of savepoints and records of sessions.                        *)

AllWrites == UNION {Writes(j) : j \in Batches}

LEMMA SavesAppend ==
    ASSUME NEW q \in Seq(SUBSET AllWrites), NEW H \in SUBSET AllWrites
    PROVE  /\ Append(q, H) \in Seq(SUBSET AllWrites) /\ Append(q, H) # << >>
           /\ \A i \in 1..Len(Append(q, H)) :
                Append(q, H)[i] = H \/ \E k \in 1..Len(q) : Append(q, H)[i] = q[k]
    <1>1. /\ Append(q, H) \in Seq(SUBSET AllWrites) /\ Append(q, H) # << >>
          /\ Len(Append(q, H)) = Len(q) + 1 /\ Len(q) \in Nat
          /\ \A i \in 1..Len(q) : Append(q, H)[i] = q[i]
          /\ Append(q, H)[Len(q) + 1] = H
        BY AppendProperties, LenProperties
    <1>2. \A i \in 1..Len(q) + 1 : i \in 1..Len(q) \/ i = Len(q) + 1  BY <1>1
    <1>3. QED  BY <1>1, <1>2

LEMMA SavesFront ==
    ASSUME NEW q \in Seq(SUBSET AllWrites), q # << >>
    PROVE  /\ Front(q) \in Seq(SUBSET AllWrites)
           /\ \A i \in 1..Len(Front(q)) : \E k \in 1..Len(q) : Front(q)[i] = q[k]
    <1>1. Len(q) \in Nat \ {0} /\ \A i \in 1..Len(q) : q[i] \in SUBSET AllWrites
        BY EmptySeq, ElementOfSeq, LenProperties
    <1> DEFINE m == Len(q) - 1
               front == SubSeq(q, 1, m)
    <1>2. m \in Nat /\ \A i \in 1..m : i \in 1..Len(q) /\ q[i] \in SUBSET AllWrites  BY <1>1
    <1> HIDE DEF m
    <1>3. /\ front \in Seq(SUBSET AllWrites)
          /\ Len(front) = IF 1 <= m THEN m - 1 + 1 ELSE 0
          /\ \A i \in 1 .. m - 1 + 1 : front[i] = q[1 + i - 1]
        BY <1>2, SubSeqProperties
    <1> HIDE DEF front
    <1>4. Len(front) = m  BY <1>2, <1>3
    <1>5. \A i \in 1 .. m : i \in 1 .. m - 1 + 1 /\ 1 + i - 1 = i  BY <1>2
    <1>6. \A i \in 1 .. m : front[i] = q[i]  BY <1>3, <1>5
    <1>7. \A i \in 1..Len(front) : \E k \in 1..Len(q) : front[i] = q[k]  BY <1>2, <1>4, <1>6
    <1>8. QED  BY <1>3, <1>7 DEF Front, front, m

LEMMA SavesLast ==
    ASSUME NEW q \in Seq(SUBSET AllWrites), q # << >>
    PROVE  Last(q) \in SUBSET AllWrites /\ \E k \in 1..Len(q) : Last(q) = q[k]
    <1>1. Len(q) \in 1..Len(q)  BY EmptySeq, LenProperties
    <1>2. QED  BY <1>1, ElementOfSeq DEF Last

LEMMA AutoSound == Sound(AutoCommit) /\ AutoCommit.tx = "auto" /\ AutoCommit.held = {}
                   /\ AutoCommit.saves = << >> /\ \A S : ClearOf(S, AutoCommit)
    <1>1. << >> \in Seq(SUBSET AllWrites) /\ Len(<< >>) = 0  BY EmptySeq
    <1>2. QED  BY <1>1 DEF AutoCommit, Session, Sound, Tx, SessionRecords, ClearOf, AllWrites

-----------------------------------------------------------------------------
(* What the server does with a statement.                                  *)

(* A statement that turns s into r, with an answer and what it commits.    *)
Served(j, s, r, reply, w) ==
    LET st == job[j].stmt
        write == <<j, job[j].row>>
    IN  /\ Sound(r) /\ r.tx # "lost"
        /\ \A S : ClearOf(S, s) /\ (st = "write" => write \notin S) =>
                    ClearOf(S, r) /\ S \cap w = {}
        /\ st = "begin" =>
              /\ reply = "ok" => r.tx = "open"
              /\ reply # "ok" => Tx(s) /\ Tx(r)
              /\ s.tx = "auto" => r.by = Opener(j)
        /\ st \in Ends => r = AutoCommit
        /\ st = "commit" =>
              /\ reply = "ok" /\ s.tx = "open" => w = s.held
              /\ reply # "ok" => reply = "err" /\ s.tx = "open" /\ w = {}
        /\ st = "rollback" => reply = "ok" /\ w = {}
        /\ st \in Inner => (Tx(r) <=> Tx(s)) /\ r.by = s.by
        /\ st = "save" =>
              /\ r.held = s.held /\ w = {}
              /\ reply = "ok" /\ Tx(s) => r.tx = "open" /\ r.saves # << >>
        /\ st \in {"release", "back"} =>
              \A i \in 1..Len(r.saves) : \E k \in 1..Len(s.saves) : r.saves[i] = s.saves[k]
        /\ st = "write" =>
              /\ r.saves = s.saves
              /\ s.tx = "open" /\ reply = "ok" => r.tx = "open" /\ r.held = s.held \cup {write}
              /\ s.tx # "auto" => w = {}
        /\ st = "release" =>
              /\ r.held = s.held /\ w = {}
              /\ s.tx = "open" /\ s.saves # << >> => reply = "ok"
        /\ st = "back" =>
              /\ w = {}
              /\ Tx(s) /\ s.saves # << >> => r.held = Last(s.saves)
        /\ st \in {"ddl", "other"} =>
              (Tx(r) <=> Tx(s)) \/ (st = "ddl" /\ s.tx = "open" /\ r = AutoCommit)

IsServed(j, s) ==
    \E r \in SessionRecords, reply \in {"ok", "miss", "err"}, w \in SUBSET AllWrites :
        Effect(j, s, r, reply, w) /\ Served(j, s, r, reply, w)

(* A statement that leaves the session as it was, or aborted.              *)
LEMMA ServedSame ==
    ASSUME NEW j \in Jobs, NEW s, Sound(s), s.tx # "lost",
           NEW r \in {s, Aborted(s)}, NEW reply
    PROVE  /\ Sound(r) /\ r.tx # "lost" /\ (Tx(r) <=> Tx(s))
           /\ r.by = s.by /\ r.held = s.held /\ r.saves = s.saves
           /\ \A S : ClearOf(S, s) => ClearOf(S, r)
    <1>1. CASE r = s  BY <1>1
    <1>2. CASE r = [s EXCEPT !.tx = "aborted"] /\ s.tx = "open" /\ engine = "postgres"
        BY <1>2 DEF Sound, Tx, SessionRecords, ClearOf
    <1>3. QED  BY <1>1, <1>2 DEF Aborted

(* A transaction that is opened.                                           *)
LEMMA OpenedSound ==
    ASSUME NEW by \in {"user", "grid"}
    PROVE  LET r == Session("open", by, {}, << >>)
           IN  /\ Sound(r) /\ r.tx = "open" /\ r.by = by /\ Tx(r)
               /\ \A S : ClearOf(S, r)
    <1>1. << >> \in Seq(SUBSET AllWrites) /\ Len(<< >>) = 0  BY EmptySeq
    <1>2. QED  BY <1>1 DEF Session, Sound, Tx, SessionRecords, ClearOf, AllWrites

LEMMA HeldTyped ==
    ASSUME NEW s, Sound(s)
    PROVE  s.held \in SUBSET AllWrites /\ s.saves \in Seq(SUBSET AllWrites) /\ {} \in SUBSET AllWrites
    BY DEF Sound, SessionRecords, AllWrites

LEMMA BeginServed ==
    ASSUME TypeOK, NEW j \in Jobs, NEW s, Sound(s), s.tx # "lost", job[j].stmt = "begin",
           DoBegin(j, s)
    PROVE  IsServed(j, s)
    <1> DEFINE new == Session("open", Opener(j), {}, << >>)
    <1>1. s.held \in SUBSET AllWrites /\ {} \in SUBSET AllWrites /\ s \in SessionRecords
        BY HeldTyped DEF Sound
    <1>2. /\ Sound(new) /\ new.tx = "open" /\ new.by = Opener(j) /\ Tx(new)
          /\ \A S : ClearOf(S, new)
        BY OpenedSound DEF Opener
    <1>3. new \in SessionRecords  BY <1>2 DEF Sound
    <1> HIDE DEF new
    <1>4. \A S : ClearOf(S, s) => S \cap s.held = {}  BY DEF ClearOf
    <1>5. CASE s.tx = "auto" /\ Effect(j, s, new, "ok", {})
        <2>1. Served(j, s, new, "ok", {})  BY <1>2, <1>5 DEF Served, Ends, Inner
        <2>2. QED  BY <1>1, <1>3, <1>5, <2>1 DEF IsServed
    <1>6. CASE s.tx = "open" /\ Effect(j, s, s, "ok", {})
        <2>1. Served(j, s, s, "ok", {})  BY <1>6 DEF Served, Ends, Inner
        <2>2. QED  BY <1>1, <1>6, <2>1 DEF IsServed
    <1>7. CASE s.tx = "open" /\ Effect(j, s, new, "ok", s.held)
        <2>1. Served(j, s, new, "ok", s.held)  BY <1>2, <1>4, <1>7 DEF Served, Ends, Inner
        <2>2. QED  BY <1>1, <1>3, <1>7, <2>1 DEF IsServed
    <1>8. CASE Tx(s) /\ Effect(j, s, s, "err", {})
        <2>1. s.tx # "auto"  BY <1>8 DEF Tx
        <2>2. Served(j, s, s, "err", {})  BY <1>8, <2>1 DEF Served, Ends, Inner
        <2>3. QED  BY <1>1, <1>8, <2>2 DEF IsServed
    <1>9. QED  BY <1>5, <1>6, <1>7, <1>8 DEF DoBegin, Tx, new

LEMMA EndServed ==
    ASSUME TypeOK, NEW j \in Jobs, NEW s, Sound(s), s.tx # "lost",
           \/ job[j].stmt = "commit" /\ DoCommit(j, s)
           \/ job[j].stmt = "rollback" /\ DoRollback(j, s)
    PROVE  IsServed(j, s)
    <1>1. s.held \in SUBSET AllWrites /\ {} \in SUBSET AllWrites  BY HeldTyped
    <1>2. AutoCommit \in SessionRecords  BY AutoSound DEF Sound
    <1>3. \A S : ClearOf(S, s) => S \cap s.held = {}  BY DEF ClearOf
    <1>4. ASSUME job[j].stmt \in Ends, NEW reply \in {"ok", "err"}, NEW w \in {s.held, {}},
                 Effect(j, s, AutoCommit, reply, w),
                 job[j].stmt = "commit" =>
                    /\ reply = "ok" /\ s.tx = "open" => w = s.held
                    /\ reply # "ok" => s.tx = "open" /\ w = {},
                 job[j].stmt = "rollback" => reply = "ok" /\ w = {}
          PROVE  IsServed(j, s)
        <2>1. Served(j, s, AutoCommit, reply, w)
            BY <1>3, <1>4, AutoSound DEF Served, Ends, Inner
        <2>2. QED  BY <1>1, <1>2, <1>4, <2>1 DEF IsServed
    <1>5. QED  BY <1>4 DEF DoCommit, DoRollback, Ends

LEMMA SaveServed ==
    ASSUME TypeOK, NEW j \in Jobs, NEW s, Sound(s), s.tx # "lost", job[j].stmt = "save",
           DoSave(j, s)
    PROVE  IsServed(j, s)
    <1>1. {} \in SUBSET AllWrites /\ s \in SessionRecords
        BY HeldTyped DEF Sound
    <1>2. CASE s.tx = "open" /\ Effect(j, s, [s EXCEPT !.saves = Append(@, s.held)], "ok", {})
        <2> DEFINE q == Append(s.saves, s.held)
                   r == [s EXCEPT !.saves = q]
        <2>1. /\ q \in Seq(SUBSET AllWrites) /\ q # << >>
              /\ \A i \in 1..Len(q) : q[i] = s.held \/ \E k \in 1..Len(s.saves) : q[i] = s.saves[k]
            BY HeldTyped, SavesAppend
        <2> HIDE DEF q
        <2>2. /\ r \in SessionRecords /\ r.tx = "open" /\ r.by = s.by /\ r.held = s.held
              /\ r.saves = q
            BY <1>1, <1>2, <2>1 DEF SessionRecords, AllWrites
        <2>3. Effect(j, s, r, "ok", {})  BY <1>2 DEF q
        <2> HIDE DEF r
        <2>4. Sound(r) /\ Tx(r) /\ Tx(s)  BY <1>2, <2>2 DEF Sound, Tx
        <2>5. \A S : ClearOf(S, s) => ClearOf(S, r)  BY <2>1, <2>2 DEF ClearOf
        <2>6. Served(j, s, r, "ok", {})
            BY <1>2, <2>1, <2>2, <2>4, <2>5 DEF Served, Ends
        <2>7. QED  BY <1>1, <2>2, <2>3, <2>6 DEF IsServed
    <1>3. ASSUME ~ (s.tx = "open"), NEW reply \in {"ok", "err"}, Effect(j, s, s, reply, {}),
                 s.tx = "aborted" => reply = "err"
          PROVE  IsServed(j, s)
        <2>1. reply = "ok" => ~ Tx(s)  BY <1>3 DEF Tx
        <2>2. Served(j, s, s, reply, {})  BY <1>3, <2>1 DEF Served, Ends
        <2>3. QED  BY <1>1, <1>3, <2>2 DEF IsServed
    <1>4. QED  BY <1>2, <1>3 DEF DoSave

LEMMA ReleaseServed ==
    ASSUME TypeOK, NEW j \in Jobs, NEW s, Sound(s), s.tx # "lost", job[j].stmt = "release",
           DoRelease(j, s)
    PROVE  IsServed(j, s)
    <1>1. {} \in SUBSET AllWrites /\ s \in SessionRecords
        BY HeldTyped DEF Sound
    <1>2. CASE s.tx = "open" /\ s.saves # << >>
        <2> DEFINE q == Front(s.saves)
                   r == [s EXCEPT !.saves = q]
        <2>1. /\ q \in Seq(SUBSET AllWrites)
              /\ \A i \in 1..Len(q) : \E k \in 1..Len(s.saves) : q[i] = s.saves[k]
            BY <1>2, HeldTyped, SavesFront
        <2>2. Effect(j, s, r, "ok", {})  BY <1>2 DEF DoRelease
        <2> HIDE DEF q
        <2>3. /\ r \in SessionRecords /\ r.tx = "open" /\ r.by = s.by /\ r.held = s.held
              /\ r.saves = q
            BY <1>1, <1>2, <2>1 DEF SessionRecords, AllWrites
        <2> HIDE DEF r
        <2>4. Sound(r) /\ Tx(r) /\ Tx(s)  BY <1>2, <2>3 DEF Sound, Tx
        <2>5. \A S : ClearOf(S, s) => ClearOf(S, r)  BY <2>1, <2>3 DEF ClearOf
        <2>6. Served(j, s, r, "ok", {})
            BY <1>2, <2>1, <2>3, <2>4, <2>5 DEF Served, Ends
        <2>7. QED  BY <1>1, <2>2, <2>3, <2>6 DEF IsServed
    <1>3. CASE ~ (s.tx = "open" /\ s.saves # << >>)
        <2> DEFINE r == Aborted(s)
        <2>1. Effect(j, s, r, "err", {})  BY <1>3 DEF DoRelease
        <2>2. /\ Sound(r) /\ r.tx # "lost" /\ (Tx(r) <=> Tx(s))
              /\ r.by = s.by /\ r.held = s.held /\ r.saves = s.saves
              /\ \A S : ClearOf(S, s) => ClearOf(S, r)
            BY ServedSame
        <2> HIDE DEF r
        <2>3. Served(j, s, r, "err", {})  BY <1>3, <2>2 DEF Served, Ends
        <2>4. r \in SessionRecords  BY <2>2 DEF Sound
        <2>5. QED  BY <1>1, <2>1, <2>3, <2>4 DEF IsServed
    <1>4. QED  BY <1>2, <1>3

LEMMA BackServed ==
    ASSUME TypeOK, NEW j \in Jobs, NEW s, Sound(s), s.tx # "lost", job[j].stmt = "back",
           DoBack(j, s)
    PROVE  IsServed(j, s)
    <1>1. {} \in SUBSET AllWrites /\ s \in SessionRecords
        BY HeldTyped DEF Sound
    <1>2. Tx(s) <=> s.tx # "auto"
        BY <1>1 DEF Tx, SessionRecords
    <1>3. CASE s.tx # "auto" /\ s.saves # << >>
        <2> DEFINE H == Last(s.saves)
                   r == [s EXCEPT !.tx = "open", !.held = H]
        <2>1. H \in SUBSET AllWrites /\ \E k \in 1..Len(s.saves) : H = s.saves[k]
            BY <1>3, HeldTyped, SavesLast
        <2>2. Effect(j, s, r, "ok", {})  BY <1>3 DEF DoBack
        <2> HIDE DEF H
        <2>3. /\ r \in SessionRecords /\ r.tx = "open" /\ r.by = s.by /\ r.held = H
              /\ r.saves = s.saves
            BY <1>1, <2>1 DEF SessionRecords, AllWrites
        <2> HIDE DEF r
        <2>4. Sound(r) /\ Tx(r) /\ Tx(s)  BY <1>2, <1>3, <2>3 DEF Sound, Tx
        <2>5. \A S : ClearOf(S, s) => ClearOf(S, r)  BY <2>1, <2>3 DEF ClearOf
        <2>6. Served(j, s, r, "ok", {})
            BY <1>3, <2>1, <2>3, <2>4, <2>5 DEF Served, Ends, H
        <2>7. QED  BY <1>1, <2>2, <2>3, <2>6 DEF IsServed
    <1>4. CASE ~ (s.tx # "auto" /\ s.saves # << >>)
        <2> DEFINE r == Aborted(s)
        <2>1. Effect(j, s, r, "err", {})  BY <1>4 DEF DoBack
        <2>2. /\ Sound(r) /\ r.tx # "lost" /\ (Tx(r) <=> Tx(s))
              /\ r.by = s.by /\ r.held = s.held /\ r.saves = s.saves
              /\ \A S : ClearOf(S, s) => ClearOf(S, r)
            BY ServedSame
        <2> HIDE DEF r
        <2>3. Served(j, s, r, "err", {})  BY <1>2, <1>4, <2>2 DEF Served, Ends
        <2>4. r \in SessionRecords  BY <2>2 DEF Sound
        <2>5. QED  BY <1>1, <2>1, <2>3, <2>4 DEF IsServed
    <1>5. QED  BY <1>3, <1>4

LEMMA WriteServed ==
    ASSUME TypeOK, NEW j \in Batches, NEW s, Sound(s), s.tx # "lost", job[j].stmt = "write",
           DoWrite(j, s)
    PROVE  IsServed(j, s)
    <1> DEFINE write == <<j, job[j].row>>
               written == IF s.tx = "open" THEN [s EXCEPT !.held = @ \cup {write}] ELSE s
    <1>1. {} \in SUBSET AllWrites /\ s \in SessionRecords /\ s.held \in SUBSET AllWrites
        BY HeldTyped DEF Sound
    <1>2. write \in AllWrites
        <2>1. job[j].row \in 1..Rows  BY DEF TypeOK, JobRecords, Jobs
        <2>2. QED  BY <2>1 DEF AllWrites, Writes
    <1> HIDE DEF write
    <1>3. /\ Sound(written) /\ written.tx = s.tx /\ written.by = s.by /\ written.saves = s.saves
          /\ s.tx = "open" => written.held = s.held \cup {write}
          /\ \A S : ClearOf(S, s) /\ write \notin S => ClearOf(S, written)
        <2>1. CASE s.tx = "open"
            <3>1. /\ written \in SessionRecords /\ written.tx = s.tx /\ written.by = s.by
                  /\ written.saves = s.saves /\ written.held = s.held \cup {write}
                BY <1>1, <1>2, <2>1 DEF SessionRecords, AllWrites
            <3> HIDE DEF written
            <3>2. Sound(written)  BY <2>1, <3>1 DEF Sound, Tx
            <3>3. \A S : ClearOf(S, s) /\ write \notin S => ClearOf(S, written)
                BY <3>1 DEF ClearOf
            <3>4. QED  BY <3>1, <3>2, <3>3
        <2>2. CASE s.tx # "open"  BY <2>2
        <2>3. QED  BY <2>1, <2>2
    <1>4. written \in SessionRecords /\ (Tx(written) <=> Tx(s))  BY <1>3 DEF Sound, Tx
    <1>5. ASSUME NEW reply \in {"ok", "miss"}, s.tx # "aborted",
                 Effect(j, s, written, reply, IF s.tx = "auto" THEN {write} ELSE {})
          PROVE  IsServed(j, s)
        <2> DEFINE w == IF s.tx = "auto" THEN {write} ELSE {}
        <2>1. w \in SUBSET AllWrites /\ \A S : write \notin S => S \cap w = {}  BY <1>2
        <2>2. s.tx # "auto" => w = {}  OBVIOUS
        <2>3. Effect(j, s, written, reply, w)  BY <1>5
        <2> HIDE DEF w, written
        <2>4. Served(j, s, written, reply, w)
            BY <1>3, <1>4, <2>1, <2>2 DEF Served, Ends, write
        <2>5. QED  BY <1>4, <2>1, <2>3, <2>4 DEF IsServed
    <1>6. ASSUME NEW r \in {s, Aborted(s)}, NEW reply \in {"miss", "err"}, Effect(j, s, r, reply, {})
          PROVE  IsServed(j, s)
        <2>1. /\ Sound(r) /\ r.tx # "lost" /\ (Tx(r) <=> Tx(s))
              /\ r.by = s.by /\ r.held = s.held /\ r.saves = s.saves
              /\ \A S : ClearOf(S, s) => ClearOf(S, r)
            BY <1>6, ServedSame DEF Jobs
        <2>2. Served(j, s, r, reply, {})  BY <1>6, <2>1 DEF Served, Ends
        <2>3. r \in SessionRecords  BY <2>1 DEF Sound
        <2>4. QED  BY <1>1, <1>6, <2>2, <2>3 DEF IsServed
    <1>7. \/ \E reply \in {"ok", "miss"} :
                s.tx # "aborted" /\ Effect(j, s, written, reply, IF s.tx = "auto" THEN {write} ELSE {})
          \/ Effect(j, s, s, "miss", {})
          \/ Effect(j, s, Aborted(s), "err", {})
        BY DEF DoWrite, write
    <1> HIDE DEF written
    <1>8. QED  BY <1>5, <1>6, <1>7

LEMMA OtherServed ==
    ASSUME TypeOK, NEW j \in Jobs, NEW s, Sound(s), s.tx # "lost",
           \/ job[j].stmt = "ddl" /\ DoDdl(j, s)
           \/ job[j].stmt = "other" /\ DoOther(j, s)
    PROVE  IsServed(j, s)
    <1>1. {} \in SUBSET AllWrites /\ s.held \in SUBSET AllWrites  BY HeldTyped
    <1>2. CASE job[j].stmt = "ddl" /\ engine = "mysql" /\ Effect(j, s, AutoCommit, "ok", s.held)
        <2>1. \A S : ClearOf(S, s) => S \cap s.held = {}  BY DEF ClearOf
        <2>2. (Tx(AutoCommit) <=> Tx(s)) \/ s.tx = "open"
            BY <1>2, AutoSound DEF Sound, Tx
        <2>3. Served(j, s, AutoCommit, "ok", s.held)
            BY <1>2, <2>1, <2>2, AutoSound DEF Served, Ends, Inner
        <2>4. AutoCommit \in SessionRecords  BY AutoSound DEF Sound
        <2>5. QED  BY <1>1, <1>2, <2>3, <2>4 DEF IsServed
    <1>3. ASSUME job[j].stmt \in {"ddl", "other"}, NEW r \in {s, Aborted(s)},
                 NEW reply \in {"ok", "err"}, Effect(j, s, r, reply, {})
          PROVE  IsServed(j, s)
        <2>1. /\ Sound(r) /\ r.tx # "lost" /\ (Tx(r) <=> Tx(s))
              /\ \A S : ClearOf(S, s) => ClearOf(S, r)
            BY <1>3, ServedSame
        <2>2. Served(j, s, r, reply, {})  BY <1>3, <2>1 DEF Served, Ends, Inner
        <2>3. r \in SessionRecords  BY <2>1 DEF Sound
        <2>4. QED  BY <1>1, <1>3, <2>2, <2>3 DEF IsServed
    <1>4. QED  BY <1>2, <1>3 DEF DoDdl, DoOther

LEMMA DoServed ==
    ASSUME TypeOK, Formed, NEW j \in Jobs, Running(j), NEW s, Sound(s), s.tx # "lost", Do(j, s)
    PROVE  IsServed(j, s)
    <1>1. job[j].stmt \in UserStatements \cup GridStatements  BY DEF TypeOK, JobRecords
    <1>2. CASE job[j].stmt = "begin"  BY <1>2, BeginServed DEF Do
    <1>3. CASE job[j].stmt = "commit"  BY <1>3, EndServed DEF Do
    <1>4. CASE job[j].stmt = "rollback"  BY <1>4, EndServed DEF Do
    <1>5. CASE job[j].stmt = "save"  BY <1>5, SaveServed DEF Do
    <1>6. CASE job[j].stmt = "release"  BY <1>6, ReleaseServed DEF Do
    <1>7. CASE job[j].stmt = "back"  BY <1>7, BackServed DEF Do
    <1>8. CASE job[j].stmt = "write"
        <2>1. job[j].kind \in {"control", "run", "grid"}
            BY DEF TypeOK, JobRecords, Running
        <2>2. j \in Batches  BY <1>8, <2>1 DEF Formed, FormedAt, UserStatements, Opens, Ends
        <2>3. QED  BY <1>8, <2>2, WriteServed DEF Do
    <1>9. CASE job[j].stmt = "ddl"  BY <1>9, OtherServed DEF Do
    <1>10. CASE job[j].stmt = "other"  BY <1>10, OtherServed DEF Do
    <1>11. QED
        BY <1>1, <1>2, <1>3, <1>4, <1>5, <1>6, <1>7, <1>8, <1>9, <1>10
        DEF UserStatements, GridStatements, Opens, Ends

(* Served on the tab's session, or on a new one in place of a lost one,    *)
(* or not at all.                                                          *)
ServedBy(j, s, r, reply, w) ==
    \/ ~ Gone(j) /\ s = session[job[j].tab] /\ Served(j, s, r, reply, w)
    \/ /\ Gone(j) /\ s = AutoCommit /\ Served(j, s, r, reply, w)
       /\ job[j].stmt \notin GridStatements \ {"begin", "save"}
    \/ Gone(j) /\ s = session[job[j].tab] /\ r = AutoCommit /\ reply = "err" /\ w = {}

LEMMA ServeMakes ==
    ASSUME TypeOK, Formed, Closed, NEW j \in Jobs, Serve(j)
    PROVE  \E s, r \in SessionRecords, reply \in {"ok", "miss", "err"}, w \in SUBSET AllWrites :
              Effect(j, s, r, reply, w) /\ ServedBy(j, s, r, reply, w)
    <1> DEFINE s == session[job[j].tab]
    <1>1. Running(j) /\ job[j].tab \in Tabs  BY DEF Serve, Asked, Formed, FormedAt
    <1>2. Sound(s) /\ s \in SessionRecords  BY <1>1 DEF Closed, Sound
    <1>3. AutoCommit \in SessionRecords /\ {} \in SUBSET AllWrites /\ AutoCommit.tx # "lost"
        BY AutoSound DEF Sound
    <1>4. CASE ~ Gone(j) /\ Do(j, s)
        <2>1. IsServed(j, s)  BY <1>1, <1>2, <1>4, DoServed DEF Gone
        <2>2. QED  BY <1>2, <1>4, <2>1 DEF IsServed, ServedBy
    <1>5. CASE Gone(j) /\ Effect(j, s, AutoCommit, "err", {})
        BY <1>2, <1>3, <1>5 DEF ServedBy
    <1>6. CASE Gone(j) /\ job[j].stmt \notin GridStatements \ {"begin", "save"} /\ Do(j, AutoCommit)
        <2>1. IsServed(j, AutoCommit)  BY <1>1, <1>3, <1>6, AutoSound, DoServed
        <2>2. QED  BY <1>3, <1>6, <2>1 DEF IsServed, ServedBy
    <1>7. QED  BY <1>4, <1>5, <1>6 DEF Serve

-----------------------------------------------------------------------------
(* What the steps do to the jobs.                                          *)

(* A job that a step is not about: it may learn that it is not alone.      *)
Kept(i) ==
    /\ job'[i].kind = job[i].kind /\ job'[i].tab = job[i].tab /\ job'[i].stmt = job[i].stmt
    /\ job'[i].reply = job[i].reply /\ job'[i].out = job[i].out
    /\ job'[i].in = job[i].in /\ job'[i].row = job[i].row
    /\ job'[i].alone => job[i].alone
    /\ job'[i].right => job[i].right
    /\ (job'[i] = Waiting) <=> (job[i] = Waiting)

LEMMA WaitingTyped == Waiting \in JobRecords /\ Waiting.kind = "none"
    BY RowsAssumption DEF Waiting, JobRecords, UserStatements

LEMMA RunningTyped ==
    ASSUME TypeOK, NEW j \in Jobs
    PROVE  /\ job[j] \in JobRecords
           /\ Running(j) <=> job[j].kind \in {"control", "run", "grid"}
           /\ Running(j) => job[j] # Waiting
    BY WaitingTyped DEF TypeOK, JobRecords, Running

LEMMA PutMakes ==
    ASSUME TypeOK, NEW j \in Jobs, NEW rec \in JobRecords, job' = [job EXCEPT ![j] = rec]
    PROVE  /\ job' \in [Jobs -> JobRecords] /\ job'[j] = rec
           /\ \A i \in Jobs \ {j} : job'[i] = job[i] /\ Kept(i)
    BY DEF TypeOK, Kept

LEMMA StartMakes ==
    ASSUME TypeOK, NEW j \in Jobs, NEW kind \in {"control", "run", "grid"},
           NEW stmt \in UserStatements \cup GridStatements, NEW in \in BOOLEAN,
           Start(j, kind, stmt, in)
    PROVE  /\ job[j] = Waiting /\ job' \in [Jobs -> JobRecords]
           /\ \A i \in Jobs \ {j} : Kept(i)
           /\ \A i \in Jobs \ {j} : Running(i) /\ job[i].tab = active => ~ job'[i].alone
           /\ job'[j].kind = kind /\ job'[j].tab = active /\ job'[j].stmt = stmt
           /\ job'[j].reply = "none" /\ job'[j].out = "pending"
           /\ job'[j].in = in /\ job'[j].row = 1
           /\ job'[j].alone => RunningIn(active) = {}
           /\ job'[j].right => shown = InTx(active)
    <1> DEFINE alone == kind = "grid" /\ RunningIn(active) = {}
               right == kind = "grid" /\ shown = InTx(active)
               rec == [kind |-> kind, tab |-> active, stmt |-> stmt, reply |-> "none",
                       out |-> "pending", in |-> in, row |-> 1, alone |-> alone, right |-> right]
               new == [job EXCEPT ![j] = rec]
    <1>1. rec \in JobRecords /\ rec.alone = alone /\ rec.right = right
        BY RowsAssumption DEF TypeOK, JobRecords
    <1>2. /\ rec.kind = kind /\ rec.tab = active /\ rec.stmt = stmt /\ rec.reply = "none"
          /\ rec.out = "pending" /\ rec.in = in /\ rec.row = 1
        OBVIOUS
    <1>3. job[j] = Waiting /\ job' = Joined(active, new)  BY DEF Start
    <1>4. alone => RunningIn(active) = {}  OBVIOUS
    <1>5. right => shown = InTx(active)  OBVIOUS
    <1> HIDE DEF alone, right, rec
    <1>6. new \in [Jobs -> JobRecords] /\ new[j] = rec /\ \A i \in Jobs \ {j} : new[i] = job[i]
        BY <1>1 DEF TypeOK
    <1> HIDE DEF new
    <1>7. job'[j] = rec
        BY <1>3, <1>6, WaitingTyped DEF Joined, RunningIn, Running
    <1>8. ASSUME NEW i \in Jobs \ {j}
          PROVE  /\ Kept(i) /\ job'[i] \in JobRecords
                 /\ Running(i) /\ job[i].tab = active => ~ job'[i].alone
        <2>1. job[i] \in JobRecords  BY DEF TypeOK
        <2>2. CASE i \in RunningIn(active)
            <3>1. job'[i] = [job[i] EXCEPT !.alone = FALSE]  BY <1>3, <2>2 DEF Joined
            <3>2. /\ job'[i].kind = job[i].kind /\ job'[i].tab = job[i].tab
                  /\ job'[i].stmt = job[i].stmt /\ job'[i].reply = job[i].reply
                  /\ job'[i].out = job[i].out /\ job'[i].in = job[i].in
                  /\ job'[i].row = job[i].row /\ job'[i].right = job[i].right
                  /\ ~ job'[i].alone /\ job'[i] \in JobRecords
                BY <2>1, <3>1 DEF JobRecords
            <3>3. job[i].kind # "none"  BY <2>2 DEF RunningIn, Running
            <3>4. job'[i] # Waiting /\ job[i] # Waiting  BY <3>2, <3>3, WaitingTyped
            <3>5. QED  BY <3>2, <3>4 DEF Kept
        <2>3. CASE i \notin RunningIn(active)
            <3>1. job'[i] = job[i]  BY <1>3, <1>6, <2>3 DEF Joined
            <3>2. QED  BY <2>1, <2>3, <3>1 DEF Kept, RunningIn
        <2>4. QED  BY <2>2, <2>3
    <1>9. job' \in [Jobs -> JobRecords]
        <2>1. \A i \in Jobs : job'[i] \in JobRecords  BY <1>1, <1>7, <1>8
        <2>2. QED  BY <1>3, <2>1 DEF Joined
    <1>10. QED  BY <1>1, <1>2, <1>3, <1>4, <1>5, <1>7, <1>8, <1>9

(* The three ways of starting a job, and what they start.                  *)
Starts(j, kind, stmt, in) ==
    /\ Start(j, kind, stmt, in)
    /\ \/ kind = "control" /\ j \in Statements /\ stmt \in Opens \cup Ends /\ in = FALSE
       \/ kind = "run" /\ j \in Statements /\ stmt \in UserStatements /\ in = FALSE
       \/ /\ kind = "grid" /\ j \in Batches /\ in = shown
          /\ stmt = (IF shown THEN "save" ELSE "begin")

AnyStart ==
    \E j \in Jobs, kind \in {"control", "run", "grid"},
       stmt \in UserStatements \cup GridStatements, in \in BOOLEAN : Starts(j, kind, stmt, in)

Frame == UNCHANGED <<engine, active, session, durable, losses>>

(* A job ends, or a batch goes on to another statement or row.             *)
EndedMakes(j, out) ==
    /\ job' \in [Jobs -> JobRecords]
    /\ job'[j].kind = "none" /\ job'[j].out = out /\ job'[j] # Waiting
    /\ \A i \in Jobs \ {j} : job'[i] = job[i] /\ Kept(i)

GoesMakes(j, stmt, row) ==
    /\ job' \in [Jobs -> JobRecords]
    /\ job'[j].kind = job[j].kind /\ job'[j].tab = job[j].tab /\ job'[j].stmt = stmt
    /\ job'[j].reply = "none" /\ job'[j].out = job[j].out
    /\ job'[j].in = job[j].in /\ job'[j].row = row
    /\ job'[j].alone = job[j].alone /\ job'[j].right = job[j].right
    /\ \A i \in Jobs \ {j} : job'[i] = job[i] /\ Kept(i)

LEMMA EndsWell ==
    ASSUME TypeOK, NEW j \in Jobs, NEW out \in {"done", "saved", "failed"}, Ended(j, out)
    PROVE  EndedMakes(j, out)
    <1> DEFINE rec == [Waiting EXCEPT !.out = out]
    <1>1. rec \in JobRecords /\ rec.kind = "none" /\ rec.out = out
        BY WaitingTyped DEF JobRecords, Waiting
    <1>2. rec # Waiting  BY <1>1 DEF Waiting
    <1>3. job' = [job EXCEPT ![j] = rec]  BY DEF Ended
    <1> HIDE DEF rec
    <1>4. QED  BY <1>1, <1>2, <1>3, PutMakes DEF EndedMakes

LEMMA GoesWell ==
    ASSUME TypeOK, NEW j \in Jobs, NEW stmt \in GridStatements, NEW row \in 1..Rows,
           \/ Goes(j, stmt) /\ row = job[j].row
           \/ /\ job' = [job EXCEPT ![j].row = @ + 1, ![j].reply = "none"]
              /\ stmt = job[j].stmt /\ row = job[j].row + 1
    PROVE  GoesMakes(j, stmt, row)
    <1> DEFINE rec == [job[j] EXCEPT !.stmt = stmt, !.row = row, !.reply = "none"]
    <1>1. job[j] \in JobRecords  BY DEF TypeOK
    <1>2. /\ rec \in JobRecords /\ rec.kind = job[j].kind /\ rec.tab = job[j].tab
          /\ rec.stmt = stmt /\ rec.reply = "none" /\ rec.out = job[j].out /\ rec.in = job[j].in
          /\ rec.row = row /\ rec.alone = job[j].alone /\ rec.right = job[j].right
        BY <1>1 DEF JobRecords
    <1>3. job' = [job EXCEPT ![j] = rec]
        <2>1. CASE Goes(j, stmt) /\ row = job[j].row
            <3>1. rec = [job[j] EXCEPT !.stmt = stmt, !.reply = "none"]
                BY <1>1, <2>1 DEF JobRecords
            <3> HIDE DEF rec
            <3>2. QED  BY <2>1, <3>1 DEF Goes, TypeOK
        <2>2. CASE /\ job' = [job EXCEPT ![j].row = @ + 1, ![j].reply = "none"]
                   /\ stmt = job[j].stmt /\ row = job[j].row + 1
            <3>1. rec = [job[j] EXCEPT !.row = @ + 1, !.reply = "none"]
                BY <1>1, <2>2 DEF JobRecords
            <3> HIDE DEF rec
            <3>2. QED  BY <2>2, <3>1 DEF TypeOK
        <2>3. QED  BY <2>1, <2>2
    <1> HIDE DEF rec
    <1>4. QED  BY <1>2, <1>3, PutMakes DEF GoesMakes

EffectMakes(j, r, reply, w) ==
    LET t == job[j].tab IN
    /\ job' \in [Jobs -> JobRecords]
    /\ job'[j].kind = job[j].kind /\ job'[j].tab = t /\ job'[j].stmt = job[j].stmt
    /\ job'[j].reply = reply /\ job'[j].out = job[j].out
    /\ job'[j].in = job[j].in /\ job'[j].row = job[j].row
    /\ job'[j].alone = job[j].alone /\ job'[j].right = job[j].right
    /\ \A i \in Jobs \ {j} : job'[i] = job[i] /\ Kept(i)
    /\ session' \in [Tabs -> SessionRecords] /\ session'[t] = r
    /\ \A u \in Tabs \ {t} : session'[u] = session[u]
    /\ durable' = durable \cup w /\ durable' \subseteq AllWrites
    /\ astray \subseteq astray' /\ astray' \subseteq Tabs
    /\ UNCHANGED <<engine, active, shown, mark, losses>>

LEMMA EffectWell ==
    ASSUME TypeOK, NEW j \in Jobs, job[j].tab \in Tabs, NEW s, NEW r \in SessionRecords,
           NEW reply \in {"ok", "miss", "err"}, NEW w \in SUBSET AllWrites,
           Effect(j, s, r, reply, w)
    PROVE  EffectMakes(j, r, reply, w)
    <1> DEFINE rec == [job[j] EXCEPT !.reply = reply]
    <1>1. job[j] \in JobRecords  BY DEF TypeOK
    <1>2. /\ rec \in JobRecords /\ rec.kind = job[j].kind /\ rec.tab = job[j].tab
          /\ rec.stmt = job[j].stmt /\ rec.reply = reply /\ rec.out = job[j].out
          /\ rec.in = job[j].in /\ rec.row = job[j].row
          /\ rec.alone = job[j].alone /\ rec.right = job[j].right
        BY <1>1 DEF JobRecords
    <1>3. job' = [job EXCEPT ![j] = rec]  BY DEF Effect, TypeOK
    <1> HIDE DEF rec
    <1>4. /\ job' \in [Jobs -> JobRecords] /\ job'[j] = rec
          /\ \A i \in Jobs \ {j} : job'[i] = job[i] /\ Kept(i)
        BY <1>2, <1>3, PutMakes
    <1>5. /\ session' \in [Tabs -> SessionRecords] /\ session'[job[j].tab] = r
          /\ \A u \in Tabs \ {job[j].tab} : session'[u] = session[u]
        BY DEF Effect, TypeOK
    <1>6. /\ durable' = durable \cup w /\ durable' \subseteq AllWrites
          /\ astray \subseteq astray' /\ astray' \subseteq Tabs
          /\ UNCHANGED <<engine, active, shown, mark, losses>>
        BY DEF Effect, TypeOK, AllWrites
    <1>7. QED  BY <1>2, <1>4, <1>5, <1>6 DEF EffectMakes

(* A lost connection disturbs the jobs that wait in its tab.               *)
LoseMakes(t) ==
    /\ job' \in [Jobs -> JobRecords]
    /\ \A i \in Jobs :
          /\ job'[i].kind = job[i].kind /\ job'[i].tab = job[i].tab /\ job'[i].stmt = job[i].stmt
          /\ job'[i].out = job[i].out /\ job'[i].in = job[i].in /\ job'[i].row = job[i].row
          /\ Answered(i)' => Answered(i)
          /\ (job'[i] = Waiting) <=> (job[i] = Waiting)
    /\ \A i \in Jobs : i \notin RunningIn(t) => job'[i] = job[i] /\ Kept(i)
    /\ \A i \in RunningIn(t) : Answered(i) => ~ job'[i].alone
    /\ \A i \in RunningIn(t) : ~ Answered(i) =>
          Kept(i) /\ (job[i].stmt = "save" => ~ job'[i].right)
    /\ session' \in [Tabs -> SessionRecords]
    /\ session'[t].tx = "lost" /\ Sound(session'[t])
    /\ \A S : ClearOf(S, session'[t])
    /\ \A u \in Tabs \ {t} : session'[u] = session[u]

LEMMA LoseWell ==
    ASSUME TypeOK, NEW t \in Tabs, Lose(t)
    PROVE  LoseMakes(t)
    <1> DEFINE r == Session("lost", "user", {}, << >>)
    <1>1. << >> \in Seq(SUBSET AllWrites) /\ Len(<< >>) = 0  BY EmptySeq
    <1>2. r \in SessionRecords /\ r.tx = "lost" /\ r.held = {} /\ r.saves = << >>
        BY <1>1 DEF Session, SessionRecords, AllWrites
    <1> HIDE DEF r
    <1>3. /\ session' \in [Tabs -> SessionRecords] /\ session'[t] = r
          /\ \A u \in Tabs \ {t} : session'[u] = session[u]
        BY <1>2 DEF Lose, TypeOK, r
    <1>4. engine' = engine  BY DEF Lose
    <1>5. Sound(r) /\ \A S : ClearOf(S, r)  BY <1>1, <1>2 DEF Sound, Tx, ClearOf
    <1>6. /\ job' = [j \in Jobs |-> job'[j]]
          /\ \A i \in Jobs : job'[i] =
                 IF i \in RunningIn(t) /\ Answered(i) THEN [job[i] EXCEPT !.reply = "err", !.alone = FALSE]
                 ELSE IF i \in RunningIn(t) /\ job[i].stmt = "save" THEN [job[i] EXCEPT !.right = FALSE]
                 ELSE job[i]
        BY DEF Lose
    <1>7. ASSUME NEW i \in Jobs
          PROVE  /\ job'[i] \in JobRecords
                 /\ job'[i].kind = job[i].kind /\ job'[i].tab = job[i].tab /\ job'[i].stmt = job[i].stmt
                 /\ job'[i].out = job[i].out /\ job'[i].in = job[i].in /\ job'[i].row = job[i].row
                 /\ Answered(i)' => Answered(i)
                 /\ (job'[i] = Waiting) <=> (job[i] = Waiting)
                 /\ i \notin RunningIn(t) => job'[i] = job[i] /\ Kept(i)
                 /\ i \in RunningIn(t) /\ Answered(i) => ~ job'[i].alone
                 /\ i \in RunningIn(t) /\ ~ Answered(i) =>
                      Kept(i) /\ (job[i].stmt = "save" => ~ job'[i].right)
        <2>1. job[i] \in JobRecords  BY DEF TypeOK
        <2>2. i \in RunningIn(t) => job[i].kind # "none"  BY DEF RunningIn, Running
        <2>3. CASE i \in RunningIn(t) /\ Answered(i)
            <3>1. job'[i] = [job[i] EXCEPT !.reply = "err", !.alone = FALSE]  BY <1>6, <2>3
            <3>2. /\ job'[i] \in JobRecords /\ job'[i].kind = job[i].kind
                  /\ job'[i].tab = job[i].tab /\ job'[i].stmt = job[i].stmt
                  /\ job'[i].out = job[i].out /\ job'[i].in = job[i].in
                  /\ job'[i].row = job[i].row /\ ~ job'[i].alone
                BY <2>1, <3>1 DEF JobRecords
            <3>3. job'[i] # Waiting /\ job[i] # Waiting  BY <2>2, <2>3, <3>2, WaitingTyped
            <3>4. QED  BY <2>3, <3>2, <3>3
        <2>4. CASE i \in RunningIn(t) /\ ~ Answered(i) /\ job[i].stmt = "save"
            <3>1. job'[i] = [job[i] EXCEPT !.right = FALSE]  BY <1>6, <2>4
            <3>2. /\ job'[i] \in JobRecords /\ job'[i].kind = job[i].kind
                  /\ job'[i].tab = job[i].tab /\ job'[i].stmt = job[i].stmt
                  /\ job'[i].out = job[i].out /\ job'[i].in = job[i].in
                  /\ job'[i].row = job[i].row /\ ~ job'[i].right
                  /\ job'[i].alone = job[i].alone /\ job'[i].reply = job[i].reply
                BY <2>1, <3>1 DEF JobRecords
            <3>3. job'[i] # Waiting /\ job[i] # Waiting  BY <2>2, <2>4, <3>2, WaitingTyped
            <3>4. QED  BY <2>4, <3>2, <3>3 DEF Kept, Answered
        <2>5. CASE ~ (i \in RunningIn(t) /\ (Answered(i) \/ job[i].stmt = "save"))
            <3>1. job'[i] = job[i]  BY <1>6, <2>5
            <3>2. QED  BY <2>1, <2>5, <3>1 DEF Kept, Answered
        <2>6. QED  BY <2>3, <2>4, <2>5
    <1>8. job' \in [Jobs -> JobRecords]  BY <1>6, <1>7
    <1>9. Sound(session'[t])  BY <1>3, <1>5
    <1>10. \A i \in RunningIn(t) : i \in Jobs  BY DEF RunningIn
    <1>11. QED  BY <1>2, <1>3, <1>5, <1>7, <1>8, <1>9, <1>10 DEF LoseMakes

-----------------------------------------------------------------------------
(* The steps, and what they keep of TypeOK, Formed and Closed.             *)

LEMMA Steps ==
    ASSUME TypeOK, [Next]_vars
    PROVE  \/ AnyStart
           \/ \E j \in Statements : AnswerControl(j) \/ AnswerRun(j)
           \/ \E j \in Batches : AnswerGrid(j)
           \/ \E j \in Jobs : Serve(j)
           \/ \E t \in Tabs : SwitchTab(t) \/ Lose(t)
           \/ UNCHANGED vars
    <1>1. ASSUME NEW j \in Statements, StartControl(j) \/ StartRun(j)  PROVE  AnyStart
        <2>1. CASE StartControl(j)
            <3>1. PICK s \in Opens \cup Ends : Start(j, "control", s, FALSE)
                BY <2>1 DEF StartControl
            <3>2. s \in UserStatements \cup GridStatements  BY DEF UserStatements
            <3>3. Starts(j, "control", s, FALSE)  BY <3>1 DEF Starts
            <3>4. QED  BY <3>2, <3>3 DEF AnyStart, Jobs
        <2>2. CASE StartRun(j)
            <3>1. PICK s \in UserStatements : Start(j, "run", s, FALSE)  BY <2>2 DEF StartRun
            <3>2. Starts(j, "run", s, FALSE)  BY <3>1 DEF Starts
            <3>3. QED  BY <3>2 DEF AnyStart, Jobs
        <2>3. QED  BY <1>1, <2>1, <2>2
    <1>2. ASSUME NEW j \in Batches, StartGrid(j)  PROVE  AnyStart
        <2> DEFINE s == IF shown THEN "save" ELSE "begin"
        <2>1. shown \in BOOLEAN /\ s \in GridStatements  BY DEF TypeOK, GridStatements
        <2>2. Starts(j, "grid", s, shown)  BY <1>2 DEF StartGrid, Starts
        <2> HIDE DEF s
        <2>3. QED  BY <2>1, <2>2 DEF AnyStart, Jobs
    <1>3. QED  BY <1>1, <1>2 DEF Next

(* A statement of the batch is answered: it goes on, or it ends.           *)
GridGoes(j, stmt, row) ==
    LET good == job[j].reply = "ok" IN
    /\ GoesMakes(j, stmt, row)
    /\ \/ job[j].stmt \in {"begin", "save"} /\ good /\ stmt = "write" /\ row = job[j].row
       \/ /\ job[j].stmt = "write" /\ good /\ job[j].row < Rows
          /\ stmt = "write" /\ row = job[j].row + 1
       \/ /\ job[j].stmt = "write" /\ good /\ job[j].row = Rows
          /\ stmt = (IF job[j].in THEN "release" ELSE "commit") /\ row = job[j].row
       \/ /\ job[j].stmt \in {"write", "release", "commit"} /\ ~ good
          /\ stmt = (IF job[j].in THEN "back" ELSE "rollback") /\ row = job[j].row

GridEnds(j, out) ==
    LET good == job[j].reply = "ok" IN
    /\ EndedMakes(j, out)
    /\ \/ job[j].stmt \in {"begin", "save"} /\ ~ good /\ out = "failed"
       \/ job[j].stmt \in {"release", "commit"} /\ good /\ out = "saved"
       \/ job[j].stmt \in {"back", "rollback"} /\ out = "failed"

LEMMA GridAnswers ==
    ASSUME TypeOK, NEW j \in Batches, AnswerGrid(j)
    PROVE  \/ \E stmt \in GridStatements, row \in 1..Rows : GridGoes(j, stmt, row)
           \/ \E out \in {"saved", "failed"} : GridEnds(j, out)
    <1>1. j \in Jobs /\ job[j] \in JobRecords  BY DEF TypeOK, Jobs
    <1>2. job[j].row \in 1..Rows  BY <1>1 DEF JobRecords
    <1>3. \A out \in {"saved", "failed"} : Ended(j, out) => EndedMakes(j, out)
        BY <1>1, EndsWell
    <1>4. \A stmt \in GridStatements : Goes(j, stmt) => GoesMakes(j, stmt, job[j].row)
        BY <1>1, <1>2, GoesWell
    <1>5. CASE job[j].stmt \in {"begin", "save"} /\ job[j].reply = "ok"
        <2>1. Goes(j, "write")  BY <1>5 DEF AnswerGrid
        <2>2. GridGoes(j, "write", job[j].row)  BY <1>4, <1>5, <2>1 DEF GridGoes, GridStatements
        <2>3. QED  BY <1>2, <2>2 DEF GridStatements
    <1>6. CASE job[j].stmt = "write" /\ job[j].reply = "ok" /\ job[j].row < Rows
        <2>1. job' = [job EXCEPT ![j].row = @ + 1, ![j].reply = "none"]
            BY <1>2, <1>6, RowsAssumption DEF AnswerGrid
        <2>2. job[j].row + 1 \in 1..Rows  BY <1>2, <1>6, RowsAssumption
        <2>3. job[j].stmt \in GridStatements  BY <1>6 DEF GridStatements
        <2>4. GoesMakes(j, job[j].stmt, job[j].row + 1)  BY <1>1, <2>1, <2>2, <2>3, GoesWell
        <2>5. GridGoes(j, "write", job[j].row + 1)  BY <1>6, <2>4 DEF GridGoes
        <2>6. QED  BY <2>2, <2>5 DEF GridStatements
    <1>7. CASE job[j].stmt = "write" /\ job[j].reply = "ok" /\ ~ (job[j].row < Rows)
        <2> DEFINE stmt == IF job[j].in THEN "release" ELSE "commit"
        <2>1. job[j].row = Rows  BY <1>2, <1>7, RowsAssumption
        <2>2. Goes(j, stmt) /\ stmt \in GridStatements  BY <1>7 DEF AnswerGrid, GridStatements
        <2>3. GridGoes(j, stmt, job[j].row)  BY <1>4, <1>7, <2>1, <2>2 DEF GridGoes
        <2>4. QED  BY <1>2, <2>2, <2>3
    <1>8. CASE job[j].stmt \in {"write", "release", "commit"} /\ job[j].reply # "ok"
        <2> DEFINE stmt == IF job[j].in THEN "back" ELSE "rollback"
        <2>1. Goes(j, stmt) /\ stmt \in GridStatements  BY <1>8 DEF AnswerGrid, GridStatements
        <2>2. GridGoes(j, stmt, job[j].row)  BY <1>4, <1>8, <2>1 DEF GridGoes
        <2>3. QED  BY <1>2, <2>1, <2>2
    <1>9. CASE job[j].stmt \in {"begin", "save"} /\ job[j].reply # "ok"
        <2>1. Ended(j, "failed")  BY <1>9 DEF AnswerGrid
        <2>2. GridEnds(j, "failed")  BY <1>3, <1>9, <2>1 DEF GridEnds
        <2>3. QED  BY <2>2
    <1>10. CASE job[j].stmt \in {"release", "commit"} /\ job[j].reply = "ok"
        <2>1. Ended(j, "saved")  BY <1>10 DEF AnswerGrid
        <2>2. GridEnds(j, "saved")  BY <1>3, <1>10, <2>1 DEF GridEnds
        <2>3. QED  BY <2>2
    <1>11. CASE job[j].stmt \in {"back", "rollback"}
        <2>1. Ended(j, "failed")  BY <1>11 DEF AnswerGrid
        <2>2. GridEnds(j, "failed")  BY <1>3, <1>11, <2>1 DEF GridEnds
        <2>3. QED  BY <2>2
    <1>12. QED
        BY <1>5, <1>6, <1>7, <1>8, <1>9, <1>10, <1>11 DEF AnswerGrid

(* The answer to a statement of the user: the indicator moves in the       *)
(* active tab only, and is right in a tab that does not go astray.         *)
LEMMA UserAnswers ==
    ASSUME TypeOK, Formed, Indicated, NEW j \in Statements, AnswerControl(j) \/ AnswerRun(j)
    PROVE  LET t == job[j].tab IN
           /\ j \in Jobs /\ Running(j) /\ job[j].kind # "grid" /\ t \in Tabs
           /\ EndedMakes(j, "done") /\ Frame /\ astray \subseteq astray'
           /\ \A u \in Tabs \ {t} : u \notin astray' => mark'[u] = mark[u]
           /\ t \notin astray' => mark'[t] = InTx(t)
    <1> DEFINE t == job[j].tab
    <1>1. j \in Jobs /\ Running(j) /\ job[j].kind # "grid"
        BY DEF AnswerControl, AnswerRun, Running, Jobs
    <1>2. t \in Tabs /\ job[j].stmt \in UserStatements
          /\ (job[j].kind = "control" => job[j].stmt \in Opens \cup Ends)
        BY <1>1 DEF Formed, FormedAt, AnswerControl, AnswerRun
    <1>3. EndedMakes(j, "done")  BY <1>1, EndsWell DEF AnswerControl, AnswerRun
    <1>4. Frame  BY DEF AnswerControl, AnswerRun, Frame
    <1>5. t \notin astray => Told(j)  BY <1>1 DEF Indicated, IndicatedAt
    <1>6. mark[t] \in BOOLEAN /\ mark \in [Tabs -> BOOLEAN] /\ shown = mark[active]
        BY <1>2 DEF TypeOK
    <1> DEFINE Goal == /\ astray \subseteq astray'
                       /\ \A u \in Tabs \ {t} : u \notin astray' => mark'[u] = mark[u]
                       /\ t \notin astray' => mark'[t] = InTx(t)
    <1>7. ASSUME KeepTransaction(j), t \notin astray /\ active = t => mark[t] = InTx(t)
          PROVE  Goal
        BY <1>7 DEF KeepTransaction
    <1>8. ASSUME NEW v \in BOOLEAN, SetTransaction(j, v), t \notin astray /\ active = t => v = InTx(t)
          PROVE  Goal
        <2>1. astray \subseteq astray' /\ (active # t => active \in astray' /\ t \in astray')
            BY <1>8 DEF SetTransaction
        <2>2. \A u \in Tabs : mark'[u] = IF u = active THEN v ELSE mark[u]
            BY <1>6, <1>8 DEF SetTransaction
        <2>3. QED  BY <1>2, <1>8, <2>1, <2>2
    <1>9. CASE AnswerControl(j) /\ job[j].reply = "ok"
        <2> DEFINE v == job[j].stmt \in Opens
        <2>1. SetTransaction(j, v)  BY <1>9 DEF AnswerControl
        <2>2. t \notin astray => v = InTx(t)
            BY <1>2, <1>5, <1>9 DEF Told, Opens, Ends, AnswerControl, InTx
        <2>3. v \in BOOLEAN  OBVIOUS
        <2> HIDE DEF v
        <2>4. Goal  BY <1>8, <2>1, <2>2, <2>3
        <2>5. QED  BY <1>1, <1>2, <1>3, <1>4, <2>4
    <1>10. CASE AnswerControl(j) /\ job[j].reply # "ok"
        <2>1. KeepTransaction(j)  BY <1>10 DEF AnswerControl
        <2>2. t \notin astray => mark[t] = InTx(t)  BY <1>5, <1>10 DEF Told
        <2>3. Goal  BY <1>7, <2>1, <2>2
        <2>4. QED  BY <1>1, <1>2, <1>3, <1>4, <2>3
    <1> DEFINE tracks == job[j].reply = "ok" /\ job[j].stmt \in (IF shown THEN Ends ELSE Opens)
    <1>11. CASE AnswerRun(j) /\ tracks
        <2> DEFINE v == ~ shown
        <2>1. SetTransaction(j, v)  BY <1>11 DEF AnswerRun
        <2>2. t \notin astray /\ active = t => v = InTx(t)
            BY <1>5, <1>6, <1>11 DEF Told, Opens, Ends, InTx
        <2>3. v \in BOOLEAN  OBVIOUS
        <2> HIDE DEF v
        <2>4. Goal  BY <1>8, <2>1, <2>2, <2>3
        <2>5. QED  BY <1>1, <1>2, <1>3, <1>4, <2>4
    <1>12. CASE AnswerRun(j) /\ ~ tracks
        <2>1. KeepTransaction(j)  BY <1>12 DEF AnswerRun
        <2>2. t \notin astray /\ active = t => mark[t] = InTx(t)
            BY <1>5, <1>6, <1>12 DEF Told, Opens, Ends, InTx
        <2>3. Goal  BY <1>7, <2>1, <2>2
        <2>4. QED  BY <1>1, <1>2, <1>3, <1>4, <2>3
    <1>13. QED  BY <1>9, <1>10, <1>11, <1>12

LEMMA TypeStep ==
    ASSUME TypeOK, Formed, Closed, [Next]_vars
    PROVE  TypeOK'
    <1>1. CASE AnyStart
        <2>1. PICK j \in Jobs, kind \in {"control", "run", "grid"},
                   stmt \in UserStatements \cup GridStatements, in \in BOOLEAN :
                   Starts(j, kind, stmt, in)
            BY <1>1 DEF AnyStart
        <2>2. job' \in [Jobs -> JobRecords]  BY <2>1, StartMakes DEF Starts
        <2>3. QED  BY <2>1, <2>2 DEF Starts, Start, TypeOK
    <1>2. ASSUME NEW j \in Statements, AnswerControl(j) \/ AnswerRun(j)
          PROVE  TypeOK'
        <2>1. j \in Jobs /\ Running(j)  BY <1>2 DEF AnswerControl, AnswerRun, Running, Jobs
        <2>2. job[j].tab \in Tabs  BY <2>1 DEF Formed, FormedAt
        <2>3. Ended(j, "done")  BY <1>2 DEF AnswerControl, AnswerRun
        <2>4. job' \in [Jobs -> JobRecords]  BY <2>1, <2>3, EndsWell DEF EndedMakes
        <2>5. Frame  BY <1>2 DEF AnswerControl, AnswerRun, Frame
        <2>6. CASE KeepTransaction(j)
            BY <2>2, <2>4, <2>5, <2>6 DEF KeepTransaction, TypeOK, Frame
        <2>7. ASSUME NEW v \in BOOLEAN, SetTransaction(j, v)  PROVE  TypeOK'
            <3>1. mark' \in [Tabs -> BOOLEAN] /\ mark'[active] = v /\ shown' = v
                BY <2>7 DEF SetTransaction, TypeOK
            <3>2. astray' \subseteq Tabs  BY <2>2, <2>7 DEF SetTransaction, TypeOK
            <3>3. QED  BY <2>4, <2>5, <3>1, <3>2 DEF TypeOK, Frame
        <2>8. (~ shown) \in BOOLEAN /\ (job[j].stmt \in Opens) \in BOOLEAN  OBVIOUS
        <2>9. QED  BY <1>2, <2>6, <2>7, <2>8 DEF AnswerControl, AnswerRun
    <1>3. ASSUME NEW j \in Batches, AnswerGrid(j)
          PROVE  TypeOK'
        <2>1. job' \in [Jobs -> JobRecords]
            BY <1>3, GridAnswers DEF GridGoes, GridEnds, GoesMakes, EndedMakes
        <2>2. QED  BY <1>3, <2>1 DEF AnswerGrid, TypeOK
    <1>4. ASSUME NEW j \in Jobs, Serve(j)
          PROVE  TypeOK'
        <2>1. PICK s \in SessionRecords, r \in SessionRecords, reply \in {"ok", "miss", "err"},
                   w \in SUBSET AllWrites : Effect(j, s, r, reply, w)
            BY <1>4, ServeMakes
        <2>2. job[j].tab \in Tabs  BY <1>4 DEF Serve, Asked, Formed, FormedAt
        <2>3. EffectMakes(j, r, reply, w)  BY <2>1, <2>2, EffectWell
        <2>4. QED  BY <2>3 DEF EffectMakes, TypeOK, AllWrites
    <1>5. ASSUME NEW t \in Tabs, SwitchTab(t)
          PROVE  TypeOK'
        BY <1>5 DEF SwitchTab, TypeOK
    <1>6. ASSUME NEW t \in Tabs, Lose(t)
          PROVE  TypeOK'
        <2>1. job' \in [Jobs -> JobRecords] /\ session' \in [Tabs -> SessionRecords]
            BY <1>6, LoseWell DEF LoseMakes
        <2>2. losses' \in 0..MaxLosses
            <3>1. losses \in 0..MaxLosses /\ losses < MaxLosses /\ losses' = losses + 1
                BY <1>6 DEF Lose, TypeOK
            <3>2. QED  BY <3>1, LossesAssumption
        <2>3. QED  BY <1>6, <2>1, <2>2 DEF Lose, TypeOK
    <1>7. CASE UNCHANGED vars  BY <1>7 DEF vars, TypeOK
    <1>8. QED  BY <1>1, <1>2, <1>3, <1>4, <1>5, <1>6, <1>7, Steps

LEMMA KeptFormed ==
    ASSUME NEW i \in Jobs, FormedAt(i), Kept(i)
    PROVE  FormedAt(i)'
    BY DEF FormedAt, Kept, Running

LEMMA FormedStep ==
    ASSUME TypeOK, Formed, Closed, [Next]_vars
    PROVE  Formed'
    <1> USE DEF Formed
    <1>1. CASE AnyStart
        <2>1. PICK j \in Jobs, kind \in {"control", "run", "grid"},
                   stmt \in UserStatements \cup GridStatements, in \in BOOLEAN :
                   Starts(j, kind, stmt, in)
            BY <1>1 DEF AnyStart
        <2>2. /\ \A i \in Jobs \ {j} : Kept(i)
              /\ job'[j].kind = kind /\ job'[j].tab = active /\ job'[j].stmt = stmt
              /\ job'[j].out = "pending" /\ job'[j].in = in
            BY <2>1, StartMakes DEF Starts
        <2>3. FormedAt(j)'
            <3>1. active \in Tabs  BY DEF TypeOK
            <3>2. CASE kind = "grid"
                BY <2>1, <2>2, <3>1, <3>2 DEF FormedAt, Starts, Inner, Plain, Running
            <3>3. CASE kind \in {"control", "run"}
                BY <2>1, <2>2, <3>1, <3>3 DEF FormedAt, Starts, Running, UserStatements
            <3>4. QED  BY <3>2, <3>3
        <2>4. QED  BY <2>2, <2>3, KeptFormed
    <1>2. ASSUME NEW j \in Jobs, NEW out, EndedMakes(j, out)
          PROVE  Formed'
        <2>1. FormedAt(j)'  BY <1>2 DEF EndedMakes, FormedAt, Running
        <2>2. QED  BY <1>2, <2>1, KeptFormed DEF EndedMakes
    <1>3. ASSUME NEW j \in Statements, AnswerControl(j) \/ AnswerRun(j)
          PROVE  Formed'
        BY <1>2, <1>3, EndsWell DEF AnswerControl, AnswerRun, Jobs
    <1>4. ASSUME NEW j \in Batches, AnswerGrid(j)
          PROVE  Formed'
        <2>1. ASSUME NEW stmt \in GridStatements, NEW row \in 1..Rows, GridGoes(j, stmt, row)
              PROVE  Formed'
            <3>1. job[j].stmt \in (IF job[j].in THEN Inner ELSE Plain) /\ FormedAt(j)
                BY <1>4 DEF AnswerGrid, FormedAt, Jobs
            <3>2. stmt \in (IF job[j].in THEN Inner ELSE Plain)
                BY <2>1, <3>1 DEF GridGoes, Inner, Plain
            <3>3. FormedAt(j)'
                BY <1>4, <2>1, <3>1, <3>2 DEF FormedAt, GridGoes, GoesMakes, Running, AnswerGrid
            <3>4. QED  BY <2>1, <3>3, KeptFormed DEF GridGoes, GoesMakes
        <2>2. QED  BY <1>2, <1>4, <2>1, GridAnswers DEF GridEnds, Jobs
    <1>5. ASSUME NEW j \in Jobs, Serve(j)
          PROVE  Formed'
        <2>1. PICK s \in SessionRecords, r \in SessionRecords, reply \in {"ok", "miss", "err"},
                   w \in SUBSET AllWrites : Effect(j, s, r, reply, w)
            BY <1>5, ServeMakes
        <2>2. job[j].tab \in Tabs  BY <1>5 DEF Serve, Asked, FormedAt
        <2>3. EffectMakes(j, r, reply, w)  BY <2>1, <2>2, EffectWell
        <2>4. FormedAt(j)'  BY <2>3 DEF EffectMakes, FormedAt, Running
        <2>5. QED  BY <2>3, <2>4, KeptFormed DEF EffectMakes
    <1>6. ASSUME NEW t \in Tabs, Lose(t)
          PROVE  Formed'
        BY <1>6, LoseWell DEF LoseMakes, FormedAt, Running
    <1>7. CASE UNCHANGED job
        BY <1>7 DEF FormedAt, Running
    <1>8. QED
        BY <1>1, <1>3, <1>4, <1>5, <1>6, <1>7, Steps DEF SwitchTab, vars

LEMMA ClosedStep ==
    ASSUME TypeOK, Formed, Closed, Indicated, [Next]_vars
    PROVE  Closed'
    <1>1. ASSUME engine' = engine, astray \subseteq astray', UNCHANGED session
          PROVE  Closed'
        BY <1>1 DEF Closed, Sound
    <1>2. CASE AnyStart  BY <1>1, <1>2 DEF AnyStart, Starts, Start
    <1>3. ASSUME NEW j \in Statements, AnswerControl(j) \/ AnswerRun(j)
          PROVE  Closed'
        BY <1>1, <1>3, UserAnswers DEF Frame
    <1>4. ASSUME NEW j \in Batches, AnswerGrid(j)
          PROVE  Closed'
        BY <1>1, <1>4 DEF AnswerGrid
    <1>5. ASSUME NEW j \in Jobs, Serve(j)
          PROVE  Closed'
        <2>1. PICK s \in SessionRecords, r \in SessionRecords, reply \in {"ok", "miss", "err"},
                   w \in SUBSET AllWrites : Effect(j, s, r, reply, w) /\ ServedBy(j, s, r, reply, w)
            BY <1>5, ServeMakes
        <2>2. job[j].tab \in Tabs  BY <1>5 DEF Serve, Asked, Formed, FormedAt
        <2>3. EffectMakes(j, r, reply, w)  BY <2>1, <2>2, EffectWell
        <2>4. Sound(r) /\ r.tx # "lost"  BY <2>1, AutoSound DEF ServedBy, Served
        <2>5. QED  BY <2>2, <2>3, <2>4 DEF EffectMakes, Closed, Sound
    <1>6. ASSUME NEW t \in Tabs, SwitchTab(t) \/ Lose(t)
          PROVE  Closed'
        <2>1. CASE SwitchTab(t)  BY <1>1, <2>1 DEF SwitchTab
        <2>2. CASE Lose(t)
            <3>1. LoseMakes(t)  BY <2>2, LoseWell
            <3>2. engine' = engine /\ astray' = astray \cup {t}  BY <2>2 DEF Lose
            <3>3. QED  BY <3>1, <3>2 DEF LoseMakes, Closed, Sound
        <2>3. QED  BY <1>6, <2>1, <2>2
    <1>7. CASE UNCHANGED vars  BY <1>1, <1>7 DEF vars
    <1>8. QED
        BY <1>2, <1>3, <1>4, <1>5, <1>6, <1>7, Steps

-----------------------------------------------------------------------------
(* The indicator.                                                          *)

(* A step starts no job.                                                   *)
NoneStarts ==
    \A i \in Jobs : Running(i)' => Running(i) /\ job'[i].tab = job[i].tab

LEMMA OnlyKept ==
    ASSUME NoneStarts, NEW i \in Jobs, Running(i)', Only(i)
    PROVE  Only(i)'
    BY DEF NoneStarts, Only

(* A job that a step is not about, in a tab that the step leaves alone.    *)
LEMMA IndicatedKept ==
    ASSUME NEW i \in Jobs, Kept(i), IndicatedAt(i), astray \subseteq astray', Only(i) => Only(i)',
           job[i].tab \notin astray' =>
              mark'[job[i].tab] = mark[job[i].tab] /\ session'[job[i].tab] = session[job[i].tab]
    PROVE  IndicatedAt(i)'
    <1>1. SUFFICES ASSUME Running(i)', job'[i].tab \notin astray'
                   PROVE  Only(i)' /\ IF job'[i].kind = "grid" THEN Between(i)' ELSE Told(i)'
        BY DEF IndicatedAt
    <1>2. Running(i) /\ job[i].tab \notin astray /\ job[i].tab \notin astray'
        BY <1>1 DEF Kept, Running
    <1>3. Only(i) /\ (IF job[i].kind = "grid" THEN Between(i) ELSE Told(i))
        BY <1>2 DEF IndicatedAt
    <1>4. mark'[job'[i].tab] = mark[job[i].tab] /\ session'[job'[i].tab] = session[job[i].tab]
        BY <1>2 DEF Kept
    <1>5. Between(i)' <=> Between(i)  BY <1>4 DEF Between, InTx, Kept
    <1>6. Told(i)' <=> Told(i)  BY <1>4 DEF Told, InTx, Kept
    <1>7. QED  BY <1>3, <1>5, <1>6 DEF Kept

Indicators == Indicated /\ IndicatorHonest

LEMMA IndicatedStart ==
    ASSUME TypeOK, Formed, Closed, Indicators, AnyStart
    PROVE  Indicators'
    <1>1. PICK j \in Jobs, kind \in {"control", "run", "grid"},
               stmt \in UserStatements \cup GridStatements, in \in BOOLEAN :
               Starts(j, kind, stmt, in)
        BY DEF AnyStart
    <1>2. /\ job[j] = Waiting /\ \A i \in Jobs \ {j} : Kept(i)
          /\ job'[j].kind = kind /\ job'[j].tab = active /\ job'[j].stmt = stmt
          /\ job'[j].reply = "none" /\ job'[j].in = in
        BY <1>1, StartMakes DEF Starts
    <1>3. /\ active' = active /\ UNCHANGED <<shown, mark, session>>
          /\ astray' = IF RunningIn(active) = {} THEN astray ELSE astray \cup {active}
        BY <1>1 DEF Starts, Start
    <1>4. active \in Tabs /\ shown = mark[active]  BY DEF TypeOK
    <1>5. ~ Running(j) /\ Running(j)'  BY <1>2, WaitingTyped DEF Running
    <1>6. ASSUME NEW i \in Jobs \ {j}
          PROVE  IndicatedAt(i)'
        <2>1. SUFFICES ASSUME Running(i)', job'[i].tab \notin astray'  PROVE IndicatedAt(i)'
            BY DEF IndicatedAt
        <2>2. Running(i) /\ job[i].tab \notin astray'  BY <1>2, <2>1 DEF Kept, Running
        <2>3. job[i].tab # active  BY <1>3, <2>2 DEF RunningIn
        <2>4. Only(i) => Only(i)'  BY <1>2, <2>3 DEF Only, Kept, Running
        <2>5. astray \subseteq astray'  BY <1>3
        <2>6. QED  BY <1>2, <1>3, <2>4, <2>5, IndicatedKept DEF Indicators, Indicated
    <1>7. IndicatedAt(j)'
        <2>1. SUFFICES ASSUME active \notin astray'
                       PROVE  Only(j)' /\ IF kind = "grid" THEN Between(j)' ELSE Told(j)'
            BY <1>2 DEF IndicatedAt
        <2>2. RunningIn(active) = {} /\ active \notin astray  BY <1>3, <2>1
        <2>3. mark[active] = InTx(active)  BY <1>4, <2>2 DEF Indicators, IndicatorHonest
        <2>4. Only(j)'  BY <1>2, <2>2 DEF Only, RunningIn, Kept, Running
        <2>5. Told(j)'  BY <1>2, <1>3, <2>3 DEF Told, InTx
        <2>6. CASE kind = "grid"
            <3>1. in = mark[active] /\ stmt = (IF in THEN "save" ELSE "begin")
                BY <1>1, <1>4, <2>6 DEF Starts
            <3>2. Between(j)'
                BY <1>2, <1>3, <2>3, <3>1 DEF Between, InTx
            <3>3. QED  BY <2>4, <2>6, <3>2
        <2>7. QED  BY <2>4, <2>5, <2>6
    <1>8. IndicatorHonest'
        <2>1. SUFFICES ASSUME NEW t \in Tabs, t \notin astray', RunningIn(t)' = {}
                       PROVE  mark'[t] = InTx(t)'
            BY DEF IndicatorHonest
        <2>2. RunningIn(t) = {}
            BY <1>2, <1>5, <2>1 DEF RunningIn, Kept, Running
        <2>3. t \notin astray  BY <1>3, <2>1
        <2>4. QED  BY <1>3, <2>2, <2>3 DEF Indicators, IndicatorHonest, InTx
    <1>9. QED  BY <1>6, <1>7, <1>8 DEF Indicators, Indicated

(* A job ends in a tab whose indicator is right by then.                   *)
LEMMA IndicatedEnds ==
    ASSUME TypeOK, Formed, Indicators, NEW j \in Jobs, NEW out, EndedMakes(j, out),
           Running(j), job[j].tab \in Tabs, UNCHANGED session, astray \subseteq astray',
           \A u \in Tabs \ {job[j].tab} : u \notin astray' => mark'[u] = mark[u],
           job[j].tab \notin astray' => mark'[job[j].tab] = InTx(job[j].tab)
    PROVE  Indicators'
    <1> DEFINE t == job[j].tab
    <1>1. /\ job'[j].kind = "none" /\ \A i \in Jobs \ {j} : job'[i] = job[i] /\ Kept(i)
        BY DEF EndedMakes
    <1>2. ~ Running(j)' /\ NoneStarts  BY <1>1 DEF NoneStarts, Running
    <1>3. \A u \in Tabs : InTx(u)' = InTx(u)  BY DEF InTx
    <1>4. ASSUME NEW i \in Jobs
          PROVE  IndicatedAt(i)'
        <2>1. SUFFICES ASSUME Running(i)', job'[i].tab \notin astray'  PROVE IndicatedAt(i)'
            BY DEF IndicatedAt
        <2>2. i # j /\ Kept(i) /\ Running(i) /\ job'[i].tab = job[i].tab
            BY <1>1, <1>2, <2>1 DEF Kept, Running
        <2>3. Only(i) /\ job[i].tab \in Tabs
            BY <2>1, <2>2 DEF Indicators, Indicated, IndicatedAt, Formed, FormedAt
        <2>4. job[i].tab # t  BY <2>2, <2>3 DEF Only
        <2>5. Only(i)'  BY <1>2, <2>1, <2>3, OnlyKept
        <2>6. QED  BY <2>2, <2>3, <2>4, <2>5, IndicatedKept DEF Indicators, Indicated
    <1>5. ASSUME NEW u \in Tabs, u \notin astray', RunningIn(u)' = {}
          PROVE  mark'[u] = InTx(u)'
        <2>1. CASE u = t  BY <1>3, <1>5, <2>1
        <2>2. CASE u # t
            <3>1. RunningIn(u) = {}  BY <1>1, <1>5, <2>2 DEF RunningIn, Running
            <3>2. mark[u] = InTx(u)  BY <1>5, <3>1 DEF Indicators, IndicatorHonest
            <3>3. QED  BY <1>3, <1>5, <2>2, <3>2
        <2>3. QED  BY <2>1, <2>2
    <1>6. QED  BY <1>4, <1>5 DEF Indicators, Indicated, IndicatorHonest

LEMMA IndicatedGrid ==
    ASSUME TypeOK, Formed, Closed, Indicators, NEW j \in Batches, AnswerGrid(j)
    PROVE  Indicators'
    <1> DEFINE t == job[j].tab
    <1>1. /\ j \in Jobs /\ Running(j) /\ job[j].kind = "grid" /\ Answered(j)
          /\ UNCHANGED <<engine, active, shown, mark, session, durable, astray, losses>>
        BY DEF AnswerGrid, Jobs
    <1>2. t \in Tabs /\ job[j].stmt \in (IF job[j].in THEN Inner ELSE Plain)
        BY <1>1 DEF Formed, FormedAt
    <1>3. IndicatedAt(j) /\ job[j] \in JobRecords
        BY <1>1 DEF Indicators, Indicated, TypeOK
    <1>4. t \notin astray => Between(j)  BY <1>1, <1>3 DEF IndicatedAt
    <1>5. ASSUME NEW out, GridEnds(j, out)
          PROVE  Indicators'
        <2>1. ASSUME t \notin astray
              PROVE  mark[t] = InTx(t)
            <3>1. Between(j) /\ mark[t] = job[j].in  BY <1>4, <2>1 DEF Between
            <3>2. CASE job[j].in  BY <3>1, <3>2 DEF Between, InTx
            <3>3. CASE ~ job[j].in
                <4>1. job[j].stmt \in {"commit", "rollback"}
                    BY <1>1, <1>2, <1>5, <3>1, <3>3 DEF GridEnds, Between, Plain, Answered
                <4>2. ~ InTx(t)  BY <1>1, <3>1, <3>3, <4>1 DEF Between, Answered
                <4>3. mark[t] = FALSE /\ InTx(t) = FALSE
                    BY <1>3, <3>1, <3>3, <4>2 DEF JobRecords, InTx
                <4>4. QED  BY <4>3
            <3>4. QED  BY <3>2, <3>3
        <2>2. QED  BY <1>1, <1>2, <1>5, <2>1, IndicatedEnds DEF GridEnds
    <1>6. ASSUME NEW stmt, NEW row, GridGoes(j, stmt, row)
          PROVE  Indicators'
        <2>1. /\ job'[j].kind = job[j].kind /\ job'[j].tab = t /\ job'[j].stmt = stmt
              /\ job'[j].reply = "none" /\ job'[j].in = job[j].in
              /\ \A i \in Jobs \ {j} : job'[i] = job[i] /\ Kept(i)
            BY <1>6 DEF GridGoes, GoesMakes
        <2>2. NoneStarts  BY <1>1, <2>1 DEF NoneStarts, Running
        <2>3. \A u \in Tabs : RunningIn(u)' = RunningIn(u)
            BY <1>1, <2>1 DEF RunningIn, Running
        <2>4. IndicatedAt(j)'
            <3>1. SUFFICES ASSUME t \notin astray  PROVE  Only(j)' /\ Between(j)'
                BY <1>1, <2>1 DEF IndicatedAt
            <3>2. Only(j) /\ Between(j)  BY <1>1, <1>3, <3>1 DEF IndicatedAt
            <3>3. Running(j)'  BY <1>1, <2>1 DEF Running
            <3>4. Only(j)'  BY <2>2, <3>2, <3>3, OnlyKept, <1>1
            <3>5. InTx(t)' = InTx(t)  BY <1>1, <2>1 DEF InTx
            <3>6. mark[t] = job[j].in /\ (job[j].in => InTx(t))  BY <3>2 DEF Between
            <3>7. CASE job[j].in  BY <1>1, <2>1, <3>4, <3>5, <3>6, <3>7 DEF Between
            <3>8. CASE ~ job[j].in
                <4>1. stmt \in {"write", "commit", "rollback"}
                    BY <1>6, <3>8 DEF GridGoes
                <4>2. stmt = "write" => InTx(t)
                    BY <1>1, <1>2, <1>6, <3>2, <3>8 DEF GridGoes, Between, Plain, Answered
                <4>3. QED  BY <1>1, <2>1, <3>4, <3>5, <3>6, <3>8, <4>1, <4>2 DEF Between
            <3>9. QED  BY <3>4, <3>7, <3>8
        <2>5. ASSUME NEW i \in Jobs \ {j}
              PROVE  IndicatedAt(i)'
            <3>1. Only(i) => Only(i)' \/ ~ Running(i)'  BY <2>2, OnlyKept
            <3>2. CASE Running(i)'
                BY <1>1, <2>1, <3>1, <3>2, IndicatedKept DEF Indicators, Indicated
            <3>3. CASE ~ Running(i)'  BY <3>3 DEF IndicatedAt
            <3>4. QED  BY <3>2, <3>3
        <2>6. IndicatorHonest'
            BY <1>1, <2>3 DEF Indicators, IndicatorHonest, InTx
        <2>7. QED  BY <2>4, <2>5, <2>6 DEF Indicators, Indicated
    <1>7. QED  BY <1>5, <1>6, GridAnswers

LEMMA IndicatedServe ==
    ASSUME TypeOK, Formed, Closed, Indicators, NEW j \in Jobs, Serve(j)
    PROVE  Indicators'
    <1> DEFINE t == job[j].tab
    <1>1. PICK s \in SessionRecords, r \in SessionRecords, reply \in {"ok", "miss", "err"},
               w \in SUBSET AllWrites : Effect(j, s, r, reply, w) /\ ServedBy(j, s, r, reply, w)
        BY ServeMakes
    <1>2. Running(j) /\ job[j].reply = "none" /\ t \in Tabs
        BY DEF Serve, Asked, Answered, Formed, FormedAt
    <1>3. EffectMakes(j, r, reply, w)  BY <1>1, <1>2, EffectWell
    <1>4. /\ job'[j].kind = job[j].kind /\ job'[j].tab = t /\ job'[j].stmt = job[j].stmt
          /\ job'[j].reply = reply /\ job'[j].in = job[j].in
          /\ \A i \in Jobs \ {j} : job'[i] = job[i] /\ Kept(i)
          /\ session'[t] = r /\ \A u \in Tabs \ {t} : session'[u] = session[u]
          /\ astray \subseteq astray' /\ mark' = mark
        BY <1>3 DEF EffectMakes
    <1>5. NoneStarts /\ Running(j)'  BY <1>2, <1>4 DEF NoneStarts, Running
    <1>6. \A u \in Tabs : RunningIn(u)' = RunningIn(u)
        BY <1>2, <1>4 DEF RunningIn, Running
    <1>7. IndicatedAt(j)'
        <2>1. SUFFICES ASSUME t \notin astray'
                       PROVE  Only(j)' /\ IF job[j].kind = "grid" THEN Between(j)' ELSE Told(j)'
            BY <1>4 DEF IndicatedAt
        <2>2. Only(j) /\ IF job[j].kind = "grid" THEN Between(j) ELSE Told(j)
            BY <1>2, <1>4, <2>1 DEF Indicators, Indicated, IndicatedAt
        <2>3. Only(j)'  BY <1>5, <2>2, OnlyKept
        <2>4. ~ Gone(j)  BY <1>2, <1>4, <2>1 DEF Closed, Gone
        <2>5. s = session[t] /\ Served(j, s, r, reply, w)  BY <1>1, <2>4 DEF ServedBy
        <2>6. (InTx(t) = Tx(s)) /\ (InTx(t)' = Tx(r))
            BY <1>4, <2>5 DEF InTx, Tx
        <2>7. ~ Tx(AutoCommit)  BY AutoSound DEF Tx
        <2>8. CASE job[j].kind = "grid"
            <3>1. job[j].stmt \in (IF job[j].in THEN Inner ELSE Plain)
                BY <2>8 DEF Formed, FormedAt
            <3>2. mark[t] = job[j].in /\ (job[j].in => Tx(s))  BY <2>2, <2>6, <2>8 DEF Between
            <3>3. CASE job[j].in
                <4>1. Tx(r)  BY <2>5, <3>1, <3>2, <3>3 DEF Served
                <4>2. QED  BY <1>4, <2>3, <2>6, <2>8, <3>2, <3>3, <4>1 DEF Between
            <3>4. CASE ~ job[j].in /\ job[j].stmt = "begin"
                <4>1. ~ Tx(s)  BY <1>2, <2>2, <2>6, <2>8, <3>4 DEF Between
                <4>2. reply = "ok" /\ Tx(r)  BY <2>5, <3>4, <4>1 DEF Served, Tx
                <4>3. QED  BY <1>4, <2>3, <2>6, <2>8, <3>2, <3>4, <4>2 DEF Between
            <3>5. CASE ~ job[j].in /\ job[j].stmt = "write"
                <4>1. Tx(s)  BY <2>2, <2>6, <2>8, <3>5 DEF Between
                <4>2. Tx(r)  BY <2>5, <3>5, <4>1 DEF Served, Inner
                <4>3. QED  BY <1>4, <2>3, <2>6, <2>8, <3>2, <3>5, <4>2 DEF Between
            <3>6. CASE ~ job[j].in /\ job[j].stmt \in {"commit", "rollback"}
                <4>1. ~ Tx(r)  BY <2>5, <2>7, <3>6 DEF Served, Ends
                <4>2. QED  BY <1>4, <2>3, <2>6, <2>8, <3>2, <3>6, <4>1 DEF Between
            <3>7. QED  BY <3>1, <3>3, <3>4, <3>5, <3>6 DEF Plain
        <2>9. CASE job[j].kind # "grid"
            <3>1. job[j].stmt \in UserStatements /\ job[j].kind \in {"control", "run"}
                BY <1>2, <2>9, RunningTyped DEF Formed, FormedAt
            <3>2. mark[t] = Tx(s)  BY <1>2, <2>2, <2>6, <2>9 DEF Told
            <3>3. ~ (r = AutoCommit /\ s.tx = "open" /\ (job[j].stmt = "ddl" \/ reply = "err"))
                BY <1>1, <2>1, <2>9 DEF Effect
            <3>4. CASE job[j].stmt = "begin"
                <4>1. IF reply = "ok" THEN Tx(r) ELSE Tx(s) /\ Tx(r)
                    BY <2>5, <3>4 DEF Served, Tx
                <4>2. Told(j)'  BY <1>4, <2>6, <3>2, <3>4, <4>1 DEF Told, Opens, Ends
                <4>3. QED  BY <2>3, <2>9, <4>2
            <3>5. CASE job[j].stmt \in Ends
                <4>1. reply = "ok" /\ ~ Tx(r)  BY <2>5, <2>7, <3>3, <3>5 DEF Served, Ends
                <4>2. Told(j)'  BY <1>4, <2>6, <3>5, <4>1 DEF Told, Opens, Ends
                <4>3. QED  BY <2>3, <2>9, <4>2
            <3>6. CASE job[j].stmt \in {"ddl", "other"}
                <4>1. Tx(r) = Tx(s)  BY <2>5, <3>3, <3>6 DEF Served, Tx
                <4>2. Told(j)'  BY <1>4, <2>6, <3>2, <3>6, <4>1 DEF Told, Opens, Ends
                <4>3. QED  BY <2>3, <2>9, <4>2
            <3>7. QED  BY <3>1, <3>4, <3>5, <3>6 DEF UserStatements, Opens
        <2>10. QED  BY <2>8, <2>9
    <1>8. ASSUME NEW i \in Jobs \ {j}
          PROVE  IndicatedAt(i)'
        <2>1. SUFFICES ASSUME Running(i)', job'[i].tab \notin astray'  PROVE IndicatedAt(i)'
            BY DEF IndicatedAt
        <2>2. Kept(i) /\ Running(i) /\ job'[i].tab = job[i].tab
            BY <1>4, <2>1 DEF Kept, Running
        <2>3. Only(i) /\ job[i].tab \in Tabs
            BY <1>4, <2>1, <2>2 DEF Indicators, Indicated, IndicatedAt, Formed, FormedAt
        <2>4. job[i].tab # t  BY <1>2, <2>3 DEF Only
        <2>5. Only(i)'  BY <1>5, <2>1, <2>3, OnlyKept
        <2>6. QED  BY <1>4, <2>2, <2>3, <2>4, <2>5, IndicatedKept DEF Indicators, Indicated
    <1>9. IndicatorHonest'
        <2>1. SUFFICES ASSUME NEW u \in Tabs, u \notin astray', RunningIn(u)' = {}
                       PROVE  mark'[u] = InTx(u)'
            BY DEF IndicatorHonest
        <2>2. RunningIn(u) = {} /\ u # t  BY <1>2, <1>6, <2>1 DEF RunningIn
        <2>3. QED  BY <1>4, <2>1, <2>2 DEF Indicators, IndicatorHonest, InTx
    <1>10. QED  BY <1>7, <1>8, <1>9 DEF Indicators, Indicated

LEMMA IndicatedLose ==
    ASSUME TypeOK, Formed, Closed, Indicators, NEW t \in Tabs, Lose(t)
    PROVE  Indicators'
    <1>1. LoseMakes(t)  BY LoseWell
    <1>2. astray' = astray \cup {t} /\ mark' = mark  BY DEF Lose
    <1>3. \A i \in Jobs : job'[i].kind = job[i].kind /\ job'[i].tab = job[i].tab
        BY <1>1 DEF LoseMakes
    <1>4. NoneStarts  BY <1>3 DEF NoneStarts, Running
    <1>5. \A u \in Tabs : RunningIn(u)' = RunningIn(u)  BY <1>3 DEF RunningIn, Running
    <1>6. \A u \in Tabs \ {t} : session'[u] = session[u]  BY <1>1 DEF LoseMakes
    <1>7. ASSUME NEW i \in Jobs
          PROVE  IndicatedAt(i)'
        <2>1. SUFFICES ASSUME Running(i)', job'[i].tab \notin astray'  PROVE IndicatedAt(i)'
            BY DEF IndicatedAt
        <2>2. Running(i) /\ job[i].tab \notin astray /\ job[i].tab # t
            BY <1>2, <1>3, <2>1 DEF Running
        <2>3. Kept(i)  BY <1>1, <2>2 DEF LoseMakes, RunningIn
        <2>4. Only(i) /\ job[i].tab \in Tabs
            BY <2>2 DEF Indicators, Indicated, IndicatedAt, Formed, FormedAt
        <2>5. Only(i)'  BY <1>4, <2>1, <2>4, OnlyKept
        <2>6. QED  BY <1>2, <1>6, <2>2, <2>3, <2>4, <2>5, IndicatedKept DEF Indicators, Indicated
    <1>8. IndicatorHonest'
        BY <1>2, <1>5, <1>6 DEF Indicators, IndicatorHonest, InTx
    <1>9. QED  BY <1>7, <1>8 DEF Indicators, Indicated

LEMMA IndicatedStep ==
    ASSUME TypeOK, Formed, Closed, Indicators, [Next]_vars
    PROVE  Indicators'
    <1>1. ASSUME NEW j \in Statements, AnswerControl(j) \/ AnswerRun(j)
          PROVE  Indicators'
        <2>1. Indicated  BY DEF Indicators
        <2>2. QED  BY <1>1, <2>1, UserAnswers, IndicatedEnds DEF Frame
    <1>2. ASSUME UNCHANGED <<mark, job, session, astray>>
          PROVE  Indicators'
        <2>1. \A i \in Jobs : IndicatedAt(i)' <=> IndicatedAt(i)
            BY <1>2 DEF IndicatedAt, Only, Between, Told, InTx, Running
        <2>2. QED
            BY <1>2, <2>1 DEF Indicators, Indicated, IndicatorHonest, RunningIn, Running, InTx
    <1>3. ASSUME NEW t \in Tabs, SwitchTab(t) \/ Lose(t)
          PROVE  Indicators'
        BY <1>2, <1>3, IndicatedLose DEF SwitchTab
    <1>4. QED
        BY <1>1, <1>2, <1>3, IndicatedStart, IndicatedGrid, IndicatedServe, Steps DEF vars

-----------------------------------------------------------------------------
(* The writes of the batches.                                              *)

(* What is served to one job does not touch the writes of another batch.   *)
LEMMA OthersClear ==
    ASSUME NEW j \in Jobs, NEW i \in Batches, i # j, NEW s, NEW r, NEW reply, NEW w,
           ServedBy(j, s, r, reply, w), ClearOf(Writes(i), session[job[j].tab])
    PROVE  ClearOf(Writes(i), r) /\ Writes(i) \cap w = {}
    <1>1. <<j, job[j].row>> \notin Writes(i)  BY DEF Writes
    <1>2. ClearOf(Writes(i), s) /\ ClearOf(Writes(i), AutoCommit)
        BY AutoSound DEF ServedBy
    <1>3. CASE Served(j, s, r, reply, w)  BY <1>1, <1>2, <1>3 DEF Served
    <1>4. CASE r = AutoCommit /\ w = {}  BY <1>2, <1>4
    <1>5. QED  BY <1>3, <1>4 DEF ServedBy

LEMMA ApartKept ==
    ASSUME NEW i \in Batches, Apart(i), Kept(i), UNCHANGED <<session, durable>>
    PROVE  Apart(i)'
    BY DEF Apart, Kept, Running

LEMMA KeptApartStep ==
    ASSUME TypeOK, Formed, Closed, Indicated, KeptApart, [Next]_vars
    PROVE  KeptApart'
    <1> USE DEF KeptApart
    <1>1. ASSUME NEW i \in Batches  PROVE  i \in Jobs  BY DEF Jobs
    <1>2. CASE AnyStart
        <2>1. PICK j \in Jobs, kind \in {"control", "run", "grid"},
                   stmt \in UserStatements \cup GridStatements, in \in BOOLEAN :
                   Starts(j, kind, stmt, in)
            BY <1>2 DEF AnyStart
        <2>2. /\ job[j] = Waiting /\ \A i \in Jobs \ {j} : Kept(i)
              /\ job'[j].kind = kind
            BY <2>1, StartMakes DEF Starts
        <2>3. UNCHANGED <<session, durable>>  BY <2>1 DEF Starts, Start
        <2>4. j \in Batches => Apart(j)'
            BY <2>2, <2>3, WaitingTyped DEF Apart, Running
        <2>5. QED  BY <1>1, <2>2, <2>3, <2>4, ApartKept
    <1>3. ASSUME NEW j \in Jobs, NEW out, EndedMakes(j, out), UNCHANGED <<session, durable>>
          PROVE  KeptApart'
        <2>1. j \in Batches => Apart(j)'  BY <1>3 DEF EndedMakes, Apart, Running
        <2>2. QED  BY <1>1, <1>3, <2>1, ApartKept DEF EndedMakes
    <1>4. ASSUME NEW j \in Statements, AnswerControl(j) \/ AnswerRun(j)
          PROVE  KeptApart'
        BY <1>3, <1>4, UserAnswers DEF Frame
    <1>5. ASSUME NEW j \in Batches, AnswerGrid(j)
          PROVE  KeptApart'
        <2>1. UNCHANGED <<session, durable>> /\ Running(j)  BY <1>5 DEF AnswerGrid
        <2>2. ASSUME NEW stmt \in GridStatements, NEW row \in 1..Rows, GridGoes(j, stmt, row)
              PROVE  KeptApart'
            <3>1. /\ job'[j].kind = job[j].kind /\ job'[j].tab = job[j].tab
                  /\ \A i \in Jobs \ {j} : job'[i] = job[i] /\ Kept(i)
                BY <2>2 DEF GridGoes, GoesMakes
            <3>2. Running(j)' /\ job'[j] # Waiting  BY <2>1, <3>1, WaitingTyped DEF Running
            <3>3. Apart(j)'  BY <2>1, <3>1, <3>2 DEF Apart
            <3>4. QED  BY <1>1, <2>1, <3>1, <3>3, ApartKept
        <2>3. QED  BY <1>1, <1>3, <1>5, <2>1, <2>2, GridAnswers DEF GridEnds
    <1>6. ASSUME NEW j \in Jobs, Serve(j)
          PROVE  KeptApart'
        <2>1. PICK s \in SessionRecords, r \in SessionRecords, reply \in {"ok", "miss", "err"},
                   w \in SUBSET AllWrites : Effect(j, s, r, reply, w) /\ ServedBy(j, s, r, reply, w)
            BY <1>6, ServeMakes
        <2>2. Running(j) /\ job[j].tab \in Tabs  BY <1>6 DEF Serve, Asked, Formed, FormedAt
        <2>3. EffectMakes(j, r, reply, w)  BY <2>1, <2>2, EffectWell
        <2>4. /\ job'[j].kind = job[j].kind /\ job'[j].tab = job[j].tab
              /\ \A i \in Jobs \ {j} : job'[i] = job[i]
              /\ session'[job[j].tab] = r
              /\ \A u \in Tabs \ {job[j].tab} : session'[u] = session[u]
              /\ durable' = durable \cup w
            BY <2>3 DEF EffectMakes
        <2>5. ASSUME j \in Batches
              PROVE  Apart(j)'
            <3>1. Running(j)' /\ job'[j] # Waiting  BY <2>2, <2>4, WaitingTyped DEF Running
            <3>2. QED  BY <2>2, <2>4, <2>5, <3>1 DEF Apart
        <2>6. ASSUME NEW i \in Batches, i # j
              PROVE  Apart(i)'
            <3>1. job'[i] = job[i] /\ (Running(i)' <=> Running(i))
                BY <1>1, <2>4, <2>6 DEF Running
            <3>2. ASSUME ClearOf(Writes(i), session[job[j].tab])
                  PROVE  ClearOf(Writes(i), r) /\ Writes(i) \cap w = {}
                BY <2>1, <2>6, <3>2, OthersClear
            <3>3. QED  BY <2>2, <2>4, <3>1, <3>2 DEF Apart
        <2>7. QED  BY <2>5, <2>6
    <1>7. ASSUME NEW t \in Tabs, Lose(t)
          PROVE  KeptApart'
        <2>1. /\ \A i \in Jobs : /\ job'[i].kind = job[i].kind /\ job'[i].tab = job[i].tab
                                 /\ (job'[i] = Waiting) <=> (job[i] = Waiting)
              /\ \A S : ClearOf(S, session'[t])
              /\ \A u \in Tabs \ {t} : session'[u] = session[u]
            BY <1>7, LoseWell DEF LoseMakes
        <2>2. durable' = durable  BY <1>7 DEF Lose
        <2>3. QED  BY <1>1, <2>1, <2>2 DEF Apart, Running
    <1>8. ASSUME UNCHANGED <<job, session, durable>>
          PROVE  KeptApart'
        BY <1>8 DEF Apart, Running
    <1>9. QED
        BY <1>2, <1>4, <1>5, <1>6, <1>7, <1>8, Steps DEF SwitchTab, vars

(* A batch that a step is not about, in a tab whose session it leaves.     *)
LEMMA BatchedKept ==
    ASSUME NEW b \in Batches, Kept(b), Batched(b), Only(b)',
           session'[job[b].tab] = session[job[b].tab],
           Writes(b) \cap durable' = Writes(b) \cap durable
    PROVE  Batched(b)'
    BY DEF Batched, Stands, Kept

(* The next statement of a batch, before it is served.                     *)
LEMMA StandsGoes ==
    ASSUME NEW j \in Batches, NEW row \in 1..Rows, NEW in \in BOOLEAN, NEW s, NEW d,
           NEW st \in (IF in THEN Inner ELSE Plain), NEW reply \in {"ok", "miss", "err"},
           Stands(j, st, reply, row, in, s, d)
    PROVE  /\ st \in {"begin", "save"} /\ reply = "ok" => Stands(j, "write", "none", row, in, s, d)
           /\ st = "write" /\ reply = "ok" => Stands(j, "write", "none", row + 1, in, s, d)
           /\ st = "write" /\ reply = "ok" /\ row = Rows =>
                 Stands(j, IF in THEN "release" ELSE "commit", "none", row, in, s, d)
           /\ st \in {"write", "release", "commit"} /\ reply # "ok" =>
                 Stands(j, IF in THEN "back" ELSE "rollback", "none", row, in, s, d)
    <1>1. UpTo(j, 1 - 1) = {}
        <2>1. 1 .. 1 - 1 = {}  OBVIOUS
        <2>2. QED  BY <2>1 DEF UpTo
    <1>2. row + 1 - 1 = row  OBVIOUS
    <1>3. UpTo(j, Rows) = Writes(j)  BY DEF UpTo, Writes
    <1>4. CASE st \in {"begin", "save"} /\ reply = "ok"
        BY <1>1, <1>4 DEF Stands, Inner, Plain
    <1>5. CASE st = "write" /\ reply = "ok"
        <2>1. Stands(j, "write", "none", row + 1, in, s, d)
            BY <1>2, <1>5 DEF Stands
        <2>2. row = Rows => Stands(j, IF in THEN "release" ELSE "commit", "none", row, in, s, d)
            BY <1>3, <1>5 DEF Stands
        <2>3. QED  BY <1>5, <2>1, <2>2
    <1>6. CASE st \in {"write", "release", "commit"} /\ reply # "ok"
        BY <1>6 DEF Stands, Inner, Plain
    <1>7. QED  BY <1>4, <1>5, <1>6

(* The statement is served.                                                *)
LEMMA StandsServed ==
    ASSUME TypeOK, Formed, Closed, NEW j \in Batches, job[j].kind = "grid", job[j].reply = "none",
           NEW s, NEW r, NEW reply \in {"ok", "miss", "err"}, NEW w,
           ServedBy(j, s, r, reply, w),
           Stands(j, job[j].stmt, "none", job[j].row, job[j].in, session[job[j].tab], durable)
    PROVE  Stands(j, job[j].stmt, reply, job[j].row, job[j].in, r, durable \cup w)
    <1> DEFINE st == job[j].stmt
               row == job[j].row
               in == job[j].in
               was == session[job[j].tab]
               d == durable \cup w
               write == <<j, row>>
    <1>1. /\ st \in (IF in THEN Inner ELSE Plain) /\ job[j].tab \in Tabs
          /\ row \in 1..Rows /\ in \in BOOLEAN
        <2>1. j \in Jobs /\ Running(j)  BY DEF Jobs, Running
        <2>2. job[j] \in JobRecords  BY <2>1 DEF TypeOK
        <2>3. row \in 1..Rows /\ in \in BOOLEAN  BY <2>2 DEF JobRecords
        <2>4. QED  BY <2>1, <2>3 DEF Formed, FormedAt
    <1>2. Sound(was)  BY <1>1 DEF Closed
    <1>3. ~ Tx(AutoCommit) /\ AutoCommit.held = {} /\ AutoCommit.saves = << >> /\ Len(<< >>) = 0
        BY AutoSound, EmptySeq DEF Tx
    <1>4. Writes(j) \cap durable = {}  BY DEF Stands
    <1>5. write \in Writes(j)  BY <1>1 DEF Writes
    <1>6. CASE Gone(j) /\ r = AutoCommit /\ reply = "err" /\ w = {}
        BY <1>1, <1>3, <1>4, <1>6 DEF Stands, Gone, Tx, Inner, Plain
    <1>7. CASE Gone(j) /\ s = AutoCommit /\ Served(j, s, r, reply, w) /\ st \in {"begin", "save"}
        <2>1. st = "begin" /\ ~ in  BY <1>1, <1>7 DEF Stands, Gone, Tx, Inner, Plain
        <2>2. /\ reply = "ok" /\ r.tx = "open" /\ r.by = "grid"
            BY <1>3, <1>7, <2>1, AutoSound DEF Served, Opener
        <2>3. ClearOf(Writes(j), r) /\ Writes(j) \cap w = {}
            BY <1>7, <2>1, AutoSound DEF Served
        <2>4. row = 1  BY <2>1 DEF Stands
        <2> HIDE DEF st, row, in, was, write
        <2>5. QED
            BY <1>4, <2>1, <2>2, <2>3, <2>4 DEF Stands, ClearOf, st, row, in
    <1>8. CASE ~ Gone(j) /\ s = was /\ Served(j, s, r, reply, w)
        <2>1. /\ Stands(j, st, "none", row, in, s, durable) /\ s.tx # "lost"
              /\ Sound(s) /\ Sound(r) /\ (Tx(s) <=> s.tx # "auto")
            BY <1>2, <1>8 DEF Gone, Served, Tx, Sound, SessionRecords
        <2>2. ClearOf(Writes(j), s) /\ st # "write" => ClearOf(Writes(j), r) /\ Writes(j) \cap w = {}
            BY <1>8 DEF Served
        <2>3. ClearOf(Writes(j), s) <=> Writes(j) \cap s.held = {}
            BY <2>1 DEF Stands, ClearOf
        <2>4. CASE st = "begin"
            <3>1. ~ in /\ ~ Tx(s) /\ row = 1 /\ Writes(j) \cap s.held = {}
                BY <1>1, <2>1, <2>4 DEF Stands, Inner
            <3>2. reply = "ok" /\ r.tx = "open" /\ r.by = "grid"
                BY <1>8, <2>1, <2>4, <3>1 DEF Served, Opener
            <3>3. ClearOf(Writes(j), r) /\ Writes(j) \cap w = {}  BY <2>2, <2>3, <2>4, <3>1
            <3>4. Writes(j) \cap d = {}  BY <1>4, <3>3
            <3> HIDE DEF d
            <3>5. Stands(j, st, reply, row, in, r, d)
                BY <2>4, <3>1, <3>2, <3>3, <3>4 DEF Stands, ClearOf
            <3>6. QED  BY <3>5 DEF d
        <2>5. CASE st = "save"
            <3>1. in /\ Tx(s) /\ row = 1 /\ Writes(j) \cap s.held = {}
                BY <1>1, <2>1, <2>5 DEF Stands, Plain
            <3>2. /\ r.held = s.held /\ w = {}
                  /\ reply = "ok" => r.tx = "open" /\ r.saves # << >>
                BY <1>8, <2>5, <3>1 DEF Served
            <3>3. ClearOf(Writes(j), r)  BY <2>2, <2>3, <2>5, <3>1
            <3>4. d = durable  BY <3>2
            <3>5. Stands(j, st, reply, row, in, r, durable)
                BY <1>4, <2>5, <3>1, <3>2, <3>3 DEF Stands, ClearOf
            <3>6. QED  BY <3>4, <3>5
        <2>6. CASE st = "write"
            <3>1. s.tx = "open" /\ Writes(j) \cap s.held = UpTo(j, row - 1)
                BY <2>1, <2>6 DEF Stands
            <3>2. /\ w = {} /\ r.saves = s.saves /\ r.by = s.by
                  /\ reply = "ok" => r.tx = "open" /\ r.held = s.held \cup {write}
                BY <1>8, <2>6, <3>1 DEF Served, Inner
            <3>3. UpTo(j, row - 1) \cup {write} = UpTo(j, row)
                <4>1. 1 .. row = (1 .. row - 1) \cup {row}  BY <1>1, RowsAssumption
                <4> HIDE DEF row
                <4>2. QED  BY <4>1 DEF UpTo
            <3>4. reply = "ok" => Writes(j) \cap r.held = UpTo(j, row)
                <4>1. reply = "ok" => Writes(j) \cap r.held = (Writes(j) \cap s.held) \cup {write}
                    BY <1>5, <3>2
                <4>2. QED  BY <3>1, <3>3, <4>1
            <3>5. /\ \A i \in 1..Len(s.saves) : Writes(j) \cap s.saves[i] = {}
                  /\ in => s.saves # << >>
                  /\ ~ in => s.by = "grid"
                BY <2>1, <2>6, <3>1 DEF Stands, Tx
            <3>6. d = durable  BY <3>2
            <3> HIDE DEF row, st, in, write
            <3>7. Stands(j, st, reply, row, in, r, durable)
                BY <1>4, <2>6, <3>2, <3>4, <3>5 DEF Stands
            <3>8. QED  BY <3>6, <3>7 DEF row, st, in
        <2>7. CASE st = "release"
            <3>1. /\ in /\ s.tx = "open" /\ Writes(j) \cap s.held = Writes(j) /\ s.saves # << >>
                  /\ \A i \in 1..Len(s.saves) : Writes(j) \cap s.saves[i] = {}
                BY <1>1, <2>1, <2>7 DEF Stands, Tx, Plain
            <3>2. /\ reply = "ok" /\ w = {} /\ r.held = s.held
                  /\ \A i \in 1..Len(r.saves) : \E k \in 1..Len(s.saves) : r.saves[i] = s.saves[k]
                BY <1>8, <2>7, <3>1 DEF Served
            <3>3. \A i \in 1..Len(r.saves) : Writes(j) \cap r.saves[i] = {}  BY <3>1, <3>2
            <3>4. d = durable  BY <3>2
            <3>5. Stands(j, st, reply, row, in, r, durable)
                BY <1>4, <2>7, <3>1, <3>2, <3>3 DEF Stands
            <3>6. QED  BY <3>4, <3>5
        <2>8. CASE st = "back"
            <3>1. /\ in
                  /\ Tx(s) => s.saves # << >>
                  /\ \A i \in 1..Len(s.saves) : Writes(j) \cap s.saves[i] = {}
                BY <1>1, <2>1, <2>8 DEF Stands, Plain
            <3>2. /\ w = {} /\ (Tx(r) <=> Tx(s))
                  /\ Tx(s) => r.held = Last(s.saves)
                  /\ \A i \in 1..Len(r.saves) : \E k \in 1..Len(s.saves) : r.saves[i] = s.saves[k]
                BY <1>8, <2>8, <3>1 DEF Served, Inner
            <3>3. \A i \in 1..Len(r.saves) : Writes(j) \cap r.saves[i] = {}  BY <3>1, <3>2
            <3>4. Writes(j) \cap r.held = {}
                <4>1. CASE Tx(s)
                    <5>1. \E k \in 1..Len(s.saves) : Last(s.saves) = s.saves[k]
                        BY <2>1, <3>1, <4>1, HeldTyped, SavesLast
                    <5>2. QED  BY <3>1, <3>2, <4>1, <5>1
                <4>2. CASE ~ Tx(s)  BY <2>1, <3>2, <4>2 DEF Sound
                <4>3. QED  BY <4>1, <4>2
            <3>5. d = durable  BY <3>2
            <3>6. Stands(j, st, reply, row, in, r, durable)
                BY <1>4, <2>8, <3>1, <3>3, <3>4 DEF Stands
            <3>7. QED  BY <3>5, <3>6
        <2>9. CASE st = "commit"
            <3>1. /\ ~ in /\ s.tx = "open" /\ Writes(j) \cap s.held = Writes(j)
                BY <1>1, <2>1, <2>9 DEF Stands, Inner
            <3>2. /\ r = AutoCommit
                  /\ reply = "ok" => w = s.held
                  /\ reply # "ok" => w = {}
                BY <1>8, <2>9, <3>1 DEF Served, Ends
            <3>3. Writes(j) \cap d = IF reply = "ok" THEN Writes(j) ELSE {}
                BY <1>4, <3>1, <3>2
            <3> HIDE DEF d
            <3>4. Stands(j, st, reply, row, in, r, d)
                BY <1>3, <2>9, <3>1, <3>2, <3>3 DEF Stands
            <3>5. QED  BY <3>4 DEF d
        <2>10. CASE st = "rollback"
            <3>1. ~ in /\ r = AutoCommit /\ w = {}
                BY <1>1, <1>8, <2>10 DEF Served, Ends, Inner
            <3>2. d = durable  BY <3>1
            <3>3. Stands(j, st, reply, row, in, r, durable)
                BY <1>3, <1>4, <2>10, <3>1 DEF Stands
            <3>4. QED  BY <3>2, <3>3
        <2>11. QED
            BY <1>1, <2>4, <2>5, <2>6, <2>7, <2>8, <2>9, <2>10 DEF Inner, Plain
    <1>9. QED
        BY <1>6, <1>7, <1>8, <1>1 DEF ServedBy, Inner, Plain, GridStatements

LEMMA BatchStart ==
    ASSUME TypeOK, Formed, Closed, KeptApart, BatchInv, AnyStart
    PROVE  BatchInv'
    <1>1. PICK j \in Jobs, kind \in {"control", "run", "grid"},
               stmt \in UserStatements \cup GridStatements, in \in BOOLEAN :
               Starts(j, kind, stmt, in)
        BY DEF AnyStart
    <1>2. /\ job[j] = Waiting /\ \A i \in Jobs \ {j} : Kept(i)
          /\ \A i \in Jobs \ {j} : Running(i) /\ job[i].tab = active => ~ job'[i].alone
          /\ job'[j].kind = kind /\ job'[j].tab = active /\ job'[j].stmt = stmt
          /\ job'[j].reply = "none" /\ job'[j].in = in /\ job'[j].row = 1
          /\ job'[j].alone => RunningIn(active) = {}
          /\ job'[j].right => shown = InTx(active)
        BY <1>1, StartMakes DEF Starts
    <1>3. UNCHANGED <<session, durable>> /\ active \in Tabs /\ shown \in BOOLEAN
        BY <1>1 DEF Starts, Start, TypeOK
    <1>4. ASSUME NEW b \in Batches, b # j, Lone(b)'
          PROVE  Batched(b)'
        <2>1. b \in Jobs /\ Kept(b)  BY <1>2, <1>4 DEF Jobs
        <2>2. Lone(b) /\ Running(b) /\ Batched(b)
            BY <1>4, <2>1 DEF Lone, Kept, BatchInv, Running
        <2>3. job[b].tab # active  BY <1>2, <1>4, <2>1, <2>2 DEF Lone
        <2>4. Only(b)'
            BY <1>2, <2>1, <2>2, <2>3 DEF Only, Batched, Kept, Running
        <2>5. QED  BY <1>3, <2>1, <2>2, <2>4, BatchedKept
    <1>5. ASSUME j \in Batches, Lone(j)'
          PROVE  Batched(j)'
        <2>1. /\ kind = "grid" /\ in = shown /\ stmt = (IF shown THEN "save" ELSE "begin")
              /\ RunningIn(active) = {} /\ shown = InTx(active)
            BY <1>1, <1>2, <1>5 DEF Lone, Starts
        <2>2. Only(j)'  BY <1>2, <2>1 DEF Only, RunningIn, Kept, Running
        <2>3. Writes(j) \cap durable = {} /\ ClearOf(Writes(j), session[active])
            BY <1>2, <1>3, <1>5 DEF KeptApart, Apart
        <2>4. in = Tx(session[active])  BY <2>1 DEF InTx, Tx
        <2>5. Stands(j, stmt, "none", 1, in, session[active], durable)
            BY <2>1, <2>3, <2>4 DEF Stands, ClearOf
        <2>6. QED  BY <1>2, <1>3, <2>2, <2>5 DEF Batched
    <1>6. QED  BY <1>4, <1>5 DEF BatchInv

LEMMA BatchGrid ==
    ASSUME TypeOK, Formed, Closed, BatchInv, NEW j \in Batches, AnswerGrid(j)
    PROVE  BatchInv'
    <1>1. /\ j \in Jobs /\ Running(j) /\ job[j].kind = "grid" /\ Answered(j)
          /\ UNCHANGED <<session, durable>>
        BY DEF AnswerGrid, Jobs
    <1>2. ASSUME NoneStarts, NEW b \in Batches, b # j, Kept(b), Lone(b)'
          PROVE  Batched(b)'
        <2>1. b \in Jobs /\ Lone(b) /\ Running(b)' /\ Batched(b)
            BY <1>2 DEF Lone, Kept, BatchInv, Running, Jobs
        <2>2. Only(b)'  BY <1>2, <2>1, OnlyKept DEF Batched
        <2>3. QED  BY <1>1, <1>2, <2>1, <2>2, BatchedKept
    <1>3. ASSUME NEW out, GridEnds(j, out)
          PROVE  BatchInv'
        <2>1. job'[j].kind = "none" /\ \A i \in Jobs \ {j} : job'[i] = job[i] /\ Kept(i)
            BY <1>3 DEF GridEnds, EndedMakes
        <2>2. NoneStarts  BY <2>1 DEF NoneStarts, Running
        <2>3. ~ Lone(j)'  BY <2>1 DEF Lone
        <2>4. QED  BY <1>2, <2>1, <2>2, <2>3 DEF BatchInv, Jobs
    <1>4. ASSUME NEW stmt, NEW row, GridGoes(j, stmt, row)
          PROVE  BatchInv'
        <2>1. /\ job'[j].kind = job[j].kind /\ job'[j].tab = job[j].tab /\ job'[j].stmt = stmt
              /\ job'[j].reply = "none" /\ job'[j].in = job[j].in /\ job'[j].row = row
              /\ job'[j].alone = job[j].alone /\ job'[j].right = job[j].right
              /\ \A i \in Jobs \ {j} : job'[i] = job[i] /\ Kept(i)
            BY <1>4 DEF GridGoes, GoesMakes
        <2>2. NoneStarts /\ Running(j)'  BY <1>1, <2>1 DEF NoneStarts, Running
        <2>3. ASSUME Lone(j)'
              PROVE  Batched(j)'
            <3> DEFINE s == session[job[j].tab]
            <3>1. Batched(j)  BY <2>1, <2>3 DEF Lone, BatchInv
            <3>2. Only(j)'  BY <1>1, <2>2, <3>1, OnlyKept DEF Batched
            <3>3. job[j] \in JobRecords  BY <1>1 DEF TypeOK
            <3>4. /\ job[j].row \in 1..Rows /\ job[j].in \in BOOLEAN
                  /\ job[j].reply \in {"ok", "miss", "err"}
                  /\ job[j].stmt \in (IF job[j].in THEN Inner ELSE Plain)
                BY <1>1, <3>3 DEF JobRecords, Answered, Formed, FormedAt
            <3>5. Stands(j, job[j].stmt, job[j].reply, job[j].row, job[j].in, s, durable)
                BY <3>1 DEF Batched
            <3> HIDE DEF s
            <3>6. Stands(j, stmt, "none", row, job[j].in, s, durable)
                BY <1>4, <3>4, <3>5, StandsGoes DEF GridGoes
            <3>7. QED  BY <1>1, <2>1, <3>2, <3>6 DEF Batched, s
        <2>4. QED  BY <1>2, <2>1, <2>2, <2>3 DEF BatchInv, Jobs
    <1>5. QED  BY <1>3, <1>4, GridAnswers

LEMMA BatchServe ==
    ASSUME TypeOK, Formed, Closed, KeptApart, BatchInv, NEW j \in Jobs, Serve(j)
    PROVE  BatchInv'
    <1> DEFINE t == job[j].tab
    <1>1. PICK s \in SessionRecords, r \in SessionRecords, reply \in {"ok", "miss", "err"},
               w \in SUBSET AllWrites : Effect(j, s, r, reply, w) /\ ServedBy(j, s, r, reply, w)
        BY ServeMakes
    <1>2. Running(j) /\ job[j].reply = "none" /\ t \in Tabs
        BY DEF Serve, Asked, Answered, Formed, FormedAt
    <1>3. EffectMakes(j, r, reply, w)  BY <1>1, <1>2, EffectWell
    <1>4. /\ job'[j].kind = job[j].kind /\ job'[j].tab = t /\ job'[j].stmt = job[j].stmt
          /\ job'[j].reply = reply /\ job'[j].in = job[j].in /\ job'[j].row = job[j].row
          /\ job'[j].alone = job[j].alone /\ job'[j].right = job[j].right
          /\ \A i \in Jobs \ {j} : job'[i] = job[i] /\ Kept(i)
          /\ session'[t] = r /\ \A u \in Tabs \ {t} : session'[u] = session[u]
          /\ durable' = durable \cup w
        BY <1>3 DEF EffectMakes
    <1>5. NoneStarts /\ Running(j)'  BY <1>2, <1>4 DEF NoneStarts, Running
    <1>6. ASSUME NEW b \in Batches, b # j, Lone(b)'
          PROVE  Batched(b)'
        <2>1. b \in Jobs /\ Kept(b) /\ job'[b] = job[b]  BY <1>4, <1>6 DEF Jobs
        <2>2. Lone(b) /\ Running(b) /\ Running(b)' /\ Batched(b)
            BY <1>6, <2>1 DEF Lone, BatchInv, Running
        <2>3. job[b].tab \in Tabs /\ job[b].tab # t
            BY <1>2, <1>6, <2>1, <2>2 DEF Batched, Only, Formed, FormedAt
        <2>4. Writes(b) \cap w = {}
            BY <1>1, <1>2, <1>6, <2>2, <2>3, OthersClear DEF KeptApart, Apart
        <2>5. Only(b)'  BY <1>5, <2>1, <2>2, OnlyKept DEF Batched
        <2>6. Writes(b) \cap durable' = Writes(b) \cap durable  BY <1>4, <2>4
        <2>7. QED  BY <1>4, <2>1, <2>2, <2>3, <2>5, <2>6, BatchedKept
    <1>7. ASSUME j \in Batches, Lone(j)'
          PROVE  Batched(j)'
        <2>1. Lone(j) /\ Batched(j)  BY <1>4, <1>7 DEF Lone, BatchInv
        <2>2. Only(j)'  BY <1>5, <2>1, OnlyKept DEF Batched
        <2>3. Stands(j, job[j].stmt, "none", job[j].row, job[j].in, session[t], durable)
            BY <1>2, <2>1 DEF Batched
        <2>4. Stands(j, job[j].stmt, reply, job[j].row, job[j].in, r, durable \cup w)
            BY <1>1, <1>2, <1>7, <2>1, <2>3, StandsServed DEF Lone
        <2>5. QED  BY <1>4, <2>2, <2>4 DEF Batched
    <1>8. QED  BY <1>6, <1>7 DEF BatchInv

LEMMA BatchLose ==
    ASSUME TypeOK, Formed, Closed, BatchInv, NEW t \in Tabs, Lose(t)
    PROVE  BatchInv'
    <1>1. LoseMakes(t) /\ durable' = durable  BY LoseWell DEF Lose
    <1>2. NoneStarts  BY <1>1 DEF LoseMakes, NoneStarts, Running
    <1>3. SUFFICES ASSUME NEW b \in Batches, Lone(b)'  PROVE  Batched(b)'
        BY DEF BatchInv
    <1>4. b \in Jobs  BY DEF Jobs
    <1>5. Running(b) /\ Running(b)' /\ job[b].kind = "grid" /\ job[b].tab \in Tabs
        BY <1>1, <1>3, <1>4 DEF LoseMakes, Lone, Running, Formed, FormedAt
    <1>6. CASE job[b].tab # t
        <2>1. Kept(b)  BY <1>1, <1>4, <1>6 DEF LoseMakes, RunningIn
        <2>2. Batched(b)  BY <1>3, <2>1 DEF Lone, Kept, BatchInv
        <2>3. Only(b)'  BY <1>2, <1>4, <1>5, <2>2, OnlyKept DEF Batched
        <2>4. session'[job[b].tab] = session[job[b].tab]  BY <1>1, <1>5, <1>6 DEF LoseMakes
        <2>5. QED  BY <1>1, <2>1, <2>2, <2>3, <2>4, BatchedKept
    <1>7. CASE job[b].tab = t
        <2> DEFINE r == session'[t]
        <2>1. b \in RunningIn(t)  BY <1>4, <1>5, <1>7 DEF RunningIn
        <2>2. ~ Answered(b) /\ Kept(b) /\ job[b].stmt # "save"
            BY <1>1, <1>3, <2>1 DEF LoseMakes, Lone
        <2>3. Batched(b)  BY <1>3, <2>2 DEF Lone, Kept, BatchInv
        <2>4. Only(b)'  BY <1>2, <1>4, <1>5, <2>3, OnlyKept DEF Batched
        <2>5. r.tx = "lost" /\ ~ Tx(r) /\ ClearOf(Writes(b), r)
            BY <1>1 DEF LoseMakes, Tx
        <2>6. Stands(b, job[b].stmt, "none", job[b].row, job[b].in, session[t], durable)
            BY <1>7, <2>2, <2>3 DEF Batched, Answered
        <2> HIDE DEF r
        <2>7. Stands(b, job[b].stmt, "none", job[b].row, job[b].in, r, durable)
            BY <2>2, <2>5, <2>6 DEF Stands, ClearOf
        <2>8. QED  BY <1>1, <1>7, <2>2, <2>4, <2>7 DEF Batched, Kept, Answered, r
    <1>8. QED  BY <1>6, <1>7

LEMMA BatchStep ==
    ASSUME TypeOK, Formed, Closed, Indicated, KeptApart, BatchInv, [Next]_vars
    PROVE  BatchInv'
    <1>1. ASSUME NEW j \in Statements, AnswerControl(j) \/ AnswerRun(j)
          PROVE  BatchInv'
        <2>1. EndedMakes(j, "done") /\ UNCHANGED <<session, durable>> /\ j \in Jobs
              /\ job[j].kind # "grid"
            BY <1>1, UserAnswers DEF Frame
        <2>2. job'[j].kind = "none" /\ \A i \in Jobs \ {j} : job'[i] = job[i] /\ Kept(i)
            BY <2>1 DEF EndedMakes
        <2>3. NoneStarts  BY <2>2 DEF NoneStarts, Running
        <2>4. ASSUME NEW b \in Batches, Lone(b)'
              PROVE  Batched(b)'
            <3>1. b \in Jobs /\ b # j /\ Kept(b)  BY <2>2, <2>4 DEF Lone, Jobs
            <3>2. Lone(b) /\ Running(b)' /\ Batched(b)
                BY <2>4, <3>1 DEF Lone, Kept, BatchInv, Running
            <3>3. Only(b)'  BY <2>3, <3>1, <3>2, OnlyKept DEF Batched
            <3>4. QED  BY <2>1, <3>1, <3>2, <3>3, BatchedKept
        <2>5. QED  BY <2>4 DEF BatchInv
    <1>2. ASSUME UNCHANGED <<job, session, durable>>
          PROVE  BatchInv'
        BY <1>2 DEF BatchInv, Lone, Batched, Only, Running
    <1>3. QED
        BY <1>1, <1>2, BatchStart, BatchGrid, BatchServe, BatchLose, Steps DEF SwitchTab, vars

-----------------------------------------------------------------------------
LEMMA GridStarts ==
    ASSUME Init
    PROVE  GridInv
    <1>1. \A j \in Jobs : job[j] = Waiting /\ ~ Running(j)
        BY WaitingTyped DEF Init, Running
    <1>2. \A t \in Tabs : session[t] = AutoCommit  BY DEF Init
    <1>3. AutoCommit \in SessionRecords  BY AutoSound DEF Sound
    <1>4. TypeOK
        <2>1. mark \in [Tabs -> BOOLEAN] /\ shown = mark[active] /\ active \in Tabs
            BY DEF Init
        <2>2. job \in [Jobs -> JobRecords] /\ session \in [Tabs -> SessionRecords]
            BY <1>3, WaitingTyped DEF Init
        <2>3. QED  BY <2>1, <2>2, LossesAssumption DEF Init, TypeOK
    <1>5. Formed  BY <1>1, WaitingTyped DEF Formed, FormedAt
    <1>6. Closed  BY <1>2, AutoSound DEF Closed
    <1>7. Indicated  BY <1>1 DEF Indicated, IndicatedAt
    <1>8. IndicatorHonest
        <2>1. \A t \in Tabs : mark[t] = FALSE /\ InTx(t) = FALSE
            BY <1>2, AutoSound DEF Init, InTx
        <2>2. QED  BY <2>1 DEF IndicatorHonest
    <1>9. KeptApart  BY <1>2, AutoSound DEF Init, KeptApart, Apart
    <1>10. BatchInv  BY <1>1, WaitingTyped DEF BatchInv, Lone, Jobs
    <1>11. QED  BY <1>4, <1>5, <1>6, <1>7, <1>8, <1>9, <1>10 DEF GridInv

(* At any time the jobs are where their statements say, and nothing of a   *)
(* batch is where it should not be.                                        *)
THEOREM GridSafety == Spec => []GridInv
    <1>1. GridInv /\ [Next]_vars => GridInv'
        <2>1. SUFFICES ASSUME GridInv, [Next]_vars  PROVE  GridInv'
            OBVIOUS
        <2>2. TypeOK /\ Formed /\ Closed /\ Indicators /\ Indicated /\ KeptApart /\ BatchInv
            BY <2>1 DEF GridInv, Indicators
        <2>3. TypeOK' /\ Formed' /\ Closed'
            BY <2>1, <2>2, TypeStep, FormedStep, ClosedStep
        <2>4. Indicators' /\ KeptApart' /\ BatchInv'
            BY <2>1, <2>2, IndicatedStep, KeptApartStep, BatchStep
        <2>5. QED  BY <2>3, <2>4 DEF GridInv, Indicators
    <1>2. QED  BY <1>1, GridStarts, PTL DEF Spec

(* IndicatorHonest: in a tab that rests the toolbar shows a transaction    *)
(* exactly when the server has one open, unless jobs overlapped in it, an  *)
(* answer came while another tab was active, the connection was lost, or   *)
(* the server ended the transaction on its own.                            *)
THEOREM IndicatorIsHonest == Spec => []IndicatorHonest
    <1>1. GridInv => IndicatorHonest  BY DEF GridInv
    <1>2. QED  BY <1>1, GridSafety, PTL

(* Only the answer to its last statement gives a batch an outcome.         *)
LEMMA OutcomeFromAnswer ==
    ASSUME GridInv, [Next]_vars, NEW j \in Batches, Running(j), job[j].kind = "grid",
           job'[j].out # "pending"
    PROVE  /\ UNCHANGED <<session, durable>> /\ Answered(j)
           /\ \E out \in {"saved", "failed"} : GridEnds(j, out) /\ job'[j].out = out
    <1> USE DEF GridInv
    <1>1. j \in Jobs /\ job[j].out = "pending" /\ job[j].tab \in Tabs
        BY DEF Jobs, Formed, FormedAt
    <1>2. job'[j].out # job[j].out /\ ~ Kept(j)  BY <1>1 DEF Kept
    <1>3. ASSUME AnyStart  PROVE FALSE
        <2>1. PICK i \in Jobs, kind \in {"control", "run", "grid"},
                   stmt \in UserStatements \cup GridStatements, in \in BOOLEAN :
                   Starts(i, kind, stmt, in)
            BY <1>3 DEF AnyStart
        <2>2. job[i] = Waiting /\ \A k \in Jobs \ {i} : Kept(k)
            BY <2>1, StartMakes DEF Starts
        <2>3. i # j  BY <2>2, WaitingTyped DEF Running
        <2>4. QED  BY <1>1, <1>2, <2>2, <2>3
    <1>4. ASSUME NEW i \in Statements, AnswerControl(i) \/ AnswerRun(i)  PROVE  FALSE
        BY <1>1, <1>2, <1>4, UserAnswers DEF EndedMakes
    <1>5. ASSUME NEW i \in Jobs, Serve(i)  PROVE  FALSE
        <2>1. PICK s \in SessionRecords, r \in SessionRecords, reply \in {"ok", "miss", "err"},
                   w \in SUBSET AllWrites : Effect(i, s, r, reply, w)
            BY <1>5, ServeMakes
        <2>2. job[i].tab \in Tabs  BY <1>5 DEF Serve, Asked, Formed, FormedAt
        <2>3. EffectMakes(i, r, reply, w)  BY <2>1, <2>2, EffectWell
        <2>4. QED  BY <1>1, <1>2, <2>3 DEF EffectMakes
    <1>6. ASSUME NEW t \in Tabs, SwitchTab(t) \/ Lose(t)  PROVE  FALSE
        BY <1>1, <1>2, <1>6, LoseWell DEF LoseMakes, SwitchTab
    <1>7. PICK i \in Batches : AnswerGrid(i)
        BY <1>2, <1>3, <1>4, <1>5, <1>6, Steps DEF vars
    <1>8. UNCHANGED <<session, durable>> /\ Answered(i)  BY <1>7 DEF AnswerGrid
    <1>9. ASSUME NEW stmt, NEW row, GridGoes(i, stmt, row)  PROVE  FALSE
        BY <1>1, <1>2, <1>9 DEF GridGoes, GoesMakes
    <1>10. PICK out \in {"saved", "failed"} : GridEnds(i, out)  BY <1>7, <1>9, GridAnswers
    <1>11. i = j  BY <1>1, <1>2, <1>10 DEF GridEnds, EndedMakes
    <1>12. QED  BY <1>8, <1>10, <1>11 DEF GridEnds, EndedMakes

(* BatchIsWhole: a batch of the grid that had its tab for itself is saved  *)
(* whole or not at all, whatever the server answers to its statements.     *)
THEOREM BatchesAreWhole == Spec => BatchIsWhole
    <1> DEFINE A == \A j \in Batches : job[j].kind = "grid" /\ job[j].alone /\ job[j].right /\ Running(j) =>
                        /\ job'[j].out = "failed" => Left(j) = {}
                        /\ job'[j].out = "saved" => Left(j) = Writes(j)
    <1>1. GridInv /\ [Next]_vars => [A]_vars
        <2>1. SUFFICES ASSUME GridInv, [Next]_vars, NEW j \in Batches, Lone(j), Running(j),
                              job'[j].out \in {"failed", "saved"}
                       PROVE  /\ job'[j].out = "failed" => Left(j) = {}
                              /\ job'[j].out = "saved" => Left(j) = Writes(j)
            BY DEF Lone
        <2>2. job[j].kind = "grid"  BY <2>1 DEF Lone
        <2>3. PICK out \in {"saved", "failed"} : GridEnds(j, out) /\ job'[j].out = out
            BY <2>1, <2>2, OutcomeFromAnswer
        <2> DEFINE s == session[job[j].tab]
        <2>4. Stands(j, job[j].stmt, job[j].reply, job[j].row, job[j].in, s, durable)
            BY <2>1 DEF GridInv, BatchInv, Batched
        <2>5. /\ Answered(j) /\ durable' = durable /\ session' = session
              /\ job[j].stmt \in (IF job[j].in THEN Inner ELSE Plain)
            BY <2>1, <2>2, OutcomeFromAnswer DEF GridInv, Formed, FormedAt, Jobs
        <2>6. Left(j) = Writes(j) \cap (durable \cup s.held)
            BY <2>5 DEF Left
        <2>7. CASE out = "failed"
            <3>1. Writes(j) \cap durable = {} /\ Writes(j) \cap s.held = {}
                BY <2>3, <2>4, <2>5, <2>7 DEF GridEnds, Stands, Answered
            <3>2. QED  BY <2>3, <2>6, <2>7, <3>1
        <2>8. CASE out = "saved"
            <3>1. Writes(j) \cap durable = Writes(j) \/ Writes(j) \cap s.held = Writes(j)
                BY <2>3, <2>4, <2>8 DEF GridEnds, Stands
            <3>2. QED  BY <2>3, <2>6, <2>8, <3>1
        <2>9. QED  BY <2>7, <2>8
    <1>2. BatchIsWhole <=> [][A]_vars  BY DEF BatchIsWhole
    <1> HIDE DEF A
    <1>3. QED  BY <1>1, <1>2, GridSafety, PTL DEF Spec

(* TransactionKept: no statement of a batch that had its tab for itself    *)
(* ends a transaction that the user has opened there.                      *)
THEOREM TransactionsKept == Spec => TransactionKept
    <1> DEFINE A == \A j \in Batches : job[j].alone /\ job[j].right => ~ EndsUsers(j)
    <1>1. GridInv /\ [Next]_vars => [A]_vars
        <2> SUFFICES ASSUME GridInv, [Next]_vars, NEW j \in Batches,
                            job[j].alone, job[j].right, EndsUsers(j)
                     PROVE  FALSE
            OBVIOUS
        <2> DEFINE t == job[j].tab
        <2> USE DEF GridInv
        <2>1. /\ j \in Jobs /\ Running(j) /\ job[j].kind = "grid" /\ job[j].reply = "none"
              /\ Answered(j)' /\ InTx(t) /\ session[t].by = "user" /\ t \in Tabs
            BY DEF EndsUsers, Asked, Answered, Jobs, Formed, FormedAt
        <2>2. job'[j].reply # job[j].reply /\ ~ Kept(j)  BY <2>1 DEF Answered, Kept
        <2>3. job[j].in /\ job[j].stmt \in Inner
            <3>1. Stands(j, job[j].stmt, job[j].reply, job[j].row, job[j].in, session[t], durable)
                BY <2>1 DEF BatchInv, Lone, Batched
            <3>2. job[j].in  BY <2>1, <3>1 DEF Stands, Tx, InTx
            <3>3. QED  BY <2>1, <3>2 DEF Formed, FormedAt
        <2>4. ASSUME AnyStart  PROVE FALSE
            <3>1. PICK i \in Jobs, kind \in {"control", "run", "grid"},
                       stmt \in UserStatements \cup GridStatements, in \in BOOLEAN :
                       Starts(i, kind, stmt, in)
                BY <2>4 DEF AnyStart
            <3>2. job[i] = Waiting /\ \A k \in Jobs \ {i} : Kept(k)
                BY <3>1, StartMakes DEF Starts
            <3>3. i # j  BY <2>1, <3>2, WaitingTyped DEF Running
            <3>4. QED  BY <2>1, <2>2, <3>2, <3>3
        <2>5. ASSUME NEW i \in Statements, AnswerControl(i) \/ AnswerRun(i)  PROVE  FALSE
            BY <2>1, <2>2, <2>5, UserAnswers DEF EndedMakes
        <2>6. ASSUME NEW i \in Batches, AnswerGrid(i)  PROVE  FALSE
            <3>1. Answered(i) /\ i # j  BY <2>1, <2>6 DEF AnswerGrid, Answered
            <3>2. QED
                BY <2>1, <2>2, <2>6, <3>1, GridAnswers
                DEF GridGoes, GridEnds, GoesMakes, EndedMakes
        <2>7. ASSUME NEW u \in Tabs, SwitchTab(u) \/ Lose(u)  PROVE  FALSE
            <3>1. CASE SwitchTab(u)  BY <2>2, <3>1 DEF SwitchTab
            <3>2. CASE Lose(u)
                <4>1. LoseMakes(u)  BY <3>2, LoseWell
                <4>2. QED  BY <2>1, <4>1 DEF LoseMakes, Answered
            <3>3. QED  BY <2>7, <3>1, <3>2
        <2>8. PICK i \in Jobs : Serve(i)
            BY <2>2, <2>4, <2>5, <2>6, <2>7, Steps DEF vars
        <2>9. PICK s \in SessionRecords, r \in SessionRecords, reply \in {"ok", "miss", "err"},
                    w \in SUBSET AllWrites : Effect(i, s, r, reply, w) /\ ServedBy(i, s, r, reply, w)
            BY <2>8, ServeMakes
        <2>10. job[i].tab \in Tabs  BY <2>8 DEF Serve, Asked, Formed, FormedAt
        <2>11. EffectMakes(i, r, reply, w)  BY <2>9, <2>10, EffectWell
        <2>12. i = j /\ session'[t] = r  BY <2>1, <2>2, <2>11 DEF EffectMakes
        <2>13. s = session[t] /\ Served(j, s, r, reply, w)
            BY <2>1, <2>9, <2>12 DEF ServedBy, Gone, InTx
        <2>14. Tx(r) /\ r.by = "user"  BY <2>1, <2>3, <2>13 DEF Served, InTx, Tx
        <2>15. QED  BY <2>12, <2>14 DEF EndsUsers, Tx
    <1>2. TransactionKept <=> [][A]_vars  BY DEF TransactionKept
    <1> HIDE DEF A
    <1>3. QED  BY <1>1, <1>2, GridSafety, PTL DEF Spec
=============================================================================
