----------------------------- MODULE MultiQuery -----------------------------
(***************************************************************************)
(* The dialog that runs a query on many databases: the lists of databases  *)
(* it fetches, the targets that are selected from them, and the runs, each *)
(* with a few workers that take targets from one queue.                    *)
(*                                                                         *)
(* The component stays mounted while the dialog is closed, so that answers *)
(* arrive in a later visit, and nothing but the button keeps a second run  *)
(* from starting while one is under way: Ctrl+Enter and a saved query do   *)
(* not ask.  A row of the results is known by its connection and database  *)
(* only.  `mixed` holds the runs that another one, or a new visit, has met *)
(* under way.                                                              *)
(***************************************************************************)
EXTENDS Naturals, FiniteSets, Functions

CONSTANTS
    Nodes,          \* connections
    Schemas,        \* the databases of each
    Default,        \* the database a connection is saved with
    Width,          \* workers of a run
    Rounds,         \* identities of runs
    Requests,       \* identities of requests for a list
    MaxLength,      \* bound: statements for one target
    MaxVisits,      \* bound: times the dialog is opened
    MaxActs,        \* bound: acts of the user, and lists that cannot be had
    Nil

ASSUME MultiAssumption ==
    /\ IsFiniteSet(Nodes) /\ IsFiniteSet(Schemas)
    /\ Default \in Schemas /\ Width \in Nat \ {0} /\ Nil \notin Requests \cup Rounds

VARIABLES
    visit, open,    \* visits so far, and whether one is going on
    chosen,         \* selectedTargets
    lists,          \* availableDatabases
    known,          \* dbListRequestsRef: the request for each connection
    request,        \* the requests: connection, visit, list (empty while awaited)
    waiting,        \* what waits for lists: a checkbox, or Select All
    rows,           \* results: the answer shown for each target
    round,          \* the runs
    isExecuting, selecting,
    mixed, acts

listVars == <<lists, known, request>>
multiVars == <<visit, open, chosen, listVars, waiting, rows, round, isExecuting, selecting, mixed, acts>>

Targets == Nodes \X Schemas
Blank == [t \in {} |-> 0]

Ready == [visit |-> 0, of |-> {}, length |-> Blank, todo |-> {}, busy |-> Blank]
UnderWay(r) == round[r].todo # {} \/ DOMAIN round[r].busy # {}
LiveRounds == {r \in Rounds : UnderWay(r)}

MultiInit ==
    /\ visit = 0 /\ open = FALSE
    /\ chosen = {}
    /\ lists = [n \in Nodes |-> Nil] /\ known = [n \in Nodes |-> Nil]
    /\ request = [q \in Requests |-> Nil]
    /\ waiting = {}
    /\ rows = Blank
    /\ round = [r \in Rounds |-> Ready]
    /\ isExecuting = FALSE /\ selecting = FALSE
    /\ mixed = {} /\ acts = 0

Act == open /\ acts < MaxActs /\ acts' = acts + 1

(* Each opening starts from nothing, except for what is under way.         *)
Open ==
    /\ ~open /\ visit < MaxVisits
    /\ open' = TRUE /\ visit' = visit + 1
    /\ chosen' = {} /\ rows' = Blank
    /\ lists' = [n \in Nodes |-> Nil] /\ known' = [n \in Nodes |-> Nil]
    /\ mixed' = mixed \cup LiveRounds
    /\ UNCHANGED <<request, waiting, round, isExecuting, selecting, acts>>

Leave ==
    /\ open /\ open' = FALSE
    /\ UNCHANGED <<visit, chosen, listVars, waiting, rows, round, isExecuting, selecting, mixed,
                   acts>>

-----------------------------------------------------------------------------
(* fetchDatabases, for some connections: requests under way, and finished  *)
(* ones, are shared.                                                       *)
Fetch(nodes) ==
    LET new == {n \in nodes : known[n] = Nil}
    IN  \E id \in Injection(new, {q \in Requests : request[q] = Nil}) :
        /\ known' = [n \in Nodes |-> IF n \in new THEN id[n] ELSE known[n]]
        /\ request' = [q \in Requests |->
                         IF q \in Range(id)
                         THEN [node |-> CHOOSE n \in new : id[n] = q, visit |-> visit,
                               out |-> {}]
                         ELSE request[q]]
        /\ UNCHANGED lists

(* The answer goes to whatever visit is on; the one file of a SQLite       *)
(* connection is returned without being recorded.                          *)
ListArrives(q) ==
    /\ request[q] # Nil /\ request[q].out = {}
    /\ \/ /\ request' = [request EXCEPT ![q].out = Schemas]
          /\ lists' = [lists EXCEPT ![request[q].node] = Schemas]
       \/ /\ request' = [request EXCEPT ![q].out = {Default}]
          /\ UNCHANGED lists
    /\ UNCHANGED <<visit, open, chosen, known, waiting, rows, round, isExecuting, selecting,
                   mixed, acts>>

(* A failed request is forgotten, whichever is known by now: the next one  *)
(* asks again.                                                             *)
ListFails(q) ==
    /\ request[q] # Nil /\ request[q].out = {}
    /\ request' = [request EXCEPT ![q].out = {Default}]
    /\ known' = [known EXCEPT ![request[q].node] = Nil]
    /\ acts < MaxActs /\ acts' = acts + 1
    /\ UNCHANGED <<visit, open, chosen, lists, waiting, rows, round, isExecuting, selecting,
                   mixed>>

Expand(n) ==
    /\ Act /\ Fetch({n})
    /\ UNCHANGED <<visit, open, chosen, waiting, rows, round, isExecuting, selecting, mixed>>

-----------------------------------------------------------------------------
(* Choosing targets.                                                       *)

Offered(n) == IF lists[n] = Nil THEN {Default} ELSE lists[n]

Toggle ==
    /\ Act
    /\ \E n \in Nodes : \E s \in Offered(n) :
        chosen' = IF <<n, s>> \in chosen THEN chosen \ {<<n, s>>} ELSE chosen \cup {<<n, s>>}
    /\ UNCHANGED <<visit, open, listVars, waiting, rows, round, isExecuting, selecting, mixed>>

ToggleNode(n) ==
    /\ Act /\ Fetch({n})
    /\ waiting' = waiting \cup {[all |-> FALSE, requests |-> {known'[n]}]}
    /\ UNCHANGED <<visit, open, chosen, rows, round, isExecuting, selecting, mixed>>

SelectAll ==
    /\ ~selecting /\ Act
    /\ IF chosen # {}
       THEN chosen' = {} /\ UNCHANGED <<listVars, waiting, selecting>>
       ELSE /\ Fetch(Nodes)
            /\ waiting' = waiting \cup {[all |-> TRUE, requests |-> Range(known')]}
            /\ selecting' = TRUE
            /\ UNCHANGED chosen
    /\ UNCHANGED <<visit, open, rows, round, isExecuting, mixed>>

(* The lists have come; the selection is replaced even in another visit.   *)
Chosen(w) ==
    /\ \A q \in w.requests : request[q].out # {}
    /\ LET offered == UNION {{request[q].node} \X request[q].out : q \in w.requests}
           ofNode == {t \in chosen : \E q \in w.requests : request[q].node = t[1]}
       IN  chosen' = IF w.all THEN offered
                     ELSE IF ofNode # {} /\ offered \subseteq ofNode THEN chosen \ ofNode
                     ELSE (chosen \ ofNode) \cup offered
    /\ selecting' = (selecting /\ ~w.all)
    /\ waiting' = waiting \ {w}
    /\ UNCHANGED <<visit, open, listVars, rows, round, isExecuting, mixed, acts>>

-----------------------------------------------------------------------------
(* Runs.                                                                   *)

Running(r, t) == [status |-> "running", round |-> r, of |-> t]

(* The text is split for each connection under its own dialect, and may be *)
(* empty for one of them: such a target is passed over.                    *)
StartRound(r) ==
    /\ ~UnderWay(r) /\ chosen # {} /\ Act
    /\ \E length \in [Nodes -> 0 .. MaxLength] :
        LET todo == {t \in chosen : length[t[1]] > 0}
            first == IF Cardinality(todo) < Width THEN Cardinality(todo) ELSE Width
        IN  \E take \in SUBSET todo :
            /\ Cardinality(take) = first
            /\ round' = [round EXCEPT ![r] =
                 [visit |-> visit, of |-> chosen, length |-> length, todo |-> todo \ take,
                  busy |-> [t \in take |-> length[t[1]] + 1]]]
            /\ isExecuting' = (todo # {})
    /\ rows' = [t \in chosen |-> Running(r, t)]
    /\ Fetch({t[1] : t \in chosen})
    /\ mixed' = (IF LiveRounds = {} THEN mixed \ {r} ELSE mixed \cup LiveRounds \cup {r})
    /\ UNCHANGED <<visit, open, chosen, waiting, selecting>>

(* Mutant of RowsOf: rows are known by their connection.                   *)
MutantRowsOf(t) == {u \in DOMAIN rows : u[1] = t[1]}

(* The rows that the answer of a target is put into.                       *)
RowsOf(t) == {u \in DOMAIN rows : u = t}

(* A target settles: its row is written, whichever run it belongs to by    *)
(* now, and the worker takes the next one.  The last worker clears the     *)
(* flag, whoever else is running.                                          *)
TargetSettles(r, t, status) ==
    /\ rows' = [u \in DOMAIN rows |->
                  IF u \in RowsOf(t) THEN [status |-> status, round |-> r, of |-> t] ELSE rows[u]]
    /\ LET rest == Restrict(round[r].busy, DOMAIN round[r].busy \ {t})
       IN  IF round[r].todo = {}
           THEN round' = [round EXCEPT ![r].busy = rest]
           ELSE \E next \in round[r].todo :
                round' = [round EXCEPT
                            ![r].todo = @ \ {next},
                            ![r].busy = [u \in DOMAIN rest \cup {next} |->
                                           IF u = next THEN round[r].length[next[1]] + 1
                                           ELSE rest[u]]]
    /\ isExecuting' = (isExecuting /\ (round'[r].todo # {} \/ DOMAIN round'[r].busy # {}))

(* The connection is there, or a statement has been answered.              *)
TargetGoes(r, t) ==
    /\ t \in DOMAIN round[r].busy
    /\ IF round[r].busy[t] = 1
       THEN TargetSettles(r, t, "done")
       ELSE /\ round' = [round EXCEPT ![r].busy[t] = @ - 1]
            /\ UNCHANGED <<rows, isExecuting>>
    /\ UNCHANGED <<visit, open, chosen, listVars, waiting, selecting, mixed, acts>>

(* The first failure ends the target, the others go on.                    *)
TargetFails(r, t) ==
    /\ t \in DOMAIN round[r].busy
    /\ TargetSettles(r, t, "error")
    /\ UNCHANGED <<visit, open, chosen, listVars, waiting, selecting, mixed, acts>>

MultiNext ==
    \/ Open \/ Leave \/ Toggle \/ SelectAll
    \/ \E n \in Nodes : Expand(n) \/ ToggleNode(n)
    \/ \E q \in Requests : ListArrives(q) \/ ListFails(q)
    \/ \E w \in waiting : Chosen(w)
    \/ \E r \in Rounds : StartRound(r) \/ \E t \in Targets : TargetGoes(r, t) \/ TargetFails(r, t)

MultiSpec == MultiInit /\ [][MultiNext]_multiVars

-----------------------------------------------------------------------------
(* A run that met no other one, in the visit it was started in, shows for  *)
(* each of its targets the outcome of that very target, and nothing else,  *)
(* and the dialog says that it is executing until it is over - unless the  *)
(* target had nothing to execute, whose row says "running" for ever.       *)
RowsAreTheRuns ==
    \A r \in Rounds \ mixed :
        /\ UnderWay(r) => isExecuting
        /\ Cardinality(DOMAIN round[r].busy) <= Width
        /\ round[r].visit = visit /\ (\E t \in DOMAIN rows : rows[t].round = r) =>
            /\ DOMAIN rows = round[r].of
            /\ \A t \in DOMAIN rows :
                /\ rows[t].round = r /\ rows[t].of = t
                /\ (rows[t].status = "running")
                     <=> (\/ t \in round[r].todo \cup DOMAIN round[r].busy
                          \/ round[r].length[t[1]] = 0)
=============================================================================
