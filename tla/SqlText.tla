------------------------------- MODULE SqlText -------------------------------
(***************************************************************************)
(* How the editor cuts a script into statements (splitStatements), finds   *)
(* the one at the caret (resolveStatementAtOffset), blanks what is not     *)
(* code (stripSqlToCode), and what Run then sends (executeQuery).          *)
(*                                                                         *)
(* A text is a sequence of lexemes, typed one by one.  "word" stands for   *)
(* every word without a meaning here; "ATOMIC" is BEGIN ATOMIC, "COPY" is  *)
(* COPY ... FROM STDIN, "E'" the opening of a PostgreSQL string with       *)
(* escapes, "double" a double quote, "semicolon" the terminator, "--" two  *)
(* dashes and a blank, "line" a line break.  Lexemes that would fuse are   *)
(* set apart by a blank, and so are all where DELIMITER is one of them.    *)
(***************************************************************************)
EXTENDS Naturals, Sequences, FiniteSetsExt, Functions

CONSTANT
    Scripts     \* bound: the lexemes a text is made of, and how many of them

Words == {"word", "ATOMIC", "CASE", "END", "COPY", "DELIMITER"}
Dollars == {"$$", "$t$"}
Quotes == {"'", "E'", "double", "backtick"}
Backslashes == {"\\", "\\."}
Lexemes ==
    Words \cup Dollars \cup Quotes \cup Backslashes
    \cup {"line", "semicolon", "//", "--", "#", "/*", "*/"}

ASSUME ScriptsAssumption == Scripts \subseteq [lexemes : SUBSET Lexemes, length : Nat]

VARIABLES
    script,
    mysql,      \* hashComments: the connection speaks MySQL
    text

textVars == <<script, mysql, text>>

-----------------------------------------------------------------------------
(* Positions of a text t.  The one behind it holds "eof".                  *)

Item(t, i) == IF i \in 1..Len(t) THEN t[i] ELSE "eof"
FirstOf(t, i, S) == Min({k \in i..(Len(t) + 1) : Item(t, k) \in S \cup {"eof"}})
LineEnd(t, i) == FirstOf(t, i, {"line"})
Past(t, i) == Min({i, Len(t) + 1})
Full(t, i, j) == {k \in i..(j - 1) : t[k] # "line"}

-----------------------------------------------------------------------------
(* The regions the scanners skip: the position behind the region that      *)
(* opens at i.                                                             *)

Ends(q) == IF q = "backtick" THEN {"backtick"} ELSE IF q = "double" THEN {"double"} ELSE {"'", "E'"}
Doubles(q) == IF q = "E'" THEN "'" ELSE q

(* Mutant: a backslash escapes in every string but an identifier. *)
EscapesEverywhere(t, i, my) == t[i] # "double"

Escapes(t, i, my) ==
    \/ t[i] = "backtick"
    \/ t[i] = "E'"
    \/ my /\ t[i] = "'"

QuoteEnd(t, i, my) ==
    LET q == t[i]
        end[k \in Nat] ==
            IF k > Len(t) THEN Len(t) + 1
            ELSE IF Escapes(t, i, my) /\ t[k] = "\\" /\ k < Len(t)
                 THEN end[IF t[k + 1] = "E'" THEN k + 1 ELSE k + 2]
            ELSE IF t[k] \notin Ends(q) THEN end[k + 1]
            ELSE IF Item(t, k + 1) = Doubles(q) THEN end[k + 2]
            ELSE k + 1
    IN end[i + 1]

CommentEnd(t, i, my) ==
    LET end[k \in Nat] ==
            [depth \in Nat |->
                IF depth = 0 \/ k > Len(t) THEN k
                ELSE IF t[k] = "/*" /\ ~my THEN end[k + 1][depth + 1]
                ELSE IF t[k] = "*/" THEN end[k + 1][depth - 1]
                ELSE end[k + 1][depth]]
    IN end[i + 1][1]

DollarEnd(t, i) == Past(t, FirstOf(t, i + 1, {t[i]}) + 1)

IsLineComment(t, i, my) == t[i] = "--" \/ (t[i] = "#" /\ my)

-----------------------------------------------------------------------------
(* splitStatements: a scanner s moves over the text, one branch of the     *)
(* loop a step.                                                            *)

Started ==
    [i |-> 1, start |-> 1, fresh |-> TRUE, delimiter |-> "semicolon",
     atomic |-> 0, case |-> 0, found |-> <<>>]

Emit(t, found, start, end) ==
    LET full == Full(t, start, end)
    IN IF full = {} THEN found
       ELSE Append(found, [start |-> Min(full), last |-> Max(full), end |-> end,
                           lineNumber |-> 1 + Cardinality({k \in 1..(Min(full) - 1) : t[k] = "line"})])

Restart(s, i) == [s EXCEPT !.i = i, !.start = i, !.fresh = TRUE]
Skip(s, i) == [s EXCEPT !.i = i]
Into(s, i) == [s EXCEPT !.i = i, !.fresh = FALSE]

IsCopy(t, found) == found # <<>> /\ t[found[Len(found)].start] = "COPY"
DataEnd(t, i) ==
    LET ends == {k \in i..Len(t) : t[k] = "line" /\ Item(t, k + 1) = "\\." /\ Item(t, k + 2) \in {"line", "eof"}}
    IN IF ends = {} THEN i ELSE Past(t, Min(ends) + 3)

Terminator(t, s, my) ==
    LET found == Emit(t, s.found, s.start, s.i)
    IN Restart([s EXCEPT !.found = found],
               IF IsCopy(t, found) /\ ~my THEN DataEnd(t, s.i + 1) ELSE s.i + 1)

Directive(t, s) ==
    LET token == Item(t, s.i + 1)
    IN IF token \in {"line", "eof"} THEN Restart(s, Past(t, s.i + 2))
       ELSE Restart([s EXCEPT !.delimiter = token],
                    Past(t, s.i + IF Item(t, s.i + 2) = "line" THEN 3 ELSE 2))

MetaCommand(t, s) ==
    LET end == LineEnd(t, s.i)
    IN Restart([s EXCEPT !.found = Emit(t, s.found, s.i, end)], end)

Keyword(s, c) ==
    Into([s EXCEPT !.atomic = IF c = "ATOMIC" THEN @ + 1
                              ELSE IF c = "END" /\ s.case = 0 /\ @ > 0 THEN @ - 1 ELSE @,
                   !.case = IF c = "CASE" /\ s.atomic > 0 THEN @ + 1
                            ELSE IF c = "END" /\ s.atomic > 0 /\ @ > 0 THEN @ - 1 ELSE @],
         s.i + 1)

Step(t, s, my) ==
    LET c == t[s.i]
    IN IF s.delimiter # "semicolon" /\ c = s.delimiter
            THEN Restart([s EXCEPT !.found = Emit(t, s.found, s.start, s.i)], s.i + 1)
       ELSE IF s.fresh /\ c = "DELIMITER" THEN Directive(t, s)
       ELSE IF s.fresh /\ c \in Backslashes /\ ~my THEN MetaCommand(t, s)
       ELSE IF c \in Quotes THEN Into(s, QuoteEnd(t, s.i, my))
       ELSE IF IsLineComment(t, s.i, my) THEN Skip(s, LineEnd(t, s.i))
       ELSE IF c = "/*" THEN Skip(s, CommentEnd(t, s.i, my))
       ELSE IF c \in {"ATOMIC", "CASE", "END"} /\ ~my THEN Keyword(s, c)
       ELSE IF c \in Dollars /\ s.delimiter = "semicolon" THEN Into(s, DollarEnd(t, s.i))
       ELSE IF c = "semicolon" /\ s.delimiter = "semicolon" /\ s.atomic = 0 THEN Terminator(t, s, my)
       ELSE IF c = "line" THEN Skip(s, s.i + 1)
       ELSE Into(s, s.i + 1)

SplitStatements(t, my) ==
    LET scan[n \in 0..Len(t)] ==
            IF n = 0 THEN Started
            ELSE IF scan[n - 1].i > Len(t) THEN scan[n - 1]
            ELSE Step(t, scan[n - 1], my)
        s == scan[Len(t)]
    IN Emit(t, s.found, s.start, s.i)

StatementText(t, st) == SubSeq(t, st.start, st.last)

-----------------------------------------------------------------------------
(* stripSqlToCode: the positions whose lexeme it leaves in sight.          *)

(* Mutant: a # starts a comment in every dialect. *)
StripStepHash(t, s, my) ==
    LET c == t[s.i]
        to(i) == [s EXCEPT !.i = i]
    IN IF c \in Quotes THEN to(QuoteEnd(t, s.i, my))
       ELSE IF c \in {"--", "#"} THEN to(LineEnd(t, s.i))
       ELSE IF c = "/*" THEN to(CommentEnd(t, s.i, my))
       ELSE IF c \in Dollars THEN to(DollarEnd(t, s.i))
       ELSE [i |-> s.i + 1, seen |-> s.seen \cup {s.i}]

StripStep(t, s, my) ==
    LET c == t[s.i]
        to(i) == [s EXCEPT !.i = i]
    IN IF c \in Quotes THEN to(QuoteEnd(t, s.i, my))
       ELSE IF IsLineComment(t, s.i, my) THEN to(LineEnd(t, s.i))
       ELSE IF c = "/*" THEN to(CommentEnd(t, s.i, my))
       ELSE IF c \in Dollars THEN to(DollarEnd(t, s.i))
       ELSE [i |-> s.i + 1, seen |-> s.seen \cup {s.i}]

StripSqlToCode(t, my) ==
    LET strip[n \in 0..Len(t)] ==
            IF n = 0 THEN [i |-> 1, seen |-> {}]
            ELSE IF strip[n - 1].i > Len(t) THEN strip[n - 1]
            ELSE StripStep(t, strip[n - 1], my)
    IN strip[Len(t)].seen

-----------------------------------------------------------------------------
(* The caret, and what Run sends: executeQuery splits the text it is       *)
(* handed again.                                                           *)

(* Mutant: a caret on the terminator is behind the statement. *)
ResolveBeforeEnd(found, caret) ==
    LET inside == {n \in 1..Len(found) : found[n].start <= caret /\ caret < found[n].end}
        gap == {n \in 1..(Len(found) - 1) : found[n].end < caret /\ caret < found[n + 1].start}
    IN IF inside \cup gap # {} THEN Min(inside \cup gap)
       ELSE IF found[Len(found)].end < caret THEN Len(found) ELSE 1

ResolveStatementAtOffset(found, caret) ==
    LET inside == {n \in 1..Len(found) : found[n].start <= caret /\ caret <= found[n].end}
        gap == {n \in 1..(Len(found) - 1) : found[n].end < caret /\ caret < found[n + 1].start}
        behind == found[Len(found)].end < caret
    IN IF inside \cup gap # {} THEN Min(inside \cup gap)
       ELSE IF behind THEN Len(found) ELSE 1

ExecuteQuery(selected, my) ==
    LET parts == SplitStatements(selected, my)
    IN IF Len(parts) > 1 THEN [n \in 1..Len(parts) |-> StatementText(selected, parts[n])]
       ELSE <<selected>>

-----------------------------------------------------------------------------

TextInit ==
    /\ script \in Scripts
    /\ mysql \in BOOLEAN
    /\ text = <<>>

Type(c) ==
    /\ Len(text) < script.length
    /\ text' = Append(text, c)
    /\ UNCHANGED <<script, mysql>>

TextNext == \E c \in script.lexemes : Type(c)

TextSpec == TextInit /\ [][TextNext]_textVars

-----------------------------------------------------------------------------
(* What SQL says a text is, by PostgreSQL's rules and psql's for commands  *)
(* and data, or by MySQL's and its client's, in their default modes: one   *)
(* lexeme at a time, the context the next lexeme stands in, the role of    *)
(* the last one, and the number of the statement it belongs to.            *)

Outset ==
    [in |-> "code", role |-> "cut", depth |-> 0, body |-> 0, escaped |-> FALSE,
     closed |-> "none", delimiter |-> "semicolon", first |-> "none", piece |-> 1]

InContext(r, ctx, role) == [r EXCEPT !.in = ctx, !.role = role, !.closed = "none"]
NextPiece(r) == [r EXCEPT !.piece = @ + 1, !.first = "none"]
Begun(r, c) == [r EXCEPT !.first = IF @ = "none" THEN c ELSE @]

EndsData(t, i) == t[i] = "\\." /\ Item(t, i - 1) = "line" /\ Item(t, i + 1) \in {"line", "eof"}

(* A backtick is an operator's character in PostgreSQL, and a dollar sign  *)
(* a word's in MySQL.                                                      *)
OpensQuote(c, r, my) ==
    \/ c \in {"'", "E'", "double"}
    \/ c = "backtick" /\ my
    \/ c \in Dollars /\ ~my /\ r.delimiter = "semicolon"

ReadCode(t, i, r, my) ==
    LET c == t[i]
        comment == c \in {"--", "/*"} \/ (my /\ c = "#")
        terminates == c = r.delimiter /\ (c = "semicolon" => r.body = 0)
        copied == ~my /\ r.first = "COPY"
        opens == ~my /\ (c = "ATOMIC" \/ (c = "CASE" /\ r.body > 0))
        closes == ~my /\ c = "END" /\ r.body > 0
    IN IF r.closed # "none" /\ c = Doubles(r.closed) THEN InContext(r, r.closed, "region")
       ELSE IF terminates THEN NextPiece(InContext(r, IF copied THEN "data" ELSE "code", "cut"))
       ELSE IF c = "DELIMITER" /\ r.first = "none" THEN NextPiece(InContext(r, "directive", "cut"))
       ELSE IF c \in Backslashes /\ r.first = "none" /\ ~my THEN InContext(NextPiece(r), "meta", "code")
       ELSE IF comment THEN [InContext(r, IF c = "/*" THEN c ELSE "--", "region") EXCEPT !.depth = 1]
       ELSE IF OpensQuote(c, r, my) THEN Begun(InContext(r, c, "region"), c)
       ELSE IF c = "line" THEN InContext(r, "code", "code")
       ELSE [Begun(InContext(r, "code", "code"), c)
                EXCEPT !.body = IF opens THEN @ + 1 ELSE IF closes THEN @ - 1 ELSE @]

(* A backslash escapes in a string, of MySQL or with an E, never in an     *)
(* identifier: MySQL's double quotes hold a string, PostgreSQL's do not.   *)
ReadQuoted(c, r, my) ==
    LET escapes == r.in = "E'" \/ (my /\ r.in \in {"'", "double"})
        closes == c \in Ends(r.in) /\ (r.escaped => c = "E'")
    IN IF closes THEN [InContext(r, "code", "region") EXCEPT !.closed = r.in, !.escaped = FALSE]
       ELSE [r EXCEPT !.role = "region", !.escaped = escapes /\ c = "\\" /\ ~@]

ReadComment(c, r, my) ==
    LET depth == IF c = "/*" /\ ~my THEN r.depth + 1
                 ELSE IF c = "*/" THEN r.depth - 1 ELSE r.depth
    IN [InContext(r, IF depth = 0 THEN "code" ELSE "/*", "region") EXCEPT !.depth = depth]

Read(t, i, r, my) ==
    LET c == t[i]
    IN IF r.in = "code" THEN ReadCode(t, i, r, my)
       ELSE IF r.in \in Quotes THEN ReadQuoted(c, r, my)
       ELSE IF r.in = "/*" THEN ReadComment(c, r, my)
       ELSE IF r.in = "--" THEN InContext(r, IF c = "line" THEN "code" ELSE "--", "region")
       ELSE IF r.in \in Dollars THEN InContext(r, IF c = r.in THEN "code" ELSE r.in, "region")
       ELSE IF r.in = "directive"
            THEN [InContext(r, "code", "cut") EXCEPT !.delimiter = IF c = "line" THEN @ ELSE c]
       ELSE IF r.in = "data" THEN InContext(r, IF EndsData(t, i) THEN "code" ELSE "data", "data")
       ELSE IF c = "line" THEN NextPiece(InContext(r, "code", "cut")) ELSE r

Reading(t, my) ==
    LET read[i \in 0..Len(t)] == IF i = 0 THEN Outset ELSE Read(t, i, read[i - 1], my)
    IN read

-----------------------------------------------------------------------------
(* Properties.                                                             *)

Found == SplitStatements(text, mysql)
Parts(found) == {<<found[n].start, found[n].last>> : n \in 1..Len(found)}

(* What splitStatements finds lies in the text, in its order and without   *)
(* overlap, starts and ends with something to run, and carries the number  *)
(* of the line it starts on: the glyphs of a run are set on those lines.   *)
TextTyped ==
    LET found == Found
    IN /\ script \in Scripts /\ mysql \in BOOLEAN
       /\ text \in Seq(script.lexemes)
       /\ \A n \in 1..Len(found) :
            /\ 1 <= found[n].start /\ found[n].start <= found[n].last
            /\ found[n].last < found[n].end /\ found[n].end <= Len(text) + 1
            /\ text[found[n].start] # "line" /\ text[found[n].last] # "line"
            /\ found[n].lineNumber \in 1..(1 + Len(text))
       /\ \A m, n \in 1..Len(found) :
            m < n => found[m].end <= found[n].start /\ found[m].lineNumber <= found[n].lineNumber

(* The named exclusions: where the editor follows rules of its own.  It    *)
(* takes a backslash in backticks for an escape and one in MySQL's double  *)
(* quotes for none, quotes with backticks in PostgreSQL and with dollar    *)
(* signs in MySQL.                                                         *)
OwnQuoting(c, r, my) ==
    \/ c = "\\" /\ (r.in = "backtick" \/ (my /\ r.in = "double"))
    \/ r.in = "code" /\ c = "backtick" /\ ~my
    \/ r.in = "code" /\ c \in Dollars /\ my /\ r.delimiter = "semicolon"

(* It knows no command within a statement, MySQL's DELIMITER also in       *)
(* PostgreSQL and with code behind it, and data of a COPY also behind the  *)
(* terminator on its line but none without the line that ends it; and a    *)
(* comment before one of the three hides it or is dropped.                 *)
OwnCommand(t, i, read, my) ==
    LET c == t[i]
        r == read[i - 1]
        hasData == \E k \in (i + 2)..Len(t) : EndsData(t, k)
        commented == \E k \in 1..(i - 1) : read[k].piece = r.piece /\ read[k].role = "region"
    IN \/ /\ r.in = "code"
          /\ \/ c \in Backslashes /\ (my \/ r.first # "none")
             \/ c \in Backslashes \cup {"DELIMITER", "COPY"} /\ r.first = "none" /\ commented
             \/ c = "DELIMITER" /\ r.first = "none" /\ ~my
             \/ c = r.delimiter /\ r.first = "COPY" /\ ~my /\ ~(Item(t, i + 1) = "line" /\ hasData)
       \/ r.in = "directive" /\ c # "line" /\ Item(t, i + 1) \notin {"line", "eof"}

ByTheBook ==
    LET read == Reading(text, mysql)
    IN \A i \in 1..Len(text) :
        ~OwnQuoting(text[i], read[i - 1], mysql) /\ ~OwnCommand(text, i, read, mysql)

CutsAsRead ==
    LET read == Reading(text, mysql)
        pieces == {read[i].piece : i \in 1..Len(text)}
        of(p) == {i \in 1..Len(text) :
                    read[i].piece = p /\ read[i].role \in {"code", "region"} /\ text[i] # "line"}
    IN Parts(Found) = {<<Min(of(p)), Max(of(p))>> : p \in {q \in pieces : of(q) # {}}}

(* The scanner, which leaps over whole regions, cuts a script exactly      *)
(* where its dialect and client end a statement: never at a terminator in  *)
(* a string, an identifier, a comment, a dollar-quoted or ATOMIC body, the *)
(* data of a COPY or behind another DELIMITER, always at one that is none  *)
(* of these, and no code is left out.  Not where the editor has a rule of  *)
(* its own (ByTheBook).                                                    *)
SplitsAtTerminators == ByTheBook => CutsAsRead

(* A statement that was cut out keeps its meaning: stripped on its own, as *)
(* Run does before it looks for keywords, it shows exactly the code it has *)
(* within the script, and nothing of its strings and comments.  Not where  *)
(* the editor quotes by a rule of its own (ByTheBook).                     *)
StrippedAlone ==
    LET read == Reading(text, mysql)
        code(p, q) == {i \in p..q : read[i].role = "code" /\ text[i] # "line"}
        seen(p, q) == {i + p - 1 : i \in StripSqlToCode(SubSeq(text, p, q), mysql)}
    IN (ByTheBook /\ "DELIMITER" \notin Range(text) /\ \A i \in 1..Len(text) : read[i].in # "meta") =>
         \A part \in Parts(Found) :
            {i \in seen(part[1], part[2]) : text[i] # "line"} = code(part[1], part[2])

(* Run at the caret: the statement painted under the caret is the last one *)
(* that starts at or before it (or the first), and what executeQuery makes *)
(* of its text is that one statement, not pieces of it.                    *)
CursorRunsWhatItShows ==
    LET found == Found
        before(caret) == {n \in 1..Len(found) : found[n].start <= caret}
    IN ("DELIMITER" \notin Range(text) /\ found # <<>>) =>
         \A caret \in 1..(Len(text) + 1) :
            LET shown == ResolveStatementAtOffset(found, caret)
                selected == StatementText(text, found[shown])
            IN /\ shown = IF before(caret) = {} THEN 1 ELSE Max(before(caret))
               /\ ExecuteQuery(selected, mysql) = <<selected>>

(* The rows behind a COPY ... FROM STDIN are data, up to the line with \.; *)
(* no statement that is run holds any of them (splitStatements.ts:27).     *)
(* Where there is such a line at all.                                      *)
DataNeverRuns ==
    LET read == Reading(text, mysql)
    IN (\E k \in 1..Len(text) : read[k].role = "data" /\ EndsData(text, k)) =>
        \A part \in Parts(Found) : \A i \in part[1]..part[2] : read[i].role # "data"
=============================================================================
