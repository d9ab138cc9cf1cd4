------------------------------ MODULE MCSqlText ------------------------------
(***************************************************************************)
(* The text of scripts, and the dialog that sends one to many databases.   *)
(* Either a text is typed or the dialog is used; the other part does not   *)
(* move.                                                                   *)
(***************************************************************************)
EXTENDS SqlText, MultiQuery, TLC

VARIABLE subject

Of(lexemes, length) == [lexemes |-> lexemes, length |-> length]

EditorScripts == {
    Of({"word", "semicolon", "'", "E'", "\\", "line"}, 5),
    Of({"word", "semicolon", "double", "backtick", "\\", "'"}, 5),
    Of({"word", "semicolon", "'", "--", "#", "line"}, 5),
    Of({"semicolon", "--", "/*", "*/", "line"}, 6),
    Of({"word", "semicolon", "'", "$$", "$t$", "--"}, 5),
    Of({"semicolon", "ATOMIC", "CASE", "END"}, 7),
    Of({"word", "semicolon", "DELIMITER", "//", "line"}, 6),
    Of({"word", "semicolon", "COPY", "\\.", "line"}, 6) }

DumpScripts == {Of({"word", "semicolon", "COPY", "\\.", "--", "line"}, 8)}
NoScript == Of({}, 0)

PartsInit ==
    /\ subject \in {"text", "many"}
    /\ text = <<>>
    /\ IF subject = "text" THEN TextInit ELSE script = NoScript /\ mysql = FALSE
    /\ MultiInit

PartsNext ==
    /\ \/ subject = "text" /\ TextNext /\ UNCHANGED multiVars
       \/ subject = "many" /\ MultiNext /\ UNCHANGED textVars
    /\ UNCHANGED subject

PartsSpec == PartsInit /\ [][PartsNext]_<<subject, textVars, multiVars>>

Symmetry == Permutations(Nodes) \cup Permutations(Rounds) \cup Permutations(Requests)
=============================================================================
