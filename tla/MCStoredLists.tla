---------------------------- MODULE MCStoredLists ----------------------------
(***************************************************************************)
(* What the application keeps in files, part by part: the lists, the key   *)
(* that seals them, the tree of connections, the downloaded tools and the  *)
(* session of tabs.  The parts share nothing that these modules follow, so *)
(* that a behaviour is one of a single part, chosen at the start; the      *)
(* others do not move.                                                     *)
(***************************************************************************)
EXTENDS StoredLists, MasterKey, SavedConnections, CliTools, TabSessions

VARIABLE subject

(* A part that does not move starts in one of its initial states. *)
PartsInit ==
    /\ subject \in {"lists", "key", "tree", "tools", "session"}
    /\ Init /\ (subject # "lists" => /\ kind = "vault" /\ file = {}
                                     /\ call = Loading(CHOOSE c \in Calls : TRUE))
    /\ KeyInit /\ (subject # "key" => keyring.up /\ detects /\ \A k \in KeyKinds : ~stored[k].there)
    /\ SavedInit
    /\ ToolInit /\ (subject # "tools" => ~installed)
    /\ SessionInit

PartsNext ==
    /\ \/ subject = "lists" /\ Next /\ UNCHANGED <<keyVars, savedVars, toolVars, sessionVars>>
       \/ subject = "key" /\ KeyNext /\ UNCHANGED <<vars, savedVars, toolVars, sessionVars>>
       \/ subject = "tree" /\ SavedNext /\ UNCHANGED <<vars, keyVars, toolVars, sessionVars>>
       \/ subject = "tools" /\ ToolNext /\ UNCHANGED <<vars, keyVars, savedVars, sessionVars>>
       \/ subject = "session" /\ SessionNext /\ UNCHANGED <<vars, keyVars, savedVars, toolVars>>
    /\ UNCHANGED subject

PartsSpec ==
    PartsInit /\ [][PartsNext]_<<subject, vars, keyVars, savedVars, toolVars, sessionVars>>
=============================================================================
