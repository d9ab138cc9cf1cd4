----------------------------- MODULE StoredLists -----------------------------
(***************************************************************************)
(* The lists a process keeps in memory and in a file: the stores of the    *)
(* front end above the load and save commands of storage.rs.  One list is  *)
(* followed, of a kind chosen at the start: the kinds differ in when an    *)
(* edit is let through, when it is saved and when a save is forbidden.     *)
(* Commands run on a thread pool: those in flight go on in any order.      *)
(*                                                                         *)
(* A list is a set of items; an item stands for a saved connection, folder *)
(* or query, or for a change to one.  A missing file is the empty list.    *)
(***************************************************************************)
EXTENDS Naturals

CONSTANTS
    Kinds,          \* the kinds of list that are followed
    Items,
    Calls,          \* bound: commands in flight
    MaxEdits,       \* bound: edits, clears, imports and reloads of one process
    MaxCrashes,     \* bound: crashes
    Unreadable,     \* whether the contents of a file may fail to decrypt
    None,           \* no temporary file, nobody
    Torn            \* what a file written in part ends with

Lists == SUBSET Items
Part == {Torn}

ASSUME NamesAssumption == None \notin Calls /\ Torn \notin Items
ASSUME BoundsAssumption == MaxEdits \in Nat /\ MaxCrashes \in Nat /\ Unreadable \in BOOLEAN

(* Saved by an effect whenever the list changes, once it has been loaded. *)
OnChange == {"connections", "folders"}
(* Saved by each edit, unless a flag says that the load has failed. *)
FlagGated == {"vault", "settings"}
(* Edits wait for the load, and are saved if it succeeded. *)
Awaiting == {"queries", "history", "local"}

ASSUME KindsAssumption == Kinds \subseteq OnChange \cup FlagGated \cup Awaiting

VARIABLES
    kind,       \* the kind of the list
    file, tmp,  \* its file and the temporary file beside it
    lock,       \* the command that holds WRITE_LOCK
    memory,     \* the list in the store
    loaded,     \* the first load: "loading", "ok" or "failed"
    call,       \* the commands in flight
    owed,       \* history: of what the file held when the process started,
                \* what the user has not removed since
    muddled,    \* history: two commands overlapped in this process, or one failed
    edits, crashes

vars == <<kind, file, tmp, lock, memory, loaded, call, owed, muddled, edits, crashes>>

Ops == {"none", "load", "save", "clear", "import", "reload"}
Places == {"held", "asked", "read", "torn", "whole"}
CallRecords == [op : Ops, at : Places, list : Lists]

Call(o, l, S) == [op |-> o, at |-> l, list |-> S]
NoCall == Call("none", "asked", {})
At(c, o, l) == call[c].op = o /\ call[c].at = l
Free(c) == call[c] = NoCall
Idle == \A c \in Calls : Free(c)

TypeOK ==
    /\ kind \in Kinds
    /\ file \in Lists
    /\ tmp \in {None, Part} \cup Lists
    /\ lock \in Calls \cup {None}
    /\ memory \in Lists
    /\ loaded \in {"loading", "ok", "failed"}
    /\ call \in [Calls -> CallRecords]
    /\ owed \in Lists
    /\ muddled \in BOOLEAN
    /\ edits \in 0..MaxEdits
    /\ crashes \in 0..MaxCrashes

(* A process starts: the list is empty and one command is under way. *)
Loading(c) == [d \in Calls |-> IF d = c THEN Call("load", "asked", {}) ELSE NoCall]

Init ==
    /\ kind \in Kinds
    /\ file \in Lists
    /\ tmp = None
    /\ lock = None
    /\ memory = {}
    /\ loaded = "loading"
    /\ call \in {Loading(c) : c \in Calls}
    /\ owed = file
    /\ muddled = FALSE
    /\ edits = 0
    /\ crashes = 0

-----------------------------------------------------------------------------
(* The store                                                               *)

(* Mutant: saves are let through whether or not the load succeeded. *)
MaySaveAlways == TRUE

(* A save that is forbidden could put an empty list over the stored one. *)
MaySave == IF kind \in FlagGated THEN loaded # "failed" ELSE loaded = "ok"

Ask(c, o, l, S) ==
    /\ Free(c)
    /\ call' = [call EXCEPT ![c] = Call(o, l, S)]
    /\ muddled' = (muddled \/ ~Idle)

Save(S) ==
    \/ MaySave /\ \E c \in Calls : Ask(c, "save", "asked", S)
    \/ ~MaySave /\ UNCHANGED <<call, muddled>>

Counted == edits < MaxEdits /\ edits' = edits + 1

(* An item is added, changed or removed. *)
Edit(S) ==
    /\ Counted
    /\ kind \in Awaiting => loaded # "loading"
    /\ memory' = S
    /\ owed' = owed \ (memory \ S)
    /\ Save(S)
    /\ UNCHANGED <<kind, file, tmp, lock, loaded, crashes>>

(* Clearing does not wait: a history keeps its save back until the load is *)
(* over, and the local history deletes its file.                           *)
Clear ==
    /\ Counted
    /\ memory' = {}
    /\ owed' = {}
    /\ \/ kind = "settings" /\ Save({})
       \/ kind = "history" /\ loaded = "loading" /\ \E c \in Calls : Ask(c, "save", "held", {})
       \/ kind = "history" /\ loaded # "loading" /\ Save({})
       \/ kind = "local" /\ \E c \in Calls : Ask(c, "clear", "asked", {})
    /\ UNCHANGED <<kind, file, tmp, lock, loaded, crashes>>

(* import_connections and import_connections_advanced, from the dialog. *)
Import(c) ==
    /\ kind = "connections" /\ Counted
    /\ Ask(c, "import", "asked", {})
    /\ UNCHANGED <<kind, file, tmp, lock, memory, loaded, owed, crashes>>

(* A connection asks for a credential that is not in memory. *)
Reload(c) ==
    /\ kind = "vault" /\ Counted
    /\ Ask(c, "reload", "asked", {})
    /\ UNCHANGED <<kind, file, tmp, lock, memory, loaded, owed, crashes>>

-----------------------------------------------------------------------------
(* Answers of a load                                                       *)

(* The saves that waited for the load go on, or are given up. *)
Resumed(ok) ==
    [c \in Calls |-> IF call[c].at # "held" THEN call[c]
                     ELSE IF ok THEN [call[c] EXCEPT !.at = "asked"] ELSE NoCall]

(* A change of the list by the answer runs the effect that saves it; the   *)
(* settings save theirs when a default was added to them.                  *)
Loaded(c) ==
    /\ At(c, "load", "read")
    /\ loaded' = "ok"
    /\ memory' = IF kind \in {"settings", "history"} /\ call[c].list = {} THEN memory
                 ELSE call[c].list
    /\ \/ /\ kind \in OnChange \/ (kind = "settings" /\ call[c].list # {})
          /\ call' = [Resumed(TRUE) EXCEPT ![c] = Call("save", "asked", call[c].list)]
       \/ /\ kind \notin OnChange
          /\ call' = [Resumed(TRUE) EXCEPT ![c] = NoCall]
    /\ UNCHANGED <<kind, file, tmp, lock, owed, muddled, edits, crashes>>

NotLoaded(c) ==
    /\ At(c, "load", "asked")
    /\ loaded' = "failed"
    /\ call' = [Resumed(FALSE) EXCEPT ![c] = NoCall]
    /\ UNCHANGED <<kind, file, tmp, lock, memory, owed, muddled, edits, crashes>>

(* The flag of a failed first load stays as it is. *)
Reloaded(c) ==
    /\ At(c, "reload", "read")
    /\ memory' = call[c].list
    /\ call' = [call EXCEPT ![c] =
                   IF kind \in OnChange /\ MaySave THEN Call("save", "asked", call[c].list)
                   ELSE NoCall]
    /\ UNCHANGED <<kind, file, tmp, lock, loaded, owed, muddled, edits, crashes>>

-----------------------------------------------------------------------------
(* Commands of storage.rs                                                  *)

(* Files the user has not curated, and saved queries, answer an empty list *)
(* when their contents cannot be decrypted.                                *)
Lenient == Unreadable /\ kind \in Awaiting

Read(c) ==
    /\ At(c, "load", "asked") \/ At(c, "reload", "asked")
    /\ \E S \in {file} \cup (IF Lenient THEN {{}} ELSE {}) :
          call' = [call EXCEPT ![c].at = "read", ![c].list = S]
    /\ UNCHANGED <<kind, file, tmp, lock, memory, loaded, owed, muddled, edits, crashes>>

(* upsert adds to what the file holds, override replaces it. *)
ImportReads(c, i) ==
    /\ At(c, "import", "asked")
    /\ \/ call' = [call EXCEPT ![c].at = "read", ![c].list = file \cup {i}] /\ owed' = owed
       \/ call' = [call EXCEPT ![c].at = "read", ![c].list = {i}] /\ owed' = {}
    /\ UNCHANGED <<kind, file, tmp, lock, memory, loaded, muddled, edits, crashes>>

(* write_atomic: the lock is taken and the temporary file opened, ...      *)
OpensTmp(c) ==
    /\ At(c, "save", "asked") \/ At(c, "import", "read")
    /\ lock = None
    /\ lock' = c
    /\ tmp' = Part
    /\ call' = [call EXCEPT ![c].at = "torn"]
    /\ UNCHANGED <<kind, file, memory, loaded, owed, muddled, edits, crashes>>

(* ... written to the end and flushed, ...                                 *)
FillsTmp(c) ==
    /\ call[c].at = "torn"
    /\ tmp' = call[c].list
    /\ call' = [call EXCEPT ![c].at = "whole"]
    /\ UNCHANGED <<kind, file, lock, memory, loaded, owed, muddled, edits, crashes>>

(* ... and renamed.  The dialog reloads the list after an import.          *)
Renames(c) ==
    /\ call[c].at = "whole"
    /\ tmp # None
    /\ file' = tmp
    /\ tmp' = None
    /\ lock' = None
    /\ call' = [call EXCEPT ![c] =
                   IF call[c].op = "import" THEN Call("reload", "asked", {}) ELSE NoCall]
    /\ UNCHANGED <<kind, memory, loaded, owed, muddled, edits, crashes>>

(* clear_local_history removes the file without the lock. *)
Removes(c) ==
    /\ At(c, "clear", "asked")
    /\ file' = {}
    /\ call' = [call EXCEPT ![c] = NoCall]
    /\ UNCHANGED <<kind, tmp, lock, memory, loaded, owed, muddled, edits, crashes>>

(* Any step of a command may fail; the answer is only logged. *)
Fails(c) ==
    /\ \/ call[c].op \in {"save", "clear", "import"} /\ call[c].at # "held"
       \/ At(c, "reload", "asked")
    /\ call' = [call EXCEPT ![c] = NoCall]
    /\ lock' = IF lock = c THEN None ELSE lock
    /\ muddled' = TRUE
    /\ UNCHANGED <<kind, file, tmp, memory, loaded, owed, edits, crashes>>

(* Mutant: a start takes a temporary file that was left behind for the list. *)
CrashRenames ==
    /\ crashes < MaxCrashes
    /\ crashes' = crashes + 1
    /\ lock' = None
    /\ memory' = {}
    /\ loaded' = "loading"
    /\ call' \in {Loading(c) : c \in Calls}
    /\ file' = IF tmp \in {None, Part} THEN file ELSE tmp
    /\ tmp' = None
    /\ owed' = file'
    /\ muddled' = FALSE
    /\ edits' = 0
    /\ UNCHANGED kind

(* The process ends at any point and a new one starts. *)
Crash ==
    /\ crashes < MaxCrashes
    /\ crashes' = crashes + 1
    /\ lock' = None
    /\ memory' = {}
    /\ loaded' = "loading"
    /\ call' \in {Loading(c) : c \in Calls}
    /\ owed' = file
    /\ muddled' = FALSE
    /\ edits' = 0
    /\ UNCHANGED <<kind, file, tmp>>

-----------------------------------------------------------------------------
UserStep ==
    \/ \E i \in Items : Edit(memory \cup {i}) \/ Edit(memory \ {i})
    \/ Clear
    \/ \E c \in Calls : Import(c) \/ Reload(c)

Proceeds(c) ==
    \/ Loaded(c) \/ NotLoaded(c) \/ Reloaded(c) \/ Read(c)
    \/ \E i \in Items : ImportReads(c, i)
    \/ OpensTmp(c) \/ FillsTmp(c) \/ Renames(c) \/ Removes(c)

Next == UserStep \/ Crash \/ \E c \in Calls : Proceeds(c) \/ Fails(c)

(* A command that was started is carried out and answered. *)
Spec == Init /\ [][Next]_vars

-----------------------------------------------------------------------------
(* What the file held when the process started stays in it until the user  *)
(* removes it: no early, late, failed or reordered save, no import and no  *)
(* crash loses it.                                                         *)
StoredSurvives == kind \notin FlagGated => owed \subseteq file

(* The file goes from one whole list to another, which a command in flight *)
(* was asked to write: a crash or a second writer never leaves a part.     *)
Wanted == {call[c].list : c \in {d \in Calls : call[d].op \in {"save", "import", "clear"}}}
ReplacedWhole == [][file' # file => file' \in Wanted]_vars

(* When commands did not overlap or fail, and saving is allowed, then what *)
(* the store holds is what the file holds once they are over.              *)
SettledMatches == Idle /\ MaySave /\ ~muddled => file = memory

(* The list the user has is the list he will find: both of the above, for  *)
(* every kind of list (write_atomic and the load and save commands).       *)
ListsAreKept == StoredSurvives /\ SettledMatches
=============================================================================
