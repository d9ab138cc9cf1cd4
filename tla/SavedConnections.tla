--------------------------- MODULE SavedConnections ---------------------------
(***************************************************************************)
(* The saved connections and their folders, as the explorer shows and      *)
(* edits them: drag and drop, the "Move to" picker, the delete             *)
(* confirmations, the connection dialog with its test, and the record that *)
(* a connect writes back when the server has answered.                     *)
(*                                                                         *)
(* A folder is its parent; a connection is its folder and the number of    *)
(* the edit its other fields come from.  Identifiers are random, so that   *)
(* of a deleted folder never returns.  The dialogs are modal; answers of   *)
(* servers arrive behind them.                                             *)
(***************************************************************************)
EXTENDS Naturals

CONSTANTS
    Folders, Servers,   \* identifiers of folders and of connections
    Root,               \* the parent of the outermost folders
    Unborn, Gone,       \* not yet made, deleted
    NoDialog,           \* no dialog is open; no test or connect is under way
    MaxSaves            \* bound: saves of the connection dialog

FolderPlaces == Folders \cup {Root}
Record(p, e) == [folder |-> p, edit |-> e]
Records == [folder : FolderPlaces, edit : 0..MaxSaves]

ASSUME SavedAssumption ==
    /\ {Root, Unborn, Gone} \cap Folders = {}
    /\ Root # Unborn /\ Root # Gone /\ Unborn # Gone
    /\ {NoDialog, Unborn, Gone} \cap (Records \cup FolderPlaces) = {}
    /\ MaxSaves \in Nat

VARIABLES
    parent,     \* the folders
    record,     \* the connections: folder and edit
    dialog,     \* the modal dialog
    leaving,    \* connections whose removal awaits the close of handles
    trial,      \* per connection, the record to be saved once it is tested
    connecting, \* per connection, the record that a connect has read
    put,        \* history: where the user has put a connection, and its last edit
    overtaken,  \* history: connections changed while a connect was under way
    saves

savedVars == <<parent, record, dialog, leaving, trial, connecting, put, overtaken, saves>>

Alive == {f \in Folders : parent[f] \notin {Unborn, Gone}}
Known == {c \in Servers : record[c] \in Records}
Targets == Alive \cup {Root}

(* A folder that exists no more counts as the root. *)
Existing(p) == IF p \in Alive THEN p ELSE Root

Quiet == dialog = NoDialog
Open(kind, id, place) == [kind |-> kind, id |-> id, place |-> place]
Asked(kind) == ~Quiet /\ dialog.kind = kind

SavedTypeOK ==
    /\ parent \in [Folders -> FolderPlaces \cup {Unborn, Gone}]
    /\ record \in [Servers -> Records \cup {Unborn, Gone}]
    /\ Quiet \/ dialog \in [kind : {"folder", "connection", "form"},
                            id : Folders \cup Servers, place : FolderPlaces]
    /\ leaving \subseteq Servers
    /\ trial \in [Servers -> FolderPlaces \cup {NoDialog}]
    /\ connecting \in [Servers -> Records \cup {NoDialog}]
    /\ put \in [Servers -> Records \cup {Unborn, Gone}]
    /\ overtaken \subseteq Servers
    /\ saves \in 0..MaxSaves

SavedInit ==
    /\ parent = [f \in Folders |-> Unborn]
    /\ record = [c \in Servers |-> Unborn]
    /\ dialog = NoDialog
    /\ leaving = {}
    /\ trial = [c \in Servers |-> NoDialog]
    /\ connecting = [c \in Servers |-> NoDialog]
    /\ put = record
    /\ overtaken = {}
    /\ saves = 0

-----------------------------------------------------------------------------
(* The tree                                                                *)

(* The folder or root p and all that lies below it: the least set that has  *)
(* p and the children of its members.                                       *)
Closed(S) == \A f \in Alive : parent[f] \in S => f \in S
Below(p) ==
    {q \in Targets \cup {p} : \A S \in SUBSET FolderPlaces : p \in S /\ Closed(S) => q \in S}

(* The folder itself and every folder inside it. *)
DescendantFolderIds(f) == Below(f)

(* Mutant: only the folder itself is refused as its own parent. *)
CycleIfItself(f, p) == p = f

WouldCreateCycle(f, p) == p # Root /\ p \in DescendantFolderIds(f)

(* Only a folder that is reached from the root is drawn. *)
DrawnFolders == Below(Root) \ {Root}

(* Where the tree draws a connection: nowhere if its folder is not drawn. *)
DrawnIn(c) == {Existing(record[c].folder)} \cap Below(Root)

-----------------------------------------------------------------------------
(* Folders                                                                 *)

ChangedWhile(S) == overtaken' = overtaken \cup {c \in S : connecting[c] # NoDialog}
Unchanged == UNCHANGED <<overtaken, put, saves>>

AddFolder(f, p) ==
    /\ Quiet
    /\ parent[f] = Unborn /\ p \in Targets
    /\ parent' = [parent EXCEPT ![f] = p]
    /\ UNCHANGED <<record, dialog, leaving, trial, connecting>> /\ Unchanged

MoveFolder(f, p) ==
    /\ Quiet
    /\ f \in Alive /\ p \in Targets
    /\ ~WouldCreateCycle(f, p)
    /\ parent' = [parent EXCEPT ![f] = p]
    /\ UNCHANGED <<record, dialog, leaving, trial, connecting>> /\ Unchanged

MoveConnectionToFolder(c, p) ==
    /\ Quiet
    /\ c \in Known /\ p \in Targets
    /\ record' = [record EXCEPT ![c] = Record(p, record[c].edit)]
    /\ put' = [put EXCEPT ![c] = Record(p, put[c].edit)]
    /\ ChangedWhile({c})
    /\ UNCHANGED <<parent, dialog, leaving, trial, connecting, saves>>

(* The parent that the children get is the one read before the question. *)
AskDeleteFolder(f) ==
    /\ Quiet
    /\ f \in Alive
    /\ dialog' = Open("folder", f, parent[f])
    /\ UNCHANGED <<parent, record, leaving, trial, connecting>> /\ Unchanged

Reparented(r, f, p) ==
    [c \in Servers |-> IF r[c] \in Records /\ r[c].folder = f
                       THEN Record(p, r[c].edit) ELSE r[c]]

RemoveFolder ==
    /\ Asked("folder")
    /\ LET f == dialog.id
           p == dialog.place
           inside == {c \in Known : record[c].folder = f}
       IN  /\ parent' = [g \in Folders |-> IF g = f THEN Gone
                                           ELSE IF parent[g] = f THEN p ELSE parent[g]]
           /\ record' = Reparented(record, f, p)
           /\ put' = Reparented(put, f, p)
           /\ ChangedWhile(inside)
    /\ dialog' = NoDialog
    /\ UNCHANGED <<leaving, trial, connecting, saves>>

CloseDialog ==
    /\ ~Quiet
    /\ dialog' = NoDialog
    /\ UNCHANGED <<parent, record, leaving, trial, connecting>> /\ Unchanged

-----------------------------------------------------------------------------
(* Connections                                                             *)

(* The dialog is filled from the connection, or opened inside a folder.     *)
OpenForm(c) ==
    /\ Quiet
    /\ saves < MaxSaves /\ trial[c] = NoDialog
    /\ \/ c \in Known /\ dialog' = Open("form", c, record[c].folder)
       \/ record[c] = Unborn /\ \E p \in Targets : dialog' = Open("form", c, p)
    /\ UNCHANGED <<parent, record, leaving, trial, connecting>> /\ Unchanged

(* A folder is chosen; the connection is tested before it is saved, and the *)
(* dialog can be closed meanwhile.                                          *)
Submit ==
    /\ Asked("form") /\ trial[dialog.id] = NoDialog
    /\ \E p \in Targets \cup {dialog.place} : trial' = [trial EXCEPT ![dialog.id] = p]
    /\ UNCHANGED <<parent, record, dialog, leaving, connecting>> /\ Unchanged

(* The test fails, and "Save anyway" is declined. *)
TestFails(c) ==
    /\ trial[c] # NoDialog
    /\ trial' = [trial EXCEPT ![c] = NoDialog]
    /\ UNCHANGED <<parent, record, dialog, leaving, connecting>> /\ Unchanged

(* The test passes, or the user saves anyway.  An edit is of no effect when *)
(* the connection has been removed meanwhile.                               *)
SaveForm(c) ==
    /\ trial[c] # NoDialog /\ saves < MaxSaves
    /\ LET new == Record(trial[c], saves + 1)
       IN  /\ record' = [record EXCEPT ![c] = IF record[c] = Gone THEN Gone ELSE new]
           /\ put' = [put EXCEPT ![c] = IF put[c] = Gone THEN Gone ELSE new]
    /\ ChangedWhile({c})
    /\ saves' = saves + 1
    /\ trial' = [trial EXCEPT ![c] = NoDialog]
    /\ dialog' = IF Asked("form") THEN NoDialog ELSE dialog
    /\ UNCHANGED <<parent, leaving, connecting>>

(* A vault profile chosen for a connection that has none is stored, but the *)
(* connect that follows reads the record the explorer was drawn from.       *)
ConnectWithProfile(c) ==
    /\ Quiet
    /\ c \in Known /\ connecting[c] = NoDialog /\ saves < MaxSaves
    /\ connecting' = [connecting EXCEPT ![c] = record[c]]
    /\ record' = [record EXCEPT ![c] = Record(record[c].folder, saves + 1)]
    /\ put' = [put EXCEPT ![c] = Record(put[c].folder, saves + 1)]
    /\ overtaken' = overtaken \cup {c}
    /\ saves' = saves + 1
    /\ UNCHANGED <<parent, dialog, leaving, trial>>

AskDeleteConnection(c) ==
    /\ Quiet
    /\ c \in Known
    /\ dialog' = Open("connection", c, Root)
    /\ UNCHANGED <<parent, record, leaving, trial, connecting>> /\ Unchanged

(* Its tunnel and handles are closed first. *)
RemoveConnection ==
    /\ Asked("connection")
    /\ leaving' = leaving \cup {dialog.id}
    /\ dialog' = NoDialog
    /\ UNCHANGED <<parent, record, trial, connecting>> /\ Unchanged

ConnectionRemoved(c) ==
    /\ c \in leaving
    /\ leaving' = leaving \ {c}
    /\ record' = [record EXCEPT ![c] = Gone]
    /\ put' = [put EXCEPT ![c] = Gone]
    /\ UNCHANGED <<parent, dialog, trial, connecting, overtaken, saves>>

ConnectToDatabase(c) ==
    /\ Quiet
    /\ c \in Known /\ connecting[c] = NoDialog
    /\ connecting' = [connecting EXCEPT ![c] = record[c]]
    /\ UNCHANGED <<parent, record, dialog, leaving, trial>> /\ Unchanged

(* The record that was read when the connect began is put back, with the    *)
(* version of the server in it.                                             *)
ServerAnswered(c) ==
    /\ connecting[c] # NoDialog
    /\ record' = [record EXCEPT ![c] = IF record[c] = Gone THEN Gone ELSE connecting[c]]
    /\ connecting' = [connecting EXCEPT ![c] = NoDialog]
    /\ UNCHANGED <<parent, dialog, leaving, trial>> /\ Unchanged

ServerFails(c) ==
    /\ connecting[c] # NoDialog
    /\ connecting' = [connecting EXCEPT ![c] = NoDialog]
    /\ UNCHANGED <<parent, record, dialog, leaving, trial>> /\ Unchanged

SavedNext ==
    \/ \E f \in Folders, p \in FolderPlaces : AddFolder(f, p) \/ MoveFolder(f, p)
    \/ \E f \in Folders : AskDeleteFolder(f)
    \/ RemoveFolder
    \/ CloseDialog
    \/ Submit
    \/ RemoveConnection
    \/ \E c \in Servers :
           \/ \E p \in FolderPlaces : MoveConnectionToFolder(c, p)
           \/ OpenForm(c)
           \/ TestFails(c)
           \/ SaveForm(c)
           \/ ConnectWithProfile(c)
           \/ AskDeleteConnection(c)
           \/ ConnectionRemoved(c)
           \/ ConnectToDatabase(c)
           \/ ServerAnswered(c)
           \/ ServerFails(c)

SavedSpec == SavedInit /\ [][SavedNext]_savedVars

-----------------------------------------------------------------------------
(* Properties                                                              *)

(* No folder and no connection vanishes from the tree, and a connection is  *)
(* drawn in the folder the user has put it in, or in what that folder's     *)
(* content was moved to when it was deleted, and carries the last edit.     *)
(* (folderTree.ts drops what is not reached from the root.)  A connect that *)
(* was under way during the change may undo it.                             *)
DrawnWhereLastPut ==
    /\ DrawnFolders = Alive
    /\ \A c \in Known : DrawnIn(c) # {}
    /\ \A c \in Known \ overtaken :
           /\ DrawnIn(c) = {Existing(put[c].folder)}
           /\ record[c].edit = put[c].edit
=============================================================================
