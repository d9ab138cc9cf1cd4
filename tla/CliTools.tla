------------------------------ MODULE CliTools ------------------------------
(***************************************************************************)
(* The command line tools that the application downloads for itself: the   *)
(* cache folder of one tool (mongosh is the only one that can be           *)
(* downloaded), the commands that check, fetch, list and remove it, and    *)
(* the settings page they are called from.                                 *)
(*                                                                         *)
(* Commands run on a thread pool and outlive the page.  A file is absent,  *)
(* whole, a part of an archive member, or being written by a task.         *)
(***************************************************************************)
EXTENDS Naturals, Sequences

CONSTANTS
    Tasks,          \* chains of commands that the page may have under way
    MaxToolEvents   \* bound: clicks, crashes and changes outside

ASSUME ToolAssumption == MaxToolEvents \in Nat /\ {"none", "part", "whole"} \cap Tasks = {}

VARIABLES
    installed,  \* the tool is on PATH or in an install folder
    cache,      \* the folder <tool>-<major>: unpacked tree and bin/<binary>
    tasks,      \* per task: commands to go, progress of the first one, what it saw
    shown,      \* the store: what the last answers said
    page,       \* the settings page is open
    left,       \* history: the page was left during a download
    toolEvents

toolVars == <<installed, cache, tasks, shown, page, left, toolEvents>>

Files == {"none", "part", "whole"} \cup Tasks
ToolIdle == [kind |-> "idle", todo |-> <<>>, at |-> "begin", saw |-> FALSE, mine |-> FALSE]
Task(kind, todo) == [ToolIdle EXCEPT !.kind = kind, !.todo = todo, !.mine = TRUE]
Refreshing == Task("refresh", <<"check">>)
Listing == Task("refresh", <<"list">>)
Downloading == Task("download", <<"ensure", "check", "list">>)
Removing == Task("remove", <<"remove", "list", "check">>)

ToolTypeOK ==
    /\ installed \in BOOLEAN
    /\ cache \in [dir : BOOLEAN, tree : Files, bin : Files]
    /\ \A t \in Tasks :
           /\ tasks[t].kind \in {"idle", "refresh", "download", "remove"}
           /\ \A i \in DOMAIN tasks[t].todo :
                  tasks[t].todo[i] \in {"ensure", "remove", "check", "list"}
           /\ tasks[t].at \in {"begin", "sent", "unpacking", "unpacked", "removing", "seen"}
           /\ tasks[t].saw \in BOOLEAN /\ tasks[t].mine \in BOOLEAN
    /\ shown \in [available : {"unknown", "yes", "no"}, cached : BOOLEAN]
    /\ page \in BOOLEAN /\ left \in BOOLEAN
    /\ toolEvents \in 0..MaxToolEvents

ToolInit ==
    /\ installed \in BOOLEAN
    /\ cache = [dir |-> FALSE, tree |-> "none", bin |-> "none"]
    /\ tasks = [t \in Tasks |-> ToolIdle]
    /\ shown = [available |-> "unknown", cached |-> FALSE]
    /\ page = FALSE
    /\ left = FALSE
    /\ toolEvents = 0

(* System installs come first; a cached binary counts when the file exists. *)
FindSystemTool == installed
CachedVersions == cache.bin # "none"
FindAvailable == FindSystemTool \/ CachedVersions

Event == toolEvents < MaxToolEvents /\ toolEvents' = toolEvents + 1

-----------------------------------------------------------------------------
(* The page                                                                *)

Busy(kind) == \E t \in Tasks : tasks[t].mine /\ tasks[t].kind = kind

Refresh(s, t) ==
    /\ s # t /\ tasks[s] = ToolIdle /\ tasks[t] = ToolIdle
    /\ tasks' = [tasks EXCEPT ![s] = Refreshing, ![t] = Listing]

(* The page refreshes when it opens, and at the button unless it still does. *)
OpenPage(s, t) ==
    /\ ~page /\ Event
    /\ page' = TRUE
    /\ Refresh(s, t)
    /\ UNCHANGED <<installed, cache, shown, left>>

ClickRefresh(s, t) ==
    /\ page /\ Event
    /\ ~Busy("refresh")
    /\ Refresh(s, t)
    /\ UNCHANGED <<installed, cache, shown, page, left>>

(* What runs goes on; the next page knows nothing of it. *)
LeavePage ==
    /\ page
    /\ page' = FALSE
    /\ left' = (left \/ Busy("download"))
    /\ tasks' = [t \in Tasks |-> [tasks[t] EXCEPT !.mine = FALSE]]
    /\ UNCHANGED <<installed, cache, shown, toolEvents>>

(* The button exists while the tool is shown as missing, and is disabled    *)
(* until its chain has ended.                                               *)
HandleDownload(t) ==
    /\ page /\ Event
    /\ shown.available = "no"
    /\ ~Busy("download")
    /\ tasks[t] = ToolIdle /\ tasks' = [tasks EXCEPT ![t] = Downloading]
    /\ UNCHANGED <<installed, cache, shown, page, left>>

(* A folder is listed whatever it holds. *)
HandleRemove(t) ==
    /\ page /\ Event
    /\ shown.cached
    /\ ~Busy("remove")
    /\ tasks[t] = ToolIdle /\ tasks' = [tasks EXCEPT ![t] = Removing]
    /\ UNCHANGED <<installed, cache, shown, page, left>>

-----------------------------------------------------------------------------
(* Commands                                                                *)

AtCommand(t, command, at) ==
    /\ tasks[t].todo # <<>> /\ Head(tasks[t].todo) = command
    /\ tasks[t].at = at

Now(t, at) == tasks' = [tasks EXCEPT ![t].at = at]
CommandEnds(t) ==
    tasks' = [tasks EXCEPT ![t] = IF Len(@.todo) = 1 THEN ToolIdle
                                  ELSE [@ EXCEPT !.todo = Tail(tasks[t].todo), !.at = "begin"]]
Settles == UNCHANGED <<installed, shown, page, left, toolEvents>>

(* What is there is used; otherwise the folder is made and the archive is   *)
(* requested.                                                               *)
Ensure(t) ==
    /\ AtCommand(t, "ensure", "begin")
    /\ IF FindAvailable THEN CommandEnds(t) /\ UNCHANGED cache
       ELSE Now(t, "sent") /\ cache' = [cache EXCEPT !.dir = TRUE]
    /\ Settles

(* Mutant: the member is unpacked where it is looked for. *)
UnpackInPlace(t) ==
    /\ AtCommand(t, "ensure", "sent")
    /\ cache.dir
    /\ cache' = [cache EXCEPT !.bin = t]
    /\ Now(t, "unpacking")
    /\ Settles

(* The archive has arrived and is stored, for which the folder must still   *)
(* exist; the member is removed and created anew.                           *)
Unpack(t) ==
    /\ AtCommand(t, "ensure", "sent")
    /\ cache.dir
    /\ cache' = [cache EXCEPT !.tree = t]
    /\ Now(t, "unpacking")
    /\ Settles

(* The file that t has created, wherever it is by now, becomes f. *)
Written(t, f) ==
    LET now(file) == IF file = t THEN f ELSE file
    IN  cache' = [cache EXCEPT !.tree = now(cache.tree), !.bin = now(cache.bin)]

Unpacked(t) ==
    /\ AtCommand(t, "ensure", "unpacking")
    /\ Written(t, "whole")
    /\ Now(t, "unpacked")
    /\ Settles

(* The binary found in an unpacked folder replaces the one in bin.  Without *)
(* one in either place the download has failed.                             *)
RelocateBinaries(t) ==
    /\ AtCommand(t, "ensure", "unpacked")
    /\ cache' = [cache EXCEPT !.dir = TRUE, !.tree = "none",
                              !.bin = IF cache.tree = "none" THEN cache.bin ELSE cache.tree]
    /\ IF cache'.bin = "none" THEN tasks' = [tasks EXCEPT ![t] = ToolIdle] ELSE CommandEnds(t)
    /\ Settles

(* No network, an error status, a disk that is full, a folder that is gone. *)
DownloadFails(t) ==
    /\ \E at \in {"sent", "unpacking", "unpacked"} : AtCommand(t, "ensure", at)
    /\ Written(t, "part")
    /\ tasks' = [tasks EXCEPT ![t] = ToolIdle]
    /\ Settles

(* The folder is emptied file by file. *)
RemoveCached(t) ==
    /\ AtCommand(t, "remove", "begin")
    /\ IF cache.dir THEN Now(t, "removing") ELSE CommandEnds(t)
    /\ UNCHANGED cache /\ Settles

Unlink(t) ==
    /\ AtCommand(t, "remove", "removing")
    /\ \/ cache.tree # "none" /\ cache' = [cache EXCEPT !.tree = "none"]
       \/ cache.bin # "none" /\ cache' = [cache EXCEPT !.bin = "none"]
    /\ UNCHANGED tasks /\ Settles

ToolRemoved(t) ==
    /\ AtCommand(t, "remove", "removing")
    /\ cache.tree = "none" /\ cache.bin = "none"
    /\ cache' = [cache EXCEPT !.dir = FALSE]
    /\ CommandEnds(t)
    /\ Settles

(* A file in use, or one that a download has added meanwhile. *)
RemoveFails(t) ==
    /\ AtCommand(t, "remove", "removing")
    /\ tasks' = [tasks EXCEPT ![t] = ToolIdle]
    /\ UNCHANGED cache /\ Settles

(* A check and a listing look at the disk and answer later: the version is  *)
(* asked of the binary in between.                                          *)
Look(t) ==
    /\ \E saw \in BOOLEAN :
           /\ \/ AtCommand(t, "check", "begin") /\ saw = FindAvailable
              \/ AtCommand(t, "list", "begin") /\ saw = cache.dir
           /\ tasks' = [tasks EXCEPT ![t] = [@ EXCEPT !.at = "seen", !.saw = saw]]
    /\ UNCHANGED cache /\ Settles

FetchTools(t) ==
    /\ AtCommand(t, "check", "seen")
    /\ shown' = [shown EXCEPT !.available = IF tasks[t].saw THEN "yes" ELSE "no"]
    /\ CommandEnds(t)
    /\ UNCHANGED <<installed, cache, page, left, toolEvents>>

ListCached(t) ==
    /\ AtCommand(t, "list", "seen")
    /\ shown' = [shown EXCEPT !.cached = tasks[t].saw]
    /\ CommandEnds(t)
    /\ UNCHANGED <<installed, cache, page, left, toolEvents>>

-----------------------------------------------------------------------------
(* The world                                                               *)

InstallOutside ==
    /\ Event
    /\ installed' = ~installed
    /\ UNCHANGED <<cache, tasks, shown, page, left>>

(* The files stay as they are. *)
ToolRestart ==
    /\ Event
    /\ LET now(file) == IF file \in Tasks THEN "part" ELSE file
       IN  cache' = [cache EXCEPT !.tree = now(cache.tree), !.bin = now(cache.bin)]
    /\ tasks' = [t \in Tasks |-> ToolIdle]
    /\ shown' = [available |-> "unknown", cached |-> FALSE]
    /\ page' = FALSE
    /\ UNCHANGED <<installed, left>>

ToolNext ==
    \/ \E s, t \in Tasks : OpenPage(s, t) \/ ClickRefresh(s, t)
    \/ LeavePage
    \/ InstallOutside
    \/ ToolRestart
    \/ \E t \in Tasks :
           \/ HandleDownload(t) \/ HandleRemove(t)
           \/ Ensure(t) \/ Unpack(t) \/ Unpacked(t) \/ RelocateBinaries(t)
           \/ DownloadFails(t)
           \/ RemoveCached(t) \/ Unlink(t) \/ ToolRemoved(t) \/ RemoveFails(t)
           \/ Look(t) \/ FetchTools(t) \/ ListCached(t)

ToolSpec == ToolInit /\ [][ToolNext]_toolVars

-----------------------------------------------------------------------------
(* Properties                                                              *)

(* Whatever fails, is removed or crashes on the way: as long as no page was *)
(* left during its download, a cached binary that the next lookup would use *)
(* is a whole one.  (find_available asks only whether the file exists.)     *)
LoneDownloadsAreWhole == left \/ cache.bin \in {"none", "whole"}
=============================================================================
