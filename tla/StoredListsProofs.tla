-------------------------- MODULE StoredListsProofs --------------------------
(***************************************************************************)
(* Proofs about StoredLists, for any number of items, commands in flight,  *)
(* edits and crashes: the list the user has is the one he will find        *)
(* (ListsAreKept), and the file goes from one whole list to another        *)
(* (ReplacedWhole).                                                        *)
(*                                                                         *)
(* Neither is inductive.  A save may not lose what is owed, so whatever is *)
(* on its way to the file or the store, in a call or in the temporary      *)
(* file, holds it (Carried); what a command writes is what it was asked to *)
(* write, because the lock keeps the temporary file for it (Holders); and  *)
(* as long as commands have not overlapped there is one at most, which     *)
(* brings the file and the store together (Settling).                      *)
(*                                                                         *)
(* Below it about MasterKey, for any number of files, keys and restarts:   *)
(* what is sealed can be opened (SealedStaysReadable).  One call at a time *)
(* makes a key and finds none (OneMaker, MakerAlone), so that all the keys *)
(* around are one (OneKey), and a call that goes on can open what it will  *)
(* load and stores what was loaded (Sound).                                *)
(*                                                                         *)
(* And about TabSessions, for any number of tabs, texts, connections,      *)
(* saves and restarts: no text is lost and none counts as saved that is    *)
(* not (TextIsKept).  Where the promised texts are depends on the phase of *)
(* the window: in the tabs, in the timer, in the last save under way or in *)
(* the file (Restores, WillHave).  A tab is backed by what it was measured *)
(* against, until a pass of the auto-save has written it (Backed, Trusted).*)
(***************************************************************************)
EXTENDS StoredLists, MasterKey, TabSessions, SequenceTheorems, TLAPS

Writing(c) == call[c].at \in {"torn", "whole"}

(* Of each command in flight: the lock keeps the temporary file for it.    *)
Holds(c) ==
    /\ call[c].op = "none" => Free(c)
    /\ call[c].op = "clear" => call[c].list = {}
    /\ Writing(c) => call[c].op \in {"save", "import"} /\ lock = c
    /\ call[c].at = "whole" => tmp = call[c].list

Holders == \A c \in Calls : Holds(c)

(* A process loads once, and is loading until that is answered.            *)
LoadsOnce ==
    /\ loaded = "loading" => \E c \in Calls : call[c].op = "load"
    /\ \A c \in Calls : call[c].op = "load" => loaded = "loading"
    /\ \A c, d \in Calls : call[c].op = "load" /\ call[d].op = "load" => c = d

(* The list of a command is one that goes to the file, or to the store.    *)
Carries(c) ==
    \/ call[c].op = "save"
    \/ call[c].op \in {"import", "load", "reload"} /\ call[c].at # "asked"

HasOwed(c) ==
    /\ Carries(c) => owed \subseteq call[c].list
    /\ call[c].op = "clear" => owed = {}

Carried ==
    kind \notin FlagGated =>
        /\ loaded = "ok" => owed \subseteq memory
        /\ \A c \in Calls : HasOwed(c)

(* A read that nothing overtook is of the file as it is, and a save or a   *)
(* clearing is of the list as it is.                                       *)
Agrees(c) ==
    /\ call[c].op \in {"load", "reload"} /\ call[c].at = "read" => call[c].list = file
    /\ MaySave /\ call[c].op = "save" => call[c].list = memory
    /\ MaySave /\ call[c].op = "clear" => memory = {}

Alone == \A c, d \in Calls : call[c].op # "none" /\ call[d].op # "none" => c = d

Settling ==
    ~muddled =>
        /\ Alone
        /\ loaded = "loading" /\ kind \in {"settings", "history"} => memory = {}
        /\ \A c \in Calls : Agrees(c)

ListsInv ==
    /\ TypeOK /\ Holders /\ LoadsOnce
    /\ StoredSurvives /\ Carried
    /\ SettledMatches /\ Settling
-----------------------------------------------------------------------------
(* Records of commands.                                                    *)

LEMMA CallTyped ==
    ASSUME NEW o \in Ops, NEW l \in Places, NEW S \in Lists
    PROVE  /\ Call(o, l, S) \in CallRecords
           /\ Call(o, l, S).op = o /\ Call(o, l, S).at = l /\ Call(o, l, S).list = S
    BY DEF Call, CallRecords

LEMMA NoCallTyped ==
    /\ NoCall \in CallRecords
    /\ NoCall.op = "none" /\ NoCall.at = "asked" /\ NoCall.list = {}
    BY DEF NoCall, Call, CallRecords, Ops, Places, Lists

(* The first command of a process.                                         *)
LEMMA LoadingTyped ==
    ASSUME NEW c \in Calls
    PROVE  /\ Loading(c) \in [Calls -> CallRecords]
           /\ \A d \in Calls : Loading(c)[d] = IF d = c THEN Call("load", "asked", {}) ELSE NoCall
    <1>1. Call("load", "asked", {}) \in CallRecords
        BY CallTyped DEF Ops, Places, Lists
    <1>2. QED  BY <1>1, NoCallTyped DEF Loading

(* What the answer of the load does to the others.                         *)
LEMMA ResumedTyped ==
    ASSUME TypeOK, NEW ok \in BOOLEAN
    PROVE  /\ Resumed(ok) \in [Calls -> CallRecords]
           /\ \A d \in Calls :
                /\ call[d].at # "held" => Resumed(ok)[d] = call[d]
                /\ call[d].at = "held" /\ ~ok => Resumed(ok)[d] = NoCall
                /\ call[d].at = "held" /\ ok =>
                    /\ Resumed(ok)[d].op = call[d].op /\ Resumed(ok)[d].list = call[d].list
                    /\ Resumed(ok)[d].at = "asked"
    <1>1. ASSUME NEW d \in Calls
          PROVE  /\ [call[d] EXCEPT !.at = "asked"] \in CallRecords
                 /\ [call[d] EXCEPT !.at = "asked"].op = call[d].op
                 /\ [call[d] EXCEPT !.at = "asked"].list = call[d].list
                 /\ [call[d] EXCEPT !.at = "asked"].at = "asked"
        <2>1. call[d] \in CallRecords  BY DEF TypeOK
        <2>2. QED  BY <2>1 DEF CallRecords, Places
    <1>2. \A d \in Calls : call[d] \in CallRecords  BY DEF TypeOK
    <1>3. QED  BY <1>1, <1>2, NoCallTyped DEF Resumed

(* What a command that is started changes.                                 *)
LEMMA AskMakes ==
    ASSUME TypeOK, NEW c \in Calls, NEW o \in Ops, NEW l \in Places, NEW S \in Lists,
           Ask(c, o, l, S)
    PROVE  /\ call[c].op = "none"
           /\ call'[c].op = o /\ call'[c].at = l /\ call'[c].list = S
           /\ \A d \in Calls \ {c} : call'[d] = call[d]
           /\ ~muddled' => ~muddled /\ \A d \in Calls : call[d].op = "none"
    <1>1. \A d \in Calls : call'[d] = IF d = c THEN Call(o, l, S) ELSE call[d]
        BY DEF Ask, TypeOK
    <1>2. ~muddled' => ~muddled /\ Idle  BY DEF Ask, TypeOK
    <1>3. QED  BY <1>1, <1>2, CallTyped, NoCallTyped DEF Ask, Free, Idle

(* What a command that goes on to another place changes.                   *)
LEMMA MoveMakes ==
    ASSUME TypeOK, NEW c \in Calls, NEW l \in Places, call' = [call EXCEPT ![c].at = l]
    PROVE  /\ call'[c].op = call[c].op /\ call'[c].at = l /\ call'[c].list = call[c].list
           /\ \A d \in Calls \ {c} : call'[d] = call[d]
    <1>1. call[c] \in CallRecords  BY DEF TypeOK
    <1>2. call'[c] = [call[c] EXCEPT !.at = l]  BY DEF TypeOK
    <1>3. \A d \in Calls \ {c} : call'[d] = call[d]  BY DEF TypeOK
    <1>4. QED  BY <1>1, <1>2, <1>3 DEF CallRecords

LEMMA ReadMakes ==
    ASSUME TypeOK, NEW c \in Calls, NEW S \in Lists,
           call' = [call EXCEPT ![c].at = "read", ![c].list = S]
    PROVE  /\ call'[c].op = call[c].op /\ call'[c].at = "read" /\ call'[c].list = S
           /\ \A d \in Calls \ {c} : call'[d] = call[d]
    <1>1. call[c] \in CallRecords  BY DEF TypeOK
    <1>2. call'[c] = [[call[c] EXCEPT !.at = "read"] EXCEPT !.list = S]  BY DEF TypeOK
    <1>3. \A d \in Calls \ {c} : call'[d] = call[d]  BY DEF TypeOK
    <1>4. QED  BY <1>1, <1>2, <1>3 DEF CallRecords

-----------------------------------------------------------------------------
(* Types.                                                                  *)

LEMMA AskTyped ==
    ASSUME TypeOK, NEW c \in Calls, NEW o \in Ops, NEW l \in Places, NEW S \in Lists,
           Ask(c, o, l, S)
    PROVE  call' \in [Calls -> CallRecords] /\ muddled' \in BOOLEAN
    BY CallTyped DEF TypeOK, Ask

LEMMA SaveTyped ==
    ASSUME TypeOK, NEW S \in Lists, Save(S)
    PROVE  call' \in [Calls -> CallRecords] /\ muddled' \in BOOLEAN
    BY AskTyped DEF TypeOK, Save, Ops, Places

LEMMA TypeInit == Init => TypeOK
    <1> SUFFICES ASSUME Init PROVE TypeOK  OBVIOUS
    <1>1. PICK c \in Calls : call = Loading(c)  BY DEF Init
    <1>2. call \in [Calls -> CallRecords]  BY <1>1, LoadingTyped
    <1>3. {} \in Lists  BY DEF Lists
    <1>4. 0 \in 0 .. MaxEdits /\ 0 \in 0 .. MaxCrashes  BY BoundsAssumption
    <1>5. QED  BY <1>2, <1>3, <1>4 DEF Init, TypeOK

LEMMA TypeUser == ASSUME TypeOK, UserStep PROVE TypeOK'
    <1> USE BoundsAssumption
    <1>1. ASSUME NEW S \in Lists, Edit(S) PROVE TypeOK'
        <2>1. call' \in [Calls -> CallRecords] /\ muddled' \in BOOLEAN
            BY <1>1, SaveTyped DEF Edit
        <2>2. owed' \in Lists  BY <1>1 DEF Edit, TypeOK, Lists
        <2>3. edits' \in 0 .. MaxEdits  BY <1>1 DEF Edit, Counted, TypeOK
        <2>4. QED  BY <1>1, <2>1, <2>2, <2>3 DEF Edit, TypeOK
    <1>2. CASE Clear
        <2>1. call' \in [Calls -> CallRecords] /\ muddled' \in BOOLEAN
            BY <1>2, SaveTyped, AskTyped DEF Clear, Lists, Ops, Places
        <2>2. edits' \in 0 .. MaxEdits  BY <1>2 DEF Clear, Counted, TypeOK
        <2>3. QED  BY <1>2, <2>1, <2>2 DEF Clear, TypeOK, Lists
    <1>3. ASSUME NEW c \in Calls, Import(c) \/ Reload(c) PROVE TypeOK'
        <2>1. call' \in [Calls -> CallRecords] /\ muddled' \in BOOLEAN
            BY <1>3, AskTyped DEF Import, Reload, Lists, Ops, Places
        <2>2. edits' \in 0 .. MaxEdits  BY <1>3 DEF Import, Reload, Counted, TypeOK
        <2>3. QED  BY <1>3, <2>1, <2>2 DEF Import, Reload, TypeOK
    <1>4. \A i \in Items : memory \cup {i} \in Lists /\ memory \ {i} \in Lists
        BY DEF TypeOK, Lists
    <1>5. QED  BY <1>1, <1>2, <1>3, <1>4 DEF UserStep

LEMMA TypeStep == ASSUME TypeOK, Holders, [Next]_vars PROVE TypeOK'
    <1> USE BoundsAssumption
    <1>1. CASE UserStep  BY <1>1, TypeUser
    <1>2. CASE Crash
        <2>1. PICK c \in Calls : call' = Loading(c)  BY <1>2 DEF Crash
        <2>2. call' \in [Calls -> CallRecords]  BY <2>1, LoadingTyped
        <2>3. crashes' \in 0 .. MaxCrashes  BY <1>2 DEF Crash, TypeOK
        <2>4. {} \in Lists  BY DEF Lists
        <2>5. 0 \in 0 .. MaxEdits  BY BoundsAssumption
        <2>6. QED  BY <1>2, <2>2, <2>3, <2>4, <2>5 DEF Crash, TypeOK
    <1>3. ASSUME NEW c \in Calls, Fails(c) PROVE TypeOK'
        BY <1>3, NoCallTyped DEF Fails, TypeOK
    <1>4. ASSUME NEW c \in Calls, Proceeds(c) PROVE TypeOK'
        <2>0. call[c] \in CallRecords /\ call[c].list \in Lists  BY DEF TypeOK, CallRecords
        <2>1. CASE Loaded(c)
            <3>1. Call("save", "asked", call[c].list) \in CallRecords
                BY <2>0, CallTyped DEF Ops, Places
            <3>2. call' \in [Calls -> CallRecords]
                BY <2>1, <3>1, ResumedTyped, NoCallTyped DEF Loaded
            <3>3. memory' \in Lists  BY <2>1, <2>0 DEF Loaded, TypeOK
            <3>4. QED  BY <2>1, <3>2, <3>3 DEF Loaded, TypeOK
        <2>2. CASE NotLoaded(c)
            BY <2>2, ResumedTyped, NoCallTyped DEF NotLoaded, TypeOK
        <2>3. CASE Reloaded(c)
            <3>1. Call("save", "asked", call[c].list) \in CallRecords
                BY <2>0, CallTyped DEF Ops, Places
            <3>2. QED  BY <2>3, <2>0, <3>1, NoCallTyped DEF Reloaded, TypeOK
        <2>4. CASE Read(c)
            <3>1. PICK S \in Lists : call' = [call EXCEPT ![c].at = "read", ![c].list = S]
                BY <2>4 DEF Read, TypeOK, Lists
            <3>2. [[call[c] EXCEPT !.at = "read"] EXCEPT !.list = S] \in CallRecords
                BY <2>0 DEF CallRecords, Places
            <3>3. call' \in [Calls -> CallRecords]  BY <3>1, <3>2 DEF TypeOK
            <3>4. QED  BY <2>4, <3>3 DEF Read, TypeOK
        <2>5. ASSUME NEW i \in Items, ImportReads(c, i) PROVE TypeOK'
            <3>1. PICK S \in Lists : call' = [call EXCEPT ![c].at = "read", ![c].list = S]
                BY <2>5 DEF ImportReads, TypeOK, Lists
            <3>2. [[call[c] EXCEPT !.at = "read"] EXCEPT !.list = S] \in CallRecords
                BY <2>0 DEF CallRecords, Places
            <3>3. call' \in [Calls -> CallRecords]  BY <3>1, <3>2 DEF TypeOK
            <3>4. QED  BY <2>5, <3>3 DEF ImportReads, TypeOK, Lists
        <2>6. CASE OpensTmp(c)
            <3>1. [call[c] EXCEPT !.at = "torn"] \in CallRecords
                BY <2>0 DEF CallRecords, Places
            <3>2. QED  BY <2>6, <3>1 DEF OpensTmp, TypeOK
        <2>7. CASE FillsTmp(c)
            <3>1. [call[c] EXCEPT !.at = "whole"] \in CallRecords
                BY <2>0 DEF CallRecords, Places
            <3>2. QED  BY <2>7, <2>0, <3>1 DEF FillsTmp, TypeOK
        <2>8. CASE Removes(c)
            BY <2>8, NoCallTyped DEF Removes, TypeOK, Lists
        <2>9. CASE Renames(c)
            <3>1. Call("reload", "asked", {}) \in CallRecords
                BY CallTyped DEF Ops, Places, Lists
            <3>2. file' \in Lists  BY <2>0, <2>9 DEF Renames, Holders, Holds
            <3>3. QED  BY <2>9, <3>1, <3>2, NoCallTyped DEF Renames, TypeOK
        <2>10. QED
            BY <1>4, <2>1, <2>2, <2>3, <2>4, <2>5, <2>6, <2>7, <2>8, <2>9 DEF Proceeds
    <1>5. CASE UNCHANGED vars  BY <1>5 DEF vars, TypeOK
    <1>6. QED  BY <1>1, <1>2, <1>3, <1>4, <1>5 DEF Next

-----------------------------------------------------------------------------
(* The lock keeps the temporary file.                                      *)

LEMMA HoldersInit == Init => Holders
    <1> SUFFICES ASSUME Init PROVE Holders  OBVIOUS
    <1>1. PICK c \in Calls : call = Loading(c)  BY DEF Init
    <1>2. QED
        BY <1>1, LoadingTyped, CallTyped, NoCallTyped
        DEF Holders, Holds, Free, Writing, Ops, Places, Lists

LEMMA HoldsFrame ==
    ASSUME NEW d \in Calls, Holds(d), call'[d] = call[d],
           Writing(d) => lock' = lock /\ tmp' = tmp
    PROVE  Holds(d)'
    BY DEF Holds, Writing, Free

LEMMA HoldsAsked ==
    ASSUME NEW c \in Calls, call'[c].op # "none", call'[c].at \in {"held", "asked", "read"},
           call'[c].op = "clear" => call'[c].list = {}
    PROVE  Holds(c)'
    BY DEF Holds, Writing

LEMMA HoldsFree == ASSUME NEW c \in Calls, call'[c] = NoCall PROVE Holds(c)'
    BY NoCallTyped DEF Holds, Writing, Free

LEMMA HoldersAsk ==
    ASSUME TypeOK, Holders, NEW c \in Calls, NEW o \in Ops \ {"none"},
           NEW l \in {"held", "asked"}, NEW S \in Lists,
           o = "clear" => S = {}, Ask(c, o, l, S), UNCHANGED <<lock, tmp>>
    PROVE  Holders'
    <1>1. Holds(c)'  BY AskMakes, HoldsAsked DEF Places
    <1>2. \A d \in Calls \ {c} : Holds(d)'  BY AskMakes, HoldsFrame DEF Holders, Places
    <1>3. QED  BY <1>1, <1>2 DEF Holders

LEMMA HoldersUser == ASSUME TypeOK, Holders, UserStep PROVE Holders'
    <1>1. ASSUME NEW S \in Lists, Save(S), UNCHANGED <<lock, tmp>> PROVE Holders'
        <2>1. CASE \E c \in Calls : Ask(c, "save", "asked", S)
            BY <1>1, <2>1, HoldersAsk DEF Ops
        <2>2. CASE UNCHANGED call
            BY <1>1, <2>2, HoldsFrame DEF Holders
        <2>3. QED  BY <1>1, <2>1, <2>2 DEF Save
    <1>2. \A i \in Items : memory \cup {i} \in Lists /\ memory \ {i} \in Lists
        BY DEF TypeOK, Lists
    <1>3. {} \in Lists  BY DEF Lists
    <1>4. CASE \E i \in Items : Edit(memory \cup {i}) \/ Edit(memory \ {i})
        BY <1>1, <1>2, <1>4 DEF Edit
    <1>5. CASE Clear
        <2>1. CASE Save({})  BY <1>1, <1>3, <1>5, <2>1 DEF Clear
        <2>2. CASE \E c \in Calls : Ask(c, "save", "held", {})
            BY <1>3, <1>5, <2>2, HoldersAsk DEF Clear, Ops
        <2>3. CASE \E c \in Calls : Ask(c, "clear", "asked", {})
            BY <1>3, <1>5, <2>3, HoldersAsk DEF Clear, Ops
        <2>4. QED  BY <1>5, <2>1, <2>2, <2>3 DEF Clear
    <1>6. CASE \E c \in Calls : Import(c) \/ Reload(c)
        BY <1>3, <1>6, HoldersAsk DEF Import, Reload, Ops
    <1>7. QED  BY <1>4, <1>5, <1>6 DEF UserStep

LEMMA HoldersProceed ==
    ASSUME TypeOK, Holders, NEW c \in Calls, Proceeds(c) \/ Fails(c)
    PROVE  Holders'
    <1>0. /\ call[c] \in CallRecords /\ call[c].list \in Lists /\ Holds(c)
          /\ \A d \in Calls : Holds(d)
        BY DEF TypeOK, CallRecords, Holders
    <1>1. ASSUME Holds(c)',
                 \A d \in Calls \ {c} :
                    call'[d] = call[d] /\ (Writing(d) => lock' = lock /\ tmp' = tmp)
          PROVE  Holders'
        BY <1>0, <1>1, HoldsFrame DEF Holders
    <1>2. \A d \in Calls \ {c} : Writing(d) => lock = d /\ ~Writing(c)
        BY <1>0 DEF Holds
    <1>3. ASSUME NEW ok \in BOOLEAN, UNCHANGED <<lock, tmp>>, call[c].op = "load",
                 \A d \in Calls \ {c} : call'[d] = Resumed(ok)[d]
          PROVE  \A d \in Calls \ {c} : Holds(d)'
        <2> TAKE d \in Calls \ {c}
        <2>1. CASE call[d].at # "held"  BY <1>0, <1>3, <2>1, ResumedTyped, HoldsFrame
        <2>2. CASE call[d].at = "held" /\ ~ok  BY <1>3, <2>2, ResumedTyped, HoldsFree
        <2>3. CASE call[d].at = "held" /\ ok
            BY <1>0, <1>3, <2>3, ResumedTyped, HoldsAsked, NoCallTyped DEF Holds, Free
        <2>4. QED  BY <2>1, <2>2, <2>3
    <1>4. Call("save", "asked", call[c].list).op = "save"
          /\ Call("save", "asked", call[c].list).at = "asked"
        BY <1>0, CallTyped DEF Ops, Places
    <1>5. CASE Loaded(c)
        <2>1. call'[c] \in {NoCall, Call("save", "asked", call[c].list)}
              /\ \A d \in Calls \ {c} : call'[d] = Resumed(TRUE)[d]
            BY <1>5, ResumedTyped DEF Loaded
        <2>2. Holds(c)'  BY <1>4, <2>1, HoldsAsked, HoldsFree
        <2>3. QED  BY <1>3, <1>5, <2>1, <2>2 DEF Loaded, At, Holders
    <1>6. CASE NotLoaded(c)
        <2>1. call'[c] = NoCall /\ \A d \in Calls \ {c} : call'[d] = Resumed(FALSE)[d]
            BY <1>6, ResumedTyped DEF NotLoaded
        <2>2. QED  BY <1>3, <1>6, <2>1, HoldsFree DEF NotLoaded, At, Holders
    <1>7. CASE Reloaded(c)
        <2>1. call'[c] \in {NoCall, Call("save", "asked", call[c].list)}
              /\ \A d \in Calls \ {c} : call'[d] = call[d]
            BY <1>7 DEF Reloaded, TypeOK
        <2>2. Holds(c)'  BY <1>4, <2>1, HoldsAsked, HoldsFree
        <2>3. QED  BY <1>1, <1>7, <2>1, <2>2 DEF Reloaded
    <1>8. CASE Read(c)
        <2>1. PICK S \in Lists : call' = [call EXCEPT ![c].at = "read", ![c].list = S]
            BY <1>8 DEF Read, TypeOK, Lists
        <2>2. Holds(c)'  BY <1>8, <2>1, ReadMakes, HoldsAsked DEF Read, At
        <2>3. QED  BY <1>1, <1>8, <2>1, <2>2, ReadMakes DEF Read
    <1>9. ASSUME NEW i \in Items, ImportReads(c, i) PROVE Holders'
        <2>1. PICK S \in Lists : call' = [call EXCEPT ![c].at = "read", ![c].list = S]
            BY <1>9 DEF ImportReads, TypeOK, Lists
        <2>2. Holds(c)'  BY <1>9, <2>1, ReadMakes, HoldsAsked DEF ImportReads, At
        <2>3. QED  BY <1>1, <1>9, <2>1, <2>2, ReadMakes DEF ImportReads
    <1>10. CASE OpensTmp(c)
        <2>1. lock = None /\ lock' = c /\ call' = [call EXCEPT ![c].at = "torn"]
              /\ call[c].op \in {"save", "import"}
            BY <1>10 DEF OpensTmp, At
        <2>2. Holds(c)'  BY <2>1, MoveMakes DEF Holds, Writing, Places
        <2>3. \A d \in Calls \ {c} : ~Writing(d)  BY <1>0, <2>1, NamesAssumption DEF Holds
        <2>4. QED  BY <1>1, <2>1, <2>2, <2>3, MoveMakes DEF Places
    <1>11. CASE FillsTmp(c)
        <2>1. /\ call[c].at = "torn" /\ call' = [call EXCEPT ![c].at = "whole"]
              /\ tmp' = call[c].list /\ lock' = lock
            BY <1>11 DEF FillsTmp
        <2>2. Holds(c)'  BY <1>0, <2>1, MoveMakes DEF Holds, Writing, Places
        <2>3. \A d \in Calls \ {c} : ~Writing(d)  BY <1>0, <1>2, <2>1 DEF Writing
        <2>4. QED  BY <1>1, <2>1, <2>2, <2>3, MoveMakes DEF Places
    <1>12. CASE Renames(c)
        <2>1. call[c].at = "whole"
              /\ call'[c] \in {NoCall, Call("reload", "asked", {})}
              /\ \A d \in Calls \ {c} : call'[d] = call[d]
            BY <1>12 DEF Renames, TypeOK
        <2>2. Call("reload", "asked", {}).op = "reload" /\ Call("reload", "asked", {}).at = "asked"
            BY CallTyped DEF Ops, Places, Lists
        <2>3. Holds(c)'  BY <2>1, <2>2, HoldsAsked, HoldsFree
        <2>4. \A d \in Calls \ {c} : ~Writing(d)  BY <1>0, <1>2, <2>1 DEF Writing
        <2>5. QED  BY <1>1, <2>1, <2>3, <2>4
    <1>13. CASE Removes(c)
        <2>1. call'[c] = NoCall /\ \A d \in Calls \ {c} : call'[d] = call[d]
            BY <1>13 DEF Removes, TypeOK
        <2>2. QED  BY <1>1, <1>13, <2>1, HoldsFree DEF Removes
    <1>14. CASE Fails(c)
        <2>1. call'[c] = NoCall /\ \A d \in Calls \ {c} : call'[d] = call[d]
            BY <1>14 DEF Fails, TypeOK
        <2>2. tmp' = tmp /\ lock' = IF lock = c THEN None ELSE lock  BY <1>14 DEF Fails
        <2>3. QED  BY <1>1, <1>2, <2>1, <2>2, HoldsFree
    <1>15. QED
        BY <1>5, <1>6, <1>7, <1>8, <1>9, <1>10, <1>11, <1>12, <1>13, <1>14 DEF Proceeds

LEMMA HoldersStep == ASSUME TypeOK, Holders, [Next]_vars PROVE Holders'
    <1>1. CASE UserStep  BY <1>1, HoldersUser
    <1>2. CASE Crash
        <2>1. PICK c \in Calls : call' = Loading(c)  BY <1>2 DEF Crash
        <2>2. QED
            BY <2>1, LoadingTyped, CallTyped, HoldsAsked, HoldsFree
            DEF Holders, Ops, Places, Lists
    <1>3. CASE \E c \in Calls : Proceeds(c) \/ Fails(c)  BY <1>3, HoldersProceed
    <1>4. CASE UNCHANGED vars  BY <1>4, HoldsFrame DEF vars, Holders
    <1>5. QED  BY <1>1, <1>2, <1>3, <1>4 DEF Next

-----------------------------------------------------------------------------
(* A process loads once.                                                   *)

LEMMA LoadsFrame ==
    ASSUME LoadsOnce, \A d \in Calls : call'[d].op = "load" <=> call[d].op = "load",
           loaded' = loaded
    PROVE  LoadsOnce'
    BY DEF LoadsOnce

LEMMA LoadsStarts ==
    ASSUME NEW c \in Calls, \A d \in Calls : call'[d] = Loading(c)[d], loaded' = "loading"
    PROVE  LoadsOnce'
    <1>1. \A d \in Calls : call'[d].op = "load" <=> d = c
        BY LoadingTyped, CallTyped, NoCallTyped DEF Ops, Places, Lists
    <1>2. QED  BY <1>1 DEF LoadsOnce

LEMMA LoadsUser == ASSUME TypeOK, LoadsOnce, UserStep PROVE LoadsOnce'
    <1>0. {} \in Lists  BY DEF Lists
    <1>1. ASSUME NEW c \in Calls, NEW o \in Ops \ {"none", "load"}, NEW l \in {"held", "asked"},
                 NEW S \in Lists, Ask(c, o, l, S), loaded' = loaded
          PROVE  LoadsOnce'
        <2>1. call[c].op = "none" /\ call'[c].op = o
              /\ \A d \in Calls \ {c} : call'[d] = call[d]
            BY <1>1, AskMakes DEF Places
        <2>2. \A d \in Calls : call'[d].op = "load" <=> call[d].op = "load"  BY <2>1
        <2>3. QED  BY <1>1, <2>2, LoadsFrame
    <1>2. ASSUME NEW S \in Lists, Save(S), loaded' = loaded PROVE LoadsOnce'
        BY <1>1, <1>2, LoadsFrame DEF Save, Ops
    <1>3. \A i \in Items : memory \cup {i} \in Lists /\ memory \ {i} \in Lists
        BY DEF TypeOK, Lists
    <1>4. CASE \E i \in Items : Edit(memory \cup {i}) \/ Edit(memory \ {i})
        BY <1>2, <1>3, <1>4 DEF Edit
    <1>5. CASE Clear
        BY <1>0, <1>1, <1>2, <1>5 DEF Clear, Ops
    <1>6. CASE \E c \in Calls : Import(c) \/ Reload(c)
        BY <1>0, <1>1, <1>6 DEF Import, Reload, Ops
    <1>7. QED  BY <1>4, <1>5, <1>6 DEF UserStep

(* The load answers.                                                       *)
LEMMA LoadsEnds ==
    ASSUME TypeOK, Holders, LoadsOnce, NEW c \in Calls, NEW ok \in BOOLEAN,
           At(c, "load", "read") \/ At(c, "load", "asked"),
           call'[c].op # "load", \A d \in Calls \ {c} : call'[d] = Resumed(ok)[d],
           loaded' # "loading"
    PROVE  LoadsOnce'
    <1>1. call[c].op = "load"  BY DEF At
    <1>2. \A d \in Calls \ {c} : call[d].op # "load"  BY <1>1 DEF LoadsOnce
    <1>3. \A d \in Calls \ {c} : call'[d].op # "load"
        BY <1>2, ResumedTyped, NoCallTyped
    <1>4. QED  BY <1>3 DEF LoadsOnce

LEMMA LoadsStep == ASSUME TypeOK, Holders, LoadsOnce, [Next]_vars PROVE LoadsOnce'
    <1>1. CASE UserStep  BY <1>1, LoadsUser
    <1>2. CASE Crash
        <2>1. PICK c \in Calls : call' = Loading(c)  BY <1>2 DEF Crash
        <2>2. QED  BY <1>2, <2>1, LoadsStarts DEF Crash
    <1>3. ASSUME NEW c \in Calls, Proceeds(c) \/ Fails(c) PROVE LoadsOnce'
        <2>0. call[c].list \in Lists /\ {} \in Lists  BY DEF TypeOK, CallRecords, Lists
        <2>1. ASSUME call[c].op # "load", call'[c].op # "load", loaded' = loaded,
                     \A d \in Calls \ {c} : call'[d] = call[d]
              PROVE  LoadsOnce'
            <3>1. \A d \in Calls : call'[d].op = "load" <=> call[d].op = "load"  BY <2>1
            <3>2. QED  BY <2>1, <3>1, LoadsFrame
        <2>2. ASSUME call'[c].op = call[c].op, loaded' = loaded,
                     \A d \in Calls \ {c} : call'[d] = call[d]
              PROVE  LoadsOnce'
            <3>1. \A d \in Calls : call'[d].op = "load" <=> call[d].op = "load"  BY <2>2
            <3>2. QED  BY <2>2, <3>1, LoadsFrame
        <2>3. Call("save", "asked", call[c].list).op # "load"
              /\ Call("reload", "asked", {}).op # "load" /\ NoCall.op # "load"
            BY <2>0, CallTyped, NoCallTyped DEF Ops, Places
        <2>4. CASE Loaded(c)
            <3>1. call'[c].op # "load" /\ \A d \in Calls \ {c} : call'[d] = Resumed(TRUE)[d]
                BY <2>3, <2>4, ResumedTyped DEF Loaded
            <3>2. QED  BY <2>4, <3>1, LoadsEnds DEF Loaded
        <2>5. CASE NotLoaded(c)
            <3>1. call'[c].op # "load" /\ \A d \in Calls \ {c} : call'[d] = Resumed(FALSE)[d]
                BY <2>3, <2>5, ResumedTyped DEF NotLoaded
            <3>2. QED  BY <2>5, <3>1, LoadsEnds DEF NotLoaded
        <2>6. CASE Reloaded(c)
            <3>1. call[c].op # "load" /\ call'[c].op # "load"
                  /\ \A d \in Calls \ {c} : call'[d] = call[d]
                BY <2>3, <2>6 DEF Reloaded, At, TypeOK
            <3>2. QED  BY <2>1, <2>6, <3>1 DEF Reloaded
        <2>7. CASE Read(c) \/ \E i \in Items : ImportReads(c, i)
            <3>1. PICK S \in Lists : call' = [call EXCEPT ![c].at = "read", ![c].list = S]
                BY <2>7 DEF Read, ImportReads, TypeOK, Lists
            <3>2. QED  BY <2>2, <2>7, <3>1, ReadMakes DEF Read, ImportReads
        <2>8. CASE OpensTmp(c) \/ FillsTmp(c)
            <3>1. PICK l \in Places : call' = [call EXCEPT ![c].at = l]
                BY <2>8 DEF OpensTmp, FillsTmp, Places
            <3>2. QED  BY <2>2, <2>8, <3>1, MoveMakes DEF OpensTmp, FillsTmp
        <2>9. CASE Renames(c)
            <3>1. call[c].op # "load"  BY <2>9 DEF Renames, Holders, Holds, Writing
            <3>2. call'[c].op # "load" /\ \A d \in Calls \ {c} : call'[d] = call[d]
                BY <2>3, <2>9 DEF Renames, TypeOK
            <3>3. QED  BY <2>1, <2>9, <3>1, <3>2 DEF Renames
        <2>10. CASE Removes(c) \/ Fails(c)
            <3>1. call[c].op # "load"  BY <2>10 DEF Removes, Fails, At
            <3>2. call'[c].op # "load" /\ \A d \in Calls \ {c} : call'[d] = call[d]
                BY <2>3, <2>10 DEF Removes, Fails, TypeOK
            <3>3. QED  BY <2>1, <2>10, <3>1, <3>2 DEF Removes, Fails
        <2>11. QED
            BY <1>3, <2>4, <2>5, <2>6, <2>7, <2>8, <2>9, <2>10 DEF Proceeds
    <1>4. CASE UNCHANGED vars  BY <1>4, LoadsFrame DEF vars
    <1>5. QED  BY <1>1, <1>2, <1>3, <1>4 DEF Next

-----------------------------------------------------------------------------
(* What is owed is kept.                                                   *)

LEMMA OwedFrame ==
    ASSUME NEW d \in Calls, HasOwed(d), call'[d] = call[d], owed' \subseteq owed
    PROVE  HasOwed(d)'
    BY DEF HasOwed, Carries

LEMMA OwedFree == ASSUME NEW c \in Calls, call'[c] = NoCall PROVE HasOwed(c)'
    BY NoCallTyped DEF HasOwed, Carries

LEMMA CarriedUser ==
    ASSUME TypeOK, StoredSurvives, Carried, UserStep, kind \notin FlagGated
    PROVE  (StoredSurvives /\ Carried)'
    <1>0. {} \in Lists  BY DEF Lists
    <1>1. \A d \in Calls : HasOwed(d)  BY DEF Carried
    <1>2. ASSUME NEW c \in Calls, NEW o \in Ops, NEW l \in {"held", "asked"}, NEW S \in Lists,
                 Ask(c, o, l, S), owed' \subseteq owed,
                 o = "save" => owed' \subseteq S, o = "clear" => owed' = {},
                 l = "held" => o = "save"
          PROVE  \A d \in Calls : HasOwed(d)'
        <2>1. HasOwed(c)'  BY <1>2, AskMakes DEF HasOwed, Carries, Places
        <2>2. \A d \in Calls \ {c} : HasOwed(d)'  BY <1>1, <1>2, AskMakes, OwedFrame DEF Places
        <2>3. QED  BY <2>1, <2>2
    <1>3. ASSUME UNCHANGED call, owed' \subseteq owed PROVE \A d \in Calls : HasOwed(d)'
        BY <1>1, <1>3, OwedFrame
    <1>4. ASSUME NEW S \in Lists, Edit(S) PROVE (StoredSurvives /\ Carried)'
        <2>1. owed' \subseteq owed /\ (loaded = "ok" => owed' \subseteq S)
            BY <1>4 DEF Edit, Carried
        <2>2. MaySave => loaded = "ok"  BY DEF MaySave
        <2>3. \A d \in Calls : HasOwed(d)'
            BY <1>2, <1>3, <1>4, <2>1, <2>2 DEF Edit, Save, Ops
        <2>4. QED  BY <1>4, <2>1, <2>3 DEF Edit, StoredSurvives, Carried
    <1>5. CASE Clear
        <2>1. \A d \in Calls : HasOwed(d)'
            BY <1>0, <1>2, <1>3, <1>5 DEF Clear, Save, Ops
        <2>2. QED  BY <1>5, <2>1 DEF Clear, StoredSurvives, Carried
    <1>6. ASSUME NEW c \in Calls, Import(c) \/ Reload(c) PROVE (StoredSurvives /\ Carried)'
        <2>1. \A d \in Calls : HasOwed(d)'
            BY <1>0, <1>2, <1>6 DEF Import, Reload, Ops
        <2>2. QED  BY <1>6, <2>1 DEF Import, Reload, StoredSurvives, Carried
    <1>7. \A i \in Items : memory \cup {i} \in Lists /\ memory \ {i} \in Lists
        BY DEF TypeOK, Lists
    <1>8. QED  BY <1>4, <1>5, <1>6, <1>7 DEF UserStep

LEMMA CarriedProceed ==
    ASSUME ~Lenient, TypeOK, Holders, StoredSurvives, Carried, kind \notin FlagGated,
           NEW c \in Calls, Proceeds(c) \/ Fails(c)
    PROVE  (StoredSurvives /\ Carried)'
    <1>0. /\ call[c].list \in Lists /\ {} \in Lists /\ Holds(c)
          /\ \A d \in Calls : HasOwed(d)
          /\ owed \subseteq file
        BY DEF TypeOK, CallRecords, Lists, Carried, StoredSurvives, Holders
    <1>1. ASSUME owed' \subseteq owed, \A d \in Calls \ {c} : call'[d] = call[d],
                 Carries(c)' => owed' \subseteq call'[c].list,
                 call'[c].op = "clear" => owed' = {}
          PROVE  \A d \in Calls : HasOwed(d)'
        <2>1. \A d \in Calls \ {c} : HasOwed(d)'  BY <1>0, <1>1, OwedFrame
        <2>2. HasOwed(c)'  BY <1>1 DEF HasOwed
        <2>3. QED  BY <2>1, <2>2
    <1>2. ASSUME NEW ok \in BOOLEAN, owed' = owed,
                 \A d \in Calls \ {c} : call'[d] = Resumed(ok)[d]
          PROVE  \A d \in Calls \ {c} : HasOwed(d)'
        <2> TAKE d \in Calls \ {c}
        <2>1. CASE call[d].at # "held"  BY <1>0, <1>2, <2>1, ResumedTyped, OwedFrame
        <2>2. CASE call[d].at = "held" /\ ~ok  BY <1>2, <2>2, ResumedTyped, OwedFree
        <2>3. CASE call[d].at = "held" /\ ok
            <3>1. call'[d].op = call[d].op /\ call'[d].list = call[d].list /\ call'[d].at = "asked"
                BY <1>2, <2>3, ResumedTyped
            <3>2. HasOwed(d)  BY <1>0
            <3>3. QED  BY <1>2, <3>1, <3>2 DEF HasOwed, Carries
        <2>4. QED  BY <2>1, <2>2, <2>3
    <1>3. LET s == Call("save", "asked", call[c].list)
              r == Call("reload", "asked", {})
          IN  s.op = "save" /\ s.list = call[c].list /\ r.op = "reload" /\ r.at = "asked"
        BY <1>0, CallTyped DEF Ops, Places
    <1>4. CASE Loaded(c)
        <2>1. call'[c] \in {NoCall, Call("save", "asked", call[c].list)}
              /\ \A d \in Calls \ {c} : call'[d] = Resumed(TRUE)[d]
            BY <1>4, ResumedTyped DEF Loaded
        <2>2. owed' = owed /\ owed \subseteq call[c].list
            BY <1>0, <1>4 DEF Loaded, At, HasOwed, Carries
        <2>3. HasOwed(c)'  BY <1>3, <2>1, <2>2, OwedFree DEF HasOwed, Carries
        <2>4. owed' \subseteq memory'  BY <1>4, <2>2 DEF Loaded
        <2>5. QED  BY <1>0, <1>2, <1>4, <2>1, <2>2, <2>3, <2>4 DEF Loaded, StoredSurvives, Carried
    <1>5. CASE NotLoaded(c)
        <2>1. call'[c] = NoCall /\ \A d \in Calls \ {c} : call'[d] = Resumed(FALSE)[d]
            BY <1>5, ResumedTyped DEF NotLoaded
        <2>2. QED
            BY <1>0, <1>2, <1>5, <2>1, OwedFree DEF NotLoaded, StoredSurvives, Carried
    <1>6. CASE Reloaded(c)
        <2>1. call'[c] \in {NoCall, Call("save", "asked", call[c].list)}
              /\ \A d \in Calls \ {c} : call'[d] = call[d]
            BY <1>6 DEF Reloaded, TypeOK
        <2>2. owed' = owed /\ owed \subseteq call[c].list
            BY <1>0, <1>6 DEF Reloaded, At, HasOwed, Carries
        <2>3. \A d \in Calls : HasOwed(d)'
            BY <1>1, <1>3, <2>1, <2>2, NoCallTyped DEF Carries
        <2>4. QED  BY <1>0, <1>6, <2>2, <2>3 DEF Reloaded, StoredSurvives, Carried
    <1>7. CASE Read(c)
        <2>1. call' = [call EXCEPT ![c].at = "read", ![c].list = file]
            BY <1>7 DEF Read, Lenient
        <2>2. call'[c].list = file /\ call'[c].op # "clear"
              /\ \A d \in Calls \ {c} : call'[d] = call[d]
            BY <1>7, <2>1, ReadMakes DEF Read, At, TypeOK
        <2>3. \A d \in Calls : HasOwed(d)'  BY <1>0, <1>1, <1>7, <2>2 DEF Read
        <2>4. QED  BY <1>7, <2>3 DEF Read, StoredSurvives, Carried
    <1>8. ASSUME NEW i \in Items, ImportReads(c, i) PROVE (StoredSurvives /\ Carried)'
        <2>1. PICK S \in Lists : /\ call' = [call EXCEPT ![c].at = "read", ![c].list = S]
                                 /\ owed' \subseteq owed /\ owed' \subseteq S
            <3>1. file \cup {i} \in Lists /\ {i} \in Lists  BY DEF TypeOK, Lists
            <3>2. QED  BY <1>0, <1>8, <3>1 DEF ImportReads
        <2>2. call'[c].list = S /\ call'[c].op # "clear"
              /\ \A d \in Calls \ {c} : call'[d] = call[d]
            BY <1>8, <2>1, ReadMakes DEF ImportReads, At
        <2>3. \A d \in Calls : HasOwed(d)'  BY <1>1, <2>1, <2>2
        <2>4. QED  BY <1>8, <2>1, <2>3 DEF ImportReads, StoredSurvives, Carried
    <1>9. CASE OpensTmp(c) \/ FillsTmp(c)
        <2>1. PICK l \in {"torn", "whole"} : call' = [call EXCEPT ![c].at = l]
            BY <1>9 DEF OpensTmp, FillsTmp
        <2>2. owed' = owed /\ Carries(c) /\ call[c].op # "clear"
            BY <1>0, <1>9 DEF OpensTmp, FillsTmp, At, Carries, Holds, Writing
        <2>3. \A d \in Calls : HasOwed(d)'
            BY <1>0, <1>1, <2>1, <2>2, MoveMakes DEF HasOwed, Places
        <2>4. QED  BY <1>9, <2>3 DEF OpensTmp, FillsTmp, StoredSurvives, Carried
    <1>10. CASE Renames(c)
        <2>1. call'[c] \in {NoCall, Call("reload", "asked", {})}
              /\ \A d \in Calls \ {c} : call'[d] = call[d]
            BY <1>10 DEF Renames, TypeOK
        <2>2. owed' = owed /\ owed' \subseteq file'
            BY <1>0, <1>10 DEF Renames, Holds, Writing, HasOwed, Carries
        <2>3. \A d \in Calls : HasOwed(d)'
            BY <1>1, <1>3, <2>1, <2>2, NoCallTyped DEF Carries
        <2>4. QED  BY <1>10, <2>2, <2>3 DEF Renames, StoredSurvives, Carried
    <1>11. CASE Removes(c)
        <2>1. call'[c] = NoCall /\ \A d \in Calls \ {c} : call'[d] = call[d]
            BY <1>11 DEF Removes, TypeOK
        <2>2. owed' = owed /\ owed' = {}  BY <1>0, <1>11 DEF Removes, At, HasOwed
        <2>3. \A d \in Calls : HasOwed(d)'  BY <1>1, <2>1, <2>2
        <2>4. QED  BY <1>11, <2>2, <2>3 DEF Removes, StoredSurvives, Carried
    <1>12. CASE Fails(c)
        <2>1. call'[c] = NoCall /\ \A d \in Calls \ {c} : call'[d] = call[d]
            BY <1>12 DEF Fails, TypeOK
        <2>2. \A d \in Calls : HasOwed(d)'
            BY <1>1, <1>12, <2>1, NoCallTyped DEF Fails, Carries
        <2>3. QED  BY <1>12, <2>2 DEF Fails, StoredSurvives, Carried
    <1>13. QED
        BY <1>4, <1>5, <1>6, <1>7, <1>8, <1>9, <1>10, <1>11, <1>12 DEF Proceeds

LEMMA CarriedStep ==
    ASSUME ~Lenient, TypeOK, Holders, StoredSurvives, Carried, [Next]_vars
    PROVE  (StoredSurvives /\ Carried)'
    <1>1. CASE kind \in FlagGated
        <2>1. kind' = kind
            BY DEF Next, UserStep, Edit, Clear, Import, Reload, Crash, Proceeds, Fails, vars,
                   Loaded, NotLoaded, Reloaded, Read, ImportReads, OpensTmp, FillsTmp,
                   Renames, Removes
        <2>2. QED  BY <1>1, <2>1 DEF StoredSurvives, Carried
    <1>2. CASE kind \notin FlagGated /\ UserStep  BY <1>2, CarriedUser
    <1>3. CASE Crash
        <2>1. PICK c \in Calls : call' = Loading(c)  BY <1>3 DEF Crash
        <2>2. \A d \in Calls : HasOwed(d)'
            BY <2>1, LoadingTyped, CallTyped, NoCallTyped DEF HasOwed, Carries, Ops, Places, Lists
        <2>3. QED  BY <1>3, <2>2 DEF Crash, StoredSurvives, Carried
    <1>4. CASE kind \notin FlagGated /\ \E c \in Calls : Proceeds(c) \/ Fails(c)
        BY <1>4, CarriedProceed
    <1>5. CASE UNCHANGED vars
        <2>1. (\A d \in Calls : HasOwed(d)) => \A d \in Calls : HasOwed(d)'
            BY <1>5, OwedFrame DEF vars
        <2>2. QED  BY <1>5, <2>1 DEF vars, StoredSurvives, Carried
    <1>6. QED  BY <1>1, <1>2, <1>3, <1>4, <1>5 DEF Next

-----------------------------------------------------------------------------
(* One command at a time brings the file and the store together.           *)

LEMMA AgreesFree == ASSUME NEW c \in Calls, call'[c].op = "none" PROVE Agrees(c)'
    BY DEF Agrees

(* A command that is asked for while none is under way.                    *)
LEMMA AgreesAsk ==
    ASSUME TypeOK, NEW c \in Calls, NEW o \in Ops, NEW l \in {"held", "asked"}, NEW S \in Lists,
           Ask(c, o, l, S), ~muddled', o \in {"save", "clear"} => memory' = S,
           o = "clear" => S = {}
    PROVE  /\ ~muddled /\ (~Idle' \/ o = "none")
           /\ \A d \in Calls : call[d].op = "none"
           /\ Alone' /\ \A d \in Calls : Agrees(d)'
    <1>1. /\ ~muddled /\ \A d \in Calls : call[d].op = "none"
          /\ \A d \in Calls \ {c} : call'[d] = call[d]
          /\ call'[c].op = o /\ call'[c].at = l /\ call'[c].list = S
        BY AskMakes DEF Places
    <1>2. \A d \in Calls \ {c} : Agrees(d)'  BY <1>1, AgreesFree
    <1>3. Agrees(c)'  BY <1>1 DEF Agrees
    <1>4. Alone'  BY <1>1 DEF Alone
    <1>5. ~Idle' \/ o = "none"  BY <1>1, NoCallTyped DEF Idle, Free
    <1>6. QED  BY <1>1, <1>2, <1>3, <1>4, <1>5

LEMMA SettlingUser ==
    ASSUME TypeOK, LoadsOnce, SettledMatches, Settling, UserStep, ~muddled'
    PROVE  (SettledMatches /\ Settling)'
    <1>0. {} \in Lists /\ UNCHANGED <<kind, file, loaded>>
        BY DEF Lists, UserStep, Edit, Clear, Import, Reload
    <1>1. MaySave' = MaySave  BY <1>0 DEF MaySave
    <1>2. ASSUME NEW c \in Calls, NEW o \in Ops \ {"none"}, NEW l \in {"held", "asked"},
                 NEW S \in Lists, Ask(c, o, l, S),
                 o \in {"save", "clear"} => memory' = S, o = "clear" => S = {}
          PROVE  (SettledMatches /\ Settling)'
        <2>1. /\ ~Idle' /\ Alone' /\ \A d \in Calls : Agrees(d)'
              /\ \A d \in Calls : call[d].op = "none"
            BY <1>2, AgreesAsk
        <2>2. loaded # "loading"  BY <2>1 DEF LoadsOnce
        <2>3. QED  BY <1>0, <2>1, <2>2 DEF SettledMatches, Settling
    <1>3. ASSUME ~MaySave, UNCHANGED <<call, muddled>>,
                 kind' \in {"settings", "history"} /\ loaded' = "loading" => memory' = {}
          PROVE  (SettledMatches /\ Settling)'
        <2>1. Alone /\ \A d \in Calls : Agrees(d)  BY <1>3 DEF Settling
        <2>2. Alone' /\ \A d \in Calls : Agrees(d)'
            BY <1>0, <1>1, <1>3, <2>1 DEF Alone, Agrees
        <2>3. QED  BY <1>1, <1>3, <2>2 DEF SettledMatches, Settling
    <1>4. ASSUME NEW S \in Lists, Edit(S) PROVE (SettledMatches /\ Settling)'
        <2>1. ~MaySave => ~(kind' \in {"settings", "history"} /\ loaded' = "loading")
            BY <1>4 DEF Edit, MaySave, FlagGated, Awaiting
        <2>2. QED  BY <1>2, <1>3, <1>4, <2>1 DEF Edit, Save, Ops
    <1>5. CASE Clear
        <2>1. memory' = {}  BY <1>5 DEF Clear
        <2>2. CASE Save({})  BY <1>0, <1>2, <1>3, <2>1, <2>2 DEF Save, Ops
        <2>3. CASE \E c \in Calls : Ask(c, "save", "held", {})
            BY <1>0, <1>2, <2>1, <2>3 DEF Ops
        <2>4. CASE \E c \in Calls : Ask(c, "clear", "asked", {})
            BY <1>0, <1>2, <2>1, <2>4 DEF Ops
        <2>5. QED  BY <1>5, <2>2, <2>3, <2>4 DEF Clear
    <1>6. CASE \E c \in Calls : Import(c) \/ Reload(c)
        BY <1>0, <1>2, <1>6 DEF Import, Reload, Ops
    <1>7. \A i \in Items : memory \cup {i} \in Lists /\ memory \ {i} \in Lists
        BY DEF TypeOK, Lists
    <1>8. QED  BY <1>4, <1>5, <1>6, <1>7 DEF UserStep

LEMMA SettlingProceed ==
    ASSUME ~Lenient, TypeOK, Holders, LoadsOnce, SettledMatches, Settling, ~muddled',
           NEW c \in Calls, Proceeds(c) \/ Fails(c)
    PROVE  (SettledMatches /\ Settling)'
    <1>0. Proceeds(c) /\ kind' = kind /\ ~muddled
        <2>1. ~Fails(c)  BY DEF Fails
        <2>2. UNCHANGED <<kind, muddled>>
            BY <2>1 DEF Proceeds, Loaded, NotLoaded, Reloaded, Read, ImportReads, OpensTmp,
                    FillsTmp, Renames, Removes
        <2>3. QED  BY <2>1, <2>2
    <1>1. /\ Alone /\ Agrees(c)
          /\ loaded = "loading" /\ kind \in {"settings", "history"} => memory = {}
          /\ call[c].list \in Lists
        BY <1>0 DEF Settling, TypeOK, CallRecords
    <1>2. call[c].op # "none"
        <2>1. call[c] # NoCall
            BY <1>0, NoCallTyped DEF Proceeds, Loaded, NotLoaded, Reloaded, Read, ImportReads,
               OpensTmp, FillsTmp, Renames, Removes, At
        <2>2. QED  BY <2>1 DEF Holders, Holds, Free
    <1>3. \A d \in Calls \ {c} : call[d].op = "none" /\ call[d] = NoCall
        BY <1>1, <1>2 DEF Alone, Holders, Holds, Free
    <1>4. \A d \in Calls \ {c} : \A ok \in BOOLEAN : Resumed(ok)[d] = call[d]
        BY <1>3, ResumedTyped, NoCallTyped
    <1>5. ASSUME \A d \in Calls \ {c} : call'[d] = call[d], Agrees(c)',
                 loaded' = "loading" /\ kind \in {"settings", "history"} => memory' = {},
                 call'[c].op = "none" /\ MaySave' => file' = memory'
          PROVE  (SettledMatches /\ Settling)'
        <2>1. Alone' /\ \A d \in Calls : Agrees(d)'  BY <1>3, <1>5, AgreesFree DEF Alone
        <2>2. Idle' => call'[c].op = "none"  BY NoCallTyped DEF Idle, Free
        <2>3. QED  BY <1>0, <1>5, <2>1, <2>2 DEF SettledMatches, Settling
    <1>6. LET s == Call("save", "asked", call[c].list)
              r == Call("reload", "asked", {})
          IN  /\ s.op = "save" /\ s.list = call[c].list /\ s.at = "asked"
              /\ r.op = "reload" /\ r.at = "asked"
        BY <1>1, CallTyped DEF Ops, Places, Lists
    <1>7. CASE Loaded(c)
        <2>1. /\ call[c].op = "load" /\ loaded = "loading" /\ loaded' = "ok"
              /\ call[c].list = file /\ file' = file
            BY <1>1, <1>7 DEF Loaded, At, LoadsOnce, Agrees
        <2>2. memory' = file
            BY <1>1, <1>7, <2>1 DEF Loaded
        <2>3. /\ call'[c] \in {NoCall, Call("save", "asked", call[c].list)}
              /\ \A d \in Calls \ {c} : call'[d] = call[d]
            BY <1>4, <1>7, ResumedTyped DEF Loaded
        <2>4. Agrees(c)'  BY <1>6, <2>1, <2>2, <2>3, NoCallTyped DEF Agrees
        <2>5. QED  BY <1>5, <2>1, <2>2, <2>3, <2>4
    <1>8. CASE NotLoaded(c)
        <2>1. call'[c] = NoCall /\ \A d \in Calls \ {c} : call'[d] = call[d]
            BY <1>4, <1>8, ResumedTyped DEF NotLoaded
        <2>2. loaded' = "failed" /\ ~MaySave'  BY <1>8 DEF NotLoaded, MaySave
        <2>3. QED  BY <1>5, <2>1, <2>2, NoCallTyped, AgreesFree
    <1>9. CASE Reloaded(c)
        <2>1. /\ call[c].op = "reload" /\ memory' = file /\ call[c].list = file
              /\ file' = file /\ loaded' = loaded
            BY <1>1, <1>9 DEF Reloaded, At, Agrees
        <2>2. loaded # "loading"  BY <1>3, <2>1 DEF LoadsOnce
        <2>3. /\ call'[c] \in {NoCall, Call("save", "asked", call[c].list)}
              /\ \A d \in Calls \ {c} : call'[d] = call[d]
            BY <1>9 DEF Reloaded, TypeOK
        <2>4. Agrees(c)'  BY <1>6, <2>1, <2>3, NoCallTyped DEF Agrees
        <2>5. QED  BY <1>5, <2>1, <2>2, <2>3, <2>4
    <1>10. CASE Read(c)
        <2>1. call' = [call EXCEPT ![c].at = "read", ![c].list = file]
            BY <1>10 DEF Read, Lenient
        <2>2. /\ call'[c].list = file /\ call'[c].op \in {"load", "reload"}
              /\ \A d \in Calls \ {c} : call'[d] = call[d]
            BY <1>10, <2>1, ReadMakes DEF Read, At, TypeOK
        <2>3. UNCHANGED <<file, loaded, memory>>  BY <1>10 DEF Read
        <2>4. Agrees(c)'  BY <2>2, <2>3 DEF Agrees
        <2>5. QED  BY <1>1, <1>5, <2>2, <2>3, <2>4
    <1>11. ASSUME NEW i \in Items, ImportReads(c, i) PROVE (SettledMatches /\ Settling)'
        <2>1. PICK S \in Lists : call' = [call EXCEPT ![c].at = "read", ![c].list = S]
            BY <1>11 DEF ImportReads, TypeOK, Lists
        <2>2. call'[c].op = "import" /\ \A d \in Calls \ {c} : call'[d] = call[d]
            BY <1>11, <2>1, ReadMakes DEF ImportReads, At
        <2>3. UNCHANGED <<file, loaded, memory>>  BY <1>11 DEF ImportReads
        <2>4. Agrees(c)'  BY <2>2 DEF Agrees
        <2>5. QED  BY <1>1, <1>5, <2>2, <2>3, <2>4
    <1>12. CASE OpensTmp(c) \/ FillsTmp(c)
        <2>1. PICK l \in {"torn", "whole"} : call' = [call EXCEPT ![c].at = l]
            BY <1>12 DEF OpensTmp, FillsTmp
        <2>2. /\ call'[c].op = call[c].op /\ call'[c].list = call[c].list /\ call'[c].at # "read"
              /\ \A d \in Calls \ {c} : call'[d] = call[d]
            BY <2>1, MoveMakes DEF Places
        <2>3. UNCHANGED <<file, loaded, memory>>  BY <1>12 DEF OpensTmp, FillsTmp
        <2>4. MaySave' = MaySave  BY <1>0, <2>3 DEF MaySave
        <2>5. Agrees(c)'  BY <1>1, <2>2, <2>3, <2>4 DEF Agrees
        <2>6. QED  BY <1>1, <1>2, <1>5, <2>2, <2>3, <2>5
    <1>13. CASE Renames(c)
        <2>1. call[c].op \in {"save", "import"} /\ file' = call[c].list
            BY <1>13 DEF Renames, Holders, Holds, Writing
        <2>2. UNCHANGED <<loaded, memory>>  BY <1>13 DEF Renames
        <2>3. MaySave' = MaySave  BY <1>0, <2>2 DEF MaySave
        <2>4. \A d \in Calls \ {c} : call'[d] = call[d]  BY <1>13 DEF Renames, TypeOK
        <2>5. CASE call[c].op = "save"
            <3>1. call'[c] = NoCall  BY <1>13, <2>5 DEF Renames, TypeOK
            <3>2. MaySave => file' = memory'  BY <1>1, <2>1, <2>2, <2>5 DEF Agrees
            <3>3. QED  BY <1>1, <1>5, <2>2, <2>3, <2>4, <3>1, <3>2, NoCallTyped, AgreesFree
        <2>6. CASE call[c].op = "import"
            <3>1. call'[c].op = "reload" /\ call'[c].at = "asked"
                BY <1>6, <1>13, <2>6 DEF Renames, TypeOK
            <3>2. Agrees(c)'  BY <3>1 DEF Agrees
            <3>3. QED  BY <1>1, <1>5, <2>2, <2>4, <3>1, <3>2
        <2>7. QED  BY <2>1, <2>5, <2>6
    <1>14. CASE Removes(c)
        <2>1. call'[c] = NoCall /\ \A d \in Calls \ {c} : call'[d] = call[d]
            BY <1>14 DEF Removes, TypeOK
        <2>2. file' = {} /\ UNCHANGED <<loaded, memory>> /\ call[c].op = "clear"
            BY <1>14 DEF Removes, At
        <2>3. MaySave' = MaySave  BY <1>0, <2>2 DEF MaySave
        <2>4. MaySave => memory = {}  BY <1>1, <2>2 DEF Agrees
        <2>5. QED  BY <1>1, <1>5, <2>1, <2>2, <2>3, <2>4, NoCallTyped, AgreesFree
    <1>15. QED
        BY <1>0, <1>7, <1>8, <1>9, <1>10, <1>11, <1>12, <1>13, <1>14 DEF Proceeds

LEMMA SettlingStep ==
    ASSUME ~Lenient, TypeOK, Holders, LoadsOnce, SettledMatches, Settling, [Next]_vars
    PROVE  (SettledMatches /\ Settling)'
    <1>1. CASE muddled'  BY <1>1 DEF SettledMatches, Settling
    <1>2. CASE ~muddled' /\ UserStep  BY <1>2, SettlingUser
    <1>3. CASE Crash
        <2>1. PICK c \in Calls : call' = Loading(c)  BY <1>3 DEF Crash
        <2>2. /\ call'[c].op = "load" /\ call'[c].at = "asked"
              /\ \A d \in Calls \ {c} : call'[d].op = "none"
            BY <2>1, LoadingTyped, CallTyped, NoCallTyped DEF Ops, Places, Lists
        <2>3. Alone' /\ ~Idle' /\ \A d \in Calls : Agrees(d)'
            BY <2>2, NoCallTyped DEF Alone, Idle, Free, Agrees
        <2>4. QED  BY <1>3, <2>3 DEF Crash, SettledMatches, Settling
    <1>4. CASE ~muddled' /\ \E c \in Calls : Proceeds(c) \/ Fails(c)
        BY <1>4, SettlingProceed
    <1>5. CASE UNCHANGED vars
        <2>1. Alone => Alone'  BY <1>5 DEF vars, Alone
        <2>2. \A d \in Calls : Agrees(d) => Agrees(d)'  BY <1>5 DEF vars, Agrees, MaySave
        <2>3. SettledMatches'  BY <1>5 DEF vars, SettledMatches, Idle, Free, MaySave
        <2>4. QED  BY <1>5, <2>1, <2>2, <2>3 DEF vars, Settling
    <1>6. QED  BY <1>1, <1>2, <1>3, <1>4, <1>5 DEF Next

-----------------------------------------------------------------------------
(* The theorems.                                                           *)

LEMMA ListsInit == Init => ListsInv
    <1> SUFFICES ASSUME Init PROVE ListsInv  OBVIOUS
    <1>1. PICK c \in Calls : call = Loading(c)  BY DEF Init
    <1>2. \A d \in Calls : /\ call[d].list = {} /\ call[d].at = "asked"
                            /\ call[d].op = IF d = c THEN "load" ELSE "none"
        BY <1>1, LoadingTyped, CallTyped, NoCallTyped DEF Ops, Places, Lists
    <1>3. LoadsOnce  BY <1>2 DEF Init, LoadsOnce
    <1>4. StoredSurvives /\ Carried  BY <1>2 DEF Init, StoredSurvives, Carried, HasOwed, Carries
    <1>5. SettledMatches
        <2>1. call[c] # NoCall  BY <1>2, NoCallTyped
        <2>2. QED  BY <2>1 DEF SettledMatches, Idle, Free
    <1>6. Settling  BY <1>2 DEF Init, Settling, Alone, Agrees
    <1>7. QED  BY <1>3, <1>4, <1>5, <1>6, TypeInit, HoldersInit DEF ListsInv

(* The state of the stores and of the commands has its type, and a command *)
(* that writes holds the lock, whatever files can be read.                 *)
THEOREM ListsTyped == Spec => [](TypeOK /\ Holders)
    <1>1. Init => TypeOK /\ Holders  BY TypeInit, HoldersInit
    <1>2. TypeOK /\ Holders /\ [Next]_vars => (TypeOK /\ Holders)'  BY TypeStep, HoldersStep
    <1>3. QED  BY <1>1, <1>2, PTL DEF Spec

LEMMA LenientStep == [Next]_vars => Lenient' = Lenient
    <1> SUFFICES ASSUME [Next]_vars PROVE kind' = kind  BY DEF Lenient
    <1>1. QED
        BY DEF Next, UserStep, Edit, Clear, Import, Reload, Crash, Proceeds, Fails, vars,
               Loaded, NotLoaded, Reloaded, Read, ImportReads, OpensTmp, FillsTmp,
               Renames, Removes

(* What was stored stays stored until the user removes it, and the file    *)
(* and the store agree when commands that did not overlap are over: for    *)
(* every list whose load fails when its file cannot be decrypted, which    *)
(* are those of connections, folders, credentials and settings, and for    *)
(* every list as long as files decrypt (the stores over storage.rs).       *)
THEOREM StrictListsKept == Spec => [](~Lenient => ListsAreKept)
    <1>1. Init => ListsInv  BY ListsInit
    <1>2. (~Lenient => ListsInv) /\ [Next]_vars => (~Lenient => ListsInv)'
        BY LenientStep, TypeStep, HoldersStep, LoadsStep, CarriedStep, SettlingStep DEF ListsInv
    <1>3. (~Lenient => ListsInv) => (~Lenient => ListsAreKept)  BY DEF ListsInv, ListsAreKept
    <1>4. QED  BY <1>1, <1>2, <1>3, PTL DEF Spec

(* The same for every list of a process whose files decrypt.               *)
THEOREM ListsKept == ASSUME ~Unreadable PROVE Spec => []ListsAreKept
    <1>1. ~Lenient  BY DEF Lenient
    <1>2. (~Lenient => ListsAreKept) => ListsAreKept  BY <1>1
    <1>3. QED  BY <1>2, StrictListsKept, PTL

LEMMA ReplacedStep ==
    ASSUME TypeOK, Holders, [Next]_vars, file' # file
    PROVE  file' \in Wanted
    <1>1. PICK c \in Calls : Renames(c) \/ Removes(c)
        BY DEF Next, UserStep, Edit, Clear, Import, Reload, Crash, Proceeds, Fails, Loaded,
               NotLoaded, Reloaded, Read, ImportReads, OpensTmp, FillsTmp, vars
    <1>2. call[c].op \in {"save", "import", "clear"} /\ file' = call[c].list
        BY <1>1 DEF Renames, Removes, At, Holders, Holds, Writing
    <1>3. QED  BY <1>2 DEF Wanted

(* A change of the file puts there a whole list that a command in flight   *)
(* was asked to write, whoever else writes and whenever the process ends   *)
(* (write_atomic, clear_local_history).                                    *)
THEOREM FilesAreReplacedWhole == Spec => ReplacedWhole
    <1> DEFINE A == file' # file => file' \in Wanted
    <1>1. TypeOK /\ Holders /\ [Next]_vars => [A]_vars  BY ReplacedStep DEF vars
    <1>2. ReplacedWhole <=> [][A]_vars  BY DEF ReplacedWhole
    <1> HIDE DEF A
    <1>3. QED  BY <1>1, <1>2, ListsTyped, PTL DEF Spec

-----------------------------------------------------------------------------
(* The calls on the files, and what each may have to do. *)
Steps == {"key", "make", "keep", "print", "end"}
KeyCalls == [todo : Seq(Steps), loads : BOOLEAN, key : Keys, print : Prints, seals : BOOLEAN]

(* The last step of a command ends it, and the first may make a key. *)
In(step, todo) == \E i \in DOMAIN todo : todo[i] = step
WellFormed(todo) ==
    \A i \in DOMAIN todo :
        /\ todo[i] = "end" => i = Len(todo)
        /\ todo[i] \in {"make", "keep"} => i = 1
Shaped == \A k \in KeyKinds : WellFormed(calls[k].todo)

(* What a save stores is something that was loaded. *)
Held == \A k \in KeyKinds : calls[k].todo # <<>> /\ ~calls[k].loads => inMemory[k] \in Contents

(* A first use is about to make the key, or to keep it in the file.         *)
Pending(k) == Does(k, "make") \/ Does(k, "keep")

(* There is one of them at a time, and it finds no key. *)
OneMaker == \A j, k \in KeyKinds : Pending(j) /\ Pending(k) => j = k
MakerAlone ==
    \A k \in KeyKinds :
        /\ Pending(k) => keyFile = NoKey
        /\ Does(k, "make") => keyring.key = NoKey
        /\ Does(k, "keep") => keyring.key \in {NoKey, calls[k].key} /\ calls[k].key # NoKey
KeyPlaces == {NoKey, keyFile, keyring.key}

(* There is one key: what the process, the calls and the files have is that *)
(* of the keyring or of the key file, which agree, or the one being kept.   *)
OneKey ==
    /\ \/ keyring.key \in {NoKey, keyFile}
       \/ \E k \in KeyKinds : Does(k, "keep") /\ calls[k].key = keyring.key
    /\ process.key \in KeyPlaces
    /\ \A k \in KeyKinds : stored[k].key \in KeyPlaces \cup {Legacy}
    /\ \A k \in KeyKinds : calls[k].key \in KeyPlaces \/ Does(k, "keep")
KeysAgree == OneMaker /\ MakerAlone /\ OneKey

(* What is stored is what was saved, the call under way will be able to open*)
(* it, and what it will store is what was loaded.                           *)
Sound(k) ==
    /\ stored[k].content = "intact" /\ inMemory[k] \notin {"garbled", "lost"}
    /\ calls[k].todo # <<>> /\ ~calls[k].loads => inMemory[k] = "intact"
    /\ calls[k].todo # <<>> /\ calls[k].loads =>
           stored[k].there /\ (In("key", calls[k].todo) \/ Does(k, "make") \/ Opened(k))
    /\ k \in {"folders", "history"} =>
           /\ stored[k].there => stored[k].print = "real"
           /\ calls[k].todo # <<>> => In("print", calls[k].todo) \/ calls[k].print = "real"

(* The inductive invariant. *)
KeyInvs ==
    /\ KeyTypeOK /\ Shaped /\ Held
    /\ astray \subseteq {"undetected"} => KeysAgree
    /\ astray = {} => \A k \in KeyKinds : Sound(k)

-----------------------------------------------------------------------------
(* The rest of a command is well formed. *)
LEMMA RestOfTodo ==
    ASSUME NEW s \in Seq(Steps), s # <<>>, WellFormed(s)
    PROVE  /\ Tail(s) \in Seq(Steps) /\ WellFormed(Tail(s)) /\ Head(s) \in Steps
           /\ Tail(s) # <<>> => Head(Tail(s)) \notin {"make", "keep"}
           /\ \A x \in Steps : In(x, s) /\ Head(s) # x => In(x, Tail(s))
           /\ Head(s) = "end" => \A x \in Steps : In(x, s) => x = "end"
<1>1. /\ Tail(s) \in Seq(Steps) /\ Head(s) = s[1] /\ 1 \in DOMAIN s /\ Len(Tail(s)) = Len(s) - 1
      /\ \A i \in DOMAIN Tail(s) : i + 1 \in DOMAIN s /\ i + 1 # 1 /\ Tail(s)[i] = s[i + 1]
      /\ \A i \in DOMAIN s : i # 1 => i - 1 \in DOMAIN Tail(s) /\ Tail(s)[i - 1] = s[i]
      /\ DOMAIN s = 1..Len(s) /\ DOMAIN Tail(s) = 1..Len(Tail(s)) /\ Len(s) \in Nat
    OBVIOUS
<1>2. WellFormed(Tail(s))
    BY <1>1 DEF WellFormed
<1>3. Tail(s) # <<>> => Head(Tail(s)) \notin {"make", "keep"}
    <2> SUFFICES ASSUME Tail(s) # <<>> PROVE Head(Tail(s)) \notin {"make", "keep"}
        OBVIOUS
    <2>1. 1 \in DOMAIN Tail(s) /\ Head(Tail(s)) = Tail(s)[1]
        BY <1>1
    <2> QED BY <1>1, <2>1 DEF WellFormed
<1>4. \A x \in Steps : In(x, s) /\ Head(s) # x => In(x, Tail(s))
    BY <1>1 DEF In
<1>5. Head(s) = "end" => \A x \in Steps : In(x, s) => x = "end"
    BY <1>1 DEF In, WellFormed
<1>6. Head(s) \in Steps
    BY <1>1
<1> QED BY <1>1, <1>2, <1>3, <1>4, <1>5, <1>6

(* And so is one whose first step is replaced. *)
LEMMA NewFirst ==
    ASSUME NEW s \in Seq(Steps), s # <<>>, WellFormed(s), NEW x \in {"make", "keep"}
    PROVE  /\ <<x>> \o Tail(s) \in Seq(Steps) /\ WellFormed(<<x>> \o Tail(s))
           /\ <<x>> \o Tail(s) # <<>> /\ Head(<<x>> \o Tail(s)) = x
           /\ \A y \in Steps : In(y, s) /\ Head(s) # y => In(y, <<x>> \o Tail(s))
<1> DEFINE rest == Tail(s)
           new == <<x>> \o rest
<1>1. /\ rest \in Seq(Steps) /\ WellFormed(rest)
      /\ rest # <<>> => Head(rest) \notin {"make", "keep"}
      /\ \A y \in Steps : In(y, s) /\ Head(s) # y => In(y, rest)
    BY RestOfTodo
<1> HIDE DEF rest
<1>2. /\ x \in Steps /\ new \in Seq(Steps) /\ Len(new) = Len(rest) + 1 /\ new[1] = x
      /\ \A i \in DOMAIN new : i # 1 => i - 1 \in DOMAIN rest /\ new[i] = rest[i - 1]
      /\ \A i \in DOMAIN rest : i + 1 \in DOMAIN new /\ new[i + 1] = rest[i]
      /\ DOMAIN new = 1..Len(new) /\ Len(rest) \in Nat /\ DOMAIN rest = 1..Len(rest)
    BY <1>1 DEF Steps
<1> HIDE DEF new
<1>3. \A i \in DOMAIN rest : rest[i] \notin {"make", "keep"}
    <2> SUFFICES ASSUME NEW i \in DOMAIN rest, rest[i] \in {"make", "keep"} PROVE FALSE
        OBVIOUS
    <2>1. i = 1 /\ rest # <<>> /\ Head(rest) = rest[1]
        BY <1>1, <1>2 DEF WellFormed
    <2> QED BY <1>1, <2>1
<1>4. WellFormed(new)
    BY <1>1, <1>2, <1>3 DEF WellFormed
<1>5. new # <<>> /\ Head(new) = x
    <2>1. Len(new) # 0 /\ new \in Seq(Steps)
        BY <1>2
    <2> QED BY <1>2, <2>1
<1>6. \A y \in Steps : In(y, s) /\ Head(s) # y => In(y, new)
    <2> SUFFICES ASSUME NEW y \in Steps, In(y, s) /\ Head(s) # y PROVE In(y, new)
        OBVIOUS
    <2>1. PICK i \in DOMAIN rest : rest[i] = y
        BY <1>1 DEF In
    <2> QED BY <1>2, <2>1 DEF In
<1> QED BY <1>1, <1>2, <1>4, <1>5, <1>6 DEF new, rest

(* The steps that a command begins with. *)
LEMMA Chains ==
    /\ <<"end">> \in Seq(Steps) /\ WellFormed(<<"end">>) /\ Head(<<"end">>) = "end"
    /\ \A a \in {"key", "print"} :
           LET todo == <<a, "end">>
           IN  todo \in Seq(Steps) /\ WellFormed(todo) /\ Head(todo) = a /\ In(a, todo)
    /\ \A a, b \in {"key", "print"} :
           LET todo == <<a, b, "end">>
           IN  /\ todo \in Seq(Steps) /\ WellFormed(todo) /\ Head(todo) = a
               /\ In(a, todo) /\ In(b, todo)
<1>1. /\ <<"end">> \in Seq(Steps) /\ WellFormed(<<"end">>) /\ Head(<<"end">>) = "end"
    BY DEF Steps, WellFormed
<1>2. ASSUME NEW a \in {"key", "print"}
      PROVE  /\ <<a, "end">> \in Seq(Steps) /\ WellFormed(<<a, "end">>) /\ Head(<<a, "end">>) = a
             /\ In(a, <<a, "end">>)
    <2>1. a \in Steps /\ "end" \in Steps /\ a # "end" /\ a \notin {"make", "keep"}
        BY DEF Steps
    <2> DEFINE todo == <<a, "end">>
    <2>2. todo \in Seq(Steps) /\ Len(todo) = 2 /\ todo[1] = a /\ todo[2] = "end" /\ DOMAIN todo = {1, 2}
        BY <2>1
    <2> HIDE DEF todo
    <2>3. todo \in Seq(Steps) /\ WellFormed(todo) /\ Head(todo) = a /\ In(a, todo)
        BY <2>1, <2>2 DEF WellFormed, In
    <2> QED BY <2>3 DEF todo
<1>3. ASSUME NEW a \in {"key", "print"}, NEW b \in {"key", "print"}
      PROVE  /\ <<a, b, "end">> \in Seq(Steps) /\ WellFormed(<<a, b, "end">>)
             /\ Head(<<a, b, "end">>) = a /\ In(a, <<a, b, "end">>) /\ In(b, <<a, b, "end">>)
    <2>1. /\ a \in Steps /\ "end" \in Steps /\ a # "end" /\ a \notin {"make", "keep"}
          /\ b \in Steps /\ b # "end" /\ b \notin {"make", "keep"}
        BY DEF Steps
    <2> DEFINE todo == <<a, b, "end">>
    <2>2. /\ todo \in Seq(Steps) /\ Len(todo) = 3 /\ todo[1] = a /\ todo[2] = b /\ todo[3] = "end"
          /\ DOMAIN todo = {1, 2, 3}
        BY <2>1
    <2> HIDE DEF todo
    <2>3. todo \in Seq(Steps) /\ WellFormed(todo) /\ Head(todo) = a /\ In(a, todo) /\ In(b, todo)
        BY <2>1, <2>2 DEF WellFormed, In
    <2> QED BY <2>3 DEF todo
<1> QED BY <1>1, <1>2, <1>3

(* The types, one by one. *)
LEMMA KeyTypes ==
    ASSUME KeyInvs
    PROVE  /\ NoKey \in Keys /\ calls \in [KeyKinds -> KeyCalls] /\ KeyIdle \in KeyCalls
           /\ keyring \in [up : BOOLEAN, key : Keys, id : BOOLEAN] /\ keyFile \in Keys
           /\ process \in [key : Keys, id : BOOLEAN]
           /\ stored \in [KeyKinds -> [there : BOOLEAN, key : Keys \cup {Legacy}, print : Prints,
                                       content : Contents]]
           /\ inMemory \in [KeyKinds -> Contents \cup {"unloaded", "refused"}]
           /\ made \in 0..MaxKeys /\ astray \subseteq {"raced", "unwritten", "undetected"}
           /\ keyEvents \in 0..MaxKeyEvents
           /\ \A k \in KeyKinds : /\ calls[k] \in KeyCalls /\ WellFormed(calls[k].todo)
                                  /\ calls[k].todo \in Seq(Steps)
           /\ KeyIdle.todo = <<>> /\ KeyIdle.key = NoKey
           /\ \A k \in KeyKinds, step \in Steps : Does(k, step) => calls[k].todo # <<>> /\ Head(calls[k].todo) = step
<1>1. NoKey \in Keys /\ KeyIdle \in KeyCalls /\ KeyIdle.todo = <<>> /\ KeyIdle.key = NoKey
    BY DEF Keys, KeyIdle, KeyCalls, Prints
<1>2. calls \in [KeyKinds -> KeyCalls] /\ \A k \in KeyKinds : WellFormed(calls[k].todo)
    BY DEF KeyInvs, KeyTypeOK, KeyCalls, Steps, Shaped
<1>3. \A k \in KeyKinds : calls[k] \in KeyCalls /\ calls[k].todo \in Seq(Steps)
    BY <1>2 DEF KeyCalls
<1> QED BY <1>1, <1>2, <1>3 DEF KeyInvs, KeyTypeOK, Does

(* A save stores what was loaded. *)
LEMMA SavesWhatIsHeld ==
    ASSUME KeyInvs, NEW k \in KeyKinds, calls[k].todo # <<>>, ~calls[k].loads
    PROVE  inMemory[k] \in Contents
BY DEF KeyInvs, Held

(* One call goes on. *)
LEMMA CallGoesOn ==
    ASSUME KeyInvs, NEW k \in KeyKinds, NEW new \in KeyCalls, WellFormed(new.todo),
           calls' = [calls EXCEPT ![k] = new]
    PROVE  /\ calls'[k] = new /\ \A j \in KeyKinds \ {k} : calls'[j] = calls[j]
           /\ calls' \in [KeyKinds -> KeyCalls] /\ Shaped'
           /\ \A j \in KeyKinds \ {k}, step \in Steps : Does(j, step)' <=> Does(j, step)
           /\ \A step \in Steps : Does(k, step)' <=> new.todo # <<>> /\ Head(new.todo) = step
<1>1. /\ calls'[k] = new /\ \A j \in KeyKinds \ {k} : calls'[j] = calls[j]
      /\ calls' \in [KeyKinds -> KeyCalls]
    BY KeyTypes
<1>2. Shaped'
    BY <1>1 DEF Shaped, KeyInvs
<1> QED BY <1>1, <1>2 DEF Does

(* A step after which the call has no key to keep, and none is elsewhere.  *)
LEMMA NoMaker ==
    ASSUME KeyInvs, KeysAgree, NEW k \in KeyKinds, NEW new \in KeyCalls, WellFormed(new.todo),
           calls' = [calls EXCEPT ![k] = new],
           new.todo # <<>> => Head(new.todo) \notin {"make", "keep"},
           new.key \in KeyPlaces, keyring'.key = keyring.key, keyFile' = keyFile,
           process'.key \in KeyPlaces, \A j \in KeyKinds : stored'[j].key \in KeyPlaces \cup {Legacy},
           Does(k, "keep") => keyring.key # calls[k].key
    PROVE  KeysAgree'
<1>1. /\ calls'[k] = new /\ \A j \in KeyKinds \ {k} : calls'[j] = calls[j]
      /\ \A j \in KeyKinds \ {k}, step \in Steps : Does(j, step)' <=> Does(j, step)
      /\ \A step \in {"make", "keep"} : ~Does(k, step)'
    BY CallGoesOn DEF Steps
<1>2. /\ \A j \in KeyKinds \ {k} : Pending(j)' <=> Pending(j)
      /\ ~Pending(k)'
    BY <1>1 DEF Pending, Steps
<1>3. OneMaker'
    BY <1>2 DEF OneMaker, KeysAgree
<1>4. MakerAlone'
    BY <1>1, <1>2 DEF MakerAlone, KeysAgree, Steps
<1>5. keyring'.key \in {NoKey, keyFile'} \/ \E j \in KeyKinds : Does(j, "keep")' /\ calls'[j].key = keyring'.key
    <2>1. CASE keyring.key \in {NoKey, keyFile}
        BY <2>1
    <2>2. ASSUME NEW j \in KeyKinds, Does(j, "keep"), calls[j].key = keyring.key
          PROVE  \E i \in KeyKinds : Does(i, "keep")' /\ calls'[i].key = keyring'.key
        BY <1>1, <2>2 DEF Steps
    <2> QED BY <2>1, <2>2 DEF KeysAgree, OneKey
<1>6. OneKey'
    BY <1>1, <1>5 DEF OneKey, KeysAgree, KeyPlaces, Steps
<1> QED BY <1>3, <1>4, <1>6 DEF KeysAgree

(* The other files are as they were. *)
LEMMA OthersSound ==
    ASSUME KeyInvs, NEW k \in KeyKinds, NEW new \in KeyCalls, WellFormed(new.todo),
           calls' = [calls EXCEPT ![k] = new],
           \A j \in KeyKinds \ {k} : stored'[j] = stored[j] /\ inMemory'[j] = inMemory[j],
           \A j \in KeyKinds : Sound(j), Sound(k)'
    PROVE  \A j \in KeyKinds : Sound(j)'
<1>1. \A j \in KeyKinds \ {k} : calls'[j] = calls[j] /\ (Does(j, "make")' <=> Does(j, "make"))
    BY CallGoesOn DEF Steps
<1>2. \A j \in KeyKinds \ {k} : Sound(j)'
    BY <1>1 DEF Sound, Opened
<1> QED BY <1>2

-----------------------------------------------------------------------------
(* At the start there is no key and nothing is loaded. *)
LEMMA KeyStart == KeyInit => KeyInvs
<1> SUFFICES ASSUME KeyInit PROVE KeyInvs
    OBVIOUS
<1>1. /\ KeyTypeOK /\ astray = {} /\ keyFile = NoKey /\ keyring.key = NoKey /\ process.key = NoKey
      /\ \A k \in KeyKinds : /\ calls[k] = KeyIdle /\ inMemory[k] = "unloaded"
                             /\ stored[k] \in {Nothing, FromOldVersion}
    <2>1. <<>> \in Seq({"key", "make", "keep", "print", "end"})
        OBVIOUS
    <2>6. NoKey \in Keys /\ 0 \in 0..MaxKeys /\ 0 \in 0..MaxKeyEvents
        BY KeyAssumption DEF Keys
    <2>2. /\ keyring \in [up : BOOLEAN, key : Keys, id : BOOLEAN] /\ keyFile \in Keys
          /\ process \in [key : Keys, id : BOOLEAN]
          /\ made \in 0..MaxKeys /\ keyEvents \in 0..MaxKeyEvents
        BY <2>6 DEF KeyInit
    <2>3. KeyIdle \in [todo : Seq({"key", "make", "keep", "print", "end"}), loads : BOOLEAN,
                       key : Keys, print : Prints, seals : BOOLEAN]
        BY <2>1 DEF KeyIdle, Keys, Prints
    <2>4. {Nothing, FromOldVersion} \subseteq
              [there : BOOLEAN, key : Keys \cup {Legacy}, print : Prints, content : Contents]
        BY DEF Nothing, FromOldVersion, Keys, Prints, Contents
    <2>5. stored \in [KeyKinds -> {Nothing, FromOldVersion}]
        BY DEF KeyInit
    <2> QED BY <2>2, <2>3, <2>4, <2>5 DEF KeyInit, KeyTypeOK
<1>2. KeyIdle.todo = <<>> /\ KeyIdle.key = NoKey
    BY DEF KeyIdle
<1>3. Shaped /\ \A k \in KeyKinds : ~Does(k, "make") /\ ~Does(k, "keep")
    BY <1>1, <1>2 DEF Shaped, WellFormed, Does
<1>4. KeysAgree
    BY <1>1, <1>2, <1>3
       DEF KeysAgree, OneMaker, MakerAlone, OneKey, Pending, KeyPlaces, Nothing, FromOldVersion
<1>5. \A k \in KeyKinds : Sound(k)
    <2>2. /\ Nothing.content = "intact" /\ ~Nothing.there
          /\ FromOldVersion.content = "intact" /\ FromOldVersion.print = "real"
        BY DEF Nothing, FromOldVersion
    <2>1. \A k \in KeyKinds :
              /\ stored[k].content = "intact" /\ calls[k].todo = <<>>
              /\ inMemory[k] = "unloaded"
              /\ stored[k].there => stored[k].print = "real"
        BY <1>1, <1>2, <2>2
    <2> QED BY <2>1 DEF Sound
<1>6. Held
    BY <1>1, <1>2 DEF Held
<1> QED BY <1>1, <1>3, <1>4, <1>5, <1>6 DEF KeyInvs

(* The types of all but the calls. *)
RestTyped ==
    /\ keyring \in [up : BOOLEAN, key : Keys, id : BOOLEAN]
    /\ keyFile \in Keys
    /\ process \in [key : Keys, id : BOOLEAN]
    /\ inMemory \in [KeyKinds -> Contents \cup {"unloaded", "refused"}]
    /\ stored \in [KeyKinds -> [there : BOOLEAN, key : Keys \cup {Legacy}, print : Prints,
                                content : Contents]]
    /\ made \in 0..MaxKeys
    /\ astray \subseteq {"raced", "unwritten", "undetected"}
    /\ keyEvents \in 0..MaxKeyEvents

(* A step of the call on k: the types, and the two parts of the invariant. *)
LEMMA CallStep ==
    ASSUME KeyInvs, NEW k \in KeyKinds, NEW new \in KeyCalls, WellFormed(new.todo),
           calls' = [calls EXCEPT ![k] = new],
           RestTyped', astray \subseteq astray',
           \A j \in KeyKinds \ {k} : stored'[j] = stored[j] /\ inMemory'[j] = inMemory[j],
           new.todo # <<>> /\ ~new.loads => inMemory'[k] \in Contents,
           astray' \subseteq {"undetected"} /\ KeysAgree => KeysAgree',
           astray' = {} /\ KeysAgree /\ (\A j \in KeyKinds : Sound(j)) => Sound(k)'
    PROVE  KeyInvs'
<1>1. calls' \in [KeyKinds -> KeyCalls] /\ Shaped'
    BY CallGoesOn
<1>2. KeyTypeOK'
    BY <1>1 DEF KeyTypeOK, RestTyped, KeyCalls, Steps
<1>3. astray' \subseteq {"undetected"} => KeysAgree'
    BY DEF KeyInvs
<1>4. astray' = {} => \A j \in KeyKinds : Sound(j)'
    <2> SUFFICES ASSUME astray' = {} PROVE \A j \in KeyKinds : Sound(j)'
        OBVIOUS
    <2>1. KeysAgree /\ \A j \in KeyKinds : Sound(j)
        BY DEF KeyInvs
    <2> QED BY <2>1, OthersSound
<1>5. Held'
    <2>1. calls'[k] = new /\ \A j \in KeyKinds \ {k} : calls'[j] = calls[j]
        BY CallGoesOn
    <2> QED BY <2>1 DEF Held, KeyInvs
<1> QED BY <1>1, <1>2, <1>3, <1>4, <1>5 DEF KeyInvs

(* A load begins. *)
LEMMA LoadKeeps == ASSUME KeyInvs, NEW k \in KeyKinds, KeyLoad(k) PROVE KeyInvs'
<1>1. /\ UNCHANGED <<keyring, keyFile, detects, process, stored, made, astray, keyEvents>>
      /\ inMemory[k] = "unloaded"
    BY DEF KeyLoad
<1>2. /\ calls[k] \in KeyCalls /\ WellFormed(calls[k].todo)
      /\ calls \in [KeyKinds -> KeyCalls] /\ NoKey \in KeyPlaces
    BY KeyTypes DEF KeyPlaces
<1>3. CASE ~stored[k].there
    <2>1. /\ inMemory' = [inMemory EXCEPT ![k] = "intact"]
          /\ calls' = [calls EXCEPT ![k] = calls[k]]
        BY <1>2, <1>3 DEF KeyLoad
    <2>2. calls' = calls
        BY <1>3 DEF KeyLoad
    <2>3. KeysAgree => KeysAgree'
        BY <1>1, <2>2 DEF KeysAgree, OneMaker, MakerAlone, OneKey, Pending, KeyPlaces, Does
    <2>4. Sound(k) => Sound(k)'
        BY <1>1, <2>1, <2>2, KeyTypes DEF Sound, Does, Opened
    <2>5. /\ RestTyped' /\ astray' = astray
          /\ calls[k].todo # <<>> /\ ~calls[k].loads => inMemory'[k] \in Contents
          /\ \A j \in KeyKinds \ {k} : stored'[j] = stored[j] /\ inMemory'[j] = inMemory[j]
        BY <1>1, <2>1, KeyTypes DEF RestTyped, Contents
    <2> QED BY <1>2, <2>1, <2>3, <2>4, <2>5, CallStep
<1>4. CASE stored[k].there
    <2>1. PICK todo \in {<<"print", "key", "end">>, <<"key", "end">>, <<"key", "print", "end">>} :
              /\ calls[k] = KeyIdle /\ inMemory' = inMemory
              /\ calls' = [calls EXCEPT ![k] = [KeyIdle EXCEPT !.loads = TRUE, !.todo = todo]]
              /\ k # "settings" => todo # <<"key", "end">>
        BY <1>4, KeyAssumption DEF KeyLoad, Begin
    <2> DEFINE new == [KeyIdle EXCEPT !.loads = TRUE, !.todo = todo]
    <2>2. /\ todo \in Seq(Steps) /\ WellFormed(todo) /\ Head(todo) \notin {"make", "keep"}
          /\ In("key", todo) /\ (k \in {"folders", "history"} => In("print", todo))
        <3>1. CASE todo = <<"key", "end">>
            BY <2>1, <3>1, Chains
        <3>2. CASE todo = <<"print", "key", "end">>
            BY <3>2, Chains
        <3>3. CASE todo = <<"key", "print", "end">>
            BY <3>3, Chains
        <3> QED BY <3>1, <3>2, <3>3
    <2>3. /\ new \in KeyCalls /\ new.todo = todo /\ new.loads /\ new.key = NoKey
        BY <2>2, KeyTypes DEF KeyCalls
    <2> HIDE DEF new
    <2>4. calls' = [calls EXCEPT ![k] = new] /\ ~Does(k, "keep")
        BY <2>1, KeyTypes DEF new, Does
    <2>5. KeysAgree => KeysAgree'
        BY <1>1, <1>2, <2>2, <2>3, <2>4, NoMaker DEF KeysAgree, OneKey
    <2>6. calls'[k] = new
        BY <2>4, <1>2
    <2>7. Sound(k) => Sound(k)'
        BY <1>1, <1>4, <2>1, <2>2, <2>3, <2>6 DEF Sound
    <2>8. /\ RestTyped' /\ astray' = astray /\ WellFormed(new.todo) /\ new.loads
          /\ \A j \in KeyKinds \ {k} : stored'[j] = stored[j] /\ inMemory'[j] = inMemory[j]
        BY <1>1, <2>1, <2>2, <2>3, KeyTypes DEF RestTyped
    <2> QED BY <2>3, <2>4, <2>5, <2>7, <2>8, CallStep
<1> QED BY <1>3, <1>4

(* A save begins. *)
LEMMA SaveKeeps == ASSUME KeyInvs, NEW k \in KeyKinds, KeySave(k) PROVE KeyInvs'
<1>1. /\ UNCHANGED <<keyring, keyFile, detects, process, inMemory, stored, made, astray>>
      /\ inMemory[k] \in Contents /\ keyEvents' \in 0..MaxKeyEvents
    BY KeyTypes, KeyAssumption DEF KeySave, Outside
<1>2. PICK todo \in {<<"end">>, <<"key", "end">>, <<"print", "end">>, <<"print", "key", "end">>,
                     <<"key", "print", "end">>}, seals \in BOOLEAN :
          /\ calls[k] = KeyIdle
          /\ calls' = [calls EXCEPT ![k] = [KeyIdle EXCEPT !.seals = seals, !.todo = todo]]
          /\ k \in {"folders", "history"} => todo \in {<<"print", "end">>, <<"print", "key", "end">>}
    BY KeyAssumption DEF KeySave, Begin
<1> DEFINE new == [KeyIdle EXCEPT !.seals = seals, !.todo = todo]
<1>3. /\ todo \in Seq(Steps) /\ WellFormed(todo) /\ Head(todo) \notin {"make", "keep"}
      /\ k \in {"folders", "history"} => In("print", todo)
    <2>1. CASE todo = <<"end">>
        BY <1>2, <2>1, Chains
    <2>2. CASE todo = <<"key", "end">>
        BY <1>2, <2>2, Chains
    <2>3. CASE todo = <<"print", "end">>
        BY <2>3, Chains
    <2>4. CASE todo = <<"print", "key", "end">>
        BY <2>4, Chains
    <2>5. CASE todo = <<"key", "print", "end">>
        BY <2>5, Chains
    <2> QED BY <2>1, <2>2, <2>3, <2>4, <2>5
<1>4. /\ new \in KeyCalls /\ new.todo = todo /\ ~new.loads /\ new.key = NoKey
    BY <1>3, KeyTypes DEF KeyCalls, KeyIdle
<1> HIDE DEF new
<1>5. calls' = [calls EXCEPT ![k] = new] /\ ~Does(k, "keep") /\ calls \in [KeyKinds -> KeyCalls]
    BY <1>2, KeyTypes DEF new, Does
<1>6. KeysAgree => KeysAgree'
    BY <1>1, <1>3, <1>4, <1>5, NoMaker DEF KeysAgree, OneKey, KeyPlaces
<1>7. calls'[k] = new
    BY <1>5
<1>8. Sound(k) => Sound(k)'
    BY <1>1, <1>3, <1>4, <1>7 DEF Sound, Contents
<1>9. /\ RestTyped' /\ astray' = astray /\ WellFormed(new.todo)
      /\ new.todo # <<>> /\ ~new.loads => inMemory'[k] \in Contents
      /\ \A j \in KeyKinds \ {k} : stored'[j] = stored[j] /\ inMemory'[j] = inMemory[j]
    BY <1>1, <1>3, <1>4, KeyTypes DEF RestTyped
<1> QED BY <1>4, <1>5, <1>6, <1>8, <1>9, CallStep

(* What the identifier is asked for changes none of the keys. *)
LEMMA Identified ==
    ASSUME KeyInvs, IdentifyMachine
    PROVE  /\ keyring' \in [up : BOOLEAN, key : Keys, id : BOOLEAN]
           /\ keyring'.key = keyring.key /\ keyring'.up = keyring.up /\ MachineId \in BOOLEAN
<1>1. KeyTypeOK
    BY DEF KeyInvs
<1>2. keyring' = [keyring EXCEPT !.id = keyring.id \/ (keyring.up /\ ~process.id /\ detects)]
    BY DEF IdentifyMachine
<1>3. (keyring.id \/ (keyring.up /\ ~process.id /\ detects)) \in BOOLEAN /\ MachineId \in BOOLEAN
    BY DEF MachineId
<1>4. keyring \in [up : BOOLEAN, key : Keys, id : BOOLEAN]
    BY <1>1 DEF KeyTypeOK
<1> DEFINE id == keyring.id \/ (keyring.up /\ ~process.id /\ detects)
<1>5. keyring' = [keyring EXCEPT !.id = id] /\ id \in BOOLEAN
    BY <1>2, <1>3
<1> HIDE DEF id
<1> QED BY <1>3, <1>4, <1>5

(* The fingerprint is asked for. *)
LEMMA FingerprintKeeps == ASSUME KeyInvs, NEW k \in KeyKinds, Fingerprint(k) PROVE KeyInvs'
<1>1. /\ UNCHANGED <<keyFile, detects, inMemory, stored, made, keyEvents>>
      /\ process' = [process EXCEPT !.id = MachineId]
      /\ Does(k, "print") /\ IdentifyMachine
      /\ astray' = IF MachineId THEN astray ELSE astray \cup {"undetected"}
    BY DEF Fingerprint, Note
<1> DEFINE new == [[calls[k] EXCEPT !.print = IF MachineId THEN "real" ELSE "fallback"]
                      EXCEPT !.todo = Tail(calls[k].todo)]
<1>2. /\ calls[k] \in KeyCalls /\ calls[k].todo \in Seq(Steps) /\ calls[k].todo # <<>>
      /\ WellFormed(calls[k].todo) /\ Head(calls[k].todo) = "print" /\ ~Does(k, "keep") /\ ~Does(k, "make")
      /\ calls \in [KeyKinds -> KeyCalls]
    BY <1>1, KeyTypes DEF Does
<1>3. /\ Tail(calls[k].todo) \in Seq(Steps) /\ WellFormed(Tail(calls[k].todo))
      /\ Tail(calls[k].todo) # <<>> => Head(Tail(calls[k].todo)) \notin {"make", "keep"}
      /\ In("key", calls[k].todo) => In("key", Tail(calls[k].todo))
    BY <1>2, RestOfTodo DEF Steps
<1>4. calls' = [calls EXCEPT ![k] = new]
    BY <1>1, <1>2 DEF Fingerprint, Then, KeyCalls
<1>5. /\ new \in KeyCalls /\ new.todo = Tail(calls[k].todo) /\ new.loads = calls[k].loads
      /\ new.key = calls[k].key /\ new.print = IF MachineId THEN "real" ELSE "fallback"
    BY <1>2, <1>3 DEF KeyCalls, Prints
<1> HIDE DEF new
<1>6. calls'[k] = new /\ WellFormed(new.todo)
    BY <1>2, <1>3, <1>4, <1>5
<1>7. process'.key = process.key /\ keyring'.key = keyring.key
    BY <1>1, KeyTypes, Identified
<1>8. ASSUME KeysAgree PROVE KeysAgree'
    <2>1. /\ new.key \in KeyPlaces /\ process'.key \in KeyPlaces
          /\ \A j \in KeyKinds : stored'[j].key \in KeyPlaces \cup {Legacy}
        BY <1>1, <1>2, <1>5, <1>7, <1>8 DEF KeysAgree, OneKey
    <2>2. new.todo # <<>> => Head(new.todo) \notin {"make", "keep"}
        BY <1>3, <1>5
    <2> QED BY <1>1, <1>2, <1>4, <1>5, <1>6, <1>7, <1>8, <2>1, <2>2, NoMaker
<1>9. ASSUME astray' = {}, Sound(k) PROVE Sound(k)'
    <2>1. MachineId /\ new.print = "real"
        BY <1>1, <1>5, <1>9
    <2> QED BY <1>1, <1>2, <1>3, <1>5, <1>6, <1>9, <2>1 DEF Sound, Opened
<1>10. /\ RestTyped' /\ astray \subseteq astray'
       /\ \A j \in KeyKinds \ {k} : stored'[j] = stored[j] /\ inMemory'[j] = inMemory[j]
       /\ new.todo # <<>> /\ ~new.loads => inMemory'[k] \in Contents
    <2>1. new.todo # <<>> /\ ~new.loads => inMemory'[k] \in Contents
        BY <1>1, <1>2, <1>5, SavesWhatIsHeld
    <2>2. RestTyped' /\ astray \subseteq astray'
        BY <1>1, KeyTypes, Identified DEF RestTyped
    <2> QED BY <1>1, <2>1, <2>2
<1> QED BY <1>4, <1>5, <1>6, <1>8, <1>9, <1>10, CallStep

(* Of the two places, each holds no key or the one that both hold. *)
LEMMA OneInPlaces ==
    ASSUME KeyInvs, KeysAgree, NEW x \in KeyPlaces, NEW y \in KeyPlaces, x # NoKey, y # NoKey
    PROVE  x = y
<1>1. CASE keyring.key \in {NoKey, keyFile}
    BY <1>1 DEF KeyPlaces
<1>2. ASSUME NEW j \in KeyKinds, Does(j, "keep") PROVE keyFile = NoKey
    BY <1>2 DEF KeysAgree, MakerAlone, Pending
<1> QED BY <1>1, <1>2 DEF KeysAgree, OneKey, KeyPlaces

(* A key is found in the process, in the keyring or in the file, is to be   *)
(* made, or the machine is not recognised.                                  *)
LEMMA GetKeyKeeps == ASSUME KeyInvs, NEW k \in KeyKinds, GetEncryptionKey(k) PROVE KeyInvs'
<1> DEFINE found == IF keyring.up /\ keyring.key # NoKey THEN keyring.key ELSE keyFile
           rest == Tail(calls[k].todo)
           WithKey(key) == [[calls[k] EXCEPT !.key = key] EXCEPT !.todo = rest]
           making == [calls[k] EXCEPT !.todo = <<"make">> \o rest]
<1>1. /\ UNCHANGED <<keyFile, detects, inMemory, stored, made, keyEvents>> /\ Does(k, "key")
    BY DEF GetEncryptionKey
<1>2. /\ calls[k] \in KeyCalls /\ calls[k].todo \in Seq(Steps) /\ calls[k].todo # <<>>
      /\ WellFormed(calls[k].todo) /\ Head(calls[k].todo) = "key" /\ ~Does(k, "keep") /\ ~Does(k, "make")
      /\ calls \in [KeyKinds -> KeyCalls] /\ NoKey \in Keys /\ KeyIdle \in KeyCalls /\ KeyIdle.todo = <<>>
      /\ KeyIdle.key = NoKey /\ NoKey \in KeyPlaces
    BY <1>1, KeyTypes DEF Does, KeyPlaces
<1>3. /\ rest \in Seq(Steps) /\ WellFormed(rest)
      /\ rest # <<>> => Head(rest) \notin {"make", "keep"}
      /\ In("print", calls[k].todo) => In("print", rest)
    BY <1>2, RestOfTodo DEF Steps
<1>4. /\ <<"make">> \o rest \in Seq(Steps) /\ WellFormed(<<"make">> \o rest)
      /\ <<"make">> \o rest # <<>> /\ Head(<<"make">> \o rest) = "make"
      /\ In("print", calls[k].todo) => In("print", <<"make">> \o rest)
    BY <1>2, NewFirst DEF Steps
<1> HIDE DEF rest
<1>5. \/ process.key # NoKey /\ calls' = [calls EXCEPT ![k] = WithKey(process.key)] /\ UNCHANGED identity
      \/ /\ process.key = NoKey /\ IdentifyMachine
         /\ process' = [key |-> IF MachineId THEN found ELSE NoKey, id |-> MachineId]
         /\ \/ ~MachineId /\ astray' = astray \cup {"undetected"} /\ WithoutKey(k)
            \/ MachineId /\ found # NoKey /\ calls' = [calls EXCEPT ![k] = WithKey(found)] /\ astray' = astray
            \/ /\ MachineId /\ found = NoKey /\ calls' = [calls EXCEPT ![k].todo = <<"make">> \o rest]
               /\ astray' = IF \E j \in KeyKinds \ {k} : Does(j, "make") \/ Does(j, "keep")
                            THEN astray \cup {"raced"} ELSE astray
    <2>1. CASE process.key # NoKey
        BY <2>1 DEF GetEncryptionKey, Then, rest, KeyCalls
    <2>2. CASE process.key = NoKey
        BY <2>2 DEF GetEncryptionKey, Note, Then, rest
    <2> QED BY <2>1, <2>2
<1>6. ASSUME NEW key \in Keys
      PROVE  /\ WithKey(key) \in KeyCalls /\ WithKey(key).todo = rest /\ WithKey(key).key = key
             /\ WithKey(key).loads = calls[k].loads /\ WithKey(key).print = calls[k].print
    BY <1>2, <1>3 DEF KeyCalls
<1>7. /\ making \in KeyCalls /\ making.todo = <<"make">> \o rest /\ making.key = calls[k].key
      /\ making.loads = calls[k].loads /\ making.print = calls[k].print
    BY <1>2, <1>4 DEF KeyCalls
<1>8. found \in KeyPlaces /\ found \in Keys /\ (found = NoKey => keyFile = NoKey)
    BY KeyTypes DEF KeyPlaces
<1> HIDE DEF WithKey, making, found
<1>9. ASSUME NEW key \in Keys, calls' = [calls EXCEPT ![k] = WithKey(key)], RestTyped',
             keyring'.key = keyring.key, astray \subseteq astray',
             KeysAgree => key \in KeyPlaces /\ process'.key \in KeyPlaces,
             astray' = {} => key # NoKey
      PROVE  KeyInvs'
    <2> DEFINE new == WithKey(key)
    <2>1. /\ new \in KeyCalls /\ new.todo = rest /\ new.key = key /\ new.loads = calls[k].loads
          /\ new.print = calls[k].print /\ WellFormed(new.todo)
          /\ new.todo # <<>> => Head(new.todo) \notin {"make", "keep"}
          /\ calls' = [calls EXCEPT ![k] = new]
        BY <1>3, <1>6, <1>9
    <2> HIDE DEF new
    <2>2. calls'[k] = new
        BY <1>2, <2>1
    <2>3. ASSUME KeysAgree PROVE KeysAgree'
        <3>1. \A j \in KeyKinds : stored'[j].key \in KeyPlaces \cup {Legacy}
            BY <1>1, <2>3 DEF KeysAgree, OneKey
        <3>2. new.key \in KeyPlaces /\ process'.key \in KeyPlaces
            BY <1>9, <2>1, <2>3
        <3> QED BY <1>1, <1>2, <1>9, <2>1, <2>3, <3>1, <3>2, NoMaker
    <2>4. ASSUME astray' = {}, KeysAgree, Sound(k) PROVE Sound(k)'
        <3>1. stored[k].key \in {NoKey, Legacy, key}
            BY <1>9, <2>4, OneInPlaces DEF KeysAgree, OneKey
        <3>2. Opened(k)'
            BY <1>1, <2>1, <2>2, <3>1 DEF Opened
        <3> QED BY <1>1, <1>2, <1>3, <2>1, <2>2, <2>4, <3>2 DEF Sound
    <2>5. /\ \A j \in KeyKinds \ {k} : stored'[j] = stored[j] /\ inMemory'[j] = inMemory[j]
          /\ new.todo # <<>> /\ ~new.loads => inMemory'[k] \in Contents
        BY <1>1, <1>2, <2>1, SavesWhatIsHeld
    <2> QED BY <1>9, <2>1, <2>3, <2>4, <2>5, CallStep
<1>10. process.key \in Keys /\ (KeysAgree => process.key \in KeyPlaces)
    BY KeyTypes DEF KeysAgree, OneKey
<1>11. CASE process.key # NoKey /\ calls' = [calls EXCEPT ![k] = WithKey(process.key)] /\ UNCHANGED identity
    <2>1. RestTyped' /\ keyring' = keyring /\ astray' = astray /\ process' = process
        BY <1>1, <1>11, KeyTypes DEF RestTyped, identity
    <2> QED BY <1>9, <1>10, <1>11, <2>1
<1>12. CASE /\ process.key = NoKey /\ IdentifyMachine
            /\ process' = [key |-> IF MachineId THEN found ELSE NoKey, id |-> MachineId]
            /\ \/ ~MachineId /\ astray' = astray \cup {"undetected"} /\ WithoutKey(k)
               \/ MachineId /\ found # NoKey /\ calls' = [calls EXCEPT ![k] = WithKey(found)] /\ astray' = astray
               \/ /\ MachineId /\ found = NoKey /\ calls' = [calls EXCEPT ![k].todo = <<"make">> \o rest]
                  /\ astray' = IF \E j \in KeyKinds \ {k} : Does(j, "make") \/ Does(j, "keep")
                               THEN astray \cup {"raced"} ELSE astray
    <2>1. /\ RestTyped' /\ keyring'.key = keyring.key /\ astray \subseteq astray'
          /\ process'.key \in {found, NoKey}
        <3>1. process' \in [key : Keys, id : BOOLEAN] /\ process'.key \in {found, NoKey}
            BY <1>2, <1>8, <1>12, Identified
        <3>2. astray' \subseteq {"raced", "unwritten", "undetected"} /\ astray \subseteq astray'
            BY <1>12, KeyTypes
        <3> QED BY <1>1, <1>12, <3>1, <3>2, KeyTypes, Identified DEF RestTyped
    <2>2. process'.key \in KeyPlaces
        BY <1>2, <1>8, <2>1
    <2>3. ASSUME ~MachineId, astray' = astray \cup {"undetected"}, WithoutKey(k) PROVE KeyInvs'
        <3>1. CASE calls[k].loads
            <4>1. calls' = [calls EXCEPT ![k] = WithKey(NoKey)]
                BY <1>2, <2>3, <3>1 DEF WithoutKey, WithKey, rest, KeyCalls
            <4> QED BY <1>2, <1>9, <2>1, <2>2, <2>3, <4>1
        <3>2. CASE ~calls[k].loads
            <4>1. calls' = [calls EXCEPT ![k] = KeyIdle] /\ WellFormed(KeyIdle.todo)
                BY <1>2, <2>3, <3>2 DEF WithoutKey, WellFormed
            <4>2. ASSUME KeysAgree PROVE KeysAgree'
                <5>1. \A j \in KeyKinds : stored'[j].key \in KeyPlaces \cup {Legacy}
                    BY <1>1, <4>2 DEF KeysAgree, OneKey
                <5> QED BY <1>1, <1>2, <2>1, <2>2, <4>1, <4>2, <5>1, NoMaker
            <4>3. astray' # {}
                BY <2>3
            <4>4. \A j \in KeyKinds \ {k} : stored'[j] = stored[j] /\ inMemory'[j] = inMemory[j]
                BY <1>1
            <4> QED BY <1>2, <2>1, <4>1, <4>2, <4>3, <4>4, CallStep
        <3> QED BY <3>1, <3>2
    <2>4. ASSUME found # NoKey, calls' = [calls EXCEPT ![k] = WithKey(found)] PROVE KeyInvs'
        BY <1>8, <1>9, <2>1, <2>2, <2>4
    <2>5. ASSUME found = NoKey, calls' = [calls EXCEPT ![k].todo = <<"make">> \o rest],
                 astray' = IF \E j \in KeyKinds \ {k} : Does(j, "make") \/ Does(j, "keep")
                           THEN astray \cup {"raced"} ELSE astray
          PROVE  KeyInvs'
        <3>1. calls' = [calls EXCEPT ![k] = making] /\ WellFormed(making.todo) /\ calls'[k] = making
            BY <1>2, <1>4, <1>7, <2>5 DEF making
        <3>2. ASSUME astray' \subseteq {"undetected"}, KeysAgree PROVE KeysAgree'
            <4>1. \A j \in KeyKinds \ {k} : ~Does(j, "make") /\ ~Does(j, "keep")
                BY <2>5, <3>2
            <4>2. keyFile = NoKey /\ keyring.key = NoKey
                BY <1>2, <1>8, <2>5, <3>2, <4>1 DEF KeysAgree, OneKey
            <4>3. /\ \A j \in KeyKinds \ {k} : ~Does(j, "make")' /\ ~Does(j, "keep")'
                  /\ Does(k, "make")' /\ ~Does(k, "keep")'
                <5>1. /\ \A j \in KeyKinds \ {k}, step \in Steps : Does(j, step)' <=> Does(j, step)
                      /\ \A step \in Steps : Does(k, step)' <=> making.todo # <<>> /\ Head(making.todo) = step
                    BY <1>7, <3>1, CallGoesOn
                <5> QED BY <1>4, <1>7, <4>1, <5>1 DEF Steps
            <4>4. OneMaker' /\ MakerAlone'
                BY <1>1, <2>1, <4>2, <4>3 DEF OneMaker, MakerAlone, Pending
            <4>5. \A j \in KeyKinds : calls'[j].key \in KeyPlaces'
                <5>1. \A j \in KeyKinds : calls[j].key \in KeyPlaces
                    BY <1>2, <3>2, <4>1 DEF KeysAgree, OneKey
                <5>2. \A j \in KeyKinds \ {k} : calls'[j] = calls[j]
                    BY <1>2, <3>1
                <5> QED BY <1>1, <1>7, <2>1, <3>1, <5>1, <5>2 DEF KeyPlaces
            <4>6. OneKey'
                <5>1. KeyPlaces' = KeyPlaces /\ keyring'.key = NoKey
                    BY <1>1, <2>1, <4>2 DEF KeyPlaces
                <5>2. \A j \in KeyKinds : stored'[j].key \in KeyPlaces \cup {Legacy}
                    BY <1>1, <3>2 DEF OneKey, KeysAgree
                <5> QED BY <2>2, <4>5, <5>1, <5>2 DEF OneKey
            <4> QED BY <4>4, <4>6 DEF KeysAgree
        <3>3. ASSUME Sound(k) PROVE Sound(k)'
            <4>1. Does(k, "make")'
                BY <1>4, <1>7, <3>1 DEF Does
            <4> QED BY <1>1, <1>2, <1>4, <1>7, <3>1, <3>3, <4>1 DEF Sound
        <3>4. /\ \A j \in KeyKinds \ {k} : stored'[j] = stored[j] /\ inMemory'[j] = inMemory[j]
              /\ making.todo # <<>> /\ ~making.loads => inMemory'[k] \in Contents
            BY <1>1, <1>2, <1>7, SavesWhatIsHeld
        <3> QED BY <1>7, <2>1, <3>1, <3>2, <3>3, <3>4, CallStep
    <2> QED BY <1>12, <2>3, <2>4, <2>5
<1> QED BY <1>5, <1>11, <1>12

(* A key is made: nothing is sealed yet, or it would have been found.       *)
LEMMA MakeKeeps == ASSUME KeyInvs, NEW k \in KeyKinds, MakeMasterKey(k) PROVE KeyInvs'
<1> DEFINE new == [calls[k] EXCEPT !.key = made + 1, !.todo = <<"keep">> \o Tail(calls[k].todo)]
<1>1. /\ UNCHANGED <<keyFile, detects, process, inMemory, stored, astray, keyEvents>> /\ Does(k, "make")
      /\ keyring' = IF keyring.up THEN [keyring EXCEPT !.key = made + 1] ELSE keyring
      /\ made < MaxKeys /\ made' = made + 1
    BY DEF MakeMasterKey
<1>2. /\ calls[k] \in KeyCalls /\ calls[k].todo \in Seq(Steps) /\ calls[k].todo # <<>>
      /\ WellFormed(calls[k].todo) /\ Head(calls[k].todo) = "make" /\ ~Does(k, "keep")
      /\ calls \in [KeyKinds -> KeyCalls]
    BY <1>1, KeyTypes DEF Does
<1>3. /\ <<"keep">> \o Tail(calls[k].todo) \in Seq(Steps) /\ WellFormed(<<"keep">> \o Tail(calls[k].todo))
      /\ <<"keep">> \o Tail(calls[k].todo) # <<>> /\ Head(<<"keep">> \o Tail(calls[k].todo)) = "keep"
      /\ In("print", calls[k].todo) => In("print", <<"keep">> \o Tail(calls[k].todo))
    BY <1>2, NewFirst DEF Steps
<1>4. made' \in 0..MaxKeys /\ made + 1 \in Keys /\ made + 1 # NoKey
    BY <1>1, KeyTypes, KeyAssumption DEF Keys
<1>5. /\ new \in KeyCalls /\ new.todo = <<"keep">> \o Tail(calls[k].todo) /\ new.key = made + 1
      /\ new.loads = calls[k].loads /\ new.print = calls[k].print
    BY <1>2, <1>3, <1>4 DEF KeyCalls
<1>6. calls' = [calls EXCEPT ![k] = new]
    BY <1>2 DEF MakeMasterKey
<1> HIDE DEF new
<1>7. calls'[k] = new /\ WellFormed(new.todo)
    BY <1>2, <1>3, <1>5, <1>6
<1>8. keyring' \in [up : BOOLEAN, key : Keys, id : BOOLEAN] /\ keyring'.key \in {keyring.key, made + 1}
    BY <1>1, <1>4, KeyTypes
<1>9. ASSUME KeysAgree PROVE KeysAgree' /\ stored[k].key \in {NoKey, Legacy}
    <2>1. /\ keyFile = NoKey /\ keyring.key = NoKey
          /\ \A j \in KeyKinds \ {k} : ~Does(j, "make") /\ ~Does(j, "keep")
        BY <1>1, <1>9 DEF KeysAgree, MakerAlone, OneMaker, Pending
    <2>2. /\ \A j \in KeyKinds \ {k} : ~Does(j, "make")' /\ ~Does(j, "keep")' /\ calls'[j] = calls[j]
          /\ ~Does(k, "make")' /\ Does(k, "keep")'
        BY <1>3, <1>5, <1>6, <1>7, <2>1, CallGoesOn DEF Steps
    <2>3. OneMaker' /\ MakerAlone'
        BY <1>1, <1>4, <1>5, <1>7, <1>8, <2>1, <2>2 DEF OneMaker, MakerAlone, Pending
    <2>4. KeyPlaces = {NoKey} /\ NoKey \in KeyPlaces'
        BY <2>1 DEF KeyPlaces
    <2>5. /\ process.key = NoKey /\ \A j \in KeyKinds : stored[j].key \in {NoKey, Legacy}
          /\ \A j \in KeyKinds \ {k} : calls[j].key = NoKey
        BY <1>9, <2>1, <2>4 DEF KeysAgree, OneKey
    <2>6. OneKey'
        BY <1>1, <1>5, <1>7, <1>8, <2>1, <2>2, <2>4, <2>5 DEF OneKey
    <2> QED BY <2>3, <2>5, <2>6 DEF KeysAgree
<1>10. ASSUME KeysAgree, Sound(k) PROVE Sound(k)'
    <2>1. Opened(k)'
        BY <1>1, <1>9, <1>10 DEF Opened
    <2> QED BY <1>1, <1>2, <1>3, <1>5, <1>7, <1>10, <2>1 DEF Sound
<1>11. /\ RestTyped' /\ astray \subseteq astray'
       /\ \A j \in KeyKinds \ {k} : stored'[j] = stored[j] /\ inMemory'[j] = inMemory[j]
       /\ new.todo # <<>> /\ ~new.loads => inMemory'[k] \in Contents
    <2>1. new.todo # <<>> /\ ~new.loads => inMemory'[k] \in Contents
        BY <1>1, <1>2, <1>5, SavesWhatIsHeld
    <2>2. RestTyped' /\ astray \subseteq astray'
        BY <1>1, <1>4, <1>8, KeyTypes DEF RestTyped
    <2> QED BY <1>1, <2>1, <2>2
<1> QED BY <1>5, <1>6, <1>7, <1>9, <1>10, <1>11, CallStep

(* It is kept in the file, or noted that it is not. *)
LEMMA KeepKeeps == ASSUME KeyInvs, NEW k \in KeyKinds, KeepMasterKey(k) PROVE KeyInvs'
<1> DEFINE new == [calls[k] EXCEPT !.todo = Tail(calls[k].todo)]
<1>1. /\ UNCHANGED <<keyring, detects, inMemory, stored, made, keyEvents>> /\ Does(k, "keep")
      /\ process' = [process EXCEPT !.key = IF process.key = NoKey THEN calls[k].key ELSE process.key]
      /\ \/ keyFile' = calls[k].key /\ astray' = astray
         \/ keyFile' = keyFile /\ astray' = astray \cup {"unwritten"}
    BY DEF KeepMasterKey, Note
<1>2. /\ calls[k] \in KeyCalls /\ calls[k].todo \in Seq(Steps) /\ calls[k].todo # <<>>
      /\ WellFormed(calls[k].todo) /\ Head(calls[k].todo) = "keep" /\ ~Does(k, "make")
      /\ calls \in [KeyKinds -> KeyCalls] /\ calls[k].key \in Keys
    BY <1>1, KeyTypes DEF Does, KeyCalls
<1>3. /\ Tail(calls[k].todo) \in Seq(Steps) /\ WellFormed(Tail(calls[k].todo))
      /\ Tail(calls[k].todo) # <<>> => Head(Tail(calls[k].todo)) \notin {"make", "keep"}
      /\ In("key", calls[k].todo) => In("key", Tail(calls[k].todo))
      /\ In("print", calls[k].todo) => In("print", Tail(calls[k].todo))
    BY <1>2, RestOfTodo DEF Steps
<1>4. /\ new \in KeyCalls /\ new.todo = Tail(calls[k].todo) /\ new.key = calls[k].key
      /\ new.loads = calls[k].loads /\ new.print = calls[k].print
    BY <1>2, <1>3 DEF KeyCalls
<1>5. calls' = [calls EXCEPT ![k] = new]
    BY DEF KeepMasterKey, Then
<1> HIDE DEF new
<1>6. calls'[k] = new /\ WellFormed(new.todo)
    BY <1>2, <1>3, <1>4, <1>5
<1>7. /\ process' \in [key : Keys, id : BOOLEAN]
      /\ process'.key = IF process.key = NoKey THEN calls[k].key ELSE process.key
    BY <1>1, <1>2, KeyTypes
<1>8. ASSUME astray' \subseteq {"undetected"}, KeysAgree PROVE KeysAgree'
    <2>1. /\ keyFile = NoKey /\ keyring.key \in {NoKey, calls[k].key} /\ keyFile' = calls[k].key
          /\ \A j \in KeyKinds \ {k} : ~Does(j, "make") /\ ~Does(j, "keep")
        BY <1>1, <1>8 DEF KeysAgree, MakerAlone, OneMaker, Pending
    <2>2. /\ \A j \in KeyKinds \ {k} : ~Does(j, "make")' /\ ~Does(j, "keep")' /\ calls'[j] = calls[j]
          /\ ~Does(k, "make")' /\ ~Does(k, "keep")'
        BY <1>3, <1>4, <1>5, <1>6, <2>1, CallGoesOn DEF Steps
    <2>3. OneMaker' /\ MakerAlone'
        BY <2>2 DEF OneMaker, MakerAlone, Pending
    <2>4. KeyPlaces \subseteq KeyPlaces' /\ keyring'.key \in {NoKey, keyFile'} /\ calls[k].key \in KeyPlaces'
        BY <1>1, <2>1 DEF KeyPlaces
    <2>5. OneKey'
        BY <1>1, <1>4, <1>6, <1>7, <1>8, <2>1, <2>2, <2>4 DEF OneKey, KeysAgree
    <2> QED BY <2>3, <2>5 DEF KeysAgree
<1>9. ASSUME KeysAgree, Sound(k) PROVE Sound(k)'
    <2>1. stored[k].key \in {NoKey, Legacy, calls[k].key}
        BY <1>1, <1>9 DEF KeysAgree, MakerAlone, OneKey, KeyPlaces, Pending
    <2>2. Opened(k)'
        BY <1>1, <1>4, <1>6, <2>1 DEF Opened
    <2> QED BY <1>1, <1>2, <1>3, <1>4, <1>6, <1>9, <2>2 DEF Sound
<1>10. /\ RestTyped' /\ astray \subseteq astray'
       /\ \A j \in KeyKinds \ {k} : stored'[j] = stored[j] /\ inMemory'[j] = inMemory[j]
       /\ new.todo # <<>> /\ ~new.loads => inMemory'[k] \in Contents
    <2>1. new.todo # <<>> /\ ~new.loads => inMemory'[k] \in Contents
        BY <1>1, <1>2, <1>4, SavesWhatIsHeld
    <2>2. RestTyped' /\ astray \subseteq astray'
        BY <1>1, <1>2, <1>7, KeyTypes DEF RestTyped
    <2> QED BY <1>1, <2>1, <2>2
<1> QED BY <1>4, <1>5, <1>6, <1>8, <1>9, <1>10, CallStep

(* Neither place has taken it, and nobody uses it. *)
LEMMA NotKeptKeeps == ASSUME KeyInvs, NEW k \in KeyKinds, KeyNotKept(k) PROVE KeyInvs'
<1> DEFINE without == [calls[k] EXCEPT !.todo = Tail(calls[k].todo), !.key = NoKey]
           new == IF calls[k].loads THEN without ELSE KeyIdle
<1>1. /\ UNCHANGED <<keyring, keyFile, detects, process, inMemory, stored, made, astray, keyEvents>>
      /\ Does(k, "keep") /\ keyring.key # calls[k].key
    BY DEF KeyNotKept
<1>2. /\ calls[k] \in KeyCalls /\ calls[k].todo \in Seq(Steps) /\ calls[k].todo # <<>>
      /\ WellFormed(calls[k].todo) /\ Head(calls[k].todo) = "keep"
      /\ calls \in [KeyKinds -> KeyCalls] /\ NoKey \in Keys /\ KeyIdle \in KeyCalls
      /\ KeyIdle.todo = <<>> /\ KeyIdle.key = NoKey
    BY <1>1, KeyTypes DEF Does, KeyCalls
<1>3. /\ Tail(calls[k].todo) \in Seq(Steps) /\ WellFormed(Tail(calls[k].todo))
      /\ Tail(calls[k].todo) # <<>> => Head(Tail(calls[k].todo)) \notin {"make", "keep"}
      /\ In("key", calls[k].todo) => In("key", Tail(calls[k].todo))
      /\ In("print", calls[k].todo) => In("print", Tail(calls[k].todo))
    BY <1>2, RestOfTodo DEF Steps
<1>4. /\ without \in KeyCalls /\ without.todo = Tail(calls[k].todo) /\ without.key = NoKey
      /\ without.loads = calls[k].loads /\ without.print = calls[k].print
    BY <1>2, <1>3 DEF KeyCalls
<1>5. calls' = [calls EXCEPT ![k] = new]
    BY DEF KeyNotKept, WithoutKey
<1> HIDE DEF without
<1>6. /\ new \in KeyCalls /\ new.key = NoKey /\ new.todo \in {<<>>, Tail(calls[k].todo)}
      /\ new.todo # <<>> => /\ new.todo = Tail(calls[k].todo) /\ new.loads = calls[k].loads
                            /\ new.print = calls[k].print
    BY <1>2, <1>4
<1> HIDE DEF new
<1>7. /\ calls'[k] = new /\ WellFormed(new.todo)
      /\ new.todo # <<>> => Head(new.todo) \notin {"make", "keep"}
    <2>1. WellFormed(<<>>)
        BY DEF WellFormed
    <2> QED BY <1>2, <1>3, <1>5, <1>6, <2>1
<1>8. ASSUME KeysAgree PROVE KeysAgree'
    <2>1. /\ \A j \in KeyKinds : stored'[j].key \in KeyPlaces \cup {Legacy}
          /\ new.key \in KeyPlaces /\ process'.key \in KeyPlaces
        BY <1>1, <1>6, <1>8 DEF KeysAgree, OneKey, KeyPlaces
    <2> QED BY <1>1, <1>5, <1>6, <1>7, <1>8, <2>1, NoMaker
<1>9. ASSUME KeysAgree, Sound(k) PROVE Sound(k)'
    <2>1. stored[k].key \in {NoKey, Legacy}
        BY <1>1, <1>9 DEF KeysAgree, MakerAlone, OneKey, KeyPlaces, Pending
    <2>2. Opened(k)'
        BY <1>1, <2>1 DEF Opened
    <2> QED BY <1>1, <1>2, <1>3, <1>6, <1>7, <1>9, <2>2 DEF Sound
<1>10. /\ RestTyped' /\ astray \subseteq astray'
       /\ \A j \in KeyKinds \ {k} : stored'[j] = stored[j] /\ inMemory'[j] = inMemory[j]
       /\ new.todo # <<>> /\ ~new.loads => inMemory'[k] \in Contents
    <2>1. new.todo # <<>> /\ ~new.loads => inMemory'[k] \in Contents
        BY <1>1, <1>2, <1>6, SavesWhatIsHeld
    <2>2. RestTyped' /\ astray \subseteq astray'
        BY <1>1, KeyTypes DEF RestTyped
    <2> QED BY <1>1, <2>1, <2>2
<1> QED BY <1>5, <1>6, <1>7, <1>8, <1>9, <1>10, CallStep

(* A load answers. *)
LEMMA LoadedKeeps == ASSUME KeyInvs, NEW k \in KeyKinds, KeyLoaded(k) PROVE KeyInvs'
<1>1. /\ UNCHANGED <<keyring, keyFile, detects, process, made, astray, keyEvents>>
      /\ Does(k, "end") /\ calls[k].loads
      /\ inMemory' = [inMemory EXCEPT ![k] = Answer(k)]
      /\ calls' = [calls EXCEPT ![k] = KeyIdle]
      /\ stored' = IF k = "settings" /\ stored[k].key = Legacy /\ calls[k].key # NoKey
                   THEN [stored EXCEPT ![k].key = calls[k].key] ELSE stored
    BY DEF KeyLoaded
<1>2. /\ calls[k] \in KeyCalls /\ calls[k].todo \in Seq(Steps) /\ calls[k].todo # <<>>
      /\ WellFormed(calls[k].todo) /\ Head(calls[k].todo) = "end" /\ ~Does(k, "keep") /\ ~Does(k, "make")
      /\ calls \in [KeyKinds -> KeyCalls] /\ calls[k].key \in Keys /\ KeyIdle \in KeyCalls
      /\ KeyIdle.todo = <<>> /\ KeyIdle.key = NoKey
    BY <1>1, KeyTypes DEF Does, KeyCalls
<1>3. ~In("key", calls[k].todo) /\ ~In("print", calls[k].todo)
    BY <1>2, RestOfTodo DEF Steps
<1>4. calls'[k] = KeyIdle /\ WellFormed(KeyIdle.todo)
    BY <1>1, <1>2 DEF WellFormed
<1>5. /\ stored[k] \in [there : BOOLEAN, key : Keys \cup {Legacy}, print : Prints, content : Contents]
      /\ inMemory \in [KeyKinds -> Contents \cup {"unloaded", "refused"}]
      /\ k \in {"connections", "folders", "history", "settings"}
    BY KeyTypes, KeyAssumption
<1>6. Answer(k) \in Contents \cup {"refused"}
    BY <1>5 DEF Answer, Contents
<1>7. /\ stored' \in [KeyKinds -> [there : BOOLEAN, key : Keys \cup {Legacy}, print : Prints,
                                   content : Contents]]
      /\ stored'[k].key \in {stored[k].key, calls[k].key} /\ stored'[k].content = stored[k].content
      /\ stored'[k].there = stored[k].there /\ stored'[k].print = stored[k].print
      /\ \A j \in KeyKinds \ {k} : stored'[j] = stored[j]
    <2>1. CASE k = "settings" /\ stored[k].key = Legacy /\ calls[k].key # NoKey
        <3>1. stored' = [stored EXCEPT ![k] = [stored[k] EXCEPT !.key = calls[k].key]]
            BY <1>1, <2>1
        <3>2. /\ [stored[k] EXCEPT !.key = calls[k].key] \in
                     [there : BOOLEAN, key : Keys \cup {Legacy}, print : Prints, content : Contents]
              /\ [stored[k] EXCEPT !.key = calls[k].key].key = calls[k].key
              /\ [stored[k] EXCEPT !.key = calls[k].key].content = stored[k].content
              /\ [stored[k] EXCEPT !.key = calls[k].key].there = stored[k].there
              /\ [stored[k] EXCEPT !.key = calls[k].key].print = stored[k].print
            BY <1>2, <1>5
        <3> QED BY <3>1, <3>2, KeyTypes
    <2>2. CASE ~(k = "settings" /\ stored[k].key = Legacy /\ calls[k].key # NoKey)
        BY <1>1, <2>2, KeyTypes
    <2> QED BY <2>1, <2>2
<1>8. inMemory' \in [KeyKinds -> Contents \cup {"unloaded", "refused"}] /\ inMemory'[k] = Answer(k)
    BY <1>1, <1>5, <1>6
<1>9. ASSUME KeysAgree PROVE KeysAgree'
    <2>1. calls[k].key \in KeyPlaces
        BY <1>2, <1>9 DEF KeysAgree, OneKey
    <2>2. /\ \A j \in KeyKinds : stored'[j].key \in KeyPlaces \cup {Legacy}
          /\ KeyIdle.key \in KeyPlaces /\ process'.key \in KeyPlaces
        BY <1>1, <1>2, <1>7, <1>9, <2>1 DEF KeysAgree, OneKey, KeyPlaces
    <2> QED BY <1>1, <1>2, <1>4, <1>9, <2>2, NoMaker
<1>10. ASSUME Sound(k) PROVE Sound(k)'
    <2>1. stored[k].content = "intact" /\ Opened(k)
        BY <1>1, <1>2, <1>3, <1>10 DEF Sound
    <2>2. k \in {"folders", "history"} => calls[k].print = stored[k].print
        BY <1>1, <1>2, <1>3, <1>10 DEF Sound
    <2>3. Answer(k) \in {"intact", "refused"}
        BY <1>5, <2>1, <2>2 DEF Answer
    <2> QED BY <1>2, <1>4, <1>7, <1>8, <1>10, <2>1, <2>3 DEF Sound
<1>11. /\ RestTyped' /\ astray \subseteq astray'
       /\ \A j \in KeyKinds \ {k} : stored'[j] = stored[j] /\ inMemory'[j] = inMemory[j]
    BY <1>1, <1>5, <1>7, <1>8, KeyTypes DEF RestTyped
<1> QED BY <1>1, <1>2, <1>4, <1>9, <1>10, <1>11, CallStep

(* A save is written. *)
LEMMA SavedKeeps == ASSUME KeyInvs, NEW k \in KeyKinds, KeySaved(k) PROVE KeyInvs'
<1> DEFINE entry == [there |-> TRUE, key |-> calls[k].key, print |-> calls[k].print,
                     content |-> inMemory[k]]
<1>1. /\ UNCHANGED <<keyring, keyFile, detects, process, inMemory, made, astray, keyEvents>>
      /\ Does(k, "end") /\ ~calls[k].loads
      /\ calls' = [calls EXCEPT ![k] = KeyIdle]
      /\ stored' = [stored EXCEPT ![k] = entry]
    BY DEF KeySaved
<1>2. /\ calls[k] \in KeyCalls /\ calls[k].todo \in Seq(Steps) /\ calls[k].todo # <<>>
      /\ WellFormed(calls[k].todo) /\ Head(calls[k].todo) = "end" /\ ~Does(k, "keep") /\ ~Does(k, "make")
      /\ calls \in [KeyKinds -> KeyCalls] /\ calls[k].key \in Keys /\ KeyIdle \in KeyCalls
      /\ KeyIdle.todo = <<>> /\ KeyIdle.key = NoKey /\ calls[k].print \in Prints
    BY <1>1, KeyTypes DEF Does, KeyCalls
<1>3. ~In("print", calls[k].todo)
    BY <1>2, RestOfTodo DEF Steps
<1>4. calls'[k] = KeyIdle /\ WellFormed(KeyIdle.todo)
    BY <1>1, <1>2 DEF WellFormed
<1>5. inMemory[k] \in Contents
    BY <1>1, <1>2, SavesWhatIsHeld
<1>6. /\ entry \in [there : BOOLEAN, key : Keys \cup {Legacy}, print : Prints, content : Contents]
      /\ entry.key = calls[k].key /\ entry.print = calls[k].print /\ entry.content = inMemory[k]
    BY <1>2, <1>5
<1> HIDE DEF entry
<1>7. /\ stored' \in [KeyKinds -> [there : BOOLEAN, key : Keys \cup {Legacy}, print : Prints,
                                   content : Contents]]
      /\ stored'[k] = entry /\ \A j \in KeyKinds \ {k} : stored'[j] = stored[j]
    BY <1>1, <1>6, KeyTypes
<1>8. ASSUME KeysAgree PROVE KeysAgree'
    <2>1. calls[k].key \in KeyPlaces
        BY <1>2, <1>8 DEF KeysAgree, OneKey
    <2>2. /\ \A j \in KeyKinds : stored'[j].key \in KeyPlaces \cup {Legacy}
          /\ KeyIdle.key \in KeyPlaces /\ process'.key \in KeyPlaces
        BY <1>1, <1>2, <1>6, <1>7, <1>8, <2>1 DEF KeysAgree, OneKey, KeyPlaces
    <2> QED BY <1>1, <1>2, <1>4, <1>8, <2>2, NoMaker
<1>9. ASSUME Sound(k) PROVE Sound(k)'
    <2>1. inMemory[k] = "intact" /\ (k \in {"folders", "history"} => calls[k].print = "real")
        BY <1>1, <1>2, <1>3, <1>9 DEF Sound
    <2> QED BY <1>1, <1>2, <1>4, <1>6, <1>7, <2>1 DEF Sound
<1>10. RestTyped' /\ astray \subseteq astray' /\ \A j \in KeyKinds \ {k} : inMemory'[j] = inMemory[j]
    BY <1>1, <1>7, KeyTypes DEF RestTyped
<1> QED BY <1>1, <1>2, <1>4, <1>7, <1>8, <1>9, <1>10, CallStep

(* The process is gone, and with it what it cached. *)
LEMMA KeyRestartKeeps == KeyInvs /\ KeyRestart => KeyInvs'
<1> SUFFICES ASSUME KeyInvs, KeyRestart PROVE KeyInvs'
    OBVIOUS
<1>1. /\ UNCHANGED <<keyring, keyFile, detects, stored, made>>
      /\ process' = [key |-> NoKey, id |-> FALSE]
      /\ calls' = [k \in KeyKinds |-> KeyIdle] /\ inMemory' = [k \in KeyKinds |-> "unloaded"]
      /\ astray' = IF \E k \in KeyKinds : Does(k, "keep") /\ keyring.key = calls[k].key
                   THEN astray \cup {"unwritten"} ELSE astray
      /\ keyEvents' \in 0..MaxKeyEvents
    BY KeyTypes, KeyAssumption DEF KeyRestart, Note, Outside
<1>2. /\ NoKey \in Keys /\ KeyIdle \in KeyCalls /\ KeyIdle.todo = <<>> /\ KeyIdle.key = NoKey
      /\ \A k \in KeyKinds : calls'[k] = KeyIdle /\ inMemory'[k] = "unloaded"
    BY <1>1, KeyTypes
<1>3. KeyTypeOK' /\ Shaped' /\ Held'
    <2>1. astray' \subseteq {"raced", "unwritten", "undetected"}
        BY <1>1, KeyTypes
    <2>2. RestTyped' /\ calls' \in [KeyKinds -> KeyCalls] /\ process'.key = NoKey
        BY <1>1, <1>2, <2>1, KeyTypes DEF RestTyped
    <2> QED BY <1>2, <2>2 DEF RestTyped, KeyTypeOK, KeyCalls, Steps, Shaped, Held, WellFormed
<1>4. \A k \in KeyKinds : ~Does(k, "make")' /\ ~Does(k, "keep")'
    BY <1>2 DEF Does
<1>5. ASSUME astray' \subseteq {"undetected"}, KeysAgree PROVE KeysAgree'
    <2>1. keyring.key \in {NoKey, keyFile}
        <3>1. \A k \in KeyKinds : ~(Does(k, "keep") /\ keyring.key = calls[k].key)
            BY <1>1, <1>5
        <3> QED BY <1>5, <3>1 DEF KeysAgree, OneKey
    <2>2. OneMaker' /\ MakerAlone'
        BY <1>4 DEF OneMaker, MakerAlone, Pending
    <2>3. KeyPlaces' = KeyPlaces /\ NoKey \in KeyPlaces /\ process'.key = NoKey
        BY <1>1 DEF KeyPlaces
    <2>4. \A k \in KeyKinds : stored'[k].key \in KeyPlaces \cup {Legacy}
        BY <1>1, <1>5 DEF KeysAgree, OneKey
    <2>5. OneKey'
        BY <1>1, <1>2, <2>1, <2>3, <2>4 DEF OneKey
    <2> QED BY <2>2, <2>5 DEF KeysAgree
<1>6. ASSUME \A k \in KeyKinds : Sound(k) PROVE \A k \in KeyKinds : Sound(k)'
    BY <1>1, <1>2, <1>6 DEF Sound
<1>7. astray \subseteq astray'
    BY <1>1
<1> QED BY <1>3, <1>5, <1>6, <1>7 DEF KeyInvs

(* Every step keeps the invariant. *)
LEMMA KeyStep == KeyInvs /\ [KeyNext]_keyVars => KeyInvs'
<1> SUFFICES ASSUME KeyInvs, [KeyNext]_keyVars PROVE KeyInvs'
    OBVIOUS
<1>1. ASSUME UNCHANGED <<keyFile, process, calls, inMemory, stored, made, astray>>,
             keyring' \in [up : BOOLEAN, key : Keys, id : BOOLEAN], keyring'.key = keyring.key,
             keyEvents' \in 0..MaxKeyEvents
      PROVE  KeyInvs'
    <2>1. KeyTypeOK' /\ Shaped' /\ Held'
        BY <1>1 DEF KeyInvs, KeyTypeOK, Shaped, Held
    <2>2. KeysAgree => KeysAgree'
        BY <1>1 DEF KeysAgree, OneMaker, MakerAlone, OneKey, Pending, KeyPlaces, Does
    <2>3. \A k \in KeyKinds : Sound(k) => Sound(k)'
        BY <1>1 DEF Sound, Does, Opened
    <2> QED BY <1>1, <2>1, <2>2, <2>3 DEF KeyInvs
<1>2. CASE KeyringComesAndGoes
    <2>1. /\ keyring' = [keyring EXCEPT !.up = ~keyring.up]
          /\ keyring \in [up : BOOLEAN, key : Keys, id : BOOLEAN]
          /\ UNCHANGED <<keyFile, detects, process, calls, inMemory, stored, made, astray>>
          /\ keyEvents' \in 0..MaxKeyEvents
        BY <1>2, KeyTypes, KeyAssumption DEF KeyringComesAndGoes, Outside
    <2>2. keyring' \in [up : BOOLEAN, key : Keys, id : BOOLEAN] /\ keyring'.key = keyring.key
        BY <2>1
    <2> QED BY <1>1, <2>1, <2>2
<1>3. CASE DetectionComesAndGoes
    BY <1>1, <1>3, KeyTypes, KeyAssumption DEF DetectionComesAndGoes, Outside
<1>4. CASE UNCHANGED keyVars
    BY <1>1, <1>4, KeyTypes DEF keyVars
<1>5. ASSUME NEW k \in KeyKinds,
             \/ KeyLoad(k) \/ KeySave(k) \/ Fingerprint(k) \/ GetEncryptionKey(k)
             \/ MakeMasterKey(k) \/ KeepMasterKey(k) \/ KeyNotKept(k) \/ KeyLoaded(k) \/ KeySaved(k)
      PROVE  KeyInvs'
    BY <1>5, LoadKeeps, SaveKeeps, FingerprintKeeps, GetKeyKeeps, MakeKeeps, KeepKeeps,
       NotKeptKeeps, LoadedKeeps, SavedKeeps
<1> QED BY <1>2, <1>3, <1>4, <1>5, KeyRestartKeeps DEF KeyNext

(* For any keys made, files and keyrings that come and go: what is sealed   *)
(* can be opened by every later process, unless two first uses raced or the *)
(* key file could not be written, and is what was saved unless the machine  *)
(* was not recognised at some time (get_master_app_key, get_encryption_key  *)
(* and the loads of storage.rs).                                            *)
THEOREM SealedIsReadable == KeySpec => []SealedStaysReadable
<1>1. ASSUME KeyInvs PROVE SealedStaysReadable
    <2>1. ASSUME KeysAgree, NEW k \in KeyKinds, stored[k].key \in Keys \ {NoKey}
          PROVE  /\ \/ keyFile = stored[k].key
                    \/ \E j \in KeyKinds : Does(j, "keep") /\ calls[j].key = stored[k].key
                 /\ keyring.key \in {NoKey, stored[k].key}
        <3>1. stored[k].key \in KeyPlaces /\ stored[k].key # NoKey
            BY <2>1, KeyAssumption DEF KeysAgree, OneKey, Keys
        <3>2. keyring.key \in {NoKey, stored[k].key}
            BY <1>1, <2>1, <3>1, OneInPlaces DEF KeyPlaces
        <3> QED BY <2>1, <3>1, <3>2 DEF KeysAgree, OneKey, KeyPlaces
    <2>2. (\A k \in KeyKinds : Sound(k)) =>
              \A k \in KeyKinds : stored[k].content = "intact" /\ inMemory[k] \notin {"garbled", "lost"}
        BY DEF Sound
    <2> QED BY <1>1, <2>1, <2>2 DEF KeyInvs, SealedStaysReadable
<1> QED BY <1>1, KeyStart, KeyStep, PTL DEF KeySpec

-----------------------------------------------------------------------------
(* A save under way, the dialog of the library, and the types of the        *)
(* variables.                                                               *)
Writes == [snapshot : Snapshots, last : BOOLEAN]
Dialogs == [text : Texts, link : Links, name : Names \cup {Nil}]
SessionTypes ==
    /\ tabs \in Seq(TabRecords) /\ active \in Tabs \cup {Nil} /\ linked \in Links \cup {Nil}
    /\ startup \in {"loading", "asked", "done"}
    /\ phase \in {"open", "closing", "prompt", "leaving", "closed"}
    /\ timer \in Snapshots \cup {Nil} /\ writing \in Seq(Writes) /\ session \in Snapshots
    /\ rejoin \in Links \cup {Nil}
    /\ library \in [Names \X Links -> Texts] /\ naming \in Dialogs \cup {Nil}
    /\ pass \in Passes \cup {Nil} /\ autofile \in [Tabs -> Texts]
    /\ excused \in BOOLEAN

(* Only the newest save counts as the last one. *)
LastIsNewest == \A i \in DOMAIN writing : writing[i].last => i = Len(writing)

(* Until the session is restored only a window that closes saves it, once.  *)
Unrestored ==
    startup # "done" =>
        /\ timer = Nil
        /\ phase \in {"open", "prompt", "closed"} => writing = <<>>
        /\ Len(writing) <= 1 /\ \A i \in DOMAIN writing : writing[i].last

(* A closed window saves nothing. *)
AllOver == phase = "closed" => timer = Nil /\ writing = <<>>

(* The file has the promised texts, or the last save under way will put them*)
(* there.                                                                   *)
WillHave ==
    /\ \A i \in DOMAIN writing : writing[i].last => TextsOf(writing[i].snapshot.tabs) = promised
    /\ OwnSaveOver => TextsOf(session.tabs) = promised

(* The promised texts are in the file before the session is restored. From  *)
(* then on the open window has them, and so have the timer if it runs and   *)
(* otherwise what is on its way to the file.                                *)
Restores ==
    /\ startup # "done" => phase \in {"open", "closed"} /\ TextsOf(session.tabs) = promised
    /\ startup = "done" =>
        /\ phase # "closed" => TextsOf(tabs) = promised
        /\ timer # Nil => TextsOf(timer.tabs) = promised
        /\ phase # "open" \/ timer = Nil => WillHave
Promise == ~excused => Restores

(* What a snapshot has stored is taken for the text of its tab.             *)
Based(strip) == \A i \in DOMAIN strip : strip[i].base = strip[i].original
SnapshotsBased ==
    /\ Based(session.tabs) /\ (timer # Nil => Based(timer.tabs))
    /\ \A i \in DOMAIN writing : Based(writing[i].snapshot.tabs)

(* What counts as the saved text of a tab is stored, unless the tab is      *)
(* marked for lack of it or the auto-save is about to mark it.              *)
Backed(t, files, queries) ==
    \/ t.original \in {0, t.base, files[t.id]}
    \/ t.name # Nil /\ \E l \in Links : queries[<<t.name, l>>] = t.original
Trusted(t, marking) == t.vouched /\ (marking # Nil => t.id \notin marking.written)
TabsBacked ==
    Running => \A i \in DOMAIN tabs : Trusted(tabs[i], pass) => Backed(tabs[i], autofile, library)

(* The inductive invariant. *)
InFlight == LastIsNewest /\ Unrestored /\ AllOver /\ Promise
SessionInvs == SessionTypes /\ InFlight /\ SnapshotsBased /\ TabsBacked

-----------------------------------------------------------------------------
(* A function on 1 .. n is a sequence. *)
LEMMA SeqOfFunction ==
    ASSUME NEW S, NEW n \in Nat, NEW f \in [1..n -> S]
    PROVE  f \in Seq(S) /\ Len(f) = n /\ DOMAIN f = 1..n
<1>1. f \in Seq(S)
    BY SeqDef
<1> QED BY <1>1, LenProperties

(* A strip of tabs, as a function. *)
LEMMA StripFacts ==
    ASSUME NEW strip \in Seq(TabRecords)
    PROVE  /\ DOMAIN strip = 1..Len(strip) /\ Len(strip) \in Nat
           /\ \A i \in DOMAIN strip : strip[i] \in TabRecords
BY LenProperties

(* A snapshot has the texts of the tabs it was taken of. *)
LEMMA SnapshotFacts ==
    ASSUME NEW strip \in Seq(TabRecords), NEW who \in Tabs \cup {Nil}, NEW where \in Links \cup {Nil}
    PROVE  /\ Snapshot(strip, who, where) \in Snapshots
           /\ Snapshot(strip, who, where) # Nil
           /\ Based(Snapshot(strip, who, where).tabs)
           /\ TextsOf(Snapshot(strip, who, where).tabs) = TextsOf(strip)
<1> DEFINE saved == [i \in DOMAIN strip |-> Saved(strip[i])]
<1>1. \A t \in TabRecords : Saved(t) \in TabRecords
    BY DEF Saved, TabRecords
<1>2. saved \in [1..Len(strip) -> TabRecords]
    BY <1>1, StripFacts
<1>3. saved \in Seq(TabRecords)
    BY <1>2, StripFacts, SeqOfFunction
<1>4. DOMAIN saved = DOMAIN strip /\ \A i \in DOMAIN strip : saved[i] = Saved(strip[i])
    OBVIOUS
<1>5. \A t : Saved(t).id = t.id /\ Saved(t).text = t.text /\ Saved(t).base = Saved(t).original
    BY DEF Saved
<1> HIDE DEF saved
<1>6. Based(saved)
    BY <1>4, <1>5 DEF Based
<1>7. TextsOf(saved) = TextsOf(strip)
    BY <1>4, <1>5 DEF TextsOf
<1>8. /\ Snapshot(strip, who, where) = [tabs |-> saved, active |-> who, linked |-> where]
      /\ Snapshot(strip, who, where).tabs = saved
    BY DEF Snapshot, saved
<1>9. Snapshot(strip, who, where) \in Snapshots
    BY <1>3, <1>8 DEF Snapshots
<1> QED BY <1>6, <1>7, <1>8, <1>9, SessionAssumption

(* A save that is sent is the last of the writes, and the only one called   *)
(* so.                                                                      *)
LEMMA SendFacts ==
    ASSUME writing \in Seq(Writes), NEW s \in Snapshots
    PROVE  /\ Send(s) \in Seq(Writes) /\ Len(Send(s)) = Len(writing) + 1
           /\ DOMAIN Send(s) = 1..Len(writing) + 1
           /\ Send(s)[Len(writing) + 1] = [snapshot |-> s, last |-> TRUE]
           /\ \A i \in 1..Len(writing) : ~Send(s)[i].last /\ Send(s)[i].snapshot = writing[i].snapshot
<1> DEFINE older == [i \in DOMAIN writing |-> [writing[i] EXCEPT !.last = FALSE]]
           newest == [snapshot |-> s, last |-> TRUE]
<1>1. DOMAIN writing = 1..Len(writing) /\ Len(writing) \in Nat /\ \A i \in 1..Len(writing) : writing[i] \in Writes
    BY LenProperties
<1>2. \A w \in Writes : /\ [w EXCEPT !.last = FALSE] \in Writes
                        /\ ~[w EXCEPT !.last = FALSE].last
                        /\ [w EXCEPT !.last = FALSE].snapshot = w.snapshot
    BY DEF Writes
<1>3. older \in [1..Len(writing) -> Writes]
    BY <1>1, <1>2
<1>4. older \in Seq(Writes) /\ Len(older) = Len(writing)
    BY <1>1, <1>3, SeqOfFunction
<1>5. \A i \in 1..Len(writing) : older[i] = [writing[i] EXCEPT !.last = FALSE]
    BY <1>1
<1>6. newest \in Writes
    BY DEF Writes
<1>7. Send(s) = Append(older, newest)
    BY DEF Send
<1> HIDE DEF older, newest
<1>8. /\ Append(older, newest) \in Seq(Writes)
      /\ Len(Append(older, newest)) = Len(older) + 1
      /\ \A i \in 1..Len(older) : Append(older, newest)[i] = older[i]
      /\ Append(older, newest)[Len(older) + 1] = newest
    BY <1>4, <1>6, AppendProperties
<1>9. DOMAIN Send(s) = 1..Len(Send(s))
    BY <1>7, <1>8, LenProperties
<1>10. \A i \in 1..Len(writing) : ~Send(s)[i].last /\ Send(s)[i].snapshot = writing[i].snapshot
    BY <1>1, <1>2, <1>4, <1>5, <1>7, <1>8
<1> QED BY <1>4, <1>7, <1>8, <1>9, <1>10 DEF newest

(* What is left of the writes when one of them is over. *)
LEMMA WithoutFacts ==
    ASSUME writing \in Seq(Writes), NEW i \in DOMAIN writing
    PROVE  /\ Without(i) \in Seq(Writes) /\ Len(Without(i)) = Len(writing) - 1
           /\ DOMAIN Without(i) = 1..Len(writing) - 1
           /\ \A j \in DOMAIN Without(i) :
                  \/ j < i /\ Without(i)[j] = writing[j]
                  \/ j >= i /\ j + 1 \in DOMAIN writing /\ Without(i)[j] = writing[j + 1]
<1>1. DOMAIN writing = 1..Len(writing) /\ Len(writing) \in Nat /\ \A j \in 1..Len(writing) : writing[j] \in Writes
    BY LenProperties
<1>2. Len(writing) - 1 \in Nat
    BY <1>1
<1>3. /\ DOMAIN Without(i) = 1..Len(writing) - 1
      /\ \A j \in 1..Len(writing) - 1 :
             /\ Without(i)[j] = IF j < i THEN writing[j] ELSE writing[j + 1]
             /\ j \in 1..Len(writing) /\ j + 1 \in 1..Len(writing)
    BY <1>1, <1>2 DEF Without
<1>4. Without(i) \in [1..Len(writing) - 1 -> Writes]
    BY <1>1, <1>3 DEF Without
<1>5. Without(i) \in Seq(Writes) /\ Len(Without(i)) = Len(writing) - 1
    BY <1>2, <1>4, SeqOfFunction
<1> QED BY <1>1, <1>3, <1>5

-----------------------------------------------------------------------------
(* What a change of the tabs does to the snapshots. *)
LEMMA ChangedKeeps ==
    ASSUME SessionInvs, Usable, Changed, phase' = phase, startup' = startup,
           tabs' \in Seq(TabRecords), active' \in Tabs \cup {Nil}, linked' \in Links \cup {Nil}
    PROVE  /\ timer' \in Snapshots \cup {Nil} /\ writing' = writing /\ session' = session
           /\ excused' \in BOOLEAN
           /\ InFlight' /\ SnapshotsBased'
<1> DEFINE snap == Snapshot(tabs', active', linked')
<1>1. snap \in Snapshots /\ snap # Nil /\ Based(snap.tabs) /\ TextsOf(snap.tabs) = TextsOf(tabs')
    BY SnapshotFacts
<1>2. /\ startup # "done" => timer' = timer /\ promised' = promised
      /\ startup = "done" => timer' = snap /\ promised' = TextsOf(tabs')
      /\ excused' = (excused \/ phase = "closing") /\ writing' = writing /\ session' = session
    BY DEF Changed
<1> HIDE DEF snap
<1>3. timer' \in Snapshots \cup {Nil} /\ excused' \in BOOLEAN
    BY <1>1, <1>2 DEF SessionInvs, SessionTypes
<1>4. LastIsNewest' /\ Unrestored' /\ AllOver'
    BY <1>2 DEF SessionInvs, InFlight, LastIsNewest, Unrestored, AllOver, Usable
<1>5. Promise'
    <2> SUFFICES ASSUME ~excused' PROVE Restores'
        BY DEF Promise
    <2>1. ~excused /\ phase = "open"
        BY <1>2 DEF Usable, SessionInvs, SessionTypes
    <2>2. CASE startup # "done"
        BY <1>2, <2>1, <2>2 DEF SessionInvs, InFlight, Promise, Restores
    <2>3. CASE startup = "done"
        BY <1>1, <1>2, <2>1, <2>3 DEF Restores
    <2> QED BY <2>2, <2>3
<1>6. SnapshotsBased'
    BY <1>1, <1>2 DEF SessionInvs, SnapshotsBased
<1> QED BY <1>2, <1>3, <1>4, <1>5, <1>6 DEF InFlight

(* Steps that leave the tabs and the writes alone. *)
LEMMA FlightKept ==
    ASSUME InFlight, UNCHANGED <<tabs, timer, writing, session, startup, phase, promised, excused>>
    PROVE  InFlight'
BY DEF InFlight, LastIsNewest, Unrestored, AllOver, Promise, Restores, WillHave, OwnSaveOver

(* Steps that leave the snapshots alone. *)
LEMMA BasedKept ==
    ASSUME SnapshotsBased, UNCHANGED <<timer, writing, session>>
    PROVE  SnapshotsBased'
BY DEF SnapshotsBased

(* Steps that leave the tabs and what they are measured against alone.      *)
LEMMA BackedKept ==
    ASSUME TabsBacked, UNCHANGED <<tabs, library, autofile>>, Running' => Running /\ pass' = pass
    PROVE  TabsBacked'
BY DEF TabsBacked, Trusted

-----------------------------------------------------------------------------
(* What a change of the tabs does not touch. *)
OthersTyped ==
    /\ rejoin \in Links \cup {Nil}
    /\ library \in [Names \X Links -> Texts] /\ naming \in Dialogs \cup {Nil}
    /\ pass \in Passes \cup {Nil} /\ autofile \in [Tabs -> Texts]

(* So a step that changes the tabs has only to keep them typed and backed.  *)
LEMMA ChangedStep ==
    ASSUME SessionInvs, Usable, Changed, phase' = phase, startup' = startup,
           tabs' \in Seq(TabRecords), active' \in Tabs \cup {Nil}, linked' \in Links \cup {Nil},
           OthersTyped', TabsBacked'
    PROVE  SessionInvs'
<1>1. /\ timer' \in Snapshots \cup {Nil} /\ writing' = writing /\ session' = session
      /\ excused' \in BOOLEAN /\ InFlight' /\ SnapshotsBased'
    BY ChangedKeeps
<1>2. SessionTypes'
    BY <1>1 DEF SessionInvs, SessionTypes, OthersTyped
<1> QED BY <1>1, <1>2 DEF SessionInvs

(* Tabs that are measured against the same texts. *)
AsBacked(t, u) ==
    /\ t.id = u.id /\ t.name = u.name /\ t.original = u.original /\ t.base = u.base
    /\ t.vouched = u.vouched

(* Which keeps tabs backed. *)
LEMMA SameBacked ==
    ASSUME SessionInvs, Usable, phase' = phase, UNCHANGED <<library, pass, autofile>>,
           \A i \in DOMAIN tabs' : \E j \in DOMAIN tabs : AsBacked(tabs'[i], tabs[j])
    PROVE  TabsBacked'
<1>1. Running
    BY DEF Usable, Running
<1>2. \A i \in DOMAIN tabs : Trusted(tabs[i], pass) => Backed(tabs[i], autofile, library)
    BY <1>1 DEF SessionInvs, TabsBacked
<1>3. \A t, u : AsBacked(t, u) => (Trusted(t, pass) => Trusted(u, pass))
    BY DEF AsBacked, Trusted
<1>5. ASSUME NEW t, NEW u, AsBacked(t, u), Backed(u, autofile, library)
      PROVE  Backed(t, autofile, library)
    <2>1. t.id = u.id /\ t.name = u.name /\ t.original = u.original /\ t.base = u.base
        BY <1>5 DEF AsBacked
    <2>2. CASE u.original \in {0, u.base, autofile[u.id]}
        BY <2>1, <2>2 DEF Backed
    <2>3. CASE u.name # Nil /\ \E l \in Links : library[<<u.name, l>>] = u.original
        BY <2>1, <2>3 DEF Backed
    <2> QED BY <1>5, <2>2, <2>3 DEF Backed
<1>4. \A i \in DOMAIN tabs' : Trusted(tabs'[i], pass) => Backed(tabs'[i], autofile, library)
    BY <1>2, <1>3, <1>5
<1> QED BY <1>4 DEF TabsBacked

(* A tab that exists has a place. *)
LEMMA PlaceFacts ==
    ASSUME NEW id \in Ids(tabs)
    PROVE  Place(id) \in DOMAIN tabs /\ tabs[Place(id)].id = id
BY DEF Ids, Place

(* The strip with one tab replaced. *)
LEMMA OneTab ==
    ASSUME tabs \in Seq(TabRecords), NEW i \in DOMAIN tabs, NEW t \in TabRecords
    PROVE  /\ [tabs EXCEPT ![i] = t] \in Seq(TabRecords)
           /\ DOMAIN [tabs EXCEPT ![i] = t] = DOMAIN tabs
           /\ \A j \in DOMAIN tabs : [tabs EXCEPT ![i] = t][j] = IF j = i THEN t ELSE tabs[j]
BY ExceptSeq, LenProperties

(* Typing. *)
LEMMA TypeKeeps == ASSUME SessionInvs, Type, UNCHANGED startup PROVE SessionInvs'
<1>1. /\ Usable /\ Changed /\ phase' = phase /\ UNCHANGED <<active, linked, saveVars, rejoin>>
    BY DEF Type
<1>2. PICK text \in Texts : active \in Ids(tabs) /\ tabs' = [tabs EXCEPT ![Place(active)].text = text]
    BY DEF Type
<1> DEFINE i == Place(active)
           t == [tabs[i] EXCEPT !.text = text]
<1>3. i \in DOMAIN tabs
    BY <1>2, PlaceFacts
<1>4. tabs \in Seq(TabRecords) /\ tabs[i] \in TabRecords
    BY <1>3, StripFacts DEF SessionInvs, SessionTypes
<1>5. t \in TabRecords /\ AsBacked(t, tabs[i]) /\ \A u : AsBacked(u, u)
    BY <1>4 DEF TabRecords, AsBacked
<1>6. tabs' = [tabs EXCEPT ![i] = t]
    BY <1>2, <1>3
<1> HIDE DEF i, t
<1>7. /\ tabs' \in Seq(TabRecords) /\ DOMAIN tabs' = DOMAIN tabs
      /\ \A j \in DOMAIN tabs : tabs'[j] = IF j = i THEN t ELSE tabs[j]
    BY <1>3, <1>4, <1>5, <1>6, OneTab
<1>8. \A j \in DOMAIN tabs' : \E k \in DOMAIN tabs : AsBacked(tabs'[j], tabs[k])
    BY <1>3, <1>5, <1>7
<1>9. OthersTyped' /\ active' \in Tabs \cup {Nil} /\ linked' \in Links \cup {Nil}
    BY <1>1 DEF SessionInvs, SessionTypes, OthersTyped, saveVars
<1> QED BY <1>1, <1>7, <1>8, <1>9, SameBacked, ChangedStep DEF saveVars

(* A click on another tab. *)
LEMMA SwitchKeeps == ASSUME SessionInvs, SwitchTab, UNCHANGED startup PROVE SessionInvs'
<1>1. /\ Usable /\ Changed /\ phase' = phase /\ UNCHANGED <<tabs, linked, saveVars, rejoin>>
      /\ active' \in Ids(tabs)
    BY DEF SwitchTab
<1>2. tabs' \in Seq(TabRecords) /\ OthersTyped' /\ linked' \in Links \cup {Nil}
    BY <1>1 DEF SessionInvs, SessionTypes, OthersTyped, saveVars
<1>3. active' \in Tabs
    <2>1. \A i \in DOMAIN tabs : tabs[i].id \in Tabs
        BY StripFacts DEF SessionInvs, SessionTypes, TabRecords
    <2> QED BY <1>1, <2>1 DEF Ids
<1>4. TabsBacked'
    BY <1>1, SameBacked DEF saveVars, AsBacked
<1> QED BY <1>1, <1>2, <1>3, <1>4, ChangedStep

(* The connection of the previous session is open. *)
LEMMA RejoinedKeeps == ASSUME SessionInvs, Rejoined, UNCHANGED startup PROVE SessionInvs'
<1>1. /\ Usable /\ Changed /\ phase' = phase /\ UNCHANGED <<tabs, active, saveVars>>
      /\ linked' = rejoin /\ rejoin' = Nil
    BY DEF Rejoined
<1>2. /\ tabs' \in Seq(TabRecords) /\ OthersTyped' /\ linked' \in Links \cup {Nil}
      /\ active' \in Tabs \cup {Nil}
    BY <1>1 DEF SessionInvs, SessionTypes, OthersTyped, saveVars
<1>4. TabsBacked'
    BY <1>1, SameBacked DEF saveVars, AsBacked
<1> QED BY <1>1, <1>2, <1>4, ChangedStep

(* The steps that add a tab. *)
LEMMA AddKeeps ==
    ASSUME SessionInvs, NEW t \in TabRecords, t.id \notin Ids(tabs),
           t.original = t.base \/ ~t.vouched,
           Usable, AddTab(t), UNCHANGED <<library, naming, pass, phase, rejoin, startup>>
    PROVE  SessionInvs'
<1>1. /\ Changed /\ tabs' = Append(tabs, t) /\ active' = t.id /\ linked' = linked
      /\ autofile' = [autofile EXCEPT ![t.id] = 0]
    BY DEF AddTab
<1>2. /\ tabs \in Seq(TabRecords) /\ autofile \in [Tabs -> Texts] /\ t.id \in Tabs
      /\ linked \in Links \cup {Nil} /\ 0 \in Texts
    BY SessionAssumption DEF SessionInvs, SessionTypes, TabRecords, Texts
<1>3. /\ tabs' \in Seq(TabRecords) /\ Len(tabs') = Len(tabs) + 1
      /\ \A i \in 1..Len(tabs) : tabs'[i] = tabs[i]
      /\ tabs'[Len(tabs) + 1] = t
    BY <1>1, <1>2, AppendProperties
<1>4. /\ DOMAIN tabs = 1..Len(tabs) /\ DOMAIN tabs' = 1..Len(tabs) + 1 /\ Len(tabs) \in Nat
      /\ \A i \in DOMAIN tabs : tabs[i] \in TabRecords
    BY <1>2, <1>3, StripFacts
<1>5. autofile' \in [Tabs -> Texts] /\ \A id \in Tabs : id # t.id => autofile'[id] = autofile[id]
    BY <1>1, <1>2
<1>6. OthersTyped' /\ active' \in Tabs \cup {Nil} /\ linked' \in Links \cup {Nil}
    BY <1>1, <1>2, <1>5 DEF SessionInvs, SessionTypes, OthersTyped
<1>7. TabsBacked'
    <2>1. SUFFICES ASSUME NEW i \in DOMAIN tabs', Trusted(tabs'[i], pass)
                   PROVE  Backed(tabs'[i], autofile', library)
        BY DEF TabsBacked
    <2>2. CASE i = Len(tabs) + 1
        BY <1>3, <2>1, <2>2 DEF Trusted, Backed
    <2>3. CASE i # Len(tabs) + 1
        <3>1. i \in DOMAIN tabs /\ tabs'[i] = tabs[i]
            BY <1>3, <1>4, <2>3
        <3>2. Backed(tabs[i], autofile, library)
            BY <2>1, <3>1 DEF SessionInvs, TabsBacked, Usable, Running
        <3>3. tabs[i].id # t.id /\ tabs[i].id \in Tabs
            BY <1>4, <3>1 DEF Ids, TabRecords
        <3>4. autofile'[tabs[i].id] = autofile[tabs[i].id]
            BY <1>5, <3>3
        <3> QED BY <3>1, <3>2, <3>4 DEF Backed
    <2> QED BY <2>2, <2>3
<1> QED BY <1>1, <1>3, <1>6, <1>7, ChangedStep

(* A new tab is typed, and clean. *)
LEMMA NewTabFacts ==
    ASSUME NEW id \in Tabs, NEW text \in Texts, NEW name \in Names \cup {Nil},
           NEW link \in Links \cup {Nil}
    PROVE  /\ Tab(id, text, name, link) \in TabRecords
           /\ Tab(id, text, name, link).id = id
           /\ Tab(id, text, name, link).original = Tab(id, text, name, link).base
BY DEF Tab, TabRecords

(* It is for a connection, or for none. *)
LEMMA TargetType ==
    ASSUME SessionTypes, NEW l \in Links \cup {Nil}
    PROVE  Target(l) \in Links \cup {Nil}
BY DEF Target, SessionTypes, Snapshots

(* An empty tab. *)
LEMMA NewTabKeeps == ASSUME SessionInvs, NewTab, UNCHANGED startup PROVE SessionInvs'
<1>1. PICK id \in Fresh : AddTab(Tab(id, 0, Nil, Target(Nil)))
    BY DEF NewTab
<1> DEFINE t == Tab(id, 0, Nil, Target(Nil))
<1>2. id \in Tabs \ Ids(tabs) /\ 0 \in Texts
    BY SessionAssumption DEF Fresh, Texts
<1>3. t \in TabRecords /\ t.id = id /\ t.original = t.base
    BY <1>2, TargetType, NewTabFacts DEF SessionInvs
<1>4. Usable /\ UNCHANGED <<library, naming, pass, phase, rejoin>>
    BY DEF NewTab
<1> HIDE DEF t
<1>5. AddTab(t)
    BY <1>1 DEF t
<1> QED BY <1>2, <1>3, <1>4, <1>5, AddKeeps

(* A tab for a saved query. *)
LEMMA OpenSavedKeeps == ASSUME SessionInvs, OpenSaved, UNCHANGED startup PROVE SessionInvs'
<1>1. PICK id \in Fresh, k \in Names \X Links : AddTab(Tab(id, library[k], k[1], Target(k[2])))
    BY DEF OpenSaved
<1> DEFINE t == Tab(id, library[k], k[1], Target(k[2]))
<1>2. id \in Tabs \ Ids(tabs) /\ library[k] \in Texts /\ k[1] \in Names /\ k[2] \in Links
    BY DEF Fresh, SessionInvs, SessionTypes
<1>3. t \in TabRecords /\ t.id = id /\ t.original = t.base
    BY <1>2, TargetType, NewTabFacts DEF SessionInvs
<1>4. Usable /\ UNCHANGED <<library, naming, pass, phase, rejoin>>
    BY DEF OpenSaved
<1> HIDE DEF t
<1>5. AddTab(t)
    BY <1>1 DEF t
<1> QED BY <1>2, <1>3, <1>4, <1>5, AddKeeps

(* The copy of a tab, whose text may be stored nowhere. *)
LEMMA DuplicateKeeps == ASSUME SessionInvs, Duplicate, UNCHANGED startup PROVE SessionInvs'
<1>1. PICK id \in Fresh, i \in DOMAIN tabs :
          AddTab([Tab(id, tabs[i].text, Nil, Target(tabs[i].link))
                    EXCEPT !.base = 0, !.vouched = FALSE])
    BY DEF Duplicate
<1> DEFINE c == Tab(id, tabs[i].text, Nil, Target(tabs[i].link))
           t == [c EXCEPT !.base = 0, !.vouched = FALSE]
<1>2. id \in Tabs \ Ids(tabs) /\ 0 \in Texts /\ tabs[i] \in TabRecords
    BY SessionAssumption, StripFacts DEF Fresh, Texts, SessionInvs, SessionTypes
<1>3. tabs[i].text \in Texts /\ tabs[i].link \in Links \cup {Nil}
    BY <1>2 DEF TabRecords
<1>4. c \in TabRecords /\ c.id = id
    BY <1>2, <1>3, TargetType, NewTabFacts DEF SessionInvs
<1>5. Usable /\ UNCHANGED <<library, naming, pass, phase, rejoin>>
    BY DEF Duplicate
<1> HIDE DEF c
<1>6. t \in TabRecords /\ t.id = id /\ ~t.vouched
    BY <1>2, <1>4 DEF TabRecords
<1>7. AddTab(t)
    BY <1>1 DEF c
<1> HIDE DEF t
<1> QED BY <1>2, <1>5, <1>6, <1>7, AddKeeps

-----------------------------------------------------------------------------
(* The steps that close tabs: the ones that stay are as they were. *)
LEMMA SomeStay ==
    ASSUME SessionInvs, Usable, Changed, UNCHANGED <<linked, saveVars, phase, rejoin, startup>>,
           tabs' \in Seq(TabRecords), active' \in Tabs \cup {Nil},
           \A i \in DOMAIN tabs' : \E j \in DOMAIN tabs : tabs'[i] = tabs[j]
    PROVE  SessionInvs'
<1>1. \A u : AsBacked(u, u)
    BY DEF AsBacked
<1>2. \A i \in DOMAIN tabs' : \E j \in DOMAIN tabs : AsBacked(tabs'[i], tabs[j])
    BY <1>1
<1>3. TabsBacked'
    BY <1>2, SameBacked DEF saveVars
<1>4. OthersTyped' /\ linked' \in Links \cup {Nil}
    BY DEF SessionInvs, SessionTypes, OthersTyped, saveVars
<1> QED BY <1>3, <1>4, ChangedStep

(* What RemoveAt leaves are elements of the sequence. *)
LEMMA RemoveFacts ==
    ASSUME tabs \in Seq(TabRecords), NEW p \in DOMAIN tabs
    PROVE  /\ RemoveAt(tabs, p) \in Seq(TabRecords)
           /\ \A i \in DOMAIN RemoveAt(tabs, p) :
                  \E j \in DOMAIN tabs : RemoveAt(tabs, p)[i] = tabs[j]
<1>1. DOMAIN tabs = 1..Len(tabs) /\ Len(tabs) \in Nat /\ p \in 1..Len(tabs)
    BY StripFacts
<1> DEFINE left == SubSeq(tabs, 1, p - 1)
           right == SubSeq(tabs, p + 1, Len(tabs))
<1>2. RemoveAt(tabs, p) = left \o right
    BY DEF RemoveAt
<1>3. /\ left \in Seq(TabRecords) /\ Len(left) = p - 1
      /\ \A i \in 1..p - 1 : left[i] = tabs[i]
    <2>1. 1 \in 1..Len(tabs) + 1 /\ p - 1 \in 0..Len(tabs)
        BY <1>1
    <2>2. /\ left \in Seq(TabRecords)
          /\ Len(left) = IF 1 <= p - 1 THEN p - 1 - 1 + 1 ELSE 0
          /\ \A i \in 1..p - 1 - 1 + 1 : left[i] = tabs[1 + i - 1]
        BY <2>1, <1>1, SubSeqProperties
    <2> QED BY <1>1, <2>2
<1>4. /\ right \in Seq(TabRecords) /\ Len(right) = Len(tabs) - p
      /\ \A i \in 1..Len(tabs) - p : right[i] = tabs[p + i]
    <2>1. p + 1 \in 1..Len(tabs) + 1 /\ Len(tabs) \in 0..Len(tabs)
        BY <1>1
    <2>2. /\ right \in Seq(TabRecords)
          /\ Len(right) = IF p + 1 <= Len(tabs) THEN Len(tabs) - (p + 1) + 1 ELSE 0
          /\ \A i \in 1..Len(tabs) - (p + 1) + 1 : right[i] = tabs[p + 1 + i - 1]
        BY <2>1, <1>1, SubSeqProperties
    <2> QED BY <1>1, <2>2
<1> DEFINE rest == left \o right
<1> HIDE DEF left, right
<1>5. /\ left \o right \in Seq(TabRecords) /\ Len(left \o right) = Len(left) + Len(right)
      /\ \A i \in 1..Len(left) + Len(right) :
            (left \o right)[i] = IF i <= Len(left) THEN left[i] ELSE right[i - Len(left)]
    BY <1>3, <1>4, ConcatProperties
<1>6. /\ rest \in Seq(TabRecords) /\ Len(rest) = Len(tabs) - 1 /\ DOMAIN rest = 1..Len(rest)
      /\ \A i \in 1..Len(rest) : rest[i] = IF i <= p - 1 THEN left[i] ELSE right[i - (p - 1)]
    <2>1. Len(left) + Len(right) = Len(tabs) - 1
        BY <1>1, <1>3, <1>4
    <2>2. DOMAIN rest = 1..Len(rest)
        BY <1>5, StripFacts
    <2> QED BY <1>3, <1>5, <2>1, <2>2
<1> HIDE DEF rest
<1>7. ASSUME NEW i \in 1..Len(tabs) - 1
      PROVE  \E j \in DOMAIN tabs : rest[i] = tabs[j]
    <2>1. CASE i <= p - 1
        <3>1. rest[i] = tabs[i] /\ i \in DOMAIN tabs
            BY <1>1, <1>3, <1>6, <2>1
        <3> QED BY <3>1
    <2>2. CASE ~(i <= p - 1)
        <3> DEFINE k == i - (p - 1)
        <3>1. k \in 1..Len(tabs) - p /\ p + k = i + 1 /\ i + 1 \in DOMAIN tabs
            BY <1>1, <2>2
        <3>2. rest[i] = right[k]
            BY <1>1, <1>6, <2>2
        <3>3. right[k] = tabs[i + 1]
            BY <1>4, <3>1
        <3> QED BY <3>1, <3>2, <3>3
    <2> QED BY <2>1, <2>2
<1>8. RemoveAt(tabs, p) = rest
    BY <1>2 DEF rest
<1> QED BY <1>6, <1>7, <1>8

(* One tab is closed. *)
LEMMA CloseTabKeeps == ASSUME SessionInvs, CloseTab, UNCHANGED startup PROVE SessionInvs'
<1>1. PICK id \in Ids(tabs) :
          /\ tabs' = RemoveAt(tabs, Place(id))
          /\ active' = IF active # id THEN active
                       ELSE IF tabs' = <<>> THEN Nil ELSE Last(tabs').id
    BY DEF CloseTab
<1>2. Usable /\ Changed /\ UNCHANGED <<linked, saveVars, phase, rejoin>>
    BY DEF CloseTab
<1>3. tabs \in Seq(TabRecords) /\ active \in Tabs \cup {Nil}
    BY DEF SessionInvs, SessionTypes
<1>4. /\ tabs' \in Seq(TabRecords)
      /\ \A i \in DOMAIN tabs' : \E j \in DOMAIN tabs : tabs'[i] = tabs[j]
    BY <1>1, <1>3, PlaceFacts, RemoveFacts
<1>5. tabs' # <<>> => Last(tabs').id \in Tabs
    <2>1. tabs' # <<>> => Len(tabs') \in DOMAIN tabs'
        BY <1>4, EmptySeq, StripFacts
    <2>2. \A i \in DOMAIN tabs' : tabs'[i] \in TabRecords
        BY <1>4, StripFacts
    <2> QED BY <2>1, <2>2 DEF Last, TabRecords
<1>6. active' \in Tabs \cup {Nil}
    BY <1>1, <1>3, <1>5
<1> QED BY <1>2, <1>4, <1>6, SomeStay

(* All but one are closed. *)
LEMMA CloseOthersKeeps == ASSUME SessionInvs, CloseOthers, UNCHANGED startup PROVE SessionInvs'
<1>1. PICK id \in Ids(tabs) : tabs' = <<tabs[Place(id)]>> /\ active' = id
    BY DEF CloseOthers
<1>2. Usable /\ Changed /\ UNCHANGED <<linked, saveVars, phase, rejoin>>
    BY DEF CloseOthers
<1>3. PICK p \in DOMAIN tabs : p = Place(id) /\ tabs[p].id = id /\ tabs[p] \in TabRecords
    BY PlaceFacts, StripFacts DEF SessionInvs, SessionTypes
<1>4. tabs' = <<tabs[p]>> /\ active' = tabs[p].id
    BY <1>1, <1>3
<1>5. tabs' \in Seq(TabRecords) /\ DOMAIN tabs' = {1} /\ tabs'[1] = tabs[p]
    BY <1>3, <1>4
<1>6. active' \in Tabs \cup {Nil}
    BY <1>3, <1>4 DEF TabRecords
<1> QED BY <1>2, <1>5, <1>6, SomeStay

(* All are closed. *)
LEMMA CloseAllKeeps == ASSUME SessionInvs, CloseAll, UNCHANGED startup PROVE SessionInvs'
<1>1. /\ Usable /\ Changed /\ UNCHANGED <<linked, saveVars, phase, rejoin>>
      /\ tabs' = <<>> /\ active' = Nil
    BY DEF CloseAll
<1>2. tabs' \in Seq(TabRecords) /\ DOMAIN tabs' = {}
    BY <1>1
<1> QED BY <1>1, <1>2, SomeStay

(* The active tab gets another connection. *)
LEMMA RetargetKeeps == ASSUME SessionInvs, Retarget, UNCHANGED startup PROVE SessionInvs'
<1>1. /\ Usable /\ Changed /\ phase' = phase /\ UNCHANGED <<active, saveVars, rejoin>>
    BY DEF Retarget
<1>2. PICK l \in Links :
          /\ tabs' = IF active \in Ids(tabs) THEN [tabs EXCEPT ![Place(active)].link = l] ELSE tabs
          /\ linked' \in {l, linked}
    BY DEF Retarget
<1>3. tabs \in Seq(TabRecords) /\ linked' \in Links \cup {Nil} /\ active' \in Tabs \cup {Nil}
    BY <1>1, <1>2 DEF SessionInvs, SessionTypes
<1>4. OthersTyped'
    BY <1>1 DEF SessionInvs, SessionTypes, OthersTyped, saveVars
<1>5. \A u : AsBacked(u, u)
    BY DEF AsBacked
<1>6. /\ tabs' \in Seq(TabRecords)
      /\ \A j \in DOMAIN tabs' : \E k \in DOMAIN tabs : AsBacked(tabs'[j], tabs[k])
    <2>1. CASE active \notin Ids(tabs)
        BY <1>2, <1>3, <1>5, <2>1
    <2>2. CASE active \in Ids(tabs)
        <3> DEFINE i == Place(active)
                   t == [tabs[i] EXCEPT !.link = l]
        <3>1. i \in DOMAIN tabs
            BY <2>2, PlaceFacts
        <3>2. tabs[i] \in TabRecords
            BY <1>3, <3>1, StripFacts
        <3>3. t \in TabRecords /\ AsBacked(t, tabs[i])
            BY <3>2 DEF TabRecords, AsBacked
        <3>4. tabs' = [tabs EXCEPT ![i] = t]
            BY <1>2, <2>2, <3>1
        <3> HIDE DEF i, t
        <3>5. /\ tabs' \in Seq(TabRecords) /\ DOMAIN tabs' = DOMAIN tabs
              /\ \A j \in DOMAIN tabs : tabs'[j] = IF j = i THEN t ELSE tabs[j]
            BY <1>3, <3>1, <3>3, <3>4, OneTab
        <3> QED BY <1>5, <3>1, <3>3, <3>5
    <2> QED BY <2>1, <2>2
<1>7. TabsBacked'
    BY <1>1, <1>6, SameBacked DEF saveVars
<1> QED BY <1>1, <1>3, <1>4, <1>6, <1>7, ChangedStep

-----------------------------------------------------------------------------
(* The steps that mark tabs. *)

(* A tab that is marked has the name and the text of the query; one that is *)
(* not has another name.                                                    *)
LEMMA MarkFacts ==
    ASSUME NEW t \in TabRecords, naming \in Dialogs, naming.name \in Names
    PROVE  /\ Mark(t) \in TabRecords /\ Mark(t).id = t.id /\ Mark(t).base = t.base
           /\ \/ Mark(t).name = naming.name /\ Mark(t).original = naming.text
              \/ Mark(t) = t /\ t.name # naming.name
<1>1. naming.text \in Texts
    BY DEF Dialogs
<1>2. CASE t.id = active
    BY <1>1, <1>2 DEF Mark, TabRecords
<1>3. CASE t.id # active /\ t.name = naming.name
    BY <1>1, <1>3 DEF Mark, TabRecords
<1>4. CASE t.id # active /\ t.name # naming.name
    BY <1>4 DEF Mark
<1> QED BY <1>2, <1>3, <1>4

(* A query is saved: what its name had is replaced, and all tabs of that    *)
(* name are marked with what it has now.                                    *)
LEMMA QuerySavedKeeps == ASSUME SessionInvs, QuerySaved, UNCHANGED startup PROVE SessionInvs'
<1>1. /\ Usable /\ Changed /\ phase' = phase
      /\ UNCHANGED <<active, linked, pass, autofile, rejoin>>
      /\ naming # Nil /\ naming.name # Nil /\ naming' = Nil
      /\ library' = [library EXCEPT ![<<naming.name, naming.link>>] = naming.text]
      /\ tabs' = [i \in DOMAIN tabs |-> Mark(tabs[i])]
    BY DEF QuerySaved, Naming
<1>2. /\ tabs \in Seq(TabRecords) /\ library \in [Names \X Links -> Texts]
      /\ naming \in Dialogs /\ naming.name \in Names /\ naming.link \in Links /\ naming.text \in Texts
    BY <1>1 DEF SessionInvs, SessionTypes, Dialogs
<1>3. DOMAIN tabs = 1..Len(tabs) /\ Len(tabs) \in Nat /\ \A i \in DOMAIN tabs : tabs[i] \in TabRecords
    BY <1>2, StripFacts
<1>4. \A i \in DOMAIN tabs : Mark(tabs[i]) \in TabRecords
    BY <1>2, <1>3, MarkFacts
<1>5. tabs' \in [1..Len(tabs) -> TabRecords]
    BY <1>1, <1>3, <1>4
<1>6. tabs' \in Seq(TabRecords) /\ DOMAIN tabs' = DOMAIN tabs
    BY <1>3, <1>5, SeqOfFunction
<1>7. /\ library' \in [Names \X Links -> Texts]
      /\ library'[<<naming.name, naming.link>>] = naming.text
      /\ \A n \in Names, l \in Links : n # naming.name => library'[<<n, l>>] = library[<<n, l>>]
    BY <1>1, <1>2
<1>8. OthersTyped' /\ linked' \in Links \cup {Nil} /\ active' \in Tabs \cup {Nil}
    BY <1>1, <1>7 DEF SessionInvs, SessionTypes, OthersTyped
<1>9. TabsBacked'
    <2>1. SUFFICES ASSUME NEW i \in DOMAIN tabs, Trusted(tabs'[i], pass)
                   PROVE  Backed(tabs'[i], autofile, library')
        BY <1>1, <1>6 DEF TabsBacked
    <2> DEFINE t == tabs[i]
               u == tabs'[i]
    <2>2. /\ t \in TabRecords /\ u = Mark(t)
          /\ \/ u.name = naming.name /\ u.original = naming.text
             \/ u = t /\ t.name # naming.name
        BY <1>1, <1>2, <1>3, MarkFacts
    <2>3. CASE u.name = naming.name /\ u.original = naming.text
        BY <1>1, <1>2, <1>7, <2>3 DEF Backed
    <2>4. CASE u = t /\ t.name # naming.name
        <3>1. Backed(t, autofile, library)
            BY <1>1, <2>1, <2>4 DEF SessionInvs, TabsBacked, Usable, Running
        <3>2. t.name \in Names \cup {Nil}
            BY <2>2 DEF TabRecords
        <3>3. CASE t.original \in {0, t.base, autofile[t.id]}
            BY <2>4, <3>3 DEF Backed
        <3>4. CASE t.name # Nil /\ \E l \in Links : library[<<t.name, l>>] = t.original
            BY <1>7, <2>4, <3>2, <3>4 DEF Backed
        <3> QED BY <3>1, <3>3, <3>4 DEF Backed
    <2> QED BY <2>2, <2>3, <2>4
<1> QED BY <1>1, <1>6, <1>8, <1>9, ChangedStep

(* The auto-save marks the tabs it wrote, with the text they have.          *)
LEMMA AutoMarksKeeps == ASSUME SessionInvs, AutoMarks, UNCHANGED startup PROVE SessionInvs'
<1> DEFINE marked(t) == [t EXCEPT !.original = t.text, !.vouched = (autofile[t.id] = t.text)]
<1>1. /\ Usable /\ Changed /\ phase' = phase
      /\ UNCHANGED <<active, linked, library, naming, autofile, rejoin>>
      /\ pass # Nil /\ pass' = Nil
      /\ tabs' = [i \in DOMAIN tabs |->
                    IF tabs[i].id \in pass.written THEN marked(tabs[i]) ELSE tabs[i]]
    BY DEF AutoMarks
<1>2. tabs \in Seq(TabRecords)
    BY DEF SessionInvs, SessionTypes
<1>3. DOMAIN tabs = 1..Len(tabs) /\ Len(tabs) \in Nat /\ \A i \in DOMAIN tabs : tabs[i] \in TabRecords
    BY <1>2, StripFacts
<1>4. \A t \in TabRecords : /\ marked(t) \in TabRecords /\ marked(t).id = t.id
                            /\ marked(t).original = t.text
                            /\ marked(t).vouched <=> autofile[t.id] = t.text
    BY DEF TabRecords
<1> HIDE DEF marked
<1>5. tabs' \in [1..Len(tabs) -> TabRecords]
    BY <1>1, <1>3, <1>4
<1>6. tabs' \in Seq(TabRecords) /\ DOMAIN tabs' = DOMAIN tabs
    BY <1>3, <1>5, SeqOfFunction
<1>7. OthersTyped' /\ linked' \in Links \cup {Nil} /\ active' \in Tabs \cup {Nil}
    BY <1>1 DEF SessionInvs, SessionTypes, OthersTyped
<1>8. TabsBacked'
    <2>1. SUFFICES ASSUME NEW i \in DOMAIN tabs, tabs'[i].vouched
                   PROVE  Backed(tabs'[i], autofile, library)
        BY <1>1, <1>6 DEF TabsBacked, Trusted
    <2>2. tabs[i] \in TabRecords
        BY <1>3
    <2>3. CASE tabs[i].id \in pass.written
        <3>1. tabs'[i] = marked(tabs[i])
            BY <1>1, <2>3
        <3> QED BY <1>4, <2>1, <2>2, <3>1 DEF Backed
    <2>4. CASE tabs[i].id \notin pass.written
        <3>1. tabs'[i] = tabs[i]
            BY <1>1, <2>4
        <3>2. Trusted(tabs[i], pass)
            BY <2>1, <2>4, <3>1 DEF Trusted
        <3> QED BY <1>1, <3>1, <3>2 DEF SessionInvs, TabsBacked, Usable, Running
    <2> QED BY <2>3, <2>4
<1> QED BY <1>1, <1>6, <1>7, <1>8, ChangedStep

-----------------------------------------------------------------------------
(* The dialog of the library and the auto-save, which leave tabs and       *)
(* session alone.                                                          *)
LEMMA AsideKeeps ==
    ASSUME SessionInvs, OthersTyped', TabsBacked',
           UNCHANGED <<stripVars, fileVars, startup, phase, promised, excused>>
    PROVE  SessionInvs'
<1>1. SessionTypes'
    BY DEF SessionInvs, SessionTypes, OthersTyped, stripVars, fileVars
<1>2. InFlight' /\ SnapshotsBased'
    BY FlightKept, BasedKept DEF SessionInvs, stripVars, fileVars
<1> QED BY <1>1, <1>2 DEF SessionInvs

(* The connection of the previous session is being opened. *)
LEMMA RejoinKeeps == ASSUME SessionInvs, Rejoin, UNCHANGED startup PROVE SessionInvs'
<1>1. /\ UNCHANGED <<stripVars, fileVars, saveVars, phase, promised, excused>>
      /\ rejoin' \in Links
    BY DEF Rejoin
<1>2. OthersTyped'
    BY <1>1 DEF SessionInvs, SessionTypes, OthersTyped, saveVars
<1>3. TabsBacked'
    BY <1>1, BackedKept DEF SessionInvs, saveVars, stripVars, Running
<1> QED BY <1>1, <1>2, <1>3, AsideKeeps

(* The dialog of the library. *)
LEMMA NamingKeeps ==
    ASSUME SessionInvs, AskName \/ GiveName \/ NoName, UNCHANGED startup PROVE SessionInvs'
<1>1. UNCHANGED <<stripVars, fileVars, library, pass, autofile, phase, rejoin, promised, excused>>
    BY DEF AskName, GiveName, NoName
<1>2. naming' \in Dialogs \cup {Nil}
    <2>1. CASE AskName
        <3>1. PICK i \in DOMAIN tabs :
                LET link == IF tabs[i].link # Nil THEN tabs[i].link ELSE linked
                IN  link # Nil /\ naming' = [text |-> tabs[i].text, link |-> link, name |-> Nil]
            BY <2>1 DEF AskName
        <3>2. tabs[i].text \in Texts /\ tabs[i].link \in Links \cup {Nil} /\ linked \in Links \cup {Nil}
            BY StripFacts DEF SessionInvs, SessionTypes, TabRecords
        <3> QED BY <3>1, <3>2 DEF Dialogs
    <2>2. CASE GiveName
        BY <2>2 DEF GiveName, Naming, SessionInvs, SessionTypes, Dialogs
    <2>3. CASE NoName
        BY <2>3 DEF NoName
    <2> QED BY <2>1, <2>2, <2>3
<1>3. OthersTyped'
    BY <1>1, <1>2 DEF SessionInvs, SessionTypes, OthersTyped
<1>4. TabsBacked'
    BY <1>1, BackedKept DEF SessionInvs, stripVars, Running
<1> QED BY <1>1, <1>3, <1>4, AsideKeeps

(* The auto-save begins. *)
LEMMA AutoSaveKeeps == ASSUME SessionInvs, AutoSave, UNCHANGED startup PROVE SessionInvs'
<1> DEFINE due == {t \in Range(tabs) : t.text # 0 /\ autofile[t.id] # t.text}
<1>1. /\ UNCHANGED <<stripVars, fileVars, library, naming, autofile, phase, rejoin, promised, excused>>
      /\ pass = Nil /\ pass' = [due |-> due, written |-> {}] /\ Usable
    BY DEF AutoSave
<1>2. due \subseteq TabRecords
    <2>1. Range(tabs) \subseteq TabRecords
        BY StripFacts DEF SessionInvs, SessionTypes, Range
    <2> QED BY <2>1
<1> HIDE DEF due
<1>3. pass' \in Passes
    BY <1>1, <1>2 DEF Passes
<1>4. OthersTyped'
    BY <1>1, <1>3 DEF SessionInvs, SessionTypes, OthersTyped
<1>5. TabsBacked'
    <2>1. SUFFICES ASSUME NEW i \in DOMAIN tabs, Trusted(tabs[i], pass')
                   PROVE  Backed(tabs[i], autofile, library)
        BY <1>1 DEF TabsBacked, stripVars
    <2>2. Trusted(tabs[i], pass)
        BY <1>1, <2>1 DEF Trusted
    <2> QED BY <1>1, <2>2 DEF SessionInvs, TabsBacked, Usable, Running
<1> QED BY <1>1, <1>4, <1>5, AsideKeeps

(* It writes a tab, which it will mark, or fails to. *)
LEMMA AutoWritesKeeps == ASSUME SessionInvs, AutoWrites, UNCHANGED startup PROVE SessionInvs'
<1>1. PICK t \in pass.due :
           \/ /\ autofile' = [autofile EXCEPT ![t.id] = t.text]
              /\ pass' = [due |-> pass.due \ {t}, written |-> pass.written \cup {t.id}]
           \/ /\ pass' = [pass EXCEPT !.due = pass.due \ {t}]
              /\ UNCHANGED autofile
    BY DEF AutoWrites
<1>2. /\ UNCHANGED <<stripVars, fileVars, library, naming, phase, rejoin, promised, excused>>
      /\ Running /\ pass # Nil
    BY DEF AutoWrites
<1>3. /\ pass \in Passes /\ pass.due \subseteq TabRecords /\ pass.written \subseteq Tabs
      /\ autofile \in [Tabs -> Texts] /\ tabs \in Seq(TabRecords)
    BY <1>2 DEF SessionInvs, SessionTypes, Passes
<1>4. t.id \in Tabs /\ t.text \in Texts
    BY <1>3 DEF TabRecords
<1>5. /\ autofile' \in [Tabs -> Texts] /\ pass' \in Passes
      /\ \A id \in Tabs : id \notin pass'.written =>
             id \notin pass.written /\ autofile'[id] = autofile[id]
    <2>1. CASE /\ autofile' = [autofile EXCEPT ![t.id] = t.text]
               /\ pass' = [due |-> pass.due \ {t}, written |-> pass.written \cup {t.id}]
        BY <1>3, <1>4, <2>1 DEF Passes
    <2>2. CASE /\ pass' = [pass EXCEPT !.due = pass.due \ {t}]
               /\ UNCHANGED autofile
        BY <1>3, <1>4, <2>2 DEF Passes
    <2> QED BY <1>1, <2>1, <2>2
<1>6. OthersTyped'
    BY <1>2, <1>5 DEF SessionInvs, SessionTypes, OthersTyped
<1>7. TabsBacked'
    <2>1. SUFFICES ASSUME NEW i \in DOMAIN tabs, Trusted(tabs[i], pass')
                   PROVE  Backed(tabs[i], autofile', library)
        BY <1>2 DEF TabsBacked, stripVars
    <2>2. pass' # Nil
        BY <1>5, SessionAssumption
    <2>3. tabs[i].id \in Tabs
        BY <1>3, StripFacts DEF TabRecords
    <2>4. tabs[i].id \notin pass'.written
        BY <2>1, <2>2 DEF Trusted
    <2>5. tabs[i].id \notin pass.written /\ autofile'[tabs[i].id] = autofile[tabs[i].id]
        BY <1>5, <2>3, <2>4
    <2>6. Backed(tabs[i], autofile, library)
        BY <1>2, <2>1, <2>5 DEF SessionInvs, TabsBacked, Trusted
    <2> QED BY <2>5, <2>6 DEF Backed
<1> QED BY <1>2, <1>6, <1>7, AsideKeeps

-----------------------------------------------------------------------------
(* The steps that save and restore the session. *)

(* The connections are loaded. *)
LEMMA LoadDoneKeeps == ASSUME SessionInvs, LoadDone PROVE SessionInvs'
<1>1. /\ startup = "loading" /\ startup' = "asked"
      /\ UNCHANGED <<stripVars, fileVars, saveVars, phase, rejoin, promised, excused>>
    BY DEF LoadDone
<1>2. SessionTypes'
    BY <1>1 DEF SessionInvs, SessionTypes, stripVars, fileVars, saveVars
<1>3. InFlight'
    BY <1>1 DEF SessionInvs, InFlight, LastIsNewest, Unrestored, AllOver, Promise, Restores,
                stripVars, fileVars
<1>4. SnapshotsBased' /\ TabsBacked'
    BY <1>1, BasedKept, BackedKept DEF SessionInvs, stripVars, fileVars, saveVars, Running
<1> QED BY <1>2, <1>3, <1>4 DEF SessionInvs

(* The session is restored, or there is none. *)
LEMMA RestoredKeeps == ASSUME SessionInvs, Restored PROVE SessionInvs'
<1> DEFINE snap == Snapshot(tabs', active', linked)
<1>1. /\ startup = "asked" /\ startup' = "done" /\ Running
      /\ UNCHANGED <<writing, session, saveVars, phase, rejoin>>
      /\ promised' = IF excused \/ tabs # <<>> THEN TextsOf(tabs') ELSE promised
      /\ excused' = (phase # "open" \/ (session.tabs = <<>> /\ tabs # <<>>))
    BY DEF Restored
<1>2. CASE session.tabs = <<>>
    <2>1. UNCHANGED <<stripVars, timer>>
        BY <1>2 DEF Restored
    <2>2. SessionTypes'
        BY <1>1, <2>1 DEF SessionInvs, SessionTypes, stripVars, saveVars
    <2>3. LastIsNewest' /\ Unrestored' /\ AllOver'
        BY <1>1, <2>1 DEF SessionInvs, InFlight, LastIsNewest, Unrestored, AllOver, Running
    <2>4. Promise'
        <3> SUFFICES ASSUME ~excused' PROVE Restores'
            BY DEF Promise
        <3>1. phase = "open" /\ tabs = <<>>
            BY <1>1, <1>2
        <3>2. timer = Nil /\ writing = <<>>
            BY <1>1, <3>1 DEF SessionInvs, InFlight, Unrestored
        <3>3. TextsOf(session.tabs) = promised' /\ TextsOf(tabs') = promised'
            BY <1>1, <1>2, <2>1, <3>1 DEF SessionInvs, InFlight, Promise, Restores, stripVars
        <3>4. WillHave'
            BY <1>1, <3>2, <3>3 DEF WillHave
        <3> QED BY <1>1, <2>1, <3>2, <3>3, <3>4 DEF Restores
    <2>5. SnapshotsBased'
        BY <1>1, <2>1, BasedKept DEF SessionInvs
    <2>6. TabsBacked'
        BY <1>1, <2>1, BackedKept DEF SessionInvs, stripVars, saveVars, Running
    <2> QED BY <2>2, <2>3, <2>4, <2>5, <2>6 DEF SessionInvs, InFlight
<1>3. CASE session.tabs # <<>>
    <2>1. /\ tabs' = session.tabs /\ linked' = linked /\ timer' = snap
          /\ active' = IF session.active \in Ids(session.tabs) THEN session.active ELSE active
        BY <1>3 DEF Restored
    <2>2. tabs' \in Seq(TabRecords) /\ active' \in Tabs \cup {Nil} /\ linked \in Links \cup {Nil}
        BY <2>1 DEF SessionInvs, SessionTypes, Snapshots
    <2>3. snap \in Snapshots /\ snap # Nil /\ Based(snap.tabs) /\ TextsOf(snap.tabs) = TextsOf(tabs')
        BY <2>2, SnapshotFacts
    <2> HIDE DEF snap
    <2>4. SessionTypes'
        BY <1>1, <2>1, <2>2, <2>3 DEF SessionInvs, SessionTypes, saveVars
    <2>5. LastIsNewest' /\ Unrestored' /\ AllOver'
        BY <1>1 DEF SessionInvs, InFlight, LastIsNewest, Unrestored, AllOver, Running
    <2>6. Promise'
        <3> SUFFICES ASSUME ~excused' PROVE Restores'
            BY DEF Promise
        <3>1. phase = "open"
            BY <1>1
        <3>2. TextsOf(tabs') = promised'
            BY <1>1, <2>1 DEF SessionInvs, InFlight, Promise, Restores
        <3> QED BY <1>1, <2>1, <2>3, <3>1, <3>2 DEF Restores
    <2>7. SnapshotsBased'
        BY <1>1, <2>1, <2>3 DEF SessionInvs, SnapshotsBased
    <2>8. TabsBacked'
        BY <2>1 DEF SessionInvs, SnapshotsBased, Based, TabsBacked, Backed
    <2> QED BY <2>4, <2>5, <2>6, <2>7, <2>8 DEF SessionInvs, InFlight
<1> QED BY <1>2, <1>3

(* It cannot be read. *)
LEMMA RestoreFailsKeeps == ASSUME SessionInvs, RestoreFails PROVE SessionInvs'
<1>1. /\ startup' = "done" /\ excused' = TRUE /\ Running
      /\ UNCHANGED <<stripVars, fileVars, saveVars, phase, rejoin>>
    BY DEF RestoreFails
<1>2. SessionTypes'
    BY <1>1 DEF SessionInvs, SessionTypes, stripVars, fileVars, saveVars
<1>3. InFlight'
    BY <1>1 DEF SessionInvs, InFlight, LastIsNewest, Unrestored, AllOver, Promise,
                stripVars, fileVars, Running
<1>4. SnapshotsBased' /\ TabsBacked'
    BY <1>1, BasedKept, BackedKept DEF SessionInvs, stripVars, fileVars, saveVars, Running
<1> QED BY <1>2, <1>3, <1>4 DEF SessionInvs

(* A save is sent: the older ones are no longer the last. *)
LEMMA SentKeeps ==
    ASSUME SessionInvs, NEW s \in Snapshots, Based(s.tabs), writing' = Send(s),
           startup # "done" => phase' \in {"closing", "leaving"} /\ writing = <<>>,
           phase' # "closed",
           ~excused' => startup = "done" /\ TextsOf(s.tabs) = promised /\ ~excused,
           phase # "closed", excused' \in BOOLEAN,
           phase' \in {"open", "closing", "prompt", "leaving"},
           timer' \in {timer, Nil}, UNCHANGED <<stripVars, session, startup, promised>>
    PROVE  /\ writing' \in Seq(Writes) /\ timer' \in Snapshots \cup {Nil}
           /\ InFlight' /\ SnapshotsBased'
<1>1. writing \in Seq(Writes) /\ timer \in Snapshots \cup {Nil}
    BY DEF SessionInvs, SessionTypes
<1>2. /\ writing' \in Seq(Writes) /\ Len(writing') = Len(writing) + 1
      /\ DOMAIN writing' = 1..Len(writing) + 1
      /\ writing'[Len(writing) + 1] = [snapshot |-> s, last |-> TRUE]
      /\ \A i \in 1..Len(writing) : ~writing'[i].last /\ writing'[i].snapshot = writing[i].snapshot
    BY <1>1, SendFacts
<1>3. DOMAIN writing = 1..Len(writing) /\ Len(writing) \in Nat
    BY <1>1, LenProperties
<1>4. /\ writing'[Len(writing) + 1].last /\ writing'[Len(writing) + 1].snapshot = s
      /\ \A i \in DOMAIN writing' : i = Len(writing) + 1 \/ i \in 1..Len(writing)
    BY <1>2, <1>3
<1>5. LastIsNewest'
    BY <1>2, <1>4 DEF LastIsNewest
<1>6. Unrestored'
    <2>1. SUFFICES ASSUME startup # "done"
                   PROVE  timer' = Nil /\ Len(writing') <= 1 /\ \A i \in DOMAIN writing' : writing'[i].last
        BY DEF Unrestored
    <2>2. Len(writing) = 0 /\ timer = Nil
        BY <2>1 DEF SessionInvs, InFlight, Unrestored
    <2> QED BY <1>2, <1>4, <2>2
<1>7. Promise'
    <2> SUFFICES ASSUME ~excused' PROVE Restores'
        BY DEF Promise
    <2>1. startup = "done" /\ TextsOf(s.tabs) = promised /\ ~excused
        OBVIOUS
    <2>2. /\ TextsOf(tabs) = promised
          /\ timer # Nil => TextsOf(timer.tabs) = promised
        BY <2>1 DEF SessionInvs, InFlight, Promise, Restores
    <2>3. WillHave'
        <3>1. \A i \in DOMAIN writing' : writing'[i].last => TextsOf(writing'[i].snapshot.tabs) = promised
            BY <1>2, <1>4, <2>1
        <3>2. ~OwnSaveOver'
            BY <1>2, <1>3, <1>4 DEF OwnSaveOver
        <3> QED BY <3>1, <3>2 DEF WillHave
    <2> QED BY <2>1, <2>2, <2>3 DEF Restores, stripVars
<1>8. SnapshotsBased'
    <2>1. \A i \in DOMAIN writing' : Based(writing'[i].snapshot.tabs)
        BY <1>3, <1>2, <1>4 DEF SessionInvs, SnapshotsBased
    <2> QED BY <2>1 DEF SessionInvs, SnapshotsBased
<1> QED BY <1>1, <1>2, <1>5, <1>6, <1>7, <1>8 DEF InFlight, AllOver

(* The timer fires. *)
LEMMA TimerFiresKeeps == ASSUME SessionInvs, TimerFires, UNCHANGED startup PROVE SessionInvs'
<1>1. /\ Running /\ timer # Nil /\ writing' = Send(timer) /\ timer' = Nil
      /\ UNCHANGED <<stripVars, saveVars, session, phase, rejoin, promised, excused>>
    BY DEF TimerFires
<1>2. timer \in Snapshots /\ Based(timer.tabs) /\ startup = "done"
    BY <1>1 DEF SessionInvs, SessionTypes, SnapshotsBased, InFlight, Unrestored
<1>3. ~excused => TextsOf(timer.tabs) = promised
    BY <1>1, <1>2 DEF SessionInvs, InFlight, Promise, Restores
<1>4. phase \in {"open", "closing", "prompt"} /\ excused \in BOOLEAN
    BY <1>1 DEF Running, SessionInvs, SessionTypes
<1>5. writing' \in Seq(Writes) /\ timer' \in Snapshots \cup {Nil} /\ InFlight' /\ SnapshotsBased'
    BY <1>1, <1>2, <1>3, <1>4, SentKeeps
<1>6. SessionTypes'
    BY <1>1, <1>5 DEF SessionInvs, SessionTypes, stripVars, saveVars
<1>7. TabsBacked'
    BY <1>1, BackedKept DEF SessionInvs, stripVars, saveVars, Running
<1> QED BY <1>5, <1>6, <1>7 DEF SessionInvs

(* A save that is over leaves the others. *)
LEMMA OverFacts ==
    ASSUME SessionInvs, NEW i \in DOMAIN writing, writing' = Without(i),
           UNCHANGED <<timer, startup, phase>>
    PROVE  /\ writing' \in Seq(Writes) /\ writing[i].snapshot \in Snapshots
           /\ LastIsNewest' /\ Unrestored' /\ AllOver'
           /\ \A j \in DOMAIN writing' : \E k \in DOMAIN writing : k # i /\ writing'[j] = writing[k]
<1>1. writing \in Seq(Writes)
    BY DEF SessionInvs, SessionTypes
<1>2. /\ writing' \in Seq(Writes) /\ Len(writing') = Len(writing) - 1
      /\ DOMAIN writing' = 1..Len(writing) - 1
      /\ \A j \in DOMAIN writing' :
             \/ j < i /\ writing'[j] = writing[j]
             \/ j >= i /\ j + 1 \in DOMAIN writing /\ writing'[j] = writing[j + 1]
    BY <1>1, WithoutFacts
<1>3. /\ DOMAIN writing = 1..Len(writing) /\ Len(writing) \in Nat /\ i \in 1..Len(writing)
      /\ \A j \in DOMAIN writing : writing[j] \in Writes
    BY <1>1, LenProperties
<1>4. \A j \in DOMAIN writing' : \E k \in DOMAIN writing : k # i /\ writing'[j] = writing[k]
    BY <1>2, <1>3
<1>5. LastIsNewest'
    <2>1. SUFFICES ASSUME NEW j \in DOMAIN writing', writing'[j].last PROVE j = Len(writing')
        BY DEF LastIsNewest
    <2>2. CASE j < i /\ writing'[j] = writing[j]
        <3>1. j \in DOMAIN writing /\ writing[j].last
            BY <1>2, <1>3, <2>1, <2>2
        <3>2. j = Len(writing)
            BY <3>1 DEF SessionInvs, InFlight, LastIsNewest
        <3> QED BY <1>3, <2>2, <3>2
    <2>3. CASE j >= i /\ j + 1 \in DOMAIN writing /\ writing'[j] = writing[j + 1]
        <3>1. j + 1 = Len(writing)
            BY <2>1, <2>3 DEF SessionInvs, InFlight, LastIsNewest
        <3> QED BY <1>2, <1>3, <3>1
    <2> QED BY <1>2, <2>2, <2>3
<1>6. Unrestored'
    <2>1. SUFFICES ASSUME startup # "done"
                   PROVE  timer = Nil /\ writing' = <<>> /\ Len(writing') <= 1 /\ DOMAIN writing' = {}
        BY DEF Unrestored
    <2>2. timer = Nil /\ Len(writing) <= 1
        BY <2>1 DEF SessionInvs, InFlight, Unrestored
    <2>3. Len(writing') = 0 /\ DOMAIN writing' = {}
        BY <1>2, <1>3, <2>2
    <2> QED BY <1>2, <2>2, <2>3, EmptySeq
<1>7. AllOver'
    BY <1>3 DEF SessionInvs, InFlight, AllOver
<1>8. writing[i].snapshot \in Snapshots
    BY <1>3 DEF Writes
<1> QED BY <1>2, <1>4, <1>5, <1>6, <1>7, <1>8

(* A save is written. If it is not the last one, nothing is promised any    *)
(* more.                                                                    *)
LEMMA LandsKeeps ==
    ASSUME SessionInvs, NEW i, Lands(i), UNCHANGED startup PROVE SessionInvs'
<1>1. /\ i \in DOMAIN writing /\ session' = writing[i].snapshot /\ writing' = Without(i)
      /\ excused' = (excused \/ ~writing[i].last)
      /\ UNCHANGED <<stripVars, saveVars, timer, phase, rejoin, promised>>
    BY DEF Lands
<1>2. /\ writing' \in Seq(Writes) /\ writing[i].snapshot \in Snapshots
      /\ LastIsNewest' /\ Unrestored' /\ AllOver'
      /\ \A j \in DOMAIN writing' : \E k \in DOMAIN writing : k # i /\ writing'[j] = writing[k]
    BY <1>1, OverFacts
<1>3. SessionTypes'
    BY <1>1, <1>2 DEF SessionInvs, SessionTypes, stripVars, saveVars
<1>4. Promise'
    <2> SUFFICES ASSUME ~excused' PROVE Restores'
        BY DEF Promise
    <2>1. ~excused /\ writing[i].last /\ writing # <<>>
        BY <1>1 DEF Lands
    <2>2. startup = "done" /\ phase # "closed"
        BY <2>1 DEF SessionInvs, InFlight, Promise, Restores, Unrestored, AllOver
    <2>3. \A k \in DOMAIN writing : writing[k].last => k = i
        BY <1>1, <2>1 DEF SessionInvs, InFlight, LastIsNewest
    <2>4. \A j \in DOMAIN writing' : ~writing'[j].last
        BY <1>2, <2>3
    <2>5. phase # "open" \/ timer = Nil => TextsOf(session'.tabs) = promised
        BY <1>1, <2>1, <2>2 DEF SessionInvs, InFlight, Promise, Restores, WillHave
    <2>6. phase # "open" \/ timer = Nil => WillHave'
        BY <1>1, <2>4, <2>5 DEF WillHave
    <2> QED BY <1>1, <2>1, <2>2, <2>6 DEF SessionInvs, InFlight, Promise, Restores, stripVars
<1>5. SnapshotsBased'
    <2>1. Based(session'.tabs) /\ \A j \in DOMAIN writing' : Based(writing'[j].snapshot.tabs)
        BY <1>1, <1>2 DEF SessionInvs, SnapshotsBased
    <2> QED BY <1>1, <2>1 DEF SessionInvs, SnapshotsBased
<1>6. TabsBacked'
    BY <1>1, BackedKept DEF SessionInvs, stripVars, saveVars, Running
<1> QED BY <1>2, <1>3, <1>4, <1>5, <1>6 DEF SessionInvs, InFlight

(* A save fails. *)
LEMMA SaveFailsKeeps ==
    ASSUME SessionInvs, NEW i, SaveFails(i), UNCHANGED startup PROVE SessionInvs'
<1>1. /\ i \in DOMAIN writing /\ writing' = Without(i) /\ excused' = TRUE
      /\ UNCHANGED <<stripVars, saveVars, timer, session, phase, rejoin, promised>>
    BY DEF SaveFails
<1>2. /\ writing' \in Seq(Writes) /\ LastIsNewest' /\ Unrestored' /\ AllOver'
      /\ \A j \in DOMAIN writing' : \E k \in DOMAIN writing : k # i /\ writing'[j] = writing[k]
    BY <1>1, OverFacts
<1>3. SessionTypes'
    BY <1>1, <1>2 DEF SessionInvs, SessionTypes, stripVars, saveVars
<1>4. Promise'
    BY <1>1 DEF Promise
<1>5. SnapshotsBased'
    <2>1. \A j \in DOMAIN writing' : Based(writing'[j].snapshot.tabs)
        BY <1>2 DEF SessionInvs, SnapshotsBased
    <2> QED BY <1>1, <2>1 DEF SessionInvs, SnapshotsBased
<1>6. TabsBacked'
    BY <1>1, BackedKept DEF SessionInvs, stripVars, saveVars, Running
<1> QED BY <1>2, <1>3, <1>4, <1>5, <1>6 DEF SessionInvs, InFlight

-----------------------------------------------------------------------------
(* The end of the window. *)

(* The window is asked to close, and saves itself. *)
LEMMA AskCloseKeeps == ASSUME SessionInvs, AskClose, UNCHANGED startup PROVE SessionInvs'
<1> DEFINE s == Snapshot(tabs, active, linked)
<1>1. /\ phase = "open" /\ phase' = "closing" /\ writing' = Send(s)
      /\ excused' = (excused \/ startup # "done")
      /\ UNCHANGED <<stripVars, saveVars, timer, session, rejoin, promised>>
    BY DEF AskClose
<1>2. s \in Snapshots /\ Based(s.tabs) /\ TextsOf(s.tabs) = TextsOf(tabs)
    BY SnapshotFacts DEF SessionInvs, SessionTypes
<1> HIDE DEF s
<1>3. ~excused' => startup = "done" /\ TextsOf(s.tabs) = promised /\ ~excused
    BY <1>1, <1>2 DEF SessionInvs, InFlight, Promise, Restores
<1>4. startup # "done" => writing = <<>>
    BY <1>1 DEF SessionInvs, InFlight, Unrestored
<1>5. excused' \in BOOLEAN
    BY <1>1 DEF SessionInvs, SessionTypes
<1>6. writing' \in Seq(Writes) /\ timer' \in Snapshots \cup {Nil} /\ InFlight' /\ SnapshotsBased'
    BY <1>1, <1>2, <1>3, <1>4, <1>5, SentKeeps
<1>7. SessionTypes'
    BY <1>1, <1>5, <1>6 DEF SessionInvs, SessionTypes, stripVars, saveVars
<1>8. TabsBacked'
    BY <1>1, BackedKept DEF SessionInvs, stripVars, saveVars, Running
<1> QED BY <1>6, <1>7, <1>8 DEF SessionInvs

(* Discard saves the texts as clean. *)
LEMMA DiscardKeeps == ASSUME SessionInvs, Discard, UNCHANGED startup PROVE SessionInvs'
<1> DEFINE clean(t) == [t EXCEPT !.original = t.text]
           strip == [i \in DOMAIN tabs |-> clean(tabs[i])]
           s == Snapshot(strip, active, linked)
<1>1. /\ phase = "prompt" /\ phase' = "leaving" /\ writing' = Send(s)
      /\ UNCHANGED <<stripVars, saveVars, timer, session, rejoin, promised, excused>>
    BY DEF Discard
<1>2. /\ DOMAIN tabs = 1..Len(tabs) /\ Len(tabs) \in Nat
      /\ \A i \in DOMAIN tabs : tabs[i] \in TabRecords
    BY StripFacts DEF SessionInvs, SessionTypes
<1>3. \A t \in TabRecords : clean(t) \in TabRecords /\ clean(t).id = t.id /\ clean(t).text = t.text
    BY DEF TabRecords
<1> HIDE DEF clean
<1>4. strip \in [1..Len(tabs) -> TabRecords]
    BY <1>2, <1>3
<1>5. strip \in Seq(TabRecords) /\ DOMAIN strip = DOMAIN tabs
    BY <1>2, <1>4, SeqOfFunction
<1>6. TextsOf(strip) = TextsOf(tabs)
    BY <1>2, <1>3 DEF TextsOf
<1> HIDE DEF strip
<1>7. s \in Snapshots /\ Based(s.tabs) /\ TextsOf(s.tabs) = TextsOf(tabs)
    BY <1>5, <1>6, SnapshotFacts DEF SessionInvs, SessionTypes
<1> HIDE DEF s
<1>8. ~excused' => startup = "done" /\ TextsOf(s.tabs) = promised /\ ~excused
    BY <1>1, <1>7 DEF SessionInvs, InFlight, Promise, Restores
<1>9. startup # "done" => writing = <<>>
    BY <1>1 DEF SessionInvs, InFlight, Unrestored
<1>10. excused' \in BOOLEAN
    BY <1>1 DEF SessionInvs, SessionTypes
<1>11. writing' \in Seq(Writes) /\ timer' \in Snapshots \cup {Nil} /\ InFlight' /\ SnapshotsBased'
    BY <1>1, <1>7, <1>8, <1>9, <1>10, SentKeeps
<1>12. SessionTypes'
    BY <1>1, <1>11 DEF SessionInvs, SessionTypes, stripVars, saveVars
<1>13. TabsBacked'
    BY <1>1 DEF TabsBacked, Running
<1> QED BY <1>11, <1>12, <1>13 DEF SessionInvs

(* The prompt opens or is cancelled: the save of the closing window is over.*)
LEMMA PromptsKeeps == ASSUME SessionInvs, Prompts \/ Stays, UNCHANGED startup PROVE SessionInvs'
<1>1. /\ UNCHANGED <<stripVars, fileVars, saveVars, rejoin, promised, excused>>
      /\ \/ phase = "closing" /\ OwnSaveOver /\ phase' = "prompt"
         \/ phase = "prompt" /\ phase' = "open"
    BY DEF Prompts, Stays
<1>2. SessionTypes'
    BY <1>1 DEF SessionInvs, SessionTypes, stripVars, fileVars, saveVars
<1>3. LastIsNewest' /\ AllOver'
    BY <1>1 DEF SessionInvs, InFlight, LastIsNewest, AllOver, fileVars
<1>4. Unrestored'
    <2>1. SUFFICES ASSUME startup # "done" PROVE timer = Nil /\ writing = <<>>
        BY <1>1 DEF Unrestored, fileVars, SessionInvs, InFlight
    <2>2. timer = Nil
        BY <2>1 DEF SessionInvs, InFlight, Unrestored
    <2>3. CASE phase = "prompt"
        BY <2>1, <2>3 DEF SessionInvs, InFlight, Unrestored
    <2>4. CASE phase = "closing" /\ OwnSaveOver
        <3>1. DOMAIN writing = {} /\ writing \in Seq(Writes)
            BY <2>1, <2>4 DEF SessionInvs, SessionTypes, InFlight, Unrestored, OwnSaveOver
        <3>2. Len(writing) = 0
            BY <3>1, LenProperties
        <3> QED BY <2>2, <3>1, <3>2, EmptySeq
    <2> QED BY <1>1, <2>2, <2>3, <2>4
<1>5. Promise'
    BY <1>1 DEF SessionInvs, InFlight, Promise, Restores, WillHave, OwnSaveOver, stripVars, fileVars
<1>6. SnapshotsBased' /\ TabsBacked'
    BY <1>1, BasedKept, BackedKept DEF SessionInvs, stripVars, fileVars, saveVars, Running
<1> QED BY <1>2, <1>3, <1>4, <1>5, <1>6 DEF SessionInvs, InFlight

(* The window is gone, and the file has what was promised. *)
LEMMA EndedKeeps ==
    ASSUME SessionInvs, Ended, phase # "closed", UNCHANGED startup, excused' \in BOOLEAN,
           ~excused' => /\ ~excused /\ OwnSaveOver
                        /\ phase # "open" \/ (timer = Nil /\ writing = <<>>)
    PROVE  SessionInvs'
<1>1. /\ phase' = "closed" /\ timer' = Nil /\ writing' = <<>>
      /\ rejoin' = Nil /\ naming' = Nil /\ pass' = Nil
      /\ UNCHANGED <<stripVars, session, library, autofile, promised>>
    BY DEF Ended
<1>2. SessionTypes'
    BY <1>1 DEF SessionInvs, SessionTypes, stripVars
<1>3. LastIsNewest' /\ AllOver' /\ Unrestored'
    BY <1>1 DEF LastIsNewest, AllOver, Unrestored
<1>4. Promise'
    <2> SUFFICES ASSUME ~excused' PROVE Restores'
        BY DEF Promise
    <2>1. ~excused /\ OwnSaveOver /\ (phase # "open" \/ timer = Nil)
        OBVIOUS
    <2>2. TextsOf(session.tabs) = promised
        BY <2>1 DEF SessionInvs, InFlight, Promise, Restores, WillHave
    <2>3. WillHave'
        BY <1>1, <2>2 DEF WillHave
    <2> QED BY <1>1, <2>2, <2>3 DEF Restores
<1>5. SnapshotsBased' /\ TabsBacked'
    BY <1>1 DEF SessionInvs, SnapshotsBased, TabsBacked, Running
<1> QED BY <1>2, <1>3, <1>4, <1>5 DEF SessionInvs, InFlight

(* Because it saved itself before, or crashed with nothing to save.         *)
LEMMA EndKeeps ==
    ASSUME SessionInvs, Closes \/ Leaves \/ CrashWindow, UNCHANGED startup PROVE SessionInvs'
<1>1. excused \in BOOLEAN
    BY DEF SessionInvs, SessionTypes
<1>2. CASE Closes \/ Leaves
    <2>1. phase \in {"closing", "leaving"} /\ OwnSaveOver /\ Ended /\ UNCHANGED excused
        BY <1>2 DEF Closes, Leaves
    <2> QED BY <1>1, <2>1, EndedKeeps
<1>3. CASE CrashWindow
    <2>1. /\ Ended /\ phase # "closed"
          /\ excused' = (excused \/ phase # "open" \/ timer # Nil \/ writing # <<>>)
        BY <1>3 DEF CrashWindow, Running
    <2>2. ~excused' => ~excused /\ timer = Nil /\ writing = <<>>
        BY <2>1
    <2>3. writing = <<>> => OwnSaveOver
        BY DEF OwnSaveOver
    <2>4. excused' \in BOOLEAN
        BY <1>1, <2>1
    <2> QED BY <2>1, <2>2, <2>3, <2>4, EndedKeeps
<1> QED BY <1>2, <1>3

(* A window is opened. *)
LEMMA LaunchKeeps == ASSUME SessionInvs, Launch PROVE SessionInvs'
<1>1. /\ phase = "closed" /\ phase' = "open" /\ startup' = "loading"
      /\ tabs' = <<>> /\ active' = Nil /\ linked' = Nil
      /\ UNCHANGED <<fileVars, saveVars, rejoin, promised, excused>>
    BY DEF Launch
<1>2. timer = Nil /\ writing = <<>>
    BY <1>1 DEF SessionInvs, InFlight, AllOver
<1>3. SessionTypes'
    BY <1>1 DEF SessionInvs, SessionTypes, fileVars, saveVars
<1>4. LastIsNewest' /\ AllOver' /\ Unrestored'
    BY <1>1, <1>2 DEF LastIsNewest, AllOver, Unrestored, fileVars
<1>5. Promise'
    <2> SUFFICES ASSUME ~excused PROVE TextsOf(session.tabs) = promised
        BY <1>1 DEF Promise, Restores, fileVars
    <2>1. OwnSaveOver
        BY <1>2 DEF OwnSaveOver
    <2> QED BY <1>2, <2>1 DEF SessionInvs, InFlight, Promise, Restores, WillHave
<1>6. SnapshotsBased' /\ TabsBacked'
    BY <1>1, BasedKept DEF SessionInvs, fileVars, TabsBacked
<1> QED BY <1>3, <1>4, <1>5, <1>6 DEF SessionInvs, InFlight

-----------------------------------------------------------------------------
(* At the start there is no session. *)
LEMMA SessionStart == SessionInit => SessionInvs
<1> SUFFICES ASSUME SessionInit PROVE SessionInvs
    OBVIOUS
<1>1. /\ tabs = <<>> /\ active = Nil /\ linked = Nil
      /\ startup = "loading" /\ phase = "open" /\ timer = Nil /\ writing = <<>>
      /\ session = Snapshot(<<>>, Nil, Nil)
      /\ rejoin = Nil
      /\ library = [k \in Names \X Links |-> 0] /\ naming = Nil
      /\ pass = Nil /\ autofile = [t \in Tabs |-> 0]
      /\ promised = {} /\ excused = FALSE
    BY DEF SessionInit
<1>2. 0 \in Texts /\ <<>> \in Seq(TabRecords) /\ TextsOf(<<>>) = {}
    BY SessionAssumption DEF Texts, TextsOf
<1>3. session \in Snapshots /\ Based(session.tabs) /\ TextsOf(session.tabs) = TextsOf(<<>>)
    BY <1>1, <1>2, SnapshotFacts
<1>4. SessionTypes
    <2>1. library \in [Names \X Links -> Texts] /\ autofile \in [Tabs -> Texts]
        BY <1>1, <1>2
    <2>2. tabs \in Seq(TabRecords) /\ writing \in Seq(Writes)
        BY <1>1
    <2> QED BY <1>1, <1>3, <2>1, <2>2 DEF SessionTypes
<1>5. LastIsNewest /\ Unrestored /\ AllOver
    BY <1>1 DEF LastIsNewest, Unrestored, AllOver
<1>6. Promise
    BY <1>1, <1>2, <1>3 DEF Promise, Restores
<1>7. SnapshotsBased /\ TabsBacked
    BY <1>1, <1>3 DEF SnapshotsBased, TabsBacked
<1> QED BY <1>4, <1>5, <1>6, <1>7 DEF SessionInvs, InFlight

(* Every step keeps the invariant. *)
LEMMA SessionStep == SessionInvs /\ [SessionNext]_sessionVars => SessionInvs'
<1> SUFFICES ASSUME SessionInvs, [SessionNext]_sessionVars PROVE SessionInvs'
    OBVIOUS
<1>1. CASE LoadDone \/ Restored \/ RestoreFails \/ Launch
    BY <1>1, LoadDoneKeeps, RestoredKeeps, RestoreFailsKeeps, LaunchKeeps
<1>2. CASE /\ \/ Rejoin \/ Rejoined
              \/ NewTab \/ OpenSaved \/ Duplicate \/ Type \/ SwitchTab
              \/ CloseTab \/ CloseOthers \/ CloseAll \/ Retarget
           /\ UNCHANGED startup
    BY <1>2, RejoinKeeps, RejoinedKeeps, NewTabKeeps, OpenSavedKeeps, DuplicateKeeps, TypeKeeps,
       SwitchKeeps, CloseTabKeeps, CloseOthersKeeps, CloseAllKeeps, RetargetKeeps
<1>3. CASE /\ \/ AskName \/ GiveName \/ NoName \/ QuerySaved
              \/ AutoSave \/ AutoWrites \/ AutoMarks
           /\ UNCHANGED startup
    BY <1>3, NamingKeeps, QuerySavedKeeps, AutoSaveKeeps, AutoWritesKeeps, AutoMarksKeeps
<1>4. CASE /\ \/ TimerFires \/ (\E i \in 1 .. 3 : Lands(i) \/ SaveFails(i))
              \/ AskClose \/ Closes \/ Prompts \/ Stays \/ Discard \/ Leaves \/ CrashWindow
           /\ UNCHANGED startup
    BY <1>4, TimerFiresKeeps, LandsKeeps, SaveFailsKeeps, AskCloseKeeps, PromptsKeeps,
       DiscardKeeps, EndKeeps
<1>5. CASE UNCHANGED sessionVars
    <2>1. SessionTypes'
        BY <1>5 DEF SessionInvs, SessionTypes, sessionVars, stripVars, fileVars, saveVars
    <2>2. InFlight' /\ SnapshotsBased' /\ TabsBacked'
        BY <1>5, FlightKept, BasedKept, BackedKept
           DEF SessionInvs, sessionVars, stripVars, fileVars, saveVars, Running
    <2> QED BY <2>1, <2>2 DEF SessionInvs
<1> QED BY <1>1, <1>2, <1>3, <1>4, <1>5 DEF SessionNext

(* Neither is text lost across restarts nor is a tab taken for saved that  *)
(* is not (MainContent.tsx, editorDirty.ts, sessions.json): the tabs come  *)
(* back because every save under way, or the timer, or the file has the    *)
(* promised texts, in the order in which they will be read.                *)
THEOREM TextComesBack == SessionSpec => []TextIsKept
<1>1. SessionInvs => TextIsKept
    <2> SUFFICES ASSUME SessionInvs PROVE TextIsKept
        OBVIOUS
    <2>1. TabsComeBack
        <3> SUFFICES ASSUME ~excused
                     PROVE  /\ phase = "open" /\ startup = "done" => TextsOf(tabs) = promised
                            /\ phase = "closed" => TextsOf(session.tabs) = promised
            BY DEF TabsComeBack
        <3>1. phase = "closed" => timer = Nil /\ OwnSaveOver
            BY DEF SessionInvs, InFlight, AllOver, OwnSaveOver
        <3> QED BY <3>1 DEF SessionInvs, InFlight, Promise, Restores, WillHave
    <2>2. CleanIsStored
        <3>1. SUFFICES ASSUME Running, NEW i \in DOMAIN tabs,
                              ~Dirty(tabs[i]), tabs[i].text # 0, tabs[i].vouched,
                              pass # Nil => tabs[i].id \notin pass.written
                       PROVE  \/ tabs[i].text \in {tabs[i].base, autofile[tabs[i].id]}
                              \/ \E k \in Names \X Links : library[k] = tabs[i].text
            BY DEF CleanIsStored
        <3>2. Backed(tabs[i], autofile, library) /\ tabs[i].text = tabs[i].original
            BY <3>1 DEF SessionInvs, TabsBacked, Trusted, Dirty
        <3>3. tabs[i].name \in Names \cup {Nil}
            BY StripFacts DEF SessionInvs, SessionTypes, TabRecords
        <3>4. CASE tabs[i].original \in {0, tabs[i].base, autofile[tabs[i].id]}
            BY <3>1, <3>2, <3>4
        <3>5. CASE tabs[i].name # Nil /\ \E l \in Links : library[<<tabs[i].name, l>>] = tabs[i].original
            <4>1. PICK l \in Links : library[<<tabs[i].name, l>>] = tabs[i].original
                BY <3>5
            <4>2. <<tabs[i].name, l>> \in Names \X Links
                BY <3>3, <3>5
            <4> QED BY <3>2, <4>1, <4>2
        <3> QED BY <3>2, <3>4, <3>5 DEF Backed
    <2> QED BY <2>1, <2>2 DEF TextIsKept
<1> QED BY <1>1, SessionStart, SessionStep, PTL DEF SessionSpec
=============================================================================
