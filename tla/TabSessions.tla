---------------------------- MODULE TabSessions -----------------------------
(***************************************************************************)
(* The tabs of the editor over the life of the window: what is typed, how  *)
(* `sessions.json` keeps it across a restart, and what makes a tab count   *)
(* as saved - the library of queries, the files of the auto-save, a prompt *)
(* answered with Discard.                                                  *)
(*                                                                         *)
(* The session is saved half a second after the last change, by commands   *)
(* that run on a pool of threads and may overtake each other, and once     *)
(* more when the window is asked to close.  It is read once, after the     *)
(* connections have been loaded; until then the window already works.      *)
(*                                                                         *)
(* `promised` is what the user may expect to find: the texts of the tabs  *)
(* as he last saw them.  `excused` says that something has happened after  *)
(* which the program does not keep that promise; each case is named where  *)
(* it is set.                                                              *)
(***************************************************************************)
EXTENDS Naturals, Sequences, FiniteSets, SequencesExt

CONSTANTS
    Tabs,       \* identities of tabs
    Links,      \* saved connections
    Picky,      \* those of them whose vault profile has to be picked first
    Names,      \* names of saved queries
    MaxText,    \* texts are numbers, 0 is the empty text
    MaxSteps,   \* bound: acts of the user, and crashes
    Nil

Texts == 0 .. MaxText

TabRecords ==
    [id : Tabs, text : Texts, original : Texts, name : Names \cup {Nil}, link : Links \cup {Nil},
     base : Texts, vouched : BOOLEAN]
Snapshots == [tabs : Seq(TabRecords), active : Tabs \cup {Nil}, linked : Links \cup {Nil}]
Passes == [due : SUBSET TabRecords, written : SUBSET Tabs]

ASSUME SessionAssumption ==
    /\ Nil \notin Tabs \cup Links \cup Names
    /\ Nil \notin Snapshots /\ Nil \notin Passes
    /\ Picky \subseteq Links /\ MaxText \in Nat

VARIABLES
    tabs,       \* queryTabs: the tabs in the order of the strip
    active,     \* activeTabId
    linked,     \* activeConnection
    startup,    \* "loading" the connections, "asked" for the session, "done"
    phase,      \* of the window
    timer,      \* the snapshot the pending timer will save, or None
    writing,    \* the calls of save_sessions under way, oldest first
    session,       \* sessions.json
    rejoin,     \* the automatic reconnection: the connection it will open
    library,    \* saved queries, by name and connection
    naming,     \* the save dialog, or the call that follows it
    pass,       \* the pass of the auto-save under way
    autofile,   \* what the auto-save has written for each tab
    promised, excused,
    steps

stripVars == <<tabs, active, linked>>
fileVars == <<timer, writing, session>>
saveVars == <<library, naming, pass, autofile>>
sessionVars == <<stripVars, fileVars, saveVars, startup, phase, rejoin, promised, excused, steps>>

Ids(strip) == {strip[i].id : i \in DOMAIN strip}
TextsOf(strip) == {<<strip[i].id, strip[i].text>> : i \in DOMAIN strip}

(* `base` is a text of the tab that is stored where the tab came from.     *)
(* `vouched` is false once the tab was marked clean with a text that is    *)
(* stored nowhere.                                                         *)
Tab(id, text, name, link) ==
    [id |-> id, text |-> text, original |-> text, name |-> name, link |-> link,
     base |-> text, vouched |-> TRUE]

Place(id) == CHOOSE i \in DOMAIN tabs : tabs[i].id = id

Running == phase \in {"open", "closing", "prompt"}
Usable == phase \in {"open", "closing"}

(* What a save writes: the tabs without the model's own fields.            *)
Saved(t) ==
    [id |-> t.id, text |-> t.text, original |-> t.original, name |-> t.name, link |-> t.link,
     base |-> t.original, vouched |-> TRUE]
Snapshot(strip, who, where) ==
    [tabs |-> [i \in DOMAIN strip |-> Saved(strip[i])], active |-> who, linked |-> where]

(* The effect behind every change: the timer starts anew, unless the       *)
(* session has not been restored yet.  A change while the window saves     *)
(* itself to close may be missing from that save.                          *)
Changed ==
    /\ timer' = IF startup # "done" THEN timer
                ELSE Snapshot(tabs', active', linked')
    /\ promised' = IF startup # "done" THEN promised ELSE TextsOf(tabs')
    /\ excused' = (excused \/ phase = "closing")
    /\ UNCHANGED <<writing, session>>

Step == steps < MaxSteps /\ steps' = steps + 1

Send(snapshot) ==
    Append([i \in DOMAIN writing |-> [writing[i] EXCEPT !.last = FALSE]],
           [snapshot |-> snapshot, last |-> TRUE])

SessionInit ==
    /\ tabs = <<>> /\ active = Nil /\ linked = Nil
    /\ startup = "loading" /\ phase = "open" /\ timer = Nil /\ writing = <<>>
    /\ session = Snapshot(<<>>, Nil, Nil)
    /\ rejoin = Nil
    /\ library = [k \in Names \X Links |-> 0] /\ naming = Nil
    /\ pass = Nil /\ autofile = [t \in Tabs |-> 0]
    /\ promised = {} /\ excused = FALSE
    /\ steps = 0

-----------------------------------------------------------------------------
(* Starting: the connections are loaded, then the session is read twice,   *)
(* for the tabs and for the connection to open again.                      *)
LoadDone ==
    /\ Running /\ startup = "loading" /\ startup' = "asked"
    /\ UNCHANGED <<stripVars, fileVars, saveVars, phase, rejoin, promised, excused, steps>>

(* The restored tabs replace whatever was opened before the answer came;   *)
(* with an empty session those tabs stay, but nothing saves them until the *)
(* next change.                                                            *)
Restored ==
    /\ Running /\ startup = "asked" /\ startup' = "done"
    /\ IF session.tabs = <<>>
       THEN UNCHANGED <<stripVars, timer>>
       ELSE /\ tabs' = session.tabs
            /\ active' = IF session.active \in Ids(session.tabs) THEN session.active ELSE active
            /\ timer' = Snapshot(tabs', active', linked)
            /\ UNCHANGED linked
    /\ promised' = IF excused \/ tabs # <<>> THEN TextsOf(tabs') ELSE promised
    /\ excused' = (phase # "open" \/ (session.tabs = <<>> /\ tabs # <<>>))
    /\ UNCHANGED <<writing, session, saveVars, phase, rejoin, steps>>

(* A session that cannot be read counts as none: the next save overwrites  *)
(* it.                                                                     *)
RestoreFails ==
    /\ Running /\ startup = "asked" /\ startup' = "done"
    /\ excused' = TRUE
    /\ Step
    /\ UNCHANGED <<stripVars, fileVars, saveVars, phase, rejoin, promised>>

(* canAutoReconnect: never a connection that would have to ask.            *)
Rejoin ==
    /\ Usable /\ startup # "loading" /\ rejoin = Nil /\ linked = Nil
    /\ session.linked \in Links \ Picky
    /\ rejoin' = session.linked /\ Step
    /\ UNCHANGED <<stripVars, fileVars, saveVars, phase, promised, excused>>

(* The connection is open.  It becomes the active one even when the user   *)
(* has opened another one meanwhile.                                       *)
Rejoined ==
    /\ Usable /\ rejoin # Nil
    /\ linked' = rejoin /\ rejoin' = Nil
    /\ UNCHANGED <<tabs, active>> /\ Changed
    /\ UNCHANGED <<saveVars, phase, steps>>

-----------------------------------------------------------------------------
(* What the user does with the tabs.                                       *)

(* resolveNewTabTarget: the connection that was asked for, else the active *)
(* one, else the one of the previous session, which is not opened by this. *)
Target(explicit) ==
    IF explicit # Nil THEN explicit ELSE IF linked # Nil THEN linked ELSE session.linked

AddTab(t) ==
    /\ tabs' = Append(tabs, t) /\ active' = t.id
    /\ autofile' = [autofile EXCEPT ![t.id] = 0]
    /\ UNCHANGED linked /\ Changed

Fresh == Tabs \ (Ids(tabs) \cup Ids(session.tabs))

NewTab ==
    /\ Usable /\ Step
    /\ \E id \in Fresh : AddTab(Tab(id, 0, Nil, Target(Nil)))
    /\ UNCHANGED <<library, naming, pass, phase, rejoin>>

OpenSaved ==
    /\ Usable /\ Step
    /\ \E id \in Fresh, k \in Names \X Links :
        library[k] # 0 /\ AddTab(Tab(id, library[k], k[1], Target(k[2])))
    /\ UNCHANGED <<library, naming, pass, phase, rejoin>>

(* The copy counts as clean even when the text is stored nowhere.          *)
Duplicate ==
    /\ Usable /\ Step
    /\ \E id \in Fresh, i \in DOMAIN tabs :
        AddTab([Tab(id, tabs[i].text, Nil, Target(tabs[i].link))
                  EXCEPT !.base = 0, !.vouched = FALSE])
    /\ UNCHANGED <<library, naming, pass, phase, rejoin>>

Naming == naming # Nil /\ naming.name = Nil

(* updateTabQuery: the editor shows the active tab only.                   *)
Type ==
    /\ Usable /\ ~Naming /\ Step
    /\ \E text \in Texts :
        /\ active \in Ids(tabs) /\ tabs[Place(active)].text # text
        /\ tabs' = [tabs EXCEPT ![Place(active)].text = text]
    /\ UNCHANGED <<active, linked>> /\ Changed
    /\ UNCHANGED <<saveVars, phase, rejoin>>

(* Clicks, and the keys that cycle, which work while a dialog is open.     *)
SwitchTab ==
    /\ Usable /\ Step
    /\ active' \in Ids(tabs) \ {active}
    /\ UNCHANGED <<tabs, linked>> /\ Changed
    /\ UNCHANGED <<saveVars, phase, rejoin>>

CloseTab ==
    /\ Usable /\ ~Naming /\ Step
    /\ \E id \in Ids(tabs) :
        /\ tabs' = RemoveAt(tabs, Place(id))
        /\ active' = IF active # id THEN active
                     ELSE IF tabs' = <<>> THEN Nil ELSE Last(tabs').id
    /\ UNCHANGED linked /\ Changed
    /\ UNCHANGED <<saveVars, phase, rejoin>>

CloseOthers ==
    /\ Usable /\ ~Naming /\ Len(tabs) > 1 /\ Step
    /\ \E id \in Ids(tabs) :
        tabs' = <<tabs[Place(id)]>> /\ active' = id
    /\ UNCHANGED linked /\ Changed
    /\ UNCHANGED <<saveVars, phase, rejoin>>

CloseAll ==
    /\ Usable /\ ~Naming /\ Len(tabs) > 1 /\ Step
    /\ tabs' = <<>> /\ active' = Nil
    /\ UNCHANGED linked /\ Changed
    /\ UNCHANGED <<saveVars, phase, rejoin>>

(* The selector above the editor, for the active tab: the connection is    *)
(* the tab's at once and the active one when it has opened.                *)
Retarget ==
    /\ Usable /\ ~Naming /\ active # Nil /\ Step
    /\ \E l \in Links :
        /\ tabs' = IF active \in Ids(tabs) THEN [tabs EXCEPT ![Place(active)].link = l] ELSE tabs
        /\ linked' \in {l, linked}
    /\ UNCHANGED active /\ Changed
    /\ UNCHANGED <<saveVars, phase, rejoin>>

-----------------------------------------------------------------------------
(* Saving a query to the library.  The tab and its text are read before    *)
(* the dialog opens, the tab to mark when everything is over.              *)
AskName ==
    /\ Usable /\ naming = Nil /\ Step
    /\ \E i \in DOMAIN tabs :
        LET link == IF tabs[i].link # Nil THEN tabs[i].link ELSE linked
        IN  /\ tabs[i].id = active /\ tabs[i].text # 0 /\ link # Nil
            /\ naming' = [text |-> tabs[i].text, link |-> link, name |-> Nil]
    /\ UNCHANGED <<stripVars, fileVars, library, pass, autofile, phase, rejoin, promised, excused>>

GiveName ==
    /\ Running /\ Naming
    /\ \E n \in Names : naming' = [naming EXCEPT !.name = n]
    /\ UNCHANGED <<stripVars, fileVars, library, pass, autofile, phase, rejoin,
                   promised, excused, steps>>

NoName ==
    /\ Running /\ Naming /\ naming' = Nil
    /\ UNCHANGED <<stripVars, fileVars, library, pass, autofile, phase, rejoin,
                   promised, excused, steps>>

(* Other tabs of the same saved query are measured against the new text.   *)
Mark(t) ==
    IF t.id = active
    THEN [t EXCEPT !.name = naming.name, !.original = naming.text, !.vouched = TRUE]
    ELSE IF t.name = naming.name
    THEN [t EXCEPT !.original = naming.text, !.vouched = TRUE]
    ELSE t

QuerySaved ==
    /\ Usable /\ naming # Nil /\ ~Naming
    /\ library' = [library EXCEPT ![<<naming.name, naming.link>>] = naming.text]
    /\ tabs' = [i \in DOMAIN tabs |-> Mark(tabs[i])]
    /\ naming' = Nil
    /\ UNCHANGED <<active, linked>> /\ Changed
    /\ UNCHANGED <<pass, autofile, phase, rejoin, steps>>

-----------------------------------------------------------------------------
(* The auto-save: the tabs are read when the timer fires, written one by   *)
(* one - in the order of the strip, of which nothing here depends - and    *)
(* marked when all are written, with the text they have then.              *)
AutoSave ==
    /\ Usable /\ pass = Nil /\ Step
    /\ LET due == {t \in Range(tabs) : t.text # 0 /\ autofile[t.id] # t.text}
       IN  due # {} /\ pass' = [due |-> due, written |-> {}]
    /\ UNCHANGED <<stripVars, fileVars, library, naming, autofile, phase, rejoin,
                   promised, excused>>

AutoWrites ==
    /\ Running /\ pass # Nil
    /\ \E t \in pass.due :
           \/ /\ autofile' = [autofile EXCEPT ![t.id] = t.text]
              /\ pass' = [due |-> pass.due \ {t}, written |-> pass.written \cup {t.id}]
           \/ /\ pass' = [pass EXCEPT !.due = pass.due \ {t}]
              /\ UNCHANGED autofile
    /\ UNCHANGED <<stripVars, fileVars, library, naming, phase, rejoin, promised, excused, steps>>

AutoMarks ==
    /\ Usable /\ pass # Nil /\ pass.due = {}
    /\ tabs' = [i \in DOMAIN tabs |->
                  IF tabs[i].id \in pass.written
                  THEN [tabs[i] EXCEPT !.original = tabs[i].text,
                                       !.vouched = (autofile[tabs[i].id] = tabs[i].text)]
                  ELSE tabs[i]]
    /\ pass' = Nil
    /\ UNCHANGED <<active, linked>> /\ Changed
    /\ UNCHANGED <<library, naming, autofile, phase, rejoin, steps>>

-----------------------------------------------------------------------------
(* Saving the session.                                                     *)
TimerFires ==
    /\ Running /\ timer # Nil
    /\ writing' = Send(timer) /\ timer' = Nil
    /\ UNCHANGED <<stripVars, saveVars, session, phase, rejoin, promised, excused, steps>>

Without(i) == [j \in 1 .. Len(writing) - 1 |-> IF j < i THEN writing[j] ELSE writing[j + 1]]

(* A save may be written after a newer one.                                *)
Lands(i) ==
    /\ writing # <<>> /\ i \in DOMAIN writing
    /\ session' = writing[i].snapshot /\ writing' = Without(i)
    /\ excused' = (excused \/ ~writing[i].last)
    /\ UNCHANGED <<stripVars, saveVars, timer, phase, rejoin, promised, steps>>

SaveFails(i) ==
    /\ writing # <<>> /\ i \in DOMAIN writing /\ Step
    /\ writing' = Without(i) /\ excused' = TRUE
    /\ UNCHANGED <<stripVars, saveVars, timer, session, phase, rejoin, promised>>

-----------------------------------------------------------------------------
(* The end of the window.                                                  *)

Dirty(t) == t.text # t.original

(* Mutant of AskClose: the window closes on what the timer has saved.       *)
MutantAskClose ==
    /\ phase = "open" /\ Step
    /\ phase' = "closing"
    /\ excused' = (excused \/ startup # "done")
    /\ UNCHANGED <<stripVars, saveVars, fileVars, rejoin, promised>>

(* onCloseRequested saves first.  It does not look whether the session has *)
(* been restored: a window closed before that has saved no tabs.           *)
AskClose ==
    /\ phase = "open" /\ Step
    /\ phase' = "closing"
    /\ writing' = Send(Snapshot(tabs, active, linked))
    /\ excused' = (excused \/ startup # "done")
    /\ UNCHANGED <<stripVars, saveVars, timer, session, rejoin, promised>>

OwnSaveOver == \A i \in DOMAIN writing : ~writing[i].last

Ended ==
    /\ phase' = "closed" /\ timer' = Nil /\ writing' = <<>>
    /\ rejoin' = Nil /\ naming' = Nil /\ pass' = Nil
    /\ UNCHANGED <<stripVars, session, library, autofile, promised>>

Closes ==
    /\ phase = "closing" /\ OwnSaveOver
    /\ \A i \in DOMAIN tabs : ~Dirty(tabs[i])
    /\ Ended /\ UNCHANGED <<excused, steps>>

Prompts ==
    /\ phase = "closing" /\ OwnSaveOver
    /\ \E i \in DOMAIN tabs : Dirty(tabs[i])
    /\ phase' = "prompt"
    /\ UNCHANGED <<stripVars, fileVars, saveVars, rejoin, promised, excused, steps>>

Stays ==
    /\ phase = "prompt" /\ phase' = "open"
    /\ UNCHANGED <<stripVars, fileVars, saveVars, rejoin, promised, excused, steps>>

(* Discard keeps the texts: they come back as clean tabs.                  *)
Discard ==
    /\ phase = "prompt" /\ phase' = "leaving"
    /\ writing' = Send(Snapshot([i \in DOMAIN tabs |-> [tabs[i] EXCEPT !.original = tabs[i].text]],
                                active, linked))
    /\ UNCHANGED <<stripVars, saveVars, timer, session, rejoin, promised, excused, steps>>

Leaves ==
    /\ phase = "leaving" /\ OwnSaveOver
    /\ Ended /\ UNCHANGED <<excused, steps>>

(* A crash, or a reload of the page: the change of the last half second is *)
(* lost, and what is being written may be.                                 *)
CrashWindow ==
    /\ Running /\ Step
    /\ Ended
    /\ excused' = (excused \/ phase # "open" \/ timer # Nil \/ writing # <<>>)

Launch ==
    /\ phase = "closed" /\ Step
    /\ phase' = "open" /\ startup' = "loading"
    /\ tabs' = <<>> /\ active' = Nil /\ linked' = Nil
    /\ UNCHANGED <<fileVars, saveVars, rejoin, promised, excused>>

SessionNext ==
    \/ LoadDone \/ Restored \/ RestoreFails \/ Launch
    \/ /\ \/ Rejoin \/ Rejoined
          \/ NewTab \/ OpenSaved \/ Duplicate \/ Type \/ SwitchTab
          \/ CloseTab \/ CloseOthers \/ CloseAll \/ Retarget
          \/ AskName \/ GiveName \/ NoName \/ QuerySaved
          \/ AutoSave \/ AutoWrites \/ AutoMarks
          \/ TimerFires \/ (\E i \in 1 .. 3 : Lands(i) \/ SaveFails(i))
          \/ AskClose \/ Closes \/ Prompts \/ Stays \/ Discard \/ Leaves \/ CrashWindow
       /\ UNCHANGED startup

SessionSpec == SessionInit /\ [][SessionNext]_sessionVars

-----------------------------------------------------------------------------
(* The tabs come back.  Unless excused, an open window shows the tabs the  *)
(* user had when it was last closed, or when it crashed with nothing       *)
(* unsaved, with his changes since; and a closed one has left them in      *)
(* sessions.json.                                                          *)
TabsComeBack ==
    ~excused => /\ phase = "open" /\ startup = "done" => TextsOf(tabs) = promised
                /\ phase = "closed" => TextsOf(session.tabs) = promised

(* A tab that counts as clean, so that no prompt will mention it, has its  *)
(* text where it came from, in the library or in its auto-saved file -     *)
(* except for a duplicate and a tab typed in while the auto-save wrote it. *)
CleanIsStored ==
    Running => \A i \in DOMAIN tabs :
        /\ ~Dirty(tabs[i]) /\ tabs[i].text # 0 /\ tabs[i].vouched
        /\ pass # Nil => tabs[i].id \notin pass.written
        =>
            \/ tabs[i].text \in {tabs[i].base, autofile[tabs[i].id]}
            \/ \E k \in Names \X Links : library[k] = tabs[i].text

(* Neither is text lost across restarts nor is a tab taken for saved that  *)
(* is not (MainContent.tsx, editorDirty.ts, sessions.json).                *)
TextIsKept == TabsComeBack /\ CleanIsStored
=============================================================================
