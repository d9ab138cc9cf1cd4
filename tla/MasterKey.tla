----------------------------- MODULE MasterKey -----------------------------
(***************************************************************************)
(* The master key and the machine identifier that seal what is stored:     *)
(* where they are kept (the keyring of the system, which comes and goes,   *)
(* and a file), when they are made, how a process caches them, and what a  *)
(* load of each file answers when it cannot be opened.                     *)
(*                                                                         *)
(* One call per file at a time: how the calls on one file overlap is the   *)
(* matter of StoredLists.  No vault password is ever given, so that a      *)
(* derived key stands for the master key it is derived from.               *)
(***************************************************************************)
EXTENDS Naturals, Sequences

CONSTANTS
    KeyKinds,          \* files, each of a kind below
    NoKey,          \* no key; the content is not sealed
    Legacy,         \* sealed as old versions did, with constants
    MaxKeys,        \* bound: master keys that are made
    MaxKeyEvents    \* bound: saves, restarts and changes outside

ASSUME KeyAssumption ==
    /\ KeyKinds \subseteq {"connections", "folders", "history", "settings"}
    /\ MaxKeys \in Nat /\ MaxKeyEvents \in Nat
    /\ {NoKey, Legacy} \cap 1..MaxKeys = {} /\ NoKey # Legacy

VARIABLES
    keyring,    \* reachable or not; the key and the identifier stored in it
    keyFile,    \* the file .master_key
    detects,    \* the machine identifier can be detected now
    process,    \* what the process has cached: derived key and identifier
    calls,      \* per file, the command under way
    inMemory,     \* per file, what the front end holds
    stored,     \* per file, what is on disk
    made,       \* number of keys made
    astray,     \* history: what happened that may cost data
    keyEvents

keyVars == <<keyring, keyFile, detects, process, calls, inMemory, stored, made, astray, keyEvents>>

Keys == 1..MaxKeys \cup {NoKey}
Prints == {"none", "real", "fallback"}
Contents == {"intact", "garbled", "lost"}
KeyIdle == [todo |-> <<>>, loads |-> FALSE, key |-> NoKey, print |-> "none", seals |-> FALSE]

KeyTypeOK ==
    /\ keyring \in [up : BOOLEAN, key : Keys, id : BOOLEAN]
    /\ keyFile \in Keys
    /\ process \in [key : Keys, id : BOOLEAN]
    /\ calls \in [KeyKinds -> [todo : Seq({"key", "make", "keep", "print", "end"}), loads : BOOLEAN,
                               key : Keys, print : Prints, seals : BOOLEAN]]
    /\ inMemory \in [KeyKinds -> Contents \cup {"unloaded", "refused"}]
    /\ stored \in [KeyKinds -> [there : BOOLEAN, key : Keys \cup {Legacy}, print : Prints,
                                content : Contents]]
    /\ made \in 0..MaxKeys
    /\ astray \subseteq {"raced", "unwritten", "undetected"}
    /\ keyEvents \in 0..MaxKeyEvents

Nothing == [there |-> FALSE, key |-> NoKey, print |-> "none", content |-> "intact"]
FromOldVersion ==
    [there |-> TRUE, key |-> Legacy, print |-> "real", content |-> "intact"]

(* A new installation, or one that was used with an old version. *)
KeyInit ==
    /\ keyring \in [up : BOOLEAN, key : {NoKey}, id : {FALSE}]
    /\ keyFile = NoKey
    /\ detects \in BOOLEAN
    /\ process = [key |-> NoKey, id |-> FALSE]
    /\ calls = [k \in KeyKinds |-> KeyIdle]
    /\ inMemory = [k \in KeyKinds |-> "unloaded"]
    /\ stored \in {[k \in KeyKinds |-> Nothing], [k \in KeyKinds |-> FromOldVersion]}
    /\ made = 0
    /\ astray = {}
    /\ keyEvents = 0

-----------------------------------------------------------------------------
(* Machine identifier                                                      *)

(* The identifier is known to the process, stored in the keyring, or        *)
(* detected; a failure to detect it is not remembered.                      *)
MachineId == process.id \/ (keyring.up /\ keyring.id) \/ detects

IdentifyMachine == 
    keyring' = [keyring EXCEPT !.id = keyring.id \/ (keyring.up /\ ~process.id /\ detects)]

identity == <<process, keyring, astray>>
Note(reason) == astray' = astray \cup {reason}

-----------------------------------------------------------------------------
(* Commands                                                                *)

Does(k, step) == calls[k].todo # <<>> /\ Head(calls[k].todo) = step
Then(k, call) == calls' = [calls EXCEPT ![k] = [call EXCEPT !.todo = Tail(call.todo)]]
Begin(k, call) == calls[k] = KeyIdle /\ calls' = [calls EXCEPT ![k] = call]
Outside == keyEvents < MaxKeyEvents /\ keyEvents' = keyEvents + 1

(* A file that is not there is loaded as empty.  Connections carry a        *)
(* fingerprint in the open, folders and histories one under the seal.       *)
KeyLoad(k) ==
    /\ inMemory[k] = "unloaded"
    /\ IF ~stored[k].there
       THEN inMemory' = [inMemory EXCEPT ![k] = "intact"] /\ UNCHANGED calls
       ELSE /\ Begin(k, [KeyIdle EXCEPT !.loads = TRUE,
                   !.todo = CASE k = "connections" -> <<"print", "key", "end">>
                              [] k = "settings" -> <<"key", "end">>
                              [] OTHER -> <<"key", "print", "end">>])
            /\ UNCHANGED inMemory
    /\ UNCHANGED <<keyring, keyFile, detects, process, stored, made, astray, keyEvents>>

(* Only passwords are sealed in the connections, and only an API key in the *)
(* settings; the other files are sealed whole.  Nothing is saved of what    *)
(* could not be loaded.                                                     *)
KeySave(k) ==
    /\ Outside
    /\ inMemory[k] \in Contents
    /\ \E seals \in BOOLEAN :
           /\ seals \/ k \in {"connections", "settings"}
           /\ Begin(k, [KeyIdle EXCEPT !.seals = seals,
                  !.todo = CASE k = "connections" /\ seals -> <<"key", "print", "end">>
                             [] k = "connections" /\ ~seals -> <<"print", "end">>
                             [] k = "settings" /\ seals -> <<"key", "end">>
                             [] k = "settings" /\ ~seals -> <<"end">>
                             [] OTHER -> <<"print", "key", "end">>])
    /\ UNCHANGED <<keyring, keyFile, detects, process, inMemory, stored, made, astray>>

Fingerprint(k) ==
    /\ Does(k, "print")
    /\ IdentifyMachine
    /\ process' = [process EXCEPT !.id = MachineId]
    /\ IF MachineId THEN UNCHANGED astray ELSE Note("undetected")
    /\ Then(k, [calls[k] EXCEPT !.print = IF MachineId THEN "real" ELSE "fallback"])
    /\ UNCHANGED <<keyFile, detects, inMemory, stored, made, keyEvents>>

(* Without an identifier there is no key: a save fails, a load goes on      *)
(* without one.                                                             *)
WithoutKey(k) ==
    calls' = [calls EXCEPT ![k] =
                  IF @.loads THEN [@ EXCEPT !.todo = Tail(calls[k].todo), !.key = NoKey] ELSE KeyIdle]

(* The derived key of the process, or else the identifier and the master    *)
(* key, from the keyring first and from the file second.                    *)
GetEncryptionKey(k) ==
    LET found == IF keyring.up /\ keyring.key # NoKey THEN keyring.key ELSE keyFile
        others == \E j \in KeyKinds \ {k} : Does(j, "make") \/ Does(j, "keep")
    IN  /\ Does(k, "key")
        /\ IF process.key # NoKey
           THEN Then(k, [calls[k] EXCEPT !.key = process.key]) /\ UNCHANGED identity
           ELSE /\ IdentifyMachine
                /\ process' = [key |-> IF MachineId THEN found ELSE NoKey, id |-> MachineId]
                /\ CASE ~MachineId -> WithoutKey(k) /\ Note("undetected")
                     [] MachineId /\ found # NoKey ->
                            Then(k, [calls[k] EXCEPT !.key = found]) /\ UNCHANGED astray
                     [] OTHER ->
                            /\ calls' = [calls EXCEPT ![k].todo = <<"make">> \o Tail(calls[k].todo)]
                            /\ IF others THEN Note("raced") ELSE UNCHANGED astray
        /\ UNCHANGED <<keyFile, detects, inMemory, stored, made, keyEvents>>

(* A new key is put in the keyring if that can be reached ...               *)
MakeMasterKey(k) ==
    /\ Does(k, "make") /\ made < MaxKeys
    /\ made' = made + 1
    /\ keyring' = IF keyring.up THEN [keyring EXCEPT !.key = made + 1] ELSE keyring
    /\ calls' = [calls EXCEPT ![k] = [@ EXCEPT !.key = made + 1,
                                               !.todo = <<"keep">> \o Tail(calls[k].todo)]]
    /\ UNCHANGED <<keyFile, detects, process, inMemory, stored, astray, keyEvents>>

(* Mutant: the file is only the fallback of the keyring. *)
KeepIfNoKeyring(k) ==
    /\ Does(k, "keep")
    /\ process' = [process EXCEPT !.key = IF process.key = NoKey THEN calls[k].key ELSE process.key]
    /\ keyFile' = IF keyring.key = calls[k].key THEN keyFile ELSE calls[k].key
    /\ Then(k, calls[k])
    /\ UNCHANGED <<keyring, detects, inMemory, stored, made, keyEvents, astray>>

(* ... and in the file; it is used if either has taken it.  The process     *)
(* remembers the first key it derives.                                      *)
KeepMasterKey(k) ==
    /\ Does(k, "keep")
    /\ process' = [process EXCEPT !.key = IF process.key = NoKey THEN calls[k].key ELSE process.key]
    /\ \/ keyFile' = calls[k].key /\ Then(k, calls[k]) /\ UNCHANGED astray
       \/ /\ keyring.key = calls[k].key
          /\ Note("unwritten")
          /\ Then(k, calls[k]) /\ UNCHANGED keyFile
    /\ UNCHANGED <<keyring, detects, inMemory, stored, made, keyEvents>>

(* Neither place has taken the key. *)
KeyNotKept(k) ==
    /\ Does(k, "keep")
    /\ keyring.key # calls[k].key
    /\ WithoutKey(k)
    /\ UNCHANGED <<keyring, keyFile, detects, process, inMemory, stored, made, astray, keyEvents>>

Opened(k) == stored[k].key \in {NoKey, Legacy, calls[k].key}

(* Connections of another machine are refused, and a password that cannot   *)
(* be opened is taken for the sealed text; folders that cannot be opened    *)
(* are refused, histories are empty, and so is the API key.                 *)
Answer(k) ==
    CASE k = "connections" ->
             IF calls[k].print # stored[k].print THEN "refused"
             ELSE IF Opened(k) THEN stored[k].content ELSE "garbled"
      [] k = "folders" ->
             IF ~Opened(k) THEN "refused"
             ELSE IF calls[k].print # stored[k].print THEN "lost" ELSE stored[k].content
      [] k = "history" ->
             IF ~Opened(k) \/ calls[k].print # stored[k].print THEN "lost"
             ELSE stored[k].content
      [] k = "settings" ->
             IF Opened(k) THEN stored[k].content ELSE "lost"

(* Settings of an old version are sealed as soon as they are read. *)
KeyLoaded(k) ==
    /\ Does(k, "end") /\ calls[k].loads
    /\ inMemory' = [inMemory EXCEPT ![k] = Answer(k)]
    /\ calls' = [calls EXCEPT ![k] = KeyIdle]
    /\ stored' = IF k = "settings" /\ stored[k].key = Legacy /\ calls[k].key # NoKey
                 THEN [stored EXCEPT ![k].key = calls[k].key] ELSE stored
    /\ UNCHANGED <<keyring, keyFile, detects, process, made, astray, keyEvents>>

KeySaved(k) ==
    /\ Does(k, "end") /\ ~calls[k].loads
    /\ stored' = [stored EXCEPT ![k] = [there |-> TRUE, key |-> calls[k].key,
                                        print |-> calls[k].print, content |-> inMemory[k]]]
    /\ calls' = [calls EXCEPT ![k] = KeyIdle]
    /\ UNCHANGED <<keyring, keyFile, detects, process, inMemory, made, astray, keyEvents>>

-----------------------------------------------------------------------------
(* The world                                                               *)

KeyringComesAndGoes ==
    /\ Outside
    /\ keyring' = [keyring EXCEPT !.up = ~keyring.up]
    /\ UNCHANGED <<keyFile, detects, process, calls, inMemory, stored, made, astray>>

DetectionComesAndGoes ==
    /\ Outside
    /\ detects' = ~detects
    /\ UNCHANGED <<keyring, keyFile, process, calls, inMemory, stored, made, astray>>

(* A crash may come before the file has the key that the keyring has. *)
KeyRestart ==
    /\ Outside
    /\ process' = [key |-> NoKey, id |-> FALSE]
    /\ calls' = [k \in KeyKinds |-> KeyIdle]
    /\ inMemory' = [k \in KeyKinds |-> "unloaded"]
    /\ IF \E k \in KeyKinds : Does(k, "keep") /\ keyring.key = calls[k].key
       THEN Note("unwritten") ELSE UNCHANGED astray
    /\ UNCHANGED <<keyring, keyFile, detects, stored, made>>

KeyNext ==
    \/ \E k \in KeyKinds :
           \/ KeyLoad(k) \/ KeySave(k)
           \/ Fingerprint(k) \/ GetEncryptionKey(k)
           \/ MakeMasterKey(k) \/ KeepMasterKey(k) \/ KeyNotKept(k)
           \/ KeyLoaded(k) \/ KeySaved(k)
    \/ KeyringComesAndGoes
    \/ DetectionComesAndGoes
    \/ KeyRestart

KeySpec == KeyInit /\ [][KeyNext]_keyVars

-----------------------------------------------------------------------------
(* Properties                                                              *)

(* What is sealed can be opened by every later process, whether it reaches  *)
(* the keyring or not (the first use is still about to write the file),     *)
(* unless two first uses raced or that file could not be written; and       *)
(* unless the machine was not recognised at some time, what is stored and   *)
(* what the front end would store next is what was saved.  (The comment in  *)
(* get_master_app_key: a different key makes the data unrecoverable.)       *)
SealedStaysReadable ==
    /\ astray \subseteq {"undetected"} =>
           \A k \in KeyKinds : stored[k].key \in Keys \ {NoKey} =>
               /\ \/ keyFile = stored[k].key
                  \/ \E j \in KeyKinds : Does(j, "keep") /\ calls[j].key = stored[k].key
               /\ keyring.key \in {NoKey, stored[k].key}
    /\ astray = {} =>
           \A k \in KeyKinds : stored[k].content = "intact" /\ inMemory[k] \notin {"garbled", "lost"}
=============================================================================
