---------------------------- MODULE RegistryStore ----------------------------
(***************************************************************************)
(* The relay's registry file (relay-server/src/registry.rs): how a handler *)
(* that holds the registry mutex mutates the in-memory registry, saves it  *)
(* and rolls back on failure, how save() replaces the file on POSIX and on *)
(* Windows, and how load() recovers after a crash between any two file     *)
(* operations.                                                             *)
(*                                                                         *)
(* The contents of a registry are abstracted to a version number: 0 is     *)
(* Registry::default(), and every mutation produces a fresh version.       *)
(***************************************************************************)
EXTENDS Integers

CONSTANTS
    Windows,    \* TRUE for the #[cfg(windows)] build of save()
    Faults,     \* the file operations that may fail
    MaxSaves    \* bound: how many mutations are attempted

FaultKind == {"write", "wipe", "shelve", "replace", "unshelve", "sweep", "adopt"}

ASSUME RegistryStoreAssumption ==
    /\ Windows \in BOOLEAN
    /\ Faults \subseteq FaultKind
    /\ MaxSaves \in Nat

VARIABLES
    primary,    \* relay-data.json
    backup,     \* relay-data.json.bak (Windows only)
    temp,       \* relay-data.json.tmp
    pc,         \* where the server is: down, idle, or inside save()
    mem,        \* the registry behind AppState.registry
    previous,   \* the handler's copy it rolls back to
    acked,      \* the version whose handler last answered with success
    versions    \* how many versions have been produced

vars == <<primary, backup, temp, pc, mem, previous, acked, versions>>
files == <<primary, backup, temp>>

NoFile == -1
Torn == -2      \* a file that was only partly written
Default == 0    \* Registry::default()
Content == 0..MaxSaves
File == Content \cup {NoFile, Torn}
Saving == {"write", "wipe", "shelve", "replace", "unshelve", "sweep"}

Exists(f) == f # NoFile

\* What load() would return now; Torn stands for its Err.
Recovered ==
    IF Exists(primary) THEN primary
    ELSE IF Exists(backup) THEN backup
    ELSE Default

-----------------------------------------------------------------------------
(* The handlers that save: register, authorize, revoke.  All of them hold   *)
(* the registry mutex from the mutation to the answer.                      *)

Mutate ==
    /\ pc = "idle"
    /\ versions < MaxSaves
    /\ versions' = versions + 1
    /\ previous' = mem
    /\ mem' = versions + 1
    /\ pc' = "write"
    /\ UNCHANGED <<files, acked>>

\* save() returned Ok: the handler answers with success.
Answer ==
    /\ pc' = "idle"
    /\ acked' = mem
    /\ UNCHANGED <<mem, previous, versions>>

\* Bug: the handler keeps the mutation although it was not saved.
RollBackForgotten ==
    /\ pc' = "idle"
    /\ UNCHANGED <<mem, previous, acked, versions>>

\* save() returned Err: the handler restores its copy and answers 500.
RollBack ==
    /\ pc' = "idle"
    /\ mem' = previous
    /\ UNCHANGED <<previous, acked, versions>>

Goto(step) ==
    /\ pc' = step
    /\ UNCHANGED <<mem, previous, acked, versions>>

-----------------------------------------------------------------------------
(* The file operations of save(), in order.                                 *)

\* Bug: the registry file itself is written, not a temporary one.
WriteInPlace ==
    /\ pc = "write"
    /\ \/ /\ primary' = mem
          /\ Answer
       \/ /\ "write" \in Faults
          /\ primary' \in {primary, Torn}
          /\ RollBack
    /\ UNCHANGED <<backup, temp>>

WriteTemp ==
    /\ pc = "write"
    /\ \/ /\ temp' = mem
          /\ Goto(IF Windows THEN "wipe" ELSE "replace")
       \/ /\ "write" \in Faults
          /\ temp' \in {temp, Torn}
          /\ RollBack
    /\ UNCHANGED <<primary, backup>>

\* let _ = fs::remove_file(&backup)
WipeBackup ==
    /\ pc = "wipe"
    /\ \/ backup' = NoFile
       \/ "wipe" \in Faults /\ backup' = backup
    /\ Goto("shelve")
    /\ UNCHANGED <<primary, temp>>

\* Bug: the old file is removed instead of kept as the backup.
ShelveByDeleting ==
    /\ pc = "shelve"
    /\ primary' = NoFile
    /\ Goto("replace")
    /\ UNCHANGED <<backup, temp>>

\* if path.exists() { fs::rename(path, &backup)? }
ShelvePrimary ==
    /\ pc = "shelve"
    /\ \/ /\ Exists(primary)
          /\ backup' = primary
          /\ primary' = NoFile
          /\ Goto("replace")
       \/ /\ Exists(primary)
          /\ "shelve" \in Faults
          /\ RollBack
          /\ UNCHANGED <<primary, backup>>
       \/ /\ ~Exists(primary)
          /\ Goto("replace")
          /\ UNCHANGED <<primary, backup>>
    /\ UNCHANGED temp

\* Bug: the result of the rename is not looked at.
ReplaceUnchecked ==
    /\ pc = "replace"
    /\ \/ primary' = temp /\ temp' = NoFile
       \/ "replace" \in Faults /\ UNCHANGED <<primary, temp>>
    /\ IF Windows THEN Goto("sweep") ELSE Answer
    /\ UNCHANGED backup

\* fs::rename(&temp, path)
ReplacePrimary ==
    /\ pc = "replace"
    /\ \/ /\ primary' = temp
          /\ temp' = NoFile
          /\ IF Windows THEN Goto("sweep") ELSE Answer
       \/ /\ "replace" \in Faults
          /\ IF Windows THEN Goto("unshelve") ELSE RollBack
          /\ UNCHANGED <<primary, temp>>
    /\ UNCHANGED backup

\* Bug: a backup that cannot be removed counts as a failed save, and is put back.
SweepOrUndo ==
    /\ pc = "sweep"
    /\ \/ backup' = NoFile /\ Answer /\ UNCHANGED primary
       \/ "sweep" \in Faults /\ primary' = backup /\ backup' = NoFile /\ RollBack
    /\ UNCHANGED temp

\* let _ = fs::remove_file(backup); Ok(())
SweepBackup ==
    /\ pc = "sweep"
    /\ \/ backup' = NoFile
       \/ "sweep" \in Faults /\ backup' = backup
    /\ Answer
    /\ UNCHANGED <<primary, temp>>

\* let _ = fs::rename(&backup, path); Err(..)
UnshelveBackup ==
    /\ pc = "unshelve"
    /\ \/ /\ Exists(backup)
          /\ primary' = backup
          /\ backup' = NoFile
       \/ /\ Exists(backup) => "unshelve" \in Faults
          /\ UNCHANGED <<primary, backup>>
    /\ RollBack
    /\ UNCHANGED temp

-----------------------------------------------------------------------------
(* Crash and restart.                                                       *)

\* The process dies; fs::write may have left any prefix of the temp file.
Crash ==
    /\ pc # "down"
    /\ pc' = "down"
    /\ temp' \in IF pc = "write" THEN {temp, Torn, mem} ELSE {temp}
    /\ UNCHANGED <<primary, backup, mem, previous, acked, versions>>

\* Bug: load() does not look at the backup.
LoadWithoutBackup ==
    /\ pc = "down"
    /\ primary # Torn
    /\ mem' = IF Exists(primary) THEN primary ELSE Default
    /\ acked' = mem'
    /\ pc' = "idle"
    /\ UNCHANGED <<files, previous, versions>>

\* load(): AppState::load panics on Err, so a torn file keeps the relay down.
Load ==
    /\ pc = "down"
    /\ Recovered # Torn
    /\ mem' = Recovered
    /\ acked' = Recovered
    /\ pc' = "idle"
    /\ \/ /\ ~Exists(primary) /\ Exists(backup)
          /\ primary' = backup
          /\ backup' = NoFile
       \/ /\ (~Exists(primary) /\ Exists(backup)) => "adopt" \in Faults
          /\ UNCHANGED <<primary, backup>>
    /\ UNCHANGED <<temp, previous, versions>>

Init ==
    /\ primary = NoFile
    /\ backup = NoFile
    /\ temp = NoFile
    /\ pc = "idle"
    /\ mem = Default
    /\ previous = Default
    /\ acked = Default
    /\ versions = 0

Next ==
    \/ Mutate
    \/ WriteTemp
    \/ WipeBackup
    \/ ShelvePrimary
    \/ ReplacePrimary
    \/ SweepBackup
    \/ UnshelveBackup
    \/ Crash
    \/ Load

Spec == Init /\ [][Next]_vars

-----------------------------------------------------------------------------
(* Properties.                                                              *)

\* Every variable has its type.
TypeOK ==
    /\ primary \in File
    /\ backup \in File
    /\ temp \in File
    /\ pc \in {"down", "idle"} \cup Saving
    /\ mem \in Content
    /\ previous \in Content
    /\ acked \in Content
    /\ versions \in Content

\* Whenever the process may die, load() finds either the last version a
\* client was told is saved or the one save() was writing: never an older
\* one, never a torn file, never an empty registry in place of a saved one.
CrashSafe ==
    Recovered \in {acked, mem}

\* Between two handlers the registry in memory is the one on disk, also after
\* a failed save: the handlers' rollback and save()'s own undo agree.
IdleDurable ==
    pc = "idle" => mem = acked /\ Recovered = mem

\* A version a client was told is saved is never replaced by an older one,
\* across any number of failed saves, crashes and restarts.
AckedNeverRegresses == [][acked' >= acked]_vars

\* The three files with their six steps behave like one stored value that
\* changes at once: what load() would find is that value.
Durable == INSTANCE DurableRegistry WITH
    Values <- Content, Empty <- Default, stored <- Recovered, memory <- mem, told <- acked,
    phase <- IF pc \in Saving THEN "saving" ELSE pc

\* save(), the handlers' rollback and load() implement the durable registry:
\* success is answered only for what a restart finds, failure only for what it
\* does not, and nothing else is ever found.
ImplementsDurable == Durable!Spec

=============================================================================
