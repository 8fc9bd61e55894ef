-------------------------------- MODULE Backup --------------------------------
(***************************************************************************)
(* core/preset/backup.cpp and core/preset/atomic_write.cpp: the versions   *)
(* kept of one preset, each written to a temporary file that is synced and *)
(* renamed, with the process ending or the power failing between any two   *)
(* file operations and any of them failing.                                *)
(*                                                                         *)
(* The file system (external): changes of the directory reach the disk in  *)
(* order, at the latest when the directory is synced; a file's data is     *)
(* safe once the file is synced and may be incomplete before.  Contents    *)
(* are the numbers of the saves that wrote them.                           *)
(***************************************************************************)
EXTENDS Naturals, FiniteSets, FiniteSetsExt

CONSTANTS
  MaxVersions,  \* maxVersions_
  MaxSaves      \* bound: calls of save in a behaviour

ASSUME BackupAssumption == MaxVersions \in Nat \ {0} /\ MaxSaves \in Nat

VARIABLES
  dir,        \* the directory: the save that wrote the file of each name
  mayFind,    \* the directories a loss of power may leave behind
  complete,   \* saves whose data is all in the file
  synced,     \* saves whose file was synced
  pc,         \* where save and writeAtomically are
  saves,      \* calls of save so far, the content of the current one
  next,       \* save: the version it writes
  all,        \* save: the names versions() found after the write
  onDisk,     \* whether the directory was synced in this call
  durable,    \* the last save that reported success and was synced
  before      \* the contents there were when save was called

fileVars == <<dir, mayFind, complete, synced>>
localVars == <<saves, next, all, onDisk>>
vars == <<fileVars, pc, localVars, durable, before>>

Version(v) == [version |-> v, temp |-> FALSE]     \* v<v>.json
Temp(v)    == [version |-> v, temp |-> TRUE]      \* v<v>.json.tmp
Json(d) == {n \in DOMAIN d : ~n.temp}
Contents(d) == {d[n] : n \in Json(d)}
Without(d, n) == [m \in DOMAIN d \ {n} |-> d[m]]
With(d, n, c) == [m \in DOMAIN d \cup {n} |-> IF m = n THEN c ELSE d[m]]
NoFile == [n \in {} |-> 0]

Init ==
  /\ dir = NoFile /\ mayFind = {dir}
  /\ complete = {} /\ synced = {}
  /\ pc = "idle" /\ saves = 0 /\ next = 1 /\ all = {}
  /\ onDisk = FALSE /\ durable = 0 /\ before = {}

\* Every change of the directory may be on the disk from now on, or not yet.
ChangeDir(d) == dir' = d /\ mayFind' = mayFind \cup {d}

-----------------------------------------------------------------------------
(***************************************************************************)
(* save and, from OpenTemp to Verify, writeAtomically                      *)
(***************************************************************************)
\* versions() takes the stem up to the last dot and reads the number it starts
\* with, so the temporary file of a version counts as that version.
NextVersionByCount(d) == Cardinality(DOMAIN d) + 1      \* deviation
NextVersion(d) ==
  IF DOMAIN d = {} THEN 1 ELSE Max({n.version : n \in DOMAIN d}) + 1

SaveBegin ==
  /\ pc = "idle" /\ saves < MaxSaves
  /\ pc' = "open"
  /\ saves' = saves + 1 /\ next' = NextVersion(dir)
  /\ before' = Contents(dir) /\ onDisk' = FALSE
  /\ UNCHANGED <<fileVars, all, durable>>

OpenTemp ==
  /\ pc = "open"
  /\ pc' = "write"
  /\ ChangeDir(With(dir, Temp(next), saves))
  /\ UNCHANGED <<complete, synced, localVars, durable, before>>

WriteTemp ==
  /\ pc = "write"
  /\ pc' = "sync"
  /\ complete' = complete \cup {saves}
  /\ UNCHANGED <<dir, mayFind, synced, localVars, durable, before>>

SyncTemp ==
  /\ pc = "sync"
  /\ pc' = "rename"
  /\ synced' = synced \cup {saves}
  /\ UNCHANGED <<dir, mayFind, complete, localVars, durable, before>>

RenameTemp ==
  /\ pc = "rename"
  /\ pc' = "syncDir"
  /\ ChangeDir(With(Without(dir, Temp(next)), Version(next), saves))
  /\ UNCHANGED <<complete, synced, localVars, durable, before>>

\* A step of writeAtomically up to the rename failed: remove the temporary
\* file and return false, without looking whether that worked.
GiveUp ==
  /\ pc \in {"open", "write", "sync", "rename"}
  /\ pc' = "idle"
  /\ \/ ChangeDir(Without(dir, Temp(next)))
     \/ UNCHANGED <<dir, mayFind>>
  /\ UNCHANGED <<complete, synced, localVars, durable, before>>

SyncDirectoryNot ==      \* deviation: does nothing and is trusted
  /\ pc = "syncDir"
  /\ pc' = "verify" /\ onDisk' = TRUE
  /\ UNCHANGED <<fileVars, saves, next, all, durable, before>>

SyncDirectory ==         \* whether it worked is not asked
  /\ pc = "syncDir"
  /\ pc' = "verify"
  /\ \/ mayFind' = {dir} /\ onDisk' = TRUE
     \/ UNCHANGED <<mayFind, onDisk>>
  /\ UNCHANGED <<dir, complete, synced, saves, next, all, durable, before>>

Verify ==                \* reads the file back; if that fails, save fails
  /\ pc = "verify"
  /\ \/ pc' = "prune" /\ all' = DOMAIN dir
     \/ pc' = "idle" /\ UNCHANGED all
  /\ UNCHANGED <<fileVars, saves, next, onDisk, durable, before>>

Oldest(names) == {n \in names : \A m \in names : n.version <= m.version}

PruneOneMore ==          \* deviation: prunes one version too many
  /\ pc = "prune" /\ Cardinality(all) >= MaxVersions
  /\ \E n \in Oldest(all) :
       /\ all' = all \ {n}
       /\ ChangeDir(Without(dir, Version(n.version)))
  /\ UNCHANGED <<complete, synced, pc, saves, next, onDisk, durable, before>>

PruneOldest ==           \* a file that cannot be removed stays
  /\ pc = "prune" /\ Cardinality(all) > MaxVersions
  /\ \E n \in Oldest(all) :
       /\ all' = all \ {n}
       /\ \/ ChangeDir(Without(dir, Version(n.version)))
          \/ UNCHANGED <<dir, mayFind>>
  /\ UNCHANGED <<complete, synced, pc, saves, next, onDisk, durable, before>>

SaveReturn ==
  /\ pc = "prune" /\ Cardinality(all) <= MaxVersions
  /\ pc' = "done"
  /\ durable' = IF onDisk THEN saves ELSE durable
  /\ UNCHANGED <<fileVars, localVars, before>>

Rest == pc = "done" /\ pc' = "idle" /\ UNCHANGED <<fileVars, localVars, durable, before>>

-----------------------------------------------------------------------------
Crash ==                 \* the process ends; the files stay as they are
  /\ pc \notin {"idle", "done"}
  /\ pc' = "idle"
  /\ UNCHANGED <<fileVars, localVars, durable, before>>

PowerLoss ==             \* data that was not synced may be gone
  /\ pc' = "idle"
  /\ dir' \in mayFind /\ mayFind' = {dir'}
  /\ \E lost \in SUBSET (complete \ synced) : complete' = complete \ lost
  /\ UNCHANGED <<synced, localVars, durable, before>>

WriteAtomically == OpenTemp \/ WriteTemp \/ SyncTemp \/ RenameTemp \/ GiveUp
                   \/ SyncDirectory \/ Verify
Next == SaveBegin \/ WriteAtomically \/ PruneOldest \/ SaveReturn \/ Rest
        \/ Crash \/ PowerLoss
Spec == Init /\ [][Next]_vars

-----------------------------------------------------------------------------
(***************************************************************************)
(* Properties                                                              *)
(***************************************************************************)
Names == [version : Nat \ {0}, temp : BOOLEAN]
IsDir(d) == DOMAIN d \in SUBSET Names /\ \A n \in DOMAIN d : d[n] \in 1 .. saves
TypeOK ==
  /\ saves \in 0 .. MaxSaves /\ next \in Nat \ {0}
  /\ IsDir(dir) /\ \A d \in mayFind : IsDir(d)
  /\ complete \in SUBSET (1 .. saves) /\ synced \in SUBSET (1 .. saves)
  /\ before \in SUBSET (1 .. saves) /\ all \in SUBSET Names
  /\ onDisk \in BOOLEAN /\ durable \in 0 .. saves
  /\ pc \in {"idle", "open", "write", "sync", "rename", "syncDir", "verify",
             "prune", "done"}

\* A version is complete and on the disk under its name, before and after any
\* crash and any loss of power (writeFile, writeAtomically): restore never finds
\* half a preset.
NeverTorn ==
  \A d \in mayFind \cup {dir} : Contents(d) \subseteq complete \cap synced

BackupInv == TypeOK /\ NeverTorn

\* Versions are added in order, the newest is never dropped, and a loss of power
\* undoes only what was not yet synced.
Versions(d) == [v \in {n.version : n \in Json(d)} |-> d[Version(v)]]
Store == INSTANCE BackupStore WITH Numbers <- 1 .. MaxSaves,
           store <- Versions(dir), mayFind <- {Versions(d) : d \in mayFind}
ImplementsStore == Store!StoreSpec

\* Once save has reported success and the directory was synced, that content or
\* a newer one can be restored for ever, whatever fails afterwards.
LastBackupSurvives ==
  durable > 0 => \A d \in mayFind \cup {dir} : \E c \in Contents(d) : c >= durable

\* What a user of the backups relies on: what is found is whole, and what was saved
\* is found.
BackupSafety == BackupInv /\ LastBackupSurvives

\* A save that ran to its end has dropped nothing but what is over the limit;
\* each temporary file that a crash left behind costs one version.
Newer(c, contents) == {b \in contents : b > c}
KeepsTheNewest ==
  pc = "done" =>
    LET temps == Cardinality(DOMAIN dir \ Json(dir))
    IN \A c \in before \cup {saves} :
         Cardinality(Newer(c, before \cup {saves})) + temps < MaxVersions
           => c \in Contents(dir)
=============================================================================
