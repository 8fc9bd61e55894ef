------------------------------ MODULE PartsProofs ------------------------------
(***************************************************************************)
(* What is proved of the parts that share no state, part by part, for any  *)
(* values of their constants: the backups, the scenes, the allocation      *)
(* guard, the settings file, the pitch shifter, the amplifier, the tuner,  *)
(* the delays, the cabinet.  The presets are in PresetProofs.              *)
(***************************************************************************)
EXTENDS Parts, FiniteSetTheorems, WellFoundedInduction, TLAPS

\* A set of numbers has a smallest one, and one with a bound a largest one.
LEMMA LeastIn ==
  ASSUME NEW S \in SUBSET Nat, S # {}
  PROVE  \E x \in S : \A y \in S : x <= y
<1> DEFINE R == {ss \in Nat \X Nat : ss[1] < ss[2]}
<1>1. PICK x \in S : \A y \in S : ~(<<y, x>> \in R)
  <2>1. IsWellFoundedOn(R, Nat)
    BY NatLessThanWellFounded DEF OpToRel
  <2> HIDE DEF R
  <2> QED
    BY <2>1, WFMin
<1>2. ASSUME NEW y \in S PROVE x <= y
  <2>1. y \in Nat /\ x \in Nat /\ <<y, x>> \in Nat \X Nat
    BY <1>2
  <2>2. <<y, x>> \notin R
    BY <1>1, <1>2
  <2>3. ~(y < x)
    BY <2>1, <2>2
  <2> QED
    BY <2>1, <2>3
<1> QED
  BY <1>2

LEMMA GreatestIn ==
  ASSUME NEW S \in SUBSET Nat, S # {}, NEW b \in Nat, \A x \in S : x <= b
  PROVE  \E x \in S : \A y \in S : x >= y
<1> DEFINE U == {u \in Nat : \A x \in S : x <= u}
<1>1. U \in SUBSET Nat /\ b \in U
  OBVIOUS
<1>2. PICK u \in U : \A v \in U : u <= v
  <2> HIDE DEF U
  <2> QED
    BY <1>1, LeastIn
<1>3. u \in S
  <2> SUFFICES ASSUME u \notin S PROVE FALSE
    OBVIOUS
  <2>1. \A x \in S : x < u
    OBVIOUS
  <2>2. u \in Nat /\ u # 0
    <3>1. PICK x \in S : x < u
      BY <2>1
    <3> QED
      BY <3>1
  <2>3. u - 1 \in U
    BY <2>1, <2>2
  <2> QED
    BY <2>2, <2>3, <1>2
<1> QED
  BY <1>3

(***************************************************************************)
(* Backup: no version is ever found torn, what was saved and synced can be *)
(* restored for ever, and the backups implement the store they promise.    *)
(***************************************************************************)
USE BackupAssumption

(* Names and directories *)

\* A set of numbers with a bound has a largest.
LEMMA MaxExists ==
  ASSUME NEW S \in SUBSET Nat, S # {}, NEW b \in Nat, \A x \in S : x <= b
  PROVE  Max(S) \in S /\ \A x \in S : x <= Max(S)
<1>1. \E x \in S : \A y \in S : x >= y
  BY GreatestIn
<1> QED
  BY <1>1 DEF Max

LEMMA NamesDiffer ==
  /\ \A v \in Nat \ {0} : Version(v) \in Names /\ Temp(v) \in Names
  /\ \A v : Version(v).version = v /\ ~Version(v).temp
  /\ \A v : Temp(v).version = v /\ Temp(v).temp
  /\ \A n \in Names : n.version \in Nat \ {0}
  /\ \A n \in Names : ~n.temp => n = Version(n.version)
  /\ \A n \in Names : n.temp => n = Temp(n.version)
BY DEF Names, Version, Temp

LEMMA WithIs ==
  ASSUME NEW d, NEW n, NEW c
  PROVE  /\ DOMAIN With(d, n, c) = DOMAIN d \cup {n}
         /\ With(d, n, c)[n] = c
         /\ \A m \in DOMAIN d : m # n => With(d, n, c)[m] = d[m]
BY DEF With

LEMMA WithoutIs ==
  ASSUME NEW d, NEW n
  PROVE  /\ DOMAIN Without(d, n) = DOMAIN d \ {n}
         /\ \A m \in DOMAIN d \ {n} : Without(d, n)[m] = d[m]
BY DEF Without

\* Leaving out a temporary file, or adding one, leaves the versions alone.
LEMMA TempIsNoVersion ==
  ASSUME NEW d, DOMAIN d \in SUBSET Names, NEW v \in Nat \ {0}, NEW c
  PROVE  /\ Json(With(d, Temp(v), c)) = Json(d)
         /\ Json(Without(d, Temp(v))) = Json(d)
         /\ \A n \in Json(d) : /\ With(d, Temp(v), c)[n] = d[n]
                               /\ Without(d, Temp(v))[n] = d[n]
<1>1. \A n \in Json(d) : n # Temp(v) /\ n \in DOMAIN d
  BY NamesDiffer DEF Json
<1>2. Json(With(d, Temp(v), c)) = Json(d)
  <2>1. DOMAIN With(d, Temp(v), c) = DOMAIN d \cup {Temp(v)}
    BY WithIs
  <2>2. Temp(v).temp
    BY NamesDiffer
  <2> QED
    BY <2>1, <2>2 DEF Json
<1>3. Json(Without(d, Temp(v))) = Json(d)
  <2>1. DOMAIN Without(d, Temp(v)) = DOMAIN d \ {Temp(v)}
    BY WithoutIs
  <2>2. Temp(v).temp
    BY NamesDiffer
  <2> QED
    BY <2>1, <2>2 DEF Json
<1>4. \A n \in Json(d) : With(d, Temp(v), c)[n] = d[n]
  <2> DEFINE t == Temp(v)
  <2>1. \A n \in Json(d) : n # t /\ n \in DOMAIN d
    BY <1>1
  <2> HIDE DEF t
  <2>2. ASSUME NEW m \in DOMAIN d, m # t PROVE With(d, t, c)[m] = d[m]
    BY <2>2 DEF With
  <2>3. \A n \in Json(d) : With(d, t, c)[n] = d[n]
    BY <2>1, <2>2
  <2> QED
    BY <2>3 DEF t
<1>5. \A n \in Json(d) : Without(d, Temp(v))[n] = d[n]
  BY <1>1, WithoutIs
<1> QED
  BY <1>2, <1>3, <1>4, <1>5

\* The next version is above all there is.
LEMMA NextIsNew ==
  ASSUME TypeOK, \A n \in DOMAIN dir : n.version <= saves
  PROVE  /\ NextVersion(dir) \in Nat \ {0} /\ NextVersion(dir) <= saves + 1
         /\ \A n \in DOMAIN dir : n.version < NextVersion(dir)
<1>1. saves \in Nat /\ DOMAIN dir \in SUBSET Names
  BY DEF TypeOK, IsDir
<1>2. CASE DOMAIN dir = {}
  BY <1>1, <1>2 DEF NextVersion
<1>3. CASE DOMAIN dir # {}
  <2> DEFINE S == {n.version : n \in DOMAIN dir}
  <2>1. S \in SUBSET Nat /\ S # {} /\ \A x \in S : x <= saves
    BY <1>1, <1>3, NamesDiffer
  <2>2. Max(S) \in S /\ \A x \in S : x <= Max(S)
    BY <2>1, <1>1, MaxExists
  <2>3. NextVersion(dir) = Max(S) + 1
    BY <1>3 DEF NextVersion
  <2>4. \A n \in DOMAIN dir : n.version \in S
    OBVIOUS
  <2>5. Max(S) \in Nat /\ Max(S) <= saves
    BY <2>1, <2>2
  <2> HIDE DEF S
  <2>6. \A n \in DOMAIN dir : n.version \in Nat
    BY <2>1, <2>4
  <2> QED
    BY <2>2, <2>3, <2>4, <2>5, <2>6, <1>1
<1> QED
  BY <1>2, <1>3

(* The inductive invariant *)

Writing == {"open", "write", "sync", "rename"}
Renamed == {"syncDir", "verify", "prune"}

Numbered ==
  dir \in mayFind /\ \A d \in mayFind : \A n \in DOMAIN d : n.version <= saves

\* While it is written, the new version is above all others.
WritesNew ==
  pc \in Writing =>
    /\ next <= saves
    /\ \A n \in DOMAIN dir : n.version < next \/ n = Temp(next)
    /\ \A n \in Json(dir) : dir[n] < saves

SyncedFirst ==
  /\ pc \in {"sync", "rename"} => saves \in complete
  /\ pc = "rename" => saves \in synced

\* Once renamed, it is there, and no name is above it.
NewestThere ==
  pc \in Renamed =>
    /\ Version(next) \in DOMAIN dir /\ dir[Version(next)] = saves /\ next <= saves
    /\ \A n \in DOMAIN dir : n.version <= next /\ n # Temp(next)

OnDiskMeans ==
  /\ pc \in Writing \cup {"syncDir"} => ~onDisk
  /\ pc \in {"verify", "prune"} /\ onDisk =>
       \A d \in mayFind : Version(next) \in DOMAIN d /\ d[Version(next)] = saves

PruneKeeps == pc = "prune" => \A n \in all : n.version <= next /\ n # Temp(next)

IInv == /\ TypeOK /\ NeverTorn /\ LastBackupSurvives /\ Numbered /\ WritesNew
        /\ SyncedFirst /\ NewestThere /\ OnDiskMeans /\ PruneKeeps

LEMMA InitSafe == Init => IInv
<1> SUFFICES ASSUME Init PROVE IInv
  OBVIOUS
<1>1. DOMAIN dir = {} /\ Json(dir) = {} /\ mayFind = {dir}
  <2>1. DOMAIN dir = {} /\ mayFind = {dir}
    BY DEF Init, NoFile
  <2> QED
    BY <2>1 DEF Json
<1>2. TypeOK
  <2>1. IsDir(dir) /\ \A d \in mayFind : IsDir(d)
    BY <1>1 DEF IsDir
  <2>2. saves \in 0 .. MaxSaves /\ durable \in 0 .. saves /\ next \in Nat \ {0}
    BY DEF Init
  <2> QED
    BY <2>1, <2>2 DEF Init, TypeOK
<1>3. NeverTorn /\ LastBackupSurvives /\ Numbered
  BY <1>1 DEF Init, NeverTorn, Contents, LastBackupSurvives, Numbered
<1> QED
  BY <1>2, <1>3
  DEF Init, IInv, WritesNew, SyncedFirst, NewestThere, OnDiskMeans, PruneKeeps,
      Writing, Renamed

LEMMA SaveBeginSafe ==
  ASSUME IInv, SaveBegin
  PROVE  IInv'
<1> DEFINE v == NextVersion(dir)
<1>1. /\ TypeOK /\ Numbered /\ saves \in Nat /\ saves' = saves + 1 /\ saves < MaxSaves
      /\ dir' = dir /\ mayFind' = mayFind /\ complete' = complete /\ synced' = synced
      /\ pc' = "open" /\ next' = v /\ ~onDisk' /\ durable' = durable /\ all' = all
  BY DEF IInv, SaveBegin, TypeOK, fileVars
<1>2. /\ v \in Nat \ {0} /\ v <= saves + 1 /\ \A n \in DOMAIN dir : n.version < v
  BY <1>1, NextIsNew DEF Numbered
<1> HIDE DEF v
<1>3. IsDir(dir)
  BY <1>1 DEF TypeOK
<1>4. TypeOK'
  <2>1. before' \in SUBSET (1 .. saves')
    BY <1>1, <1>3 DEF SaveBegin, Contents, Json, IsDir
  <2>2. IsDir(dir)' /\ \A d \in mayFind : IsDir(d)'
    BY <1>1 DEF TypeOK, IsDir
  <2>3. onDisk' \in BOOLEAN
    BY DEF SaveBegin
  <2> QED
    BY <1>1, <1>2, <2>1, <2>2, <2>3 DEF TypeOK
<1>5. NeverTorn' /\ LastBackupSurvives' /\ SyncedFirst' /\ PruneKeeps'
  BY <1>1 DEF IInv, NeverTorn, LastBackupSurvives, SyncedFirst, PruneKeeps
<1>6. Numbered'
  BY <1>1, NamesDiffer DEF Numbered, TypeOK, IsDir
<1>7. WritesNew' /\ NewestThere' /\ OnDiskMeans'
  BY <1>1, <1>2, <1>3
  DEF WritesNew, NewestThere, OnDiskMeans, Writing, Renamed, Json, IsDir
<1> QED
  BY <1>4, <1>5, <1>6, <1>7 DEF IInv

LEMMA WriteTempSafe ==
  ASSUME IInv, WriteTemp
  PROVE  IInv'
<1>1. /\ pc = "write" /\ pc' = "sync" /\ complete' = complete \cup {saves}
      /\ UNCHANGED <<dir, mayFind, synced, saves, next, all, onDisk, durable, before>>
  BY DEF WriteTemp, localVars
<1>2. saves \in 1 .. saves
  BY <1>1 DEF IInv, TypeOK, WritesNew, Writing
<1>3. TypeOK'
  BY <1>1, <1>2 DEF IInv, TypeOK, IsDir
<1>4. NeverTorn' /\ LastBackupSurvives' /\ Numbered'
  BY <1>1 DEF IInv, NeverTorn, LastBackupSurvives, Numbered
<1>5. WritesNew' /\ SyncedFirst' /\ NewestThere' /\ OnDiskMeans' /\ PruneKeeps'
  BY <1>1 DEF IInv, WritesNew, SyncedFirst, NewestThere, OnDiskMeans, PruneKeeps,
              Writing, Renamed
<1> QED
  BY <1>3, <1>4, <1>5 DEF IInv

LEMMA SyncTempSafe ==
  ASSUME IInv, SyncTemp
  PROVE  IInv'
<1>1. /\ pc = "sync" /\ pc' = "rename" /\ synced' = synced \cup {saves}
      /\ UNCHANGED <<dir, mayFind, complete, saves, next, all, onDisk, durable, before>>
  BY DEF SyncTemp, localVars
<1>2. saves \in 1 .. saves
  BY <1>1 DEF IInv, TypeOK, WritesNew, Writing
<1>3. TypeOK'
  BY <1>1, <1>2 DEF IInv, TypeOK, IsDir
<1>4. NeverTorn' /\ LastBackupSurvives' /\ Numbered'
  BY <1>1 DEF IInv, NeverTorn, LastBackupSurvives, Numbered
<1>5. WritesNew' /\ SyncedFirst' /\ NewestThere' /\ OnDiskMeans' /\ PruneKeeps'
  BY <1>1 DEF IInv, WritesNew, SyncedFirst, NewestThere, OnDiskMeans, PruneKeeps,
              Writing, Renamed
<1> QED
  BY <1>3, <1>4, <1>5 DEF IInv

\* What the directory becomes must be typed, complete, and hold what is durable.
LEMMA ChangeDirSafe ==
  ASSUME IInv, NEW d, ChangeDir(d), UNCHANGED <<complete, synced, saves, durable>>,
         IsDir(d), \A n \in DOMAIN d : n.version <= saves,
         Contents(d) \subseteq complete \cap synced,
         durable > 0 => \E c \in Contents(d) : c >= durable
  PROVE  /\ NeverTorn' /\ LastBackupSurvives' /\ Numbered'
         /\ IsDir(dir)' /\ (\A e \in mayFind : IsDir(e))'
<1>1. dir' = d /\ mayFind' = mayFind \cup {d}
  BY DEF ChangeDir
<1>2. IsDir(dir)' /\ (\A e \in mayFind : IsDir(e))'
  BY <1>1 DEF IInv, TypeOK, IsDir
<1>3. NeverTorn' /\ LastBackupSurvives' /\ Numbered'
  BY <1>1 DEF IInv, NeverTorn, LastBackupSurvives, Numbered
<1> QED
  BY <1>2, <1>3

LEMMA TempKeepsContents ==
  ASSUME NEW d, IsDir(d), NEW v \in Nat \ {0}, NEW c
  PROVE  Contents(With(d, Temp(v), c)) = Contents(d) /\ Contents(Without(d, Temp(v))) = Contents(d)
<1>1. DOMAIN d \in SUBSET Names
  BY DEF IsDir
<1>2. /\ Json(With(d, Temp(v), c)) = Json(d)
      /\ Json(Without(d, Temp(v))) = Json(d)
      /\ \A n \in Json(d) : With(d, Temp(v), c)[n] = d[n] /\ Without(d, Temp(v))[n] = d[n]
  BY <1>1, TempIsNoVersion
<1> QED
  BY <1>2 DEF Contents

LEMMA OpenTempSafe ==
  ASSUME IInv, OpenTemp
  PROVE  IInv'
<1> DEFINE d == With(dir, Temp(next), saves)
<1>1. /\ pc = "open" /\ pc' = "write" /\ ChangeDir(d)
      /\ UNCHANGED <<complete, synced, saves, next, all, onDisk, durable, before>>
  BY DEF OpenTemp, localVars
<1>2. /\ TypeOK /\ IsDir(dir) /\ next \in Nat \ {0} /\ next <= saves /\ saves \in Nat
      /\ \A n \in DOMAIN dir : n.version <= saves
  BY <1>1 DEF IInv, TypeOK, WritesNew, Writing, Numbered
<1>3. DOMAIN d = DOMAIN dir \cup {Temp(next)} /\ d[Temp(next)] = saves
      /\ \A m \in DOMAIN dir : m # Temp(next) => d[m] = dir[m]
  <2>1. ASSUME NEW m \in DOMAIN dir, m # Temp(next) PROVE d[m] = dir[m]
    BY <2>1 DEF With
  <2>2. DOMAIN d = DOMAIN dir \cup {Temp(next)} /\ d[Temp(next)] = saves
    BY DEF With
  <2> QED
    BY <2>1, <2>2
<1>4. Temp(next) \in Names /\ Temp(next).version = next
  BY <1>2, NamesDiffer
<1>5. IsDir(d) /\ \A n \in DOMAIN d : n.version <= saves
  BY <1>2, <1>3, <1>4 DEF IsDir
<1>6. Contents(d) = Contents(dir)
  BY <1>2, TempKeepsContents
<1>a. Json(d) = Json(dir) /\ \A n \in Json(d) : d[n] = dir[n]
  BY <1>2, TempIsNoVersion DEF IsDir
<1> HIDE DEF d
<1>7. /\ NeverTorn' /\ LastBackupSurvives' /\ Numbered'
      /\ IsDir(dir)' /\ (\A e \in mayFind : IsDir(e))'
  BY <1>1, <1>5, <1>6, ChangeDirSafe DEF IInv, NeverTorn, LastBackupSurvives
<1>8. TypeOK'
  BY <1>1, <1>2, <1>7 DEF TypeOK
<1>9. WritesNew'
  BY <1>1, <1>3, <1>a DEF IInv, WritesNew, Writing, ChangeDir
<1>10. SyncedFirst' /\ NewestThere' /\ OnDiskMeans' /\ PruneKeeps'
  BY <1>1 DEF IInv, SyncedFirst, NewestThere, OnDiskMeans, PruneKeeps, Writing, Renamed
<1> QED
  BY <1>7, <1>8, <1>9, <1>10 DEF IInv

LEMMA RenameTempSafe ==
  ASSUME IInv, RenameTemp
  PROVE  IInv'
<1> DEFINE e == Without(dir, Temp(next))
           d == With(e, Version(next), saves)
<1>1. /\ pc = "rename" /\ pc' = "syncDir" /\ ChangeDir(d)
      /\ UNCHANGED <<complete, synced, saves, next, all, onDisk, durable, before>>
  BY DEF RenameTemp, localVars
<1>2. /\ TypeOK /\ IsDir(dir) /\ next \in Nat \ {0} /\ next <= saves /\ saves \in Nat
      /\ \A n \in DOMAIN dir : n.version <= saves
      /\ \A n \in DOMAIN dir : n.version < next \/ n = Temp(next)
      /\ saves \in complete \cap synced
  BY <1>1 DEF IInv, TypeOK, WritesNew, Writing, Numbered, SyncedFirst
<1>3. /\ Version(next) \in Names /\ Version(next).version = next /\ ~Version(next).temp
      /\ Version(next) # Temp(next)
  BY <1>2, NamesDiffer
<1>4. DOMAIN e = DOMAIN dir \ {Temp(next)} /\ \A m \in DOMAIN e : e[m] = dir[m]
  BY WithoutIs
<1>5. /\ DOMAIN d = DOMAIN e \cup {Version(next)} /\ d[Version(next)] = saves
      /\ \A m \in DOMAIN e : m # Version(next) => d[m] = e[m]
  <2>1. ASSUME NEW m \in DOMAIN e, m # Version(next) PROVE d[m] = e[m]
    BY <2>1 DEF With
  <2>2. DOMAIN d = DOMAIN e \cup {Version(next)} /\ d[Version(next)] = saves
    BY DEF With
  <2> QED
    BY <2>1, <2>2
<1> HIDE DEF e, d
<1>6. Version(next) \notin DOMAIN e
  BY <1>2, <1>3, <1>4
<1>7. IsDir(d) /\ \A n \in DOMAIN d : n.version <= saves
  BY <1>2, <1>3, <1>4, <1>5 DEF IsDir
<1>8. Json(d) = Json(e) \cup {Version(next)} /\ Json(e) = Json(dir)
  <2>1. Json(e) = Json(dir)
    BY <1>2, TempIsNoVersion DEF IsDir, e
  <2> QED
    BY <1>3, <1>5, <2>1 DEF Json
<1>9. Contents(d) = Contents(dir) \cup {saves}
  <2>1. \A n \in Json(dir) : n \in DOMAIN e /\ d[n] = dir[n]
    BY <1>4, <1>5, <1>6, <1>8 DEF Json
  <2> QED
    BY <2>1, <1>5, <1>8 DEF Contents
<1>10. /\ NeverTorn' /\ LastBackupSurvives' /\ Numbered'
       /\ IsDir(dir)' /\ (\A f \in mayFind : IsDir(f))'
  BY <1>1, <1>2, <1>7, <1>9, ChangeDirSafe DEF IInv, NeverTorn, LastBackupSurvives
<1>11. TypeOK'
  BY <1>1, <1>2, <1>10 DEF TypeOK
<1>12. NewestThere'
  <2>1. dir' = d
    BY <1>1 DEF ChangeDir
  <2>2. \A n \in DOMAIN d : n.version <= next /\ n # Temp(next)
    BY <1>2, <1>3, <1>4, <1>5, NamesDiffer DEF IsDir
  <2> QED
    BY <1>1, <1>2, <1>5, <2>1, <2>2 DEF NewestThere
<1>13. WritesNew' /\ SyncedFirst' /\ OnDiskMeans' /\ PruneKeeps'
  BY <1>1 DEF IInv, WritesNew, SyncedFirst, OnDiskMeans, PruneKeeps, Writing
<1> QED
  BY <1>10, <1>11, <1>12, <1>13 DEF IInv

LEMMA GiveUpSafe ==
  ASSUME IInv, GiveUp
  PROVE  IInv'
<1>1. /\ pc \in Writing /\ pc' = "idle"
      /\ UNCHANGED <<complete, synced, saves, next, all, onDisk, durable, before>>
  BY DEF GiveUp, localVars, Writing
<1>2. TypeOK /\ IsDir(dir) /\ next \in Nat \ {0}
  BY DEF IInv, TypeOK
<1>3. WritesNew' /\ SyncedFirst' /\ NewestThere' /\ OnDiskMeans' /\ PruneKeeps'
  BY <1>1 DEF WritesNew, SyncedFirst, NewestThere, OnDiskMeans, PruneKeeps,
              Writing, Renamed
<1>4. CASE ChangeDir(Without(dir, Temp(next)))
  <2> DEFINE d == Without(dir, Temp(next))
  <2>1. DOMAIN d = DOMAIN dir \ {Temp(next)} /\ \A m \in DOMAIN d : d[m] = dir[m]
    BY WithoutIs
  <2>2. IsDir(d) /\ \A n \in DOMAIN d : n.version <= saves
    BY <1>2, <2>1 DEF IsDir, IInv, Numbered
  <2>3. Contents(d) = Contents(dir)
    BY <1>2, TempKeepsContents
  <2> HIDE DEF d
  <2>4. /\ NeverTorn' /\ LastBackupSurvives' /\ Numbered'
        /\ IsDir(dir)' /\ (\A e \in mayFind : IsDir(e))'
    <3>1. ChangeDir(d)
      BY <1>4 DEF d
    <3> QED
      BY <1>1, <3>1, <2>2, <2>3, ChangeDirSafe DEF IInv, NeverTorn, LastBackupSurvives
  <2>5. TypeOK'
    BY <1>1, <1>2, <2>4 DEF TypeOK
  <2> QED
    BY <1>3, <2>4, <2>5 DEF IInv
<1>5. CASE UNCHANGED <<dir, mayFind>>
  <2>1. NeverTorn' /\ LastBackupSurvives' /\ Numbered'
    BY <1>1, <1>5 DEF IInv, NeverTorn, LastBackupSurvives, Numbered
  <2>2. TypeOK'
    BY <1>1, <1>2, <1>5 DEF TypeOK, IsDir
  <2> QED
    BY <1>3, <2>1, <2>2 DEF IInv
<1> QED
  BY <1>4, <1>5 DEF GiveUp

LEMMA SyncDirectorySafe ==
  ASSUME IInv, SyncDirectory
  PROVE  IInv'
<1>1. /\ pc = "syncDir" /\ pc' = "verify" /\ ~onDisk
      /\ UNCHANGED <<dir, complete, synced, saves, next, all, durable, before>>
      /\ (mayFind' = {dir} /\ onDisk' = TRUE) \/ (mayFind' = mayFind /\ onDisk' = onDisk)
  BY DEF SyncDirectory, IInv, OnDiskMeans
<1>2. mayFind' \subseteq mayFind /\ dir' \in mayFind'
  BY <1>1 DEF IInv, Numbered
<1>3. TypeOK'
  <2>1. onDisk' \in BOOLEAN
    BY <1>1 DEF IInv, TypeOK
  <2> QED
    BY <1>1, <1>2, <2>1 DEF IInv, TypeOK, IsDir
<1>4. NeverTorn' /\ LastBackupSurvives' /\ Numbered'
  BY <1>1, <1>2 DEF IInv, NeverTorn, LastBackupSurvives, Numbered
<1>5. NewestThere' /\ OnDiskMeans'
  BY <1>1 DEF IInv, NewestThere, OnDiskMeans, Renamed, Writing
<1>6. WritesNew' /\ SyncedFirst' /\ PruneKeeps'
  BY <1>1 DEF WritesNew, SyncedFirst, PruneKeeps, Writing
<1> QED
  BY <1>3, <1>4, <1>5, <1>6 DEF IInv

LEMMA VerifySafe ==
  ASSUME IInv, Verify
  PROVE  IInv'
<1>1. /\ pc = "verify"
      /\ UNCHANGED <<dir, mayFind, complete, synced, saves, next, onDisk, durable, before>>
      /\ (pc' = "prune" /\ all' = DOMAIN dir) \/ (pc' = "idle" /\ all' = all)
  BY DEF Verify, fileVars
<1>2. NewestThere /\ TypeOK /\ IsDir(dir)
  BY DEF IInv, TypeOK
<1>3. TypeOK'
  BY <1>1, <1>2 DEF TypeOK, IsDir
<1>4. NeverTorn' /\ LastBackupSurvives' /\ Numbered'
  BY <1>1 DEF IInv, NeverTorn, LastBackupSurvives, Numbered
<1>5. NewestThere' /\ OnDiskMeans' /\ PruneKeeps'
  BY <1>1, <1>2 DEF IInv, NewestThere, OnDiskMeans, PruneKeeps, Renamed, Writing
<1>6. WritesNew' /\ SyncedFirst'
  BY <1>1 DEF WritesNew, SyncedFirst, Writing
<1> QED
  BY <1>3, <1>4, <1>5, <1>6 DEF IInv

LEMMA AtMostOne ==
  ASSUME NEW x, NEW S \in SUBSET {x}
  PROVE  Cardinality(S) \in Nat /\ Cardinality(S) <= 1
<1>1. IsFiniteSet({x}) /\ Cardinality({x}) = 1
  BY FS_Singleton
<1>2. IsFiniteSet(S) /\ Cardinality(S) <= 1
  BY <1>1, FS_Subset
<1> QED
  BY <1>2, FS_CardinalityType

\* The oldest of more than one name is not the version that was just written.
LEMMA OldestIsNotNewest ==
  ASSUME IInv, pc = "prune", Cardinality(all) > MaxVersions, NEW n \in Oldest(all)
  PROVE  /\ n \in Names /\ n.version < next /\ next \in Nat
         /\ Version(n.version) \in Names /\ Version(n.version) # Version(next)
<1>1. /\ n \in all /\ all \in SUBSET Names /\ next \in Nat \ {0}
      /\ \A m \in all : n.version <= m.version /\ m.version <= next /\ m # Temp(next)
  BY DEF IInv, TypeOK, PruneKeeps, Oldest
<1>a. Cardinality(all) > MaxVersions
  OBVIOUS
<1>2. n \in Names /\ n.version \in Nat \ {0}
  BY <1>1, NamesDiffer
<1>3. n.version # next
  <2> SUFFICES ASSUME n.version = next PROVE FALSE
    OBVIOUS
  <2>1. \A m \in all : m = Version(next)
    <3> TAKE m \in all
    <3>1. m \in Names /\ m.version \in Nat /\ m.version = next
      BY <1>1, NamesDiffer
    <3>2. m = Version(next) \/ m = Temp(next)
      BY <3>1, NamesDiffer
    <3> QED
      BY <3>2, <1>1
  <2>2. all \in SUBSET {Version(next)}
    BY <2>1
  <2>3. Cardinality(all) \in Nat /\ Cardinality(all) <= 1
    BY <2>2, AtMostOne
  <2> QED
    BY <1>a, <2>3
<1>4. Version(n.version) \in Names /\ Version(n.version) # Version(next)
  BY <1>2, <1>3, NamesDiffer
<1> QED
  BY <1>1, <1>2, <1>3, <1>4

LEMMA PruneOldestSafe ==
  ASSUME IInv, PruneOldest
  PROVE  IInv'
<1>1. /\ pc = "prune" /\ pc' = "prune" /\ Cardinality(all) > MaxVersions
      /\ UNCHANGED <<complete, synced, saves, next, onDisk, durable, before>>
  BY DEF PruneOldest
<1>2. PICK n \in Oldest(all) :
        /\ all' = all \ {n}
        /\ ChangeDir(Without(dir, Version(n.version))) \/ UNCHANGED <<dir, mayFind>>
  BY DEF PruneOldest
<1>3. Version(n.version) # Version(next)
  BY <1>1, OldestIsNotNewest
<1>4. /\ TypeOK /\ IsDir(dir) /\ Version(next) \in DOMAIN dir
      /\ dir[Version(next)] = saves /\ next \in Nat \ {0}
  BY <1>1 DEF IInv, TypeOK, NewestThere, Renamed
<1>5. WritesNew' /\ SyncedFirst' /\ PruneKeeps'
  BY <1>1, <1>2 DEF IInv, WritesNew, SyncedFirst, PruneKeeps, Writing
<1>6. all' \in SUBSET Names
  BY <1>2, <1>4 DEF TypeOK
<1>7. CASE ChangeDir(Without(dir, Version(n.version)))
  <2> DEFINE d == Without(dir, Version(n.version))
  <2>1. DOMAIN d = DOMAIN dir \ {Version(n.version)} /\ \A m \in DOMAIN d : d[m] = dir[m]
    BY WithoutIs
  <2> HIDE DEF d
  <2>2. ChangeDir(d)
    BY <1>7 DEF d
  <2>3. IsDir(d) /\ \A m \in DOMAIN d : m.version <= saves
    BY <1>4, <2>1 DEF IsDir, IInv, Numbered
  <2>4. Contents(d) \subseteq complete \cap synced
    BY <2>1 DEF Contents, Json, IInv, NeverTorn
  <2>5. saves \in Contents(d)
    BY <1>3, <1>4, <2>1, NamesDiffer DEF Contents, Json
  <2>6. durable > 0 => \E c \in Contents(d) : c >= durable
    BY <2>5, <1>4 DEF TypeOK
  <2>7. /\ NeverTorn' /\ LastBackupSurvives' /\ Numbered'
        /\ IsDir(dir)' /\ (\A e \in mayFind : IsDir(e))'
    BY <1>1, <2>2, <2>3, <2>4, <2>6, ChangeDirSafe
  <2>8. TypeOK'
    BY <1>1, <1>4, <1>6, <2>7 DEF TypeOK
  <2>9. NewestThere' /\ OnDiskMeans'
    BY <1>1, <1>3, <1>4, <2>1, <2>2
    DEF IInv, NewestThere, OnDiskMeans, ChangeDir, Renamed, Writing
  <2> QED
    BY <1>5, <2>7, <2>8, <2>9 DEF IInv
<1>8. CASE UNCHANGED <<dir, mayFind>>
  <2>1. NeverTorn' /\ LastBackupSurvives' /\ Numbered'
    BY <1>1, <1>8 DEF IInv, NeverTorn, LastBackupSurvives, Numbered
  <2>2. TypeOK'
    BY <1>1, <1>4, <1>6, <1>8 DEF TypeOK, IsDir
  <2>3. NewestThere' /\ OnDiskMeans'
    BY <1>1, <1>8 DEF IInv, NewestThere, OnDiskMeans, Renamed, Writing
  <2> QED
    BY <1>5, <2>1, <2>2, <2>3 DEF IInv
<1> QED
  BY <1>2, <1>7, <1>8

LEMMA SaveReturnSafe ==
  ASSUME IInv, SaveReturn
  PROVE  IInv'
<1>1. /\ pc = "prune" /\ pc' = "done" /\ durable' = IF onDisk THEN saves ELSE durable
      /\ UNCHANGED <<dir, mayFind, complete, synced, saves, next, all, onDisk, before>>
  BY DEF SaveReturn, fileVars, localVars
<1>2. TypeOK /\ saves \in Nat /\ next \in Nat \ {0}
  BY DEF IInv, TypeOK
<1>3. TypeOK'
  BY <1>1, <1>2 DEF TypeOK, IsDir
<1>4. LastBackupSurvives'
  <2>1. CASE onDisk
    <3>1. \A d \in mayFind \cup {dir} : Version(next) \in DOMAIN d /\ d[Version(next)] = saves
      BY <1>1, <2>1 DEF IInv, OnDiskMeans, Numbered
    <3>2. \A d \in mayFind \cup {dir} : saves \in Contents(d)
      BY <3>1, NamesDiffer DEF Contents, Json
    <3> QED
      BY <3>2, <1>1, <1>2, <2>1 DEF LastBackupSurvives
  <2>2. CASE ~onDisk
    BY <1>1, <2>2 DEF IInv, LastBackupSurvives
  <2> QED
    BY <2>1, <2>2
<1>5. NeverTorn' /\ Numbered'
  BY <1>1 DEF IInv, NeverTorn, Numbered
<1>6. WritesNew' /\ SyncedFirst' /\ NewestThere' /\ OnDiskMeans' /\ PruneKeeps'
  BY <1>1 DEF WritesNew, SyncedFirst, NewestThere, OnDiskMeans, PruneKeeps, Writing, Renamed
<1> QED
  BY <1>3, <1>4, <1>5, <1>6 DEF IInv

LEMMA StopSafe ==
  ASSUME IInv, Rest \/ Crash
  PROVE  IInv'
<1>1. /\ pc' = "idle"
      /\ UNCHANGED <<dir, mayFind, complete, synced, saves, next, all, onDisk, durable, before>>
  BY DEF Rest, Crash, fileVars, localVars
<1>2. TypeOK'
  BY <1>1 DEF IInv, TypeOK, IsDir
<1>3. NeverTorn' /\ LastBackupSurvives' /\ Numbered'
  BY <1>1 DEF IInv, NeverTorn, LastBackupSurvives, Numbered
<1>4. WritesNew' /\ SyncedFirst' /\ NewestThere' /\ OnDiskMeans' /\ PruneKeeps'
  BY <1>1 DEF WritesNew, SyncedFirst, NewestThere, OnDiskMeans, PruneKeeps, Writing, Renamed
<1> QED
  BY <1>2, <1>3, <1>4 DEF IInv

LEMMA PowerLossSafe ==
  ASSUME IInv, PowerLoss
  PROVE  IInv'
<1>1. /\ pc' = "idle" /\ dir' \in mayFind /\ mayFind' = {dir'}
      /\ UNCHANGED <<synced, saves, next, all, onDisk, durable, before>>
      /\ complete' \subseteq complete /\ complete \cap synced \subseteq complete'
  BY DEF PowerLoss, localVars
<1>2. TypeOK'
  BY <1>1 DEF IInv, TypeOK, IsDir
<1>3. NeverTorn' /\ LastBackupSurvives' /\ Numbered'
  BY <1>1 DEF IInv, NeverTorn, LastBackupSurvives, Numbered
<1>4. WritesNew' /\ SyncedFirst' /\ NewestThere' /\ OnDiskMeans' /\ PruneKeeps'
  BY <1>1 DEF WritesNew, SyncedFirst, NewestThere, OnDiskMeans, PruneKeeps, Writing, Renamed
<1> QED
  BY <1>2, <1>3, <1>4 DEF IInv

LEMMA NextSafe ==
  ASSUME IInv, [Next]_vars
  PROVE  IInv'
<1>1. CASE UNCHANGED vars
  <2>1. UNCHANGED <<dir, mayFind, complete, synced, pc, saves, next, all, onDisk, durable, before>>
    BY <1>1 DEF vars, fileVars, localVars
  <2> QED
    BY <2>1 DEF IInv, TypeOK, IsDir, NeverTorn, LastBackupSurvives, Numbered, WritesNew,
                SyncedFirst, NewestThere, OnDiskMeans, PruneKeeps
<1>2. CASE Next
  BY <1>2, SaveBeginSafe, OpenTempSafe, WriteTempSafe, SyncTempSafe, RenameTempSafe,
     GiveUpSafe, SyncDirectorySafe, VerifySafe, PruneOldestSafe, SaveReturnSafe, StopSafe,
     PowerLossSafe
  DEF Next, WriteAtomically
<1> QED
  BY <1>1, <1>2

\* Whatever fails and whenever the program or the power stops, the state stays in
\* IInv, of which what backups promise is a part (BackupManager, writeAtomically).
THEOREM BackupInvariant == Spec => []IInv
BY InitSafe, NextSafe, PTL DEF Spec

\* No crash, loss of power or failure ever leaves half a version.
THEOREM BackupSafe == Spec => []BackupInv
<1>1. IInv => BackupInv
  BY DEF IInv, BackupInv
<1> QED
  BY <1>1, BackupInvariant, PTL

\* What was saved and synced, or something newer, can be restored for ever.
THEOREM BackupDurable == Spec => []LastBackupSurvives
BY BackupInvariant, PTL DEF IInv

\* Both together: what is found is whole and what was saved is found
\* (BackupManager::save, writeAtomically).
THEOREM BackupsAreSafe == Spec => []BackupSafety
BY BackupSafe, BackupDurable, PTL DEF BackupSafety

(* Refinement of BackupStore *)

LEMMA VersionsIs ==
  ASSUME NEW d, IsDir(d)
  PROVE  /\ \A v : v \in DOMAIN Versions(d) <=> v \in Nat \ {0} /\ Version(v) \in DOMAIN d
         /\ \A v \in DOMAIN Versions(d) : Versions(d)[v] = d[Version(v)]
         /\ Versions(d) = [v \in DOMAIN Versions(d) |-> Versions(d)[v]]
<1>1. DOMAIN Versions(d) = {n.version : n \in Json(d)}
  BY DEF Versions
<1>2. \A v \in DOMAIN Versions(d) : Versions(d)[v] = d[Version(v)]
  BY DEF Versions
<1>3. Versions(d) = [v \in DOMAIN Versions(d) |-> Versions(d)[v]]
  BY DEF Versions
<1>4. ASSUME NEW v \in DOMAIN Versions(d)
      PROVE  v \in Nat \ {0} /\ Version(v) \in DOMAIN d
  <2>1. PICK n \in Json(d) : v = n.version
    BY <1>1
  <2>2. n \in Names /\ ~n.temp /\ n \in DOMAIN d
    BY DEF IsDir, Json
  <2> QED
    BY <2>1, <2>2, NamesDiffer
<1>5. ASSUME NEW v \in Nat \ {0}, Version(v) \in DOMAIN d
      PROVE  v \in DOMAIN Versions(d)
  <2>1. Version(v) \in Json(d) /\ Version(v).version = v
    BY <1>5, NamesDiffer DEF Json
  <2> QED
    BY <1>1, <2>1
<1> QED
  BY <1>2, <1>3, <1>4, <1>5

\* What two directories say of the versions is all that makes their stores equal.
LEMMA SameStore ==
  ASSUME NEW d, NEW e, IsDir(d), IsDir(e),
         \A v \in Nat \ {0} : /\ Version(v) \in DOMAIN d <=> Version(v) \in DOMAIN e
                              /\ Version(v) \in DOMAIN d => d[Version(v)] = e[Version(v)]
  PROVE  Versions(d) = Versions(e)
<1>1. DOMAIN Versions(d) = DOMAIN Versions(e)
  BY VersionsIs
<1>2. \A v \in DOMAIN Versions(d) : Versions(d)[v] = Versions(e)[v]
  BY <1>1, VersionsIs
<1> QED
  BY <1>1, <1>2, VersionsIs

LEMMA WithTempStore ==
  ASSUME NEW d, IsDir(d), NEW v \in Nat \ {0}, NEW c, IsDir(With(d, Temp(v), c))
  PROVE  Versions(With(d, Temp(v), c)) = Versions(d)
<1> DEFINE e == With(d, Temp(v), c)
<1>1. Json(e) = Json(d) /\ \A n \in Json(d) : e[n] = d[n]
  BY TempIsNoVersion DEF IsDir
<1>2. \A u, g : Version(u) \in DOMAIN g <=> Version(u) \in Json(g)
  BY NamesDiffer DEF Json
<1> HIDE DEF e
<1>3. IsDir(e)
  BY DEF e
<1>4. Versions(e) = Versions(d)
  BY <1>1, <1>2, <1>3, SameStore
<1> QED
  BY <1>4 DEF e

LEMMA WithoutTempStore ==
  ASSUME NEW d, IsDir(d), NEW v \in Nat \ {0}
  PROVE  IsDir(Without(d, Temp(v))) /\ Versions(Without(d, Temp(v))) = Versions(d)
<1> DEFINE f == Without(d, Temp(v))
<1>1. DOMAIN f = DOMAIN d \ {Temp(v)} /\ \A n \in DOMAIN f : f[n] = d[n]
  BY WithoutIs
<1>2. Json(f) = Json(d) /\ \A n \in Json(d) : f[n] = d[n]
  BY TempIsNoVersion DEF IsDir
<1> HIDE DEF f
<1>3. IsDir(f)
  BY <1>1 DEF IsDir
<1>4. \A u, g : Version(u) \in DOMAIN g <=> Version(u) \in Json(g)
  BY NamesDiffer DEF Json
<1>5. Versions(f) = Versions(d)
  BY <1>2, <1>3, <1>4, SameStore
<1> QED
  BY <1>3, <1>5 DEF f

Stores(dirs) == {Versions(d) : d \in dirs}

LEMMA InitRefines == Init => Store!StoreInit
<1> SUFFICES ASSUME Init PROVE Store!StoreInit
  OBVIOUS
<1>1. dir = NoFile /\ mayFind = {dir}
  BY DEF Init
<1>2. DOMAIN dir = {}
  BY <1>1 DEF NoFile
<1>3. Json(dir) = {}
  BY <1>2 DEF Json
<1>4. Versions(dir) = [v \in {} |-> 0]
  BY <1>3 DEF Versions
<1>5. {Versions(d) : d \in mayFind} = {Versions(dir)}
  BY <1>1
<1> QED
  BY <1>4, <1>5 DEF Store!StoreInit

\* A change that is not one of the versions is no change of the store.
LEMMA StutterRefines ==
  ASSUME dir \in mayFind, NEW d, Versions(d) = Versions(dir), ChangeDir(d)
  PROVE  UNCHANGED Store!storeVars
<1>1. dir' = d /\ mayFind' = mayFind \cup {d}
  BY DEF ChangeDir
<1>2. Versions(dir') = Versions(dir)
  BY <1>1
<1>3. Stores(mayFind') = Stores(mayFind)
  BY <1>1 DEF Stores
<1> QED
  BY <1>2, <1>3 DEF Store!storeVars, Stores

LEMMA UnchangedRefines ==
  ASSUME UNCHANGED <<dir, mayFind>>
  PROVE  UNCHANGED Store!storeVars
BY DEF Store!storeVars, Versions, Json

LEMMA RenameRefines ==
  ASSUME IInv, IInv', RenameTemp
  PROVE  Store!Add
<1> DEFINE e == Without(dir, Temp(next))
           d == With(e, Version(next), saves)
           old == Versions(dir)
           new == [u \in DOMAIN old \cup {next} |-> IF u = next THEN saves ELSE old[u]]
<1>1. /\ dir' = d /\ mayFind' = mayFind \cup {d}
  BY DEF RenameTemp, ChangeDir
<1>2. /\ IsDir(dir) /\ next \in Nat \ {0} /\ next <= saves /\ saves \in 0 .. MaxSaves
      /\ \A n \in DOMAIN dir : n.version < next \/ n = Temp(next)
      /\ \A n \in Json(dir) : dir[n] < saves
  BY DEF IInv, TypeOK, WritesNew, Writing, RenameTemp
<1>3. next \in 1 .. MaxSaves /\ saves \in 1 .. MaxSaves
  BY <1>2
<1>4. IsDir(d)
  <2>1. IsDir(dir)'
    BY DEF IInv, TypeOK
  <2>2. saves' = saves
    BY DEF RenameTemp, localVars
  <2> QED
    BY <1>1, <2>1, <2>2 DEF IsDir
<1>5. DOMAIN e = DOMAIN dir \ {Temp(next)} /\ \A m \in DOMAIN e : e[m] = dir[m]
  BY WithoutIs
<1>6. /\ DOMAIN d = DOMAIN e \cup {Version(next)} /\ d[Version(next)] = saves
      /\ \A m \in DOMAIN e : m # Version(next) => d[m] = e[m]
  <2>1. ASSUME NEW m \in DOMAIN e, m # Version(next) PROVE d[m] = e[m]
    BY <2>1 DEF With
  <2>2. DOMAIN d = DOMAIN e \cup {Version(next)} /\ d[Version(next)] = saves
    BY DEF With
  <2> QED
    BY <2>1, <2>2
<1> HIDE DEF e, d, old
<1>7. /\ \A v : v \in DOMAIN old <=> v \in Nat \ {0} /\ Version(v) \in DOMAIN dir
      /\ \A v \in DOMAIN old : old[v] = dir[Version(v)]
  BY <1>2, VersionsIs DEF old
<1>8. \A u \in DOMAIN old : u < next /\ old[u] < saves
  <2> TAKE u \in DOMAIN old
  <2>1. Version(u) \in DOMAIN dir /\ Version(u) # Temp(next) /\ Version(u).version = u
    BY <1>7, NamesDiffer
  <2>2. Version(u) \in Json(dir)
    BY <2>1, NamesDiffer DEF Json
  <2> QED
    BY <1>2, <1>7, <2>1, <2>2
<1>9. Versions(d) = new
  <2>1. /\ \A v : v \in DOMAIN Versions(d) <=> v \in Nat \ {0} /\ Version(v) \in DOMAIN d
        /\ \A v \in DOMAIN Versions(d) : Versions(d)[v] = d[Version(v)]
        /\ Versions(d) = [v \in DOMAIN Versions(d) |-> Versions(d)[v]]
    BY <1>4, VersionsIs
  <2>2. \A v : /\ Version(v) # Temp(next)
               /\ v # next => Version(v) # Version(next)
    BY NamesDiffer
  <2>3. DOMAIN Versions(d) = DOMAIN new
    BY <1>2, <1>5, <1>6, <1>7, <2>1, <2>2
  <2>4. ASSUME NEW v \in DOMAIN new PROVE Versions(d)[v] = new[v]
    <3>1. CASE v = next
      BY <3>1, <2>1, <2>3, <1>6
    <3>2. CASE v # next
      <4>1. v \in DOMAIN old /\ new[v] = old[v] /\ Version(v) # Version(next)
        BY <2>4, <2>2, <3>2
      <4>2. Version(v) \in DOMAIN dir /\ Version(v) # Temp(next)
        BY <1>7, <2>2, <4>1
      <4>3. d[Version(v)] = dir[Version(v)]
        BY <1>5, <1>6, <4>1, <4>2
      <4> QED
        BY <1>7, <2>1, <2>3, <4>1, <4>3
    <3> QED
      BY <3>1, <3>2
  <2> QED
    BY <2>1, <2>3, <2>4
<1>10. Store!Becomes(new)
  <2>1. Versions(dir') = new /\ Stores(mayFind') = Stores(mayFind) \cup {new}
    BY <1>1, <1>9 DEF Stores
  <2> QED
    BY <2>1 DEF Store!Becomes, Stores
<1> QED
  BY <1>3, <1>8, <1>10 DEF Store!Add, old

LEMMA SyncRefines ==
  ASSUME IInv, SyncDirectory
  PROVE  Store!Sync \/ UNCHANGED Store!storeVars
<1>1. dir' = dir /\ (mayFind' = {dir} \/ mayFind' = mayFind)
  BY DEF SyncDirectory
<1>2. CASE mayFind' = {dir}
  <2>1. {Versions(d) : d \in mayFind'} = {Versions(dir)}
    BY <1>2
  <2> QED
    BY <1>1, <2>1 DEF Store!Sync
<1>3. CASE mayFind' = mayFind
  BY <1>1, <1>3, UnchangedRefines
<1> QED
  BY <1>1, <1>2, <1>3

LEMMA PowerLossRefines ==
  ASSUME IInv, PowerLoss
  PROVE  Store!LosePower
<1>1. dir' \in mayFind /\ mayFind' = {dir'}
  BY DEF PowerLoss
<1>2. {Versions(d) : d \in mayFind'} = {Versions(dir')}
  BY <1>1
<1> QED
  BY <1>1, <1>2 DEF Store!LosePower

LEMMA PruneRefines ==
  ASSUME IInv, IInv', PruneOldest
  PROVE  Store!Drop \/ UNCHANGED Store!storeVars
<1>1. PICK n \in Oldest(all) :
        ChangeDir(Without(dir, Version(n.version))) \/ UNCHANGED <<dir, mayFind>>
  BY DEF PruneOldest
<1>2. CASE UNCHANGED <<dir, mayFind>>
  BY <1>2, UnchangedRefines
<1>3. CASE ChangeDir(Without(dir, Version(n.version)))
  <2> DEFINE v == n.version
             d == Without(dir, Version(v))
             old == Versions(dir)
  <2>1. pc = "prune" /\ Cardinality(all) > MaxVersions
    BY DEF PruneOldest
  <2>2. n \in Names /\ v < next /\ next \in Nat \ {0}
    BY <2>1, OldestIsNotNewest DEF IInv, TypeOK
  <2>3. IsDir(dir) /\ dir \in mayFind /\ Version(next) \in DOMAIN dir
    BY <2>1 DEF IInv, TypeOK, Numbered, NewestThere, Renamed
  <2>4. DOMAIN d = DOMAIN dir \ {Version(v)} /\ \A m \in DOMAIN d : d[m] = dir[m]
    BY WithoutIs
  <2>5. dir' = d /\ mayFind' = mayFind \cup {d}
    BY <1>3 DEF ChangeDir
  <2>6. v \in Nat \ {0}
    BY <2>2, NamesDiffer
  <2>7. ChangeDir(d)
    BY <1>3
  <2> HIDE DEF d, old, v
  <2>8. IsDir(d)
    BY <2>3, <2>4 DEF IsDir
  <2>9. /\ \A u : u \in DOMAIN old <=> u \in Nat \ {0} /\ Version(u) \in DOMAIN dir
        /\ \A u \in DOMAIN old : old[u] = dir[Version(u)]
    BY <2>3, VersionsIs DEF old
  <2>10. /\ \A u : u \in DOMAIN Versions(d) <=> u \in Nat \ {0} /\ Version(u) \in DOMAIN d
         /\ \A u \in DOMAIN Versions(d) : Versions(d)[u] = d[Version(u)]
         /\ Versions(d) = [u \in DOMAIN Versions(d) |-> Versions(d)[u]]
    BY <2>8, VersionsIs
  <2>11. \A u : u # v => Version(u) # Version(v)
    BY NamesDiffer
  <2>12. CASE Version(v) \in DOMAIN dir
    <3> DEFINE new == [u \in DOMAIN old \ {v} |-> old[u]]
    <3>1. v \in DOMAIN old /\ next \in DOMAIN old /\ v < next
      BY <2>2, <2>3, <2>6, <2>9, <2>12 DEF v
    <3>2. DOMAIN Versions(d) = DOMAIN new
      BY <2>4, <2>9, <2>10, <2>11
    <3>3. \A u \in DOMAIN new : Versions(d)[u] = new[u]
      BY <2>4, <2>9, <2>10, <2>11, <3>2
    <3>4. Versions(d) = new
      BY <2>10, <3>2, <3>3
    <3>5. Versions(dir') = new /\ Stores(mayFind') = Stores(mayFind) \cup {new}
      BY <2>5, <3>4 DEF Stores
    <3>6. Store!Becomes(new)
      BY <3>5 DEF Store!Becomes, Stores
    <3> QED
      BY <3>1, <3>6 DEF Store!Drop, old
  <2>13. CASE Version(v) \notin DOMAIN dir
    <3>1. Versions(d) = old
      BY <2>3, <2>4, <2>8, <2>13, SameStore DEF old
    <3> QED
      BY <2>3, <2>7, <3>1, StutterRefines DEF old
  <2> QED
    BY <2>12, <2>13
<1> QED
  BY <1>1, <1>2, <1>3

LEMMA NextRefines ==
  ASSUME IInv, IInv', [Next]_vars
  PROVE  [Store!StoreNext]_(Store!storeVars)
<1>1. dir \in mayFind /\ IsDir(dir) /\ next \in Nat \ {0} /\ (\A d \in mayFind : IsDir(d))'
  BY DEF IInv, TypeOK, Numbered
<1>2. CASE \/ SaveBegin \/ WriteTemp \/ SyncTemp \/ Verify \/ SaveReturn \/ Rest \/ Crash
           \/ UNCHANGED vars
  <2>1. UNCHANGED <<dir, mayFind>>
    BY <1>2 DEF SaveBegin, WriteTemp, SyncTemp, Verify, SaveReturn, Rest, Crash, vars, fileVars
  <2> QED
    BY <2>1, UnchangedRefines
<1>3. CASE OpenTemp
  <2>1. ChangeDir(With(dir, Temp(next), saves)) /\ saves' = saves
    BY <1>3 DEF OpenTemp, localVars
  <2>2. IsDir(With(dir, Temp(next), saves))
    BY <1>1, <2>1 DEF ChangeDir, IsDir
  <2>3. Versions(With(dir, Temp(next), saves)) = Versions(dir)
    BY <1>1, <2>2, WithTempStore
  <2> QED
    BY <1>1, <2>1, <2>3, StutterRefines
<1>4. CASE GiveUp
  <2>1. CASE UNCHANGED <<dir, mayFind>>
    BY <2>1, UnchangedRefines
  <2>2. CASE ChangeDir(Without(dir, Temp(next)))
    <3>1. Versions(Without(dir, Temp(next))) = Versions(dir)
      BY <1>1, WithoutTempStore
    <3> QED
      BY <1>1, <2>2, <3>1, StutterRefines
  <2> QED
    BY <1>4, <2>1, <2>2 DEF GiveUp
<1>5. CASE RenameTemp
  BY <1>5, RenameRefines DEF Store!StoreNext
<1>6. CASE SyncDirectory
  BY <1>6, SyncRefines DEF Store!StoreNext
<1>7. CASE PruneOldest
  BY <1>7, PruneRefines DEF Store!StoreNext
<1>8. CASE PowerLoss
  BY <1>8, PowerLossRefines DEF Store!StoreNext
<1> QED
  BY <1>2, <1>3, <1>4, <1>5, <1>6, <1>7, <1>8 DEF Next, WriteAtomically

\* Versions are added in order, the newest is never dropped, and a loss of power
\* undoes only what was not yet synced (BackupManager::save, writeAtomically).
THEOREM BackupIsStore == Spec => ImplementsStore
<1>1. Init => Store!StoreInit
  BY InitRefines
<1>2. IInv /\ IInv' /\ [Next]_vars => [Store!StoreNext]_(Store!storeVars)
  BY NextRefines
<1>3. Spec => Store!StoreSpec
  BY <1>1, <1>2, BackupInvariant, PTL DEF Spec, Store!StoreSpec
<1> QED
  BY <1>3 DEF ImplementsStore

(* Pruning keeps the newest *)

Temps(d) == DOMAIN d \ Json(d)

\* Versions and contents come in the same order.
Ascends(d) == \A m, n \in Json(d) : m.version < n.version => d[m] < d[n]

\* A save takes nothing away before it prunes.
NothingGone ==
  /\ pc \in Writing => Contents(dir) = before
  /\ pc \in {"syncDir", "verify"} => Contents(dir) = before \cup {saves}

\* What pruning has dropped is over the limit by what is newer and the temporary files.
NewestKept ==
  pc \in {"prune", "done"} =>
    /\ Contents(dir) \subseteq before \cup {saves}
    /\ \A c \in before \cup {saves} :
         Cardinality(Newer(c, before \cup {saves})) + Cardinality(Temps(dir)) < MaxVersions
           => c \in Contents(dir)

\* A name pruning still has before it but that is no file any more, because the
\* temporary file of the same version came first, is the next to come.
StillListed ==
  pc = "prune" =>
    /\ IsFiniteSet(all)
    /\ \A m \in all : m \in DOMAIN dir \/ (m \in Oldest(all) /\ ~m.temp)

KInv == /\ \A d \in mayFind : Ascends(d)
        /\ NothingGone /\ NewestKept /\ StillListed

LEMMA DirIsFinite ==
  ASSUME NEW d, IsDir(d), \A n \in DOMAIN d : n.version <= saves, saves \in Nat
  PROVE  IsFiniteSet(DOMAIN d) /\ IsFiniteSet(Temps(d))
<1> DEFINE J == Json(d)
           T == Temps(d)
           f == [n \in J |-> n.version]
           g == [n \in T |-> n.version]
<1>1. IsFiniteSet(1 .. saves)
  BY FS_Interval
<1>2. /\ DOMAIN d = J \cup T
      /\ \A n \in J : n \in Names /\ ~n.temp /\ n = Version(n.version) /\ n.version \in 1 .. saves
      /\ \A n \in T : n \in Names /\ n.temp /\ n = Temp(n.version) /\ n.version \in 1 .. saves
  <2>1. /\ DOMAIN d = J \cup T
        /\ \A n \in J : n \in DOMAIN d /\ ~n.temp
        /\ \A n \in T : n \in DOMAIN d /\ n.temp
    BY DEF Json, Temps
  <2>2. \A n \in DOMAIN d : n \in Names /\ n.version \in 1 .. saves
    BY NamesDiffer DEF IsDir
  <2> HIDE DEF J, T
  <2> QED
    BY <2>1, <2>2, NamesDiffer
<1> HIDE DEF J, T
<1>3. f \in Injection(J, 1 .. saves) /\ g \in Injection(T, 1 .. saves)
  <2>1. f \in [J -> 1 .. saves] /\ g \in [T -> 1 .. saves]
    BY <1>2
  <2>2. \A m, n \in J : f[m] = f[n] => m = n
    BY <1>2
  <2>3. \A m, n \in T : g[m] = g[n] => m = n
    BY <1>2
  <2> QED
    BY <2>1, <2>2, <2>3 DEF Injection, IsInjective
<1>4. IsFiniteSet(J) /\ IsFiniteSet(T)
  <2> HIDE DEF f, g
  <2> QED
    BY <1>1, <1>3, FS_Injection
<1>5. IsFiniteSet(J \cup T)
  BY <1>4, FS_Union
<1> QED
  BY <1>2, <1>4, <1>5 DEF T

\* Where the versions a directory has are those of another, it ascends as well.
LEMMA SameAscends ==
  ASSUME NEW d, NEW e, Ascends(d), Json(e) \subseteq Json(d), \A n \in Json(e) : e[n] = d[n]
  PROVE  Ascends(e)
BY DEF Ascends

\* The other names pruning has before it are temporary files or newer versions, so
\* there are no more of them than of both together.
LEMMA OthersAreNewer ==
  ASSUME IInv, KInv, pc = "prune", Cardinality(all) > MaxVersions, NEW n \in Oldest(all),
         Version(n.version) \in DOMAIN dir
  PROVE  ~(Cardinality(Newer(dir[Version(n.version)], before \cup {saves}))
             + Cardinality(Temps(dir)) < MaxVersions)
<1> DEFINE v == n.version
           c == dir[Version(v)]
           A == all \ {Version(v)}
           T == Temps(dir)
           N == Newer(c, before \cup {saves})
           f == [m \in A \ T |-> dir[m]]
<1>1. /\ TypeOK /\ IsDir(dir) /\ saves \in Nat /\ dir \in mayFind
      /\ \A m \in DOMAIN dir : m.version <= saves
  BY DEF IInv, TypeOK, Numbered
<1>2. /\ n \in Names /\ v \in Nat \ {0}
      /\ Version(v) \in Json(dir) /\ Version(v).version = v
  <2>1. n \in Names
    BY OldestIsNotNewest
  <2>2. v \in Nat \ {0}
    BY <2>1, NamesDiffer
  <2> QED
    BY <2>1, <2>2, NamesDiffer DEF Json
<1>3. /\ all \in SUBSET Names /\ IsFiniteSet(all)
      /\ \A m \in all : v <= m.version
      /\ \A m \in all : m \in DOMAIN dir \/ (m \in Oldest(all) /\ ~m.temp)
  BY <1>1 DEF TypeOK, Oldest, KInv, StillListed
<1>4. ASSUME NEW m \in A \ T
      PROVE  m \in Json(dir) /\ dir[m] \in N /\ m = Version(m.version)
  <2>1. m \in all /\ m \in Names /\ m # Version(v) /\ v <= m.version /\ m.version \in Nat
    BY <1>3, <1>4, NamesDiffer
  <2>2. m \in DOMAIN dir
    <3> SUFFICES ASSUME m \notin DOMAIN dir PROVE FALSE
      OBVIOUS
    <3>1. m \in Oldest(all) /\ ~m.temp
      BY <1>3, <2>1
    <3>2. n \in all /\ m.version <= n.version
      BY <3>1 DEF Oldest
    <3>3. m.version = v
      BY <2>1, <3>2, <1>2
    <3> QED
      BY <2>1, <3>1, <3>3, NamesDiffer
  <2>3. m \in Json(dir)
    BY <2>2, <1>4 DEF Temps
  <2>4. ~m.temp /\ m = Version(m.version)
    BY <2>1, <2>3, NamesDiffer DEF Json
  <2>5. v < m.version
    BY <2>1, <2>4, <1>2
  <2>6. dir[m] > c
    <3>1. Ascends(dir)
      BY <1>1 DEF KInv
    <3>2. c < dir[m]
      BY <3>1, <2>3, <2>5, <1>2 DEF Ascends
    <3>3. c \in 1 .. saves /\ dir[m] \in 1 .. saves
      BY <1>1, <1>2, <2>2 DEF IsDir, Json
    <3> QED
      BY <3>2, <3>3, <1>1
  <2>7. dir[m] \in before \cup {saves}
    BY <2>3 DEF Contents, KInv, NewestKept
  <2> QED
    BY <2>3, <2>4, <2>6, <2>7 DEF Newer
<1>5. IsFiniteSet(N) /\ IsFiniteSet(T)
  <2>1. before \cup {saves} \subseteq 0 .. saves
    <3>1. before \in SUBSET (1 .. saves) /\ saves \in Nat
      BY <1>1 DEF TypeOK
    <3> QED
      BY <3>1
  <2>2. N \in SUBSET (0 .. saves)
    BY <2>1 DEF Newer
  <2>3. IsFiniteSet(0 .. saves)
    BY <1>1, FS_Interval
  <2> HIDE DEF N
  <2> QED
    BY <1>1, <2>2, <2>3, FS_Subset, DirIsFinite
<1>6. IsFiniteSet(A) /\ Cardinality(A) \in Nat /\ Cardinality(A) >= MaxVersions
  <2>1. Cardinality(all) \in Nat
    BY <1>3, FS_CardinalityType
  <2>2. /\ IsFiniteSet(A)
        /\ Cardinality(A) = IF Version(v) \in all THEN Cardinality(all) - 1 ELSE Cardinality(all)
    BY <1>3, FS_RemoveElement
  <2> HIDE DEF A
  <2>3. Cardinality(A) \in Nat
    BY <2>2, FS_CardinalityType
  <2>4. Cardinality(all) > MaxVersions /\ MaxVersions \in Nat
    BY BackupAssumption
  <2> QED
    BY <2>1, <2>2, <2>3, <2>4
<1> HIDE DEF N
<1>7. f \in Injection(A \ T, N)
  <2>1. f \in [A \ T -> N]
    BY <1>4
  <2>2. ASSUME NEW m \in A \ T, NEW k \in A \ T, f[m] = f[k] PROVE m = k
    <3>1. dir[m] = dir[k] /\ m \in Json(dir) /\ k \in Json(dir)
      BY <2>2, <1>4
    <3>2. Ascends(dir) /\ dir[m] \in Nat /\ dir[k] \in Nat
      BY <1>1, <3>1 DEF KInv, IsDir, Json
    <3>3. ~(m.version < k.version) /\ ~(k.version < m.version)
      BY <3>1, <3>2 DEF Ascends
    <3>4. m.version \in Nat /\ k.version \in Nat
      BY <3>1, <1>1, NamesDiffer DEF IsDir, Json
    <3>5. m.version = k.version
      BY <3>3, <3>4
    <3> QED
      BY <3>5, <1>4
  <2> QED
    BY <2>1, <2>2 DEF Injection, IsInjective
<1> HIDE DEF f, A, T
<1>8. IsFiniteSet(A \ T) /\ Cardinality(A \ T) <= Cardinality(N)
  BY <1>5, <1>7, FS_Injection
<1>9. IsFiniteSet(A \cap T) /\ Cardinality(A \cap T) <= Cardinality(T)
  BY <1>5, FS_Subset
<1>10. Cardinality(A) <= Cardinality(A \ T) + Cardinality(A \cap T)
  <2>1. A = (A \ T) \cup (A \cap T)
    OBVIOUS
  <2>2. (A \ T) \cap (A \cap T) = {}
    OBVIOUS
  <2>3. Cardinality((A \ T) \cup (A \cap T)) =
          Cardinality(A \ T) + Cardinality(A \cap T) - Cardinality((A \ T) \cap (A \cap T))
    BY <1>8, <1>9, FS_Union
  <2>4. Cardinality((A \ T) \cap (A \cap T)) = 0
    BY <2>2, FS_EmptySet
  <2>5. Cardinality(A \ T) \in Nat /\ Cardinality(A \cap T) \in Nat
    BY <1>8, <1>9, FS_CardinalityType
  <2>6. Cardinality(A) = Cardinality((A \ T) \cup (A \cap T))
    BY <2>1, Zenon
  <2> QED
    BY <2>3, <2>4, <2>5, <2>6
<1>11. /\ Cardinality(A \ T) \in Nat /\ Cardinality(A \cap T) \in Nat
       /\ Cardinality(N) \in Nat /\ Cardinality(T) \in Nat /\ MaxVersions \in Nat
  BY <1>5, <1>8, <1>9, FS_CardinalityType, BackupAssumption
<1>12. ~(Cardinality(N) + Cardinality(T) < MaxVersions)
  BY <1>6, <1>8, <1>9, <1>10, <1>11
<1> QED
  BY <1>12 DEF N, T

LEMMA PruneKeepsNewest ==
  ASSUME IInv, KInv, PruneOldest
  PROVE  KInv'
<1>1. /\ pc = "prune" /\ pc' = "prune" /\ Cardinality(all) > MaxVersions
      /\ saves' = saves /\ before' = before
  BY DEF PruneOldest
<1>2. PICK n \in Oldest(all) :
        /\ all' = all \ {n}
        /\ ChangeDir(Without(dir, Version(n.version))) \/ UNCHANGED <<dir, mayFind>>
  BY DEF PruneOldest
<1>3. IsDir(dir) /\ dir \in mayFind
  BY DEF IInv, TypeOK, Numbered
<1>4. IsFiniteSet(all') /\ \A m \in all' : m \in Oldest(all) => m \in Oldest(all')
  <2>1. IsFiniteSet(all)
    BY <1>1 DEF KInv, StillListed
  <2>2. IsFiniteSet(all \ {n})
    BY <2>1, FS_RemoveElement
  <2> QED
    BY <1>2, <2>2 DEF Oldest
<1>5. n \in Names /\ ~Version(n.version).temp /\ Version(n.version).version = n.version
  BY <1>1, OldestIsNotNewest, NamesDiffer
<1>6. NothingGone'
  BY <1>1 DEF NothingGone, Writing
<1>7. CASE UNCHANGED <<dir, mayFind>>
  <2>1. \A d \in mayFind' : Ascends(d)'
    BY <1>7 DEF KInv, Ascends, Json
  <2>2. NewestKept'
    BY <1>1, <1>7 DEF KInv, NewestKept, Contents, Json, Temps, Newer
  <2>3. StillListed'
    BY <1>1, <1>2, <1>4, <1>7 DEF KInv, StillListed
  <2> QED
    BY <2>1, <2>2, <2>3, <1>6 DEF KInv
<1>8. CASE ChangeDir(Without(dir, Version(n.version)))
  <2> DEFINE x == Version(n.version)
             d == Without(dir, x)
  <2>1. DOMAIN d = DOMAIN dir \ {x} /\ \A m \in DOMAIN d : d[m] = dir[m]
    BY WithoutIs
  <2>2. dir' = d /\ mayFind' = mayFind \cup {d}
    BY <1>8 DEF ChangeDir
  <2> HIDE DEF d
  <2>3. /\ Json(d) = Json(dir) \ {x} /\ \A m \in Json(d) : d[m] = dir[m]
        /\ Temps(d) = Temps(dir)
    <3>1. Json(d) = Json(dir) \ {x} /\ \A m \in Json(d) : d[m] = dir[m]
      BY <2>1 DEF Json
    <3>2. Temps(d) = Temps(dir)
      BY <2>1, <3>1, <1>5 DEF Temps, Json
    <3> QED
      BY <3>1, <3>2
  <2>4. \A e \in mayFind' : Ascends(e)'
    <3>1. Ascends(d)
      BY <1>3, <2>3, SameAscends DEF KInv
    <3>2. \A e \in mayFind' : Ascends(e)
      BY <2>2, <3>1 DEF KInv
    <3> QED
      BY <3>2 DEF Ascends, Json
  <2>5. Contents(d) \subseteq Contents(dir)
    BY <2>3 DEF Contents
  <2>6. ASSUME NEW c \in before \cup {saves},
               Cardinality(Newer(c, before \cup {saves})) + Cardinality(Temps(dir)) < MaxVersions
        PROVE  c \in Contents(d)
    <3>1. c \in Contents(dir)
      BY <2>6, <1>1 DEF KInv, NewestKept
    <3>2. PICK m \in Json(dir) : c = dir[m]
      BY <3>1 DEF Contents
    <3>3. CASE m = x
      <4>1. x \in DOMAIN dir
        BY <3>2, <3>3 DEF Json
      <4>2. ~(Cardinality(Newer(dir[x], before \cup {saves})) + Cardinality(Temps(dir)) < MaxVersions)
        BY <1>1, <4>1, OthersAreNewer
      <4> QED
        BY <2>6, <3>2, <3>3, <4>2
    <3>4. CASE m # x
      BY <2>3, <3>2, <3>4 DEF Contents
    <3> QED
      BY <3>3, <3>4
  <2>7. NewestKept'
    <3>1. Contents(d) \subseteq before \cup {saves}
      BY <2>5, <1>1 DEF KInv, NewestKept
    <3>2. /\ Contents(dir') = Contents(d) /\ Temps(dir') = Temps(dir)
      BY <2>2, <2>3
    <3>3. \A c \in before \cup {saves} :
            Cardinality(Newer(c, before \cup {saves})) + Cardinality(Temps(dir')) < MaxVersions
              => c \in Contents(dir')
      BY <2>6, <3>2
    <3>4. Contents(dir)' = Contents(dir') /\ Temps(dir)' = Temps(dir')
      BY DEF Contents, Temps, Json
    <3>5. Contents(dir)' \subseteq before' \cup {saves'}
      BY <1>1, <3>1, <3>2, <3>4
    <3>6. \A c \in before' \cup {saves'} :
            Cardinality(Newer(c, before' \cup {saves'})) + Cardinality(Temps(dir)') < MaxVersions
              => c \in Contents(dir)'
      BY <1>1, <3>3, <3>4
    <3> QED
      BY <3>5, <3>6 DEF NewestKept, Newer
  <2>8. StillListed'
    <3>1. ASSUME NEW m \in all' PROVE m \in DOMAIN dir' \/ (m \in Oldest(all') /\ ~m.temp)
      <4>1. m \in all /\ m # n
        BY <1>2, <3>1
      <4>2. CASE m = x
        <5>1. \A k \in all : n.version <= k.version
          BY DEF Oldest
        <5>2. m \in Oldest(all)
          BY <4>1, <4>2, <5>1, <1>5 DEF Oldest
        <5> QED
          BY <5>2, <3>1, <1>4, <1>5, <4>2
      <4>3. CASE m # x
        <5>1. m \in DOMAIN dir \/ (m \in Oldest(all) /\ ~m.temp)
          BY <4>1, <1>1 DEF KInv, StillListed
        <5> QED
          BY <5>1, <2>1, <2>2, <1>4, <3>1, <4>3
      <4> QED
        BY <4>2, <4>3
    <3> QED
      BY <3>1, <1>4 DEF StillListed, Oldest
  <2> QED
    BY <2>4, <2>7, <2>8, <1>6 DEF KInv
<1> QED
  BY <1>2, <1>7, <1>8

LEMMA RenameKeepsNewest ==
  ASSUME IInv, KInv, RenameTemp
  PROVE  KInv'
<1> DEFINE e == Without(dir, Temp(next))
           d == With(e, Version(next), saves)
<1>1. /\ pc = "rename" /\ pc' = "syncDir" /\ dir' = d /\ mayFind' = mayFind \cup {d}
      /\ saves' = saves /\ before' = before
  BY DEF RenameTemp, ChangeDir, localVars
<1>2. /\ IsDir(dir) /\ dir \in mayFind /\ next \in Nat \ {0} /\ saves \in Nat
      /\ \A n \in DOMAIN dir : n.version < next \/ n = Temp(next)
      /\ \A n \in Json(dir) : dir[n] < saves
  BY <1>1 DEF IInv, TypeOK, WritesNew, Writing, Numbered
<1>3. Json(e) = Json(dir) /\ \A n \in Json(e) : e[n] = dir[n]
  BY <1>2, TempIsNoVersion DEF IsDir
<1>4. DOMAIN d = DOMAIN e \cup {Version(next)} /\ d[Version(next)] = saves
      /\ \A m \in DOMAIN e : m # Version(next) => d[m] = e[m]
  <2> HIDE DEF e
  <2>1. ASSUME NEW m \in DOMAIN e, m # Version(next) PROVE d[m] = e[m]
    BY <2>1 DEF With
  <2>2. DOMAIN d = DOMAIN e \cup {Version(next)} /\ d[Version(next)] = saves
    BY DEF With
  <2> QED
    BY <2>1, <2>2
<1> HIDE DEF e, d
<1>5. \A n \in Json(dir) : n \in Names /\ n.version \in Nat /\ n.version < next
                           /\ n # Version(next) /\ n \in DOMAIN e
  <2> TAKE n \in Json(dir)
  <2>1. n \in Names /\ ~n.temp /\ n \in DOMAIN dir /\ n \in DOMAIN e
    BY <1>2, <1>3 DEF IsDir, Json
  <2>2. n # Temp(next) /\ n.version \in Nat
    BY <2>1, NamesDiffer
  <2>3. n.version < next
    BY <1>2, <2>1, <2>2
  <2> QED
    BY <1>2, <2>1, <2>2, <2>3, NamesDiffer
<1>6. Json(d) = Json(dir) \cup {Version(next)} /\ \A n \in Json(dir) : d[n] = dir[n]
  <2>1. Json(d) = Json(e) \cup {Version(next)}
    BY <1>4, NamesDiffer DEF Json
  <2> QED
    BY <2>1, <1>3, <1>4, <1>5
<1>7. Ascends(d)
  <2> SUFFICES ASSUME NEW m \in Json(d), NEW n \in Json(d), m.version < n.version
               PROVE  d[m] < d[n]
    BY DEF Ascends
  <2>1. CASE n = Version(next)
    <3>1. m # Version(next)
      BY <1>2, <2>1, NamesDiffer
    <3>2. m \in Json(dir)
      BY <3>1, <1>6
    <3> QED
      BY <2>1, <3>2, <1>2, <1>4, <1>6
  <2>2. CASE n # Version(next)
    <3>1. n \in Json(dir) /\ n.version < next /\ n.version \in Nat
      BY <2>2, <1>5, <1>6
    <3>2. m # Version(next)
      BY <3>1, <1>2, NamesDiffer
    <3>3. m \in Json(dir) /\ Ascends(dir)
      BY <3>2, <1>2, <1>6 DEF KInv
    <3> QED
      BY <3>1, <3>3, <1>6 DEF Ascends
  <2> QED
    BY <2>1, <2>2
<1>8. Contents(d) = before \cup {saves}
  <2>1. Contents(dir) = before
    BY <1>1 DEF KInv, NothingGone, Writing
  <2>2. Contents(d) = Contents(dir) \cup {saves}
    BY <1>4, <1>6 DEF Contents
  <2> QED
    BY <2>1, <2>2
<1>9. \A f \in mayFind' : Ascends(f)'
  <2>1. \A f \in mayFind' : Ascends(f)
    BY <1>1, <1>7 DEF KInv
  <2> QED
    BY <2>1 DEF Ascends, Json
<1>10. NothingGone' /\ NewestKept' /\ StillListed'
  BY <1>1, <1>8 DEF NothingGone, NewestKept, StillListed, Writing, Contents, Json
<1> QED
  BY <1>9, <1>10 DEF KInv

\* Opening and removing a temporary file leaves all versions as they are.
LEMMA TempKeepsNewest ==
  ASSUME IInv, KInv, NEW d, d = With(dir, Temp(next), saves) \/ d = Without(dir, Temp(next)),
         ChangeDir(d)
  PROVE  Contents(dir') = Contents(dir) /\ \A e \in mayFind' : Ascends(e)
<1>1. IsDir(dir) /\ dir \in mayFind /\ next \in Nat \ {0}
  BY DEF IInv, TypeOK, Numbered
<1>2. Json(d) = Json(dir) /\ \A n \in Json(dir) : d[n] = dir[n]
  BY <1>1, TempIsNoVersion DEF IsDir
<1>3. dir' = d /\ mayFind' = mayFind \cup {d}
  BY DEF ChangeDir
<1>4. Contents(d) = Contents(dir)
  BY <1>2 DEF Contents
<1>5. Ascends(d)
  BY <1>1, <1>2, SameAscends DEF KInv
<1> QED
  BY <1>3, <1>4, <1>5 DEF KInv

LEMMA InitKeepsNewest == Init => KInv
<1> SUFFICES ASSUME Init PROVE KInv
  OBVIOUS
<1>1. dir = NoFile /\ mayFind = {dir} /\ pc = "idle"
  BY DEF Init
<1>2. DOMAIN dir = {}
  BY <1>1 DEF NoFile
<1>3. Json(dir) = {}
  BY <1>2 DEF Json
<1>4. Ascends(dir)
  BY <1>3 DEF Ascends
<1> QED
  BY <1>1, <1>4 DEF KInv, NothingGone, NewestKept, StillListed, Writing

LEMMA NextKeepsNewest ==
  ASSUME IInv, KInv, [Next]_vars
  PROVE  KInv'
<1>1. ASSUME UNCHANGED <<dir, mayFind>>
      PROVE  /\ (\A d \in mayFind : Ascends(d))' /\ Contents(dir)' = Contents(dir)
             /\ Temps(dir)' = Temps(dir)
  BY <1>1 DEF KInv, Ascends, Json, Contents, Temps
<1>2. CASE SaveBegin
  <2>1. /\ UNCHANGED <<dir, mayFind>> /\ pc' = "open" /\ before' = Contents(dir)
    BY <1>2 DEF SaveBegin, fileVars
  <2> QED
    BY <1>1, <2>1 DEF KInv, NothingGone, NewestKept, StillListed, Writing
<1>3. CASE OpenTemp
  <2>1. /\ pc = "open" /\ pc' = "write" /\ before' = before
        /\ ChangeDir(With(dir, Temp(next), saves))
    BY <1>3 DEF OpenTemp
  <2>2. Contents(dir') = Contents(dir) /\ \A e \in mayFind' : Ascends(e)
    BY <2>1, TempKeepsNewest
  <2>3. Contents(dir)' = Contents(dir) /\ (\A e \in mayFind : Ascends(e))'
    BY <2>2 DEF Contents, Json, Ascends
  <2> QED
    BY <2>1, <2>3 DEF KInv, NothingGone, NewestKept, StillListed, Writing
<1>4. CASE WriteTemp \/ SyncTemp
  <2>1. /\ UNCHANGED <<dir, mayFind, before>> /\ pc \in Writing /\ pc' \in {"sync", "rename"}
    BY <1>4 DEF WriteTemp, SyncTemp, Writing
  <2> QED
    BY <1>1, <2>1 DEF KInv, NothingGone, NewestKept, StillListed, Writing
<1>5. CASE GiveUp
  <2>1. pc' = "idle"
    BY <1>5 DEF GiveUp
  <2>2. (\A e \in mayFind : Ascends(e))'
    <3>1. CASE UNCHANGED <<dir, mayFind>>
      BY <1>1, <3>1
    <3>2. CASE ChangeDir(Without(dir, Temp(next)))
      <4>1. \A e \in mayFind' : Ascends(e)
        BY <3>2, TempKeepsNewest
      <4> QED
        BY <4>1 DEF Ascends, Json
    <3> QED
      BY <1>5, <3>1, <3>2 DEF GiveUp
  <2> QED
    BY <2>1, <2>2 DEF KInv, NothingGone, NewestKept, StillListed, Writing
<1>6. CASE SyncDirectory
  <2>1. /\ dir' = dir /\ saves' = saves /\ before' = before /\ pc = "syncDir" /\ pc' = "verify"
        /\ mayFind' = {dir} \/ mayFind' = mayFind
    BY <1>6 DEF SyncDirectory
  <2>2. \A e \in mayFind' : Ascends(e)
    BY <2>1 DEF KInv, IInv, Numbered
  <2>3. Contents(dir)' = Contents(dir) /\ (\A e \in mayFind : Ascends(e))'
    BY <2>1, <2>2 DEF Contents, Json, Ascends
  <2> QED
    BY <2>1, <2>3 DEF KInv, NothingGone, NewestKept, StillListed, Writing
<1>7. CASE Verify
  <2>1. /\ UNCHANGED <<dir, mayFind, saves, before>> /\ pc = "verify"
        /\ (pc' = "prune" /\ all' = DOMAIN dir) \/ pc' = "idle"
    BY <1>7 DEF Verify, fileVars
  <2>2. Contents(dir) = before \cup {saves}
    BY <2>1 DEF KInv, NothingGone
  <2>3. IsFiniteSet(DOMAIN dir)
    BY DirIsFinite DEF IInv, TypeOK, Numbered
  <2>4. NewestKept'
    BY <1>1, <2>1, <2>2 DEF NewestKept
  <2>5. StillListed'
    BY <2>1, <2>3 DEF StillListed
  <2> QED
    BY <1>1, <2>1, <2>4, <2>5 DEF KInv, NothingGone, Writing
<1>8. CASE SaveReturn
  <2>1. /\ UNCHANGED <<dir, mayFind, saves, before>> /\ pc = "prune" /\ pc' = "done"
    BY <1>8 DEF SaveReturn, fileVars, localVars
  <2>2. NewestKept'
    BY <1>1, <2>1 DEF KInv, NewestKept, Newer
  <2> QED
    BY <1>1, <2>1, <2>2 DEF KInv, NothingGone, StillListed, Writing
<1>9. CASE Rest \/ Crash
  <2>1. UNCHANGED <<dir, mayFind>> /\ pc' = "idle"
    BY <1>9 DEF Rest, Crash, fileVars
  <2> QED
    BY <1>1, <2>1 DEF KInv, NothingGone, NewestKept, StillListed, Writing
<1>10. CASE PowerLoss
  <2>1. dir' \in mayFind /\ mayFind' = {dir'} /\ pc' = "idle"
    BY <1>10 DEF PowerLoss
  <2>2. (\A e \in mayFind : Ascends(e))'
    BY <2>1 DEF KInv, Ascends, Json
  <2> QED
    BY <2>1, <2>2 DEF KInv, NothingGone, NewestKept, StillListed, Writing
<1>11. CASE UNCHANGED vars
  <2>1. UNCHANGED <<dir, mayFind, pc, saves, all, before>>
    BY <1>11 DEF vars, fileVars, localVars
  <2>2. NewestKept'
    BY <1>1, <2>1 DEF KInv, NewestKept, Newer
  <2> QED
    BY <1>1, <2>1, <2>2 DEF KInv, NothingGone, StillListed, Oldest
<1> QED
  BY <1>2, <1>3, <1>4, <1>5, <1>6, <1>7, <1>8, <1>9, <1>10, <1>11,
     RenameKeepsNewest, PruneKeepsNewest
  DEF Next, WriteAtomically

\* Whatever temporary files crashes have left and whatever cannot be removed, a save
\* that ran to its end has dropped nothing but what is over the limit, with each
\* temporary file costing one version (BackupManager::save, versions).
THEOREM NewestAreKept == Spec => []KeepsTheNewest
<1>1. Init => IInv /\ KInv
  BY InitSafe, InitKeepsNewest
<1>2. (IInv /\ KInv) /\ [Next]_vars => (IInv /\ KInv)'
  BY NextSafe, NextKeepsNewest
<1>3. KInv => KeepsTheNewest
  BY DEF KInv, NewestKept, KeepsTheNewest, Temps
<1> QED
  BY <1>1, <1>2, <1>3, PTL DEF Spec

HIDE BackupAssumption

-----------------------------------------------------------------------------
(****************************************************************************)
(* SceneEngine: the scene shown as active is the one that is played.       *)
(****************************************************************************)
LEMMA SceneFacts ==
  /\ Fresh \in Settings /\ MaxSlots \in Nat /\ MaxScenes \in Nat
  /\ \A preset \in Presets :
       /\ preset.chain \in Seq([slot : 0 .. MaxSlots - 1, module : Modules])
       /\ Scenes!Sorted(preset.chain)
       /\ preset.scenes \in Seq(Seq(Scenes!Override))
  /\ NoChain \notin Seq(Scenes!Slot)
BY PartsAssumption DEF Scenes!SceneAssumption, Scenes!Slot, Scenes!Override

LEMMA ElementsOf ==
  ASSUME NEW A, NEW s \in Seq(A)
  PROVE  Len(s) \in Nat /\ DOMAIN s = 1 .. Len(s) /\ \A i \in DOMAIN s : s[i] \in A
OBVIOUS

LEMMA SequenceOf ==
  ASSUME NEW A, NEW n \in Nat, NEW f \in [1 .. n -> A]
  PROVE  f \in Seq(A) /\ Len(f) = n
OBVIOUS

LEMMA MinIsLeast ==
  ASSUME NEW S \in SUBSET Nat, S # {}
  PROVE  Scenes!Min(S) \in S /\ \A t \in S : Scenes!Min(S) <= t
BY LeastIn DEF Scenes!Min

LEMMA MaxIsGreatest ==
  ASSUME NEW n \in Nat, NEW S \in SUBSET (1 .. n), S # {}
  PROVE  Scenes!Max(S) \in S /\ \A t \in S : Scenes!Max(S) >= t
<1>1. S \in SUBSET Nat /\ \A t \in S : t <= n
  OBVIOUS
<1>2. \E s \in S : \A t \in S : s >= t
  BY <1>1, GreatestIn
<1> QED
  BY <1>2 DEF Scenes!Max

(* Chains *)
IsChain(c) == c \in Seq(Scenes!Slot) /\ Scenes!Sorted(c)

LEMMA ChainFields ==
  ASSUME NEW c \in Seq(Scenes!Slot)
  PROVE  /\ Len(c) \in Nat /\ DOMAIN c = 1 .. Len(c)
         /\ \A i \in DOMAIN c : /\ c[i] \in Scenes!Slot
                                /\ c[i].slot \in 0 .. MaxSlots - 1 /\ c[i].slot \in Nat
                                /\ c[i].module \in Modules /\ c[i].setting \in Settings
<1>1. \A i \in DOMAIN c : c[i] \in Scenes!Slot
  OBVIOUS
<1>2. \A s \in Scenes!Slot : /\ s.slot \in 0 .. MaxSlots - 1 /\ s.slot \in Nat
                      /\ s.module \in Modules /\ s.setting \in Settings
  BY SceneFacts DEF Scenes!Slot
<1> QED
  BY <1>1, <1>2

LEMMA PresetIsChain ==
  ASSUME NEW preset \in Presets
  PROVE  IsChain(Scenes!Build(preset.chain))
<1> DEFINE p == preset.chain
<1>1. p \in Seq([slot : 0 .. MaxSlots - 1, module : Modules]) /\ Scenes!Sorted(p)
  BY SceneFacts
<1> HIDE DEF p
<1>2. Len(p) \in Nat /\ DOMAIN p = 1 .. Len(p)
  BY <1>1
<1>3. \A i \in DOMAIN p : p[i] \in [slot : 0 .. MaxSlots - 1, module : Modules]
  BY <1>1, ElementsOf
<1>4. \A i \in DOMAIN p : p[i].slot \in 0 .. MaxSlots - 1 /\ p[i].module \in Modules
  BY <1>3
<1>5. \A i \in 1 .. Len(p) :
        [slot |-> p[i].slot, module |-> p[i].module, setting |-> Fresh] \in Scenes!Slot
  BY <1>2, <1>4, SceneFacts DEF Scenes!Slot
<1>6. Scenes!Build(p) \in [1 .. Len(p) -> Scenes!Slot]
  BY <1>2, <1>5 DEF Scenes!Build
<1>7. Scenes!Build(p) \in Seq(Scenes!Slot)
  BY <1>2, <1>6
<1>8. Scenes!Sorted(Scenes!Build(p))
  BY <1>1 DEF Scenes!Build, Scenes!Sorted
<1> QED
  BY <1>7, <1>8 DEF IsChain, p

\* The slots whose ids are below the number of slots are the first ones.
LEMMA SnapshotIsChain ==
  ASSUME NEW c, IsChain(c)
  PROVE  IsChain(Scenes!Snapshot(c))
<1>1. c \in Seq(Scenes!Slot) /\ Len(c) \in Nat /\ DOMAIN c = 1 .. Len(c)
  BY DEF IsChain
<1>2. \A i \in DOMAIN c : c[i].slot \in Nat
  BY <1>1, ChainFields
<1> DEFINE S == {n \in 0 .. Len(c) : \A i \in DOMAIN c : c[i].slot < Len(c) => i <= n}
           IsCount(n) == \A i \in DOMAIN c : i <= n <=> c[i].slot < Len(c)
<1>3. Len(c) \in S
  BY <1>1
<1>4. S \in SUBSET Nat /\ S # {}
  BY <1>3
<1>5. PICK n \in S : \A m \in S : n <= m
  BY <1>4, LeastIn
<1>6. n \in 0 .. Len(c) /\ \A i \in DOMAIN c : c[i].slot < Len(c) => i <= n
  BY <1>5
<1>7. ASSUME NEW i \in DOMAIN c, i <= n PROVE c[i].slot < Len(c)
  <2>1. n - 1 \notin S /\ n - 1 \in 0 .. Len(c)
    BY <1>1, <1>5, <1>6, <1>7
  <2>2. PICK j \in DOMAIN c : c[j].slot < Len(c) /\ ~(j <= n - 1)
    BY <2>1
  <2>3. j = n
    BY <1>1, <1>6, <2>2
  <2>4. CASE i = n
    BY <2>2, <2>3, <2>4
  <2>5. CASE i # n
    <3>1. i < j
      BY <1>1, <1>6, <1>7, <2>3, <2>5
    <3>2. c[i].slot < c[j].slot
      BY <3>1 DEF IsChain, Scenes!Sorted
    <3> QED
      BY <1>1, <1>2, <2>2, <3>2
  <2> QED
    BY <2>4, <2>5
<1>8. IsCount(n) /\ n \in 0 .. Len(c)
  BY <1>6, <1>7
<1> DEFINE k == CHOOSE m \in 0 .. Len(c) : IsCount(m)
<1> HIDE DEF IsCount, S
<1>9. k \in 0 .. Len(c)
  BY <1>8
<1>10. Scenes!Snapshot(c) = SubSeq(c, 1, k)
  BY DEF Scenes!Snapshot, IsCount
<1> HIDE DEF k
<1>11. /\ SubSeq(c, 1, k) \in Seq(Scenes!Slot) /\ Len(SubSeq(c, 1, k)) = k
       /\ \A i \in 1 .. k : SubSeq(c, 1, k)[i] = c[i]
  BY <1>1, <1>9
<1>12. Scenes!Sorted(SubSeq(c, 1, k))
  <2> DEFINE s == SubSeq(c, 1, k)
  <2>1. DOMAIN s = 1 .. k
    BY <1>11
  <2> HIDE DEF s
  <2>2. ASSUME NEW i \in DOMAIN s, NEW j \in DOMAIN s, i < j
        PROVE  s[i].slot < s[j].slot
    <3>1. i \in 1 .. k /\ j \in 1 .. k /\ i \in DOMAIN c /\ j \in DOMAIN c
      BY <1>1, <1>9, <2>1
    <3>2. s[i] = c[i] /\ s[j] = c[j]
      BY <1>11, <3>1 DEF s
    <3> QED
      BY <2>2, <3>1, <3>2 DEF IsChain, Scenes!Sorted
  <2> QED
    BY <2>2 DEF Scenes!Sorted, s
<1> QED
  BY <1>10, <1>11, <1>12 DEF IsChain

LEMMA RemovedIsChain ==
  ASSUME NEW c, IsChain(c), NEW n \in DOMAIN c
  PROVE  IsChain(Scenes!RemoveAt(c, n))
<1> DEFINE low == SubSeq(c, 1, n - 1)
           high == SubSeq(c, n + 1, Len(c))
           d == low \o high
<1>1. c \in Seq(Scenes!Slot) /\ Len(c) \in Nat /\ DOMAIN c = 1 .. Len(c)
  BY DEF IsChain
<1>2. low \in Seq(Scenes!Slot) /\ Len(low) = n - 1
  BY <1>1
<1>3. \A k \in 1 .. n - 1 : low[k] = c[k]
  BY <1>1
<1>4. high \in Seq(Scenes!Slot) /\ Len(high) = Len(c) - n
  BY <1>1
<1>5. \A k \in 1 .. Len(c) - n : high[k] = c[n + k]
  BY <1>1
<1>6. Scenes!RemoveAt(c, n) = d
  BY DEF Scenes!RemoveAt
<1> HIDE DEF low, high
<1>7. d \in Seq(Scenes!Slot) /\ Len(d) = Len(low) + Len(high) /\ DOMAIN d = 1 .. Len(low) + Len(high)
  BY <1>2, <1>4
<1>8. /\ \A k \in 1 .. Len(low) : d[k] = low[k]
      /\ \A k \in Len(low) + 1 .. Len(low) + Len(high) : d[k] = high[k - Len(low)]
  BY <1>2, <1>4
<1> HIDE DEF d
<1>9. DOMAIN d = 1 .. Len(c) - 1
  BY <1>1, <1>2, <1>4, <1>7
<1>10. ASSUME NEW k \in 1 .. Len(c) - 1
       PROVE  d[k] = c[IF k < n THEN k ELSE k + 1]
  <2>1. CASE k < n
    <3>1. k \in 1 .. Len(low) /\ k \in 1 .. n - 1
      BY <1>1, <1>2, <2>1
    <3> QED
      BY <1>3, <1>8, <2>1, <3>1
  <2>2. CASE ~(k < n)
    <3>1. k \in Len(low) + 1 .. Len(low) + Len(high)
      BY <1>1, <1>2, <1>4, <2>2
    <3>2. k - Len(low) \in 1 .. Len(c) - n /\ n + (k - Len(low)) = k + 1
      BY <1>1, <1>2, <2>2
    <3> QED
      BY <1>5, <1>8, <2>2, <3>1, <3>2
  <2> QED
    BY <2>1, <2>2
<1>11. ASSUME NEW i \in DOMAIN d, NEW j \in DOMAIN d, i < j
       PROVE  d[i].slot < d[j].slot
  <2> DEFINE a == IF i < n THEN i ELSE i + 1
             b == IF j < n THEN j ELSE j + 1
  <2>1. a \in DOMAIN c /\ b \in DOMAIN c /\ a < b
    BY <1>1, <1>9, <1>11
  <2>2. d[i] = c[a] /\ d[j] = c[b]
    BY <1>9, <1>10
  <2> HIDE DEF a, b
  <2> QED
    BY <2>1, <2>2 DEF IsChain, Scenes!Sorted
<1> QED
  BY <1>6, <1>7, <1>11 DEF IsChain, Scenes!Sorted

LEMMA AddedIsChain ==
  ASSUME NEW c, IsChain(c), Scenes!NextSlot(c) < MaxSlots, NEW m \in Modules
  PROVE  IsChain(Append(c, [slot |-> Scenes!NextSlot(c), module |-> m, setting |-> Fresh]))
<1> DEFINE s == [slot |-> Scenes!NextSlot(c), module |-> m, setting |-> Fresh]
           d == Append(c, s)
<1>1. c \in Seq(Scenes!Slot) /\ Len(c) \in Nat /\ DOMAIN c = 1 .. Len(c)
  BY DEF IsChain
<1>2. \A i \in DOMAIN c : c[i].slot \in Nat
  BY <1>1, ChainFields
<1>3. Scenes!NextSlot(c) \in Nat /\ \A i \in DOMAIN c : c[i].slot < Scenes!NextSlot(c)
  <2>1. CASE c = << >>
    BY <2>1 DEF Scenes!NextSlot
  <2>2. CASE c # << >>
    <3>1. Len(c) \in DOMAIN c
      BY <1>1, <2>2
    <3>2. Scenes!NextSlot(c) = 1 + c[Len(c)].slot
      BY <2>2 DEF Scenes!NextSlot, Scenes!Last
    <3>3. ASSUME NEW i \in DOMAIN c PROVE c[i].slot < Scenes!NextSlot(c)
      <4>1. CASE i = Len(c)
        BY <1>2, <3>2, <4>1
      <4>2. CASE i # Len(c)
        <5>1. i < Len(c)
          BY <1>1, <4>2
        <5>2. c[i].slot < c[Len(c)].slot
          BY <3>1, <5>1 DEF IsChain, Scenes!Sorted
        <5> QED
          BY <1>2, <3>1, <3>2, <5>2
      <4> QED
        BY <4>1, <4>2
    <3> QED
      BY <1>2, <3>1, <3>2, <3>3
  <2> QED
    BY <2>1, <2>2
<1>4. Scenes!NextSlot(c) \in 0 .. MaxSlots - 1
  BY <1>3, SceneFacts
<1>5. s \in Scenes!Slot
  BY <1>4, SceneFacts DEF Scenes!Slot
<1>6. s.slot = Scenes!NextSlot(c)
  OBVIOUS
<1> HIDE DEF s
<1>7. d \in Seq(Scenes!Slot) /\ DOMAIN d = 1 .. Len(c) + 1 /\ d[Len(c) + 1] = s
  BY <1>1, <1>5
<1>8. \A i \in 1 .. Len(c) : d[i] = c[i]
  BY <1>1, <1>5
<1> HIDE DEF d
<1>9. ASSUME NEW i \in DOMAIN d, NEW j \in DOMAIN d, i < j
      PROVE  d[i].slot < d[j].slot
  <2>1. i \in 1 .. Len(c) /\ i \in DOMAIN c
    BY <1>1, <1>7, <1>9
  <2>2. CASE j = Len(c) + 1
    BY <1>3, <1>6, <1>7, <1>8, <2>1, <2>2
  <2>3. CASE j # Len(c) + 1
    <3>1. j \in 1 .. Len(c) /\ j \in DOMAIN c
      BY <1>1, <1>7, <2>3
    <3> QED
      BY <1>8, <1>9, <2>1, <3>1 DEF IsChain, Scenes!Sorted
  <2> QED
    BY <2>2, <2>3
<1> QED
  BY <1>7, <1>9 DEF IsChain, Scenes!Sorted, d, s

(* Scenes on a chain *)
\* Chains that differ in the settings of their modules alone.
SameSlots(c, d) ==
  /\ Len(c) = Len(d) /\ DOMAIN c = DOMAIN d
  /\ \A i \in DOMAIN c : c[i].slot = d[i].slot /\ c[i].module = d[i].module

LEMMA FirstWithModule ==
  ASSUME NEW c \in Seq(Scenes!Slot), NEW m, Scenes!HasModule(c, m)
  PROVE  /\ Scenes!FirstOf(c, m) \in DOMAIN c /\ c[Scenes!FirstOf(c, m)].module = m
         /\ Scenes!SlotIndexOf(c, m) = c[Scenes!FirstOf(c, m)].slot
<1> DEFINE S == {i \in DOMAIN c : c[i].module = m}
<1>1. S \in SUBSET Nat /\ S # {}
  BY ChainFields DEF Scenes!HasModule
<1>2. Scenes!Min(S) \in S
  BY <1>1, MinIsLeast
<1>3. Scenes!FirstOf(c, m) = Scenes!Min(S)
  BY DEF Scenes!FirstOf
<1> QED
  BY <1>2, <1>3 DEF Scenes!SlotIndexOf

LEMMA SameSlotsKeep ==
  ASSUME NEW c \in Seq(Scenes!Slot), NEW d, SameSlots(c, d)
  PROVE  /\ Scenes!Sorted(d) <=> Scenes!Sorted(c)
         /\ \A m : /\ Scenes!HasModule(d, m) <=> Scenes!HasModule(c, m)
                   /\ Scenes!FirstOf(d, m) = Scenes!FirstOf(c, m)
                   /\ Scenes!HasModule(c, m) => Scenes!SlotIndexOf(d, m) = Scenes!SlotIndexOf(c, m)
         /\ \A scenes : Scenes!ScenesFit(scenes, d) <=> Scenes!ScenesFit(scenes, c)
         /\ \A scenes : Scenes!ScenesFit(scenes, c) => Scenes!BankOf(scenes, d) = Scenes!BankOf(scenes, c)
<1> USE DEF SameSlots
<1>1. Scenes!Sorted(d) <=> Scenes!Sorted(c)
  BY DEF Scenes!Sorted
<1>3. ASSUME NEW m PROVE Scenes!FirstOf(d, m) = Scenes!FirstOf(c, m)
  <2>1. {i \in DOMAIN c : c[i].module = m} = {i \in DOMAIN d : d[i].module = m}
    OBVIOUS
  <2> QED
    BY <2>1 DEF Scenes!FirstOf
<1>4. \A m : Scenes!HasModule(d, m) <=> Scenes!HasModule(c, m)
  BY DEF Scenes!HasModule
<1>5. ASSUME NEW m, Scenes!HasModule(c, m) PROVE Scenes!SlotIndexOf(d, m) = Scenes!SlotIndexOf(c, m)
  BY <1>3, <1>5, FirstWithModule DEF Scenes!SlotIndexOf
<1>6. ASSUME NEW scenes, Scenes!ScenesFit(scenes, c) PROVE Scenes!BankOf(scenes, d) = Scenes!BankOf(scenes, c)
  <2>1. ASSUME NEW k \in DOMAIN scenes
        PROVE  Scenes!Resolve(scenes[k], d) = Scenes!Resolve(scenes[k], c)
    BY <1>5, <1>6 DEF Scenes!Resolve, Scenes!ScenesFit
  <2> QED
    BY <2>1 DEF Scenes!BankOf
<1>7. \A scenes : Scenes!ScenesFit(scenes, d) <=> Scenes!ScenesFit(scenes, c)
  BY <1>4 DEF Scenes!ScenesFit
<1> QED
  BY <1>1, <1>3, <1>4, <1>5, <1>6, <1>7

LEMMA SceneIsResolved ==
  ASSUME NEW c \in Seq(Scenes!Slot), NEW scene \in Seq(Scenes!Override),
         \A k \in DOMAIN scene : Scenes!HasModule(c, scene[k].module)
  PROVE  Scenes!Resolve(scene, c) \in Seq(Scenes!Action)
<1>1. Len(scene) \in Nat /\ DOMAIN scene = 1 .. Len(scene)
  OBVIOUS
<1>2. \A k \in DOMAIN scene : scene[k] \in Scenes!Override
  BY ElementsOf
<1>3. \A k \in DOMAIN scene : scene[k].module \in Modules /\ scene[k].setting \in Settings
  BY <1>2 DEF Scenes!Override
<1>4. ASSUME NEW k \in DOMAIN scene
      PROVE  Scenes!SlotIndexOf(c, scene[k].module) \in 0 .. MaxSlots - 1
  BY FirstWithModule, ChainFields
<1>5. Scenes!Resolve(scene, c) \in [1 .. Len(scene) -> Scenes!Action]
  BY <1>1, <1>3, <1>4 DEF Scenes!Resolve, Scenes!Action
<1> QED
  BY <1>1, <1>5

LEMMA BankIsResolved ==
  ASSUME NEW c \in Seq(Scenes!Slot), NEW defs \in Seq(Seq(Scenes!Override)), Scenes!ScenesFit(defs, c)
  PROVE  Scenes!BankOf(defs, c) \in Seq(Seq(Scenes!Action)) /\ Len(Scenes!BankOf(defs, c)) = Len(defs)
<1>1. Len(defs) \in Nat /\ DOMAIN defs = 1 .. Len(defs) /\ \A k \in DOMAIN defs : defs[k] \in Seq(Scenes!Override)
  BY ElementsOf
<1>2. ASSUME NEW k \in DOMAIN defs PROVE Scenes!Resolve(defs[k], c) \in Seq(Scenes!Action)
  BY <1>1, SceneIsResolved DEF Scenes!ScenesFit
<1>3. Scenes!BankOf(defs, c) \in [1 .. Len(defs) -> Seq(Scenes!Action)]
  BY <1>1, <1>2 DEF Scenes!BankOf
<1> QED
  BY <1>1, <1>3, SequenceOf

LEMMA SavedSceneFits ==
  ASSUME NEW c \in Seq(Scenes!Slot)
  PROVE  Scenes!SceneOf(c) \in Seq(Scenes!Override)
<1>1. \A i \in DOMAIN c : [module |-> c[i].module, setting |-> c[i].setting] \in Scenes!Override
  BY ChainFields DEF Scenes!Override
<1>2. Scenes!SceneOf(c) \in [1 .. Len(c) -> Scenes!Override] /\ Len(c) \in Nat
  BY <1>1, ChainFields DEF Scenes!SceneOf
<1> QED
  BY <1>2

(* apply *)
MineOf(c, actions, i) ==
  {k \in DOMAIN actions : actions[k].slot = c[i].slot /\ c[i].slot < Len(c)}

LEMMA ApplyKeepsSlots ==
  ASSUME NEW c \in Seq(Scenes!Slot), NEW actions \in Seq(Scenes!Action)
  PROVE  Scenes!Applied(c, actions) \in Seq(Scenes!Slot) /\ SameSlots(c, Scenes!Applied(c, actions))
<1> DEFINE d == Scenes!Applied(c, actions)
<1>1. Len(c) \in Nat /\ DOMAIN c = 1 .. Len(c)
  BY ChainFields
<1>2. Len(actions) \in Nat /\ DOMAIN actions = 1 .. Len(actions)
  BY ElementsOf
<1>3. \A k \in DOMAIN actions : actions[k].setting \in Settings
  <2>1. \A k \in DOMAIN actions : actions[k] \in Scenes!Action
    BY ElementsOf
  <2> QED
    BY <2>1 DEF Scenes!Action
<1>4. d = [i \in DOMAIN c |-> IF MineOf(c, actions, i) = {} THEN c[i]
             ELSE [c[i] EXCEPT !.setting = actions[Scenes!Max(MineOf(c, actions, i))].setting]]
  BY DEF Scenes!Applied, MineOf
<1>5. ASSUME NEW i \in DOMAIN c
      PROVE  d[i] \in Scenes!Slot /\ d[i].slot = c[i].slot /\ d[i].module = c[i].module
  <2>1. c[i] \in Scenes!Slot
    BY ChainFields
  <2>2. CASE MineOf(c, actions, i) = {}
    BY <1>4, <2>1, <2>2
  <2>3. CASE MineOf(c, actions, i) # {}
    <3>1. MineOf(c, actions, i) \in SUBSET (1 .. Len(actions))
      BY <1>2 DEF MineOf
    <3>2. Scenes!Max(MineOf(c, actions, i)) \in MineOf(c, actions, i)
      BY <1>2, <2>3, <3>1, MaxIsGreatest
    <3>3. Scenes!Max(MineOf(c, actions, i)) \in DOMAIN actions
      BY <3>2 DEF MineOf
    <3>4. d[i] = [c[i] EXCEPT !.setting = actions[Scenes!Max(MineOf(c, actions, i))].setting]
      BY <1>4, <2>3
    <3> QED
      BY <1>3, <2>1, <3>3, <3>4 DEF Scenes!Slot
  <2> QED
    BY <2>2, <2>3
<1>6. DOMAIN d = 1 .. Len(c)
  BY <1>1, <1>4
<1> HIDE DEF d
<1>7. d \in [1 .. Len(c) -> Scenes!Slot]
  <2>1. d = [i \in 1 .. Len(c) |-> d[i]]
    BY <1>1, <1>4
  <2> QED
    BY <1>1, <1>5, <2>1
<1>8. d \in Seq(Scenes!Slot) /\ Len(d) = Len(c)
  BY <1>1, <1>7
<1> QED
  BY <1>1, <1>5, <1>6, <1>8 DEF SameSlots, d

\* A scene is in force on a chain it was applied to.
LEMMA ApplyIsInForce ==
  ASSUME NEW c, IsChain(c), NEW scene \in Seq(Scenes!Override),
         \A k \in DOMAIN scene : Scenes!HasModule(c, scene[k].module)
  PROVE  Scenes!InForce(scene, Scenes!Applied(c, Scenes!Resolve(scene, c)))
<1> DEFINE actions == Scenes!Resolve(scene, c)
           d == Scenes!Applied(c, actions)
<1>1. c \in Seq(Scenes!Slot) /\ DOMAIN c = 1 .. Len(c) /\ Len(c) \in Nat /\ \A i \in DOMAIN c : c[i] \in Scenes!Slot /\ c[i].slot \in Nat
  BY ChainFields DEF IsChain
<1>2. actions \in Seq(Scenes!Action)
  BY <1>1, SceneIsResolved
<1>3. DOMAIN actions = DOMAIN scene /\ DOMAIN scene = 1 .. Len(scene) /\ Len(scene) \in Nat
  BY DEF Scenes!Resolve
<1>4. \A k \in DOMAIN scene : actions[k].slot = Scenes!SlotIndexOf(c, scene[k].module)
                              /\ actions[k].setting = scene[k].setting
  BY DEF Scenes!Resolve
<1> HIDE DEF actions
<1>5. d \in Seq(Scenes!Slot) /\ SameSlots(c, d)
  BY <1>1, <1>2, ApplyKeepsSlots
<1>6. \A m : /\ Scenes!HasModule(d, m) <=> Scenes!HasModule(c, m)
             /\ Scenes!FirstOf(d, m) = Scenes!FirstOf(c, m)
             /\ Scenes!HasModule(c, m) => Scenes!SlotIndexOf(d, m) = Scenes!SlotIndexOf(c, m)
  <2> HIDE DEF d
  <2> QED
    BY <1>1, <1>5, SameSlotsKeep
<1>7. Len(d) = Len(c)
  BY <1>5 DEF SameSlots
<1>8. ASSUME NEW i \in DOMAIN c, NEW j \in DOMAIN c, c[i].slot = c[j].slot PROVE i = j
  <2>1. ~(i < j) /\ ~(j < i)
    BY <1>1, <1>8 DEF IsChain, Scenes!Sorted
  <2> QED
    BY <1>1, <2>1
<1>9. ASSUME NEW k \in DOMAIN scene,
             \A l \in DOMAIN scene : scene[l].module = scene[k].module => l <= k,
             Scenes!SlotIndexOf(c, scene[k].module) < Len(c)
      PROVE  d[Scenes!FirstOf(c, scene[k].module)].setting = scene[k].setting
  <2>1. PICK i : i = Scenes!FirstOf(c, scene[k].module)
    OBVIOUS
  <2>2. i \in DOMAIN c /\ c[i].module = scene[k].module /\ actions[k].slot = c[i].slot /\ c[i].slot < Len(c)
    BY <1>1, <1>4, <1>9, <2>1, FirstWithModule
  <2>3. k \in MineOf(c, actions, i) /\ MineOf(c, actions, i) \in SUBSET (1 .. Len(scene))
    BY <1>3, <2>2 DEF MineOf
  <2>4. ASSUME NEW l \in MineOf(c, actions, i) PROVE l <= k
    <3>1. l \in DOMAIN scene /\ actions[l].slot = c[i].slot
      BY <1>3 DEF MineOf
    <3>2. PICK j : j = Scenes!FirstOf(c, scene[l].module)
      OBVIOUS
    <3>3. j \in DOMAIN c /\ c[j].module = scene[l].module /\ actions[l].slot = c[j].slot
      BY <1>1, <1>4, <3>1, <3>2, FirstWithModule
    <3>4. j = i
      BY <1>8, <2>2, <3>1, <3>3
    <3> QED
      BY <1>9, <2>2, <3>1, <3>3, <3>4
  <2>5. Scenes!Max(MineOf(c, actions, i)) = k
    <3>1. /\ Scenes!Max(MineOf(c, actions, i)) \in MineOf(c, actions, i)
          /\ \A l \in MineOf(c, actions, i) : Scenes!Max(MineOf(c, actions, i)) >= l
      BY <1>3, <2>3, MaxIsGreatest
    <3>2. Scenes!Max(MineOf(c, actions, i)) >= k /\ Scenes!Max(MineOf(c, actions, i)) <= k
      BY <2>3, <2>4, <3>1
    <3>3. Scenes!Max(MineOf(c, actions, i)) \in Nat /\ k \in Nat
      BY <1>3, <2>3, <3>1
    <3> QED
      BY <3>2, <3>3
  <2>6. d[i] = [c[i] EXCEPT !.setting = actions[Scenes!Max(MineOf(c, actions, i))].setting]
    BY <2>2, <2>3 DEF Scenes!Applied, MineOf
  <2>7. d[i] = [c[i] EXCEPT !.setting = actions[k].setting] /\ c[i] \in Scenes!Slot
    BY <1>1, <2>2, <2>5, <2>6
  <2>8. d[i].setting = actions[k].setting
    <3> HIDE DEF d
    <3> QED
      BY <2>7 DEF Scenes!Slot
  <2> QED
    BY <1>4, <2>1, <2>8
<1> HIDE DEF d
<1> QED
  BY <1>6, <1>7, <1>9 DEF Scenes!InForce, d, actions

(* The bank and the indices *)
ChainsSorted == Scenes!Sorted(live) /\ (incoming # NoChain => Scenes!Sorted(incoming))

Indexed ==
  /\ aud \in {"idle", "take"} => index = Scenes!None
  /\ aud \in {"apply", "store"} => index # Scenes!None

\* The bank is that of the chain, as long as anything is claimed of it.
BankBelongs ==
  /\ ctl = "assign" \/ claim # "void" => Scenes!ScenesFit(scenesDefs, Scenes!Edited)
  /\ ctl # "assign" /\ claim # "void" => bank = Scenes!BankOf(scenesDefs, Scenes!Edited)

\* A recall that waits when no load is under way is one of the bank's.
PendingFits == ctl \in {"active", "idle"} => pending < Len(bank)

\* A load between blocks meets no recall, and no recall goes past its bank.
LoadedBetween ==
  claim # "void" =>
    /\ ctl # "idle" => pending = Scenes!None /\ index = Scenes!None
    /\ ctl = "idle" => pending < Len(bank) /\ index < Len(bank)
    /\ incoming # NoChain => aud = "idle" /\ (ctl = "idle" => active = Scenes!None)

ScenePlays(i) ==
  i < Len(scenesDefs) /\ Scenes!InForce(scenesDefs[i + 1], live)

ActivePlays ==
  claim = "kept" /\ ctl = "idle" /\ incoming = NoChain =>
    /\ active # Scenes!None /\ aud # "store" => ScenePlays(active)
    /\ aud = "store" => ScenePlays(index)

SceneInv ==
  /\ Scenes!TypeOK /\ ChainsSorted /\ Indexed /\ BankBelongs
  /\ PendingFits /\ LoadedBetween /\ ActivePlays

LEMMA EditedIsChain ==
  ASSUME SceneInv
  PROVE  IsChain(Scenes!Edited) /\ IsChain(live)
BY DEF SceneInv, Scenes!TypeOK, ChainsSorted, IsChain, Scenes!Edited

LEMMA SceneStarts ==
  ASSUME Scenes!Init
  PROVE  SceneInv
<1>1. PICK preset \in Presets : live = Scenes!Build(preset.chain)
  BY DEF Scenes!Init
<1>2. IsChain(live)
  BY <1>1, PresetIsChain
<1>3. /\ incoming = NoChain /\ scenesDefs = << >> /\ bank = << >>
      /\ pending = Scenes!None /\ active = Scenes!None /\ index = Scenes!None
      /\ ctl = "idle" /\ aud = "idle" /\ claim = "kept"
  BY DEF Scenes!Init
<1>4. << >> \in Seq(Seq(Scenes!Override)) /\ << >> \in Seq(Seq(Scenes!Action)) /\ Len(<< >>) = 0 /\ DOMAIN (<< >>) = {}
  OBVIOUS
<1>5. Scenes!None \in -1 .. MaxScenes - 1
  BY SceneFacts DEF Scenes!None
<1>6. Scenes!TypeOK
  BY <1>2, <1>3, <1>4, <1>5 DEF Scenes!TypeOK, IsChain
<1>7. ChainsSorted /\ Indexed
  BY <1>2, <1>3 DEF ChainsSorted, Indexed, IsChain
<1>8. BankBelongs
  <2>1. Scenes!BankOf(<< >>, Scenes!Edited) = << >>
    BY <1>4 DEF Scenes!BankOf
  <2>2. Scenes!ScenesFit(<< >>, Scenes!Edited)
    BY <1>4, SceneFacts DEF Scenes!ScenesFit
  <2> QED
    BY <1>3, <2>1, <2>2 DEF BankBelongs
<1>9. LoadedBetween /\ PendingFits
  BY <1>3, <1>4 DEF LoadedBetween, PendingFits, Scenes!None
<1>10. ActivePlays
  BY <1>3 DEF ActivePlays
<1> QED
  BY <1>6, <1>7, <1>8, <1>9, <1>10 DEF SceneInv

\* load begins with definitions that fit the chain it is for.
LEMMA LoadStarts ==
  ASSUME SceneInv, Scenes!MayCall, Scenes!StartLoad,
         scenesDefs' \in Seq(Seq(Scenes!Override)), Scenes!ScenesFit(scenesDefs, Scenes!Edited)',
         incoming' \in Seq(Scenes!Slot) \cup {NoChain}, incoming' # NoChain => Scenes!Sorted(incoming'),
         UNCHANGED <<live, bank, pending, active, aud, index>>
  PROVE  SceneInv'
<1> USE DEF SceneInv
<1>1. ctl' = "assign" /\ claim' \in {"kept", "void"}
  BY DEF Scenes!StartLoad
<1>2. claim' # "void" => aud = "idle" /\ pending = Scenes!None
  BY DEF Scenes!StartLoad
<1>3. Scenes!TypeOK'
  BY <1>1 DEF Scenes!TypeOK
<1>4. ChainsSorted' /\ Indexed'
  BY DEF ChainsSorted, Indexed
<1>5. BankBelongs'
  BY <1>1 DEF BankBelongs
<1>6. LoadedBetween' /\ PendingFits'
  BY <1>1, <1>2 DEF LoadedBetween, PendingFits, Indexed
<1>7. ActivePlays'
  BY <1>1 DEF ActivePlays
<1> QED
  BY <1>3, <1>4, <1>5, <1>6, <1>7

\* Of a chain that is not the bank's nothing is claimed.
LEMMA ClaimIsVoid ==
  ASSUME SceneInv, Scenes!MayCall, claim' = "void",
         incoming' \in Seq(Scenes!Slot) \cup {NoChain}, incoming' # NoChain => Scenes!Sorted(incoming'),
         scenesDefs' \in Seq(Seq(Scenes!Override)),
         UNCHANGED <<live, bank, pending, active, ctl, aud, index>>
  PROVE  SceneInv'
BY DEF SceneInv, Scenes!TypeOK, ChainsSorted, Indexed, BankBelongs,
   LoadedBetween, PendingFits, ActivePlays, Scenes!MayCall

LEMMA LoadPresetKeeps ==
  ASSUME SceneInv, NEW preset \in Presets, Scenes!LoadPreset(preset)
  PROVE  SceneInv'
<1>1. /\ Scenes!MayCall /\ incoming' = Scenes!Build(preset.chain) /\ scenesDefs' = preset.scenes
      /\ UNCHANGED <<live, bank, pending, active, aud, index>>
  BY DEF Scenes!LoadPreset
<1>2. IsChain(incoming') /\ scenesDefs' \in Seq(Seq(Scenes!Override))
  BY <1>1, PresetIsChain, SceneFacts
<1>3. incoming' # NoChain /\ incoming' \in Seq(Scenes!Slot) /\ Scenes!Sorted(incoming')
  BY <1>2, SceneFacts DEF IsChain
<1>4. CASE Scenes!ScenesFit(preset.scenes, Scenes!Build(preset.chain))
  <2>1. Scenes!StartLoad
    BY <1>4 DEF Scenes!LoadPreset
  <2>2. Scenes!Edited' = incoming'
    BY <1>3 DEF Scenes!Edited
  <2>3. Scenes!ScenesFit(scenesDefs, Scenes!Edited)'
    BY <1>1, <1>4, <2>2 DEF Scenes!ScenesFit, Scenes!HasModule
  <2> QED
    BY <1>1, <1>2, <1>3, <2>1, <2>3, LoadStarts
<1>5. CASE ~Scenes!ScenesFit(preset.scenes, Scenes!Build(preset.chain))
  BY <1>1, <1>2, <1>3, <1>5, ClaimIsVoid DEF Scenes!LoadPreset
<1> QED
  BY <1>4, <1>5

LEMMA SaveSceneKeeps ==
  ASSUME SceneInv, NEW i \in 0 .. MaxScenes, Scenes!SaveScene(i)
  PROVE  SceneInv'
<1> DEFINE scene == Scenes!SceneOf(Scenes!Snapshot(Scenes!Edited))
           defs == Scenes!WithScene(i, scene)
<1>1. Scenes!MayCall /\ UNCHANGED <<live, incoming, bank, pending, active, aud, index>>
  BY DEF Scenes!SaveScene, Scenes!chainVars
<1>2. scene \in Seq(Scenes!Override)
  BY EditedIsChain, SnapshotIsChain, SavedSceneFits DEF IsChain
<1> HIDE DEF scene
<1>3. scenesDefs \in Seq(Seq(Scenes!Override)) /\ i \in 0 .. Len(scenesDefs)
  BY DEF SceneInv, Scenes!TypeOK, Scenes!SaveScene
<1>4. defs \in Seq(Seq(Scenes!Override))
  BY <1>2, <1>3 DEF Scenes!WithScene
<1>5. CASE Scenes!ScenesFit(defs, Scenes!Edited)
  <2>1. scenesDefs' = defs /\ Scenes!StartLoad
    BY <1>5 DEF Scenes!SaveScene, scene
  <2>2. Scenes!Edited' = Scenes!Edited
    BY <1>1 DEF Scenes!Edited
  <2>3. Scenes!ScenesFit(scenesDefs, Scenes!Edited)'
    BY <1>5, <2>1, <2>2 DEF Scenes!ScenesFit, Scenes!HasModule
  <2> HIDE DEF defs
  <2>4. incoming' \in Seq(Scenes!Slot) \cup {NoChain} /\ (incoming' # NoChain => Scenes!Sorted(incoming'))
    BY <1>1 DEF SceneInv, Scenes!TypeOK, ChainsSorted
  <2> QED
    BY <1>1, <1>4, <2>1, <2>3, <2>4, LoadStarts
<1>6. CASE ~Scenes!ScenesFit(defs, Scenes!Edited)
  <2>1. UNCHANGED Scenes!vars
    BY <1>1, <1>6 DEF Scenes!SaveScene, scene, Scenes!vars, Scenes!chainVars, Scenes!bankVars
  <2> QED
    BY <2>1 DEF Scenes!vars, Scenes!chainVars, Scenes!bankVars, SceneInv, Scenes!TypeOK, ChainsSorted, Indexed, BankBelongs, LoadedBetween,
       PendingFits, ActivePlays, ScenePlays, Scenes!Edited
<1> QED
  BY <1>5, <1>6

LEMMA StutterKeeps ==
  ASSUME SceneInv, UNCHANGED Scenes!vars
  PROVE  SceneInv'
BY DEF Scenes!vars, Scenes!chainVars, Scenes!bankVars, SceneInv, Scenes!TypeOK, ChainsSorted, Indexed, BankBelongs,
       LoadedBetween, PendingFits, ActivePlays, ScenePlays, Scenes!Edited

LEMMA AssignBankKeeps ==
  ASSUME SceneInv, Scenes!AssignBank
  PROVE  SceneInv'
<1> USE DEF SceneInv
<1>1. /\ ctl = "assign" /\ ctl' = "pending" /\ bank' = Scenes!BankOf(scenesDefs, Scenes!Edited)
      /\ UNCHANGED <<live, incoming, scenesDefs, pending, active, aud, index, claim>>
  BY DEF Scenes!AssignBank, Scenes!BankOf, Scenes!chainVars
<1>2. Scenes!Edited' = Scenes!Edited
  BY <1>1 DEF Scenes!Edited
<1>3. Scenes!ScenesFit(scenesDefs, Scenes!Edited) /\ scenesDefs \in Seq(Seq(Scenes!Override))
  BY <1>1 DEF BankBelongs, Scenes!TypeOK
<1>4. bank' \in Seq(Seq(Scenes!Action))
  BY <1>1, <1>3, EditedIsChain, BankIsResolved DEF IsChain
<1>5. Scenes!TypeOK'
  BY <1>1, <1>4 DEF Scenes!TypeOK
<1>6. ChainsSorted' /\ Indexed'
  BY <1>1 DEF ChainsSorted, Indexed
<1>7. BankBelongs'
  BY <1>1, <1>2, <1>3 DEF BankBelongs
<1>8. LoadedBetween' /\ PendingFits' /\ ActivePlays'
  BY <1>1 DEF LoadedBetween, PendingFits, ActivePlays
<1> QED
  BY <1>5, <1>6, <1>7, <1>8

LEMMA ClearPendingKeeps ==
  ASSUME SceneInv, Scenes!ClearPending
  PROVE  SceneInv'
<1> USE DEF SceneInv
<1>1. /\ ctl = "pending" /\ ctl' = "active" /\ pending' = Scenes!None
      /\ UNCHANGED <<live, incoming, scenesDefs, bank, active, aud, index, claim>>
  BY DEF Scenes!ClearPending, Scenes!chainVars, Scenes!bankVars
<1>2. Scenes!None \in -1 .. MaxScenes - 1
  BY SceneFacts DEF Scenes!None
<1>3. Scenes!TypeOK' /\ ChainsSorted' /\ Indexed'
  BY <1>1, <1>2 DEF Scenes!TypeOK, ChainsSorted, Indexed
<1>4. BankBelongs'
  BY <1>1 DEF BankBelongs, Scenes!Edited
<1>5. LoadedBetween' /\ ActivePlays'
  BY <1>1 DEF LoadedBetween, ActivePlays
<1>6. PendingFits'
  <2>1. Len(bank) \in Nat
    BY DEF Scenes!TypeOK
  <2> QED
    BY <1>1, <2>1 DEF PendingFits, Scenes!None
<1> QED
  BY <1>3, <1>4, <1>5, <1>6

LEMMA ClearActiveKeeps ==
  ASSUME SceneInv, Scenes!ClearActive
  PROVE  SceneInv'
<1> USE DEF SceneInv
<1>1. /\ ctl = "active" /\ ctl' = "idle" /\ active' = Scenes!None
      /\ UNCHANGED <<live, incoming, scenesDefs, bank, pending, aud, index, claim>>
  BY DEF Scenes!ClearActive, Scenes!chainVars, Scenes!bankVars
<1>2. Scenes!None \in -1 .. MaxScenes - 1
  BY SceneFacts DEF Scenes!None
<1>3. Scenes!TypeOK' /\ ChainsSorted' /\ Indexed'
  BY <1>1, <1>2 DEF Scenes!TypeOK, ChainsSorted, Indexed
<1>4. BankBelongs'
  BY <1>1 DEF BankBelongs, Scenes!Edited
<1>5. Len(bank) \in Nat
  BY DEF Scenes!TypeOK
<1>6. claim # "void" => pending = Scenes!None /\ index = Scenes!None
  BY <1>1 DEF LoadedBetween
<1>7. LoadedBetween' /\ PendingFits'
  BY <1>1, <1>5, <1>6 DEF LoadedBetween, PendingFits, Scenes!None
<1>8. ActivePlays'
  BY <1>1, <1>6 DEF ActivePlays, Indexed
<1> QED
  BY <1>3, <1>4, <1>7, <1>8

LEMMA RecallKeeps ==
  ASSUME SceneInv, NEW i \in 0 .. MaxScenes - 1, Scenes!Recall(i)
  PROVE  SceneInv'
<1> USE DEF SceneInv
<1>1. /\ ctl = "idle" /\ i \in 0 .. Len(bank) - 1 /\ pending' = i
      /\ UNCHANGED <<live, incoming, scenesDefs, bank, active, ctl, aud, index, claim>>
  BY DEF Scenes!Recall, Scenes!MayCall, Scenes!chainVars, Scenes!bankVars
<1>2. Len(bank) \in Nat
  BY DEF Scenes!TypeOK
<1>3. Scenes!TypeOK'
  BY <1>1, SceneFacts DEF Scenes!TypeOK
<1>4. ChainsSorted' /\ Indexed' /\ BankBelongs'
  BY <1>1 DEF ChainsSorted, Indexed, BankBelongs, Scenes!Edited
<1>5. LoadedBetween' /\ PendingFits'
  BY <1>1, <1>2 DEF LoadedBetween, PendingFits
<1>6. ActivePlays'
  BY <1>1 DEF ActivePlays, ScenePlays
<1> QED
  BY <1>3, <1>4, <1>5, <1>6

LEMMA EditKeeps ==
  ASSUME SceneInv, Scenes!Edit
  PROVE  SceneInv'
<1> DEFINE slots == Scenes!Snapshot(Scenes!Edited)
<1>1. IsChain(slots)
  BY EditedIsChain, SnapshotIsChain
<1> HIDE DEF slots
<1>2. ASSUME NEW c, IsChain(c), Scenes!RebuildChain(c) PROVE SceneInv'
  <2>1. /\ Scenes!MayCall /\ incoming' = c /\ claim' = "void"
        /\ UNCHANGED <<live, scenesDefs, bank, pending, active, ctl, aud, index>>
    BY <1>2 DEF Scenes!RebuildChain, Scenes!bankVars
  <2>2. incoming' \in Seq(Scenes!Slot) /\ Scenes!Sorted(incoming')
    BY <1>2, <2>1 DEF IsChain
  <2>3. scenesDefs' \in Seq(Seq(Scenes!Override))
    BY <2>1 DEF SceneInv, Scenes!TypeOK
  <2> QED
    BY <2>1, <2>2, <2>3, ClaimIsVoid
<1>3. ASSUME NEW i \in DOMAIN slots, Scenes!RebuildChain(Scenes!RemoveAt(slots, i)) PROVE SceneInv'
  BY <1>1, <1>2, <1>3, RemovedIsChain
<1>4. ASSUME NEW m \in Modules, Scenes!NextSlot(slots) < MaxSlots,
             Scenes!RebuildChain(Append(slots, [slot |-> Scenes!NextSlot(slots), module |-> m, setting |-> Fresh]))
      PROVE  SceneInv'
  BY <1>1, <1>2, <1>4, AddedIsChain
<1> QED
  BY <1>3, <1>4 DEF Scenes!Edit, slots

LEMMA BeginBlockKeeps ==
  ASSUME SceneInv, Scenes!BeginBlock
  PROVE  SceneInv'
<1> USE DEF SceneInv
<1>1. /\ aud = "idle" /\ live' = Scenes!Edited /\ incoming' = NoChain /\ aud' = "take"
      /\ UNCHANGED <<scenesDefs, bank, pending, active, ctl, index, claim>>
  BY DEF Scenes!BeginBlock, Scenes!bankVars
<1>2. Scenes!Edited' = Scenes!Edited
  BY <1>1 DEF Scenes!Edited
<1>3. Scenes!TypeOK' /\ ChainsSorted'
  BY <1>1, EditedIsChain DEF Scenes!TypeOK, ChainsSorted, IsChain
<1>4. Indexed'
  BY <1>1 DEF Indexed
<1>5. BankBelongs'
  BY <1>1, <1>2 DEF BankBelongs
<1>6. LoadedBetween' /\ PendingFits'
  BY <1>1 DEF LoadedBetween, PendingFits
<1>7. ActivePlays'
  <2>1. CASE incoming = NoChain
    <3>1. live' = live
      BY <1>1, <2>1 DEF Scenes!Edited
    <3> QED
      BY <1>1, <2>1, <3>1 DEF ActivePlays, ScenePlays
  <2>2. CASE incoming # NoChain
    BY <1>1, <2>2 DEF ActivePlays, LoadedBetween
  <2> QED
    BY <2>1, <2>2
<1> QED
  BY <1>3, <1>4, <1>5, <1>6, <1>7

LEMMA TakePendingKeeps ==
  ASSUME SceneInv, Scenes!TakePending
  PROVE  SceneInv'
<1> USE DEF SceneInv
<1>1. /\ aud = "take" /\ index' = pending /\ pending' = Scenes!None
      /\ aud' = IF pending = Scenes!None THEN "router" ELSE "apply"
      /\ UNCHANGED <<live, incoming, scenesDefs, bank, active, ctl, claim>>
  BY DEF Scenes!TakePending, Scenes!chainVars, Scenes!bankVars
<1>2. Scenes!None \in -1 .. MaxScenes - 1
  BY SceneFacts DEF Scenes!None
<1>3. Scenes!TypeOK' /\ ChainsSorted'
  BY <1>1, <1>2 DEF Scenes!TypeOK, ChainsSorted
<1>4. Indexed'
  BY <1>1 DEF Indexed
<1>5. BankBelongs'
  BY <1>1 DEF BankBelongs, Scenes!Edited
<1>6. Len(bank) \in Nat
  BY DEF Scenes!TypeOK
<1>7. LoadedBetween' /\ PendingFits'
  <2>1. ASSUME claim # "void" PROVE incoming = NoChain
    BY <1>1, <2>1 DEF LoadedBetween
  <2>2. ASSUME claim # "void", ctl # "idle" PROVE pending' = Scenes!None /\ index' = Scenes!None
    BY <1>1, <2>2 DEF LoadedBetween
  <2>3. ASSUME claim # "void", ctl = "idle" PROVE pending' < Len(bank) /\ index' < Len(bank)
    BY <1>1, <1>6, <2>3 DEF LoadedBetween, Scenes!None
  <2> QED
    BY <1>1, <1>6, <2>1, <2>2, <2>3 DEF LoadedBetween, PendingFits, Scenes!None
<1>8. ActivePlays'
  BY <1>1 DEF ActivePlays, ScenePlays
<1> QED
  BY <1>3, <1>4, <1>5, <1>7, <1>8

\* Setting parameters of the live chain leaves the bank the chain's.
LEMMA BankStaysTheChains ==
  ASSUME SceneInv, live' \in Seq(Scenes!Slot), SameSlots(live, live'),
         claim' # "void" => claim # "void" \/ Scenes!BankIsTheChains,
         UNCHANGED <<incoming, scenesDefs, bank, ctl>>
  PROVE  ChainsSorted' /\ BankBelongs'
<1> USE DEF SceneInv
<1>1. live \in Seq(Scenes!Slot)
  BY DEF Scenes!TypeOK
<1>2. Scenes!Sorted(live')
  BY <1>1, SameSlotsKeep DEF ChainsSorted
<1>3. ChainsSorted'
  BY <1>2 DEF ChainsSorted
<1>4. /\ Scenes!ScenesFit(scenesDefs, Scenes!Edited') <=> Scenes!ScenesFit(scenesDefs, Scenes!Edited)
      /\ Scenes!ScenesFit(scenesDefs, Scenes!Edited) => Scenes!BankOf(scenesDefs, Scenes!Edited') = Scenes!BankOf(scenesDefs, Scenes!Edited)
  <2>1. CASE incoming = NoChain
    <3>1. Scenes!Edited = live /\ Scenes!Edited' = live'
      BY <2>1 DEF Scenes!Edited
    <3> QED
      BY <1>1, <3>1, SameSlotsKeep
  <2>2. CASE incoming # NoChain
    BY <2>2 DEF Scenes!Edited
  <2> QED
    BY <2>1, <2>2
<1>5. Scenes!ScenesFit(scenesDefs, Scenes!Edited)' <=> Scenes!ScenesFit(scenesDefs, Scenes!Edited')
  BY DEF Scenes!ScenesFit, Scenes!HasModule
<1>6. Scenes!BankOf(scenesDefs, Scenes!Edited)' = Scenes!BankOf(scenesDefs, Scenes!Edited')
  BY DEF Scenes!BankOf, Scenes!Resolve, Scenes!SlotIndexOf, Scenes!FirstOf, Scenes!Min
<1>7. Scenes!BankIsTheChains =>
        Scenes!ScenesFit(scenesDefs, Scenes!Edited) /\ bank = Scenes!BankOf(scenesDefs, Scenes!Edited)
  BY DEF Scenes!BankIsTheChains, Scenes!Edited
<1>8. BankBelongs'
  BY <1>4, <1>5, <1>6, <1>7 DEF BankBelongs
<1> QED
  BY <1>3, <1>8

LEMMA ApplySceneKeeps ==
  ASSUME SceneInv, Scenes!ApplyScene
  PROVE  SceneInv'
<1> USE DEF SceneInv
<1>1. /\ aud = "apply"
      /\ UNCHANGED <<incoming, scenesDefs, bank, pending, active, ctl, index>>
  BY DEF Scenes!ApplyScene, Scenes!bankVars
<1>2. index \in 0 .. MaxScenes - 1
  <2>1. index \in -1 .. MaxScenes - 1 /\ index # Scenes!None
    BY <1>1 DEF Scenes!TypeOK, Indexed
  <2> QED
    BY <2>1, SceneFacts DEF Scenes!None
<1>3. CASE ~(index < Len(bank))
  <2>1. aud' = "thrown" /\ UNCHANGED <<live, claim>>
    BY <1>3 DEF Scenes!ApplyScene
  <2>2. Scenes!TypeOK' /\ ChainsSorted' /\ Indexed'
    BY <1>1, <2>1 DEF Scenes!TypeOK, ChainsSorted, Indexed
  <2>3. BankBelongs'
    BY <1>1, <2>1 DEF BankBelongs, Scenes!Edited
  <2>4. LoadedBetween' /\ PendingFits' /\ ActivePlays'
    BY <1>1, <2>1 DEF LoadedBetween, PendingFits, ActivePlays, ScenePlays
  <2> QED
    BY <2>2, <2>3, <2>4
<1>4. CASE index < Len(bank)
  <2>1. /\ live' = Scenes!Applied(live, bank[index + 1]) /\ aud' = "store"
        /\ claim' = IF claim # "void" \/ Scenes!BankIsTheChains THEN "kept" ELSE "void"
    BY <1>4 DEF Scenes!ApplyScene
  <2>2. index + 1 \in DOMAIN bank /\ bank[index + 1] \in Seq(Scenes!Action) /\ Len(bank) \in Nat
    <3>1. bank \in Seq(Seq(Scenes!Action))
      BY DEF Scenes!TypeOK
    <3>2. Len(bank) \in Nat /\ DOMAIN bank = 1 .. Len(bank)
      BY <3>1
    <3>3. index + 1 \in DOMAIN bank
      BY <1>2, <1>4, <3>2
    <3> QED
      BY <3>1, <3>2, <3>3, ElementsOf
  <2>3. live \in Seq(Scenes!Slot) /\ live' \in Seq(Scenes!Slot) /\ SameSlots(live, live')
    BY <2>1, <2>2, ApplyKeepsSlots DEF Scenes!TypeOK
  <2>4. claim' \in {"kept", "void"} /\ (claim' # "void" => claim # "void" \/ Scenes!BankIsTheChains)
    BY <2>1
  <2>5. ChainsSorted' /\ BankBelongs'
    BY <1>1, <2>3, <2>4, BankStaysTheChains
  <2>6. Scenes!TypeOK'
    BY <1>1, <2>1, <2>3, <2>4 DEF Scenes!TypeOK
  <2>7. Indexed'
    BY <1>1, <2>1 DEF Indexed
  <2>8. LoadedBetween' /\ PendingFits'
    <3>1. PendingFits'
      BY <1>1 DEF PendingFits
    <3>2. ASSUME claim # "void" PROVE LoadedBetween'
      BY <1>1, <2>1, <3>2 DEF LoadedBetween
    <3>3. ASSUME Scenes!BankIsTheChains PROVE LoadedBetween'
      BY <1>1, <1>4, <3>1, <3>3 DEF LoadedBetween, PendingFits, Scenes!BankIsTheChains
    <3> QED
      BY <2>4, <3>1, <3>2, <3>3 DEF LoadedBetween
  <2>9. ActivePlays'
    <3> SUFFICES ASSUME claim' # "void", ctl = "idle", incoming = NoChain
                 PROVE  /\ index < Len(scenesDefs)
                        /\ Scenes!InForce(scenesDefs[index + 1], live')
      <4>1. aud' = "store" /\ ctl' = ctl /\ incoming' = incoming /\ index' = index /\ scenesDefs' = scenesDefs
        BY <1>1, <2>1
      <4>2. ScenePlays(index)' <=> index < Len(scenesDefs) /\ Scenes!InForce(scenesDefs[index + 1], live')
        BY <4>1 DEF ScenePlays, Scenes!InForce, Scenes!HasModule, Scenes!SlotIndexOf, Scenes!FirstOf, Scenes!Min
      <4> QED
        BY <4>1, <4>2 DEF ActivePlays
    <3> DEFINE scene == scenesDefs[index + 1]
    <3>1. Scenes!Edited = live
      BY DEF Scenes!Edited
    <3>2. Scenes!ScenesFit(scenesDefs, live) /\ bank = Scenes!BankOf(scenesDefs, live)
      <4>1. CASE claim # "void"
        BY <3>1, <4>1 DEF BankBelongs
      <4>2. CASE Scenes!BankIsTheChains
        BY <4>2 DEF Scenes!BankIsTheChains
      <4> QED
        BY <2>4, <4>1, <4>2
    <3>3. scenesDefs \in Seq(Seq(Scenes!Override))
      BY DEF Scenes!TypeOK
    <3>4. Len(bank) = Len(scenesDefs)
      BY <2>3, <3>2, <3>3, BankIsResolved
    <3>5. DOMAIN scenesDefs = 1 .. Len(scenesDefs)
      BY <3>3
    <3>6. index + 1 \in DOMAIN scenesDefs
      BY <1>2, <1>4, <2>2, <3>4, <3>5
    <3>7. scene \in Seq(Scenes!Override)
      BY <3>3, <3>6, ElementsOf
    <3>8. bank[index + 1] = Scenes!Resolve(scene, live)
      BY <3>2, <3>6 DEF Scenes!BankOf
    <3>9. \A k \in DOMAIN scene : Scenes!HasModule(live, scene[k].module)
      BY <3>2, <3>6 DEF Scenes!ScenesFit
    <3>10. IsChain(live)
      BY EditedIsChain
    <3> HIDE DEF scene
    <3>11. Scenes!InForce(scene, live')
      BY <2>1, <3>7, <3>8, <3>9, <3>10, ApplyIsInForce
    <3> QED
      BY <1>4, <3>4, <3>11 DEF scene
  <2> QED
    BY <2>5, <2>6, <2>7, <2>8, <2>9
<1> QED
  BY <1>3, <1>4

LEMMA StoreActiveKeeps ==
  ASSUME SceneInv, Scenes!StoreActive
  PROVE  SceneInv'
<1> USE DEF SceneInv
<1>1. /\ aud = "store" /\ active' = index /\ aud' = "router"
      /\ UNCHANGED <<live, incoming, scenesDefs, bank, pending, ctl, index, claim>>
  BY DEF Scenes!StoreActive, Scenes!chainVars, Scenes!bankVars
<1>2. Scenes!TypeOK' /\ ChainsSorted' /\ Indexed'
  BY <1>1 DEF Scenes!TypeOK, ChainsSorted, Indexed
<1>3. BankBelongs'
  BY <1>1 DEF BankBelongs, Scenes!Edited
<1>4. LoadedBetween' /\ PendingFits'
  BY <1>1 DEF LoadedBetween, PendingFits
<1>5. ActivePlays'
  BY <1>1 DEF ActivePlays, ScenePlays
<1> QED
  BY <1>2, <1>3, <1>4, <1>5

LEMMA ApplyRouterKeeps ==
  ASSUME SceneInv, Scenes!ApplyRouter
  PROVE  SceneInv'
<1> USE DEF SceneInv
<1>1. /\ aud = "router" /\ aud' = "idle" /\ index' = Scenes!None
      /\ UNCHANGED <<incoming, scenesDefs, bank, pending, active, ctl>>
  BY DEF Scenes!ApplyRouter, Scenes!bankVars
<1>2. Scenes!None \in -1 .. MaxScenes - 1
  BY SceneFacts DEF Scenes!None
<1>3. live \in Seq(Scenes!Slot) /\ Len(bank) \in Nat
  BY DEF Scenes!TypeOK
<1>4. Indexed'
  BY <1>1 DEF Indexed
<1>5. ASSUME claim' # "void" => claim # "void" PROVE LoadedBetween' /\ PendingFits'
  <2>1. ASSUME claim # "void" PROVE incoming = NoChain
    BY <1>1, <2>1 DEF LoadedBetween
  <2>2. index' < Len(bank)
    BY <1>1, <1>3 DEF Scenes!None
  <2> QED
    BY <1>1, <1>5, <2>1, <2>2 DEF LoadedBetween, PendingFits
<1>6. CASE UNCHANGED <<live, claim>>
  <2>1. Scenes!TypeOK' /\ ChainsSorted'
    BY <1>1, <1>2, <1>6 DEF Scenes!TypeOK, ChainsSorted
  <2>2. BankBelongs'
    BY <1>1, <1>6 DEF BankBelongs, Scenes!Edited
  <2>3. ActivePlays'
    BY <1>1, <1>6 DEF ActivePlays, ScenePlays
  <2> QED
    BY <1>4, <1>5, <1>6, <2>1, <2>2, <2>3
<1>7. ASSUME NEW i \in DOMAIN live, NEW v \in Settings,
             live' = [live EXCEPT ![i].setting = v],
             claim' = IF claim = "void" THEN "void" ELSE "touched"
      PROVE  SceneInv'
  <2>1. DOMAIN live = 1 .. Len(live) /\ \A j \in DOMAIN live : live[j] \in Scenes!Slot
    BY <1>3, ElementsOf
  <2>2. live' = [live EXCEPT ![i] = [live[i] EXCEPT !.setting = v]]
    BY <1>7
  <2>3. [live[i] EXCEPT !.setting = v] \in Scenes!Slot
    BY <2>1 DEF Scenes!Slot
  <2>4. /\ [live[i] EXCEPT !.setting = v].slot = live[i].slot
        /\ [live[i] EXCEPT !.setting = v].module = live[i].module
    BY <2>1 DEF Scenes!Slot
  <2>5. live' \in Seq(Scenes!Slot) /\ Len(live') = Len(live)
    BY <1>3, <2>2, <2>3
  <2>6. SameSlots(live, live')
    BY <2>1, <2>2, <2>4, <2>5 DEF SameSlots
  <2>7. (claim' # "void" => claim # "void") /\ claim' \in {"void", "touched"}
    BY <1>7
  <2>8. ChainsSorted' /\ BankBelongs'
    BY <1>1, <2>5, <2>6, <2>7, BankStaysTheChains
  <2>9. Scenes!TypeOK'
    BY <1>1, <1>2, <2>5, <2>7 DEF Scenes!TypeOK
  <2>10. ActivePlays'
    BY <2>7 DEF ActivePlays
  <2> QED
    BY <1>4, <1>5, <2>7, <2>8, <2>9, <2>10
<1> QED
  BY <1>6, <1>7 DEF Scenes!ApplyRouter

LEMMA SceneInvKept ==
  ASSUME SceneInv, [Scenes!Next]_(Scenes!vars)
  PROVE  SceneInv'
<1>1. CASE UNCHANGED Scenes!vars
  BY <1>1, StutterKeeps
<1>2. CASE Scenes!ControlNext
  BY <1>2, LoadPresetKeeps, SaveSceneKeeps, AssignBankKeeps, ClearPendingKeeps,
     ClearActiveKeeps, RecallKeeps, EditKeeps DEF Scenes!ControlNext
<1>3. CASE Scenes!AudioNext
  BY <1>3, BeginBlockKeeps, TakePendingKeeps, ApplySceneKeeps, StoreActiveKeeps,
     ApplyRouterKeeps DEF Scenes!AudioNext
<1> QED
  BY <1>1, <1>2, <1>3 DEF Scenes!Next

LEMMA ShownIsInForce ==
  ASSUME SceneInv
  PROVE  Scenes!ActiveIsInForce
<1>1. Scenes!TypeOK
  BY DEF SceneInv
<1>2. ASSUME active # Scenes!None, ctl = "idle", aud = "idle", incoming = NoChain,
             claim = "kept"
      PROVE  ScenePlays(active)
  BY <1>2 DEF SceneInv, ActivePlays
<1> QED
  BY <1>1, <1>2 DEF Scenes!ActiveIsInForce, ScenePlays

\* What the run asks of the scenes: the one shown as active is the one that is
\* played (SceneEngine::load, apply).
THEOREM ActiveScenePlays == Scenes!Spec => []Scenes!ActiveIsInForce
<1>1. Scenes!Init => SceneInv
  BY SceneStarts
<1>2. SceneInv /\ [Scenes!Next]_(Scenes!vars) => SceneInv'
  BY SceneInvKept
<1>3. SceneInv => Scenes!ActiveIsInForce
  BY ShownIsInForce
<1> QED
  BY <1>1, <1>2, <1>3, PTL DEF Scenes!Spec

\* What the run asks of the scenes (SceneEngine::load, apply).
COROLLARY ShownSceneIsPlayed == Scenes!Spec => []ActiveIsInForce
<1>1. Scenes!ActiveIsInForce => ActiveIsInForce
  BY DEF ActiveIsInForce
<1> QED
  BY <1>1, ActiveScenePlays, PartsAssumption, PTL

-----------------------------------------------------------------------------
(****************************************************************************)
(* RtAlloc: the failpoint fails the one allocation it was armed for, and a *)
(* guard, however deep, tells the truth.                                   *)
(****************************************************************************)
\* A thread that has yet to exchange read a count, and what is left of the count is
\* what was not yet taken of it.
CountOK ==
  /\ failpoint \in Nat /\ armed \in Nat /\ taken \in Nat
  /\ remaining \in [Threads -> Nat] /\ DOMAIN at = Threads
  /\ \A t \in Threads : at[t] = "take" => remaining[t] > 0
  /\ taken <= armed
  /\ \/ lost = TRUE /\ failpoint = 0 /\ taken < armed
     \/ lost = FALSE /\ failpoint = armed - taken
  /\ failed = IF armed > 0 /\ taken = armed THEN 1 ELSE 0

\* Only the innermost guard notes anything, so what a guard found when it was opened
\* is what the guards outside it have noted.
SeenUpTo(stack, n) == \E j \in DOMAIN stack : j <= n /\ stack[j].seen = TRUE
Guard == [prevIn : BOOLEAN, prevViolation : BOOLEAN, seen : BOOLEAN, under : BOOLEAN]
StackOK(stack, in, viol) ==
  /\ stack \in Seq(Guard) /\ in \in BOOLEAN /\ viol \in BOOLEAN
  /\ in = TRUE <=> stack # << >>
  /\ viol = TRUE <=> SeenUpTo(stack, Len(stack))
  /\ \A i \in DOMAIN stack :
       /\ stack[i].prevIn = TRUE <=> i > 1
       /\ stack[i].prevViolation = TRUE <=> SeenUpTo(stack, i - 1)
ThreadsOK ==
  /\ guards = [t \in Threads |-> guards[t]]
  /\ inCallback = [t \in Threads |-> inCallback[t]]
  /\ violation = [t \in Threads |-> violation[t]]
  /\ \A t \in Threads : StackOK(guards[t], inCallback[t], violation[t])

(* One thread's guards *)

\* Opening the first guard, or one inside the others.
LEMMA OpenKeeps ==
  ASSUME NEW s, NEW in, NEW viol, StackOK(s, in, viol)
  PROVE  StackOK(Append(s, [prevIn |-> in, prevViolation |-> viol, seen |-> FALSE, under |-> FALSE]), TRUE, viol)
<1> DEFINE g == [prevIn |-> in, prevViolation |-> viol, seen |-> FALSE, under |-> FALSE]
           r == Append(s, g)
<1>1. g \in Guard /\ g.prevIn = in /\ g.prevViolation = viol /\ g.seen = FALSE
  BY DEF StackOK, Guard
<1> HIDE DEF g
<1>2. /\ s \in Seq(Guard) /\ r \in Seq(Guard) /\ Len(s) \in Nat /\ Len(r) = Len(s) + 1
      /\ r[Len(s) + 1] = g /\ \A j \in DOMAIN s : r[j] = s[j]
      /\ DOMAIN s = 1 .. Len(s) /\ DOMAIN r = 1 .. Len(s) + 1 /\ r # << >>
  <2>1. s \in Seq(Guard)
    BY DEF StackOK
  <2>2. g \in Guard
    BY <1>1
  <2>3. /\ Append(s, g) \in Seq(Guard) /\ Len(Append(s, g)) = Len(s) + 1
        /\ Append(s, g)[Len(s) + 1] = g
        /\ \A j \in 1 .. Len(s) : Append(s, g)[j] = s[j]
    <3> HIDE DEF Guard
    <3> QED
      BY <2>1, <2>2
  <2>4. Len(s) \in Nat /\ DOMAIN s = 1 .. Len(s)
    BY <2>1
  <2> QED
    BY <2>1, <2>3, <2>4
<1> HIDE DEF r
<1>3. \A n \in Int : n <= Len(s) => (SeenUpTo(r, n) <=> SeenUpTo(s, n))
  BY <1>2 DEF SeenUpTo
<1>4. SeenUpTo(r, Len(r)) <=> SeenUpTo(s, Len(s))
  BY <1>1, <1>2 DEF SeenUpTo
<1>5. viol = TRUE <=> SeenUpTo(s, Len(s))
  BY DEF StackOK
<1>6. ASSUME NEW i \in DOMAIN r
      PROVE  (r[i].prevIn = TRUE <=> i > 1) /\ (r[i].prevViolation = TRUE <=> SeenUpTo(r, i - 1))
  <2>1. CASE i = Len(s) + 1
    <3>1. i > 1 <=> s # << >>
      BY <2>1, <1>2
    <3>2. SeenUpTo(r, i - 1) <=> SeenUpTo(s, Len(s))
      BY <2>1, <1>2, <1>3
    <3>3. in = TRUE <=> s # << >>
      BY DEF StackOK
    <3>4. r[i] = g
      BY <2>1, <1>2
    <3> QED
      BY <3>1, <3>2, <3>3, <3>4, <1>1, <1>5
  <2>2. CASE i # Len(s) + 1
    <3>1. i \in DOMAIN s /\ r[i] = s[i] /\ i - 1 \in Int /\ i - 1 <= Len(s)
      BY <2>2, <1>2
    <3>2. (s[i].prevIn = TRUE <=> i > 1) /\ (s[i].prevViolation = TRUE <=> SeenUpTo(s, i - 1))
      BY <3>1 DEF StackOK
    <3> QED
      BY <3>1, <3>2, <1>3
  <2> QED
    BY <2>1, <2>2
<1>7. viol \in BOOLEAN
  BY DEF StackOK
<1>8. StackOK(r, TRUE, viol)
  BY <1>2, <1>4, <1>5, <1>6, <1>7 DEF StackOK
<1> QED
  BY <1>8 DEF r, g

\* What was under a closed guard leaves the others as they are.
LEMMA UnderKeeps ==
  ASSUME NEW s, NEW in, NEW viol, StackOK(s, in, viol), s # << >>, NEW b \in BOOLEAN
  PROVE  StackOK([s EXCEPT ![Len(s)].under = b], in, viol)
<1> DEFINE r == [s EXCEPT ![Len(s)].under = b]
<1>1. /\ s \in Seq(Guard) /\ Len(s) \in Nat /\ Len(s) > 0 /\ DOMAIN s = 1 .. Len(s)
      /\ \A j \in DOMAIN s : s[j] \in Guard
  BY DEF StackOK
<1>2. \A j \in DOMAIN s : j # Len(s) => r[j] = s[j]
  BY <1>1
<1>3. r[Len(s)] = [s[Len(s)] EXCEPT !.under = b] /\ s[Len(s)] \in Guard
  <2>1. Len(s) \in DOMAIN s
    BY <1>1
  <2> HIDE DEF Guard
  <2> QED
    BY <2>1, <1>1
<1>4. DOMAIN r = DOMAIN s /\ r = [j \in 1 .. Len(s) |-> r[j]]
  BY <1>1
<1> HIDE DEF r
<1>5. /\ r[Len(s)] \in Guard /\ r[Len(s)].seen = s[Len(s)].seen
      /\ r[Len(s)].prevIn = s[Len(s)].prevIn
      /\ r[Len(s)].prevViolation = s[Len(s)].prevViolation
  BY <1>3 DEF Guard
<1>6. \A j \in 1 .. Len(s) : r[j] \in Guard
  BY <1>1, <1>2, <1>5
<1>7. r \in Seq(Guard) /\ Len(r) = Len(s) /\ r # << >>
  BY <1>1, <1>4, <1>6
<1>8. \A j \in DOMAIN s : /\ r[j].seen = s[j].seen /\ r[j].prevIn = s[j].prevIn
                          /\ r[j].prevViolation = s[j].prevViolation
  BY <1>2, <1>5
<1>9. \A n \in Int : SeenUpTo(r, n) <=> SeenUpTo(s, n)
  BY <1>1, <1>4, <1>8 DEF SeenUpTo
<1>10. StackOK(r, in, viol)
  BY <1>1, <1>4, <1>7, <1>8, <1>9 DEF StackOK
<1> QED
  BY <1>10 DEF r

\* Closing the innermost guard puts back what it found.
LEMMA CloseKeeps ==
  ASSUME NEW s, NEW in, NEW viol, StackOK(s, in, viol), s # << >>
  PROVE  StackOK(Rt!Closed(s), Rt!Last(s).prevIn, Rt!Last(s).prevViolation)
<1> DEFINE r == Rt!Front(s)
           g == Rt!Last(s)
<1>1. /\ s \in Seq(Guard) /\ Len(s) \in Nat /\ Len(s) > 0 /\ DOMAIN s = 1 .. Len(s)
      /\ r \in Seq(Guard) /\ Len(r) = Len(s) - 1 /\ DOMAIN r = 1 .. Len(s) - 1
      /\ \A j \in DOMAIN r : r[j] = s[j]
      /\ g = s[Len(s)] /\ g \in Guard /\ Len(s) \in DOMAIN s
  <2>1. s \in Seq(Guard)
    BY DEF StackOK
  <2>2. Len(s) \in Nat /\ DOMAIN s = 1 .. Len(s) /\ Len(s) > 0
    BY <2>1
  <2>3. r = SubSeq(s, 1, Len(s) - 1)
    BY DEF Rt!Front
  <2>4. /\ r \in Seq(Guard) /\ Len(r) = Len(s) - 1 /\ DOMAIN r = 1 .. Len(s) - 1
        /\ \A j \in DOMAIN r : r[j] = s[j]
    <3> HIDE DEF r
    <3>1. /\ r \in Seq(Guard) /\ Len(r) = Len(s) - 1
          /\ \A j \in 1 .. Len(s) - 1 : r[j] = s[j]
      BY <2>1, <2>2, <2>3
    <3> QED
      BY <3>1
  <2>5. g = s[Len(s)]
    BY DEF Rt!Last
  <2> HIDE DEF r, g
  <2>6. Len(s) \in DOMAIN s /\ g \in Guard
    BY <2>1, <2>2, <2>5
  <2> QED
    BY <2>1, <2>2, <2>4, <2>5, <2>6
<1>2. r # << >> <=> Len(s) > 1
  BY <1>1
<1> HIDE DEF r, g
<1>3. g.prevIn \in BOOLEAN /\ g.prevViolation \in BOOLEAN
  BY <1>1 DEF Guard
<1>4. (g.prevIn = TRUE <=> Len(s) > 1) /\ (g.prevViolation = TRUE <=> SeenUpTo(s, Len(s) - 1))
  BY <1>1 DEF StackOK
<1>5. \A n \in Int : n <= Len(r) => (SeenUpTo(r, n) <=> SeenUpTo(s, n))
  BY <1>1 DEF SeenUpTo
<1>6. SeenUpTo(r, Len(r)) <=> SeenUpTo(s, Len(s) - 1)
  BY <1>1, <1>5
<1>7. ASSUME NEW i \in DOMAIN r
      PROVE  (r[i].prevIn = TRUE <=> i > 1) /\ (r[i].prevViolation = TRUE <=> SeenUpTo(r, i - 1))
  <2>1. i \in DOMAIN s /\ r[i] = s[i] /\ i - 1 \in Int /\ i - 1 <= Len(r)
    BY <1>1
  <2>2. (s[i].prevIn = TRUE <=> i > 1) /\ (s[i].prevViolation = TRUE <=> SeenUpTo(s, i - 1))
    BY <2>1 DEF StackOK
  <2> QED
    BY <2>1, <2>2, <1>5
<1>8. StackOK(r, g.prevIn, g.prevViolation)
  BY <1>1, <1>2, <1>3, <1>4, <1>6, <1>7 DEF StackOK
<1>9. CASE r = << >>
  BY <1>8, <1>9 DEF Rt!Closed, r, g
<1>10. CASE r # << >>
  <2> DEFINE b == r[Len(r)].under \/ g.seen \/ g.under
  <2>1. b \in BOOLEAN
    OBVIOUS
  <2>2. Rt!Closed(s) = [r EXCEPT ![Len(r)].under = b]
    BY <1>10 DEF Rt!Closed, r, g
  <2> HIDE DEF b
  <2>3. StackOK([r EXCEPT ![Len(r)].under = b], g.prevIn, g.prevViolation)
    BY <1>8, <1>10, <2>1, UnderKeeps
  <2> QED
    BY <2>2, <2>3 DEF g
<1> QED
  BY <1>9, <1>10

\* An allocation is noted by the innermost guard, and by the thread if it has one.
LEMMA NewKeeps ==
  ASSUME NEW s, NEW in, NEW viol, StackOK(s, in, viol)
  PROVE  StackOK(Rt!Noted(s), in, viol \/ in)
<1>1. CASE s = << >>
  <2>1. Rt!Noted(s) = s /\ ~in
    BY <1>1 DEF Rt!Noted, StackOK
  <2>2. (viol \/ in) = viol
    BY <2>1 DEF StackOK
  <2> QED
    BY <2>1, <2>2
<1>2. CASE s # << >>
  <2> DEFINE r == Rt!Noted(s)
  <2>1. /\ s \in Seq(Guard) /\ Len(s) \in Nat /\ Len(s) > 0 /\ DOMAIN s = 1 .. Len(s)
        /\ \A j \in DOMAIN s : s[j] \in Guard
    BY <1>2 DEF StackOK
  <2>2. r = [s EXCEPT ![Len(s)].seen = TRUE]
    BY <1>2 DEF Rt!Noted
  <2>3. \A j \in DOMAIN s : j # Len(s) => r[j] = s[j]
    BY <2>1, <2>2
  <2>4. r[Len(s)] = [s[Len(s)] EXCEPT !.seen = TRUE] /\ s[Len(s)] \in Guard
    <3> HIDE DEF r
    <3>1. Len(s) \in DOMAIN s
      BY <2>1
    <3> QED
      BY <3>1, <2>1, <2>2
  <2>5. /\ r[Len(s)] \in Guard /\ r[Len(s)].seen = TRUE
        /\ r[Len(s)].prevIn = s[Len(s)].prevIn
        /\ r[Len(s)].prevViolation = s[Len(s)].prevViolation
    BY <2>4 DEF Guard
  <2>6. DOMAIN r = DOMAIN s /\ r = [j \in 1 .. Len(s) |-> r[j]]
    BY <2>1, <2>2
  <2>7. \A j \in 1 .. Len(s) : r[j] \in Guard
    BY <2>1, <2>3, <2>5
  <2> HIDE DEF r
  <2>8. r \in Seq(Guard) /\ Len(r) = Len(s) /\ r # << >>
    BY <2>1, <2>6, <2>7
  <2>9. SeenUpTo(r, Len(r))
    BY <2>1, <2>5, <2>6, <2>8 DEF SeenUpTo
  <2>10. \A n \in Int : n < Len(s) => (SeenUpTo(r, n) <=> SeenUpTo(s, n))
    BY <2>1, <2>3, <2>6 DEF SeenUpTo
  <2>11. ASSUME NEW i \in DOMAIN r
         PROVE  /\ r[i].prevIn = TRUE <=> i > 1
                /\ r[i].prevViolation = TRUE <=> SeenUpTo(r, i - 1)
    <3>1. i \in DOMAIN s /\ i - 1 \in Int /\ i - 1 < Len(s)
      BY <2>1, <2>6
    <3>2. r[i].prevIn = s[i].prevIn /\ r[i].prevViolation = s[i].prevViolation
      BY <3>1, <2>3, <2>5
    <3>3. (s[i].prevIn = TRUE <=> i > 1) /\ (s[i].prevViolation = TRUE <=> SeenUpTo(s, i - 1))
      BY <3>1 DEF StackOK
    <3> QED
      BY <3>1, <3>2, <3>3, <2>10
  <2>12. in = TRUE /\ in \in BOOLEAN /\ (viol \/ in) = TRUE
    BY <1>2 DEF StackOK
  <2>13. StackOK(r, in, viol \/ in)
    BY <2>8, <2>9, <2>11, <2>12 DEF StackOK
  <2> QED
    BY <2>13 DEF r
<1> QED
  BY <1>1, <1>2

(* The steps *)

LEMMA InitIsOK == Rt!Init => CountOK /\ ThreadsOK
<1> SUFFICES ASSUME Rt!Init PROVE CountOK /\ ThreadsOK
  OBVIOUS
<1>1. CountOK
  BY DEF Rt!Init, CountOK
<1>2. StackOK(<< >>, FALSE, FALSE)
  BY DEF StackOK, SeenUpTo
<1>3. ThreadsOK
  BY <1>2 DEF Rt!Init, ThreadsOK
<1> QED
  BY <1>1, <1>3

\* Whatever the threads do between another's read and its exchange, the count goes
\* down by the allocations that were counted.
LEMMA CountIsKept == CountOK /\ [Rt!Next]_(Rt!vars) => CountOK'
<1> SUFFICES ASSUME CountOK, [Rt!Next]_(Rt!vars) PROVE CountOK'
  OBVIOUS
<1> USE DEF CountOK
<1>1. ASSUME NEW t \in Threads, Rt!New(t) PROVE CountOK'
  BY <1>1 DEF Rt!New, Rt!failVars
<1>2. ASSUME NEW t \in Threads, Rt!Take(t) PROVE CountOK'
  <2>1. failpoint > 0 /\ failpoint = armed - taken
    BY <1>2 DEF Rt!Take
  <2>2. failed = 0
    BY <2>1
  <2>3. failed' = IF armed > 0 /\ taken + 1 = armed THEN 1 ELSE 0
    BY <1>2, <2>1, <2>2 DEF Rt!Take
  <2> QED
    BY <1>2, <2>1, <2>3 DEF Rt!Take
<1>3. ASSUME NEW t \in Threads, Rt!TakeFails(t) PROVE CountOK'
  BY <1>3 DEF Rt!TakeFails, Rt!failVars
<1>4. ASSUME NEW t \in Threads, Rt!DisarmAfterFailure(t) PROVE CountOK'
  <2>1. /\ failpoint' = 0 /\ lost' = (lost \/ failpoint # 0) /\ armed' = armed /\ taken' = taken
        /\ failed' = failed /\ remaining' = remaining /\ at' = [at EXCEPT ![t] = "run"]
    BY <1>4 DEF Rt!DisarmAfterFailure
  <2>2. CASE lost = FALSE /\ failpoint = 0
    <3>1. lost' = FALSE
      BY <2>1, <2>2
    <3> QED
      BY <2>1, <2>2, <3>1
  <2>3. CASE lost = TRUE \/ failpoint # 0
    <3>1. lost' = TRUE
      BY <2>1, <2>3
    <3>2. taken < armed
      BY <2>3
    <3> QED
      BY <2>1, <3>1, <3>2
  <2> QED
    BY <2>2, <2>3
<1>5. ASSUME NEW t \in Threads, NEW afterN \in 0 .. MaxArm, Rt!Arm(t, afterN) PROVE CountOK'
  BY <1>5 DEF Rt!Arm
<1>6. ASSUME NEW t \in Threads, Rt!Open(t) PROVE CountOK'
  BY <1>6 DEF Rt!Open, Rt!failVars
<1>7. ASSUME NEW t \in Threads, Rt!Close(t) PROVE CountOK'
  BY <1>7 DEF Rt!Close, Rt!failVars
<1>8. ASSUME NEW t \in Threads, Rt!ResetViolation(t) PROVE CountOK'
  BY <1>8 DEF Rt!ResetViolation, Rt!failVars
<1>9. CASE UNCHANGED Rt!vars
  BY <1>9 DEF Rt!vars
<1> QED
  BY <1>1, <1>2, <1>3, <1>4, <1>5, <1>6, <1>7, <1>8, <1>9 DEF Rt!Next

\* A thread's step changes its own guards.
LEMMA ThreadsAreKept == ThreadsOK /\ [Rt!Next]_(Rt!vars) => ThreadsOK'
<1> SUFFICES ASSUME ThreadsOK, [Rt!Next]_(Rt!vars) PROVE ThreadsOK'
  OBVIOUS
<1>1. ASSUME UNCHANGED Rt!threadVars PROVE ThreadsOK'
  BY <1>1 DEF Rt!threadVars, ThreadsOK
<1>2. ASSUME NEW t \in Threads, NEW s, NEW in, NEW viol, StackOK(s, in, viol),
             guards' = [guards EXCEPT ![t] = s],
             inCallback' = [inCallback EXCEPT ![t] = in],
             violation' = [violation EXCEPT ![t] = viol]
      PROVE  ThreadsOK'
  BY <1>2 DEF ThreadsOK
<1>3. \A t \in Threads :
        /\ StackOK(guards[t], inCallback[t], violation[t])
        /\ guards = [guards EXCEPT ![t] = guards[t]]
        /\ inCallback = [inCallback EXCEPT ![t] = inCallback[t]]
        /\ violation = [violation EXCEPT ![t] = violation[t]]
  BY DEF ThreadsOK
<1>4. ASSUME NEW t \in Threads, Rt!New(t) PROVE ThreadsOK'
  <2>1. StackOK(Rt!Noted(guards[t]), inCallback[t], violation[t] \/ inCallback[t])
    BY <1>3, NewKeeps
  <2> QED
    BY <1>2, <1>3, <1>4, <2>1 DEF Rt!New
<1>5. ASSUME NEW t \in Threads, Rt!Open(t) PROVE ThreadsOK'
  <2>1. StackOK(Append(guards[t], [prevIn |-> inCallback[t], prevViolation |-> violation[t],
                                   seen |-> FALSE, under |-> FALSE]), TRUE, violation[t])
    BY <1>3, OpenKeeps
  <2> QED
    BY <1>2, <1>3, <1>5, <2>1 DEF Rt!Open
<1>6. ASSUME NEW t \in Threads, Rt!Close(t) PROVE ThreadsOK'
  <2>1. StackOK(Rt!Closed(guards[t]), Rt!Last(guards[t]).prevIn, Rt!Last(guards[t]).prevViolation)
    BY <1>3, <1>6, CloseKeeps DEF Rt!Close
  <2>2. /\ guards' = [guards EXCEPT ![t] = Rt!Closed(guards[t])]
        /\ inCallback' = [inCallback EXCEPT ![t] = Rt!Last(guards[t]).prevIn]
        /\ violation' = [violation EXCEPT ![t] = Rt!Last(guards[t]).prevViolation]
    BY <1>6 DEF Rt!Close
  <2> QED
    BY <1>2, <2>1, <2>2
<1>7. ASSUME NEW t \in Threads, Rt!ResetViolation(t) PROVE ThreadsOK'
  <2>1. StackOK(guards[t], inCallback[t], FALSE)
    BY <1>3, <1>7 DEF Rt!ResetViolation, StackOK, SeenUpTo
  <2> QED
    BY <1>2, <1>3, <1>7, <2>1 DEF Rt!ResetViolation
<1>8. ASSUME NEW t \in Threads, Rt!Take(t) \/ Rt!TakeFails(t) \/ Rt!DisarmAfterFailure(t)
                                \/ \E afterN \in 0 .. MaxArm : Rt!Arm(t, afterN)
      PROVE  ThreadsOK'
  BY <1>1, <1>8 DEF Rt!Take, Rt!TakeFails, Rt!DisarmAfterFailure, Rt!Arm
<1>9. CASE UNCHANGED Rt!vars
  BY <1>1, <1>9 DEF Rt!vars, Rt!threadVars
<1> QED
  BY <1>4, <1>5, <1>6, <1>7, <1>8, <1>9 DEF Rt!Next

\* After any number of armings and whatever the threads allocate, an allocation
\* fails exactly if it is the one the failpoint was armed for, and a guard says it
\* was violated exactly if its own thread allocated under it.
THEOREM GuardsAndFailpointHold == Rt!Spec => []Rt!RtAllocInv
<1>1. Rt!Init => CountOK /\ ThreadsOK
  BY InitIsOK
<1>2. (CountOK /\ ThreadsOK) /\ [Rt!Next]_(Rt!vars) => (CountOK /\ ThreadsOK)'
  BY CountIsKept, ThreadsAreKept
<1>3. CountOK => Rt!OnlyTheNthFails
  BY DEF CountOK, Rt!OnlyTheNthFails
<1>4. ThreadsOK => Rt!GuardsTellTheTruth
  <2> SUFFICES ASSUME ThreadsOK, NEW t \in Threads
               PROVE  /\ inCallback[t] <=> guards[t] # << >>
                      /\ guards[t] = << >> => ~violation[t]
                      /\ \A i \in DOMAIN guards[t] :
                           Rt!violated(t, i) <=>
                             /\ \E j \in i .. Len(guards[t]) : guards[t][j].seen
                             /\ \A j \in 1 .. i - 1 : ~guards[t][j].seen
    BY DEF Rt!GuardsTellTheTruth, Rt!Allocated, Rt!PutBack, Rt!Before
  <2> DEFINE s == guards[t]
  <2>1. StackOK(s, inCallback[t], violation[t])
    BY DEF ThreadsOK
  <2>2. /\ s \in Seq(Guard) /\ Len(s) \in Nat /\ DOMAIN s = 1 .. Len(s)
        /\ \A j \in DOMAIN s : s[j].seen \in BOOLEAN /\ s[j].prevViolation \in BOOLEAN
    <3> HIDE DEF s
    <3>1. s \in Seq(Guard)
      BY <2>1 DEF StackOK
    <3>2. Len(s) \in Nat /\ DOMAIN s = 1 .. Len(s) /\ \A j \in DOMAIN s : s[j] \in Guard
      BY <3>1
    <3> QED
      BY <3>1, <3>2 DEF Guard
  <2>3. inCallback[t] <=> s # << >>
    BY <2>1 DEF StackOK
  <2>4. s = << >> => ~violation[t]
    BY <2>1 DEF StackOK, SeenUpTo
  <2>5. violation[t] \in BOOLEAN /\ (violation[t] = TRUE <=> SeenUpTo(s, Len(s)))
    BY <2>1 DEF StackOK
  <2>6. ASSUME NEW i \in DOMAIN s
        PROVE  Rt!violated(t, i) <=> /\ \E j \in i .. Len(s) : s[j].seen
                                  /\ \A j \in 1 .. i - 1 : ~s[j].seen
    <3>1. s[i].prevViolation = TRUE <=> SeenUpTo(s, i - 1)
      BY <2>1 DEF StackOK
    <3> HIDE DEF s
    <3>2. SeenUpTo(s, i - 1) <=> \E j \in 1 .. i - 1 : s[j].seen = TRUE
      BY <2>2 DEF SeenUpTo
    <3>3. SeenUpTo(s, Len(s)) <=>
            (SeenUpTo(s, i - 1) \/ \E j \in i .. Len(s) : s[j].seen = TRUE)
      BY <2>2 DEF SeenUpTo
    <3>4. Rt!violated(t, i) <=> violation[t] = TRUE /\ ~(s[i].prevViolation = TRUE)
      BY <2>2, <2>5 DEF Rt!violated, s
    <3>5. /\ \A j \in 1 .. i - 1 : s[j].seen \in BOOLEAN
          /\ \A j \in i .. Len(s) : s[j].seen \in BOOLEAN
      BY <2>2
    <3> QED
      BY <3>1, <3>2, <3>3, <3>4, <3>5, <2>5, Zenon
  <2> QED
    BY <2>3, <2>4, <2>6
<1> QED
  BY <1>1, <1>2, <1>3, <1>4, PTL DEF Rt!Spec, Rt!RtAllocInv

\* What the run asks of the allocation guard and its failpoint (rt_alloc.cpp).
COROLLARY RtAllocIsSafe == Rt!Spec => []RtAllocInv
<1>1. Rt!RtAllocInv => RtAllocInv
  BY DEF RtAllocInv
<1> QED
  BY <1>1, GuardsAndFailpointHold, PTL

-----------------------------------------------------------------------------
(****************************************************************************)
(* Settings: without Mute the panel comes back as it was left.             *)
(****************************************************************************)
Entry == [key : {"slider", "mute"}, val : Positions \cup {Default} \cup BOOLEAN]

\* What is still to be read ends with what the session saved last, if anything was;
\* what was read of that is in place.
EndsWithSaved(rest, s, t) ==
  /\ rest \in Seq(Entry)
  /\ Len(rest) > 0 => rest[Len(rest)] = Panel!Line("mute", t)
  /\ Len(rest) > 1 => rest[Len(rest) - 1] = Panel!Line("slider", s)

PanelType ==
  /\ phase \in {"session", "loading", "loaded"}
  /\ clicked \in BOOLEAN
  /\ phase = "session" => slider \in Positions \cup {Default} /\ toggle \in BOOLEAN
  /\ saved = <<saved[1], saved[2]>>
  /\ EndsWithSaved(ahead, saved[1], saved[2]) \/ clicked = TRUE
SavedInSession ==
  phase = "session" =>
    /\ clicked = FALSE /\ Len(ahead) # 1
    /\ Len(ahead) = 0 => saved[1] = Default /\ saved[2] = FALSE
ReadSoFar ==
  phase \in {"loading", "loaded"} /\ clicked = FALSE =>
    /\ toggle = FALSE
    /\ Len(ahead) <= 1 => slider = saved[1]
    /\ Len(ahead) = 0 => saved[2] = FALSE
    /\ phase = "loaded" => Len(ahead) = 0
PanelInv == PanelType /\ SavedInSession /\ ReadSoFar

LEMMA PanelStarts == Panel!Init => PanelInv
<1> SUFFICES ASSUME Panel!Init PROVE PanelInv
  OBVIOUS
<1>1. saved = <<saved[1], saved[2]>> /\ saved[2] = FALSE /\ saved[1] = Default
  BY DEF Panel!Init
<1>2. EndsWithSaved(ahead, saved[1], saved[2]) /\ Len(ahead) = 0
  BY DEF Panel!Init, EndsWithSaved
<1>3. PanelType
  BY <1>1, <1>2 DEF Panel!Init, PanelType
<1>4. SavedInSession
  BY <1>1, <1>2 DEF Panel!Init, SavedInSession
<1>5. ReadSoFar
  BY DEF Panel!Init, ReadSoFar
<1> QED
  BY <1>3, <1>4, <1>5 DEF PanelInv

LEMMA SavedLast ==
  ASSUME NEW s \in Positions \cup {Default}, NEW t \in BOOLEAN, ahead \in Seq(Entry)
  PROVE  LET r == ahead \o Panel!SaveSettings(s, t)
         IN Len(r) > 1 /\ EndsWithSaved(r, s, t)
<1> DEFINE p == Panel!Line("slider", s)
           q == Panel!Line("mute", t)
<1>1. p \in Entry /\ q \in Entry
  BY DEF Panel!Line, Entry
<1> HIDE DEF p, q
<1>2. Panel!SaveSettings(s, t) = <<p, q>>
  BY DEF Panel!SaveSettings, p, q
<1>3. /\ ahead \o <<p, q>> \in Seq(Entry) /\ Len(ahead \o <<p, q>>) = Len(ahead) + 2
      /\ Len(ahead) \in Nat
      /\ (ahead \o <<p, q>>)[Len(ahead) + 1] = p
      /\ (ahead \o <<p, q>>)[Len(ahead) + 2] = q
  <2> HIDE DEF Entry
  <2> QED
    BY <1>1
<1> QED
  BY <1>2, <1>3 DEF p, q, EndsWithSaved

LEMMA PanelSteps == PanelInv /\ [Panel!Next]_(Panel!vars) => PanelInv'
<1> SUFFICES ASSUME PanelInv, [Panel!Next]_(Panel!vars) PROVE PanelInv'
  OBVIOUS
<1> USE DEF PanelInv
<1>1. ASSUME NEW s \in Positions \cup {Default}, NEW t \in BOOLEAN, Panel!Change(s, t)
      PROVE  PanelInv'
  <2>0. ahead \in Seq(Entry)
    BY <1>1 DEF Panel!Change, PanelType, SavedInSession, EndsWithSaved
  <2>1. Len(ahead') > 1 /\ EndsWithSaved(ahead', s, t)
    BY <1>1, <2>0, SavedLast DEF Panel!Change
  <2>2. saved' = <<s, t>> /\ saved'[1] = s /\ saved'[2] = t
    BY <1>1 DEF Panel!Change
  <2>3. PanelType'
    BY <1>1, <2>1, <2>2 DEF PanelType, Panel!Change
  <2>4. SavedInSession'
    BY <1>1, <2>1 DEF SavedInSession, Panel!Change
  <2>5. ReadSoFar'
    BY <1>1 DEF ReadSoFar, Panel!Change
  <2> QED
    BY <2>3, <2>4, <2>5
<1>2. CASE Panel!MoveSlider
  BY <1>1, <1>2, Zenon DEF Panel!MoveSlider, Panel!Change, PanelType
<1>3. CASE Panel!ClickMute
  <2>1. slider \in Positions \cup {Default} /\ toggle \in BOOLEAN
    BY <1>3, Zenon DEF Panel!ClickMute, Panel!Change, PanelType
  <2>2. (~toggle) \in BOOLEAN
    OBVIOUS
  <2> QED
    BY <1>1, <1>3, <2>1, <2>2, Zenon DEF Panel!ClickMute
<1>4. CASE Panel!Restart
  <2>1. EndsWithSaved(ahead, saved[1], saved[2]) /\ Len(ahead) \in Nat
    BY <1>4 DEF Panel!Restart, PanelType, SavedInSession, EndsWithSaved
  <2>2. PanelType'
    BY <1>4 DEF Panel!Restart, PanelType
  <2>3. SavedInSession'
    BY <1>4 DEF Panel!Restart, SavedInSession
  <2>4. ReadSoFar'
    <3>0. Len(ahead) # 1
      BY <1>4, Zenon DEF Panel!Restart, SavedInSession
    <3>3. Len(ahead) <= 1 => Len(ahead) = 0
      <4> DEFINE n == Len(ahead)
      <4>1. n \in Nat /\ n # 1
        BY <2>1, <3>0, Zenon
      <4> HIDE DEF n
      <4>2. n <= 1 => n = 0
        BY <4>1
      <4> QED
        BY <4>2 DEF n
    <3>1. Len(ahead) <= 1 => Len(ahead) = 0 /\ saved[1] = Default /\ saved[2] = FALSE
      BY <1>4, <3>3, Zenon DEF Panel!Restart, SavedInSession
    <3>2. /\ toggle' = FALSE /\ slider' = Default /\ phase' = "loading"
          /\ ahead' = ahead /\ saved' = saved
      BY <1>4 DEF Panel!Restart
    <3> QED
      BY <3>1, <3>2, <2>1 DEF ReadSoFar
  <2> QED
    BY <2>2, <2>3, <2>4
<1>5. CASE Panel!LoadLine
  <2> DEFINE line == Head(ahead)
  <2>1. CASE clicked = TRUE
    <3>1. clicked' = TRUE /\ phase' = "loading" /\ saved' = saved
      BY <1>5, <2>1 DEF Panel!LoadLine
    <3> QED
      BY <1>5, <3>1 DEF PanelType, SavedInSession, ReadSoFar
  <2>2. CASE clicked = FALSE
    <3>1. EndsWithSaved(ahead, saved[1], saved[2]) /\ ahead # << >>
      BY <1>5, <2>2 DEF Panel!LoadLine, PanelType
    <3>2. /\ ahead \in Seq(Entry) /\ line = ahead[1]
          /\ Len(ahead) \in Nat /\ Len(ahead) > 0
          /\ Tail(ahead) \in Seq(Entry) /\ Len(Tail(ahead)) = Len(ahead) - 1
          /\ \A i \in 1 .. Len(ahead) - 1 : Tail(ahead)[i] = ahead[i + 1]
          /\ line \in Entry
      <4> HIDE DEF Entry
      <4> QED
        BY <3>1 DEF EndsWithSaved
    <3>3. /\ Len(ahead) = 1 => line = Panel!Line("mute", saved[2])
          /\ Len(ahead) = 2 => line = Panel!Line("slider", saved[1])
      <4>1. Len(ahead) = 1 => line = ahead[Len(ahead)]
        BY <3>2
      <4>2. Len(ahead) = 2 => line = ahead[Len(ahead) - 1]
        BY <3>2
      <4>3. Len(ahead) = 2 => Len(ahead) > 1
        OBVIOUS
      <4>4. Len(ahead) = 1 => Len(ahead) > 0
        OBVIOUS
      <4> QED
        BY <3>1, <4>1, <4>2, <4>3, <4>4, Zenon DEF EndsWithSaved
    <3>4. EndsWithSaved(Tail(ahead), saved[1], saved[2])
      BY <3>1, <3>2 DEF EndsWithSaved
    <3>5. phase = "loading" /\ phase' = "loading" /\ saved' = saved /\ toggle = FALSE
      BY <1>5, <2>2 DEF Panel!LoadLine, ReadSoFar
    <3>6. CASE line.key = "slider" /\ slider' = line.val /\ ahead' = Tail(ahead)
               /\ UNCHANGED <<toggle, clicked>>
      <4>1. line.key = "slider" /\ (Len(ahead) = 2 => line.val = saved[1])
        BY <3>3, <3>6 DEF Panel!Line
      <4>2. Len(ahead) # 1
        BY <3>3, <3>6 DEF Panel!Line
      <4>3. PanelType' /\ SavedInSession'
        BY <3>4, <3>5, <3>6 DEF PanelType, SavedInSession
      <4>4. Len(ahead') >= 1 /\ (Len(ahead') <= 1 => slider' = saved'[1])
        BY <3>2, <3>5, <3>6, <4>1, <4>2
      <4>5. toggle' = FALSE
        BY <3>5, <3>6
      <4>6. ReadSoFar'
        BY <3>5, <4>4, <4>5 DEF ReadSoFar
      <4> QED
        BY <4>3, <4>6
    <3>7. CASE line.key = "mute" /\ line.val = toggle /\ ahead' = Tail(ahead)
               /\ UNCHANGED <<slider, toggle, clicked>>
      <4>1. Len(ahead) = 1 => saved[2] = FALSE /\ slider = saved[1]
        BY <2>2, <3>3, <3>5, <3>7 DEF Panel!Line, ReadSoFar
      <4>2. Len(ahead) # 2
        BY <3>3, <3>7 DEF Panel!Line
      <4>3. PanelType' /\ SavedInSession'
        BY <3>4, <3>5, <3>7 DEF PanelType, SavedInSession
      <4>4. Len(ahead') <= 1 => Len(ahead') = 0 /\ slider' = saved'[1] /\ saved'[2] = FALSE
        BY <3>2, <3>5, <3>7, <4>1, <4>2
      <4>5. toggle' = FALSE
        BY <3>5, <3>7
      <4>6. ReadSoFar'
        BY <3>5, <4>4, <4>5 DEF ReadSoFar
      <4> QED
        BY <4>3, <4>6
    <3>8. CASE clicked' = TRUE
      BY <3>5, <3>8 DEF PanelType, SavedInSession, ReadSoFar
    <3> QED
      BY <1>5, <3>6, <3>7, <3>8 DEF Panel!LoadLine
  <2> QED
    BY <2>1, <2>2 DEF PanelType
<1>6. CASE Panel!LoadEnd
  <2>1. PanelType'
    BY <1>6 DEF Panel!LoadEnd, PanelType
  <2>2. SavedInSession' /\ ReadSoFar'
    BY <1>6 DEF Panel!LoadEnd, SavedInSession, ReadSoFar
  <2> QED
    BY <2>1, <2>2
<1>7. CASE UNCHANGED Panel!vars
  BY <1>7 DEF Panel!vars, PanelType, SavedInSession, ReadSoFar
<1> QED
  BY <1>2, <1>3, <1>4, <1>5, <1>6, <1>7 DEF Panel!Next, Panel!LoadSettings

THEOREM PanelComesBack == Panel!Spec => []Panel!RestoresTheLast
<1>1. PanelInv => Panel!RestoresTheLast
  <2> SUFFICES ASSUME PanelInv, phase = "loaded", ~clicked PROVE <<slider, toggle>> = saved
    BY DEF Panel!RestoresTheLast
  <2>1. clicked = FALSE
    BY Zenon DEF PanelInv, PanelType
  <2>2. Len(ahead) = 0 /\ toggle = FALSE
    BY <2>1, Zenon DEF PanelInv, ReadSoFar
  <2>3. Len(ahead) <= 1
    BY <2>2
  <2>4. slider = saved[1] /\ saved[2] = FALSE
    BY <2>1, <2>2, <2>3, Zenon DEF PanelInv, ReadSoFar
  <2> QED
    BY <2>2, <2>4, Zenon DEF PanelInv, PanelType
<1> QED
  BY <1>1, PanelStarts, PanelSteps, PTL DEF Panel!Spec

\* What the run asks of the settings file (loadSettings, saveSettings).
COROLLARY LastSettingsReturn == Panel!Spec => []RestoresTheLast
<1>1. Panel!RestoresTheLast => RestoresTheLast
  BY DEF RestoresTheLast
<1> QED
  BY <1>1, PanelComesBack, PTL

-----------------------------------------------------------------------------
(****************************************************************************)
(* PitchShifter: neither tap overtakes the write position or is overtaken. *)
(****************************************************************************)
\* What is left of the way to the write position when a fade ends, at the ratio that
\* it cannot exceed any more; at an octave up it may be less.
Room == left = 0 => lag >= C * (ratio - Unit) \/ Pitch!Outruns(ratio)
InFade ==
  left > 0 =>
    /\ lag >= (left - 1) * (ratio - Unit)
    /\ \/ /\ offset = -C
          /\ lag <= Unit + Unit * C + (C - left) * Unit
       \/ /\ offset = C /\ ratio < Unit
          /\ lag >= Unit * C
          /\ 2 * lag <= 2 * (5 * (Unit * C) + Unit) + (C - left + 1) * Unit
Position ==
  /\ write \in 0 .. Pitch!n - 1 /\ read \in 0 .. Unit * Pitch!n - 1
  /\ lag = Unit * write - read \/ lag = Unit * write - read + Unit * Pitch!n
PitchType ==
  /\ ratio \in Ratios /\ left \in 0 .. C /\ offset \in {-C, 0, C} /\ lag \in Int
  /\ write \in Int /\ read \in Int /\ hurried \in BOOLEAN
PitchInv ==
  /\ PitchType
  /\ hurried = FALSE =>
       /\ Position /\ lag >= 0
       /\ Room /\ InFade
       /\ left = 0 => lag <= 5 * (Unit * C) + Unit
LEMMA Grows ==
  ASSUME NEW k \in Nat, NEW x \in Int, NEW y \in Int, x <= y
  PROVE  k * x <= k * y
<1>1. k * (y - x) >= 0
  BY SMTT(30)
<1>2. k * (y - x) = k * y - k * x
  BY SMTT(30)
<1> QED
  BY <1>1, <1>2

LEMMA Sizes ==
  ASSUME Pitch!PitchAssumption
  PROVE  /\ Unit \in Nat /\ Unit > 0 /\ C \in Nat /\ C >= 2 /\ Pitch!n = 6 * C + 16 /\ Pitch!n \in Nat
         /\ Unit * C \in Nat /\ Unit * C >= 2 * Unit
         /\ Unit * Pitch!n = 6 * (Unit * C) + 16 * Unit /\ Unit * Pitch!n \in Nat
         /\ Unit * (Pitch!maxDelay + 16) = 5 * (Unit * C) + 16 * Unit
         /\ Unit * (Pitch!maxDelay - 4) = 5 * (Unit * C) - 4 * Unit
         /\ Unit * (Pitch!n - 2) = 6 * (Unit * C) + 14 * Unit
<1>1. Unit \in Nat /\ Unit > 0 /\ C \in Nat /\ C >= 2
  BY DEF Pitch!PitchAssumption
<1>2. Unit * 2 <= Unit * C
  BY <1>1, Grows
<1>3. Unit * C \in Nat
  BY <1>1, <1>2
<1>4. Pitch!n = 6 * C + 16 /\ Pitch!maxDelay = 5 * C
  BY <1>1 DEF Pitch!n, Pitch!maxDelay
<1>5. Unit * Pitch!n = 6 * (Unit * C) + 16 * Unit
  BY <1>1, <1>4
<1>6. /\ Unit * (Pitch!maxDelay + 16) = 5 * (Unit * C) + 16 * Unit
      /\ Unit * (Pitch!maxDelay - 4) = 5 * (Unit * C) - 4 * Unit
      /\ Unit * (Pitch!n - 2) = 6 * (Unit * C) + 14 * Unit
  BY <1>1, <1>4
<1> QED
  BY <1>1, <1>2, <1>3, <1>4, <1>5, <1>6

\* What a ratio may be; below an octave up its way in a fade and the sample before it
\* is not longer than the jump.
LEMMA RatioBounds ==
  ASSUME Pitch!PitchAssumption, NEW r \in Ratios
  PROVE  /\ r \in Nat /\ Unit <= 2 * r /\ r <= 2 * Unit
         /\ C * (r - Unit) \in Int /\ C * (r - Unit) <= Unit * C
         /\ C * (r - Unit) <= Unit * C - (r - Unit) \/ Pitch!Outruns(r)
         /\ C * (Unit - r) = -(C * (r - Unit))
         /\ r <= Unit => C * (r - Unit) <= 0
         /\ r >= Unit => C * (r - Unit) >= 0
         /\ 2 * (C * (r - Unit)) >= -(Unit * C)
<1> USE Sizes
<1>1. r \in Nat /\ Unit <= 2 * r /\ r <= 2 * Unit
  BY DEF Pitch!PitchAssumption
<1>2. (C + 1) * (r - Unit) = C * (r - Unit) + (r - Unit) /\ C * Unit = Unit * C
  BY <1>1
<1>3. C * (r - Unit) <= C * Unit
  BY <1>1, Grows
<1>4. r <= Unit => C * (r - Unit) <= C * 0
  BY <1>1, Grows
<1>5. r >= Unit => C * 0 <= C * (r - Unit)
  BY <1>1, Grows
<1>6. C * (-Unit) <= C * (2 * (r - Unit))
  BY <1>1, Grows
<1>7. C * (2 * (r - Unit)) = 2 * (C * (r - Unit)) /\ C * (-Unit) = -(Unit * C)
  BY <1>1
<1>8. C * (Unit - r) = -(C * (r - Unit)) /\ C * (r - Unit) \in Int
  BY <1>1
<1>9. (C + 1) * (r - Unit) <= C * Unit \/ Pitch!Outruns(r)
  BY <1>1, <1>2, <1>8 DEF Pitch!Outruns
<1> QED
  BY <1>1, <1>2, <1>3, <1>4, <1>5, <1>6, <1>7, <1>8, <1>9

\* A wrap changes nothing modulo what is wrapped at.
LEMMA ModWraps ==
  ASSUME NEW m \in Nat, m > 0, NEW y \in Int
  PROVE  (y + m) % m = y % m
<1> DEFINE q == y \div m
           p == (y + m) \div m
           e == y % m
           f == (y + m) % m
<1>1. q \in Int /\ p \in Int /\ e \in 0 .. m - 1 /\ f \in 0 .. m - 1
  BY SMTT(30)
<1>2. y = m * q + e /\ y + m = m * p + f
  BY SMTT(30)
<1> HIDE DEF q, p, e, f
<1>3. m * p - m * q - m = e - f
  BY <1>1, <1>2
<1>4. p >= q + 2 => m * (q + 2) <= m * p
  BY <1>1, Grows
<1>5. p <= q => m * p <= m * q
  BY <1>1, Grows
<1>6. m * (q + 2) = m * q + 2 * m /\ m * (q + 1) = m * q + m /\ m * p \in Int /\ m * q \in Int
  BY <1>1
<1>7. p = q + 1
  <2>1. ~(p >= q + 2)
    BY <1>1, <1>3, <1>4, <1>6
  <2>2. ~(p <= q)
    BY <1>1, <1>3, <1>5, <1>6
  <2> QED
    BY <2>1, <2>2, <1>1
<1>8. m * p = m * q + m
  BY <1>6, <1>7
<1>9. e = f
  BY <1>1, <1>3, <1>6, <1>8
<1> QED
  BY <1>9 DEF e, f

\* The lag is less than the buffer, by a sample at least.
LEMMA LagBounds ==
  ASSUME Pitch!PitchAssumption, PitchInv, hurried = FALSE
  PROVE  lag \in 0 .. Unit * Pitch!n - Unit - 1
<1> USE Sizes
<1>1. PitchType /\ lag >= 0 /\ InFade /\ (left = 0 => lag <= 5 * (Unit * C) + Unit)
  BY DEF PitchInv
<1>2. left \in 0 .. C /\ lag \in Int
  BY <1>1 DEF PitchType
<1>3. left > 0 => 0 <= (C - left) * Unit /\ (C - left) * Unit <= Unit * C
  <2>1. Unit * 0 <= Unit * (C - left) /\ Unit * (C - left) <= Unit * C
    BY <1>2, Grows
  <2> QED
    BY <2>1, <1>2
<1>4. (C - left + 1) * Unit = (C - left) * Unit + Unit /\ (C - left) * Unit \in Int
  BY <1>2
<1>5. left > 0 => lag <= Unit + 2 * (Unit * C) \/ 2 * lag <= 11 * (Unit * C) + 3 * Unit
  BY <1>1, <1>2, <1>3, <1>4 DEF InFade
<1> QED
  BY <1>1, <1>2, <1>5

\* The distance process computes is how far the read position is behind.
LEMMA DistIsLag ==
  ASSUME Pitch!PitchAssumption, PitchInv, hurried = FALSE
  PROVE  LET w == (write + 1) % Pitch!n IN
         /\ w \in 0 .. Pitch!n - 1 /\ Unit * w \in 0 .. Unit * Pitch!n - 1
         /\ Unit * w = Unit * write + Unit \/ Unit * w = Unit * write + Unit - Unit * Pitch!n
         /\ Pitch!Dist(w) = lag + Unit
<1> USE Sizes
<1> DEFINE w == (write + 1) % Pitch!n
<1>1. Position /\ lag \in 0 .. Unit * Pitch!n - Unit - 1
  BY LagBounds DEF PitchInv
<1>2. write \in 0 .. Pitch!n - 1 /\ read \in 0 .. Unit * Pitch!n - 1
  BY <1>1 DEF Position
<1>3. (w = write + 1 /\ w <= Pitch!n - 1) \/ (w = 0 /\ write = Pitch!n - 1)
  BY <1>2
<1>4. w \in 0 .. Pitch!n - 1
  BY <1>2, <1>3
<1>5. Unit * w = Unit * write + Unit \/ Unit * w = Unit * write + Unit - Unit * Pitch!n
  <2>1. CASE w = write + 1
    <3>1. Unit * (write + 1) = Unit * write + Unit
      BY <1>2
    <3> QED
      BY <2>1, <3>1
  <2>2. CASE w = 0 /\ write = Pitch!n - 1
    <3>1. Unit * (Pitch!n - 1) = Unit * Pitch!n - Unit /\ Unit * 0 = 0
      BY <1>2
    <3> QED
      BY <2>2, <3>1
  <2> QED
    BY <2>1, <2>2, <1>3
<1>6. Unit * write \in Int /\ Unit * w \in Int /\ 0 <= Unit * w /\ Unit * w <= Unit * Pitch!n - Unit
  <2>1. Unit * 0 <= Unit * w /\ Unit * w <= Unit * (Pitch!n - 1)
    BY <1>4, Grows
  <2>2. Unit * (Pitch!n - 1) = Unit * Pitch!n - Unit
    OBVIOUS
  <2> HIDE DEF w
  <2> QED
    BY <2>1, <2>2, <1>2, <1>4
<1> HIDE DEF w
<1>7. Pitch!Dist(w) = lag + Unit
  <2>1. Pitch!Dist(w) = IF Unit * w - read < 0 THEN Unit * w - read + Unit * Pitch!n ELSE Unit * w - read
    BY DEF Pitch!Dist
  <2>2. lag = Unit * write - read \/ lag = Unit * write - read + Unit * Pitch!n
    BY <1>1 DEF Position
  <2> QED
    BY <2>1, <2>2, <1>1, <1>2, <1>5, <1>6
<1> QED
  BY <1>4, <1>5, <1>6, <1>7 DEF w

\* After a step of less than the buffer the read position is in it again, as far
\* behind as the lag says.
LEMMA Moves ==
  ASSUME Pitch!PitchAssumption, PitchInv, hurried = FALSE, NEW r \in Ratios, NEW jump \in Int,
         -(Unit * C) <= jump, jump <= Unit * C,
         write' = (write + 1) % Pitch!n, read' = Pitch!Wrapped(read + r + jump),
         lag' = lag + Unit - r - jump, 0 <= lag', lag' < Unit * Pitch!n
  PROVE  Position'
<1> USE Sizes
<1>1. /\ write' \in 0 .. Pitch!n - 1 /\ Unit * write' \in 0 .. Unit * Pitch!n - 1
      /\ Unit * write' = Unit * write + Unit \/ Unit * write' = Unit * write + Unit - Unit * Pitch!n
  BY DistIsLag
<1>2. write \in 0 .. Pitch!n - 1 /\ read \in 0 .. Unit * Pitch!n - 1 /\ lag \in Int /\ Unit * write \in Int
  BY DEF PitchInv, Position, PitchType
<1>3. lag = Unit * write - read \/ lag = Unit * write - read + Unit * Pitch!n
  BY DEF PitchInv, Position
<1>4. r \in Nat /\ r <= 2 * Unit
  BY RatioBounds
<1>5. /\ read' \in 0 .. Unit * Pitch!n - 1
      /\ \/ read' = read + r + jump \/ read' = read + r + jump - Unit * Pitch!n
         \/ read' = read + r + jump + Unit * Pitch!n
  BY <1>2, <1>4 DEF Pitch!Wrapped
<1>6. lag' \in Int
  BY <1>2, <1>4
<1>7. lag' = Unit * write' - read' \/ lag' = Unit * write' - read' + Unit * Pitch!n
  BY <1>1, <1>2, <1>3, <1>4, <1>5, <1>6
<1> QED
  BY <1>1, <1>5, <1>7 DEF Position

\* What a sample may do next to moving the read position on.
Quiet(r) == hurried = FALSE /\ Pitch!Process(r) /\ hurried' = FALSE

\* The lag a sample leaves, by whether it begins a fade, goes on with one or ends one.
LagInv ==
  /\ lag \in 0 .. Unit * Pitch!n - Unit - 1
  /\ Room /\ InFade
  /\ left = 0 => lag <= 5 * (Unit * C) + Unit

LEMMA StaysOut ==
  ASSUME Pitch!PitchAssumption, PitchInv, hurried = FALSE, NEW r \in Ratios, left = 0,
         left' = 0, ratio' = r, lag' = lag + Unit - r,
         r >= Unit => lag >= Unit + C * (r - Unit),
         r < Unit => lag <= 5 * (Unit * C) - 5 * Unit + C * (r - Unit)
  PROVE  lag' >= 0 /\ Room' /\ InFade' /\ (left' = 0 => lag' <= 5 * (Unit * C) + Unit)
<1> USE Sizes, RatioBounds
<1>1. lag \in Int /\ lag >= 0 /\ lag <= 5 * (Unit * C) + Unit
  BY DEF PitchInv, PitchType
<1>2. r \in Nat /\ C * (r - Unit) \in Int /\ Unit <= 2 * r /\ r <= 2 * Unit
  OBVIOUS
<1>3. lag' >= 0 /\ lag' >= C * (r - Unit)
  BY <1>1, <1>2
<1>4. lag' <= 5 * (Unit * C) + Unit
  BY <1>1, <1>2
<1> QED
  BY <1>3, <1>4 DEF Room, InFade

LEMMA GoesBack ==
  ASSUME Pitch!PitchAssumption, PitchInv, hurried = FALSE, NEW r \in Ratios, left = 0,
         left' = C, offset' = -C, ratio' = r, lag' = lag + Unit - r,
         r >= Unit, r <= ratio, lag < Unit + C * (r - Unit),
         Pitch!Outruns(ratio) => lag >= C * (r - Unit)
  PROVE  lag' >= 0 /\ Room' /\ InFade'
<1> USE Sizes, RatioBounds
<1>1. lag \in Int /\ ratio \in Ratios /\ (lag >= C * (ratio - Unit) \/ Pitch!Outruns(ratio))
  BY DEF PitchInv, PitchType, Room
<1>2. r \in Nat /\ ratio \in Nat /\ C * (r - Unit) \in Int /\ C * (ratio - Unit) \in Int
  BY <1>1
<1>3. C * (r - Unit) <= lag
  <2>1. C * (r - Unit) <= C * (ratio - Unit)
    BY <1>2, Grows
  <2> QED
    BY <2>1, <1>1, <1>2
<1>4. 1 * (r - Unit) <= C * (r - Unit)
  <2>1. (r - Unit) * 1 <= (r - Unit) * C
    BY <1>2, Grows
  <2> QED
    BY <2>1, <1>2
<1>5. (C - 1) * (r - Unit) = C * (r - Unit) - (r - Unit)
  BY <1>2
<1>6. lag' >= 0 /\ lag' >= (C - 1) * (r - Unit)
  BY <1>1, <1>2, <1>3, <1>4, <1>5
<1>7. lag' <= Unit + Unit * C
  BY <1>1, <1>2
<1>8. (C - C) * Unit = 0
  OBVIOUS
<1> QED
  BY <1>2, <1>6, <1>7, <1>8 DEF Room, InFade

LEMMA GoesOn ==
  ASSUME Pitch!PitchAssumption, PitchInv, hurried = FALSE, NEW r \in Ratios, left = 0,
         left' = C, offset' = C, ratio' = r, lag' = lag + Unit - r,
         r < Unit, lag > 5 * (Unit * C) - 5 * Unit + C * (r - Unit)
  PROVE  lag' >= 0 /\ Room' /\ InFade'
<1> USE Sizes, RatioBounds
<1>1. lag \in Int /\ lag >= 0 /\ lag <= 5 * (Unit * C) + Unit
  BY DEF PitchInv, PitchType
<1>2. r \in Nat /\ C * (r - Unit) \in Int /\ 2 * (C * (r - Unit)) >= -(Unit * C) /\ Unit <= 2 * r
  OBVIOUS
<1>3. lag' >= Unit * C
  BY <1>1, <1>2
<1>4. (C - 1) * (r - Unit) <= 0
  <2>1. (C - 1) * (r - Unit) <= (C - 1) * 0
    <3>1. C - 1 \in Nat /\ r - Unit \in Int /\ r - Unit <= 0
      BY <1>2
    <3> QED
      BY <3>1, Grows
  <2> QED
    BY <2>1
<1>5. (C - C + 1) * Unit = Unit /\ 2 * lag' <= 2 * (5 * (Unit * C) + Unit) + Unit
  BY <1>1, <1>2
<1>6. lag' >= (C - 1) * (r - Unit)
  <2>1. (C - 1) * (r - Unit) \in Int /\ lag' \in Int
    BY <1>1, <1>2
  <2> QED
    BY <2>1, <1>3, <1>4
<1> QED
  BY <1>3, <1>5, <1>6 DEF Room, InFade

LEMMA FadesOn ==
  ASSUME Pitch!PitchAssumption, PitchInv, hurried = FALSE, NEW r \in Ratios, left > 1,
         left' = left - 1, offset' = offset, ratio' = r, lag' = lag + Unit - r, r <= ratio
  PROVE  lag' >= 0 /\ Room' /\ InFade'
<1> USE Sizes, RatioBounds
<1>1. lag \in Int /\ lag >= 0 /\ left \in 0 .. C /\ ratio \in Ratios /\ InFade
  BY DEF PitchInv, PitchType
<1>2. r \in Nat /\ ratio \in Nat /\ Unit <= 2 * r /\ r <= 2 * Unit
  BY <1>1
<1>3. (left - 1) * (r - Unit) <= (left - 1) * (ratio - Unit)
  BY <1>1, <1>2, Grows
<1>4. (left - 1) * (r - Unit) = (left - 2) * (r - Unit) + (r - Unit)
  BY <1>1, <1>2
<1>5. (left - 1) * (ratio - Unit) \in Int /\ (left - 2) * (r - Unit) \in Int
  BY <1>1, <1>2
<1>6. lag' >= (left - 2) * (r - Unit)
  BY <1>1, <1>2, <1>3, <1>4, <1>5 DEF InFade
<1>7. r >= Unit => (left - 2) * 0 <= (left - 2) * (r - Unit)
  BY <1>1, <1>2, Grows
<1>8. lag' >= 0
  BY <1>1, <1>2, <1>5, <1>6, <1>7
<1>9. /\ (C - left') * Unit = (C - left) * Unit + Unit
      /\ (C - left' + 1) * Unit = (C - left + 1) * Unit + Unit
      /\ (C - left) * Unit \in Int /\ (C - left + 1) * Unit \in Int
  <2>1. C - left' = C - left + 1
    BY <1>1
  <2>2. /\ (C - left + 1) * Unit = (C - left) * Unit + Unit
        /\ (C - left + 1 + 1) * Unit = (C - left + 1) * Unit + Unit
        /\ (C - left) * Unit \in Int /\ (C - left + 1) * Unit \in Int
    BY <1>1
  <2> QED
    BY <2>1, <2>2
<1>10. CASE offset = -C
  <2>1. lag <= Unit + Unit * C + (C - left) * Unit
    BY <1>1, <1>10 DEF InFade
  <2>2. lag' <= Unit + Unit * C + (C - left') * Unit
    BY <2>1, <1>1, <1>2, <1>9
  <2> QED
    BY <2>2, <1>1, <1>6, <1>8, <1>10 DEF Room, InFade
<1>11. CASE offset = C
  <2>1. ratio < Unit /\ lag >= Unit * C /\ 2 * lag <= 2 * (5 * (Unit * C) + Unit) + (C - left + 1) * Unit
    BY <1>1, <1>11 DEF InFade
  <2>2. lag' >= Unit * C /\ 2 * lag' <= 2 * (5 * (Unit * C) + Unit) + (C - left' + 1) * Unit
    BY <2>1, <1>1, <1>2, <1>9
  <2> QED
    BY <2>1, <2>2, <1>1, <1>2, <1>6, <1>8, <1>11 DEF Room, InFade
<1> QED
  BY <1>1, <1>10, <1>11 DEF InFade

LEMMA FadeEnds ==
  ASSUME Pitch!PitchAssumption, PitchInv, hurried = FALSE, NEW r \in Ratios, left = 1,
         left' = 0, ratio' = r, lag' = lag + Unit - r - Unit * offset, r <= ratio
  PROVE  lag' >= 0 /\ Room' /\ InFade' /\ lag' <= 5 * (Unit * C) + Unit
<1> USE Sizes, RatioBounds
<1>1. lag \in Int /\ lag >= 0 /\ ratio \in Ratios /\ InFade
  BY DEF PitchInv, PitchType
<1>2. r \in Nat /\ ratio \in Nat /\ Unit <= 2 * r /\ r <= 2 * Unit /\ C * (r - Unit) \in Int
  BY <1>1
<1>3. (C - 1) * Unit = Unit * C - Unit /\ (C - 1 + 1) * Unit = Unit * C
  OBVIOUS
<1>4. CASE offset = -C
  <2>1. lag <= 2 * (Unit * C)
    BY <1>1, <1>3, <1>4 DEF InFade
  <2>2. Unit * offset = -(Unit * C)
    BY <1>4
  <2>3. /\ lag' >= 0 /\ lag' <= 5 * (Unit * C) + Unit
        /\ lag' >= C * (r - Unit) \/ Pitch!Outruns(r)
    BY <2>1, <2>2, <1>1, <1>2
  <2> QED
    BY <2>3 DEF Room, InFade
<1>5. CASE offset = C
  <2>1. ratio < Unit /\ lag >= Unit * C /\ 2 * lag <= 2 * (5 * (Unit * C) + Unit) + Unit * C
    BY <1>1, <1>3, <1>5 DEF InFade
  <2>2. Unit * offset = Unit * C
    BY <1>5
  <2>3. lag' >= 0 /\ lag' >= C * (r - Unit) /\ lag' <= 5 * (Unit * C) + Unit
    BY <2>1, <2>2, <1>1, <1>2
  <2> QED
    BY <2>3 DEF Room, InFade
<1> QED
  BY <1>1, <1>4, <1>5 DEF InFade

LEMMA PitchStarts ==
  ASSUME Pitch!PitchAssumption, Pitch!Init
  PROVE  PitchInv
<1> USE Sizes, RatioBounds DEF Pitch!Init
<1>1. PitchType
  <2>1. left \in 0 .. C /\ offset \in {-C, 0, C} /\ lag \in Int /\ write \in Int /\ read \in Int
    OBVIOUS
  <2>2. ratio \in Ratios /\ hurried \in BOOLEAN
    BY Zenon
  <2> QED
    BY <2>1, <2>2, Zenon DEF PitchType
<1>2. Position
  <2>1. Unit * 0 = 0
    OBVIOUS
  <2> QED
    BY <2>1 DEF Position
<1>3. lag >= 0 /\ lag <= 5 * (Unit * C) + Unit
  OBVIOUS
<1>4. Room /\ InFade
  <2>1. lag >= C * (ratio - Unit)
    OBVIOUS
  <2> QED
    BY <2>1 DEF Room, InFade
<1> QED
  BY <1>1, <1>2, <1>3, <1>4 DEF PitchInv

LEMMA ResetPitch ==
  ASSUME Pitch!PitchAssumption, PitchInv, Pitch!Reset
  PROVE  PitchInv'
<1> USE Sizes, RatioBounds DEF Pitch!Reset
<1>0. ratio \in Ratios
  BY DEF PitchInv, PitchType
<1>1. PitchType'
  <2>1. /\ left' \in 0 .. C /\ offset' \in {-C, 0, C} /\ lag' \in Int
        /\ write' \in Int /\ read' \in Int
    OBVIOUS
  <2>2. ratio' \in Ratios /\ hurried' \in BOOLEAN
    BY <1>0, Zenon
  <2> QED
    BY <2>1, <2>2, Zenon DEF PitchType
<1>2. Position'
  <2>1. Unit * 0 = 0
    OBVIOUS
  <2> QED
    BY <2>1 DEF Position
<1>3. lag' >= 0 /\ lag' <= 5 * (Unit * C) + Unit
  OBVIOUS
<1>4. Room' /\ InFade'
  <2>1. lag' >= C * (ratio' - Unit)
    BY <1>0
  <2> QED
    BY <2>1 DEF Room, InFade
<1> QED
  BY <1>1, <1>2, <1>3, <1>4 DEF PitchInv

LEMMA ProcessPitch ==
  ASSUME Pitch!PitchAssumption, PitchInv, hurried = FALSE, NEW r \in Ratios, Pitch!Process(r)
  PROVE  PitchInv'
<1> USE Sizes, RatioBounds
<1> DEFINE w == (write + 1) % Pitch!n
           jump == IF left = 1 THEN Unit * offset ELSE 0
<1>1. PitchType /\ lag >= 0
  BY DEF PitchInv
<1>2. r \in Nat /\ lag \in Int /\ left \in 0 .. C /\ offset \in {-C, 0, C}
  BY <1>1 DEF PitchType
<1>3. jump \in Int /\ -(Unit * C) <= jump /\ jump <= Unit * C
  <2>1. Unit * (-C) = -(Unit * C) /\ Unit * 0 = 0
    OBVIOUS
  <2> QED
    BY <2>1, <1>2
<1>4. /\ write' = w /\ ratio' = r /\ read' = Pitch!Wrapped(read + r + jump)
      /\ lag' = lag + Unit - r - jump /\ hurried' \in BOOLEAN
      /\ hurried' = FALSE => ~Pitch!Hurries(r, Pitch!Dist(w))
  BY DEF Pitch!Process
<1>5. Pitch!Dist(w) = lag + Unit
  BY DistIsLag
<1>6. PitchType'
  <2>1. left' \in 0 .. C /\ offset' \in {-C, 0, C}
    BY <1>2 DEF Pitch!Process
  <2>2. w \in 0 .. Pitch!n - 1 /\ read \in Int /\ read + r + jump \in Int
    BY <1>1, <1>2, <1>3, DistIsLag DEF PitchType
  <2>3. read' \in Int /\ lag' \in Int
    BY <2>2, <1>2, <1>3, <1>4 DEF Pitch!Wrapped
  <2> QED
    BY <2>1, <2>2, <2>3, <1>4 DEF PitchType
<1>7. ASSUME hurried' = FALSE
      PROVE  /\ lag' >= 0 /\ lag' < Unit * Pitch!n /\ Room' /\ InFade'
             /\ left' = 0 => lag' <= 5 * (Unit * C) + Unit
  <2> DEFINE back == left = 0 /\ r >= Unit /\ Pitch!Dist(w) < Pitch!Nearest(r)
             on   == left = 0 /\ r < Unit /\ Pitch!Dist(w) > Pitch!Farthest(r)
  <2>0. lag < Unit * Pitch!n - Unit /\ Unit * Pitch!n \in Nat
    <3>1. lag \in 0 .. Unit * Pitch!n - Unit - 1
      BY LagBounds
    <3> QED
      BY <3>1
  <2>1. /\ left' = IF left > 0 THEN left - 1 ELSE IF back \/ on THEN C ELSE 0
        /\ offset' = IF back THEN -C ELSE IF on THEN C ELSE offset
    BY DEF Pitch!Process
  <2>2. left > 0 \/ Pitch!Dist(w) < Pitch!Nearest(r) => r <= ratio
    <3>1. ~(r > ratio /\ (left > 0 \/ Pitch!Dist(w) < Pitch!Nearest(r)))
      BY <1>7, <1>4 DEF Pitch!Hurries
    <3>2. ratio \in Nat
      BY <1>1 DEF PitchType
    <3> QED
      BY <3>1, <3>2, <1>2
  <2>3. /\ Pitch!Nearest(r) = 2 * Unit + C * (r - Unit)
        /\ Pitch!Farthest(r) = 5 * (Unit * C) - 4 * Unit + C * (r - Unit)
        /\ C * (r - Unit) \in Int
    <3>1. Pitch!Farthest(r) = 5 * (Unit * C) - 4 * Unit - C * (Unit - r)
      BY DEF Pitch!Farthest
    <3>2. C * (r - Unit) \in Int /\ C * (Unit - r) = -(C * (r - Unit))
      OBVIOUS
    <3> QED
      BY <3>1, <3>2 DEF Pitch!Nearest
  <2>4. CASE back
    <3>1. left = 0 /\ left' = C /\ offset' = -C /\ lag' = lag + Unit - r /\ r <= ratio
      BY <2>1, <2>2, <2>4, <1>2, <1>4
    <3>2. lag < Unit + C * (r - Unit) /\ r >= Unit
      BY <2>3, <2>4, <1>2, <1>5
    <3>3. Pitch!Outruns(ratio) => lag >= C * (r - Unit)
      <4>1. ~(Pitch!Outruns(ratio) /\ left = 0 /\ Pitch!Dist(w) < Unit + C * (r - Unit))
        BY <1>7, <1>4 DEF Pitch!Hurries
      <4> QED
        BY <4>1, <3>1, <2>3, <1>2, <1>5
    <3>4. lag' >= 0 /\ Room' /\ InFade'
      BY <3>1, <3>2, <3>3, <1>4, GoesBack
    <3>5. lag' < Unit * Pitch!n /\ left' # 0
      BY <3>1, <1>2, <2>0
    <3> QED
      BY <3>4, <3>5
  <2>5. CASE on
    <3>1. left = 0 /\ left' = C /\ offset' = C /\ lag' = lag + Unit - r /\ r < Unit
      BY <2>1, <2>5, <1>2, <1>4
    <3>2. lag > 5 * (Unit * C) - 5 * Unit + C * (r - Unit)
      BY <2>3, <2>5, <1>2, <1>5
    <3>3. lag' >= 0 /\ Room' /\ InFade'
      BY <3>1, <3>2, <1>4, GoesOn
    <3>4. lag' < Unit * Pitch!n /\ left' # 0
      BY <3>1, <1>2, <2>0
    <3> QED
      BY <3>3, <3>4
  <2>6. CASE left = 0 /\ ~back /\ ~on
    <3>1. left' = 0 /\ lag' = lag + Unit - r
      BY <2>1, <2>6, <1>2, <1>4
    <3>2. /\ r >= Unit => lag >= Unit + C * (r - Unit)
          /\ r < Unit => lag <= 5 * (Unit * C) - 5 * Unit + C * (r - Unit)
      BY <2>3, <2>6, <1>2, <1>5
    <3>3. lag' >= 0 /\ Room' /\ InFade' /\ (left' = 0 => lag' <= 5 * (Unit * C) + Unit)
      BY <3>1, <3>2, <2>6, <1>4, StaysOut
    <3> QED
      BY <3>1, <3>3, <1>2, LagBounds
  <2>7. CASE left = 1
    <3>1. left' = 0 /\ lag' = lag + Unit - r - Unit * offset /\ r <= ratio
      BY <2>1, <2>2, <2>7, <1>2, <1>4
    <3>2. lag' >= 0 /\ Room' /\ InFade' /\ lag' <= 5 * (Unit * C) + Unit
      BY <3>1, <2>7, <1>4, FadeEnds
    <3> QED
      BY <3>1, <3>2, <1>2, LagBounds
  <2>8. CASE left > 1
    <3>0. left > 0 /\ left # 0 /\ left # 1
      BY <2>8, <1>2
    <3>1. left' = left - 1 /\ offset' = offset /\ lag' = lag + Unit - r /\ r <= ratio
      <4>1. ~back /\ ~on /\ jump = 0 /\ r <= ratio
        BY <3>0, <2>2
      <4>2. left' = left - 1 /\ offset' = offset
        BY <4>1, <3>0, <2>1, Zenon
      <4> QED
        BY <4>1, <4>2, <1>2, <1>4
    <3>2. lag' >= 0 /\ Room' /\ InFade'
      BY <3>1, <2>8, <1>4, FadesOn
    <3>3. lag' < Unit * Pitch!n /\ left' # 0
      BY <3>1, <2>8, <1>2, <2>0
    <3> QED
      BY <3>2, <3>3
  <2> QED
    BY <2>4, <2>5, <2>6, <2>7, <2>8, <1>2
<1>8. ASSUME hurried' = FALSE
      PROVE  Position'
  <2> HIDE DEF jump, w
  <2> QED
    BY <1>3, <1>4, <1>7, <1>8, Moves DEF w
<1> QED
  BY <1>6, <1>7, <1>8 DEF PitchInv

LEMMA PitchSteps ==
  ASSUME Pitch!PitchAssumption, PitchInv, [Pitch!Next]_(Pitch!vars)
  PROVE  PitchInv'
<1>1. ASSUME NEW r \in Ratios, ~hurried, Pitch!Process(r)
      PROVE  PitchInv'
  <2>1. hurried = FALSE
    BY <1>1, Zenon DEF PitchInv, PitchType
  <2> QED
    BY <2>1, <1>1, ProcessPitch
<1>2. CASE Pitch!Reset
  BY <1>2, ResetPitch
<1>3. CASE UNCHANGED Pitch!vars
  BY <1>3 DEF Pitch!vars, PitchInv, PitchType, Position, Room, InFade
<1> QED
  BY <1>1, <1>2, <1>3 DEF Pitch!Next

LEMMA PitchStays ==
  ASSUME Pitch!PitchAssumption, PitchInv
  PROVE  Pitch!TapsStayBehind
<1> USE Sizes
<1> SUFFICES ASSUME ~hurried
             PROVE  /\ lag % (Unit * Pitch!n) = (Unit * write - read) % (Unit * Pitch!n)
                    /\ 0 <= lag /\ lag <= Unit * (Pitch!n - 2)
                    /\ left > 0 => 0 <= lag - Unit * offset /\ lag - Unit * offset <= Unit * (Pitch!n - 2)
  BY Zenon DEF Pitch!TapsStayBehind
<1>1. hurried = FALSE
  BY Zenon DEF PitchInv, PitchType
<1>2. PitchType /\ Position /\ lag >= 0 /\ InFade /\ (left = 0 => lag <= 5 * (Unit * C) + Unit)
  BY <1>1 DEF PitchInv
<1>3. left \in 0 .. C /\ lag \in Int /\ write \in Int /\ read \in Int /\ Unit * write \in Int
  BY <1>2 DEF PitchType
<1>4. lag % (Unit * Pitch!n) = (Unit * write - read) % (Unit * Pitch!n)
  <2>1. Unit * write - read \in Int /\ Unit * Pitch!n \in Nat /\ Unit * Pitch!n > 0
    BY <1>3
  <2>2. CASE lag = Unit * write - read
    BY <2>2
  <2>3. CASE lag = Unit * write - read + Unit * Pitch!n
    BY <2>1, <2>3, ModWraps
  <2> QED
    BY <2>2, <2>3, <1>2 DEF Position
<1>5. left > 0 => 0 <= (C - left) * Unit /\ (C - left) * Unit <= Unit * C - Unit
  <2> SUFFICES ASSUME left > 0
               PROVE  0 <= (C - left) * Unit /\ (C - left) * Unit <= Unit * C - Unit
    OBVIOUS
  <2>1. Unit * 0 <= Unit * (C - left) /\ Unit * (C - left) <= Unit * (C - 1)
    BY <1>3, Grows
  <2>2. Unit * (C - 1) = Unit * C - Unit /\ (C - left) * Unit = Unit * (C - left)
    BY <1>3
  <2> QED
    BY <2>1, <2>2
<1>6. (C - left + 1) * Unit = (C - left) * Unit + Unit /\ (C - left) * Unit \in Int
  BY <1>3
<1>7. ASSUME left > 0, offset = -C
      PROVE  /\ lag <= Unit * (Pitch!n - 2) /\ 0 <= lag - Unit * offset
             /\ lag - Unit * offset <= Unit * (Pitch!n - 2)
  <2>1. lag <= Unit + Unit * C + (C - left) * Unit /\ Unit * offset = -(Unit * C)
    BY <1>2, <1>7 DEF InFade
  <2> QED
    BY <2>1, <1>2, <1>3, <1>5, <1>6, <1>7
<1>8. ASSUME left > 0, offset = C
      PROVE  /\ lag <= Unit * (Pitch!n - 2) /\ 0 <= lag - Unit * offset
             /\ lag - Unit * offset <= Unit * (Pitch!n - 2)
  <2>1. /\ lag >= Unit * C /\ 2 * lag <= 2 * (5 * (Unit * C) + Unit) + (C - left + 1) * Unit
        /\ Unit * offset = Unit * C
    BY <1>2, <1>8 DEF InFade
  <2> QED
    BY <2>1, <1>2, <1>3, <1>5, <1>6, <1>8
<1>9. left > 0 => offset = -C \/ offset = C
  BY <1>2 DEF InFade
<1>10. left = 0 => lag <= Unit * (Pitch!n - 2)
  BY <1>2, <1>3
<1> QED
  BY <1>2, <1>3, <1>4, <1>7, <1>8, <1>9, <1>10

\* The distance process reads and the two taps, at every sample.
THEOREM TapsAreBehind ==
  ASSUME Pitch!PitchAssumption
  PROVE  Pitch!Spec => []Pitch!TapsStayBehind
<1>1. Pitch!Init => PitchInv
  BY PitchStarts
<1>2. PitchInv /\ [Pitch!Next]_(Pitch!vars) => PitchInv'
  BY PitchSteps
<1>3. PitchInv => Pitch!TapsStayBehind
  BY PitchStays
<1> QED
  BY <1>1, <1>2, <1>3, PTL DEF Pitch!Spec

\* What the run asks of the two taps of the pitch shifter (process).
COROLLARY PitchTapsStayBehind == Pitch!Spec => []TapsStayBehind
<1>1. Pitch!TapsStayBehind => TapsStayBehind
  BY DEF TapsStayBehind
<1> QED
  BY <1>1, TapsAreBehind, PartsAssumption, PTL

-----------------------------------------------------------------------------
(****************************************************************************)
(* NamAmp: every block fits, and what is computed is held.                 *)
(****************************************************************************)
LEMMA AmpFacts ==
  /\ Zeros \in Nat \ {0} /\ Slack \in Nat \ {0}
  /\ Rates \subseteq Nat \ {0} /\ Rates # {} /\ BlockSizes \subseteq Nat \ {0}
BY PartsAssumption DEF Nam!AmpAssumption

LEMMA TimesKeeps ==
  ASSUME NEW b \in Nat, NEW x \in Int, NEW y \in Int, x <= y
  PROVE  b * x <= b * y
OBVIOUS

LEMMA Cancel ==
  ASSUME NEW b \in Nat \ {0}, NEW x \in Int, NEW y \in Int, b * x < b * y + b
  PROVE  x <= y
<1> SUFFICES ASSUME x >= y + 1 PROVE FALSE
  OBVIOUS
<1>1. b * (y + 1) <= b * x
  BY TimesKeeps
<1>2. b * (y + 1) = b * y + b
  OBVIOUS
<1> QED
  BY <1>1, <1>2

LEMMA DivFacts ==
  ASSUME NEW a \in Nat, NEW b \in Nat \ {0}
  PROVE  a \div b \in Nat /\ b * (a \div b) <= a /\ a < b * (a \div b) + b
OBVIOUS

LEMMA CeilFacts ==
  ASSUME NEW a \in Nat, NEW b \in Nat \ {0}
  PROVE  /\ Nam!CeilDiv(a, b) \in Nat
         /\ a <= b * Nam!CeilDiv(a, b) /\ b * Nam!CeilDiv(a, b) < a + b
<1>1. a + b - 1 \in Nat
  OBVIOUS
<1>2. Nam!CeilDiv(a, b) = (a + b - 1) \div b
  BY DEF Nam!CeilDiv
<1> QED
  BY <1>1, <1>2, DivFacts

(* Samples in and samples due *)

\* What a resampler has given of i samples.
DueOf(i, from, to) == IF i <= Zeros THEN 0 ELSE Nam!CeilDiv((i - Zeros) * to, from)

LEMMA DueFacts ==
  ASSUME NEW i \in Nat, NEW from \in Nat \ {0}, NEW to \in Nat \ {0}
  PROVE  /\ DueOf(i, from, to) \in Nat
         /\ (i - Zeros) * to <= from * DueOf(i, from, to)
         /\ i > Zeros => from * DueOf(i, from, to) < (i - Zeros) * to + from
<1>1. CASE i <= Zeros
  <2>1. DueOf(i, from, to) = 0
    BY <1>1 DEF DueOf
  <2>2. i - Zeros <= 0 /\ i - Zeros \in Int
    BY <1>1, AmpFacts
  <2>3. to * (i - Zeros) <= to * 0
    BY <2>2, TimesKeeps
  <2>4. (i - Zeros) * to <= 0
    BY <2>2, <2>3
  <2> QED
    BY <1>1, <2>1, <2>4, AmpFacts
<1>2. CASE i > Zeros
  <2>1. (i - Zeros) * to \in Nat
    BY <1>2, AmpFacts
  <2>2. DueOf(i, from, to) = Nam!CeilDiv((i - Zeros) * to, from)
    BY <1>2, AmpFacts DEF DueOf
  <2> QED
    BY <2>1, <2>2, CeilFacts
<1> QED
  BY <1>1, <1>2, AmpFacts

LEMMA DueKeepsOrder ==
  ASSUME NEW i \in Nat, NEW j \in Nat, i <= j, NEW from \in Nat \ {0}, NEW to \in Nat \ {0}
  PROVE  DueOf(i, from, to) <= DueOf(j, from, to)
<1>1. PICK d \in Nat : /\ d = DueOf(i, from, to)
                       /\ i > Zeros => from * d < (i - Zeros) * to + from
                       /\ i <= Zeros => d = 0
  BY DueFacts DEF DueOf
<1>2. PICK e \in Nat : e = DueOf(j, from, to) /\ (j - Zeros) * to <= from * e
  BY DueFacts
<1>3. CASE i <= Zeros
  BY <1>1, <1>2, <1>3
<1>4. CASE i > Zeros
  <2>1. to * (i - Zeros) <= to * (j - Zeros)
    BY TimesKeeps, AmpFacts
  <2>2. (i - Zeros) * to <= (j - Zeros) * to
    BY <2>1, AmpFacts
  <2>3. (i - Zeros) * to \in Int /\ (j - Zeros) * to \in Int /\ from * d \in Int /\ from * e \in Int
    BY AmpFacts
  <2>4. from * d < from * e + from
    BY <1>1, <1>2, <1>4, <2>2, <2>3
  <2>5. d <= e
    BY <2>4, Cancel
  <2> QED
    BY <1>1, <1>2, <2>5
<1> QED
  BY <1>3, <1>4, AmpFacts

\* Of n samples more, it gives no more than their length at the other rate, and one.
LEMMA DueGrows ==
  ASSUME NEW i \in Nat, NEW n \in Nat, NEW from \in Nat \ {0}, NEW to \in Nat \ {0}
  PROVE  from * (DueOf(i + n, from, to) - DueOf(i, from, to)) < n * to + from
<1>1. PICK d \in Nat : d = DueOf(i, from, to) /\ (i - Zeros) * to <= from * d
  BY DueFacts
<1>2. PICK j \in Nat : j = i + n
  OBVIOUS
<1>3. PICK e \in Nat : /\ e = DueOf(j, from, to)
                       /\ j > Zeros => from * e < (j - Zeros) * to + from
                       /\ j <= Zeros => e = 0
  BY DueFacts DEF DueOf
<1>4. from * (e - d) = from * e - from * d /\ from * d \in Nat /\ from * e \in Nat
  OBVIOUS
<1>5. n * to \in Nat
  OBVIOUS
<1>6. CASE j <= Zeros
  <2>1. from * e = 0
    BY <1>3, <1>6
  <2>2. from * (e - d) < n * to + from
    BY <1>4, <1>5, <2>1
  <2> QED
    BY <1>1, <1>2, <1>3, <2>2
<1>7. CASE j > Zeros
  <2>1. (j - Zeros) * to = (i - Zeros) * to + n * to
    BY <1>2, AmpFacts
  <2>2. (i - Zeros) * to \in Int
    BY AmpFacts
  <2>3. from * (e - d) < n * to + from
    BY <1>1, <1>3, <1>4, <1>5, <1>7, <2>1, <2>2
  <2> QED
    BY <1>1, <1>2, <1>3, <2>3
<1> QED
  BY <1>6, <1>7, AmpFacts

(* Two resamplers, there and back *)

\* A block fits the model's buffer.
LEMMA ModelBlockFits ==
  ASSUME NEW E \in Nat \ {0}, NEW M \in Nat \ {0}, NEW B \in Nat \ {0}, NEW n \in 1 .. B,
         NEW i \in Nat
  PROVE  DueOf(i + n, E, M) - DueOf(i, E, M) <= Nam!CeilDiv(B * M, E)
<1>1. PICK d \in Int : d = DueOf(i + n, E, M) - DueOf(i, E, M) /\ E * d < n * M + E
  <2> n \in Nat /\ i + n \in Nat
    OBVIOUS
  <2>1. DueOf(i + n, E, M) \in Nat /\ DueOf(i, E, M) \in Nat
    BY DueFacts
  <2>2. E * (DueOf(i + n, E, M) - DueOf(i, E, M)) < n * M + E
    BY DueGrows
  <2>3. DueOf(i + n, E, M) - DueOf(i, E, M) \in Int
    BY <2>1
  <2> QED
    BY <2>2, <2>3
<1>2. B * M \in Nat
  OBVIOUS
<1>3. PICK c \in Nat : c = Nam!CeilDiv(B * M, E) /\ B * M <= E * c
  BY <1>2, CeilFacts
<1>4. n * M <= B * M
  <2>1. M * n <= M * B
    BY TimesKeeps
  <2> QED
    BY <2>1
<1>5. E * d < E * c + E
  <2>1. E * d \in Int /\ E * c \in Int /\ n * M \in Int /\ B * M \in Int
    OBVIOUS
  <2> QED
    BY <1>1, <1>3, <1>4, <2>1
<1>6. d <= c
  BY <1>5, Cancel
<1> QED
  BY <1>1, <1>3, <1>6

\* What comes back of a block fits its buffer.
LEMMA QueuedFits ==
  ASSUME NEW E \in Nat \ {0}, NEW M \in Nat \ {0}, NEW D \in Nat,
         NEW m \in Nat, NEW k \in 0 .. D
  PROVE  DueOf(m + k, M, E) - DueOf(m, M, E) <= ((D + Zeros) * E) \div M + 1
<1>1. PICK d \in Int : d = DueOf(m + k, M, E) - DueOf(m, M, E) /\ M * d < k * E + M
  <2> k \in Nat /\ m + k \in Nat
    OBVIOUS
  <2>1. DueOf(m + k, M, E) \in Nat /\ DueOf(m, M, E) \in Nat
    BY DueFacts
  <2>2. M * (DueOf(m + k, M, E) - DueOf(m, M, E)) < k * E + M
    BY DueGrows
  <2>3. DueOf(m + k, M, E) - DueOf(m, M, E) \in Int
    BY <2>1
  <2> QED
    BY <2>2, <2>3
<1>2. (D + Zeros) * E \in Nat
  BY AmpFacts
<1>3. PICK q \in Nat : q = ((D + Zeros) * E) \div M /\ (D + Zeros) * E < M * q + M
  BY <1>2, DivFacts
<1>4. k * E <= (D + Zeros) * E
  <2>1. E * k <= E * (D + Zeros)
    BY TimesKeeps, AmpFacts
  <2> QED
    BY <2>1, AmpFacts
<1>5. M * (q + 1) = M * q + M
  OBVIOUS
<1>6. M * d < M * (q + 1) + M
  <2>1. M * d \in Int /\ M * q \in Int /\ k * E \in Int
    OBVIOUS
  <2> QED
    BY <1>1, <1>2, <1>3, <1>4, <1>5, <2>1
<1>7. d <= q + 1
  BY <1>6, Cancel
<1> QED
  BY <1>1, <1>3, <1>7

\* What has come back of i samples: none before both windows are full, and never fewer
\* than all but the windows.
Back(i, E, M) == DueOf(DueOf(i, E, M), M, E)

LEMMA BackFacts ==
  ASSUME NEW E \in Nat \ {0}, NEW M \in Nat \ {0}, NEW i \in Nat
  PROVE  /\ Back(i, E, M) \in Nat
         /\ M * (i - Back(i, E, M)) <= Zeros * M + Zeros * E
         /\ Back(i, E, M) > 0 => M * (Back(i, E, M) - i) < E - Zeros * E - Zeros * M + M
<1>1. PICK m \in Nat : /\ m = DueOf(i, E, M)
                       /\ (i - Zeros) * M <= E * m
                       /\ i > Zeros => E * m < (i - Zeros) * M + E
                       /\ i <= Zeros => m = 0
  BY DueFacts DEF DueOf
<1>2. PICK o \in Nat : /\ o = DueOf(m, M, E)
                       /\ (m - Zeros) * E <= M * o
                       /\ m > Zeros => M * o < (m - Zeros) * E + M
                       /\ m <= Zeros => o = 0
  BY DueFacts DEF DueOf
<1>3. Back(i, E, M) = o
  BY <1>1, <1>2 DEF Back
<1>4. /\ (i - Zeros) * M = i * M - Zeros * M /\ (m - Zeros) * E = E * m - Zeros * E
      /\ M * (i - o) = i * M - M * o /\ M * (o - i) = M * o - i * M
  BY AmpFacts
<1>5. i * M \in Int /\ Zeros * M \in Int /\ Zeros * E \in Int /\ M * o \in Int /\ E * m \in Int
  BY AmpFacts
<1>6. M * (i - o) <= Zeros * M + Zeros * E
  BY <1>1, <1>2, <1>4, <1>5
<1>7. ASSUME o > 0 PROVE M * (o - i) < E - Zeros * E - Zeros * M + M
  <2>1. m > Zeros
    BY <1>2, <1>7, AmpFacts
  <2>2. i > Zeros
    BY <1>1, <2>1, AmpFacts
  <2> QED
    BY <1>1, <1>2, <1>4, <1>5, <2>1, <2>2
<1> QED
  BY <1>3, <1>6, <1>7

\* The buffers of an amplifier prepared for blocks of B.
Middle(E, M, B) == Nam!CeilDiv(B * M, E) + Slack
Behind(E, M, B) == ((Middle(E, M, B) + Zeros) * E) \div M + 1 + 1 + B + 1

LEMMA BuffersAreLarge ==
  ASSUME NEW E \in Nat \ {0}, NEW M \in Nat \ {0}, NEW B \in Nat \ {0}
  PROVE  /\ Middle(E, M, B) \in Nat \ {0} /\ Behind(E, M, B) \in Nat
         /\ M * (Behind(E, M, B) + B + 1) > 3 * (B * M) + 2 * E
<1>1. B * M \in Nat
  OBVIOUS
<1>2. PICK c \in Nat : c = Nam!CeilDiv(B * M, E) /\ B * M <= E * c
  BY <1>1, CeilFacts
<1>3. Middle(E, M, B) = c + Slack /\ c + Slack \in Nat \ {0}
  BY <1>2, AmpFacts DEF Middle
<1>4. (c + Slack + Zeros) * E \in Nat
  BY AmpFacts
<1>5. PICK q \in Nat : /\ q = ((c + Slack + Zeros) * E) \div M
                       /\ (c + Slack + Zeros) * E < M * q + M
  BY <1>4, DivFacts
<1>6. Behind(E, M, B) = q + B + 3
  BY <1>3, <1>5 DEF Behind
<1>7. (c + Slack + Zeros) * E = E * c + E * (Slack + Zeros)
  BY AmpFacts
<1>8. E * 2 <= E * (Slack + Zeros)
  BY AmpFacts, TimesKeeps
<1>9. M * (q + B + 3 + B + 1) = M * q + 2 * (B * M) + 4 * M
  OBVIOUS
<1>10. E * c \in Nat /\ E * (Slack + Zeros) \in Nat /\ M * q \in Nat
  BY AmpFacts
<1>11. M * (q + B + 3 + B + 1) > 3 * (B * M) + 2 * E
  BY <1>1, <1>2, <1>5, <1>7, <1>8, <1>9, <1>10
<1> QED
  BY <1>3, <1>6, <1>11

\* Half of the queue holds what may wait in it and a block's output, but one sample.
LEMMA HalfIsEnough ==
  ASSUME NEW E \in Nat \ {0}, NEW M \in Nat \ {0}, NEW B \in Nat \ {0}, NEW n \in 1 .. B,
         NEW i \in Nat, NEW silent \in Nat, silent <= i,
         M * silent <= Zeros * M + Zeros * E
  PROVE  2 * (Back(i + n, E, M) - i + silent) < Behind(E, M, B) + B + 1 + 2
<1>1. i + n \in Nat
  OBVIOUS
<1>2. PICK o \in Nat : /\ o = Back(i + n, E, M)
                       /\ o > 0 => M * (o - (i + n)) < E - Zeros * E - Zeros * M + M
  BY <1>1, BackFacts
<1>3. PICK size \in Nat : /\ size = Behind(E, M, B) + B + 1
                          /\ M * size > 3 * (B * M) + 2 * E
  <2>1. Behind(E, M, B) \in Nat /\ M * (Behind(E, M, B) + B + 1) > 3 * (B * M) + 2 * E
    BY BuffersAreLarge
  <2>2. Behind(E, M, B) + B + 1 \in Nat
    BY <2>1
  <2> QED
    BY <2>1, <2>2
<1>4. CASE o = 0
  BY <1>2, <1>3, <1>4
<1>5. CASE o > 0
  <2>1. /\ M * (2 * (o - i + silent - 1)) = 2 * (M * (o - (i + n))) + 2 * (M * n)
                                            + 2 * (M * silent) - 2 * M
        /\ M * (o - (i + n)) \in Int /\ M * silent \in Int /\ M * n \in Int /\ B * M \in Nat
    OBVIOUS
  <2>2. M * n <= B * M
    <3>1. M * n <= M * B
      BY TimesKeeps
    <3> QED
      BY <3>1
  <2>3. Zeros * M \in Int /\ Zeros * E \in Int
    BY AmpFacts
  <2>4. M * (2 * (o - i + silent - 1)) < M * size
    BY <1>2, <1>3, <1>5, <2>1, <2>2, <2>3
  <2>5. 2 * (o - i + silent - 1) <= size
    BY <2>4, Cancel
  <2>6. 2 * (o - i + silent - 1) # size
    BY <2>4
  <2> QED
    BY <1>2, <1>3, <2>5, <2>6
<1> QED
  BY <1>2, <1>4, <1>5

(* What an amplifier keeps to *)

Resamplers ==
  [from : Nat \ {0}, to : Nat \ {0}, maxIn : Nat \ {0},
   histLen : Nat, inTotal : Nat, outCount : Nat]
Amps ==
  [state : {"none", "loaded", "prepared"}, model : Rates, engine : Rates,
   maxBlock : BlockSizes \cup {1}, slimmable : BOOLEAN,
   tier : Tiers \cup {Nam!Full}, tierApplied : Tiers \cup {Nam!Full}]
AmpType ==
  /\ amp \in Amps /\ inRes \in Resamplers /\ outRes \in Resamplers
  /\ qRead \in Nat /\ qWrite \in Nat /\ pads \in Nat

PreparedFor ==
  /\ inRes.from = amp.engine /\ inRes.to = amp.model /\ inRes.maxIn = amp.maxBlock
  /\ outRes.from = amp.model /\ outRes.to = amp.engine
  /\ outRes.maxIn = Middle(amp.engine, amp.model, amp.maxBlock)

\* Both resamplers have given what was due, the first holds the history it needs, and
\* what is queued is what came back less what was taken of it.
Streaming ==
  /\ inRes.outCount = DueOf(inRes.inTotal, amp.engine, amp.model)
  /\ outRes.inTotal = inRes.outCount
  /\ outRes.outCount = DueOf(outRes.inTotal, amp.model, amp.engine)
  /\ inRes.histLen <= inRes.inTotal
  /\ inRes.histLen = inRes.inTotal \/ inRes.histLen >= 2 * Zeros
  /\ qWrite - qRead = outRes.outCount - inRes.inTotal + pads
  /\ pads <= inRes.inTotal
  /\ amp.model * pads <= Zeros * amp.model + Zeros * amp.engine

QueueKept ==
  /\ qRead <= qWrite
  /\ qRead = 0 \/ qRead < Nam!QueueSize \div 2
  /\ Nam!Resampling \/ (qRead = qWrite /\ pads = 0)

AmpInv ==
  /\ AmpType
  /\ amp.state = "prepared" => PreparedFor /\ QueueKept /\ (Nam!Resampling => Streaming)

LEMMA RateFacts == Nam!Rate0 \in Rates
BY AmpFacts DEF Nam!Rate0

LEMMA ResamplerIs ==
  ASSUME NEW from \in Nat \ {0}, NEW to \in Nat \ {0}, NEW maxIn \in Nat \ {0}
  PROVE  /\ Nam!Resampler(from, to, maxIn) \in Resamplers
         /\ Nam!Resampler(from, to, maxIn).from = from /\ Nam!Resampler(from, to, maxIn).to = to
         /\ Nam!Resampler(from, to, maxIn).maxIn = maxIn
         /\ Nam!Resampler(from, to, maxIn).inTotal = 0 /\ Nam!Resampler(from, to, maxIn).outCount = 0
         /\ Nam!Resampler(from, to, maxIn).histLen = 0
BY DEF Nam!Resampler, Resamplers

LEMMA AmpFields ==
  ASSUME AmpType
  PROVE  /\ amp.engine \in Nat \ {0} /\ amp.model \in Nat \ {0} /\ amp.maxBlock \in Nat \ {0}
         /\ Middle(amp.engine, amp.model, amp.maxBlock) \in Nat \ {0}
         /\ Nam!DspBlockMax(amp) = Middle(amp.engine, amp.model, amp.maxBlock)
<1>1. amp.engine \in Nat \ {0} /\ amp.model \in Nat \ {0} /\ amp.maxBlock \in Nat \ {0}
  <2>1. amp.engine \in Rates /\ amp.model \in Rates /\ amp.maxBlock \in BlockSizes \cup {1}
    BY DEF AmpType, Amps
  <2>2. amp.engine \in Nat \ {0} /\ amp.model \in Nat \ {0}
    BY <2>1, AmpFacts
  <2>3. amp.maxBlock \in Nat \ {0}
    <3>1. BlockSizes \cup {1} \subseteq Nat \ {0}
      BY AmpFacts
    <3> QED
      BY <2>1, <3>1
  <2> QED
    BY <2>2, <2>3
<1>2. Nam!DspBlockMax(amp) = Middle(amp.engine, amp.model, amp.maxBlock)
  BY DEF Nam!DspBlockMax, Middle
<1> QED
  BY <1>1, <1>2, BuffersAreLarge

\* The queue's size, twice a block and more where nothing is resampled.
LEMMA QueueFacts ==
  ASSUME AmpType, PreparedFor
  PROVE  /\ Nam!ResCap \in Nat /\ Nam!QueueSize = Nam!ResCap + amp.maxBlock + 1 /\ Nam!QueueSize \in Nat
         /\ ~Nam!Resampling => Nam!ResCap = amp.maxBlock
         /\ Nam!Resampling => Nam!ResCap >= Behind(amp.engine, amp.model, amp.maxBlock)
<1>1. PICK E \in Nat \ {0}, M \in Nat \ {0}, B \in Nat \ {0} :
        E = amp.engine /\ M = amp.model /\ B = amp.maxBlock
  BY AmpFields
<1>2. PICK D \in Nat \ {0} : D = Middle(E, M, B) /\ Nam!DspBlockMax(amp) = D
  BY <1>1, AmpFields
<1>3. /\ Nam!Cleared(outRes).inTotal = 0 /\ Nam!Cleared(outRes).to = E /\ Nam!Cleared(outRes).from = M
  BY <1>1 DEF PreparedFor, Nam!Cleared, Nam!Resampler
<1>4. PICK q \in Nat : q = ((D + Zeros) * E) \div M
  <2>1. (D + Zeros) * E \in Nat
    BY AmpFacts
  <2> QED
    BY <2>1, DivFacts
<1>5. Nam!OutCapacity(Nam!Cleared(outRes), D) = IF q + 1 + 1 > D + 1 THEN q + 1 + 1 ELSE D + 1
  <2>1. 0 + D + Zeros = D + Zeros
    BY AmpFacts
  <2> QED
    BY <1>3, <1>4, <2>1 DEF Nam!OutCapacity
<1>6. Behind(E, M, B) = q + 1 + 1 + B + 1
  BY <1>2, <1>4 DEF Behind
<1>7. Nam!ResCap = IF Nam!Resampling THEN (IF q + 1 + 1 > D + 1 THEN q + 1 + 1 ELSE D + 1) + B + 1 ELSE B
  BY <1>1, <1>2, <1>5 DEF Nam!ResCap
<1>8. CASE Nam!Resampling
  <2>1. Nam!ResCap = (IF q + 1 + 1 > D + 1 THEN q + 1 + 1 ELSE D + 1) + B + 1
    BY <1>7, <1>8
  <2> QED
    BY <1>1, <1>6, <1>8, <2>1 DEF Nam!QueueSize
<1>9. CASE ~Nam!Resampling
  <2>1. Nam!ResCap = B
    BY <1>7, <1>9
  <2> QED
    BY <1>1, <1>9, <2>1 DEF Nam!QueueSize
<1> QED
  BY <1>8, <1>9

(* A block of n samples *)

\* What a resampler makes of a block that is not longer than it was prepared for.
LEMMA ProcessIs ==
  ASSUME NEW r \in Resamplers, NEW n \in 0 .. r.maxIn
  PROVE  Nam!Process(r, n) = IF n = 0 THEN r ELSE Nam!ProcessOne(r, n)
<1>1. n = 0 \/ n \in 1 .. r.maxIn
  BY DEF Resamplers
<1>2. n \in 1 .. r.maxIn => n # 0
  OBVIOUS
<1> QED
  BY <1>1, <1>2, Zenon DEF Nam!Process

LEMMA ProcessGives ==
  ASSUME NEW r \in Resamplers, NEW n \in 0 .. r.maxIn,
         r.outCount = DueOf(r.inTotal, r.from, r.to)
  PROVE  /\ Nam!Process(r, n) \in Resamplers
         /\ Nam!Process(r, n).from = r.from /\ Nam!Process(r, n).to = r.to
         /\ Nam!Process(r, n).maxIn = r.maxIn
         /\ Nam!Process(r, n).inTotal = r.inTotal + n
         /\ Nam!Process(r, n).outCount = DueOf(r.inTotal + n, r.from, r.to)
         /\ Nam!Process(r, n).histLen = IF n = 0 THEN r.histLen ELSE Nam!Kept(r, n) + n
         /\ Nam!Produced(r, n) = DueOf(r.inTotal + n, r.from, r.to) - DueOf(r.inTotal, r.from, r.to)
<1>1. CASE n = 0
  <2>1. Nam!Process(r, n) = r
    BY <1>1, ProcessIs
  <2>2. r.inTotal + n = r.inTotal
    BY <1>1 DEF Resamplers
  <2> QED
    BY <1>1, <2>1, <2>2 DEF Nam!Produced
<1>2. CASE n # 0
  <2>1. PICK hist \in Nat, total \in Nat : hist = Nam!Kept(r, n) + n /\ total = r.inTotal + n
    BY AmpFacts DEF Nam!Kept, Resamplers
  <2> DEFINE fed == [r EXCEPT !.histLen = hist, !.inTotal = total]
  <2>2. Nam!Process(r, n) = [fed EXCEPT !.outCount = Nam!Due(fed)]
    BY <1>2, <2>1, ProcessIs DEF Nam!ProcessOne
  <2>3. n \in Nat
    BY DEF Resamplers
  <2>4. /\ fed \in Resamplers /\ fed.from = r.from /\ fed.to = r.to /\ fed.maxIn = r.maxIn
        /\ fed.inTotal = total /\ fed.histLen = hist
    BY <2>3 DEF Resamplers
  <2> HIDE DEF fed
  <2>5. Nam!Due(fed) = DueOf(r.inTotal + n, r.from, r.to)
    BY <2>1, <2>4 DEF Nam!Due, DueOf
  <2>6. Nam!Due(fed) \in Nat
    <3>1. fed.inTotal \in Nat /\ r.from \in Nat \ {0} /\ r.to \in Nat \ {0}
      BY <2>4 DEF Resamplers
    <3> QED
      BY <2>1, <2>4, <2>5, <3>1, DueFacts
  <2>7. /\ [fed EXCEPT !.outCount = Nam!Due(fed)] \in Resamplers
        /\ [fed EXCEPT !.outCount = Nam!Due(fed)].from = fed.from
        /\ [fed EXCEPT !.outCount = Nam!Due(fed)].to = fed.to
        /\ [fed EXCEPT !.outCount = Nam!Due(fed)].maxIn = fed.maxIn
        /\ [fed EXCEPT !.outCount = Nam!Due(fed)].inTotal = fed.inTotal
        /\ [fed EXCEPT !.outCount = Nam!Due(fed)].histLen = fed.histLen
        /\ [fed EXCEPT !.outCount = Nam!Due(fed)].outCount = Nam!Due(fed)
    BY <2>4, <2>6 DEF Resamplers
  <2> QED
    BY <1>2, <2>1, <2>2, <2>4, <2>5, <2>7 DEF Nam!Produced
<1> QED
  BY <1>1, <1>2

\* Moving the queue to its front changes what is read next, not what is there.
LEMMA Compacted ==
  ASSUME NEW size \in Nat, Nam!QueueSize = size, size > 0,
         NEW r \in Nat, NEW w \in Nat, r <= w, Nam!Compact(r, w)
  PROVE  /\ qRead' \in Nat /\ qWrite' \in Nat /\ qRead' <= qWrite'
         /\ qWrite' - qRead' = w - r /\ (r = w => qRead' = qWrite')
         /\ qRead' = 0 \/ qRead' < size \div 2
<1>1. PICK half \in Nat : half = size \div 2 /\ half <= size
  OBVIOUS
<1>2. CASE r >= half /\ r > 0
  BY <1>1, <1>2 DEF Nam!Compact
<1>3. CASE ~(r >= half /\ r > 0)
  BY <1>1, <1>3 DEF Nam!Compact
<1> QED
  BY <1>2, <1>3

\* What the block of the model and the block that comes back of n samples are.
LEMMA BlockIs ==
  ASSUME AmpInv, amp.state = "prepared", Nam!Resampling, NEW n \in 1 .. amp.maxBlock
  PROVE  /\ Nam!ModelBlock(n) \in 0 .. outRes.maxIn
         /\ Nam!ModelBlock(n) = DueOf(inRes.inTotal + n, amp.engine, amp.model) - inRes.outCount
         /\ Nam!ModelBlock(n) <= Nam!DspBlockMax(amp)
         /\ Nam!Queued(n) \in Nat
         /\ Nam!Queued(n) = Back(inRes.inTotal + n, amp.engine, amp.model) - outRes.outCount
         /\ Nam!Queued(n) <= Nam!ResCap
<1>1. PICK E \in Nat \ {0}, M \in Nat \ {0}, B \in Nat \ {0} :
        E = amp.engine /\ M = amp.model /\ B = amp.maxBlock
  BY AmpFields DEF AmpInv
<1>2. PICK i \in Nat : i = inRes.inTotal
  BY DEF AmpInv, AmpType, Resamplers
<1>3. PICK j \in Nat : j = i + n /\ i <= j
  OBVIOUS
<1>4. n \in 0 .. inRes.maxIn
  BY DEF AmpInv, PreparedFor
<1>5. PICK m \in Nat, p \in Nat : m = DueOf(i, E, M) /\ p = DueOf(j, E, M) /\ m <= p
  BY <1>3, DueFacts, DueKeepsOrder
<1>6. Nam!ModelBlock(n) = p - m
  BY <1>1, <1>2, <1>3, <1>4, <1>5, ProcessGives DEF AmpInv, AmpType, PreparedFor, Streaming, Nam!ModelBlock
<1>7. PICK c \in Nat : c = Nam!CeilDiv(B * M, E)
  <2>1. B * M \in Nat
    OBVIOUS
  <2> QED
    BY <2>1, CeilFacts
<1>8. p - m <= c
  BY <1>1, <1>3, <1>5, <1>7, ModelBlockFits
<1>9. PICK D \in Nat : D = Middle(E, M, B) /\ c <= D /\ outRes.maxIn = D /\ Nam!DspBlockMax(amp) = D
  BY <1>1, <1>7, AmpFields, AmpFacts DEF AmpInv, PreparedFor, Middle
<1>10. PICK k \in 0 .. D : k = p - m /\ m + k = p
  BY <1>5, <1>8, <1>9
<1>11. PICK o \in Nat, b \in Nat : o = DueOf(m, M, E) /\ b = DueOf(p, M, E) /\ o <= b
  BY <1>5, DueFacts, DueKeepsOrder
<1>12. Nam!Queued(n) = b - o
  <2>1. outRes.inTotal = m /\ outRes.outCount = o
    BY <1>1, <1>2, <1>5, <1>11 DEF AmpInv, Streaming
  <2>2. Nam!Produced(outRes, k) = b - o
    BY <1>1, <1>9, <1>10, <1>11, <2>1, ProcessGives DEF AmpInv, AmpType, PreparedFor
  <2> QED
    BY <1>6, <1>10, <2>2 DEF Nam!Queued
<1>13. b - o <= ((D + Zeros) * E) \div M + 1
  BY <1>10, <1>11, QueuedFits
<1>14. PICK q \in Nat : q = ((D + Zeros) * E) \div M
  <2>1. (D + Zeros) * E \in Nat
    BY AmpFacts
  <2> QED
    BY <2>1, DivFacts
<1>15. Nam!ResCap \in Nat /\ Nam!ResCap >= q + 1 + 1 + B + 1
  BY <1>1, <1>9, <1>14, QueueFacts DEF AmpInv, Behind
<1>16. b - o <= Nam!ResCap
  BY <1>13, <1>14, <1>15
<1>17. Back(j, E, M) = b /\ outRes.outCount = o /\ inRes.outCount = m
  BY <1>1, <1>2, <1>5, <1>11 DEF Back, AmpInv, Streaming
<1> QED
  BY <1>1, <1>2, <1>3, <1>5, <1>6, <1>9, <1>10, <1>11, <1>12, <1>16, <1>17

\* And they fit behind what is queued.
LEMMA QueueHasRoom ==
  ASSUME AmpInv, amp.state = "prepared", NEW n \in 1 .. amp.maxBlock
  PROVE  qWrite + Nam!Queued(n) <= Nam!QueueSize
<1>1. PICK E \in Nat \ {0}, M \in Nat \ {0}, B \in Nat \ {0} :
        E = amp.engine /\ M = amp.model /\ B = amp.maxBlock
  BY AmpFields DEF AmpInv
<1>2. PICK size \in Nat : size = Nam!QueueSize
  BY QueueFacts DEF AmpInv
<1>3. qRead \in Nat /\ qWrite \in Nat /\ (qRead = 0 \/ qRead < size \div 2)
  BY <1>2 DEF AmpInv, AmpType, QueueKept
<1>4. CASE Nam!Resampling
  <2>1. PICK i \in Nat, o \in Nat : i = inRes.inTotal /\ o = outRes.outCount
    BY DEF AmpInv, AmpType, Resamplers
  <2>2. PICK silent \in Nat : /\ silent = pads /\ silent <= i
                              /\ M * silent <= Zeros * M + Zeros * E
                              /\ qWrite - qRead = o - i + silent
    BY <1>1, <1>4, <2>1 DEF AmpInv, AmpType, Streaming
  <2>3. n \in 1 .. B /\ n \in Nat
    BY <1>1
  <2>4. PICK b \in Nat : b = Back(i + n, E, M)
    <3>1. i + n \in Nat
      BY <2>3
    <3> QED
      BY <3>1, BackFacts
  <2>5. Nam!Queued(n) = b - o
    BY <1>1, <1>4, <2>1, <2>4, BlockIs
  <2>6. 2 * (b - i + silent) < Behind(E, M, B) + B + 1 + 2
    BY <2>2, <2>3, <2>4, HalfIsEnough
  <2>7. Behind(E, M, B) \in Nat /\ Behind(E, M, B) + B + 1 <= size /\ size > 0
    <3>1. Behind(E, M, B) \in Nat
      BY BuffersAreLarge
    <3>2. Nam!ResCap \in Nat /\ size = Nam!ResCap + B + 1 /\ Nam!ResCap >= Behind(E, M, B)
      BY <1>1, <1>2, <1>4, QueueFacts DEF AmpInv
    <3> QED
      BY <3>1, <3>2
  <2>8. 2 * (b - i + silent) < size + 2
    BY <2>6, <2>7
  <2>9. qWrite + Nam!Queued(n) = qRead + (b - i + silent)
    BY <1>3, <2>2, <2>5
  <2> QED
    BY <1>2, <1>3, <2>7, <2>8, <2>9
<1>5. CASE ~Nam!Resampling
  <2>1. Nam!Queued(n) = n
    BY <1>5 DEF Nam!Queued, Nam!ModelBlock
  <2>2. qRead = qWrite /\ size = B + B + 1
    BY <1>1, <1>2, <1>5, QueueFacts DEF AmpInv, QueueKept
  <2> QED
    BY <1>1, <1>2, <1>3, <2>1, <2>2
<1> QED
  BY <1>4, <1>5

LEMMA PlainBlock ==
  ASSUME AmpInv, amp.state = "prepared", ~Nam!Resampling,
         NEW n \in 1 .. amp.maxBlock, Nam!ProcessBlock(n)
  PROVE  AmpInv'
<1>1. n \in Nat /\ n > 0
  BY AmpFields DEF AmpInv
<1>2. /\ qRead \in Nat /\ qWrite = qRead /\ pads = 0
      /\ inRes \in Resamplers /\ PreparedFor
  BY DEF AmpInv, AmpType, QueueKept
<1>3. Nam!Queued(n) = n
  BY DEF Nam!Queued, Nam!ModelBlock
<1>4. /\ UNCHANGED <<amp, outRes>> /\ inRes' = [inRes EXCEPT !.inTotal = @ + n]
  BY DEF Nam!ProcessBlock
<1>5. PICK end \in Nat : pads' = 0 /\ Nam!Compact(end, end)
  <2>1. (IF n < qWrite + Nam!Queued(n) - qRead THEN n ELSE qWrite + Nam!Queued(n) - qRead) = n
    BY <1>1, <1>2, <1>3
  <2>2. pads' = 0 /\ Nam!Compact(qRead + n, qRead + n)
    BY <1>1, <1>2, <1>3, <2>1 DEF Nam!ProcessBlock
  <2>3. qRead + n \in Nat
    BY <1>1, <1>2
  <2> QED
    BY <2>2, <2>3
<1>6. PICK size \in Nat : size = Nam!QueueSize /\ size > 0
  BY QueueFacts, AmpFields DEF AmpInv
<1>7. /\ qRead' \in Nat /\ qWrite' \in Nat /\ qRead' = qWrite'
      /\ qRead' = 0 \/ qRead' < size \div 2
  BY <1>5, <1>6, Compacted
<1>8. inRes' \in Resamplers /\ inRes'.from = inRes.from /\ inRes'.to = inRes.to
      /\ inRes'.maxIn = inRes.maxIn
  <2>1. PICK total \in Nat : total = inRes.inTotal + n
    BY <1>1, <1>2 DEF Resamplers
  <2>2. inRes' = [inRes EXCEPT !.inTotal = total]
    BY <1>4, <2>1
  <2> QED
    BY <1>2, <2>2 DEF Resamplers
<1>9. Nam!QueueSize' = Nam!QueueSize /\ Nam!Resampling' = Nam!Resampling
  BY <1>4 DEF Nam!QueueSize, Nam!ResCap, Nam!Resampling, Nam!OutCapacity, Nam!Cleared, Nam!Resampler, Nam!DspBlockMax, Nam!CeilDiv
<1>10. AmpType'
  BY <1>4, <1>5, <1>7, <1>8 DEF AmpInv, AmpType
<1>11. PreparedFor'
  BY <1>2, <1>4, <1>8 DEF PreparedFor, Middle, Nam!CeilDiv
<1>12. QueueKept'
  BY <1>5, <1>6, <1>7, <1>9 DEF QueueKept
<1> QED
  BY <1>9, <1>10, <1>11, <1>12 DEF AmpInv

LEMMA ResampledBlock ==
  ASSUME AmpInv, amp.state = "prepared", Nam!Resampling,
         NEW n \in 1 .. amp.maxBlock, Nam!ProcessBlock(n)
  PROVE  AmpInv'
<1>1. PICK E \in Nat \ {0}, M \in Nat \ {0}, B \in Nat \ {0} :
        E = amp.engine /\ M = amp.model /\ B = amp.maxBlock
  BY AmpFields DEF AmpInv
<1>2. PICK i \in Nat, o \in Nat, silent \in Nat, r \in Nat, w \in Nat :
        i = inRes.inTotal /\ o = outRes.outCount /\ silent = pads /\ r = qRead /\ w = qWrite
  BY DEF AmpInv, AmpType, Resamplers
<1>3. PICK j \in Nat : j = i + n /\ j > i
  BY <1>1
<1>4. PICK k \in 0 .. outRes.maxIn, b \in Nat :
        /\ k = Nam!ModelBlock(n) /\ k = DueOf(j, E, M) - inRes.outCount
        /\ b = Back(j, E, M) /\ Nam!Queued(n) = b - o /\ b >= o
  <2>1. Back(j, E, M) \in Nat
    BY BackFacts
  <2> QED
    BY <1>1, <1>2, <1>3, <2>1, BlockIs
<1>5. /\ n \in 0 .. inRes.maxIn /\ inRes.from = E /\ inRes.to = M
      /\ outRes.from = M /\ outRes.to = E
      /\ inRes.outCount = DueOf(i, E, M) /\ outRes.inTotal = inRes.outCount
      /\ outRes.outCount = DueOf(outRes.inTotal, M, E)
      /\ inRes \in Resamplers /\ outRes \in Resamplers
      /\ r <= w /\ w - r = o - i + silent /\ silent <= i
      /\ M * silent <= Zeros * M + Zeros * E
  BY <1>1, <1>2 DEF AmpInv, AmpType, PreparedFor, Streaming, QueueKept
<1>6. /\ inRes' \in Resamplers /\ inRes'.from = E /\ inRes'.to = M
      /\ inRes'.maxIn = inRes.maxIn /\ inRes'.inTotal = j
      /\ inRes'.outCount = DueOf(j, E, M)
      /\ inRes'.histLen = Nam!Kept(inRes, n) + n
  BY <1>1, <1>2, <1>3, <1>5, ProcessGives DEF Nam!ProcessBlock
<1>7. /\ outRes' \in Resamplers /\ outRes'.from = M /\ outRes'.to = E
      /\ outRes'.maxIn = outRes.maxIn /\ outRes'.inTotal = inRes'.outCount
      /\ outRes'.outCount = b
  <2>1. outRes' = Nam!Process(outRes, k)
    BY <1>4 DEF Nam!ProcessBlock
  <2>2. outRes.inTotal + k = DueOf(j, E, M)
    BY <1>4, <1>5, <1>3, DueFacts DEF Resamplers
  <2> QED
    BY <1>4, <1>5, <1>6, <2>1, <2>2, ProcessGives DEF Back
<1>8. inRes'.histLen <= j /\ (inRes'.histLen = j \/ inRes'.histLen >= 2 * Zeros)
  <2>1. PICK h \in Nat : h = inRes.histLen /\ h <= i /\ (h = i \/ h >= 2 * Zeros)
    BY <1>2 DEF AmpInv, AmpType, Streaming, Resamplers
  <2>2. n <= inRes.maxIn /\ inRes.maxIn \in Nat /\ n \in Nat
    BY <1>5 DEF Resamplers
  <2>3. Nam!Kept(inRes, n) = IF h + n > 2 * Zeros + inRes.maxIn THEN 2 * Zeros ELSE h
    BY <2>1 DEF Nam!Kept
  <2> QED
    BY <1>3, <1>6, <2>1, <2>2, <2>3, AmpFacts
<1>9. PICK ready \in Nat : ready = w + (b - o) - r /\ ready = b - i + silent
  BY <1>4, <1>5
<1>10. PICK given \in Nat : given = (IF n < ready THEN n ELSE ready) /\ given <= n
  BY <1>1
<1>11. /\ pads' = silent + n - given
       /\ Nam!Compact(r + given, w + (b - o)) /\ amp' = amp
  BY <1>2, <1>4, <1>9, <1>10 DEF Nam!ProcessBlock
<1>12. pads' \in Nat /\ pads' <= j /\ M * pads' <= Zeros * M + Zeros * E
  <2>1. CASE given = n
    <3>1. pads' = silent
      BY <1>11, <2>1
    <3> QED
      BY <1>3, <1>5, <3>1
  <2>2. CASE given # n
    <3>1. given = b - i + silent
      BY <1>9, <1>10, <2>2
    <3>2. pads' = j - b /\ pads' \in Nat
      BY <1>3, <1>10, <1>11, <3>1
    <3>3. M * (j - b) <= Zeros * M + Zeros * E
      BY <1>4, BackFacts
    <3> QED
      BY <1>3, <3>2, <3>3
  <2> QED
    BY <2>1, <2>2
<1>13. PICK size \in Nat : size = Nam!QueueSize /\ size > 0
  BY QueueFacts, AmpFields DEF AmpInv
<1>14. /\ qRead' \in Nat /\ qWrite' \in Nat /\ qRead' <= qWrite'
       /\ qWrite' - qRead' = b - j + pads'
       /\ qRead' = 0 \/ qRead' < size \div 2
  <2>1. PICK x \in Nat, y \in Nat : /\ x = r + given /\ y = w + (b - o) /\ x <= y
    BY <1>4, <1>5, <1>9, <1>10
  <2>2. Nam!Compact(x, y)
    BY <1>11, <2>1
  <2>3. /\ qRead' \in Nat /\ qWrite' \in Nat /\ qRead' <= qWrite'
        /\ qWrite' - qRead' = y - x
        /\ qRead' = 0 \/ qRead' < size \div 2
    BY <1>13, <2>1, <2>2, Compacted
  <2>4. pads' = silent + n - given
    BY <1>11
  <2>5. y - x = b - j + pads'
    BY <1>3, <1>5, <2>1, <2>4
  <2> QED
    BY <2>3, <2>5
<1>15. Nam!QueueSize' = Nam!QueueSize /\ Nam!Resampling' = Nam!Resampling
  BY <1>5, <1>7, <1>11 DEF Nam!QueueSize, Nam!ResCap, Nam!Resampling, Nam!OutCapacity, Nam!Cleared, Nam!Resampler, Nam!DspBlockMax, Nam!CeilDiv
<1>16. AmpType'
  BY <1>6, <1>7, <1>11, <1>12, <1>14 DEF AmpInv, AmpType
<1>17. PreparedFor'
  BY <1>1, <1>6, <1>7, <1>11 DEF AmpInv, PreparedFor, Middle, Nam!CeilDiv
<1>18. QueueKept'
  BY <1>15, <1>13, <1>14 DEF QueueKept
<1>19. Streaming'
  BY <1>1, <1>4, <1>6, <1>7, <1>8, <1>11, <1>12, <1>14 DEF Streaming, Back
<1> QED
  BY <1>16, <1>17, <1>18, <1>19 DEF AmpInv

(* Every step *)

LEMMA BlockKeeps ==
  ASSUME AmpInv, NEW n \in 1 .. amp.maxBlock, Nam!ProcessBlock(n)
  PROVE  AmpInv'
BY PlainBlock, ResampledBlock DEF Nam!ProcessBlock

LEMMA AmpStarts == Nam!Init => AmpInv
<1> SUFFICES ASSUME Nam!Init PROVE AmpInv
  OBVIOUS
<1>1. amp = Nam!NewAmp("none", Nam!Rate0, FALSE) /\ amp.state = "none"
  BY DEF Nam!Init, Nam!NewAmp
<1>2. amp \in Amps
  BY <1>1, RateFacts DEF Nam!NewAmp, Amps
<1>3. inRes \in Resamplers /\ outRes \in Resamplers
  <2>1. Nam!Rate0 \in Nat \ {0}
    BY RateFacts, AmpFacts
  <2> QED
    BY <2>1, ResamplerIs DEF Nam!Init
<1> QED
  BY <1>1, <1>2, <1>3 DEF Nam!Init, AmpInv, AmpType

LEMMA LoadKeeps ==
  ASSUME NEW speed \in Rates, NEW slimmable \in BOOLEAN, Nam!LoadAsset(speed, slimmable)
  PROVE  AmpInv'
<1>1. /\ amp'.state # "prepared" /\ amp' \in Amps
  <2>1. CASE amp' = Nam!NewAmp("loaded", speed, slimmable)
    BY <2>1 DEF Nam!NewAmp, Amps
  <2>2. CASE amp' = Nam!NewAmp("none", Nam!Rate0, FALSE)
    BY <2>2, RateFacts DEF Nam!NewAmp, Amps
  <2> QED
    BY <2>1, <2>2 DEF Nam!LoadAsset
<1>2. inRes' \in Resamplers /\ outRes' \in Resamplers
  <2>1. Nam!Rate0 \in Nat \ {0}
    BY RateFacts, AmpFacts
  <2> QED
    BY <2>1, ResamplerIs DEF Nam!LoadAsset, Nam!Idle
<1> QED
  BY <1>1, <1>2 DEF Nam!LoadAsset, Nam!Idle, AmpInv, AmpType

LEMMA SizesStay ==
  ASSUME UNCHANGED <<inRes, outRes, qRead, qWrite, pads>>,
         amp'.state = amp.state, amp'.engine = amp.engine, amp'.model = amp.model,
         amp'.maxBlock = amp.maxBlock, amp' \in Amps, AmpInv
  PROVE  AmpInv'
<1>1. Nam!QueueSize' = Nam!QueueSize /\ Nam!Resampling' = Nam!Resampling
  BY DEF Nam!QueueSize, Nam!ResCap, Nam!Resampling, Nam!OutCapacity, Nam!Cleared, Nam!Resampler, Nam!DspBlockMax, Nam!CeilDiv
<1>2. AmpType'
  BY DEF AmpInv, AmpType
<1>3. PreparedFor => PreparedFor'
  BY DEF PreparedFor, Middle, Nam!CeilDiv
<1>4. QueueKept => QueueKept'
  BY <1>1 DEF QueueKept
<1>5. Streaming => Streaming'
  BY DEF Streaming
<1> QED
  BY <1>1, <1>2, <1>3, <1>4, <1>5 DEF AmpInv

LEMMA TierKeeps ==
  ASSUME amp \in Amps
  PROVE  /\ Nam!AppliedTier(amp) \in Amps
         /\ Nam!AppliedTier(amp).state = amp.state /\ Nam!AppliedTier(amp).engine = amp.engine
         /\ Nam!AppliedTier(amp).model = amp.model /\ Nam!AppliedTier(amp).maxBlock = amp.maxBlock
BY DEF Nam!AppliedTier, Amps

\* Fresh resamplers and an empty queue.
LEMMA EmptyIsKept ==
  ASSUME amp' \in Amps,
         qRead' = 0, qWrite' = 0, pads' = 0,
         inRes' = Nam!Resampler(amp'.engine, amp'.model, amp'.maxBlock),
         outRes' = Nam!Resampler(amp'.model, amp'.engine, Middle(amp'.engine, amp'.model, amp'.maxBlock))
  PROVE  AmpInv'
<1>1. /\ amp'.engine \in Nat \ {0} /\ amp'.model \in Nat \ {0} /\ amp'.maxBlock \in Nat \ {0}
  <2>1. amp'.engine \in Rates /\ amp'.model \in Rates /\ amp'.maxBlock \in BlockSizes \cup {1}
    BY DEF Amps
  <2>2. BlockSizes \cup {1} \subseteq Nat \ {0}
    BY AmpFacts
  <2> QED
    BY <2>1, <2>2, AmpFacts
<1>2. Middle(amp'.engine, amp'.model, amp'.maxBlock) \in Nat \ {0}
  BY <1>1, BuffersAreLarge
<1>3. /\ inRes' \in Resamplers /\ outRes' \in Resamplers
      /\ inRes'.from = amp'.engine /\ inRes'.to = amp'.model /\ inRes'.maxIn = amp'.maxBlock
      /\ outRes'.from = amp'.model /\ outRes'.to = amp'.engine
      /\ outRes'.maxIn = Middle(amp'.engine, amp'.model, amp'.maxBlock)
      /\ inRes'.inTotal = 0 /\ inRes'.outCount = 0 /\ inRes'.histLen = 0
      /\ outRes'.inTotal = 0 /\ outRes'.outCount = 0
  BY <1>1, <1>2, ResamplerIs
<1>4. AmpType'
  BY <1>3 DEF AmpType
<1>5. PreparedFor' /\ QueueKept'
  BY <1>3 DEF PreparedFor, QueueKept, Middle, Nam!CeilDiv
<1>6. Streaming'
  <2>1. \A x, y : DueOf(0, x, y) = 0
    BY AmpFacts DEF DueOf
  <2>2. 0 <= Zeros * amp'.model + Zeros * amp'.engine /\ amp'.model * 0 = 0
    BY <1>1, AmpFacts
  <2> QED
    BY <1>3, <2>1, <2>2 DEF Streaming
<1> QED
  BY <1>4, <1>5, <1>6 DEF AmpInv

LEMMA PrepareKeeps ==
  ASSUME AmpInv, NEW speed \in Rates, NEW block \in BlockSizes, Nam!Prepare(speed, block)
  PROVE  AmpInv'
<1>1. /\ amp' \in Amps /\ amp'.engine = speed /\ amp'.maxBlock = block
      /\ amp'.model = amp.model
  <2>1. amp' = [Nam!AppliedTier(amp) EXCEPT !.state = "prepared", !.engine = speed, !.maxBlock = block]
    BY DEF Nam!Prepare
  <2>2. Nam!AppliedTier(amp) \in Amps /\ Nam!AppliedTier(amp).model = amp.model
    BY TierKeeps DEF AmpInv, AmpType
  <2> QED
    BY <2>1, <2>2 DEF Amps
<1>2. Nam!DspBlockMax(amp') = Middle(amp'.engine, amp'.model, amp'.maxBlock)
  BY DEF Nam!DspBlockMax, Middle
<1> QED
  BY <1>1, <1>2, EmptyIsKept DEF Nam!Prepare

LEMMA ResetKeeps ==
  ASSUME AmpInv, Nam!Reset
  PROVE  AmpInv'
<1>1. /\ amp' \in Amps /\ amp'.state = amp.state /\ amp'.engine = amp.engine
      /\ amp'.model = amp.model /\ amp'.maxBlock = amp.maxBlock
  BY TierKeeps DEF Nam!Reset, AmpInv, AmpType
<1>2. CASE amp.state = "prepared"
  <2>1. /\ inRes' = Nam!Resampler(amp'.engine, amp'.model, amp'.maxBlock)
        /\ outRes' = Nam!Resampler(amp'.model, amp'.engine,
                               Middle(amp'.engine, amp'.model, amp'.maxBlock))
    BY <1>1, <1>2 DEF Nam!Reset, Nam!Cleared, AmpInv, PreparedFor
  <2> QED
    BY <1>1, <2>1, EmptyIsKept DEF Nam!Reset
<1>3. CASE amp.state # "prepared"
  <2>1. /\ inRes.from \in Nat \ {0} /\ inRes.to \in Nat \ {0} /\ inRes.maxIn \in Nat \ {0}
        /\ outRes.from \in Nat \ {0} /\ outRes.to \in Nat \ {0} /\ outRes.maxIn \in Nat \ {0}
    BY DEF AmpInv, AmpType, Resamplers
  <2>2. inRes' \in Resamplers /\ outRes' \in Resamplers
    BY <2>1, ResamplerIs DEF Nam!Reset, Nam!Cleared
  <2> QED
    BY <1>1, <1>3, <2>2 DEF Nam!Reset, AmpInv, AmpType
<1> QED
  BY <1>2, <1>3

LEMMA AmpStep ==
  ASSUME AmpInv, [Nam!Next]_(Nam!vars)
  PROVE  AmpInv'
<1>1. ASSUME NEW speed \in Rates, NEW slimmable \in BOOLEAN, Nam!LoadAsset(speed, slimmable)
      PROVE  AmpInv'
  BY <1>1, LoadKeeps
<1>2. CASE Nam!ApplyTier
  BY <1>2, TierKeeps, SizesStay DEF Nam!ApplyTier, AmpInv, AmpType
<1>3. ASSUME NEW speed \in Rates, NEW block \in BlockSizes, Nam!Prepare(speed, block)
      PROVE  AmpInv'
  BY <1>3, PrepareKeeps
<1>4. ASSUME NEW n \in 1 .. amp.maxBlock, Nam!ProcessBlock(n)
      PROVE  AmpInv'
  BY <1>4, BlockKeeps
<1>5. CASE Nam!Reset
  BY <1>5, ResetKeeps
<1>6. ASSUME NEW tier \in Tiers, Nam!SetTier(tier)
      PROVE  AmpInv'
  <2>1. amp' = [amp EXCEPT !.tier = tier] /\ amp \in Amps
    BY <1>6 DEF Nam!SetTier, AmpInv, AmpType
  <2>2. /\ amp' \in Amps /\ amp'.state = amp.state /\ amp'.engine = amp.engine
        /\ amp'.model = amp.model /\ amp'.maxBlock = amp.maxBlock
    BY <2>1 DEF Amps
  <2> QED
    BY <1>6, <2>2, SizesStay DEF Nam!SetTier
<1>7. CASE UNCHANGED Nam!vars
  BY <1>7, SizesStay DEF Nam!vars, AmpInv, AmpType
<1> QED
  BY <1>1, <1>2, <1>3, <1>4, <1>5, <1>6, <1>7 DEF Nam!Next

LEMMA AmpKeepsItsPromise ==
  ASSUME AmpInv
  PROVE  Nam!NamInv
<1> SUFFICES ASSUME amp.state = "prepared" PROVE Nam!NamInv
  BY DEF Nam!NamInv
<1>1. PICK E \in Nat \ {0}, M \in Nat \ {0}, B \in Nat \ {0} :
        E = amp.engine /\ M = amp.model /\ B = amp.maxBlock
  BY AmpFields DEF AmpInv
<1>2. ASSUME NEW n \in 1 .. amp.maxBlock
      PROVE  /\ Nam!ModelBlock(n) <= Nam!DspBlockMax(amp) /\ Nam!Queued(n) <= Nam!ResCap
             /\ qWrite + Nam!Queued(n) <= Nam!QueueSize
  <2>1. CASE Nam!Resampling
    BY <1>2, <2>1, BlockIs, QueueHasRoom
  <2>2. CASE ~Nam!Resampling
    <3>1. Nam!ModelBlock(n) = n /\ Nam!Queued(n) = n /\ Nam!ResCap = B
      BY <1>1, <2>2, QueueFacts DEF Nam!ModelBlock, Nam!Queued, AmpInv
    <3>2. n <= Nam!DspBlockMax(amp)
      <4>1. E = M /\ B * M \in Nat
        BY <1>1, <2>2 DEF Nam!Resampling
      <4>2. PICK c \in Nat : c = Nam!CeilDiv(B * M, E) /\ B * M <= E * c
        BY <4>1, CeilFacts
      <4>3. M * B <= M * c
        BY <4>1, <4>2
      <4>4. B <= c
        BY <4>3, Cancel
      <4>5. Nam!DspBlockMax(amp) = c + Slack
        BY <1>1, <4>2 DEF Nam!DspBlockMax
      <4> QED
        BY <1>1, <1>2, <4>4, <4>5, AmpFacts
    <3> QED
      BY <1>1, <1>2, <3>1, <3>2, QueueHasRoom
  <2> QED
    BY <2>1, <2>2
<1>3. /\ qRead \in Nat /\ qWrite \in Nat /\ qRead <= qWrite /\ pads \in Nat
      /\ Nam!Resampling \/ pads = 0
  BY DEF AmpInv, AmpType, QueueKept
<1>4. Nam!Resampling => qWrite - qRead = outRes.outCount - (inRes.inTotal - pads)
  <2>1. outRes.outCount \in Nat /\ inRes.inTotal \in Nat
    BY DEF AmpInv, AmpType, Resamplers
  <2> QED
    BY <1>3, <2>1 DEF AmpInv, Streaming
<1>5. pads <= Nam!Latency
  <2>1. CASE Nam!Resampling
    <3>1. M * pads <= Zeros * M + Zeros * E
      BY <1>1, <2>1 DEF AmpInv, Streaming
    <3>2. Zeros * E \in Nat
      BY AmpFacts
    <3>3. PICK c \in Nat : c = Nam!CeilDiv(Zeros * E, M) /\ Zeros * E <= M * c
      BY <3>2, CeilFacts
    <3>4. M * (Zeros + c) = Zeros * M + M * c
      BY AmpFacts
    <3>5. pads <= Zeros + c
      <4>1. M * pads < M * (Zeros + c) + M
        BY <1>3, <3>1, <3>2, <3>3, <3>4, AmpFacts
      <4> QED
        BY <1>3, <4>1, AmpFacts, Cancel
    <3>6. Nam!Latency = Zeros + c + 1
      BY <1>1, <2>1, <3>3 DEF Nam!Latency
    <3> QED
      BY <1>3, <3>5, <3>6, AmpFacts
  <2>2. CASE ~Nam!Resampling
    BY <1>3, <2>2 DEF Nam!Latency
  <2> QED
    BY <2>1, <2>2
<1> QED
  BY <1>2, <1>3, <1>4, <1>5 DEF Nam!NamInv

\* Whatever was loaded, prepared, reset and played in whatever blocks: every block fits
\* the buffers it was prepared for, nothing that was queued is lost, and the silence
\* given for want of samples never exceeds the two windows (prepare, process, reset).
THEOREM BlocksAlwaysFit == Nam!Spec => []Nam!NamInv
BY AmpStarts, AmpStep, AmpKeepsItsPromise, PTL DEF Nam!Spec

(* The windows *)

LEMMA WindowIsHeld ==
  ASSUME NEW E \in Nat \ {0}, NEW M \in Nat \ {0}, NEW i \in Nat, NEW n \in Nat, NEW hist \in Nat,
         hist >= i \/ hist >= 2 * Zeros,
         NEW r, r.from = E, r.to = M, r.inTotal = i + n, r.histLen = hist + n,
         NEW k \in Nat, DueOf(i, E, M) <= k, k < DueOf(i + n, E, M)
  PROVE  Nam!WindowHeld(r, k)
<1>1. PICK j \in Nat : j = i + n
  OBVIOUS
<1>2. PICK d \in Nat : d = DueOf(i, E, M) /\ (i - Zeros) * M <= E * d /\ d <= k
  BY DueFacts
<1>3. PICK e \in Nat : /\ e = DueOf(j, E, M) /\ k < e
                       /\ j > Zeros => E * e < (j - Zeros) * M + E
                       /\ j <= Zeros => e = 0
  BY <1>1, DueFacts DEF DueOf
<1>4. k * E \in Nat /\ k * E = E * k
  OBVIOUS
<1>5. PICK p \in Nat : p = (k * E) \div M /\ M * p <= k * E /\ k * E < M * p + M
  BY <1>4, DivFacts
<1>6. j > Zeros /\ E * e < (j - Zeros) * M + E
  BY <1>3, AmpFacts
<1>7. p < j - Zeros
  <2>1. E * (k + 1) <= E * e
    BY <1>3, TimesKeeps
  <2>2. E * (k + 1) = E * k + E /\ E * e \in Int /\ (j - Zeros) * M \in Int
        /\ (j - Zeros) * M = M * (j - Zeros)
    BY AmpFacts
  <2>3. M * p < M * (j - Zeros)
    BY <1>4, <1>5, <1>6, <2>1, <2>2
  <2>4. ASSUME p >= j - Zeros PROVE FALSE
    <3>1. M * (j - Zeros) <= M * p
      BY <2>4, TimesKeeps, AmpFacts
    <3> QED
      BY <2>2, <2>3, <3>1
  <2> QED
    BY <2>4, AmpFacts
<1>8. i - Zeros <= p
  <2>1. E * d <= E * k
    BY <1>2, TimesKeeps
  <2>2. (i - Zeros) * M = M * (i - Zeros) /\ M * (i - Zeros) \in Int /\ E * d \in Int
    BY AmpFacts
  <2>3. M * (i - Zeros) < M * p + M
    BY <1>2, <1>4, <1>5, <2>1, <2>2
  <2> QED
    BY <2>3, AmpFacts, Cancel
<1>9. /\ (k * r.from) \div r.to = p /\ r.inTotal = j
      /\ r.inTotal - r.histLen = i - hist
  BY <1>1, <1>5
<1>10. IF p - Zeros + 1 < 0 THEN 0 >= i - hist ELSE p - Zeros + 1 >= i - hist
  BY <1>8, AmpFacts
<1> QED
  BY <1>7, <1>9, <1>10, AmpFacts DEF Nam!WindowHeld

LEMMA StepHolds ==
  ASSUME AmpInv, [Nam!Next]_(Nam!vars)
  PROVE  Nam!HeldStep
<1>1. inRes.outCount \in Nat
  BY DEF AmpInv, AmpType, Resamplers
<1>2. ASSUME inRes'.outCount = 0 \/ inRes'.outCount = inRes.outCount
      PROVE  Nam!HeldStep
  BY <1>1, <1>2 DEF Nam!HeldStep
<1>3. ASSUME NEW x, NEW y, NEW z PROVE Nam!Resampler(x, y, z).outCount = 0
  BY DEF Nam!Resampler
<1>4. ASSUME NEW speed \in Rates, NEW slimmable \in BOOLEAN, Nam!LoadAsset(speed, slimmable)
      PROVE  Nam!HeldStep
  BY <1>2, <1>3, <1>4 DEF Nam!LoadAsset, Nam!Idle
<1>5. CASE Nam!ApplyTier
  BY <1>2, <1>5 DEF Nam!ApplyTier
<1>6. ASSUME NEW speed \in Rates, NEW block \in BlockSizes, Nam!Prepare(speed, block)
      PROVE  Nam!HeldStep
  BY <1>2, <1>3, <1>6 DEF Nam!Prepare
<1>7. ASSUME NEW n \in 1 .. amp.maxBlock, Nam!ProcessBlock(n)
      PROVE  Nam!HeldStep
  <2>1. amp.state = "prepared" /\ AmpType /\ PreparedFor /\ (Nam!Resampling => Streaming)
    BY <1>7 DEF Nam!ProcessBlock, AmpInv
  <2>2. CASE ~Nam!Resampling
    <3>1. inRes' = [inRes EXCEPT !.inTotal = @ + n]
      BY <1>7, <2>2 DEF Nam!ProcessBlock
    <3>2. inRes'.outCount = inRes.outCount
      BY <3>1
    <3> QED
      BY <1>2, <3>2
  <2>3. CASE Nam!Resampling
    <3>1. PICK E \in Nat \ {0}, M \in Nat \ {0}, i \in Nat, h \in Nat :
            /\ E = amp.engine /\ M = amp.model /\ i = inRes.inTotal /\ h = inRes.histLen
            /\ h = i \/ h >= 2 * Zeros
            /\ inRes.outCount = DueOf(i, E, M) /\ inRes.from = E /\ inRes.to = M
      BY <2>1, <2>3, AmpFields DEF AmpType, Resamplers, Streaming, PreparedFor
    <3>2. n \in 1 .. inRes.maxIn /\ n \in 0 .. inRes.maxIn /\ n \in Nat /\ n # 0
      BY <1>7, <2>1 DEF PreparedFor
    <3>3. PICK hist \in Nat : hist = Nam!Kept(inRes, n) /\ (hist >= i \/ hist >= 2 * Zeros)
      <4>1. Nam!Kept(inRes, n) = IF h + n > 2 * Zeros + inRes.maxIn THEN 2 * Zeros ELSE h
        BY <3>1 DEF Nam!Kept
      <4> QED
        BY <3>1, <4>1, AmpFacts
    <3>4. inRes' = Nam!Process(inRes, n)
      BY <1>7, <2>3 DEF Nam!ProcessBlock
    <3>5. /\ inRes'.from = E /\ inRes'.to = M /\ inRes'.inTotal = i + n
          /\ inRes'.histLen = hist + n /\ inRes'.outCount = DueOf(i + n, E, M)
      BY <2>1, <3>1, <3>2, <3>3, <3>4, ProcessGives DEF AmpType
    <3>6. ASSUME NEW k \in inRes.outCount .. inRes'.outCount - 1
          PROVE  Nam!WindowHeld(inRes', k)
      <4>1. DueOf(i + n, E, M) \in Nat /\ DueOf(i, E, M) \in Nat
        <5>1. i + n \in Nat
          BY <3>2
        <5> QED
          BY <5>1, DueFacts
      <4>2. k \in Nat /\ DueOf(i, E, M) <= k /\ k < DueOf(i + n, E, M)
        BY <3>1, <3>5, <3>6, <4>1
      <4> QED
        BY <3>1, <3>2, <3>3, <3>5, <4>2, WindowIsHeld
    <3> QED
      BY <3>6 DEF Nam!HeldStep
  <2> QED
    BY <2>2, <2>3
<1>8. CASE Nam!Reset
  BY <1>2, <1>3, <1>8 DEF Nam!Reset, Nam!Cleared
<1>9. ASSUME NEW tier \in Tiers, Nam!SetTier(tier)
      PROVE  Nam!HeldStep
  BY <1>2, <1>9 DEF Nam!SetTier
<1>10. CASE UNCHANGED Nam!vars
  BY <1>2, <1>10 DEF Nam!vars
<1> QED
  BY <1>4, <1>5, <1>6, <1>7, <1>8, <1>9, <1>10 DEF Nam!Next

\* What the run asks of the buffers of the amplifier (prepare, process, reset).
COROLLARY AmpBlocksFit == Nam!Spec => []NamInv
<1>1. Nam!NamInv => NamInv
  BY DEF NamInv
<1> QED
  BY <1>1, BlocksAlwaysFit, PartsAssumption, PTL

\* What the run asks of the resampler in front of the model (processOne, sampleAt).
COROLLARY AmpWindowsAreHeld == Nam!Spec => WindowsAreHeld
<1>1. AmpInv /\ [Nam!Next]_(Nam!vars)
        => [part = "nam" => Nam!HeldStep]_<<part, Nam!vars>>
  BY StepHolds
<1> QED
  BY <1>1, AmpStarts, AmpStep, PartsAssumption, PTL DEF Nam!Spec, WindowsAreHeld

-----------------------------------------------------------------------------
(****************************************************************************)
(* Tuner: the note that is held is shown in the end, and no other as stable. *)
(****************************************************************************)
LEMMA TunerFacts == Tune!TunerAssumption
BY PartsAssumption

(* The bounds *)

Shrunk(v) == (4 * v) \div 10 + 1
Widest == Tune!Highest - Tune!Lowest
\* Far up to n.
FarTo(n) ==
  {f \in [0 .. n -> Nat] : f[0] = Widest /\ \A k \in 1 .. n : f[k] = Shrunk(f[k - 1])}

\* The frequency of a lag.
LEMMA Notes ==
  ASSUME NEW k \in Tune!Lags
  PROVE  /\ Rate \div k \in Tune!Lowest .. Tune!Highest
         /\ Tune!Lowest \in Nat /\ Tune!Highest \in Nat /\ Tune!Lowest <= Tune!Highest
<1>1. MinLag \in Nat \ {0} /\ MaxLag \in Nat /\ MinLag <= MaxLag /\ Rate \in Nat
  BY TunerFacts DEF Tune!TunerAssumption
<1>2. ASSUME NEW x \in Nat \ {0}, NEW y \in Nat \ {0}, x <= y
      PROVE  Rate \div y <= Rate \div x /\ Rate \div x \in Nat
  <2>1. PICK q \in Nat : q = Rate \div y /\ q * y <= Rate
    BY <1>1, <1>2
  <2>2. q * x <= q * y
    BY <1>2, <2>1
  <2>3. q * x <= Rate /\ q * x \in Nat
    BY <1>1, <1>2, <2>1, <2>2
  <2>4. PICK r \in Nat : r = Rate \div x
    BY <1>1, <1>2
  <2>5. Rate < (r + 1) * x
    BY <1>1, <1>2, <2>4
  <2>6. q * x < (r + 1) * x
    BY <1>1, <1>2, <2>1, <2>3, <2>4, <2>5
  <2>7. q < r + 1
    BY <1>2, <2>1, <2>4, <2>6
  <2> QED
    BY <2>1, <2>4, <2>7
<1>3. k \in Nat \ {0} /\ MinLag <= k /\ k <= MaxLag /\ MaxLag \in Nat \ {0}
  BY <1>1 DEF Tune!Lags
<1>4. Tune!Lowest <= Rate \div k /\ Tune!Lowest \in Nat /\ Rate \div k \in Nat
  BY <1>2, <1>3 DEF Tune!Lowest
<1>5. MinLag \in Nat \ {0} /\ MinLag <= k
  BY <1>1, <1>3
<1>6. Rate \div k <= Tune!Highest /\ Tune!Highest \in Nat
  BY <1>2, <1>3, <1>5 DEF Tune!Highest
<1> QED
  BY <1>4, <1>6

LEMMA WidestIs == Widest \in Nat
<1>1. MinLag \in Tune!Lags
  BY TunerFacts DEF Tune!TunerAssumption, Tune!Lags
<1> QED
  BY <1>1, Notes DEF Widest

LEMMA ShrunkIs ==
  ASSUME NEW v \in Nat
  PROVE  Shrunk(v) \in Nat
BY DEF Shrunk

LEMMA FarToExists ==
  ASSUME NEW n \in Nat
  PROVE  FarTo(n) # {}
<1> DEFINE Wrong == {m \in Nat : FarTo(m) = {}}
<1>1. SUFFICES ASSUME Wrong # {} PROVE FALSE
  OBVIOUS
<1>2. PICK m \in Wrong : \A y \in Wrong : m <= y
  BY <1>1, LeastIn
<1>3. CASE m = 0
  <2>1. [i \in 0 .. 0 |-> Widest] \in FarTo(0)
    BY WidestIs DEF FarTo
  <2> QED
    BY <1>2, <1>3, <2>1
<1>4. CASE m # 0
  <2>1. m \in Nat /\ m - 1 \in Nat /\ m - 1 \notin Wrong
    BY <1>2, <1>4
  <2>2. PICK f : f \in FarTo(m - 1)
    BY <2>1
  <2>3. f \in [0 .. m - 1 -> Nat] /\ f[0] = Widest /\ \A k \in 1 .. m - 1 : f[k] = Shrunk(f[k - 1])
    BY <2>2 DEF FarTo
  <2> DEFINE g == [i \in 0 .. m |-> IF i = m THEN Shrunk(f[m - 1]) ELSE f[i]]
  <2>4. Shrunk(f[m - 1]) \in Nat
    <3>1. f[m - 1] \in Nat
      BY <2>1, <2>3
    <3> QED
      BY <3>1, ShrunkIs
  <2>5. g \in [0 .. m -> Nat]
    BY <2>1, <2>3, <2>4
  <2>6. g[0] = Widest
    BY <1>4, <2>1, <2>3
  <2>7. ASSUME NEW k \in 1 .. m PROVE g[k] = Shrunk(g[k - 1])
    <3>1. g[k - 1] = f[k - 1] /\ k - 1 \in 0 .. m - 1
      BY <2>1, <2>7
    <3>2. CASE k = m
      BY <2>1, <3>1, <3>2
    <3>3. CASE k # m
      <4>1. k \in 1 .. m - 1 /\ g[k] = f[k]
        BY <2>1, <2>7, <3>3
      <4>2. f[k] = Shrunk(f[k - 1])
        BY <2>3, <4>1
      <4> QED
        BY <3>1, <4>1, <4>2
    <3> QED
      BY <3>2, <3>3
  <2> HIDE DEF g
  <2>8. g \in FarTo(m)
    BY <2>5, <2>6, <2>7 DEF FarTo
  <2> QED
    BY <1>2, <2>8
<1> QED
  BY <1>3, <1>4

LEMMA FarToAgree ==
  ASSUME NEW n \in Nat, NEW m \in Nat, NEW f \in FarTo(n), NEW g \in FarTo(m),
         NEW k \in Nat, k <= n, k <= m
  PROVE  f[k] = g[k]
<1> DEFINE Wrong == {i \in Nat : i <= n /\ i <= m /\ f[i] # g[i]}
<1>1. SUFFICES ASSUME Wrong # {} PROVE FALSE
  OBVIOUS
<1>2. PICK i \in Wrong : \A y \in Wrong : i <= y
  BY <1>1, LeastIn
<1>3. i # 0
  BY <1>2 DEF FarTo
<1>4. i - 1 \in Nat /\ i - 1 \notin Wrong
  BY <1>2, <1>3
<1>5. f[i - 1] = g[i - 1]
  BY <1>2, <1>4
<1>6. i \in 1 .. n /\ i \in 1 .. m
  BY <1>2, <1>3
<1>7. f[i] = Shrunk(f[i - 1]) /\ g[i] = Shrunk(g[i - 1])
  BY <1>6 DEF FarTo
<1> QED
  BY <1>2, <1>5, <1>7

\* Far is the function its definition asks for.
LEMMA FarIs ==
  /\ Tune!Far[0] = Widest
  /\ \A k \in Nat : Tune!Far[k] \in Nat /\ Tune!Far[k + 1] = Shrunk(Tune!Far[k])
<1> DEFINE to(n) == CHOOSE f : f \in FarTo(n)
           g == [k \in Nat |-> to(k)[k]]
<1>1. ASSUME NEW n \in Nat PROVE to(n) \in FarTo(n)
  BY <1>1, FarToExists
<1>2. ASSUME NEW n \in Nat PROVE to(n)[n] \in Nat /\ to(n)[0] = Widest
  <2>1. to(n) \in [0 .. n -> Nat] /\ to(n)[0] = Widest
    BY <1>1, <1>2 DEF FarTo
  <2> HIDE DEF to
  <2> QED
    BY <1>2, <2>1
<1>3. ASSUME NEW n \in Nat PROVE to(n + 1)[n + 1] = Shrunk(to(n)[n])
  <2>1. to(n) \in FarTo(n) /\ to(n + 1) \in FarTo(n + 1)
    BY <1>1, <1>3
  <2> HIDE DEF to
  <2>2. to(n + 1)[n] = to(n)[n]
    BY <1>3, <2>1, FarToAgree
  <2>3. n + 1 \in 1 .. n + 1 /\ (n + 1) - 1 = n
    BY <1>3
  <2>4. to(n + 1)[n + 1] = Shrunk(to(n + 1)[(n + 1) - 1])
    BY <2>1, <2>3 DEF FarTo
  <2> QED
    BY <2>2, <2>3, <2>4
<1> HIDE DEF to
<1>4. g[0] = Widest /\ \A k \in Nat : g[k] \in Nat /\ g[k + 1] = Shrunk(g[k])
  BY <1>2, <1>3
<1>5. g = [k \in Nat |-> IF k = 0 THEN Tune!Highest - Tune!Lowest ELSE (4 * g[k - 1]) \div 10 + 1]
  <2>1. ASSUME NEW k \in Nat
        PROVE  g[k] = IF k = 0 THEN Tune!Highest - Tune!Lowest ELSE (4 * g[k - 1]) \div 10 + 1
    <3>1. CASE k = 0
      BY <1>4, <3>1 DEF Widest
    <3>2. CASE k # 0
      <4>1. PICK j \in Nat : j = k - 1 /\ k = j + 1
        BY <2>1, <3>2
      <4>2. g[j + 1] = Shrunk(g[j])
        BY <1>4, <4>1
      <4> HIDE DEF g
      <4> QED
        BY <3>2, <4>1, <4>2 DEF Shrunk
    <3> QED
      BY <3>1, <3>2
  <2>2. g = [k \in Nat |-> g[k]]
    OBVIOUS
  <2> HIDE DEF g
  <2> QED
    BY <2>1, <2>2
<1> HIDE DEF g
<1>6. Tune!Far = [k \in Nat |-> IF k = 0 THEN Tune!Highest - Tune!Lowest ELSE (4 * Tune!Far[k - 1]) \div 10 + 1]
  BY <1>5 DEF Tune!Far
<1>7. ASSUME NEW k \in Nat PROVE Tune!Far[k + 1] = Shrunk(Tune!Far[k])
  <2>1. k + 1 \in Nat /\ k + 1 # 0 /\ (k + 1) - 1 = k
    BY <1>7
  <2>2. Tune!Far[k + 1] = (4 * Tune!Far[(k + 1) - 1]) \div 10 + 1
    BY <1>6, <2>1
  <2> QED
    BY <2>1, <2>2 DEF Shrunk
<1>8. Tune!Far[0] = Widest
  BY <1>6 DEF Widest
<1> DEFINE Wrong == {k \in Nat : Tune!Far[k] \notin Nat}
<1>9. Wrong = {}
  <2>1. SUFFICES ASSUME Wrong # {} PROVE FALSE
    OBVIOUS
  <2>2. PICK i \in Wrong : \A y \in Wrong : i <= y
    BY <2>1, LeastIn
  <2>3. i # 0
    BY <1>8, <2>2, WidestIs
  <2>4. i - 1 \in Nat /\ i - 1 \notin Wrong
    BY <2>2, <2>3
  <2>5. Tune!Far[i - 1] \in Nat /\ (i - 1) + 1 = i
    BY <2>2, <2>4
  <2>6. Tune!Far[i] = Shrunk(Tune!Far[i - 1])
    BY <1>7, <2>4, <2>5
  <2> QED
    BY <2>2, <2>5, <2>6, ShrunkIs
<1> QED
  BY <1>7, <1>8, <1>9

(* One detection *)

Off(f, g) == IF f > g THEN f - g ELSE g - f

LEMMA OffIs ==
  ASSUME NEW f \in Int, NEW g \in Int
  PROVE  Off(f, g) \in Nat
BY DEF Off

\* What is shown comes nearer to the note, by more than half.
LEMMA ComesNearer ==
  ASSUME NEW n \in Nat, NEW l \in Nat, NEW d \in Nat, Off(l, n) <= d,
         NEW f \in Int, f = (6 * n + 4 * l) \div 10
  PROVE  Off(f, n) <= Shrunk(d)
BY DEF Off, Shrunk

LEMMA StaysBetween ==
  ASSUME NEW low \in Nat, NEW high \in Nat, NEW n \in low .. high, NEW l \in low .. high
  PROVE  (6 * n + 4 * l) \div 10 \in low .. high
OBVIOUS

\* Near what was shown last is near the note.
LEMMA NearIsRight ==
  ASSUME NEW n \in Nat, NEW l \in Nat, l >= 1000, NEW f \in Int,
         f = (6 * n + 4 * l) \div 10, 100 * Off(f, l) < l
  PROVE  100 * Off(f, n) <= n
BY DEF Off

\* Close to the note is near what is shown next.
LEMMA CloseIsNear ==
  ASSUME NEW n \in Nat, NEW l \in Nat, NEW low \in Nat, l >= low, low >= 1000,
         60 * Off(l, n) + 100 < low, NEW f \in Int, f = (6 * n + 4 * l) \div 10
  PROVE  100 * Off(f, l) < l /\ 60 * Off(f, n) + 100 < low
BY DEF Off

\* The lag that is chosen is that of a note.
LEMMA NoteIsThere ==
  ASSUME NEW acf, Tune!Candidates(acf) # {}
  PROVE  /\ Tune!BestLag(acf) \in Tune!Lags
         /\ Tune!Frequencies(acf) = {Rate \div Tune!BestLag(acf)}
<1>1. Tune!Candidates(acf) \subseteq Tune!Lags /\ Tune!Lags \subseteq Nat
  BY TunerFacts DEF Tune!TunerAssumption, Tune!Candidates, Tune!Peaks, Tune!NearTheTop, Tune!Lags
<1>2. \E x \in Tune!Candidates(acf) : \A y \in Tune!Candidates(acf) : x <= y
  <2>1. Tune!Candidates(acf) \in SUBSET Nat
    BY <1>1
  <2> QED
    BY <2>1, LeastIn
<1>3. Tune!BestLag(acf) \in Tune!Candidates(acf)
  BY <1>2 DEF Tune!BestLag, Tune!FirstOf
<1> QED
  BY <1>1, <1>3 DEF Tune!Frequencies

(* The invariant *)

Note == Rate \div Tune!Period
Counting == Settles - 3
ShownRange ==
  /\ held \in 0 .. Settles /\ count \in 0 .. 10 /\ frame \in Frames \cup {Silent}
  /\ (last \in Int /\ last <= 0) \/ last \in Tune!Lowest .. Tune!Highest
  /\ stable <=> count >= 3
OnSilence == held > 0 /\ ~Tune!Sounds => ~detected /\ freq = 0 /\ count = 0
OutOfRange == held > 0 /\ Tune!Sounds /\ ~Tune!InRange => count = 0
OnNote ==
  held > 0 /\ Tune!Sounds /\ Tune!InRange =>
    /\ detected /\ freq = last /\ last \in Tune!Lowest .. Tune!Highest
    /\ count > 0 => 100 * Off(last, Note) <= Note
    /\ held <= Counting => Off(last, Note) <= Tune!Far[held]
    /\ held >= Counting => 60 * Off(last, Note) + 100 < Tune!Lowest
    /\ held > Counting => count >= held - Counting
ShownInv == ShownRange /\ OnSilence /\ OutOfRange /\ OnNote

LEMMA NoteRange ==
  ASSUME Tune!InRange
  PROVE  /\ Tune!Frequencies(frame) = {Note} /\ Note \in Tune!Lowest .. Tune!Highest
         /\ Tune!Lowest \in Nat /\ Tune!Highest \in Nat /\ Tune!Lowest >= 1000
<1>1. Tune!BestLag(frame) \in Tune!Lags /\ Tune!Frequencies(frame) = {Rate \div Tune!BestLag(frame)}
  BY NoteIsThere DEF Tune!InRange
<1>2. Tune!BestLag(frame) = Tune!Period
  BY DEF Tune!BestLag, Tune!Period
<1> QED
  BY <1>1, <1>2, Notes, TunerFacts DEF Note, Tune!TunerAssumption

\* Without a lag the frequency is negative, and what is shown is not near anything.
LEMMA BelowZero ==
  ASSUME NEW f \in {-Rate, -2 * Rate}, NEW l \in Int, l <= 0 \/ l \in Tune!Lowest .. Tune!Highest
  PROVE  /\ f \in Int /\ f < 0
         /\ l > 0 => /\ (6 * f + 4 * l) \div 10 \in Int /\ (6 * f + 4 * l) \div 10 <= 0
                     /\ ~(100 * (l - (6 * f + 4 * l) \div 10) < l)
<1>1. MinLag \in Tune!Lags /\ MinLag \in Nat \ {0} /\ Rate \in Nat
  BY TunerFacts DEF Tune!TunerAssumption, Tune!Lags
<1>2. Tune!Lowest \in Nat /\ Tune!Highest \in Nat /\ Tune!Lowest <= Tune!Highest /\ Tune!Lowest >= 1000
  BY <1>1, Notes, TunerFacts DEF Tune!TunerAssumption
<1>3. Tune!Highest <= Rate
  <2>1. PICK q \in Nat : q = Rate \div MinLag /\ q * MinLag <= Rate
    BY <1>1
  <2>2. q <= q * MinLag
    BY <1>1, <2>1
  <2> QED
    BY <1>1, <2>1, <2>2 DEF Tune!Highest
<1>4. PICK high \in Nat : high = Tune!Highest /\ 1000 <= high /\ high <= Rate /\ l <= high
  BY <1>2, <1>3
<1>5. f \in Int /\ f <= -high /\ f < 0
  BY <1>1, <1>4
<1>6. ASSUME l > 0 PROVE 6 * f + 4 * l <= 0
  BY <1>4, <1>5
<1> QED
  BY <1>5, <1>6

LEMMA CountingIs ==
  /\ Settles \in Nat /\ Counting \in Nat /\ Counting > 0 /\ Settles = Counting + 3
  /\ 60 * Tune!Far[Counting] + 100 < Tune!Lowest /\ Tune!Lowest \in Nat /\ Tune!Lowest >= 1000
<1>1. MinLag \in Tune!Lags
  BY TunerFacts DEF Tune!TunerAssumption, Tune!Lags
<1> QED
  BY <1>1, Notes, TunerFacts DEF Tune!TunerAssumption, Counting

LEMMA TunerStarts == Tune!Init => ShownInv
<1> SUFFICES ASSUME Tune!Init PROVE ShownInv
  OBVIOUS
<1> QED
  BY CountingIs DEF Tune!Init, ShownInv, ShownRange, OnSilence, OutOfRange, OnNote

LEMMA SilenceKeeps ==
  ASSUME ShownInv, ~Tune!Sounds, Tune!NothingDetected, UNCHANGED frame, held' \in 0 .. Settles
  PROVE  ShownInv'
<1>1. ~Tune!Sounds'
  BY DEF Tune!Sounds, Tune!Voices
<1>2. ShownRange'
  BY DEF ShownInv, ShownRange, Tune!NothingDetected
<1>3. OnSilence' /\ OutOfRange' /\ OnNote'
  BY <1>1 DEF OnSilence, OutOfRange, OnNote, Tune!NothingDetected
<1> QED
  BY <1>2, <1>3 DEF ShownInv

LEMMA LostKeeps ==
  ASSUME ShownInv, Tune!Sounds, ~Tune!InRange, NEW f \in Tune!Frequencies(frame), Tune!Show(f),
         UNCHANGED frame, held' \in 0 .. Settles
  PROVE  ShownInv'
<1>1. Tune!Sounds' /\ ~Tune!InRange'
  BY DEF Tune!Sounds, Tune!Voices, Tune!InRange, Tune!Candidates, Tune!Peaks, Tune!NearTheTop
<1>2. f \in {-Rate, -2 * Rate}
  BY DEF Tune!Frequencies, Tune!InRange
<1>3. last \in Int /\ (last <= 0 \/ last \in Tune!Lowest .. Tune!Highest)
  <2>1. Tune!Lowest .. Tune!Highest \subseteq Int
    OBVIOUS
  <2> QED
    BY <2>1 DEF ShownInv, ShownRange
<1>4. /\ f \in Int /\ f < 0
      /\ last > 0 => /\ (6 * f + 4 * last) \div 10 \in Int /\ (6 * f + 4 * last) \div 10 <= 0
                     /\ ~(100 * (last - (6 * f + 4 * last) \div 10) < last)
  BY <1>2, <1>3, BelowZero
<1>5. PICK g : g = Tune!Mixed(f)
  OBVIOUS
<1>6. g \in Int /\ g <= 0 /\ ~Tune!Near(g)
  <2>1. CASE last > 0
    <3>1. g = (6 * f + 4 * last) \div 10
      BY <1>5, <2>1 DEF Tune!Mixed
    <3>2. g \in Int /\ g <= 0 /\ ~(100 * (last - g) < last)
      BY <1>4, <2>1, <3>1
    <3> QED
      BY <1>3, <2>1, <3>2 DEF Tune!Near
  <2>2. CASE ~(last > 0)
    BY <1>4, <1>5, <2>2 DEF Tune!Mixed, Tune!Near
  <2> QED
    BY <2>1, <2>2
<1>7. last' = g /\ count' = 0 /\ (stable' <=> count' >= 3)
  <2>1. /\ last' = g
        /\ count' = IF Tune!Near(g) THEN (IF count < 10 THEN count + 1 ELSE 10) ELSE 0
        /\ stable' = (count' >= 3)
    BY <1>5 DEF Tune!Show
  <2> QED
    BY <1>6, <2>1
<1>8. ShownRange'
  BY <1>6, <1>7 DEF ShownInv, ShownRange
<1>9. OnSilence' /\ OutOfRange' /\ OnNote'
  BY <1>1, <1>7 DEF OnSilence, OutOfRange, OnNote
<1> QED
  BY <1>8, <1>9 DEF ShownInv

LEMMA NoteKeeps ==
  ASSUME ShownInv, Tune!Sounds, Tune!InRange, Tune!Show(Note), UNCHANGED frame,
         held' = IF held < Settles THEN held + 1 ELSE held
  PROVE  ShownInv'
<1>1. frame \in Frames \cup {Silent} /\ held \in 0 .. Settles /\ count \in 0 .. 10
      /\ ((last \in Int /\ last <= 0) \/ last \in Tune!Lowest .. Tune!Highest)
  BY DEF ShownInv, ShownRange
<1>2. PICK n \in Nat, low \in Nat, high \in Nat, target \in Nat :
        /\ n = Note /\ low = Tune!Lowest /\ high = Tune!Highest /\ target = Counting
        /\ n \in low .. high /\ low >= 1000
        /\ target > 0 /\ Settles = target + 3
  BY <1>1, NoteRange, CountingIs
<1>3. Tune!Sounds' /\ Tune!InRange' /\ Note' = Note
  BY DEF Tune!Sounds, Tune!Voices, Tune!InRange, Note, Tune!Period, Tune!Candidates, Tune!Peaks,
         Tune!NearTheTop, Tune!FirstOf
<1>4. PICK f : f = Tune!Mixed(n)
  OBVIOUS
<1>6. /\ detected' = TRUE /\ freq' = f /\ last' = f
      /\ count' = IF Tune!Near(f) THEN (IF count < 10 THEN count + 1 ELSE 10) ELSE 0
      /\ stable' = (count' >= 3)
  BY <1>2, <1>4 DEF Tune!Show
<1>7. held' \in 0 .. Settles /\ held' > 0 /\ count' \in 0 .. 10
  <2>1. held' \in 0 .. Settles /\ held' > 0
    BY <1>1, <1>2
  <2>2. count' \in 0 .. 10
    <3>1. CASE Tune!Near(f)
      BY <1>1, <1>6, <3>1
    <3>2. CASE ~Tune!Near(f)
      BY <1>6, <3>2
    <3> QED
      BY <3>1, <3>2
  <2> QED
    BY <2>1, <2>2
<1>8. SUFFICES
        /\ f \in low .. high
        /\ count' > 0 => 100 * Off(f, n) <= n
        /\ held' <= target => Off(f, n) <= Tune!Far[held']
        /\ held' >= target => 60 * Off(f, n) + 100 < low
        /\ held' > target => count' >= held' - target
  <2>1. ShownRange'
    <3>1. last' \in Tune!Lowest' .. Tune!Highest'
      BY <1>2, <1>6, <1>8 DEF Tune!Lowest, Tune!Highest
    <3>2. stable' <=> count' >= 3
      BY <1>6
    <3>3. frame' \in Frames \cup {Silent}
      BY <1>1
    <3> QED
      BY <1>7, <3>1, <3>2, <3>3 DEF ShownRange
  <2>2. OnSilence'
    BY <1>3 DEF OnSilence
  <2>3. OnNote'
    BY <1>2, <1>3, <1>6, <1>8 DEF OnNote, Counting
  <2>4. OutOfRange'
    BY <1>3 DEF OutOfRange
  <2> QED
    BY <2>1, <2>2, <2>3, <2>4 DEF ShownInv
<1>9. /\ \A k \in Nat : Tune!Far[k] \in Nat /\ Tune!Far[k + 1] = Shrunk(Tune!Far[k])
      /\ Tune!Far[0] = high - low /\ 60 * Tune!Far[target] + 100 < low
  BY <1>2, FarIs, CountingIs DEF Widest
<1>10. CASE ~(last > 0)
  <2>1. held = 0
    BY <1>1, <1>2, <1>10 DEF ShownInv, OnNote
  <2>2. f = n /\ ~Tune!Near(f)
    BY <1>4, <1>10 DEF Tune!Mixed, Tune!Near
  <2>3. held' = 1 /\ count' = 0
    BY <1>2, <1>6, <2>1, <2>2
  <2>4. Off(f, n) = 0 /\ Tune!Far[1] \in Nat
    BY <1>2, <1>9, <2>2 DEF Off
  <2> QED
    BY <1>2, <2>2, <2>3, <2>4
<1>11. CASE last > 0
  <2>1. PICK l \in low .. high : l = last /\ l > 0
    BY <1>1, <1>2, <1>11
  <2>2. f \in low .. high /\ f = (6 * n + 4 * l) \div 10
    <3>1. f = (6 * n + 4 * l) \div 10
      BY <1>4, <2>1 DEF Tune!Mixed
    <3> QED
      BY <1>2, <3>1, StaysBetween
  <2>3. Tune!Near(f) <=> 100 * Off(f, l) < l
    BY <2>1, <2>2 DEF Tune!Near, Off
  <2>4. count' > 0 => 100 * Off(f, n) <= n
    <3>1. SUFFICES ASSUME count' > 0 PROVE 100 * Off(f, n) <= n
      OBVIOUS
    <3>2. 100 * Off(f, l) < l
      BY <1>6, <2>3, <3>1
    <3>3. l \in Nat /\ l >= 1000 /\ f \in Int
      BY <1>2, <2>1, <2>2
    <3> QED
      BY <1>2, <2>2, <3>2, <3>3, NearIsRight
  <2>5. PICK e \in Nat : e = Off(l, n)
    BY <1>2, <2>1, OffIs
  <2>6. /\ held <= target => e <= Tune!Far[held]
        /\ held >= target => 60 * e + 100 < low
        /\ held > target => count >= held - target
    <3>1. CASE held = 0
      <4>1. e <= high - low
        BY <1>2, <2>1, <2>5 DEF Off
      <4> QED
        BY <1>2, <1>9, <3>1, <4>1
    <3>2. CASE held # 0
      <4>1. held > 0
        BY <1>1, <3>2
      <4> QED
        BY <1>2, <2>1, <2>5, <4>1 DEF ShownInv, OnNote
    <3> QED
      BY <3>1, <3>2
  <2>7. CASE held < target
    <3>1. held' = held + 1 /\ held' <= target /\ held \in Nat
      BY <1>1, <1>2, <2>7
    <3>2. e <= Tune!Far[held] /\ Tune!Far[held] \in Nat /\ Tune!Far[held'] = Shrunk(Tune!Far[held])
      BY <1>9, <2>6, <2>7, <3>1
    <3>3. Off(f, n) <= Tune!Far[held']
      BY <1>2, <2>1, <2>2, <2>5, <3>2, ComesNearer
    <3>4. held' >= target => 60 * Off(f, n) + 100 < low
      <4>1. SUFFICES ASSUME held' >= target PROVE 60 * Off(f, n) + 100 < low
        OBVIOUS
      <4>2. held' = target
        BY <1>2, <3>1, <4>1
      <4>3. PICK o \in Nat : o = Off(f, n)
        BY <1>2, <2>2, OffIs
      <4>4. PICK w \in Nat : w = Tune!Far[target]
        BY <1>2, <1>9
      <4>5. o <= w /\ 60 * w + 100 < low
        BY <1>9, <3>3, <4>2, <4>3, <4>4
      <4> QED
        BY <1>2, <4>3, <4>5
    <3> QED
      BY <1>2, <2>2, <2>4, <3>1, <3>3, <3>4
  <2>8. CASE ~(held < target)
    <3>1. held >= target /\ held \in Nat
      BY <1>1, <1>2, <2>8
    <3>2. 60 * Off(l, n) + 100 < low
      BY <2>5, <2>6, <3>1
    <3>3. 100 * Off(f, l) < l /\ 60 * Off(f, n) + 100 < low
      <4>1. l \in Nat /\ l >= low /\ f \in Int
        BY <1>2, <2>1, <2>2
      <4> QED
        BY <1>2, <2>2, <3>2, <4>1, CloseIsNear
    <3>4. count' = IF count < 10 THEN count + 1 ELSE 10
      BY <1>6, <2>3, <3>3
    <3>5. held' > target /\ count' >= held' - target
      <4>1. CASE held < Settles
        <5>1. held' = held + 1
          BY <4>1
        <5>2. held > target => count >= held - target
          BY <2>6
        <5> QED
          BY <1>1, <1>2, <3>1, <3>4, <4>1, <5>1, <5>2
      <4>2. CASE ~(held < Settles)
        <5>1. held' = held /\ held = target + 3
          BY <1>1, <1>2, <4>2
        <5>2. count >= 3
          BY <1>1, <1>2, <2>6, <5>1
        <5> QED
          BY <1>1, <1>2, <3>4, <5>1, <5>2
      <4> QED
        BY <4>1, <4>2
    <3> QED
      BY <1>2, <1>7, <2>2, <2>4, <3>3, <3>5
  <2> QED
    BY <2>7, <2>8
<1> QED
  BY <1>10, <1>11

LEMMA StillKeeps ==
  ASSUME ShownInv, UNCHANGED <<Tune!shown, frame, held>>
  PROVE  ShownInv'
BY DEF ShownInv, ShownRange, OnSilence, OutOfRange, OnNote, Tune!Sounds, Tune!Voices, Tune!InRange,
       Note, Tune!Period, Tune!Candidates, Tune!Peaks, Tune!NearTheTop, Tune!FirstOf, Tune!shown

LEMMA TunerKeeps ==
  ASSUME ShownInv, [Tune!Next]_(Tune!vars)
  PROVE  ShownInv'
<1>1. CASE Tune!Prepare
  BY <1>1, CountingIs DEF Tune!Prepare, ShownInv, ShownRange, OnSilence, OutOfRange, OnNote
<1>2. ASSUME NEW n \in BlockSizes, Tune!Process(n) PROVE ShownInv'
  <2>1. CASE UNCHANGED <<Tune!shown, held>>
    BY <1>2, <2>1, StillKeeps DEF Tune!Process
  <2>2. CASE Tune!Detect /\ held' = IF held < Settles THEN held + 1 ELSE held
    <3>1. UNCHANGED frame
      BY <1>2 DEF Tune!Process
    <3>2. CASE Tune!Sounds
      <4>1. PICK f \in Tune!Frequencies(frame) : Tune!Show(f)
        BY <2>2, <3>2 DEF Tune!Detect
      <4>2. CASE Tune!InRange
        <5>1. f = Note
          BY <4>1, <4>2, NoteRange
        <5> QED
          BY <2>2, <3>1, <3>2, <4>1, <4>2, <5>1, NoteKeeps
      <4>3. CASE ~Tune!InRange
        <5>1. held' \in 0 .. Settles
          BY <2>2, CountingIs DEF ShownInv, ShownRange
        <5> QED
          BY <3>1, <3>2, <4>1, <4>3, <5>1, LostKeeps
      <4> QED
        BY <4>2, <4>3
    <3>3. CASE ~Tune!Sounds
      <4>1. Tune!NothingDetected
        BY <2>2, <3>3 DEF Tune!Detect
      <4>2. held' \in 0 .. Settles
        BY <2>2, CountingIs DEF ShownInv, ShownRange
      <4> QED
        BY <3>1, <3>3, <4>1, <4>2, SilenceKeeps
    <3> QED
      BY <3>2, <3>3
  <2> QED
    BY <1>2, <2>1, <2>2 DEF Tune!Process
<1>3. ASSUME NEW acf \in Frames \cup {Silent}, Tune!Change(acf) PROVE ShownInv'
  BY <1>3, CountingIs DEF Tune!Change, Tune!shown, ShownInv, ShownRange, OnSilence, OutOfRange,
         OnNote
<1>4. CASE UNCHANGED Tune!vars
  BY <1>4, StillKeeps DEF Tune!vars, Tune!shown
<1> QED
  BY <1>1, <1>2, <1>3, <1>4 DEF Tune!Next

\* A note in range that is held is shown as stable in the end, and whatever is shown as stable is
\* within one percent of the note that was in the window.
THEOREM TunerIsRight == Tune!Spec => []Tune!TunerInv
<1>1. Tune!Spec => []ShownInv
  BY TunerStarts, TunerKeeps, PTL DEF Tune!Spec
<1>2. ASSUME ShownInv PROVE Tune!TunerInv
  <2>1. held >= Settles /\ Tune!Sounds /\ Tune!InRange => stable
    <3>1. SUFFICES ASSUME held >= Settles, Tune!Sounds, Tune!InRange PROVE stable
      OBVIOUS
    <3>2. held \in 0 .. Settles /\ count \in 0 .. 10 /\ (stable <=> count >= 3)
      BY <1>2 DEF ShownInv, ShownRange
    <3>3. held > 0 /\ held > Counting /\ held - Counting = 3
      BY <3>1, <3>2, CountingIs
    <3>4. count >= held - Counting
      BY <1>2, <3>1, <3>3 DEF ShownInv, OnNote
    <3> QED
      BY <3>2, <3>3, <3>4
  <2>2. stable /\ held > 0 => Tune!Sounds /\ Tune!InRange /\ detected /\ Tune!Within(freq, Rate \div Tune!Period, 1)
    <3>1. SUFFICES ASSUME stable, held > 0
                   PROVE  Tune!Sounds /\ Tune!InRange /\ detected /\ Tune!Within(freq, Rate \div Tune!Period, 1)
      OBVIOUS
    <3>2. count \in 0 .. 10 /\ count >= 3 /\ count > 0 /\ count # 0
      BY <1>2, <3>1 DEF ShownInv, ShownRange
    <3>3. Tune!Sounds /\ Tune!InRange
      BY <1>2, <3>1, <3>2 DEF ShownInv, OnSilence, OutOfRange
    <3>4. detected /\ freq = last /\ 100 * Off(last, Note) <= Note
      BY <1>2, <3>1, <3>2, <3>3 DEF ShownInv, OnNote
    <3>5. Note \in Nat
      BY <3>3, NoteRange
    <3> QED
      BY <3>3, <3>4, <3>5 DEF Tune!Within, Off, Note
  <2>3. held > 0 /\ ~Tune!Sounds => ~detected /\ freq = 0
    BY <1>2 DEF ShownInv, OnSilence
  <2> QED
    BY <2>1, <2>2, <2>3 DEF Tune!TunerInv
<1> QED
  BY <1>1, <1>2, PTL

\* What the run asks of the tuner (detect).
COROLLARY HeldNoteIsShown == Tune!Spec => []TunerInv
<1>1. Tune!TunerInv => TunerInv
  BY DEF TunerInv
<1> QED
  BY <1>1, TunerIsRight, PartsAssumption, PTL

-----------------------------------------------------------------------------
(****************************************************************************)
(* DelayEffects: a read is as old as was asked, and reset forgets.         *)
(****************************************************************************)
LEMMA DelayFacts ==
  /\ Effects \subseteq
       {"dly.tape", "dly.dm2", "mod.chorus", "mod.flanger", "rvb.spring", "rvb.hall"}
  /\ SampleRates \subseteq Nat \ {0}
BY PartsAssumption DEF Delays!DelayAssumption

(* The lines *)

\* Each effect's lines: the delays of a line are shorter than what it is prepared for.
LEMMA LineFacts ==
  ASSUME NEW e \in Effects, NEW k \in DOMAIN Delays!Lines(e)
  PROVE  IF Delays!Hall(e) THEN Delays!Lines(e)[k] \in Nat
         ELSE /\ Delays!Lines(e)[k].lo \in Int /\ Delays!Lines(e)[k].hi \in Nat /\ Delays!Lines(e)[k].room \in Nat
              /\ Delays!Lines(e)[k].hi <= Delays!Lines(e)[k].room
<1>1. CASE e = "dly.tape"
  BY <1>1 DEF Delays!Lines, Delays!TapeLines, Delays!Hall, Delays!Line
<1>2. CASE e = "dly.dm2"
  BY <1>2 DEF Delays!Lines, Delays!Dm2Lines, Delays!Hall, Delays!Line
<1>3. CASE e = "mod.chorus"
  BY <1>3 DEF Delays!Lines, Delays!ChorusLines, Delays!Hall, Delays!Line
<1>4. CASE e = "mod.flanger"
  BY <1>4 DEF Delays!Lines, Delays!FlangerLines, Delays!Hall, Delays!Line
<1>5. CASE e = "rvb.spring"
  BY <1>5 DEF Delays!Lines, Delays!SpringLines, Delays!Hall, Delays!Line
<1>6. CASE e = "rvb.hall"
  <2>1. Delays!Lines(e) = Delays!Comb \o Delays!Allpass /\ Delays!Hall(e)
    BY <1>6 DEF Delays!Lines, Delays!Hall
  <2>2. Delays!Comb \in Seq(Nat) /\ Delays!Allpass \in Seq(Nat)
    BY DEF Delays!Comb, Delays!Allpass
  <2>3. Delays!Comb \o Delays!Allpass \in Seq(Nat)
    BY <2>2
  <2> QED
    BY <2>1, <2>3
<1> QED
  BY <1>1, <1>2, <1>3, <1>4, <1>5, <1>6, DelayFacts

LEMMA SizeFacts ==
  ASSUME NEW e \in Effects, NEW r \in SampleRates, NEW k \in DOMAIN Delays!Lines(e)
  PROVE  Delays!Size(e, r, Delays!Lines(e)[k]) \in Nat \ {0}
<1>1. r \in Nat
  BY DelayFacts
<1>2. CASE Delays!Hall(e)
  <2>1. PICK x \in Nat : x = Delays!Lines(e)[k] * r
    BY <1>1, <1>2, LineFacts
  <2>2. Delays!Size(e, r, Delays!Lines(e)[k]) = x \div 44100 + 1
    BY <1>2, <2>1 DEF Delays!Size
  <2> QED
    BY <2>2
<1>3. CASE ~Delays!Hall(e)
  <2>1. PICK x \in Nat : x = Delays!Lines(e)[k].room * r
    BY <1>1, <1>3, LineFacts
  <2>2. Delays!Size(e, r, Delays!Lines(e)[k]) = x \div 100000 + 4
    BY <1>3, <2>1 DEF Delays!Size
  <2> QED
    BY <2>2
<1> QED
  BY <1>2, <1>3

\* A place and the one behind it are in the line.
LEMMA PlacesFit ==
  ASSUME NEW e \in Effects, NEW r \in SampleRates, NEW k \in DOMAIN Delays!Lines(e), ~Delays!Hall(e),
         NEW p \in Delays!Places(Delays!Lines(e)[k], r)
  PROVE  p.whole \in Nat /\ p.whole + 1 < Delays!Size(e, r, Delays!Lines(e)[k])
<1>1. r \in Nat
  BY DelayFacts
<1>2. PICK hi \in Nat, room \in Nat : hi = Delays!Lines(e)[k].hi /\ room = Delays!Lines(e)[k].room /\ hi <= room
  BY LineFacts
<1>3. PICK x \in Nat, y \in Nat : x = hi * r /\ y = room * r /\ x <= y
  BY <1>1, <1>2
<1>4. p.whole \in 0 .. x \div 100000
  BY <1>2, <1>3 DEF Delays!Places
<1>5. Delays!Size(e, r, Delays!Lines(e)[k]) = y \div 100000 + 4
  BY <1>2, <1>3 DEF Delays!Size
<1>6. x \div 100000 <= y \div 100000
  BY <1>3
<1> QED
  BY <1>4, <1>5, <1>6

(* What is in a line *)

Cell == [age : Int, sound : SUBSET {"now"}]
\* How long ago cell i was written, if ever.
AgeAt(line, i) == IF i < line.idx THEN line.idx - 1 - i ELSE line.idx - 1 - i + line.size
LineOK(line, size, n) ==
  /\ line.size = size /\ line.idx \in 0 .. size - 1 /\ line.cells \in [0 .. size - 1 -> Cell]
  /\ \A i \in 0 .. size - 1 :
       IF AgeAt(line, i) < n THEN line.cells[i].age = AgeAt(line, i) ELSE line.cells[i] = Delays!Empty

\* Modulo the size is at most one wrap.
LEMMA Wraps ==
  ASSUME NEW n \in Nat, n > 0, NEW x \in Int
  PROVE  /\ x \in 0 .. n - 1 => x % n = x
         /\ x \in -n .. -1 => x % n = x + n
         /\ x = n => x % n = 0
<1> USE SMTT(30)
<1> QED
  OBVIOUS

LEMMA ClearedIsOK ==
  ASSUME NEW size \in Nat \ {0}
  PROVE  LineOK(Delays!Cleared(size), size, 0)
<1>1. Delays!Empty \in Cell
  BY DEF Delays!Empty, Cell
<1>2. /\ Delays!Cleared(size).size = size /\ Delays!Cleared(size).idx = 0
      /\ Delays!Cleared(size).cells = [i \in 0 .. size - 1 |-> Delays!Empty]
  BY DEF Delays!Cleared
<1>3. ASSUME NEW i \in 0 .. size - 1 PROVE ~(AgeAt(Delays!Cleared(size), i) < 0)
  BY <1>2 DEF AgeAt
<1> QED
  BY <1>1, <1>2, <1>3 DEF LineOK

LEMMA OlderIs ==
  ASSUME NEW size \in Nat, NEW cells \in [0 .. size - 1 -> Cell]
  PROVE  /\ Delays!Older(cells) \in [0 .. size - 1 -> Cell]
         /\ \A i \in 0 .. size - 1 :
              /\ cells[i] = Delays!Empty => Delays!Older(cells)[i] = Delays!Empty
              /\ cells[i].age # -1 => Delays!Older(cells)[i].age = cells[i].age + 1
              /\ Delays!Older(cells)[i].sound \subseteq {"now"}
<1>1. ASSUME NEW i \in 0 .. size - 1
      PROVE  /\ Delays!Older(cells)[i] \in Cell
             /\ cells[i] = Delays!Empty => Delays!Older(cells)[i] = Delays!Empty
             /\ cells[i].age # -1 => Delays!Older(cells)[i].age = cells[i].age + 1
  <2>1. cells[i] \in Cell /\ Delays!Older(cells)[i] =
          IF cells[i].age = -1 THEN Delays!Empty ELSE [cells[i] EXCEPT !.age = @ + 1]
    BY DEF Delays!Older
  <2> QED
    BY <2>1 DEF Cell, Delays!Empty
<1>2. Delays!Older(cells) = [i \in 0 .. size - 1 |-> Delays!Older(cells)[i]]
  BY DEF Delays!Older
<1>3. \A i \in 0 .. size - 1 : Delays!Older(cells)[i].sound \subseteq {"now"}
  BY <1>1 DEF Cell
<1> QED
  BY <1>1, <1>2, <1>3

\* Writing ages every cell and puts the newest where the oldest was.
LEMMA WrittenIsOK ==
  ASSUME NEW size \in Nat \ {0}, NEW n \in Nat, NEW line, LineOK(line, size, n),
         NEW sound \in SUBSET {"now"}, NEW m \in Nat, m = n + 1 \/ (m = n /\ n > size)
  PROVE  LineOK(Delays!Written(line, sound), size, m)
<1> DEFINE after == Delays!Written(line, sound)
           new == [age |-> 0, sound |-> sound]
<1>1. PICK idx \in 0 .. size - 1 : idx = line.idx /\ line.size = size
  BY DEF LineOK
<1>2. line.cells \in [0 .. size - 1 -> Cell]
  BY DEF LineOK
<1>3. new \in Cell /\ new.age = 0
  BY DEF Cell
<1> HIDE DEF new
<1>4. PICK following \in 0 .. size - 1 :
        /\ following = (idx + 1) % size
        /\ following = IF idx + 1 = size THEN 0 ELSE idx + 1
  <2>1. CASE idx + 1 = size
    <3>1. (idx + 1) % size = 0
      BY <2>1, Wraps
    <3> QED
      BY <2>1, <3>1
  <2>2. CASE idx + 1 # size
    <3>1. idx + 1 \in 0 .. size - 1
      BY <2>2
    <3>2. (idx + 1) % size = idx + 1
      BY <3>1, Wraps
    <3> QED
      BY <2>2, <3>1, <3>2
  <2> QED
    BY <2>1, <2>2
<1>5. /\ after.size = size /\ after.idx = following
      /\ after.cells = [Delays!Older(line.cells) EXCEPT ![idx] = new]
  BY <1>1, <1>4 DEF Delays!Written, new
<1>6. /\ after.cells \in [0 .. size - 1 -> Cell] /\ after.cells[idx] = new
      /\ \A i \in 0 .. size - 1 : i # idx => after.cells[i] = Delays!Older(line.cells)[i]
  BY <1>2, <1>3, <1>5, OlderIs
<1> HIDE DEF after
<1>7. ASSUME NEW i \in 0 .. size - 1
      PROVE  IF AgeAt(after, i) < m THEN after.cells[i].age = AgeAt(after, i)
             ELSE after.cells[i] = Delays!Empty
  <2>1. CASE i = idx
    <3>1. AgeAt(after, i) = 0
      BY <1>4, <1>5, <2>1 DEF AgeAt
    <3> QED
      BY <1>3, <1>6, <2>1, <3>1
  <2>2. CASE i # idx
    <3> DEFINE was == IF i < idx THEN idx - 1 - i ELSE idx - 1 - i + size
               becomes == IF i < following THEN following - 1 - i
                          ELSE following - 1 - i + size
    <3>a. following = IF idx + 1 = size THEN 0 ELSE idx + 1
      BY <1>4
    <3>b. was \in Nat /\ becomes = was + 1 /\ was + 1 < size
      BY <2>2, <3>a
    <3>c. was = AgeAt(line, i) /\ becomes = AgeAt(after, i)
      BY <1>1, <1>5 DEF AgeAt
    <3> HIDE DEF was, becomes
    <3>1. PICK a \in Nat : a = AgeAt(line, i) /\ AgeAt(after, i) = a + 1 /\ a + 1 < size
      BY <3>b, <3>c
    <3>2. IF a < n THEN line.cells[i].age = a ELSE line.cells[i] = Delays!Empty
      BY <3>1 DEF LineOK
    <3>3. a < n <=> a + 1 < m
      BY <3>1
    <3>4. after.cells[i] = Delays!Older(line.cells)[i]
      BY <1>6, <2>2
    <3>5. CASE a < n
      <4>1. line.cells[i].age = a /\ a # -1
        BY <3>2, <3>5, <3>1
      <4>2. Delays!Older(line.cells)[i].age = a + 1
        BY <1>2, <4>1, OlderIs
      <4> QED
        BY <3>1, <3>3, <3>4, <3>5, <4>2
    <3>6. CASE ~(a < n)
      <4>1. Delays!Older(line.cells)[i] = Delays!Empty
        BY <1>2, <3>2, <3>6, OlderIs
      <4> QED
        BY <3>1, <3>3, <3>4, <3>6, <4>1
    <3> QED
      BY <3>5, <3>6
  <2> QED
    BY <2>1, <2>2
<1>8. LineOK(after, size, m)
  BY <1>4, <1>5, <1>6, <1>7 DEF LineOK
<1> QED
  BY <1>8 DEF after

(* What is read *)

\* What age a is asked of, of an age the line holds.
LEMMA AskedIs ==
  ASSUME NEW size \in Nat \ {0}, NEW n \in Nat, NEW line, LineOK(line, size, n),
         NEW asked \in 0 .. size - 1,
         NEW cell, cell = line.cells[(line.idx - 1 - asked) % line.size]
  PROVE  /\ cell \in Cell
         /\ IF asked < n THEN cell.age = asked ELSE cell = Delays!Empty
<1>1. PICK idx \in 0 .. size - 1 : idx = line.idx /\ line.size = size
  BY DEF LineOK
<1>2. PICK i \in 0 .. size - 1 : i = (idx - 1 - asked) % size
                                 /\ i = IF asked < idx THEN idx - 1 - asked
                                        ELSE idx - 1 - asked + size
  <2>1. PICK x \in Int : x = idx - 1 - asked
    OBVIOUS
  <2>2. CASE asked < idx
    <3>1. x \in 0 .. size - 1
      BY <2>1, <2>2
    <3>2. x % size = x
      BY <3>1, Wraps
    <3> QED
      BY <2>1, <2>2, <3>1, <3>2
  <2>3. CASE ~(asked < idx)
    <3>1. x \in -size .. -1 /\ x + size \in 0 .. size - 1
      BY <2>1, <2>3
    <3>2. x % size = x + size
      BY <3>1, Wraps
    <3> QED
      BY <2>1, <2>3, <3>1, <3>2
  <2> QED
    BY <2>2, <2>3
<1>3. AgeAt(line, i) = asked
  BY <1>1, <1>2 DEF AgeAt
<1>4. cell = line.cells[i]
  BY <1>1, <1>2
<1> QED
  BY <1>3, <1>4 DEF LineOK

ExactRead(tapped, n) ==
  /\ tapped.cell \in Cell
  /\ IF tapped.asked < n THEN tapped.cell.age = tapped.asked ELSE tapped.cell = Delays!Empty

LEMMA TapIsExact ==
  ASSUME NEW e \in Effects, NEW r \in SampleRates, NEW k \in DOMAIN Delays!Lines(e), ~Delays!Hall(e),
         NEW p \in Delays!Places(Delays!Lines(e)[k], r), NEW n \in Nat, NEW line,
         LineOK(line, Delays!Size(e, r, Delays!Lines(e)[k]), n),
         NEW tapped \in Delays!Tap(line, p)
  PROVE  ExactRead(tapped, n)
<1>1. PICK size \in Nat \ {0} : size = Delays!Size(e, r, Delays!Lines(e)[k])
  BY SizeFacts
<1>2. p.whole \in 0 .. size - 1 /\ p.whole + 1 \in 0 .. size - 1
  BY <1>1, PlacesFit
<1>3. PICK asked \in {p.whole, p.whole + 1} :
        tapped = [asked |-> asked, cell |-> line.cells[(line.idx - 1 - asked) % line.size]]
  BY DEF Delays!Tap
<1>4. asked \in 0 .. size - 1
  BY <1>2, <1>3
<1>5. LineOK(line, size, n)
  BY <1>1
<1>6. PICK cell : cell = line.cells[(line.idx - 1 - asked) % line.size]
  OBVIOUS
<1>7. cell \in Cell /\ IF asked < n THEN cell.age = asked ELSE cell = Delays!Empty
  BY <1>4, <1>5, <1>6, AskedIs
<1>8. tapped.asked = asked /\ tapped.cell = cell
  BY <1>3, <1>6
<1> QED
  BY <1>7, <1>8 DEF ExactRead

\* The cell that a comb reads before it is overwritten was written `size' samples ago.
LEMMA OldestIsExact ==
  ASSUME NEW size \in Nat \ {0}, NEW n \in Nat, NEW line, LineOK(line, size, n),
         NEW m \in Nat, m = n + 1 \/ (m = n /\ n > size)
  PROVE  ExactRead(Delays!Oldest(line), m) /\ line.cells[line.idx].sound \subseteq {"now"}
<1>1. PICK idx \in 0 .. size - 1 : idx = line.idx /\ line.size = size
  BY DEF LineOK
<1>2. AgeAt(line, idx) = size - 1
  BY <1>1 DEF AgeAt
<1>3. line.cells \in [0 .. size - 1 -> Cell]
  BY DEF LineOK
<1>4. IF size - 1 < n THEN line.cells[idx].age = size - 1 ELSE line.cells[idx] = Delays!Empty
  BY <1>2 DEF LineOK
<1>5. size - 1 < n <=> size < m
  OBVIOUS
<1>6. Delays!Oldest(line).asked = size /\ Delays!Oldest(line).cell = Delays!Older(line.cells)[idx]
  BY <1>1 DEF Delays!Oldest
<1>7. Delays!Older(line.cells)[idx] \in Cell
  BY <1>3, OlderIs
<1>8. CASE size < m
  <2>1. line.cells[idx].age = size - 1 /\ size - 1 # -1
    BY <1>4, <1>5, <1>8
  <2>2. Delays!Older(line.cells)[idx].age = size
    BY <1>3, <2>1, OlderIs
  <2>3. ExactRead(Delays!Oldest(line), m)
    BY <1>6, <1>7, <1>8, <2>2 DEF ExactRead
  <2> QED
    BY <1>1, <1>3, <2>3 DEF Cell
<1>9. CASE ~(size < m)
  <2>1. Delays!Older(line.cells)[idx] = Delays!Empty
    BY <1>3, <1>4, <1>5, <1>9, OlderIs
  <2>2. ExactRead(Delays!Oldest(line), m)
    BY <1>6, <1>7, <1>9, <2>1 DEF ExactRead
  <2> QED
    BY <1>1, <1>3, <2>2 DEF Cell
<1> QED
  BY <1>8, <1>9

(* The invariant *)

LinesOK ==
  /\ DOMAIN lines = DOMAIN Delays!Lines(effect) /\ DOMAIN loop = DOMAIN Delays!Lines(effect)
  /\ \A k \in DOMAIN Delays!Lines(effect) :
       LineOK(lines[k], Delays!Size(effect, rate, Delays!Lines(effect)[k]), played) /\ loop[k] \subseteq {"now"}
HeardOK == \A tapped \in heard : ExactRead(tapped, played)
DelayInv ==
  /\ effect \in Effects /\ rate \in SampleRates
  /\ played \in Nat /\ (~prepared => played = 0)
  /\ LinesOK /\ HeardOK

\* All lines of a prepared effect are empty.
LEMMA FreshLines ==
  ASSUME NEW e \in Effects, NEW r \in SampleRates, NEW k \in DOMAIN Delays!Lines(e)
  PROVE  /\ DOMAIN Delays!LinesOf(e, r) = DOMAIN Delays!Lines(e) /\ DOMAIN Delays!Quiet(e) = DOMAIN Delays!Lines(e)
         /\ LineOK(Delays!LinesOf(e, r)[k], Delays!Size(e, r, Delays!Lines(e)[k]), 0)
         /\ Delays!Quiet(e)[k] \subseteq {"now"}
<1>1. Delays!LinesOf(e, r)[k] = Delays!Cleared(Delays!Size(e, r, Delays!Lines(e)[k])) /\ DOMAIN Delays!LinesOf(e, r) = DOMAIN Delays!Lines(e)
  BY DEF Delays!LinesOf
<1>2. LineOK(Delays!Cleared(Delays!Size(e, r, Delays!Lines(e)[k])), Delays!Size(e, r, Delays!Lines(e)[k]), 0)
  BY SizeFacts, ClearedIsOK
<1> QED
  BY <1>1, <1>2 DEF Delays!Quiet

LEMMA DelayStarts == Delays!Init => DelayInv
<1> SUFFICES ASSUME Delays!Init PROVE DelayInv
  OBVIOUS
<1>1. effect \in Effects /\ rate \in SampleRates /\ played = 0 /\ heard = {}
      /\ lines = Delays!LinesOf(effect, rate) /\ loop = Delays!Quiet(effect)
  BY DEF Delays!Init
<1>2. LinesOK
  BY <1>1, FreshLines DEF LinesOK, Delays!LinesOf, Delays!Quiet
<1> QED
  BY <1>1, <1>2 DEF DelayInv, HeardOK

LEMMA PreparedLines ==
  ASSUME DelayInv, NEW r \in SampleRates, Delays!Prepare(r)
  PROVE  DelayInv'
<1>1. effect' \in Effects /\ rate' \in SampleRates /\ rate' = r /\ effect' = effect
  BY DEF DelayInv, Delays!Prepare
<1>2. played' = 0 /\ heard' = {} /\ lines' = Delays!LinesOf(effect', rate') /\ loop' = Delays!Quiet(effect')
  BY <1>1 DEF Delays!Prepare
<1>3. LinesOK'
  BY <1>1, <1>2, FreshLines DEF LinesOK, Delays!LinesOf, Delays!Quiet
<1> QED
  BY <1>1, <1>2, <1>3 DEF DelayInv, HeardOK

LEMMA ForgottenLines ==
  ASSUME DelayInv, Delays!Reset
  PROVE  DelayInv'
<1>1. effect \in Effects /\ rate \in SampleRates /\ LinesOK
  BY DEF DelayInv
<1>2. effect' = effect /\ rate' = rate /\ played' = 0 /\ heard' = {}
      /\ lines' = [k \in DOMAIN lines |-> Delays!Cleared(lines[k].size)]
      /\ loop' = [k \in DOMAIN lines |-> {}]
  BY DEF Delays!Reset
<1>3. ASSUME NEW k \in DOMAIN Delays!Lines(effect)
      PROVE  LineOK(lines'[k], Delays!Size(effect, rate, Delays!Lines(effect)[k]), 0)
  <2>1. lines[k].size = Delays!Size(effect, rate, Delays!Lines(effect)[k])
    BY <1>1, <1>3 DEF LinesOK, LineOK
  <2>2. lines'[k] = Delays!Cleared(Delays!Size(effect, rate, Delays!Lines(effect)[k]))
    BY <1>1, <1>2, <1>3, <2>1 DEF LinesOK
  <2> QED
    BY <1>1, <1>3, <2>2, SizeFacts, ClearedIsOK
<1>4. LinesOK'
  BY <1>1, <1>2, <1>3 DEF LinesOK
<1> QED
  BY <1>1, <1>2, <1>4 DEF DelayInv, HeardOK

\* Until all lines are full, the samples are counted.
LEMMA CountIs ==
  ASSUME DelayInv, prepared, Delays!Process
  PROVE  /\ played' \in Nat
         /\ \A k \in DOMAIN Delays!Lines(effect) :
              played' = played + 1
              \/ (played' = played /\ played > Delays!Size(effect, rate, Delays!Lines(effect)[k]))
<1>1. played \in Nat /\ effect \in Effects /\ rate \in SampleRates /\ LinesOK
  BY DEF DelayInv
<1>2. played' = IF \E k \in DOMAIN lines : played <= lines[k].size THEN played + 1 ELSE played
  BY DEF Delays!Process
<1>3. ASSUME NEW k \in DOMAIN Delays!Lines(effect), ~(\E j \in DOMAIN lines : played <= lines[j].size)
      PROVE  played > Delays!Size(effect, rate, Delays!Lines(effect)[k])
  <2>1. k \in DOMAIN lines /\ lines[k].size = Delays!Size(effect, rate, Delays!Lines(effect)[k])
    BY <1>1, <1>3 DEF LinesOK, LineOK
  <2>2. PICK size \in Nat : size = Delays!Size(effect, rate, Delays!Lines(effect)[k])
    BY <1>1, <1>3, SizeFacts
  <2>3. ~(played <= size)
    BY <1>3, <2>1, <2>2
  <2> QED
    BY <1>1, <2>2, <2>3
<1>4. CASE \E k \in DOMAIN lines : played <= lines[k].size
  BY <1>1, <1>2, <1>4
<1>5. CASE ~\E k \in DOMAIN lines : played <= lines[k].size
  BY <1>1, <1>2, <1>3, <1>5
<1> QED
  BY <1>4, <1>5

\* A sample through a line keeps the line, whatever of now is written.
LEMMA LineKept ==
  ASSUME DelayInv, prepared, Delays!Process, NEW k \in DOMAIN Delays!Lines(effect),
         NEW sound \in SUBSET {"now"}
  PROVE  LineOK(Delays!Written(lines[k], sound), Delays!Size(effect, rate, Delays!Lines(effect)[k]), played')
<1>1. effect \in Effects /\ rate \in SampleRates /\ played \in Nat
      /\ LineOK(lines[k], Delays!Size(effect, rate, Delays!Lines(effect)[k]), played)
  BY DEF DelayInv, LinesOK
<1>2. PICK size \in Nat \ {0} : size = Delays!Size(effect, rate, Delays!Lines(effect)[k])
  BY <1>1, SizeFacts
<1>3. played' \in Nat /\ (played' = played + 1 \/ (played' = played /\ played > size))
  BY <1>2, CountIs
<1> QED
  BY <1>1, <1>2, <1>3, WrittenIsOK

LEMMA DelayKeeps ==
  ASSUME DelayInv, prepared, Delays!Process, ~Delays!Hall(effect),
         NEW fedBack \in BOOLEAN, Delays!DelaySample(fedBack)
  PROVE  DelayInv'
<1>1. effect \in Effects /\ rate \in SampleRates /\ LinesOK /\ effect' = effect /\ rate' = rate
      /\ DOMAIN lines = DOMAIN Delays!Lines(effect) /\ prepared' = prepared
  BY DEF DelayInv, Delays!Process, LinesOK
<1>2. PICK positions :
        /\ \A k \in DOMAIN lines : positions[k] \in Delays!Places(Delays!Lines(effect)[k], rate)
        /\ lines' = [k \in DOMAIN lines |->
             Delays!Written(lines[k], {"now"} \cup IF fedBack THEN loop[k] ELSE {})]
        /\ heard' = UNION {Delays!Tap(lines'[k], positions[k]) : k \in DOMAIN lines}
        /\ loop' = [k \in DOMAIN lines |->
             IF fedBack THEN loop[k] \cup Delays!SoundOf(Delays!Tap(lines'[k], positions[k])) ELSE {}]
  BY DEF Delays!DelaySample
<1>3. played' \in Nat
  BY CountIs
<1>4. ASSUME NEW k \in DOMAIN Delays!Lines(effect)
      PROVE  /\ LineOK(lines'[k], Delays!Size(effect, rate, Delays!Lines(effect)[k]), played')
             /\ \A tapped \in Delays!Tap(lines'[k], positions[k]) : ExactRead(tapped, played')
  <2>1. PICK sound \in SUBSET {"now"} : lines'[k] = Delays!Written(lines[k], sound)
    <3>1. {"now"} \cup (IF fedBack THEN loop[k] ELSE {}) \in SUBSET {"now"}
      BY <1>1, <1>4 DEF LinesOK
    <3> QED
      BY <1>1, <1>2, <1>4, <3>1
  <2>2. LineOK(lines'[k], Delays!Size(effect, rate, Delays!Lines(effect)[k]), played')
    BY <1>4, <2>1, LineKept
  <2>3. positions[k] \in Delays!Places(Delays!Lines(effect)[k], rate)
    BY <1>1, <1>2, <1>4
  <2>4. ASSUME NEW tapped \in Delays!Tap(lines'[k], positions[k]) PROVE ExactRead(tapped, played')
    BY <1>1, <1>3, <1>4, <2>2, <2>3, <2>4, TapIsExact
  <2> QED
    BY <2>2, <2>4
<1>5. ASSUME NEW k \in DOMAIN Delays!Lines(effect) PROVE loop'[k] \subseteq {"now"}
  <2>1. Delays!SoundOf(Delays!Tap(lines'[k], positions[k])) \subseteq {"now"}
    BY <1>4, <1>5 DEF Delays!SoundOf, ExactRead, Cell
  <2>2. loop[k] \subseteq {"now"}
    BY <1>1, <1>5 DEF LinesOK
  <2>3. loop'[k] = IF fedBack THEN loop[k] \cup Delays!SoundOf(Delays!Tap(lines'[k], positions[k])) ELSE {}
    BY <1>1, <1>2, <1>5
  <2> QED
    BY <2>1, <2>2, <2>3
<1>6. DOMAIN lines' = DOMAIN Delays!Lines(effect) /\ DOMAIN loop' = DOMAIN Delays!Lines(effect)
  BY <1>1, <1>2
<1>7. LinesOK'
  BY <1>1, <1>4, <1>5, <1>6 DEF LinesOK
<1>8. HeardOK'
  BY <1>1, <1>2, <1>4 DEF HeardOK
<1> QED
  BY <1>1, <1>3, <1>7, <1>8 DEF DelayInv

LEMMA HallKeeps ==
  ASSUME DelayInv, prepared, Delays!Process, Delays!HallSample
  PROVE  DelayInv'
<1>1. effect \in Effects /\ rate \in SampleRates /\ LinesOK /\ effect' = effect /\ rate' = rate
      /\ DOMAIN lines = DOMAIN Delays!Lines(effect) /\ prepared' = prepared /\ played \in Nat
  BY DEF DelayInv, Delays!Process, LinesOK
<1>2. played' \in Nat
  BY CountIs
<1>3. ASSUME NEW k \in DOMAIN Delays!Lines(effect)
      PROVE  /\ ExactRead(Delays!Oldest(lines[k]), played')
             /\ lines[k].cells[lines[k].idx].sound \subseteq {"now"}
             /\ loop[k] \subseteq {"now"}
  <2>1. PICK size \in Nat \ {0} : size = Delays!Size(effect, rate, Delays!Lines(effect)[k])
    BY <1>1, <1>3, SizeFacts
  <2>2. LineOK(lines[k], size, played)
    BY <1>1, <1>3, <2>1 DEF LinesOK
  <2>3. played' = played + 1 \/ (played' = played /\ played > size)
    BY <1>3, <2>1, CountIs
  <2>4. loop[k] \subseteq {"now"}
    BY <1>1, <1>3 DEF LinesOK
  <2> QED
    BY <1>1, <1>2, <2>1, <2>2, <2>3, <2>4, OldestIsExact
<1> DEFINE through(k) ==
      IF k <= Len(Delays!Comb) THEN {"now"} \cup loop[k] \cup lines[k].cells[lines[k].idx].sound
      ELSE UNION {lines[j].cells[lines[j].idx].sound : j \in 1 .. k}
<1>4. ASSUME NEW k \in DOMAIN Delays!Lines(effect) PROVE through(k) \subseteq {"now"}
  <2>1. 1 .. k \subseteq DOMAIN Delays!Lines(effect)
    <3>1. Delays!Lines(effect) = Delays!Comb \o Delays!Allpass
      BY <1>1, DelayFacts DEF Delays!HallSample, Delays!Hall, Delays!Lines
    <3>2. Delays!Comb \in Seq(Nat) /\ Delays!Allpass \in Seq(Nat)
      BY DEF Delays!Comb, Delays!Allpass
    <3>3. Delays!Lines(effect) \in Seq(Nat)
      BY <3>1, <3>2
    <3> QED
      BY <1>4, <3>3
  <2> QED
    BY <1>3, <1>4, <2>1
<1> HIDE DEF through
<1>5. /\ lines' = [k \in DOMAIN lines |-> Delays!Written(lines[k], through(k))]
      /\ heard' = {Delays!Oldest(lines[k]) : k \in DOMAIN lines}
      /\ loop' = [k \in DOMAIN lines |->
           IF k <= Len(Delays!Comb) THEN loop[k] \cup lines[k].cells[lines[k].idx].sound ELSE {}]
  BY DEF Delays!HallSample, through
<1>6. ASSUME NEW k \in DOMAIN Delays!Lines(effect)
      PROVE  /\ LineOK(lines'[k], Delays!Size(effect, rate, Delays!Lines(effect)[k]), played')
             /\ loop'[k] \subseteq {"now"}
  <2>1. LineOK(Delays!Written(lines[k], through(k)), Delays!Size(effect, rate, Delays!Lines(effect)[k]), played')
    BY <1>4, <1>6, LineKept
  <2> QED
    BY <1>1, <1>3, <1>5, <1>6, <2>1
<1>7. DOMAIN lines' = DOMAIN Delays!Lines(effect) /\ DOMAIN loop' = DOMAIN Delays!Lines(effect)
  BY <1>1, <1>5
<1>8. LinesOK'
  BY <1>1, <1>6, <1>7 DEF LinesOK
<1>9. HeardOK'
  BY <1>1, <1>3, <1>5 DEF HeardOK
<1> QED
  BY <1>1, <1>2, <1>8, <1>9 DEF DelayInv

LEMMA SampleKeeps ==
  ASSUME DelayInv, Delays!Process
  PROVE  DelayInv'
<1>1. CASE ~prepared
  <2>1. played = 0 /\ played' = 0 /\ heard' = {} /\ UNCHANGED <<effect, rate, prepared, lines, loop>>
    BY <1>1 DEF DelayInv, Delays!Process
  <2> QED
    BY <2>1 DEF DelayInv, LinesOK, HeardOK
<1>2. CASE prepared
  <2>1. Delays!TapeSample \/ Delays!Dm2Sample \/ Delays!ChorusSample \/ Delays!FlangerSample \/ Delays!SpringSample \/ Delays!HallSample
    BY <1>2 DEF Delays!Process
  <2>2. CASE Delays!HallSample
    BY <1>2, <2>2, HallKeeps
  <2>3. ASSUME Delays!TapeSample \/ Delays!Dm2Sample \/ Delays!ChorusSample \/ Delays!FlangerSample \/ Delays!SpringSample
        PROVE  DelayInv'
    <3>1. ~Delays!Hall(effect) /\ (\E fedBack \in BOOLEAN : Delays!DelaySample(fedBack))
      BY <2>3 DEF Delays!TapeSample, Delays!Dm2Sample, Delays!ChorusSample, Delays!FlangerSample, Delays!SpringSample, Delays!Hall
    <3> QED
      BY <1>2, <3>1, DelayKeeps
  <2> QED
    BY <2>1, <2>2, <2>3
<1> QED
  BY <1>1, <1>2

LEMMA DelayNextKeeps ==
  ASSUME DelayInv, [Delays!Next]_(Delays!vars)
  PROVE  DelayInv'
<1>1. CASE Delays!Process
  BY <1>1, SampleKeeps
<1>2. CASE Delays!Reset
  BY <1>2, ForgottenLines
<1>3. CASE \E r \in SampleRates : Delays!Prepare(r)
  BY <1>3, PreparedLines
<1>4. CASE UNCHANGED Delays!vars
  BY <1>4 DEF Delays!vars, DelayInv, LinesOK, HeardOK
<1> QED
  BY <1>1, <1>2, <1>3, <1>4 DEF Delays!Next

\* However the delay is swept, each read is of the age that is asked for, and
\* nothing from before a reset is left anywhere.
THEOREM DelaysStayExact == Delays!Spec => [](Delays!TapsAreExact /\ Delays!ResetForgets)
<1>1. Delays!Spec => []DelayInv
  BY DelayStarts, DelayNextKeeps, PTL DEF Delays!Spec
<1>2. ASSUME DelayInv PROVE Delays!TapsAreExact
  BY <1>2 DEF DelayInv, HeardOK, ExactRead, Delays!TapsAreExact
<1>3. ASSUME DelayInv PROVE Delays!ResetForgets
  <2>1. ASSUME NEW k \in DOMAIN lines
        PROVE  "before" \notin loop[k] \cup UNION {lines[k].cells[i].sound : i \in DOMAIN lines[k].cells}
    <3>1. loop[k] \subseteq {"now"} /\ LineOK(lines[k], Delays!Size(effect, rate, Delays!Lines(effect)[k]), played)
      BY <1>3, <2>1 DEF DelayInv, LinesOK
    <3>2. ASSUME NEW i \in DOMAIN lines[k].cells PROVE lines[k].cells[i].sound \subseteq {"now"}
      BY <3>1, <3>2 DEF LineOK, Cell
    <3> QED
      BY <3>1, <3>2
  <2> QED
    BY <2>1 DEF Delays!ResetForgets
<1> QED
  BY <1>1, <1>2, <1>3, PTL

\* What the run asks of the delays and the hall (FractionalDelay::process, reset).
COROLLARY DelaysReadWhatIsAsked == Delays!Spec => []DelaysAreExact
<1>1. Delays!TapsAreExact /\ Delays!ResetForgets => DelaysAreExact
  BY DEF DelaysAreExact
<1> QED
  BY <1>1, DelaysStayExact, PartsAssumption, PTL

-----------------------------------------------------------------------------
(****************************************************************************)
(* CabIr: the convolution is exact, and a recording is taken whole or not. *)
(****************************************************************************)
LEMMA CabFacts == Cab!CabAssumption
BY PartsAssumption

(* Bags of products *)

\* The products of a response from a tap on, for one sample.
Pending(taps, s, first) == Cab!SetToBag({<<k, s - k>> : k \in {k \in first .. taps - 1 : s - k >= 0}})
Exact(taps, s) == Pending(taps, s, 0)

Plus(bag, other) == Cab!(+)(bag, other)

LEMMA BagSum ==
  ASSUME NEW S, NEW T, S \cap T = {}
  PROVE  Plus(Cab!SetToBag(S), Cab!SetToBag(T)) = Cab!SetToBag(S \cup T)
BY DEF Plus, Cab!SetToBag, Cab!(+)

LEMMA NothingPending ==
  ASSUME NEW taps \in Int, NEW s \in Int, NEW first \in Int, first >= taps
  PROVE  Pending(taps, s, first) = Cab!EmptyBag
<1>1. {k \in first .. taps - 1 : s - k >= 0} = {}
  OBVIOUS
<1>2. {<<k, s - k>> : k \in {k \in first .. taps - 1 : s - k >= 0}} = {}
  BY <1>1
<1> QED
  BY <1>2 DEF Pending, Cab!EmptyBag

LEMMA NothingYet ==
  ASSUME NEW taps \in Int, NEW s \in Int, s < 0
  PROVE  Exact(taps, s) = Cab!EmptyBag
<1>1. {k \in 0 .. taps - 1 : s - k >= 0} = {}
  OBVIOUS
<1>2. {<<k, s - k>> : k \in {k \in 0 .. taps - 1 : s - k >= 0}} = {}
  BY <1>1
<1> QED
  BY <1>2 DEF Exact, Pending, Cab!EmptyBag

(* The short response *)

\* How long ago the element i of the buffer was written.
AgeOf(d, taps, i) == IF i < d.pos THEN d.pos - 1 - i ELSE d.pos - 1 - i + taps
DirectOK(taps, d, n) ==
  /\ d.pos \in 0 .. taps - 1 /\ d.buf \in [0 .. taps - 1 -> Int]
  /\ \A i \in 0 .. taps - 1 :
       d.buf[i] = IF AgeOf(d, taps, i) < n THEN n - 1 - AgeOf(d, taps, i) ELSE Cab!Silence

LEMMA DirectStarts ==
  ASSUME NEW taps \in Nat \ {0}
  PROVE  DirectOK(taps, Cab!Direct(taps), 0)
<1>1. Cab!Direct(taps).pos = 0 /\ Cab!Direct(taps).buf = [i \in 0 .. taps - 1 |-> Cab!Silence]
  BY DEF Cab!Direct
<1>2. Cab!Silence \in Int
  BY DEF Cab!Silence
<1>3. ASSUME NEW i \in 0 .. taps - 1 PROVE ~(AgeOf(Cab!Direct(taps), taps, i) < 0)
  BY <1>1 DEF AgeOf
<1> QED
  BY <1>1, <1>2, <1>3 DEF DirectOK

\* A step writes the newest sample where the oldest was and multiplies each tap with
\* the sample as old as its place.
LEMMA DirectGoesOn ==
  ASSUME NEW taps \in Nat \ {0}, NEW n \in Nat, NEW d, DirectOK(taps, d, n)
  PROVE  /\ DirectOK(taps, Cab!DirectStep(taps, d, n).conv, n + 1)
         /\ Cab!DirectStep(taps, d, n).out = Exact(taps, n)
<1> DEFINE after == Cab!DirectStep(taps, d, n).conv
<1>1. PICK old \in 0 .. taps - 1 : old = d.pos
  BY DEF DirectOK
<1>2. d.buf \in [0 .. taps - 1 -> Int]
  BY DEF DirectOK
<1>3. PICK pos \in 0 .. taps - 1 :
        /\ pos = (old + 1) % taps
        /\ pos = IF old + 1 = taps THEN 0 ELSE old + 1
  <2>1. CASE old + 1 = taps
    <3>1. (old + 1) % taps = 0
      BY <2>1, Wraps
    <3> QED
      BY <2>1, <3>1
  <2>2. CASE old + 1 # taps
    <3>1. old + 1 \in 0 .. taps - 1
      BY <2>2
    <3>2. (old + 1) % taps = old + 1
      BY <3>1, Wraps
    <3> QED
      BY <2>2, <3>1, <3>2
  <2> QED
    BY <2>1, <2>2
<1>4. PICK buf : buf = [d.buf EXCEPT ![old] = n]
  OBVIOUS
<1>5. /\ buf \in [0 .. taps - 1 -> Int] /\ buf[old] = n
      /\ \A i \in 0 .. taps - 1 : i # old => buf[i] = d.buf[i]
  BY <1>2, <1>4
<1>6. /\ after.pos = pos /\ after.buf = buf
      /\ Cab!DirectStep(taps, d, n).out
           = Cab!Products({<<k, buf[(pos - 1 - k) % taps]>> : k \in 0 .. taps - 1})
  BY <1>1, <1>3, <1>4 DEF Cab!DirectStep
<1> HIDE DEF after
<1>7. ASSUME NEW i \in 0 .. taps - 1
      PROVE  /\ AgeOf(after, taps, i) \in 0 .. taps - 1
             /\ buf[i] = IF AgeOf(after, taps, i) < n + 1 THEN n - AgeOf(after, taps, i)
                         ELSE Cab!Silence
  <2>1. CASE i = old
    <3>1. AgeOf(after, taps, i) = 0
      BY <1>3, <1>6, <2>1 DEF AgeOf
    <3> QED
      BY <1>5, <2>1, <3>1
  <2>2. CASE i # old
    <3> DEFINE was == IF i < old THEN old - 1 - i ELSE old - 1 - i + taps
               becomes == IF i < pos THEN pos - 1 - i ELSE pos - 1 - i + taps
    <3>1. pos = IF old + 1 = taps THEN 0 ELSE old + 1
      BY <1>3
    <3>2. was \in Nat /\ becomes = was + 1 /\ was + 1 < taps
      BY <2>2, <3>1
    <3>3. was = AgeOf(d, taps, i) /\ becomes = AgeOf(after, taps, i)
      BY <1>1, <1>6 DEF AgeOf
    <3> HIDE DEF was, becomes
    <3>4. d.buf[i] = IF was < n THEN n - 1 - was ELSE Cab!Silence
      BY <3>3 DEF DirectOK
    <3>5. buf[i] = d.buf[i]
      BY <1>5, <2>2
    <3>6. was < n <=> becomes < n + 1
      BY <3>2
    <3>7. n - 1 - was = n - becomes
      BY <3>2
    <3>8. becomes \in 0 .. taps - 1
      BY <3>2
    <3> QED
      BY <3>3, <3>4, <3>5, <3>6, <3>7, <3>8
  <2> QED
    BY <2>1, <2>2
<1>8. DirectOK(taps, after, n + 1)
  <2>1. ASSUME NEW i \in 0 .. taps - 1
        PROVE  after.buf[i] = IF AgeOf(after, taps, i) < n + 1
                              THEN (n + 1) - 1 - AgeOf(after, taps, i) ELSE Cab!Silence
    <3>1. PICK a \in 0 .. taps - 1 : a = AgeOf(after, taps, i)
      BY <1>7, <2>1
    <3>2. buf[i] = IF a < n + 1 THEN n - a ELSE Cab!Silence
      BY <1>7, <2>1, <3>1
    <3>3. (n + 1) - 1 - a = n - a
      OBVIOUS
    <3> QED
      BY <1>6, <3>1, <3>2, <3>3
  <2> QED
    BY <1>5, <1>6, <2>1 DEF DirectOK
<1>9. ASSUME NEW k \in 0 .. taps - 1
      PROVE  buf[(pos - 1 - k) % taps] = IF n - k >= 0 THEN n - k ELSE Cab!Silence
  <2>1. PICK x \in Int : x = pos - 1 - k
    OBVIOUS
  <2>2. PICK i \in 0 .. taps - 1 : i = x % taps /\ AgeOf(after, taps, i) = k
    <3>1. CASE k < pos
      <4>1. x \in 0 .. taps - 1
        BY <2>1, <3>1
      <4>2. x % taps = x
        BY <4>1, Wraps
      <4>3. AgeOf(after, taps, x) = k
        BY <1>6, <2>1, <3>1 DEF AgeOf
      <4> QED
        BY <4>1, <4>2, <4>3
    <3>2. CASE ~(k < pos)
      <4>1. x \in -taps .. -1 /\ x + taps \in 0 .. taps - 1
        BY <2>1, <3>2
      <4>2. x % taps = x + taps
        BY <4>1, Wraps
      <4>3. AgeOf(after, taps, x + taps) = k
        BY <1>6, <2>1, <3>2 DEF AgeOf
      <4> QED
        BY <4>1, <4>2, <4>3
    <3> QED
      BY <3>1, <3>2
  <2>3. buf[i] = IF k < n + 1 THEN n - k ELSE Cab!Silence
    BY <1>7, <2>2
  <2>4. k < n + 1 <=> n - k >= 0
    OBVIOUS
  <2> QED
    BY <2>1, <2>2, <2>3, <2>4
<1> DEFINE pairs == {<<k, buf[(pos - 1 - k) % taps]>> : k \in 0 .. taps - 1}
<1>10. {pair \in pairs : pair[2] # Cab!Silence}
         = {<<k, n - k>> : k \in {k \in 0 .. taps - 1 : n - k >= 0}}
  <2>1. ASSUME NEW k \in 0 .. taps - 1, n - k >= 0
        PROVE  n - k # Cab!Silence /\ buf[(pos - 1 - k) % taps] = n - k
    BY <1>9, <2>1 DEF Cab!Silence
  <2>2. ASSUME NEW k \in 0 .. taps - 1, buf[(pos - 1 - k) % taps] # Cab!Silence
        PROVE  n - k >= 0 /\ buf[(pos - 1 - k) % taps] = n - k
    BY <1>9, <2>2
  <2> QED
    BY <2>1, <2>2
<1>11. Cab!DirectStep(taps, d, n).out = Exact(taps, n)
  BY <1>6, <1>10 DEF Cab!Products, Exact, Pending
<1> QED
  BY <1>8, <1>11 DEF after

(* The long response *)

LEMMA Divided ==
  ASSUME NEW n \in Nat \ {0}, NEW x \in Int
  PROVE  x \div n \in Int /\ x % n \in 0 .. n - 1 /\ x = ((x \div n) * n) + (x % n)
OBVIOUS

LEMMA Multiples ==
  ASSUME NEW n \in Nat \ {0}, NEW t \in Int, NEW u \in Int
  PROVE  /\ t < u => t * n + n <= u * n
         /\ t <= u => t * n <= u * n
<1>1. ASSUME t < u PROVE t * n + n <= u * n
  <2>1. PICK v \in Nat : u = t + 1 + v
    <3>1. u - t - 1 \in Nat /\ u = t + 1 + (u - t - 1)
      BY <1>1
    <3> QED
      BY <3>1
  <2>2. u * n = t * n + n + v * n
    BY <2>1
  <2>3. v * n \in Nat
    BY <2>1
  <2> QED
    BY <2>2, <2>3
<1> QED
  BY <1>1

LEMMA DividedOnce ==
  ASSUME NEW n \in Nat \ {0}, NEW t \in Int, NEW u \in Int,
         NEW r \in 0 .. n - 1, NEW s \in 0 .. n - 1, t * n + r = u * n + s
  PROVE  t = u /\ r = s
<1>1. ~(t < u)
  <2>1. t < u => t * n + n <= u * n
    BY Multiples
  <2>2. t * n + r < t * n + n /\ u * n <= u * n + s
    OBVIOUS
  <2> QED
    BY <2>1, <2>2
<1>2. ~(u < t)
  <2>1. u < t => u * n + n <= t * n
    BY Multiples
  <2>2. u * n + s < u * n + n /\ t * n <= t * n + r
    OBVIOUS
  <2> QED
    BY <2>1, <2>2
<1>3. t = u
  BY <1>1, <1>2
<1> QED
  BY <1>3

LEMMA DivisionIs ==
  ASSUME NEW n \in Nat \ {0}, NEW x \in Int, NEW t \in Int, NEW r \in 0 .. n - 1,
         x = t * n + r
  PROVE  x \div n = t /\ x % n = r
<1>1. PICK u \in Int, s \in 0 .. n - 1 : u = x \div n /\ s = x % n /\ x = u * n + s
  BY Divided
<1>2. u = t /\ s = r
  BY <1>1, DividedOnce
<1> QED
  BY <1>1, <1>2

LEMMA RingSizes ==
  ASSUME NEW taps \in Nat \ {0}
  PROVE  /\ Block \in Nat \ {0} /\ Cab!Parts(taps) \in Nat /\ Cab!Ring(taps) \in Nat \ {0}
         /\ Cab!Parts(taps) * Block >= taps
         /\ Cab!Ring(taps) = Cab!Parts(taps) * Block + 2 * Block
<1>1. Block \in Nat \ {0}
  BY CabFacts DEF Cab!CabAssumption
<1>2. PICK parts \in Int, rest \in 0 .. Block - 1 :
        parts = Cab!Parts(taps) /\ taps + Block - 1 = parts * Block + rest
  BY <1>1, Divided DEF Cab!Parts
<1>3. parts * Block >= taps
  BY <1>1, <1>2
<1>4. parts \in Nat
  <2>1. parts < 0 => parts * Block + Block <= 0 * Block
    BY <1>1, Multiples
  <2> QED
    BY <1>1, <1>3, <2>1
<1>5. Cab!Ring(taps) = (parts + 2) * Block /\ (parts + 2) * Block = parts * Block + 2 * Block
  BY <1>1, <1>2, <1>4 DEF Cab!Ring
<1> QED
  BY <1>1, <1>2, <1>3, <1>4, <1>5

LEMMA RingShape ==
  ASSUME NEW taps \in Nat \ {0}
  PROVE  \E size \in Nat \ {0}, parts \in Nat :
           /\ size = Cab!Ring(taps) /\ Block \in Nat \ {0} /\ size = parts * Block + 2 * Block
           /\ parts * Block \in Nat
<1>1. PICK parts \in Nat : parts = Cab!Parts(taps)
  BY RingSizes
<1>2. PICK blk \in Nat \ {0} : blk = Block
  BY RingSizes
<1>3. 0 * blk <= parts * blk
  BY Multiples
<1>4. parts * blk \in Nat
  BY <1>3
<1>5. parts * Block \in Nat
  BY <1>2, <1>4, Zenon
<1>6. Cab!Ring(taps) = parts * Block + 2 * Block
  BY <1>1, RingSizes, Zenon
<1> QED
  BY <1>5, <1>6, RingSizes, Zenon

\* How far behind the place of block b the place q of the ring is.
BehindBy(taps, b, q) == (q - b * Block) % Cab!Ring(taps)
\* What the ring holds before block b: what is still to come of it is left out.
Waiting(taps, b) ==
  [q \in 0 .. Cab!Ring(taps) - 1 |->
     Pending(taps, b * Block + BehindBy(taps, b, q), ((BehindBy(taps, b, q) \div Block) + 1) * Block)]
\* The samples of the block before and of this one so far.
Filled(seg, b, i) ==
  \A j \in 0 .. Block + i - 1 :
    seg[j] = IF b * Block + j - Block >= 0 THEN b * Block + j - Block ELSE Cab!Silence
Given(taps, b) == [m \in 0 .. Block - 1 |-> Exact(taps, b * Block - Block + m)]
PartOK(taps, c, n) ==
  \E b \in Nat, i \in 0 .. Block - 1, seg \in [0 .. 2 * Block - 1 -> Int] :
    /\ n = b * Block + i /\ Filled(seg, b, i)
    /\ c = [seg |-> seg, inCount |-> i, blockIndex |-> b, ring |-> Waiting(taps, b),
            segOut |-> Given(taps, b), segPos |-> IF b = 0 THEN Block ELSE i + 1]

\* A place is behind the next block's by a block less, or by the ring's length more.
LEMMA BehindTheNext ==
  ASSUME NEW taps \in Nat \ {0}, NEW b \in Nat, NEW q \in 0 .. Cab!Ring(taps) - 1
  PROVE  /\ BehindBy(taps, b, q) \in 0 .. Cab!Ring(taps) - 1
         /\ BehindBy(taps, b + 1, q) = IF BehindBy(taps, b, q) >= Block
                                     THEN BehindBy(taps, b, q) - Block
                                     ELSE BehindBy(taps, b, q) - Block + Cab!Ring(taps)
<1>1. PICK size \in Nat \ {0}, parts \in Nat :
        /\ size = Cab!Ring(taps) /\ Block \in Nat \ {0} /\ size = parts * Block + 2 * Block
        /\ parts * Block \in Nat
  BY RingShape, Zenon
<1>2. PICK x \in Int : x = q - b * Block
  BY <1>1
<1>3. PICK t \in Int, d \in 0 .. size - 1 : d = x % size /\ x = t * size + d
  BY Divided
<1>4. d = BehindBy(taps, b, q)
  BY <1>1, <1>2, <1>3 DEF BehindBy
<1>5. q - (b + 1) * Block = x - Block
  BY <1>1, <1>2
<1>6. BehindBy(taps, b + 1, q) = (x - Block) % size
  BY <1>1, <1>5 DEF BehindBy
<1>7. CASE d >= Block
  <2>1. PICK y \in Int, e \in 0 .. size - 1 : y = x - Block /\ e = d - Block
    BY <1>1, <1>7
  <2>2. y = t * size + e
    BY <1>1, <1>3, <2>1
  <2>3. y % size = e
    BY <2>2, DivisionIs
  <2> QED
    BY <1>1, <1>4, <1>6, <1>7, <2>1, <2>3
<1>8. CASE d < Block
  <2>1. PICK y \in Int, u \in Int, e \in 0 .. size - 1 :
          y = x - Block /\ u = t - 1 /\ e = d - Block + size
    BY <1>1, <1>8
  <2>2. y = u * size + e
    BY <1>1, <1>3, <2>1
  <2>3. y % size = e
    BY <2>1, <2>2, DivisionIs
  <2> QED
    BY <1>1, <1>4, <1>6, <1>8, <2>1, <2>3
<1> QED
  BY <1>1, <1>4, <1>7, <1>8

\* The block's own places are those less than a block behind.
LEMMA PlaceIs ==
  ASSUME NEW taps \in Nat \ {0}, NEW b \in Nat, NEW q \in 0 .. Cab!Ring(taps) - 1,
         NEW m \in 0 .. Block - 1
  PROVE  (b * Block + m) % Cab!Ring(taps) = q <=> BehindBy(taps, b, q) = m
<1>1. PICK size \in Nat \ {0}, parts \in Nat :
        /\ size = Cab!Ring(taps) /\ Block \in Nat \ {0} /\ size = parts * Block + 2 * Block
        /\ parts * Block \in Nat
  BY RingShape, Zenon
<1>2. PICK y \in Int : y = b * Block
  BY <1>1
<1>3. PICK v \in Int, w \in Int : v = q - y /\ w = y + m
  BY <1>1, <1>2
<1>4. PICK t \in Int, d \in 0 .. size - 1 : d = v % size /\ v = t * size + d
  BY Divided
<1>5. PICK u \in Int, r \in 0 .. size - 1 : r = w % size /\ w = u * size + r
  BY Divided
<1>6. d = m => r = q
  <2>1. PICK z \in Int : z = -t
    OBVIOUS
  <2>2. d = m => w = z * size + q
    BY <1>3, <1>4, <2>1
  <2>3. q \in 0 .. size - 1
    BY <1>1
  <2> QED
    BY <1>5, <2>2, <2>3, DividedOnce
<1>7. ASSUME r = q PROVE d = m
  <2>1. PICK z \in Int : z = -u
    OBVIOUS
  <2>2. PICK e \in 0 .. size - 1 : e = m
    BY <1>1
  <2>3. v = z * size + e
    BY <1>3, <1>5, <1>7, <2>1, <2>2
  <2>4. t * size + d = z * size + e
    BY <1>4, <2>3
  <2>5. /\ size \in Nat \ {0} /\ t \in Int /\ z \in Int
        /\ d \in 0 .. size - 1 /\ e \in 0 .. size - 1
    BY <1>1, <1>4, <2>1, <2>2
  <2>6. d = e
    BY <2>4, <2>5, DividedOnce
  <2> QED
    BY <2>2, <2>6
<1> QED
  BY <1>1, <1>2, <1>3, <1>4, <1>5, <1>6, <1>7 DEF BehindBy

LEMMA NothingDue ==
  ASSUME NEW taps \in Int, NEW s \in Int, NEW first \in Int, s < first
  PROVE  Pending(taps, s, first) = Cab!EmptyBag
<1>1. {k \in first .. taps - 1 : s - k >= 0} = {}
  OBVIOUS
<1>2. {<<k, s - k>> : k \in {k \in first .. taps - 1 : s - k >= 0}} = {}
  BY <1>1
<1> QED
  BY <1>2 DEF Pending, Cab!EmptyBag

LEMMA PartStarts ==
  ASSUME NEW taps \in Nat \ {0}
  PROVE  PartOK(taps, Cab!Partitioned(taps), 0)
<1>1. PICK size \in Nat \ {0} : size = Cab!Ring(taps) /\ Block \in Nat \ {0}
  BY RingSizes
<1> DEFINE seg == [i \in 0 .. 2 * Block - 1 |-> Cab!Silence]
<1>2. seg \in [0 .. 2 * Block - 1 -> Int] /\ Filled(seg, 0, 0)
  BY <1>1 DEF Filled, Cab!Silence
<1>3. ASSUME NEW q \in 0 .. size - 1
      PROVE  Pending(taps, 0 * Block + BehindBy(taps, 0, q),
                     ((BehindBy(taps, 0, q) \div Block) + 1) * Block) = Cab!EmptyBag
  <2>1. PICK d \in Nat : d = BehindBy(taps, 0, q)
    BY <1>1, BehindTheNext
  <2>2. PICK p \in Int, m \in 0 .. Block - 1 : p = d \div Block /\ d = p * Block + m
    <3>0. d \in Int
      OBVIOUS
    <3>1. /\ d \div Block \in Int /\ d % Block \in 0 .. Block - 1
          /\ d = ((d \div Block) * Block) + (d % Block)
      BY <1>1, <3>0, Divided, Zenon
    <3> QED
      BY <3>1
  <2>3. PICK first \in Int : first = (p + 1) * Block
    BY <1>1
  <2>4. d < first
    BY <1>1, <2>2, <2>3
  <2>5. Pending(taps, d, first) = Cab!EmptyBag
    BY <2>4, NothingDue
  <2>6. 0 * Block + d = d
    BY <1>1
  <2> QED
    BY <2>1, <2>2, <2>3, <2>5, <2>6
<1>4. Cab!Partitioned(taps).ring = Waiting(taps, 0)
  BY <1>1, <1>3 DEF Cab!Partitioned, Waiting
<1>5. ASSUME NEW m \in 0 .. Block - 1
      PROVE  Exact(taps, 0 * Block - Block + m) = Cab!EmptyBag
  <2>1. PICK s \in Int : s = 0 * Block - Block + m /\ s < 0
    BY <1>1
  <2> QED
    BY <2>1, NothingYet
<1>6. Cab!Partitioned(taps).segOut = Given(taps, 0)
  BY <1>5 DEF Cab!Partitioned, Given
<1>7. 0 = 0 * Block + 0 /\ 0 \in 0 .. Block - 1
  BY <1>1
<1>8. Cab!Partitioned(taps)
        = [seg |-> seg, inCount |-> 0, blockIndex |-> 0, ring |-> Waiting(taps, 0),
           segOut |-> Given(taps, 0), segPos |-> Block]
  BY <1>4, <1>6 DEF Cab!Partitioned
<1> HIDE DEF seg
<1> QED
  BY <1>2, <1>7, <1>8 DEF PartOK

\* What a full block adds at a place is its share of what is still to come there.
LEMMA ShareIs ==
  ASSUME NEW taps \in Nat \ {0}, NEW b \in Nat, NEW p \in Nat, NEW m \in 0 .. Block - 1,
         NEW seg, Filled(seg, b, Block)
  PROVE  Plus(Pending(taps, b * Block + p * Block + m, (p + 1) * Block), Cab!Valid(taps, seg, p, m))
           = Pending(taps, b * Block + p * Block + m, p * Block)
<1>1. Block \in Nat \ {0}
  BY RingSizes
<1>2. PICK x \in Nat, y \in Nat, s \in Nat, first \in Nat :
        /\ x = p * Block /\ y = b * Block /\ s = b * Block + p * Block + m
        /\ first = (p + 1) * Block
  BY <1>1
<1>3. s = y + x + m /\ first = x + Block
  BY <1>1, <1>2
<1> DEFINE share == {i \in 0 .. Block - 1 : x + i < taps}
           pairs == {<<x + i, seg[m + Block - i]>> : i \in share}
           whole(from) == {<<k, s - k>> : k \in {k \in from .. taps - 1 : s - k >= 0}}
           mine == {pair \in pairs : pair[2] # Cab!Silence}
<1>4. ASSUME NEW i \in 0 .. Block - 1
      PROVE  seg[m + Block - i] = IF s - (x + i) >= 0 THEN s - (x + i) ELSE Cab!Silence
  <2>1. PICK j \in 0 .. Block + Block - 1 : j = m + Block - i
    BY <1>1
  <2>2. seg[j] = IF y + j - Block >= 0 THEN y + j - Block ELSE Cab!Silence
    BY <1>2 DEF Filled
  <2>3. y + j - Block = s - (x + i)
    BY <1>1, <1>3, <2>1
  <2> QED
    BY <2>1, <2>2, <2>3
<1>5. mine = {<<k, s - k>> : k \in {k \in x .. taps - 1 : k < first /\ s - k >= 0}}
  <2>1. ASSUME NEW i \in share, seg[m + Block - i] # Cab!Silence
        PROVE  /\ x + i \in x .. taps - 1 /\ x + i < first /\ s - (x + i) >= 0
               /\ seg[m + Block - i] = s - (x + i)
    BY <1>1, <1>3, <1>4, <2>1
  <2>2. ASSUME NEW k \in x .. taps - 1, k < first, s - k >= 0
        PROVE  \E i \in share : x + i = k /\ seg[m + Block - i] = s - k /\ s - k # Cab!Silence
    <3>1. PICK i \in 0 .. Block - 1 : i = k - x /\ x + i = k
      BY <1>1, <1>3, <2>2
    <3>2. seg[m + Block - i] = s - k /\ s - k # Cab!Silence
      BY <1>4, <2>2, <3>1 DEF Cab!Silence
    <3> QED
      BY <3>1, <3>2
  <2>3. ASSUME NEW pair \in mine
        PROVE  pair \in {<<k, s - k>> : k \in {k \in x .. taps - 1 : k < first /\ s - k >= 0}}
    <3>1. PICK i \in share : pair = <<x + i, seg[m + Block - i]>> /\ pair[2] # Cab!Silence
      BY <2>3
    <3> QED
      BY <2>1, <3>1
  <2>4. ASSUME NEW k \in x .. taps - 1, k < first, s - k >= 0
        PROVE  <<k, s - k>> \in mine
    <3>1. PICK i \in share : x + i = k /\ seg[m + Block - i] = s - k /\ s - k # Cab!Silence
      BY <2>2, <2>4
    <3>2. <<k, s - k>> \in pairs
      BY <3>1
    <3> QED
      BY <3>1, <3>2
  <2> QED
    BY <2>3, <2>4
<1>6. whole(first) \cap mine = {} /\ whole(first) \cup mine = whole(x)
  <2>1. ASSUME NEW k \in x .. taps - 1
        PROVE  k \in first .. taps - 1 <=> ~(k < first)
    BY <1>3
  <2>2. ASSUME NEW k \in first .. taps - 1
        PROVE  k \in x .. taps - 1
    BY <1>1, <1>3
  <2> QED
    BY <1>5, <2>1, <2>2
<1>7. Pending(taps, s, first) = Cab!SetToBag(whole(first)) /\ Pending(taps, s, x) = Cab!SetToBag(whole(x))
  BY DEF Pending
<1>8. Cab!Valid(taps, seg, p, m) = Cab!SetToBag(mine)
  BY <1>2 DEF Cab!Valid, Cab!Products
<1> HIDE DEF whole, mine
<1>9. Plus(Cab!SetToBag(whole(first)), Cab!SetToBag(mine)) = Cab!SetToBag(whole(x))
  BY <1>6, BagSum
<1> QED
  BY <1>2, <1>7, <1>8, <1>9

LEMMA BlocksOf ==
  ASSUME NEW n \in Nat \ {0}, NEW d \in Nat
  PROVE  \E p \in Nat, m \in 0 .. n - 1 : p = d \div n /\ m = d % n /\ d = p * n + m
<1>1. PICK p \in Int, m \in 0 .. n - 1 : p = d \div n /\ m = d % n /\ d = p * n + m
  <2>1. /\ d \div n \in Int /\ d % n \in 0 .. n - 1
        /\ d = ((d \div n) * n) + (d % n)
    BY Divided
  <2> QED
    BY <2>1
<1>2. p \in Nat
  <2>1. p < 0 => p * n + n <= 0 * n
    BY Multiples
  <2> QED
    BY <1>1, <2>1
<1> QED
  BY <1>1, <1>2

\* What the ring holds once block b is added.
Summed(taps, b) ==
  [q \in 0 .. Cab!Ring(taps) - 1 |->
     Pending(taps, b * Block + BehindBy(taps, b, q), (BehindBy(taps, b, q) \div Block) * Block)]

LEMMA AccumulatedIs ==
  ASSUME NEW taps \in Nat \ {0}, NEW b \in Nat, NEW c,
         c.ring = Waiting(taps, b), c.blockIndex = b, Filled(c.seg, b, Block)
  PROVE  Cab!Accumulated(taps, c) = Summed(taps, b)
<1>1. PICK size \in Nat \ {0}, parts \in Nat :
        /\ size = Cab!Ring(taps) /\ Block \in Nat \ {0} /\ parts = Cab!Parts(taps)
        /\ parts * Block >= taps
  BY RingSizes
<1> DEFINE share(q) ==
       IF BehindBy(taps, b, q) \div Block < Cab!Parts(taps)
       THEN Plus(c.ring[q], Cab!Valid(taps, c.seg, BehindBy(taps, b, q) \div Block,
                                  BehindBy(taps, b, q) % Block))
       ELSE c.ring[q]
<1>2. DOMAIN c.ring = 0 .. size - 1
  BY <1>1 DEF Waiting
<1>3. Cab!Accumulated(taps, c) = [q \in 0 .. size - 1 |-> share(q)]
  BY <1>2 DEF Cab!Accumulated, BehindBy, Plus
<1>4. ASSUME NEW q \in 0 .. size - 1
      PROVE  share(q) = Pending(taps, b * Block + BehindBy(taps, b, q),
                                (BehindBy(taps, b, q) \div Block) * Block)
  <2>1. PICK d \in Nat : d = BehindBy(taps, b, q)
    BY <1>1, BehindTheNext
  <2>2. PICK p \in Nat, m \in 0 .. Block - 1 :
          p = d \div Block /\ m = d % Block /\ d = p * Block + m
    BY <1>1, BlocksOf
  <2>3. b * Block \in Nat /\ p * Block \in Nat /\ (p + 1) * Block \in Nat
    BY <1>1
  <2>4. PICK s \in Nat, first \in Nat, upcoming \in Nat :
          /\ s = b * Block + d /\ first = p * Block /\ upcoming = (p + 1) * Block
          /\ s = b * Block + p * Block + m
    BY <2>2, <2>3
  <2>5. c.ring[q] = Pending(taps, s, upcoming)
    BY <1>1, <2>1, <2>2, <2>4 DEF Waiting
  <2>6. CASE p < parts
    <3>1. Plus(Pending(taps, s, upcoming), Cab!Valid(taps, c.seg, p, m)) = Pending(taps, s, first)
      BY <2>4, ShareIs
    <3>2. share(q) = Plus(c.ring[q], Cab!Valid(taps, c.seg, p, m))
      BY <1>1, <2>1, <2>2, <2>6
    <3> QED
      BY <2>1, <2>2, <2>4, <2>5, <3>1, <3>2
  <2>7. CASE ~(p < parts)
    <3>1. parts * Block <= p * Block
      BY <1>1, <2>2, <2>7, Multiples
    <3>2. first >= taps /\ upcoming >= taps
      BY <1>1, <2>2, <2>4, <3>1
    <3>3. Pending(taps, s, upcoming) = Cab!EmptyBag /\ Pending(taps, s, first) = Cab!EmptyBag
      BY <3>2, NothingPending
    <3>4. share(q) = c.ring[q]
      BY <1>1, <2>1, <2>2, <2>7
    <3> QED
      BY <2>1, <2>2, <2>4, <2>5, <3>3, <3>4
  <2> QED
    BY <2>6, <2>7
<1> HIDE DEF share
<1>5. Cab!Accumulated(taps, c)
        = [q \in 0 .. size - 1 |-> Pending(taps, b * Block + BehindBy(taps, b, q),
                                           (BehindBy(taps, b, q) \div Block) * Block)]
  BY <1>3, <1>4
<1> QED
  BY <1>1, <1>5 DEF Summed

\* What is left of it when the block's own places are cleared is what the next block
\* finds.
LEMMA ClearedIs ==
  ASSUME NEW taps \in Nat \ {0}, NEW b \in Nat
  PROVE  [q \in 0 .. Cab!Ring(taps) - 1 |->
            IF \E m \in 0 .. Block - 1 : (b * Block + m) % Cab!Ring(taps) = q THEN Cab!EmptyBag
            ELSE Summed(taps, b)[q]] = Waiting(taps, b + 1)
<1>1. PICK size \in Nat \ {0}, parts \in Nat :
        /\ size = Cab!Ring(taps) /\ Block \in Nat \ {0}
        /\ parts * Block >= taps /\ size = parts * Block + 2 * Block
  BY RingSizes
<1>2. ASSUME NEW q \in 0 .. size - 1
      PROVE  (IF \E m \in 0 .. Block - 1 : (b * Block + m) % Cab!Ring(taps) = q THEN Cab!EmptyBag
              ELSE Summed(taps, b)[q])
               = Pending(taps, (b + 1) * Block + BehindBy(taps, b + 1, q),
                         ((BehindBy(taps, b + 1, q) \div Block) + 1) * Block)
  <2>1. PICK d \in 0 .. size - 1 : d = BehindBy(taps, b, q)
    BY <1>1, BehindTheNext
  <2>2. PICK p \in Nat, m \in 0 .. Block - 1 : p = d \div Block /\ d = p * Block + m
    BY <1>1, BlocksOf
  <2>3. (\E k \in 0 .. Block - 1 : (b * Block + k) % Cab!Ring(taps) = q) <=> d < Block
    <3>1. ASSUME NEW k \in 0 .. Block - 1 PROVE (b * Block + k) % Cab!Ring(taps) = q <=> d = k
      <4>1. q \in 0 .. Cab!Ring(taps) - 1
        BY <1>1
      <4> QED
        BY <2>1, <4>1, PlaceIs
    <3>2. (\E k \in 0 .. Block - 1 : d = k) <=> d < Block
      BY <1>1, <2>1
    <3> QED
      BY <3>1, <3>2
  <2>4. d >= Block <=> ~(d < Block)
    BY <1>1, <2>1
  <2>5. BehindBy(taps, b + 1, q) = IF d >= Block THEN d - Block ELSE d - Block + size
    <3>1. q \in 0 .. Cab!Ring(taps) - 1
      BY <1>1
    <3>2. BehindBy(taps, b + 1, q) = IF BehindBy(taps, b, q) >= Block
                                   THEN BehindBy(taps, b, q) - Block
                                   ELSE BehindBy(taps, b, q) - Block + Cab!Ring(taps)
      BY <3>1, BehindTheNext
    <3> QED
      BY <1>1, <2>1, <3>2
  <2>6. CASE d >= Block
    <3>1. PICK e \in Int, u \in Int : e = d - Block /\ u = p - 1
      BY <1>1
    <3>2. BehindBy(taps, b + 1, q) = e
      BY <2>6, <2>5, <3>1
    <3>3. e = u * Block + m
      BY <1>1, <2>2, <3>1
    <3>4. e \div Block = u
      <4>1. Block \in Nat \ {0} /\ m \in 0 .. Block - 1 /\ u \in Int /\ e \in Int
        BY <1>1, <2>2, <3>1
      <4> QED
        BY <3>3, <4>1, DivisionIs
    <3>5. (e \div Block) + 1 = p
      BY <3>1, <3>4
    <3>6. (b + 1) * Block + e = b * Block + d
      BY <1>1, <3>1
    <3>7. Summed(taps, b)[q] = Pending(taps, b * Block + d, p * Block)
      BY <1>1, <2>1, <2>2 DEF Summed
    <3>8. ~(d < Block)
      BY <1>1, <2>6
    <3> QED
      BY <2>3, <3>2, <3>5, <3>6, <3>7, <3>8
  <2>7. CASE d < Block
    <3>1. PICK e \in Int, u \in Int : e = d - Block + size /\ u = parts + 1
      BY <1>1
    <3>2. BehindBy(taps, b + 1, q) = e
      BY <2>7, <2>4, <2>5, <3>1
    <3>3. d \in 0 .. Block - 1 /\ e = u * Block + d
      BY <1>1, <2>1, <2>7, <3>1
    <3>4. e \div Block = u
      BY <1>1, <3>1, <3>3, DivisionIs
    <3>5. PICK s \in Int, first \in Int :
            s = (b + 1) * Block + e /\ first = ((e \div Block) + 1) * Block
      BY <1>1, <3>4
    <3>6. first = parts * Block + 2 * Block
      BY <1>1, <3>1, <3>4, <3>5
    <3>7. first >= taps
      BY <1>1, <3>6
    <3>8. Pending(taps, s, first) = Cab!EmptyBag
      BY <3>7, NothingPending
    <3> QED
      BY <2>3, <2>7, <3>2, <3>5, <3>8
  <2> QED
    BY <2>6, <2>7, <2>4
<1> QED
  BY <1>1, <1>2 DEF Waiting

\* A full block is added, given and made room for the next.
LEMMA BlockGoesOn ==
  ASSUME NEW taps \in Nat \ {0}, NEW b \in Nat, NEW given, NEW upcoming,
         NEW seg \in [0 .. 2 * Block - 1 -> Int], Filled(seg, b, Block)
  PROVE  Cab!ProcessBlock(taps, [seg |-> seg, inCount |-> Block, blockIndex |-> b,
                             ring |-> Waiting(taps, b), segOut |-> given, segPos |-> upcoming])
           = [seg |-> Cab!Slid(seg), inCount |-> 0, blockIndex |-> b + 1,
              ring |-> Waiting(taps, b + 1), segOut |-> Given(taps, b + 1), segPos |-> 0]
<1> DEFINE c == [seg |-> seg, inCount |-> Block, blockIndex |-> b,
                 ring |-> Waiting(taps, b), segOut |-> given, segPos |-> upcoming]
           place(m) == (b * Block + m) % Cab!Ring(taps)
           sum == Summed(taps, b)
<1>1. PICK size \in Nat \ {0} : size = Cab!Ring(taps) /\ Block \in Nat \ {0}
  BY RingSizes
<1>2. Cab!Accumulated(taps, c) = sum
  <2>1. c.ring = Waiting(taps, b) /\ c.blockIndex = b /\ c.seg = seg
    OBVIOUS
  <2> HIDE DEF c
  <2> QED
    BY <2>1, AccumulatedIs
<1>3. Cab!ProcessBlock(taps, c)
        = [seg |-> Cab!Slid(seg), inCount |-> 0, blockIndex |-> b + 1,
           ring |-> [q \in DOMAIN sum |->
                       IF \E m \in 0 .. Block - 1 : place(m) = q THEN Cab!EmptyBag ELSE sum[q]],
           segOut |-> [m \in 0 .. Block - 1 |-> sum[place(m)]], segPos |-> 0]
  <2>1. PICK ring, segOut :
          /\ ring = [q \in DOMAIN sum |->
                       IF \E m \in 0 .. Block - 1 : place(m) = q THEN Cab!EmptyBag ELSE sum[q]]
          /\ segOut = [m \in 0 .. Block - 1 |-> sum[place(m)]]
    OBVIOUS
  <2>2. c.blockIndex = b /\ c.seg = seg
    OBVIOUS
  <2>3. Cab!ProcessBlock(taps, c)
          = [c EXCEPT !.segOut = segOut, !.ring = ring, !.segPos = 0, !.seg = Cab!Slid(seg),
                      !.inCount = 0, !.blockIndex = b + 1]
    <3> HIDE DEF c, sum
    <3> QED
      BY <1>2, <2>1, <2>2 DEF Cab!ProcessBlock
  <2> HIDE DEF sum, place
  <2> QED
    BY <2>1, <2>3
<1>4. DOMAIN sum = 0 .. Cab!Ring(taps) - 1
  BY DEF Summed
<1>5. [q \in DOMAIN sum |->
         IF \E m \in 0 .. Block - 1 : place(m) = q THEN Cab!EmptyBag ELSE sum[q]]
        = Waiting(taps, b + 1)
  BY <1>4, ClearedIs
<1>6. ASSUME NEW m \in 0 .. Block - 1
      PROVE  sum[place(m)] = Exact(taps, (b + 1) * Block - Block + m)
  <2>1. PICK w \in Int : w = b * Block + m
    BY <1>1
  <2>2. PICK q \in 0 .. size - 1 : q = w % size
    BY <1>1, Divided
  <2>3. q = place(m) /\ q \in 0 .. Cab!Ring(taps) - 1
    BY <1>1, <2>1, <2>2
  <2>4. BehindBy(taps, b, q) = m
    BY <2>3, PlaceIs
  <2>5. m \div Block = 0
    <3>1. PICK t \in Int : t = 0
      OBVIOUS
    <3>2. m \in Int /\ m = t * Block + m
      BY <1>1, <3>1
    <3> QED
      BY <1>1, <3>1, <3>2, DivisionIs
  <2>6. sum[q] = Pending(taps, b * Block + m, 0 * Block)
    BY <2>3, <2>4, <2>5 DEF Summed
  <2>7. 0 * Block = 0 /\ (b + 1) * Block - Block + m = b * Block + m
    BY <1>1
  <2> QED
    BY <2>3, <2>6, <2>7 DEF Exact
<1>7. [m \in 0 .. Block - 1 |-> sum[place(m)]] = Given(taps, b + 1)
  BY <1>6 DEF Given
<1> QED
  BY <1>3, <1>5, <1>7

\* A step takes the newest sample and gives the one a block less one sample behind.
LEMMA PartGoesOn ==
  ASSUME NEW taps \in Nat \ {0}, NEW n \in Nat, NEW c, PartOK(taps, c, n)
  PROVE  /\ PartOK(taps, Cab!PartitionedStep(taps, c, n).conv, n + 1)
         /\ Cab!PartitionedStep(taps, c, n).out = Exact(taps, n - (Block - 1))
<1>1. Block \in Nat \ {0}
  BY RingSizes
<1>2. PICK b \in Nat, i \in 0 .. Block - 1, seg \in [0 .. 2 * Block - 1 -> Int] :
        /\ n = b * Block + i /\ Filled(seg, b, i)
        /\ c = [seg |-> seg, inCount |-> i, blockIndex |-> b, ring |-> Waiting(taps, b),
                segOut |-> Given(taps, b), segPos |-> IF b = 0 THEN Block ELSE i + 1]
  BY DEF PartOK
<1>3. PICK y \in Nat : y = b * Block /\ n = y + i
  BY <1>1, <1>2
<1>4. PICK new : new = [seg EXCEPT ![Block + i] = n]
  OBVIOUS
<1>5. new \in [0 .. 2 * Block - 1 -> Int] /\ Filled(new, b, i + 1)
  <2>1. Block + i \in 0 .. 2 * Block - 1
    BY <1>1
  <2>2. /\ new \in [0 .. 2 * Block - 1 -> Int] /\ new[Block + i] = n
        /\ \A j \in 0 .. 2 * Block - 1 : j # Block + i => new[j] = seg[j]
    BY <1>4, <2>1
  <2>3. ASSUME NEW j \in 0 .. Block + (i + 1) - 1
        PROVE  new[j] = IF y + j - Block >= 0 THEN y + j - Block ELSE Cab!Silence
    <3>1. CASE j = Block + i
      BY <1>1, <1>3, <2>2, <3>1
    <3>2. CASE j # Block + i
      <4>1. j \in 0 .. Block + i - 1 /\ j \in 0 .. 2 * Block - 1
        BY <1>1, <3>2
      <4>2. seg[j] = IF y + j - Block >= 0 THEN y + j - Block ELSE Cab!Silence
        BY <1>2, <1>3, <4>1 DEF Filled
      <4> QED
        BY <2>2, <3>2, <4>1, <4>2
    <3> QED
      BY <3>1, <3>2
  <2> QED
    BY <1>3, <2>2, <2>3 DEF Filled
<1> DEFINE pos == IF b = 0 THEN Block ELSE i + 1
           fed == [seg |-> new, inCount |-> i + 1, blockIndex |-> b, ring |-> Waiting(taps, b),
                   segOut |-> Given(taps, b), segPos |-> pos]
<1>6. [c EXCEPT !.seg[Block + c.inCount] = n, !.inCount = @ + 1] = fed
  <2>1. c.seg = seg /\ c.inCount = i
    BY <1>2
  <2>2. [c.seg EXCEPT ![Block + c.inCount] = n] = new
    BY <1>4, <2>1
  <2>3. [c EXCEPT !.seg[Block + c.inCount] = n, !.inCount = @ + 1]
          = [c EXCEPT !.seg = new, !.inCount = i + 1]
    BY <2>1, <2>2
  <2>4. c = [seg |-> seg, inCount |-> i, blockIndex |-> b, ring |-> Waiting(taps, b),
             segOut |-> Given(taps, b), segPos |-> pos]
    BY <1>2
  <2> HIDE DEF pos
  <2>5. PICK mid : mid = [c EXCEPT !.seg = new]
    OBVIOUS
  <2>6. mid = [seg |-> new, inCount |-> i, blockIndex |-> b, ring |-> Waiting(taps, b),
               segOut |-> Given(taps, b), segPos |-> pos]
    BY <2>4, <2>5
  <2>7. [mid EXCEPT !.inCount = i + 1] = fed
    BY <2>6
  <2> HIDE DEF fed
  <2> QED
    BY <2>3, <2>5, <2>7
<1>7. CASE i + 1 = Block
  <2> DEFINE done == [seg |-> Cab!Slid(new), inCount |-> 0, blockIndex |-> b + 1,
                      ring |-> Waiting(taps, b + 1), segOut |-> Given(taps, b + 1), segPos |-> 0]
             newest == [seg |-> Cab!Slid(new), inCount |-> 0, blockIndex |-> b + 1,
                      ring |-> Waiting(taps, b + 1), segOut |-> Given(taps, b + 1), segPos |-> 1]
  <2>1. Cab!ProcessBlock(taps, fed) = done
    BY <1>5, <1>7, BlockGoesOn
  <2>2. /\ Cab!PartitionedStep(taps, c, n).conv = newest
        /\ Cab!PartitionedStep(taps, c, n).out = Given(taps, b + 1)[0]
    <3> HIDE DEF done
    <3>1. Cab!PartitionedStep(taps, c, n)
            = IF done.segPos < Block
              THEN [conv |-> [done EXCEPT !.segPos = @ + 1], out |-> done.segOut[done.segPos]]
              ELSE [conv |-> done, out |-> Cab!EmptyBag]
      <4>1. fed.inCount = Block
        BY <1>7
      <4> HIDE DEF fed
      <4> QED
        BY <1>6, <2>1, <4>1 DEF Cab!PartitionedStep
    <3>2. done.segPos = 0 /\ done.segOut = Given(taps, b + 1) /\ 0 < Block
      BY <1>1 DEF done
    <3>3. [done EXCEPT !.segPos = @ + 1] = newest
      BY DEF done
    <3> QED
      BY <3>1, <3>2, <3>3
  <2>3. Given(taps, b + 1)[0] = Exact(taps, n - (Block - 1))
    <3>1. (b + 1) * Block - Block + 0 = n - (Block - 1)
      BY <1>1, <1>3, <1>7
    <3>2. 0 \in 0 .. Block - 1
      BY <1>1
    <3> QED
      BY <3>1, <3>2 DEF Given
  <2>4. Cab!Slid(new) \in [0 .. 2 * Block - 1 -> Int] /\ Filled(Cab!Slid(new), b + 1, 0)
    <3>1. PICK slid : slid = Cab!Slid(new)
      OBVIOUS
    <3>2. /\ slid \in [0 .. 2 * Block - 1 -> Int]
          /\ \A j \in 0 .. Block - 1 : slid[j] = new[j + Block]
      BY <1>1, <1>5, <3>1 DEF Cab!Slid
    <3>3. ASSUME NEW j \in 0 .. Block + 0 - 1
          PROVE  slid[j] = IF (b + 1) * Block + j - Block >= 0
                           THEN (b + 1) * Block + j - Block ELSE Cab!Silence
      <4>1. PICK k \in 0 .. Block + (i + 1) - 1 : k = j + Block
        BY <1>1, <1>7
      <4>2. new[k] = IF y + k - Block >= 0 THEN y + k - Block ELSE Cab!Silence
        BY <1>3, <1>5, <4>1 DEF Filled
      <4>3. y + k - Block = y + j /\ (b + 1) * Block + j - Block = y + j /\ y + j >= 0
        BY <1>1, <1>3, <4>1
      <4>4. slid[j] = new[k]
        <5>1. j \in 0 .. Block - 1
          BY <1>1
        <5> QED
          BY <3>2, <4>1, <5>1
      <4> QED
        BY <4>2, <4>3, <4>4
    <3> QED
      BY <3>1, <3>2, <3>3 DEF Filled
  <2>5. n + 1 = (b + 1) * Block + 0 /\ 0 \in 0 .. Block - 1 /\ b + 1 \in Nat /\ b + 1 # 0
    BY <1>1, <1>3, <1>7
  <2>6. PartOK(taps, newest, n + 1)
    <3>1. newest = [seg |-> Cab!Slid(new), inCount |-> 0, blockIndex |-> b + 1,
                  ring |-> Waiting(taps, b + 1), segOut |-> Given(taps, b + 1),
                  segPos |-> IF b + 1 = 0 THEN Block ELSE 0 + 1]
      BY <2>5
    <3> HIDE DEF newest
    <3> QED
      BY <2>4, <2>5, <3>1 DEF PartOK
  <2> QED
    BY <2>2, <2>3, <2>6
<1>8. CASE i + 1 # Block
  <2>1. i + 1 \in 0 .. Block - 1 /\ n + 1 = b * Block + (i + 1)
    BY <1>1, <1>2, <1>8
  <2>2. Cab!PartitionedStep(taps, c, n)
          = IF pos < Block
            THEN [conv |-> [fed EXCEPT !.segPos = pos + 1], out |-> Given(taps, b)[pos]]
            ELSE [conv |-> fed, out |-> Cab!EmptyBag]
    <3>1. fed.inCount = i + 1 /\ fed.segPos = pos /\ fed.segOut = Given(taps, b)
      OBVIOUS
    <3> HIDE DEF fed, pos
    <3> QED
      BY <1>6, <1>8, <3>1 DEF Cab!PartitionedStep
  <2>3. CASE b = 0
    <3>1. ~(pos < Block) /\ pos = Block
      BY <1>1, <2>3
    <3>2. Cab!PartitionedStep(taps, c, n) = [conv |-> fed, out |-> Cab!EmptyBag]
      BY <2>2, <3>1
    <3>3. PICK s \in Int : s = n - (Block - 1) /\ s < 0
      BY <1>1, <1>3, <2>1, <2>3
    <3>4. Exact(taps, s) = Cab!EmptyBag
      BY <3>3, NothingYet
    <3>5. fed = [seg |-> new, inCount |-> i + 1, blockIndex |-> b, ring |-> Waiting(taps, b),
                 segOut |-> Given(taps, b), segPos |-> IF b = 0 THEN Block ELSE (i + 1) + 1]
      BY <2>3, <3>1
    <3> HIDE DEF fed
    <3>6. PartOK(taps, fed, n + 1)
      BY <1>5, <2>1, <3>5 DEF PartOK
    <3> QED
      BY <3>2, <3>3, <3>4, <3>6
  <2>4. CASE b # 0
    <3>1. pos < Block /\ pos = i + 1
      BY <1>1, <2>1, <2>4
    <3> DEFINE upcoming == [seg |-> new, inCount |-> i + 1, blockIndex |-> b,
                        ring |-> Waiting(taps, b), segOut |-> Given(taps, b),
                        segPos |-> IF b = 0 THEN Block ELSE (i + 1) + 1]
    <3>2. [fed EXCEPT !.segPos = pos + 1] = upcoming
      BY <2>4, <3>1
    <3> HIDE DEF fed, upcoming
    <3>3. Cab!PartitionedStep(taps, c, n) = [conv |-> upcoming, out |-> Given(taps, b)[i + 1]]
      BY <2>2, <3>1, <3>2
    <3>4. Given(taps, b)[i + 1] = Exact(taps, n - (Block - 1))
      <4>1. b * Block - Block + (i + 1) = n - (Block - 1)
        BY <1>1, <1>3
      <4> QED
        BY <2>1, <4>1 DEF Given
    <3>5. PartOK(taps, upcoming, n + 1)
      BY <1>5, <2>1 DEF PartOK, upcoming
    <3> QED
      BY <3>3, <3>4, <3>5
  <2> QED
    BY <2>3, <2>4
<1> QED
  BY <1>7, <1>8

(* Blocks of samples *)

Untouched == [conv |-> conv, out |-> Cab!EmptyBag]
OneSample(r, i) ==
  IF ~cab.prepared THEN [conv |-> conv, out |-> Cab!Product(0, heard + i - 1)]
  ELSE IF cab.partitioned THEN Cab!PartitionedStep(cab.taps, r.conv, heard + i - 1)
  ELSE Cab!DirectStep(cab.taps, r.conv, heard + i - 1)

\* Where the chunk behind this one begins.
EndOf(begin, chunk) == begin + 8 + chunk.size + (chunk.size % 2)
\* What a loop computes in a pass: over the samples of a block, the places of chunks,
\* a file's bytes, a preset's nodes.
Passed(kind, x, now, i) ==
  CASE kind = "samples" -> OneSample(now, i)
    [] kind = "places" -> EndOf(now, x[i - 1])
    [] kind = "file" -> Cab!Round(x, now)
    [] kind = "nodes" -> IF i \in x.positions THEN Append(now, x.nodes[i]) ELSE now
Loops(kind, x, start, from, n, g) ==
  g = [i \in from .. n |-> IF i = from THEN start ELSE Passed(kind, x, g[i - 1], i)]

LEMMA LoopExists ==
  ASSUME NEW kind, NEW x, NEW start, NEW from \in Nat, NEW n \in Nat, from <= n
  PROVE  \E g : Loops(kind, x, start, from, n, g)
<1> DEFINE Wrong == {m \in Nat : from <= m /\ ~\E g : Loops(kind, x, start, from, m, g)}
<1>1. SUFFICES ASSUME Wrong # {} PROVE FALSE
  OBVIOUS
<1>2. PICK m \in Wrong : \A k \in Wrong : m <= k
  BY <1>1, LeastIn
<1>3. m # from
  <2>1. Loops(kind, x, start, from, from, [i \in from .. from |-> start])
    BY DEF Loops
  <2> QED
    BY <1>2, <2>1
<1>4. PICK k \in Nat : m = k + 1 /\ from <= k /\ k \notin Wrong
  <2>1. m - 1 \in Nat /\ m = (m - 1) + 1 /\ from <= m - 1 /\ ~(m <= m - 1)
    BY <1>2, <1>3
  <2> HIDE DEF Wrong
  <2>2. m - 1 \notin Wrong
    BY <1>2, <2>1
  <2> QED
    BY <2>1, <2>2
<1>5. PICK g : Loops(kind, x, start, from, k, g)
  BY <1>4
<1> DEFINE newest == Passed(kind, x, g[k], m)
           h == [i \in from .. m |-> IF i = m THEN newest ELSE g[i]]
<1>6. ASSUME NEW i \in from .. m
      PROVE  h[i] = IF i = from THEN start ELSE Passed(kind, x, h[i - 1], i)
  <2>1. CASE i = m
    <3>1. i - 1 = k /\ k \in from .. m /\ k # m /\ i # from
      BY <1>4, <2>1
    <3>2. h[i - 1] = g[k] /\ h[i] = newest
      BY <2>1, <3>1
    <3> HIDE DEF h
    <3> QED
      BY <2>1, <3>1, <3>2
  <2>2. CASE i # m
    <3>1. i \in from .. k
      BY <1>4, <2>2
    <3>2. g[i] = IF i = from THEN start ELSE Passed(kind, x, g[i - 1], i)
      BY <1>5, <3>1 DEF Loops
    <3>3. h[i] = g[i]
      BY <2>2
    <3>4. i # from => i - 1 \in from .. m /\ i - 1 # m
      BY <1>4, <3>1
    <3>5. i # from => h[i - 1] = g[i - 1]
      BY <3>4
    <3> HIDE DEF h
    <3> QED
      BY <3>2, <3>3, <3>5
  <2> QED
    BY <2>1, <2>2
<1>7. h = [i \in from .. m |-> h[i]]
  OBVIOUS
<1> HIDE DEF h
<1>8. Loops(kind, x, start, from, m, h)
  BY <1>6, <1>7 DEF Loops
<1> QED
  BY <1>2, <1>8

LEMMA RunIs ==
  ASSUME NEW n \in Nat
  PROVE  /\ Cab!Run(n)[0] = Untouched
         /\ \A i \in 1 .. n : Cab!Run(n)[i] = OneSample(Cab!Run(n)[i - 1], i)
<1>1. Cab!Run(n) = [i \in 0 .. n |-> IF i = 0 THEN Untouched ELSE OneSample(Cab!Run(n)[i - 1], i)]
  <2>1. \E g : g = [i \in 0 .. n |-> IF i = 0 THEN Untouched ELSE OneSample(g[i - 1], i)]
    <3>1. 0 \in Nat /\ 0 <= n
      OBVIOUS
    <3>2. \E g : Loops("samples", 0, Untouched, 0, n, g)
      BY <3>1, LoopExists
    <3> QED
      BY <3>2 DEF Loops, Passed
  <2> QED
    BY <2>1 DEF Cab!Run, Untouched, OneSample
<1>2. 0 \in 0 .. n /\ \A i \in 1 .. n : i \in 0 .. n /\ i # 0
  OBVIOUS
<1> QED
  BY <1>1, <1>2

ConvOK(taps, partitioned, c, n) == IF partitioned THEN PartOK(taps, c, n) ELSE DirectOK(taps, c, n)

LEMMA RunsOn ==
  ASSUME NEW n \in Nat, cab.prepared, cab.taps \in Nat \ {0}, heard \in Nat,
         ConvOK(cab.taps, cab.partitioned, conv, heard)
  PROVE  \A i \in 0 .. n :
           /\ ConvOK(cab.taps, cab.partitioned, Cab!Run(n)[i].conv, heard + i)
           /\ i # 0 => Cab!Run(n)[i].out = Exact(cab.taps, heard + i - 1 - Cab!Delay)
<1>1. PICK taps \in Nat \ {0}, now \in Nat : taps = cab.taps /\ now = heard
  OBVIOUS
<1> DEFINE Good(i) == /\ ConvOK(taps, cab.partitioned, Cab!Run(n)[i].conv, now + i)
                      /\ i # 0 => Cab!Run(n)[i].out = Exact(taps, now + i - 1 - Cab!Delay)
<1>2. Good(0)
  <2>1. Cab!Run(n)[0].conv = conv
    BY RunIs DEF Untouched
  <2> QED
    BY <1>1, <2>1
<1>3. ASSUME NEW i \in 1 .. n, Good(i - 1)
      PROVE  Good(i)
  <2>1. PICK k \in Nat : k = now + i - 1 /\ k = now + (i - 1) /\ k + 1 = now + i
    BY <1>1, <1>3
  <2>2. PICK sofar : sofar = Cab!Run(n)[i - 1].conv
    OBVIOUS
  <2>3. Cab!Run(n)[i] = OneSample(Cab!Run(n)[i - 1], i)
    BY RunIs
  <2>4. ConvOK(taps, cab.partitioned, sofar, k)
    BY <1>3, <2>1, <2>2
  <2>5. CASE cab.partitioned
    <3>1. Cab!Run(n)[i] = Cab!PartitionedStep(taps, sofar, k)
      BY <1>1, <2>1, <2>2, <2>3, <2>5 DEF OneSample
    <3>2. PartOK(taps, sofar, k)
      BY <2>4, <2>5 DEF ConvOK
    <3>3. /\ PartOK(taps, Cab!Run(n)[i].conv, k + 1)
          /\ Cab!Run(n)[i].out = Exact(taps, k - (Block - 1))
      BY <3>1, <3>2, PartGoesOn
    <3>4. k - (Block - 1) = now + i - 1 - Cab!Delay
      BY <2>1, <2>5, CabFacts DEF Cab!Delay, Cab!CabAssumption
    <3> QED
      BY <2>1, <2>5, <3>3, <3>4 DEF ConvOK
  <2>6. CASE ~cab.partitioned
    <3>1. Cab!Run(n)[i] = Cab!DirectStep(taps, sofar, k)
      BY <1>1, <2>1, <2>2, <2>3, <2>6 DEF OneSample
    <3>2. DirectOK(taps, sofar, k)
      BY <2>4, <2>6 DEF ConvOK
    <3>3. DirectOK(taps, Cab!Run(n)[i].conv, k + 1) /\ Cab!Run(n)[i].out = Exact(taps, k)
      BY <3>1, <3>2, DirectGoesOn
    <3>4. k = now + i - 1 - Cab!Delay
      BY <2>1, <2>6 DEF Cab!Delay
    <3> QED
      BY <2>1, <2>6, <3>3, <3>4 DEF ConvOK
  <2> QED
    BY <2>5, <2>6
<1> HIDE DEF Good
<1> DEFINE Wrong == {i \in 0 .. n : ~Good(i)}
<1>4. Wrong = {}
  <2>1. SUFFICES ASSUME Wrong # {} PROVE FALSE
    OBVIOUS
  <2>2. Wrong \in SUBSET Nat
    OBVIOUS
  <2>3. PICK m \in Wrong : \A i \in Wrong : m <= i
    <3> HIDE DEF Wrong
    <3> QED
      BY <2>1, <2>2, LeastIn
  <2>4. m \in 1 .. n
    BY <1>2, <2>3
  <2>5. m - 1 \in 0 .. n /\ ~(m <= m - 1)
    BY <2>4
  <2>6. Good(m - 1)
    BY <2>3, <2>5
  <2> QED
    BY <1>3, <2>3, <2>4, <2>6
<1>5. ASSUME NEW i \in 0 .. n PROVE Good(i)
  BY <1>4
<1> QED
  BY <1>1, <1>5 DEF Good

(* Recordings *)

Laid(chunks) ==
  /\ Len(chunks) \in Nat /\ DOMAIN chunks = 1 .. Len(chunks)
  /\ \A i \in 1 .. Len(chunks) : chunks[i].size \in Nat /\ chunks[i].format.rate \in Nat

LEMMA BeginsIs ==
  ASSUME NEW chunks, Laid(chunks)
  PROVE  /\ Cab!Begins(chunks)[1] = 12
         /\ \A i \in 1 .. Len(chunks) :
              Cab!Begins(chunks)[i + 1] = EndOf(Cab!Begins(chunks)[i], chunks[i])
<1>1. PICK n \in Nat : n = Len(chunks)
  <2>1. Len(chunks) \in Nat
    BY DEF Laid
  <2> QED
    BY <2>1
<1>2. Cab!Begins(chunks)
        = [i \in 1 .. n + 1 |->
             IF i = 1 THEN 12 ELSE EndOf(Cab!Begins(chunks)[i - 1], chunks[i - 1])]
  <2>1. \E g : g = [i \in 1 .. n + 1 |-> IF i = 1 THEN 12 ELSE EndOf(g[i - 1], chunks[i - 1])]
    <3>1. n + 1 \in Nat /\ 1 <= n + 1
      OBVIOUS
    <3>2. \E g : Loops("places", chunks, 12, 1, n + 1, g)
      BY <3>1, LoopExists
    <3> QED
      BY <3>2 DEF Loops, Passed
  <2> QED
    BY <1>1, <2>1 DEF Cab!Begins, EndOf
<1>3. 1 \in 1 .. n + 1
  OBVIOUS
<1>4. ASSUME NEW i \in 1 .. n PROVE Cab!Begins(chunks)[i + 1] = EndOf(Cab!Begins(chunks)[i], chunks[i])
  <2>1. i + 1 \in 1 .. n + 1 /\ i + 1 # 1 /\ (i + 1) - 1 = i
    OBVIOUS
  <2>2. Cab!Begins(chunks)[i + 1] = EndOf(Cab!Begins(chunks)[(i + 1) - 1], chunks[(i + 1) - 1])
    BY <1>2, <2>1
  <2> QED
    BY <2>1, <2>2
<1> QED
  BY <1>1, <1>2, <1>3, <1>4

\* The chunks lie one behind the other, each 8 bytes or more from the last.
LEMMA BeginsGrow ==
  ASSUME NEW chunks, Laid(chunks)
  PROVE  \A j \in 1 .. Len(chunks) + 1 :
           /\ Cab!Begins(chunks)[j] \in Nat /\ Cab!Begins(chunks)[j] >= 12 /\ Cab!Begins(chunks)[j] > j
           /\ \A i \in 1 .. j - 1 :
                Cab!Begins(chunks)[i] + 8 + chunks[i].size <= Cab!Begins(chunks)[j]
<1>1. PICK n \in Nat : n = Len(chunks)
  BY DEF Laid
<1>2. PICK begin : begin = Cab!Begins(chunks)
  OBVIOUS
<1> DEFINE Good(j) == /\ begin[j] \in Nat /\ begin[j] >= 12 /\ begin[j] > j
                      /\ \A i \in 1 .. j - 1 : begin[i] + 8 + chunks[i].size <= begin[j]
<1>3. Good(1)
  BY <1>2, BeginsIs
<1>4. ASSUME NEW j \in 1 .. n, \A k \in 1 .. j : Good(k)
      PROVE  Good(j + 1)
  <2>1. PICK spot \in Nat, size \in Nat : spot = begin[j] /\ size = chunks[j].size /\ spot >= 12 /\ spot > j
    BY <1>1, <1>4 DEF Laid
  <2>2. begin[j + 1] = spot + 8 + size + (size % 2)
    BY <1>1, <1>2, <2>1, BeginsIs DEF EndOf
  <2>3. size % 2 \in 0 .. 1
    BY <2>1
  <2>4. PICK upcoming \in Nat : upcoming = begin[j + 1] /\ upcoming >= spot + 8 + size
    BY <2>1, <2>2, <2>3
  <2>5. ASSUME NEW i \in 1 .. (j + 1) - 1
        PROVE  begin[i] + 8 + chunks[i].size <= begin[j + 1]
    <3>1. CASE i = j
      BY <2>1, <2>4, <3>1
    <3>2. CASE i # j
      <4>1. i \in 1 .. j - 1 /\ i \in 1 .. n /\ i \in 1 .. j /\ j \in 1 .. j
        BY <3>2
      <4>2. begin[i] + 8 + chunks[i].size <= spot
        BY <1>4, <2>1, <4>1
      <4>3. begin[i] \in Nat /\ chunks[i].size \in Nat
        BY <1>1, <1>4, <4>1 DEF Laid
      <4> QED
        BY <2>1, <2>4, <4>2, <4>3
    <3> QED
      BY <3>1, <3>2
  <2> QED
    BY <2>1, <2>4, <2>5
<1> HIDE DEF Good
<1> DEFINE Wrong == {j \in 1 .. n + 1 : ~Good(j)}
<1>5. Wrong = {}
  <2>1. SUFFICES ASSUME Wrong # {} PROVE FALSE
    OBVIOUS
  <2>2. Wrong \in SUBSET Nat
    OBVIOUS
  <2>3. PICK m \in Wrong : \A i \in Wrong : m <= i
    <3> HIDE DEF Wrong
    <3> QED
      BY <2>1, <2>2, LeastIn
  <2>4. PICK j \in 1 .. n : m = j + 1
    <3>1. m - 1 \in 1 .. n /\ m = (m - 1) + 1
      BY <1>3, <2>3
    <3> QED
      BY <3>1
  <2>5. ASSUME NEW k \in 1 .. j PROVE Good(k)
    <3>1. k \in 1 .. n + 1 /\ ~(m <= k)
      BY <2>4
    <3> QED
      BY <2>3, <3>1
  <2> QED
    BY <1>4, <2>3, <2>4, <2>5
<1>6. ASSUME NEW j \in 1 .. n + 1 PROVE Good(j)
  BY <1>5
<1> QED
  BY <1>1, <1>2, <1>6 DEF Good

AtStart == [offset |-> 12, format |-> Cab!NoFormat, done |-> FALSE, wav |-> Cab!Rejected]

LEMMA WalkIs ==
  ASSUME NEW file, file.size \in Nat
  PROVE  /\ Cab!Walk(file)[0] = AtStart
         /\ \A i \in 1 .. file.size : Cab!Walk(file)[i] = Cab!Round(file, Cab!Walk(file)[i - 1])
<1>1. PICK n \in Nat : n = file.size
  OBVIOUS
<1>2. Cab!Walk(file) = [i \in 0 .. n |-> IF i = 0 THEN AtStart ELSE Cab!Round(file, Cab!Walk(file)[i - 1])]
  <2>1. \E g : g = [i \in 0 .. file.size |-> IF i = 0 THEN AtStart ELSE Cab!Round(file, g[i - 1])]
    <3>1. 0 \in Nat /\ 0 <= file.size
      OBVIOUS
    <3>2. \E g : Loops("file", file, AtStart, 0, file.size, g)
      BY <3>1, LoopExists
    <3> QED
      BY <3>2 DEF Loops, Passed
  <2>2. Cab!Walk(file) = [i \in 0 .. file.size |->
                        IF i = 0 THEN AtStart ELSE Cab!Round(file, Cab!Walk(file)[i - 1])]
    BY <2>1 DEF Cab!Walk, AtStart
  <2> QED
    BY <1>1, <2>2
<1>3. 0 \in 0 .. n /\ \A i \in 1 .. n : i \in 0 .. n /\ i # 0
  OBVIOUS
<1> QED
  BY <1>1, <1>2, <1>3

\* The first data chunk, or the place behind the last chunk; the format given by the
\* first chunks; what a file that is long enough must be parsed to.
Datas(chunks) == {i \in DOMAIN chunks : chunks[i].id = "data"}
First(chunks) ==
  IF Datas(chunks) = {} THEN Len(chunks) + 1
  ELSE CHOOSE i \in Datas(chunks) : \A j \in Datas(chunks) : i <= j
Fmts(chunks, k) == {i \in 1 .. k : chunks[i].id = "fmt" /\ chunks[i].size >= 16}
Latest(S) == CHOOSE i \in S : \A j \in S : j <= i
FormatOf(chunks, k) ==
  IF Fmts(chunks, k) = {} THEN Cab!NoFormat ELSE chunks[Latest(Fmts(chunks, k))].format
ChunkFits(chunks, size, i) == Cab!Begins(chunks)[i] + 8 + chunks[i].size <= size
Answer(chunks, size) ==
  IF First(chunks) <= Len(chunks) /\ ChunkFits(chunks, size, First(chunks))
  THEN Cab!Data(chunks[First(chunks)].size, FormatOf(chunks, First(chunks) - 1)) ELSE Cab!Rejected

LEMMA FirstIs ==
  ASSUME NEW chunks, Laid(chunks)
  PROVE  /\ First(chunks) \in 1 .. Len(chunks) + 1
         /\ \A i \in 1 .. Len(chunks) : i < First(chunks) => chunks[i].id # "data"
         /\ First(chunks) <= Len(chunks) <=> Datas(chunks) # {}
         /\ First(chunks) <= Len(chunks) => chunks[First(chunks)].id = "data"
         /\ Datas(chunks) # {} => First(chunks) \in Datas(chunks)
<1>1. PICK n \in Nat : n = Len(chunks) /\ DOMAIN chunks = 1 .. n
  BY DEF Laid
<1>2. Datas(chunks) \in SUBSET Nat /\ Datas(chunks) \subseteq 1 .. n
  BY <1>1 DEF Datas
<1>3. CASE Datas(chunks) = {}
  <2>1. First(chunks) = n + 1 /\ ~(n + 1 <= n) /\ n + 1 \in 1 .. n + 1
    BY <1>1, <1>3 DEF First
  <2>2. \A i \in 1 .. n : chunks[i].id # "data"
    BY <1>1, <1>3 DEF Datas
  <2> QED
    BY <1>1, <1>3, <2>1, <2>2
<1>4. CASE Datas(chunks) # {}
  <2>1. \E i \in Datas(chunks) : \A j \in Datas(chunks) : i <= j
    BY <1>2, <1>4, LeastIn
  <2>2. PICK f \in Datas(chunks) : f = First(chunks) /\ \A j \in Datas(chunks) : f <= j
    BY <1>4, <2>1 DEF First
  <2>3. f \in 1 .. n /\ chunks[f].id = "data"
    BY <1>2, <2>2 DEF Datas
  <2>4. ASSUME NEW i \in 1 .. n, i < f PROVE chunks[i].id # "data"
    <3>1. i \notin Datas(chunks)
      BY <2>2, <2>3, <2>4
    <3> QED
      BY <1>1, <3>1 DEF Datas
  <2>5. f \in 1 .. n + 1 /\ f <= n
    BY <2>3
  <2> QED
    BY <1>1, <1>4, <2>2, <2>3, <2>4, <2>5
<1> QED
  BY <1>3, <1>4

LEMMA FormatGoesOn ==
  ASSUME NEW chunks, Laid(chunks), NEW k \in Nat, k + 1 <= Len(chunks)
  PROVE  /\ FormatOf(chunks, 0) = Cab!NoFormat
         /\ FormatOf(chunks, k + 1)
              = IF chunks[k + 1].id = "fmt" /\ chunks[k + 1].size >= 16
                THEN chunks[k + 1].format ELSE FormatOf(chunks, k)
<1>1. Fmts(chunks, 0) = {}
  BY DEF Fmts
<1>2. CASE chunks[k + 1].id = "fmt" /\ chunks[k + 1].size >= 16
  <2>1. k + 1 \in Fmts(chunks, k + 1) /\ \A j \in Fmts(chunks, k + 1) : j <= k + 1 /\ j \in Nat
    BY <1>2 DEF Fmts
  <2>2. Latest(Fmts(chunks, k + 1)) = k + 1
    <3>1. PICK l \in Fmts(chunks, k + 1) :
            l = Latest(Fmts(chunks, k + 1)) /\ \A j \in Fmts(chunks, k + 1) : j <= l
      BY <2>1 DEF Latest
    <3>2. k + 1 <= l /\ l <= k + 1 /\ l \in Nat
      BY <2>1, <3>1
    <3> QED
      BY <3>1, <3>2
  <2> QED
    BY <1>1, <1>2, <2>1, <2>2 DEF FormatOf
<1>3. CASE ~(chunks[k + 1].id = "fmt" /\ chunks[k + 1].size >= 16)
  <2>1. ASSUME NEW i \in 1 .. k + 1, i \notin 1 .. k PROVE i = k + 1
    BY <2>1
  <2>2. Fmts(chunks, k + 1) = Fmts(chunks, k)
    BY <1>3, <2>1 DEF Fmts
  <2> QED
    BY <1>1, <1>3, <2>2 DEF FormatOf
<1> QED
  BY <1>2, <1>3

LEMMA ChunkAtIs ==
  ASSUME NEW chunks, Laid(chunks), NEW size, NEW i \in 1 .. Len(chunks)
  PROVE  Cab!ChunkAt([chunks |-> chunks, begins |-> Cab!Begins(chunks), size |-> size],
                 Cab!Begins(chunks)[i]) = chunks[i]
<1>1. PICK n \in Nat : n = Len(chunks) /\ DOMAIN chunks = 1 .. n
  BY DEF Laid
<1>2. PICK begin : begin = Cab!Begins(chunks)
  OBVIOUS
<1>3. ASSUME NEW j \in 1 .. n, NEW k \in 1 .. n, j < k PROVE begin[j] # begin[k]
  <2>1. k \in 1 .. n + 1 /\ j \in 1 .. k - 1 /\ j \in 1 .. n + 1
    BY <1>3
  <2>2. begin[j] \in Nat /\ begin[k] \in Nat /\ begin[j] + 8 + chunks[j].size <= begin[k]
    BY <1>1, <1>2, <2>1, BeginsGrow
  <2>3. chunks[j].size \in Nat
    BY <1>1 DEF Laid
  <2> QED
    BY <2>2, <2>3
<1>4. ASSUME NEW j \in 1 .. n, begin[j] = begin[i] PROVE j = i
  <2>1. ~(j < i) /\ ~(i < j)
    BY <1>1, <1>3, <1>4
  <2> QED
    BY <1>1, <2>1
<1>5. {j \in DOMAIN chunks : begin[j] = begin[i]} = {i}
  BY <1>1, <1>4
<1> QED
  BY <1>2, <1>5 DEF Cab!ChunkAt

\* Before the first data chunk, and as long as every chunk is whole, a round is a chunk;
\* then the walk has ended with the answer.
LEMMA RoundsGo ==
  ASSUME NEW chunks, Laid(chunks), NEW size \in Nat, size <= Cab!Begins(chunks)[Len(chunks) + 1]
  PROVE  LET walk == Cab!Walk([chunks |-> chunks, begins |-> Cab!Begins(chunks), size |-> size])
         IN \A k \in 0 .. size :
              IF k < First(chunks) /\ \A i \in 1 .. k : ChunkFits(chunks, size, i)
              THEN walk[k] = [offset |-> Cab!Begins(chunks)[k + 1], format |-> FormatOf(chunks, k),
                              done |-> FALSE, wav |-> Cab!Rejected]
              ELSE walk[k].done /\ walk[k].wav = Answer(chunks, size)
<1>1. PICK n \in Nat, f \in Nat :
        /\ n = Len(chunks) /\ f = First(chunks) /\ f \in 1 .. n + 1
        /\ \A i \in 1 .. n : i < f => chunks[i].id # "data"
        /\ f <= n => chunks[f].id = "data"
  BY FirstIs DEF Laid
<1>2. PICK file, begin, walk :
        /\ begin = Cab!Begins(chunks)
        /\ file = [chunks |-> chunks, begins |-> Cab!Begins(chunks), size |-> size]
        /\ walk = Cab!Walk(file)
  OBVIOUS
<1>3. \A j \in 1 .. n + 1 : begin[j] \in Nat
  BY <1>1, <1>2, BeginsGrow
<1>4. \A j \in 1 .. n + 1 : \A i \in 1 .. j - 1 : begin[i] + 8 + chunks[i].size <= begin[j]
  BY <1>1, <1>2, BeginsGrow
<1>5. walk[0] = AtStart /\ \A k \in 1 .. size : walk[k] = Cab!Round(file, walk[k - 1])
  BY <1>2, WalkIs
<1> DEFINE Fine(k) == k < f /\ \A i \in 1 .. k : ChunkFits(chunks, size, i)
           Going(k) == walk[k] = [offset |-> begin[k + 1], format |-> FormatOf(chunks, k),
                                  done |-> FALSE, wav |-> Cab!Rejected]
           Gone(k) == walk[k].done /\ walk[k].wav = Answer(chunks, size)
           Good(k) == IF Fine(k) THEN Going(k) ELSE Gone(k)
<1>6. Good(0)
  <2>1. FormatOf(chunks, 0) = Cab!NoFormat
    BY DEF FormatOf, Fmts
  <2>2. begin[0 + 1] = 12
    BY <1>2, BeginsIs
  <2>3. Going(0)
    BY <1>5, <2>1, <2>2 DEF AtStart
  <2>4. Fine(0)
    BY <1>1
  <2> QED
    BY <2>3, <2>4
<1>7. ASSUME NEW k \in Nat, k + 1 <= size, Good(k)
      PROVE  Good(k + 1)
  <2>1. walk[k + 1] = Cab!Round(file, walk[k])
    <3>1. k + 1 \in 1 .. size /\ (k + 1) - 1 = k
      BY <1>7
    <3> QED
      BY <1>5, <3>1
  <2>2. CASE ~Fine(k)
    <3>1. Gone(k)
      BY <1>7, <2>2
    <3>2. walk[k + 1] = walk[k]
      BY <2>1, <3>1 DEF Cab!Round
    <3>3. ~Fine(k + 1)
      <4>1. 1 .. k \subseteq 1 .. k + 1 /\ (k + 1 < f => k < f)
        BY <1>1
      <4> QED
        BY <2>2, <4>1
    <3> HIDE DEF Fine
    <3> QED
      BY <3>1, <3>2, <3>3
  <2>3. CASE Fine(k)
    <3>1. Going(k)
      BY <1>7, <2>3
    <3>2. PICK spot \in Nat : spot = begin[k + 1]
      BY <1>1, <1>3, <2>3
    <3>3. /\ walk[k].offset = spot /\ walk[k].format = FormatOf(chunks, k)
          /\ walk[k].done = FALSE /\ walk[k].wav = Cab!Rejected
          /\ walk[k] = [offset |-> spot, format |-> FormatOf(chunks, k),
                        done |-> FALSE, wav |-> Cab!Rejected]
      BY <3>1, <3>2
    <3> HIDE DEF Going
    <3>4. CASE k + 1 > n
      <4>1. k + 1 = n + 1 /\ f = n + 1
        BY <1>1, <2>3, <3>4
      <4>2. spot + 8 > size
        BY <1>1, <1>2, <3>2, <4>1
      <4>3. Cab!Round(file, walk[k]) = Cab!Ended(walk[k], Cab!Rejected)
        <5>1. file.size = size
          BY <1>2
        <5> QED
          BY <3>3, <4>2, <5>1 DEF Cab!Round
      <4>4. walk[k + 1].done /\ walk[k + 1].wav = Cab!Rejected
        BY <2>1, <3>3, <4>3 DEF Cab!Ended
      <4>5. Answer(chunks, size) = Cab!Rejected /\ ~(k + 1 < f)
        BY <1>1, <4>1 DEF Answer
      <4> QED
        BY <4>4, <4>5
    <3>5. CASE k + 1 <= n
      <4>1. k + 1 \in 1 .. n
        BY <3>5
      <4>2. PICK chunk : chunk = chunks[k + 1]
        OBVIOUS
      <4>3. PICK chunkSize \in Nat : chunkSize = chunk.size
        BY <1>1, <4>1, <4>2 DEF Laid
      <4>4. Cab!ChunkAt(file, spot) = chunk /\ file.size = size
        BY <1>1, <1>2, <3>2, <4>1, <4>2, <4>3, ChunkAtIs
      <4>5. ChunkFits(chunks, size, k + 1) <=> spot + 8 + chunkSize <= size
        BY <1>2, <3>2, <4>2, <4>3 DEF ChunkFits
      <4>6. CASE ~ChunkFits(chunks, size, k + 1)
        <5>1. spot + 8 > size \/ spot + 8 + chunkSize > size
          BY <4>5, <4>6
        <5>2. Cab!Round(file, walk[k]) = Cab!Ended(walk[k], Cab!Rejected)
          BY <3>3, <4>2, <4>3, <4>4, <5>1 DEF Cab!Round
        <5>3. walk[k + 1].done /\ walk[k + 1].wav = Cab!Rejected
          BY <2>1, <3>3, <5>2 DEF Cab!Ended
        <5>4. ~Fine(k + 1)
          <6>1. k + 1 \in 1 .. k + 1
            OBVIOUS
          <6> QED
            BY <4>6, <6>1
        <5>5. Answer(chunks, size) = Cab!Rejected
          <6>1. ASSUME f <= n PROVE ~ChunkFits(chunks, size, f)
            <7>1. CASE f = k + 1
              BY <4>6, <7>1
            <7>2. CASE f # k + 1
              <8>1. k + 1 \in 1 .. f - 1 /\ f \in 1 .. n + 1 /\ f \in 1 .. n
                BY <1>1, <2>3, <6>1, <7>2
              <8>2. spot + 8 + chunkSize <= begin[f]
                BY <1>4, <3>2, <4>2, <4>3, <8>1
              <8>3. begin[f] \in Nat /\ chunks[f].size \in Nat
                BY <1>1, <1>3, <8>1 DEF Laid
              <8>4. ~(begin[f] + 8 + chunks[f].size <= size)
                BY <4>5, <4>6, <8>2, <8>3
              <8> QED
                BY <1>2, <8>4 DEF ChunkFits
            <7> QED
              BY <7>1, <7>2
          <6> QED
            BY <1>1, <6>1 DEF Answer
        <5> HIDE DEF Fine
        <5> QED
          BY <5>3, <5>4, <5>5
      <4>7. CASE ChunkFits(chunks, size, k + 1)
        <5>1. ~(spot + 8 > size \/ spot + 8 + chunkSize > size)
          BY <4>5, <4>7
        <5>2. CASE k + 1 = f
          <6>1. chunk.id = "data"
            BY <1>1, <3>5, <4>2, <4>3, <5>2
          <6>2. Cab!Round(file, walk[k]) = Cab!Ended(walk[k], Cab!Data(chunk.size, walk[k].format))
            BY <3>3, <4>2, <4>3, <4>4, <5>1, <6>1 DEF Cab!Round
          <6>3. walk[k + 1].done /\ walk[k + 1].wav = Cab!Data(chunk.size, FormatOf(chunks, k))
            BY <2>1, <3>3, <6>2 DEF Cab!Ended
          <6>4. Answer(chunks, size) = Cab!Data(chunk.size, FormatOf(chunks, k))
            <7>1. f - 1 = k
              BY <5>2
            <7> QED
              BY <1>1, <3>5, <4>2, <4>3, <4>7, <5>2, <7>1 DEF Answer
          <6>5. ~Fine(k + 1)
            BY <1>1, <5>2
          <6> HIDE DEF Fine
          <6> QED
            BY <6>3, <6>4, <6>5
        <5>3. CASE k + 1 # f
          <6>1. k + 1 < f
            BY <1>1, <2>3, <5>3
          <6>2. chunk.id # "data"
            BY <1>1, <4>1, <4>2, <4>3, <6>1
          <6>3. Cab!Round(file, walk[k])
                  = [offset |-> Cab!NextOffset(spot + 8, chunkSize),
                     format |-> IF chunk.id = "fmt" /\ chunk.size >= 16 THEN chunk.format
                                ELSE FormatOf(chunks, k),
                     done |-> FALSE, wav |-> Cab!Rejected]
            BY <3>3, <4>2, <4>3, <4>4, <5>1, <6>2 DEF Cab!Round
          <6>4. FormatOf(chunks, k + 1)
                  = IF chunk.id = "fmt" /\ chunk.size >= 16 THEN chunk.format
                    ELSE FormatOf(chunks, k)
            BY <1>1, <3>5, <4>2, <4>3, FormatGoesOn
          <6>5. begin[(k + 1) + 1] = Cab!NextOffset(spot + 8, chunkSize)
            BY <1>1, <1>2, <3>2, <4>1, <4>2, <4>3, BeginsIs DEF EndOf, Cab!NextOffset
          <6>6. Going(k + 1)
            BY <2>1, <6>3, <6>4, <6>5 DEF Going
          <6>7. Fine(k + 1)
            <7>1. \A i \in 1 .. k + 1 : i \in 1 .. k \/ i = k + 1
              OBVIOUS
            <7> QED
              BY <2>3, <4>7, <6>1, <7>1
          <6> HIDE DEF Fine
          <6> QED
            BY <6>6, <6>7
        <5> QED
          BY <5>2, <5>3
      <4> QED
        BY <4>6, <4>7
    <3> QED
      BY <1>1, <3>4, <3>5
  <2> QED
    BY <2>2, <2>3
<1> HIDE DEF Good
<1> DEFINE Wrong == {k \in 0 .. size : ~Good(k)}
<1>8. Wrong = {}
  <2>1. SUFFICES ASSUME Wrong # {} PROVE FALSE
    OBVIOUS
  <2>2. Wrong \in SUBSET Nat
    OBVIOUS
  <2>3. PICK m \in Wrong : \A i \in Wrong : m <= i
    <3> HIDE DEF Wrong
    <3> QED
      BY <2>1, <2>2, LeastIn
  <2>4. PICK k \in Nat : m = k + 1 /\ k \in 0 .. size /\ k + 1 <= size /\ ~(m <= k)
    <3>1. m - 1 \in Nat /\ m = (m - 1) + 1
      BY <1>6, <2>3
    <3> QED
      BY <3>1
  <2>5. Good(k)
    BY <2>3, <2>4
  <2> QED
    BY <1>7, <2>3, <2>4, <2>5
<1>9. ASSUME NEW k \in 0 .. size PROVE Good(k)
  BY <1>8
<1> QED
  BY <1>1, <1>2, <1>9 DEF Good

\* A file is read if and only if its first data is whole and in a format that can be
\* read, given by a complete format chunk before it.
LEMMA ParseIs ==
  ASSUME NEW chunks, Laid(chunks), NEW cut \in Nat
  PROVE  LET wav    == Cab!ParseWav(Cab!File(chunks, cut))
             d      == First(chunks)
             format == FormatOf(chunks, d - 1)
         IN /\ wav.ok <=> /\ Datas(chunks) # {} /\ Fmts(chunks, d - 1) # {} /\ Cab!Readable(format)
                          /\ ChunkFits(chunks, Cab!File(chunks, cut).size, d)
            /\ wav.ok => /\ wav.rate = format.rate
                         /\ wav.frames = chunks[d].size
                                           \div (Cab!BytesPerSample(format) * format.channels)
<1>1. PICK n \in Nat, d \in Nat :
        n = Len(chunks) /\ d = First(chunks) /\ d \in 1 .. n + 1
  <2>1. Len(chunks) \in Nat
    BY DEF Laid
  <2>2. First(chunks) \in 1 .. Len(chunks) + 1
    BY FirstIs
  <2> QED
    BY <2>1, <2>2
<1>2. PICK end \in Nat : end = Cab!Begins(chunks)[n + 1] /\ \A i \in 1 .. n : Cab!Begins(chunks)[i] > i
  BY <1>1, BeginsGrow
<1>3. PICK size \in Int : size = end - cut
  BY <1>2
<1>4. Cab!File(chunks, cut) = [chunks |-> chunks, begins |-> Cab!Begins(chunks), size |-> size]
  BY <1>1, <1>2, <1>3 DEF Cab!File
<1>5. PICK file : file = Cab!File(chunks, cut)
  OBVIOUS
<1> DEFINE format == FormatOf(chunks, d - 1)
           whole == d <= n /\ ChunkFits(chunks, size, d)
<1>6. ~Cab!Readable(Cab!NoFormat)
  BY DEF Cab!Readable, Cab!NoFormat
<1>7. d <= n <=> Datas(chunks) # {}
  BY <1>1, FirstIs
<1>8. Fmts(chunks, d - 1) = {} => ~Cab!Readable(format)
  BY <1>6 DEF FormatOf
<1>9. /\ Cab!Rejected.ok = FALSE
      /\ Cab!Data(chunks[d].size, format).ok = TRUE <=> Cab!Readable(format)
      /\ Cab!Data(chunks[d].size, format).ok \in BOOLEAN
      /\ Cab!Readable(format) =>
           /\ Cab!Data(chunks[d].size, format).rate = format.rate
           /\ Cab!Data(chunks[d].size, format).frames
                = chunks[d].size \div (Cab!BytesPerSample(format) * format.channels)
  BY DEF Cab!Data, Cab!Rejected
<1>10. Answer(chunks, size) = IF whole THEN Cab!Data(chunks[d].size, format) ELSE Cab!Rejected
  BY <1>1 DEF Answer
<1>11. CASE size < 44
  <2>1. Cab!ParseWav(file) = Cab!Rejected
    BY <1>4, <1>5, <1>11 DEF Cab!ParseWav
  <2>2. ASSUME whole, Fmts(chunks, d - 1) # {} PROVE FALSE
    <3>1. PICK i \in 1 .. d - 1 : chunks[i].size >= 16
      BY <2>2 DEF Fmts
    <3>2. d \in 1 .. n /\ d \in 1 .. n + 1 /\ i \in 1 .. n /\ i \in 1 .. n + 1
      BY <1>1, <2>2
    <3>3. PICK b \in Nat, e \in Nat : b = Cab!Begins(chunks)[i] /\ e = Cab!Begins(chunks)[d] /\ b >= 12
      BY <1>1, <3>2, BeginsGrow
    <3>4. PICK s \in Nat, t \in Nat : s = chunks[i].size /\ t = chunks[d].size
      <4>1. chunks[i].size \in Nat /\ chunks[d].size \in Nat
        BY <1>1, <3>2 DEF Laid
      <4> QED
        BY <4>1
    <3>5. b + 8 + s <= e
      BY <1>1, <3>2, <3>3, <3>4, BeginsGrow
    <3>6. e + 8 + t <= size
      BY <2>2, <3>3, <3>4 DEF ChunkFits
    <3> QED
      BY <1>11, <3>1, <3>3, <3>4, <3>5, <3>6
  <2> HIDE DEF whole
  <2>3. ~(Datas(chunks) # {} /\ Fmts(chunks, d - 1) # {} /\ ChunkFits(chunks, size, d))
    BY <1>7, <2>2 DEF whole
  <2> QED
    BY <1>1, <1>4, <1>5, <1>9, <2>1, <2>3
<1>12. CASE size >= 44
  <2>1. PICK walk : walk = Cab!Walk(file)
    OBVIOUS
  <2>2. size \in Nat /\ size <= end
    BY <1>2, <1>3, <1>12
  <2>3. \A k \in 0 .. size :
          IF k < d /\ \A i \in 1 .. k : ChunkFits(chunks, size, i)
          THEN walk[k] = [offset |-> Cab!Begins(chunks)[k + 1], format |-> FormatOf(chunks, k),
                          done |-> FALSE, wav |-> Cab!Rejected]
          ELSE walk[k].done /\ walk[k].wav = Answer(chunks, size)
    BY <1>1, <1>2, <1>4, <1>5, <2>1, <2>2, RoundsGo
  <2>4. ~(size < d /\ \A i \in 1 .. size : ChunkFits(chunks, size, i))
    <3>1. SUFFICES ASSUME size < d, ChunkFits(chunks, size, size) PROVE FALSE
      BY <1>12, <2>2
    <3>2. size \in 1 .. n /\ size \in 1 .. n + 1
      BY <1>1, <1>12, <3>1
    <3>3. PICK b \in Nat : b = Cab!Begins(chunks)[size] /\ b > size
      BY <1>1, <3>2, BeginsGrow
    <3>4. PICK s \in Nat : s = chunks[size].size
      <4>1. chunks[size].size \in Nat
        BY <1>1, <3>2 DEF Laid
      <4> QED
        BY <4>1
    <3> QED
      BY <2>2, <3>1, <3>3, <3>4 DEF ChunkFits
  <2>5. walk[size].wav = Answer(chunks, size)
    <3>1. size \in 0 .. size
      BY <2>2
    <3> HIDE DEF format
    <3> QED
      BY <2>3, <2>4, <3>1
  <2>6. Cab!ParseWav(file) = Answer(chunks, size)
    <3>1. file.size = size /\ ~(size < 44)
      BY <1>4, <1>5, <1>12
    <3> QED
      BY <2>1, <2>5, <3>1 DEF Cab!ParseWav
  <2> HIDE DEF format
  <2>7. CASE whole
    <3>1. Cab!ParseWav(file) = Cab!Data(chunks[d].size, format)
      BY <1>10, <2>6, <2>7
    <3>2. Datas(chunks) # {} /\ ChunkFits(chunks, size, d)
      BY <1>7, <2>7
    <3> QED
      BY <1>1, <1>4, <1>5, <1>8, <1>9, <3>1, <3>2 DEF format
  <2>8. CASE ~whole
    <3>1. Cab!ParseWav(file) = Cab!Rejected
      BY <1>10, <2>6, <2>8
    <3>2. ~(Datas(chunks) # {} /\ ChunkFits(chunks, size, d))
      BY <1>7, <2>8
    <3> QED
      BY <1>1, <1>4, <1>5, <1>9, <3>1, <3>2
  <2> QED
    BY <2>7, <2>8
<1> QED
  BY <1>11, <1>12

(* The invariant *)

LEMMA RecordingsAreLaid ==
  ASSUME NEW chunks \in Recordings
  PROVE  Laid(chunks)
<1>1. /\ chunks \in Seq({chunks[i] : i \in DOMAIN chunks})
      /\ \A i \in DOMAIN chunks :
           /\ chunks[i].size \in Nat
           /\ chunks[i].format \in [code : Nat, channels : Nat, rate : Nat, bits : Nat]
  BY CabFacts DEF Cab!CabAssumption
<1>2. Len(chunks) \in Nat /\ DOMAIN chunks = 1 .. Len(chunks)
  BY <1>1
<1> QED
  BY <1>1, <1>2 DEF Laid

CabInv ==
  /\ asset = [len |-> asset.len, rate |-> asset.rate, tried |-> asset.tried, ok |-> asset.ok]
  /\ asset.len \in Nat /\ (asset.len # 0 => asset.rate \in Nat \ {0})
  /\ cab.taps \in Nat \ {0} /\ heard \in Nat
  /\ ~cab.prepared => cab.taps = 1 /\ ~cab.partitioned
  /\ cab.prepared => ConvOK(cab.taps, cab.partitioned, conv, heard)
  /\ Cab!ConvolutionIsExact /\ Cab!RecordingIsWhole

LEMMA CabStarts == Cab!Init => CabInv
<1> SUFFICES ASSUME Cab!Init PROVE CabInv
  OBVIOUS
<1>1. out = << >> /\ asset.tried = << >>
  BY DEF Cab!Init
<1>2. DOMAIN out = {}
  BY <1>1
<1>3. Cab!ConvolutionIsExact
  BY <1>2 DEF Cab!ConvolutionIsExact
<1>4. Cab!RecordingIsWhole
  BY <1>1 DEF Cab!RecordingIsWhole
<1> QED
  BY <1>3, <1>4 DEF Cab!Init, CabInv

LEMMA ClearedConvIsOK ==
  ASSUME NEW taps \in Nat \ {0}, NEW partitioned
  PROVE  ConvOK(taps, partitioned, Cab!Cleared(taps, partitioned), 0)
BY DirectStarts, PartStarts DEF ConvOK, Cab!Cleared

LEMMA ResampledIs ==
  ASSUME NEW len \in Nat, NEW from, NEW to \in Nat \ {0}, len # 0 => from \in Nat \ {0}
  PROVE  Cab!Resampled(len, from, to) \in Nat \ {0}
<1>1. CASE len = 0 \/ from = to
  BY <1>1 DEF Cab!Resampled
<1>2. CASE ~(len = 0 \/ from = to)
  <2>1. PICK n \in Nat, hertz \in Nat \ {0} : n = len * to /\ hertz = from
    <3>1. len * to \in Nat
      OBVIOUS
    <3> QED
      BY <1>2, <3>1
  <2>2. n \div hertz \in Nat
    BY <2>1, BlocksOf
  <2>3. Cab!Resampled(len, from, to) = (n \div hertz) + 1
    BY <1>2, <2>1 DEF Cab!Resampled
  <2> QED
    BY <2>2, <2>3
<1> QED
  BY <1>1, <1>2

LEMMA CabPrepareKeeps ==
  ASSUME CabInv, NEW hertz \in EngineRates, NEW n \in 1 .. MaxBlock, Cab!Prepare(hertz, n)
  PROVE  CabInv'
<1>1. PICK taps : taps = Cab!Resampled(asset.len, asset.rate, hertz)
  OBVIOUS
<1>2. taps \in Nat \ {0}
  <2>1. hertz \in Nat \ {0}
    BY CabFacts DEF Cab!CabAssumption
  <2> QED
    BY <1>1, <2>1, ResampledIs DEF CabInv
<1>3. /\ cab' = [prepared |-> TRUE, taps |-> taps, partitioned |-> taps > DirectLimit,
                 maxBlock |-> n]
      /\ conv' = Cab!Cleared(taps, taps > DirectLimit) /\ heard' = 0 /\ out' = << >>
      /\ asset' = Cab!Answered
  BY <1>1 DEF Cab!Prepare
<1>4. ConvOK(taps, taps > DirectLimit, conv', 0)
  BY <1>2, <1>3, ClearedConvIsOK
<1>5. asset' = [len |-> asset.len, rate |-> asset.rate, tried |-> << >>, ok |-> FALSE]
  BY <1>3 DEF CabInv, Cab!Answered
<1>6. Cab!ConvolutionIsExact' /\ Cab!RecordingIsWhole'
  <2>1. out' = << >> /\ asset'.tried = << >>
    BY <1>3, <1>5
  <2>2. DOMAIN out' = {}
    BY <2>1
  <2>3. Cab!ConvolutionIsExact'
    BY <2>2 DEF Cab!ConvolutionIsExact
  <2>4. Cab!RecordingIsWhole'
    BY <2>1 DEF Cab!RecordingIsWhole
  <2> QED
    BY <2>3, <2>4
<1>7. (ConvOK(cab.taps, cab.partitioned, conv, heard))'
  BY <1>3, <1>4 DEF ConvOK
<1> QED
  BY <1>2, <1>3, <1>5, <1>6, <1>7 DEF CabInv

LEMMA CabResetKeeps ==
  ASSUME CabInv, Cab!Reset
  PROVE  CabInv'
<1>1. /\ conv' = Cab!Cleared(cab.taps, cab.partitioned) /\ heard' = 0 /\ out' = << >>
      /\ asset' = Cab!Answered /\ cab' = cab
  BY DEF Cab!Reset
<1>2. ConvOK(cab.taps, cab.partitioned, conv', 0)
  BY <1>1, ClearedConvIsOK DEF CabInv
<1>3. asset' = [len |-> asset.len, rate |-> asset.rate, tried |-> << >>, ok |-> FALSE]
  BY <1>1 DEF CabInv, Cab!Answered
<1>4. Cab!ConvolutionIsExact' /\ Cab!RecordingIsWhole'
  <2>1. out' = << >> /\ asset'.tried = << >>
    BY <1>1, <1>3
  <2>2. DOMAIN out' = {}
    BY <2>1
  <2>3. Cab!ConvolutionIsExact'
    BY <2>2 DEF Cab!ConvolutionIsExact
  <2>4. Cab!RecordingIsWhole'
    BY <2>1 DEF Cab!RecordingIsWhole
  <2> QED
    BY <2>3, <2>4
<1>5. (ConvOK(cab.taps, cab.partitioned, conv, heard))'
  BY <1>1, <1>2 DEF ConvOK
<1> QED
  BY <1>1, <1>3, <1>4, <1>5 DEF CabInv

LEMMA CabProcessKeeps ==
  ASSUME CabInv, NEW n \in 1 .. MaxBlock, Cab!Process(n)
  PROVE  CabInv'
<1>1. PICK now \in Nat, taps \in Nat \ {0} : now = heard /\ taps = cab.taps
  BY DEF CabInv
<1>2. n \in Nat
  OBVIOUS
<1>3. /\ conv' = Cab!Run(n)[n].conv /\ heard' = now + n /\ cab' = cab /\ asset' = Cab!Answered
      /\ out' = [i \in 1 .. n |-> Cab!Run(n)[i].out]
  BY <1>1 DEF Cab!Process
<1>4. asset' = [len |-> asset.len, rate |-> asset.rate, tried |-> << >>, ok |-> FALSE]
  BY <1>3 DEF CabInv, Cab!Answered
<1>5. PICK delay \in Nat : delay = Cab!Delay /\ delay = Cab!Delay'
  <2>1. Cab!Delay = Cab!Delay'
    BY <1>3 DEF Cab!Delay
  <2>2. Cab!Delay \in Nat
    BY CabFacts DEF Cab!Delay, Cab!CabAssumption
  <2> QED
    BY <2>1, <2>2
<1>6. /\ cab.prepared => ConvOK(taps, cab.partitioned, conv', now + n)
      /\ \A i \in 1 .. n : Cab!Run(n)[i].out = Exact(taps, now + i - 1 - delay)
  <2>1. CASE cab.prepared
    <3>1. ConvOK(taps, cab.partitioned, conv, now)
      BY <1>1, <2>1 DEF CabInv
    <3>2. \A i \in 0 .. n :
            /\ ConvOK(taps, cab.partitioned, Cab!Run(n)[i].conv, now + i)
            /\ i # 0 => Cab!Run(n)[i].out = Exact(taps, now + i - 1 - delay)
      BY <1>1, <1>2, <1>5, <2>1, <3>1, RunsOn
    <3>3. n \in 0 .. n /\ \A i \in 1 .. n : i \in 0 .. n /\ i # 0
      BY <1>2
    <3> QED
      BY <1>3, <3>2, <3>3
  <2>2. CASE ~cab.prepared
    <3>1. taps = 1 /\ delay = 0
      BY <1>1, <1>5, <2>2 DEF CabInv, Cab!Delay
    <3>2. ASSUME NEW i \in 1 .. n
          PROVE  Cab!Run(n)[i].out = Exact(taps, now + i - 1 - delay)
      <4>1. PICK s \in Nat : s = now + i - 1 /\ s = now + i - 1 - delay
        BY <3>1
      <4>2. Cab!Run(n)[i].out = Cab!Product(0, s)
        <5>1. Cab!Run(n)[i] = OneSample(Cab!Run(n)[i - 1], i)
          BY <1>2, RunIs
        <5>2. OneSample(Cab!Run(n)[i - 1], i) = [conv |-> conv, out |-> Cab!Product(0, s)]
          BY <1>1, <2>2, <4>1 DEF OneSample
        <5> QED
          BY <5>1, <5>2
      <4>3. {<<k, s - k>> : k \in {k \in 0 .. 1 - 1 : s - k >= 0}} = {<<0, s>>}
        <5>1. {k \in 0 .. 1 - 1 : s - k >= 0} = {0}
          OBVIOUS
        <5>2. s - 0 = s
          OBVIOUS
        <5> QED
          BY <5>1, <5>2
      <4>4. s # Cab!Silence
        BY DEF Cab!Silence
      <4> QED
        BY <3>1, <4>1, <4>2, <4>3, <4>4 DEF Cab!Product, Exact, Pending
    <3> QED
      BY <2>2, <3>2
  <2> QED
    BY <2>1, <2>2
<1>7. Cab!ConvolutionIsExact'
  <2>1. DOMAIN out' = 1 .. n /\ Len(out') = n
    BY <1>2, <1>3
  <2>2. ASSUME NEW i \in 1 .. n
        PROVE  LET t == heard' - Len(out') + i - 1
               IN out'[i] = Cab!SetToBag({<<k, t - Cab!Delay' - k>> :
                              k \in {k \in 0 .. cab.taps' - 1 : t - Cab!Delay' - k >= 0}})
    <3>1. PICK t \in Int, s \in Int : t = heard' - Len(out') + i - 1 /\ s = t - delay
      BY <1>1, <1>2, <1>3, <2>1
    <3>2. s = now + i - 1 - delay
      BY <1>1, <1>2, <1>3, <2>1, <3>1
    <3>3. out'[i] = Exact(taps, s)
      BY <1>3, <1>6, <3>2
    <3>4. cab'.taps = taps /\ t - Cab!Delay' = s
      BY <1>1, <1>3, <1>5, <3>1
    <3>5. out'[i] = Cab!SetToBag({<<k, t - Cab!Delay' - k>> :
                      k \in {k \in 0 .. cab'.taps - 1 : t - Cab!Delay' - k >= 0}})
      BY <3>3, <3>4 DEF Exact, Pending
    <3> QED
      BY <3>1, <3>5
  <2> QED
    BY <2>1, <2>2 DEF Cab!ConvolutionIsExact
<1>8. Cab!RecordingIsWhole'
  BY <1>4 DEF Cab!RecordingIsWhole
<1>9. (cab.prepared => ConvOK(cab.taps, cab.partitioned, conv, heard))'
  BY <1>1, <1>3, <1>6 DEF ConvOK
<1> QED
  BY <1>1, <1>2, <1>3, <1>4, <1>7, <1>8, <1>9 DEF CabInv

\* RecordingIsWhole, of what was tried and the answer.
TakenWhole(chunks, cut, ok, len, hertz) ==
  LET datas  == {i \in DOMAIN chunks : chunks[i].id = "data"}
      d      == CHOOSE i \in datas : \A j \in datas : i <= j
      fmts   == {i \in 1 .. d - 1 : chunks[i].id = "fmt" /\ chunks[i].size >= 16}
      format == chunks[CHOOSE i \in fmts : \A j \in fmts : j <= i].format
      frames == chunks[d].size \div (Cab!BytesPerSample(format) * format.channels)
  IN /\ ok <=>
          /\ datas # {} /\ fmts # {} /\ Cab!Readable(format)
          /\ Cab!Begins(chunks)[d] + 8 + chunks[d].size <= Cab!File(chunks, cut).size
          /\ frames \in 1 .. MaxIrSamples
     /\ ok => len = frames /\ hertz = format.rate

LEMMA LastIs ==
  ASSUME NEW k \in Nat, NEW S \in SUBSET (1 .. k), S # {}
  PROVE  Latest(S) \in S
<1> DEFINE T == {k - j : j \in S}
<1>1. T \in SUBSET Nat /\ T # {}
  <2>1. ASSUME NEW j \in S PROVE k - j \in Nat
    OBVIOUS
  <2>2. T \subseteq Nat
    BY <2>1
  <2> QED
    BY <2>2
<1>2. PICK x \in T : \A y \in T : x <= y
  <2> HIDE DEF T
  <2> QED
    BY <1>1, LeastIn
<1>3. PICK l \in S : x = k - l
  BY <1>2
<1>4. ASSUME NEW j \in S PROVE j <= l
  <2>1. k - j \in T
    OBVIOUS
  <2>2. x <= k - j
    BY <1>2, <2>1
  <2>3. j \in Nat /\ l \in Nat
    BY <1>3
  <2> QED
    BY <1>3, <2>2, <2>3
<1> QED
  BY <1>4 DEF Latest

LEMMA CabLoadKeeps ==
  ASSUME CabInv, NEW chunks \in Recordings, NEW cut \in Cuts, Cab!LoadAsset(chunks, cut)
  PROVE  CabInv'
<1>1. Laid(chunks) /\ cut \in Nat
  BY RecordingsAreLaid, CabFacts DEF Cab!CabAssumption
<1>2. PICK n \in Nat, d \in Nat : n = Len(chunks) /\ d = First(chunks) /\ d \in 1 .. n + 1
  <2>1. Len(chunks) \in Nat
    BY <1>1 DEF Laid
  <2>2. First(chunks) \in 1 .. Len(chunks) + 1
    BY <1>1, FirstIs
  <2> QED
    BY <2>1, <2>2
<1> DEFINE wav == Cab!ParseWav(Cab!File(chunks, cut))
           size == Cab!File(chunks, cut).size
           good == wav.ok /\ wav.frames \in 1 .. MaxIrSamples
           format == FormatOf(chunks, d - 1)
           frames == chunks[d].size \div (Cab!BytesPerSample(format) * format.channels)
<1>3. /\ asset' = [len |-> IF good THEN wav.frames ELSE asset.len,
                   rate |-> IF good THEN wav.rate ELSE asset.rate,
                   tried |-> <<chunks, cut>>, ok |-> good]
      /\ cab' = cab /\ conv' = conv /\ heard' = heard /\ out' = out
  BY DEF Cab!LoadAsset
<1>4. /\ wav.ok <=> /\ Datas(chunks) # {} /\ Fmts(chunks, d - 1) # {} /\ Cab!Readable(format)
                    /\ ChunkFits(chunks, size, d)
      /\ wav.ok => wav.rate = format.rate /\ wav.frames = frames
  BY <1>1, <1>2, ParseIs
<1> HIDE DEF wav
<1>5. ASSUME Datas(chunks) # {}
      PROVE  /\ d = CHOOSE i \in Datas(chunks) : \A j \in Datas(chunks) : i <= j
  BY <1>2, <1>5 DEF First
<1>6. ASSUME Fmts(chunks, d - 1) # {}
      PROVE  format = chunks[CHOOSE i \in Fmts(chunks, d - 1) :
                               \A j \in Fmts(chunks, d - 1) : j <= i].format
  BY <1>6 DEF FormatOf, Latest
<1>7. asset'.tried = <<chunks, cut>> /\ asset'.ok = good
      /\ (good => asset'.len = wav.frames /\ asset'.rate = wav.rate)
  BY <1>3
<1>8. Cab!RecordingIsWhole'
  <2> DEFINE datas  == {i \in DOMAIN chunks : chunks[i].id = "data"}
             first  == CHOOSE i \in datas : \A j \in datas : i <= j
             fmts   == {i \in 1 .. first - 1 : chunks[i].id = "fmt" /\ chunks[i].size >= 16}
             theirs == chunks[CHOOSE i \in fmts : \A j \in fmts : j <= i].format
             told  == chunks[first].size \div (Cab!BytesPerSample(theirs) * theirs.channels)
  <2>1. datas = Datas(chunks)
    BY DEF Datas
  <2>2. ASSUME datas # {} PROVE first = d /\ fmts = Fmts(chunks, d - 1)
    BY <1>5, <2>1, <2>2 DEF Fmts
  <2>3. ASSUME datas # {}, fmts # {} PROVE theirs = format
    BY <1>6, <2>2, <2>3
  <2>4. Cab!Begins(chunks)[d] + 8 + chunks[d].size <= size <=> ChunkFits(chunks, size, d)
    BY DEF ChunkFits
  <2>5. good <=> /\ datas # {} /\ fmts # {} /\ Cab!Readable(theirs)
                 /\ Cab!Begins(chunks)[first] + 8 + chunks[first].size <= size
                 /\ told \in 1 .. MaxIrSamples
    <3> HIDE DEF datas, first, fmts, theirs, format, size
    <3>1. ASSUME datas # {}, fmts # {} PROVE told = frames
      BY <2>2, <2>3, <3>1
    <3> HIDE DEF told, frames
    <3> QED
      BY <1>4, <2>1, <2>2, <2>3, <2>4, <3>1
  <2>6. good => wav.frames = told /\ wav.rate = theirs.rate
    <3> HIDE DEF datas, first, fmts, theirs, format, size
    <3> QED
      BY <1>4, <2>1, <2>2, <2>3
  <2> HIDE DEF good
  <2>7. TakenWhole(chunks, cut, good, asset'.len, asset'.rate)
    BY <1>7, <2>5, <2>6 DEF TakenWhole
  <2>8. /\ asset'.tried[1] = chunks /\ asset'.tried[2] = cut
        /\ TakenWhole(asset'.tried[1], asset'.tried[2], asset'.ok, asset'.len, asset'.rate)
    BY <1>7, <2>7
  <2> QED
    BY <2>8 DEF Cab!RecordingIsWhole, TakenWhole
<1>9. good => wav.rate \in Nat \ {0} /\ wav.frames \in Nat
  <2>1. ASSUME good PROVE format.rate \in Nat \ {0}
    <3>1. Cab!Readable(format) /\ Fmts(chunks, d - 1) # {}
      BY <1>4, <2>1
    <3>2. format.rate # 0
      BY <3>1 DEF Cab!Readable
    <3>3. format.rate \in Nat
      <4>1. Fmts(chunks, d - 1) \in SUBSET Nat /\ Fmts(chunks, d - 1) \subseteq 1 .. n
        BY <1>2 DEF Fmts
      <4>2. PICK l : l = Latest(Fmts(chunks, d - 1))
        OBVIOUS
      <4>3. l \in 1 .. n
        BY <1>2, <3>1, <4>1, <4>2, LastIs
      <4> QED
        BY <1>1, <1>2, <3>1, <4>2, <4>3 DEF FormatOf, Laid
    <3> QED
      BY <3>2, <3>3
  <2> QED
    BY <1>4, <2>1
<1>10. Cab!ConvolutionIsExact'
  BY <1>3 DEF CabInv, Cab!ConvolutionIsExact, Cab!Delay
<1>11. (cab.prepared => ConvOK(cab.taps, cab.partitioned, conv, heard))'
  BY <1>3 DEF CabInv, ConvOK
<1> HIDE DEF good
<1> QED
  BY <1>3, <1>8, <1>9, <1>10, <1>11 DEF CabInv

LEMMA CabStep == CabInv /\ [Cab!Next]_(Cab!vars) => CabInv'
<1> SUFFICES ASSUME CabInv, [Cab!Next]_(Cab!vars) PROVE CabInv'
  OBVIOUS
<1>1. CASE \E chunks \in Recordings, cut \in Cuts : Cab!LoadAsset(chunks, cut)
  BY <1>1, CabLoadKeeps
<1>2. CASE \E hertz \in EngineRates, n \in 1 .. MaxBlock : Cab!Prepare(hertz, n)
  BY <1>2, CabPrepareKeeps
<1>3. CASE \E n \in 1 .. MaxBlock : Cab!Process(n)
  BY <1>3, CabProcessKeeps
<1>4. CASE Cab!Reset
  BY <1>4, CabResetKeeps
<1>5. CASE UNCHANGED Cab!vars
  <2>1. asset' = asset /\ cab' = cab /\ conv' = conv /\ heard' = heard /\ out' = out
    BY <1>5 DEF Cab!vars
  <2>2. Cab!ConvolutionIsExact'
    BY <2>1 DEF CabInv, Cab!ConvolutionIsExact, Cab!Delay
  <2>3. Cab!RecordingIsWhole'
    <3>1. asset.tried # << >> =>
            TakenWhole(asset.tried[1], asset.tried[2], asset.ok, asset.len, asset.rate)
      BY DEF CabInv, Cab!RecordingIsWhole, TakenWhole
    <3>2. asset'.tried # << >> =>
            TakenWhole(asset'.tried[1], asset'.tried[2], asset'.ok, asset'.len, asset'.rate)
      BY <2>1, <3>1
    <3> QED
      BY <3>2 DEF Cab!RecordingIsWhole, TakenWhole
  <2>4. (cab.prepared => ConvOK(cab.taps, cab.partitioned, conv, heard))'
    BY <2>1 DEF CabInv, ConvOK
  <2> QED
    BY <2>1, <2>2, <2>3, <2>4 DEF CabInv
<1> QED
  BY <1>1, <1>2, <1>3, <1>4, <1>5 DEF Cab!Next

\* However the blocks are cut, and whenever it was loaded, prepared or reset, a cabinet
\* gives the sum of every tap times the sample that many places before, each product
\* once; and what was loaded is the whole of a recording that can be read.
THEOREM CabStaysExact == Cab!Spec => [](Cab!ConvolutionIsExact /\ Cab!RecordingIsWhole)
<1>1. Cab!Spec => []CabInv
  BY CabStarts, CabStep, PTL DEF Cab!Spec
<1>2. CabInv => Cab!ConvolutionIsExact /\ Cab!RecordingIsWhole
  BY DEF CabInv
<1> QED
  BY <1>1, <1>2, PTL

\* What the run asks of the cabinet (cab_ir.cpp, partitioned_conv.h, wav_io.cpp).
COROLLARY CabinetIsExact == Cab!Spec => []CabIsExact
<1>1. Cab!ConvolutionIsExact /\ Cab!RecordingIsWhole => CabIsExact
  BY DEF CabIsExact
<1> QED
  BY <1>1, CabStaysExact, PartsAssumption, PTL
=============================================================================
