----------------------------- MODULE EngineHost -----------------------------
(***************************************************************************)
(* desktop/Engine/engine_host.cpp: presets and edits on the control        *)
(* thread, prepare when the device changes and the callbacks of the audio  *)
(* thread.  The edits are ChainEdit's.  A block size stands for it and the *)
(* sample rate; a scene is the set of the modules it overrides, which is   *)
(* all that decides whether the scene bank is accepted.  The chain chain_  *)
(* points at is the one that is played: the graph takes it before it plays *)
(* (AudioGraph).                                                           *)
(***************************************************************************)
EXTENDS ChainEdit

CONSTANTS
  BlockSizes,      \* block sizes of devices, and the one blockSize_ begins with
  CallbackSizes,   \* samples in a callback, which may be more than a block
  MaxScenes        \* kMaxScenes

ASSUME SizesAssumption ==
  BlockSizes \subseteq Nat \ {0} /\ CallbackSizes \subseteq Nat /\ MaxScenes \in Nat

VARIABLES
  blockSize, prepared,   \* blockSize_ and prepared_
  maxBlock,              \* what chain_ was prepared for
  device,                \* where prepare is
  built,                 \* what loadPresetText read of blockSize_, 0 when none runs
  scenesDefs,            \* scenesDefs_
  bank,                  \* the definitions scenes_ has accepted
  rejected,              \* whether a preset's scenes were, and none since accepted
  lost,                  \* whether an edit took a module away since
  raced, overrun         \* whether prepare ran within a load; whether a chunk was
                         \* longer than the chain was prepared for

sizeVars == <<blockSize, prepared, maxBlock, device, raced, overrun>>
sceneVars == <<scenesDefs, bank, rejected, lost>>
hostVars == <<vars, sizeVars, built, sceneVars>>

HostInit ==
  /\ Init
  /\ blockSize \in BlockSizes /\ prepared = FALSE /\ maxBlock = 0
  /\ device = "idle" /\ built = 0
  /\ scenesDefs = << >> /\ bank = << >> /\ rejected = FALSE /\ lost = FALSE
  /\ raced = FALSE /\ overrun = FALSE

ModuleSet(c) == {c[i].module : i \in DOMAIN c}

-----------------------------------------------------------------------------
(***************************************************************************)
(* prepare.  The sizes are written before chainMutex_ is taken; the device *)
(* is not running.                                                         *)
(***************************************************************************)
PrepareSizes(size) ==
  /\ device = "idle"
  /\ blockSize' = size /\ device' = "lock"
  /\ UNCHANGED <<vars, prepared, maxBlock, raced, overrun, built, sceneVars>>

PrepareChainOnce ==      \* deviation: only the first time
  /\ device = "lock"
  /\ maxBlock' = IF loaded /\ ~prepared THEN blockSize ELSE maxBlock
  /\ prepared' = TRUE /\ device' = "idle"
  /\ UNCHANGED <<vars, blockSize, raced, overrun, built, sceneVars>>
PrepareChain ==
  /\ device = "lock"
  /\ maxBlock' = IF loaded THEN blockSize ELSE maxBlock
  /\ prepared' = TRUE /\ device' = "idle"
  /\ UNCHANGED <<vars, blockSize, raced, overrun, built, sceneVars>>

(***************************************************************************)
(* loadPresetText: the new chain is built and prepared before the mutex is *)
(* taken.  Which preset it is does not matter until then.                  *)
(***************************************************************************)
BeginLoad ==
  /\ built = 0 /\ built' = blockSize
  /\ answer' = Answer("none", TRUE)
  /\ UNCHANGED <<loaded, chain, sizeVars, sceneVars>>

\* scenes_.load: every module that is overridden is in the chain.
ScenesFit(scenes, c) ==
  Len(scenes) <= MaxScenes /\ \A i \in DOMAIN scenes : scenes[i] \subseteq ModuleSet(c)

\* The preset is refused as a whole, or is played whether or not its scenes are.
FailLoad ==
  /\ built # 0 /\ built' = 0
  /\ Refuse("load")
  /\ UNCHANGED <<sizeVars, sceneVars>>
FinishLoad(defs, scenes) ==
  /\ built # 0 /\ built' = 0
  /\ Accepts(defs)
  /\ loaded' = TRUE /\ chain' = Construct(defs)
  /\ maxBlock' = built /\ scenesDefs' = scenes
  /\ raced' = (raced \/ (built # blockSize /\ device = "idle"))
  /\ IF ScenesFit(scenes, chain')
     THEN bank' = scenes /\ rejected' = FALSE /\ lost' = FALSE
     ELSE rejected' = TRUE /\ UNCHANGED <<bank, lost>>
  /\ answer' = Answer("load", ~rejected')
  /\ UNCHANGED <<blockSize, prepared, device, overrun>>

(***************************************************************************)
(* The edits, and saveScene: a scene of everything the chain shows.        *)
(***************************************************************************)
EditChain ==
  /\ built = 0
  /\ \/ \E m \in Modules : AddModuleToChain(m)
     \/ \E slot \in Ids : RemoveModuleFromChain(slot)
     \/ \E slot \in Ids, dst \in 0 .. MaxSlots : MoveModuleTo(slot, dst)
     \/ \E slot \in Ids, direction \in {-1, 1} : MoveModule(slot, direction)
  /\ maxBlock' = IF answer'.ok THEN blockSize ELSE maxBlock
  /\ lost' = (lost \/ ~(ModuleSet(chain) \subseteq ModuleSet(chain')))
  /\ UNCHANGED <<blockSize, prepared, device, raced, overrun, built>>
  /\ UNCHANGED <<scenesDefs, bank, rejected>>

WithScene(i, scene) ==
  IF i = Len(scenesDefs) THEN Append(scenesDefs, scene)
  ELSE [scenesDefs EXCEPT ![i + 1] = scene]

SaveSceneKept(i) ==      \* deviation: keeps the definitions that were rejected
  /\ built = 0 /\ loaded /\ i \in 0 .. Len(scenesDefs) /\ i < MaxScenes
  /\ LET defs == WithScene(i, ModuleSet(Snapshot(chain)))
     IN /\ scenesDefs' = defs
        /\ IF ScenesFit(defs, chain)
           THEN bank' = defs /\ rejected' = FALSE /\ lost' = FALSE
           ELSE UNCHANGED <<bank, rejected, lost>>
        /\ answer' = Answer("saveScene", ScenesFit(defs, chain))
  /\ UNCHANGED <<loaded, chain, sizeVars, built>>
SaveScene(i) ==
  /\ built = 0 /\ loaded /\ i \in 0 .. Len(scenesDefs) /\ i < MaxScenes
  /\ LET defs == WithScene(i, ModuleSet(Snapshot(chain)))
     IN IF ScenesFit(defs, chain)
        THEN /\ scenesDefs' = defs /\ bank' = defs /\ rejected' = FALSE /\ lost' = FALSE
             /\ answer' = Answer("saveScene", TRUE)
        ELSE /\ UNCHANGED sceneVars
             /\ answer' = Answer("saveScene", FALSE)
  /\ UNCHANGED <<loaded, chain, sizeVars, built>>

(***************************************************************************)
(* process: a callback in chunks of blockSize_.                            *)
(***************************************************************************)
Chunks(n) ==
  {IF n - off < blockSize THEN n - off ELSE blockSize :
     off \in {k * blockSize : k \in 0 .. n} \cap 0 .. n - 1}

Process(n) ==
  /\ device = "idle" /\ prepared /\ loaded
  /\ overrun' = (overrun \/ \E count \in Chunks(n) : count > maxBlock)
  /\ UNCHANGED <<vars, blockSize, prepared, maxBlock, device, raced, built, sceneVars>>

\* What the preset browser, or a file that was chosen, loads.
SceneLists == {<< >>} \cup {<<scene>> : scene \in SUBSET Modules \ {{}}}

\* After such a race nothing is claimed any more: the model stops there.
HostNext ==
  /\ ~raced
  /\ \/ \E size \in BlockSizes : PrepareSizes(size)
     \/ PrepareChain
     \/ BeginLoad \/ FailLoad
     \/ \E preset \in Presets, scenes \in SceneLists : FinishLoad(DefsOf(preset), scenes)
     \/ EditChain
     \/ \E i \in 0 .. MaxScenes : SaveScene(i)
     \/ \E n \in CallbackSizes : Process(n)

HostSpec == HostInit /\ [][HostNext]_hostVars

-----------------------------------------------------------------------------
(***************************************************************************)
(* Properties                                                              *)
(***************************************************************************)
\* No callback hands the chain that is played more samples than it was prepared
\* for, however large the callback and whenever presets are loaded, chains edited
\* and the device changed: unless a whole prepare ran between a load's reading the
\* size and its taking the mutex (process, prepare, loadPresetText).
ChunksFit ==
  /\ overrun => raced
  /\ loaded /\ device = "idle" /\ prepared /\ ~raced => maxBlock = blockSize

\* The scenes that are shown and saved are the ones that are recalled, and saving
\* the preset and loading it again gives the same chain and scenes that are
\* accepted: unless a preset's scenes were rejected, an edit took a module away
\* that a scene may name, or the slot ids have a gap (loadPresetText, saveScene,
\* savePreset).
ScenesAgree ==
  ~rejected =>
    /\ bank = scenesDefs
    /\ ~lost /\ WithoutGaps(chain) =>
         /\ Construct(Snapshot(chain)) = chain
         /\ \A i \in DOMAIN scenesDefs : scenesDefs[i] \subseteq ModuleSet(Snapshot(chain))

\* What the control thread keeps through presets, edits and devices: a legal chain,
\* and scenes that belong to it.
HostInv == TypeOK /\ ScenesAgree
=============================================================================
