----------------------------- MODULE SceneEngine -----------------------------
(***************************************************************************)
(* core/audio/scene_engine.cpp with the calls EngineHost makes of it: the  *)
(* scene bank that the control thread fills and the audio thread applies   *)
(* at the block boundary, with the live chain changing under both.  A      *)
(* module's parameters and bypass flag are one setting.  That a requested  *)
(* chain becomes live at the start of a block is the abstraction           *)
(* ChainExchange, which AudioGraph is shown to implement.                  *)
(***************************************************************************)
EXTENDS Integers, Sequences, SequencesExt

CONSTANTS
  Modules,     \* module ids
  Settings,    \* settings of a module
  Fresh,       \* the setting a module is built with
  MaxSlots,    \* maxSlots_
  MaxScenes,   \* kMaxScenes
  Presets,     \* chain: its slot ids and modules, sorted by slot id; scenes
  NoChain      \* no chain is requested

Sorted(c) == \A i, j \in DOMAIN c : i < j => c[i].slot < c[j].slot

SceneAssumption ==
  /\ Fresh \in Settings /\ MaxSlots \in Nat /\ MaxScenes \in Nat
  /\ \A preset \in Presets :
       /\ preset.chain \in Seq([slot : 0 .. MaxSlots - 1, module : Modules])
       /\ Sorted(preset.chain)
       /\ preset.scenes \in Seq(Seq([module : Modules, setting : Settings]))
  /\ NoChain \notin Seq([slot : 0 .. MaxSlots - 1, module : Modules, setting : Settings])

VARIABLES
  live,        \* the chain that is played
  incoming,    \* the requested chain, NoChain if there is none
  scenesDefs,  \* scenesDefs_, a scene being its overrides in order
  bank,        \* scenes_, a scene being its resolved actions
  pending, active, \* pending_ and active_
  ctl,         \* where the control thread is in load
  aud,         \* where the audio thread is in a block
  index,       \* index in apply
  claim        \* what may be claimed of the active scene: "kept", "touched" when the
               \* live chain was changed since, "void" when the bank was loaded during
               \* a block or a recall or the chain rebuilt under it, until a scene is
               \* applied of a bank that is the live chain's

chainVars == <<live, incoming>>
bankVars == <<scenesDefs, bank>>
vars == <<chainVars, bankVars, pending, active, ctl, aud, index, claim>>

None == -1
Slot == [slot : 0 .. MaxSlots - 1, module : Modules, setting : Settings]
Override == [module : Modules, setting : Settings]
Action == [slot : 0 .. MaxSlots - 1, setting : Settings]

\* The chain chain_ points at.
Edited == IF incoming # NoChain THEN incoming ELSE live
\* snapshotChain: as a chain is sorted, these are its first slots.
Snapshot(c) ==
  SubSeq(c, 1, CHOOSE n \in 0 .. Len(c) : \A i \in DOMAIN c : i <= n <=> c[i].slot < Len(c))
ModulesOf(s) == [i \in DOMAIN s |-> s[i].module]
HasModule(c, m) == \E i \in DOMAIN c : c[i].module = m
FirstOf(c, m) == Min({i \in DOMAIN c : c[i].module = m})
SlotIndexOf(c, m) == c[FirstOf(c, m)].slot
Build(slots) ==
  [i \in DOMAIN slots |->
     [slot |-> slots[i].slot, module |-> slots[i].module, setting |-> Fresh]]

\* load: the actions of a scene, its modules replaced by slots of the chain.
Resolve(scene, c) ==
  [k \in DOMAIN scene |->
     [slot |-> SlotIndexOf(c, scene[k].module), setting |-> scene[k].setting]]
\* What load accepts: not too many scenes, and of modules the chain has.
ScenesFit(scenes, c) ==
  /\ Len(scenes) <= MaxScenes
  /\ \A k \in DOMAIN scenes : \A i \in DOMAIN scenes[k] : HasModule(c, scenes[k][i].module)
BankOf(scenes, c) == [k \in DOMAIN scenes |-> Resolve(scenes[k], c)]

Init ==
  /\ \E preset \in Presets : live = Build(preset.chain)
  /\ incoming = NoChain /\ scenesDefs = << >> /\ bank = << >>
  /\ pending = None /\ active = None /\ index = None
  /\ ctl = "idle" /\ aud = "idle"
  /\ claim = "kept"

-----------------------------------------------------------------------------
\* The control thread, which runs at any point of a block.  A load races when
\* the audio thread is in a block or a recall is still to be applied.
MayCall == ctl = "idle"
StartLoad ==
  /\ ctl' = "assign"
  /\ claim' = IF aud = "idle" /\ pending = None THEN "kept" ELSE "void"

\* loadPresetText up to requestSwap and the new definitions; load comes next, and
\* when it rejects the scenes, the bank stays that of the chain before.
LoadPreset(preset) ==
  /\ MayCall
  /\ incoming' = Build(preset.chain) /\ scenesDefs' = preset.scenes
  /\ IF ScenesFit(preset.scenes, Build(preset.chain)) THEN StartLoad
     ELSE claim' = "void" /\ UNCHANGED ctl
  /\ UNCHANGED <<live, bank, pending, active, aud, index>>

\* saveScene: the scene is all the slots snapshotChain gives.
SceneOf(slots) ==
  [k \in DOMAIN slots |-> [module |-> slots[k].module, setting |-> slots[k].setting]]
WithScene(i, scene) ==
  IF i = Len(scenesDefs) THEN Append(scenesDefs, scene)
  ELSE [scenesDefs EXCEPT ![i + 1] = scene]
SaveScene(i) ==
  /\ MayCall
  /\ i \in 0 .. Len(scenesDefs) /\ i < MaxScenes
  /\ LET defs == WithScene(i, SceneOf(Snapshot(Edited)))
     IN IF ScenesFit(defs, Edited)
        THEN scenesDefs' = defs /\ StartLoad
        ELSE UNCHANGED <<scenesDefs, ctl, claim>>  \* rejected, as is the backup
  /\ UNCHANGED <<chainVars, bank, pending, active, aud, index>>

\* load: scenes_ is assigned, then pending_ and active_ are.  The assignment is
\* one step here, which may come between apply's two reads.
AssignBank ==
  /\ ctl = "assign"
  /\ bank' = BankOf(scenesDefs, Edited)
  /\ ctl' = "pending"
  /\ UNCHANGED <<chainVars, scenesDefs, pending, active, aud, index, claim>>

ClearPending ==
  /\ ctl = "pending"
  /\ pending' = None /\ ctl' = "active"
  /\ UNCHANGED <<chainVars, bankVars, active, aud, index, claim>>

ClearActiveForgotten ==    \* deviation: leaves active_ as it is
  /\ ctl = "active"
  /\ ctl' = "idle"
  /\ UNCHANGED <<chainVars, bankVars, pending, active, aud, index, claim>>

ClearActive ==
  /\ ctl = "active"
  /\ active' = None /\ ctl' = "idle"
  /\ UNCHANGED <<chainVars, bankVars, pending, aud, index, claim>>

Recall(i) ==
  /\ MayCall
  /\ i \in 0 .. Len(bank) - 1
  /\ pending' = i
  /\ UNCHANGED <<chainVars, bankVars, active, ctl, aud, index, claim>>

\* rebuildChain after removing a module or adding one at the end; the bank
\* stays as it is.
RebuildChain(slots) ==
  /\ MayCall
  /\ incoming' = slots /\ claim' = "void"
  /\ UNCHANGED <<live, bankVars, pending, active, ctl, aud, index>>

NextSlot(slots) == IF slots = << >> THEN 0 ELSE 1 + Last(slots).slot
Edit ==
  LET slots == Snapshot(Edited)
  IN \/ \E i \in DOMAIN slots : RebuildChain(RemoveAt(slots, i))
     \/ \E m \in Modules :
          /\ NextSlot(slots) < MaxSlots
          /\ RebuildChain(Append(slots,
               [slot |-> NextSlot(slots), module |-> m, setting |-> Fresh]))

-----------------------------------------------------------------------------
\* The audio thread: EngineHost::process for one block.
BeginBlock ==
  /\ aud = "idle"
  /\ live' = Edited /\ incoming' = NoChain
  /\ aud' = "take"
  /\ UNCHANGED <<bankVars, pending, active, ctl, index, claim>>

TakePendingButFirst ==     \* deviation: index <= 0 returns
  /\ aud = "take"
  /\ index' = pending /\ pending' = None
  /\ aud' = IF pending <= 0 THEN "router" ELSE "apply"
  /\ UNCHANGED <<chainVars, bankVars, active, ctl, claim>>

TakePending ==
  /\ aud = "take"
  /\ index' = pending /\ pending' = None
  /\ aud' = IF pending = None THEN "router" ELSE "apply"
  /\ UNCHANGED <<chainVars, bankVars, active, ctl, claim>>

\* setParamByIndex and setBypassByIndex ignore a slot the chain does not have;
\* apply itself drops a slot id that is not below the number of slots.  What is set
\* last stays.
Applied(c, actions) ==
  [i \in DOMAIN c |->
     LET mine == {k \in DOMAIN actions : actions[k].slot = c[i].slot /\ c[i].slot < Len(c)}
     IN IF mine = {} THEN c[i]
        ELSE [c[i] EXCEPT !.setting = actions[Max(mine)].setting]]

\* Whether the bank is that of the shown scenes and of the chain that is played.
BankIsTheChains ==
  /\ ctl = "idle" /\ incoming = NoChain
  /\ ScenesFit(scenesDefs, live) /\ bank = BankOf(scenesDefs, live)

\* scenes_.at throws when the bank has become shorter than index; nothing
\* catches it on the audio thread.
ApplyScene ==
  /\ aud = "apply"
  /\ IF index < Len(bank)
     THEN /\ live' = Applied(live, bank[index + 1])
          /\ aud' = "store"
          /\ claim' = IF claim # "void" \/ BankIsTheChains THEN "kept" ELSE "void"
     ELSE aud' = "thrown" /\ UNCHANGED <<live, claim>>
  /\ UNCHANGED <<incoming, bankVars, pending, active, ctl, index>>

StoreActive ==
  /\ aud = "store"
  /\ active' = index /\ aud' = "router"
  /\ UNCHANGED <<chainVars, bankVars, pending, ctl, index, claim>>

\* router_.apply: what the UI or a source sets.
ApplyRouter ==
  /\ aud = "router"
  /\ aud' = "idle" /\ index' = None
  /\ \/ UNCHANGED <<live, claim>>
     \/ \E i \in DOMAIN live, v \in Settings :
          /\ live' = [live EXCEPT ![i].setting = v]
          /\ claim' = IF claim = "void" THEN "void" ELSE "touched"
  /\ UNCHANGED <<incoming, bankVars, pending, active, ctl>>

ControlNext ==
  \/ \E preset \in Presets : LoadPreset(preset)
  \/ \E i \in 0 .. MaxScenes : SaveScene(i)
  \/ AssignBank \/ ClearPending \/ ClearActive
  \/ \E i \in 0 .. MaxScenes - 1 : Recall(i)
  \/ Edit
AudioNext == BeginBlock \/ TakePending \/ ApplyScene \/ StoreActive \/ ApplyRouter
\* The exception ends the program.
Next == aud # "thrown" /\ (ControlNext \/ AudioNext)

Spec == Init /\ [][Next]_vars
\* The audio callback keeps coming.
FairSpec == Spec /\ WF_vars(AudioNext)

-----------------------------------------------------------------------------
(***************************************************************************)
(* Properties                                                              *)
(***************************************************************************)
TypeOK ==
  /\ live \in Seq(Slot) /\ incoming \in Seq(Slot) \cup {NoChain}
  /\ scenesDefs \in Seq(Seq(Override)) /\ bank \in Seq(Seq(Action))
  /\ {pending, active, index} \subseteq -1 .. MaxScenes - 1
  /\ ctl \in {"idle", "assign", "pending", "active"}
  /\ aud \in {"idle", "take", "apply", "store", "router", "thrown"}
  /\ claim \in {"kept", "touched", "void"}

\* A scene is in force on a chain: each module it names is there, and the first of that
\* name has the setting of the last override for it; but for a slot id that is not
\* below the number of slots, which apply drops.
InForce(scene, c) ==
  \A k \in DOMAIN scene :
    LET m == scene[k].module
    IN (\A l \in DOMAIN scene : scene[l].module = m => l <= k) =>
         /\ HasModule(c, m)
         /\ SlotIndexOf(c, m) < Len(c) => c[FirstOf(c, m)].setting = scene[k].setting

\* The scene that is shown as active is what is played until something changes
\* it (apply, load), through preset loads, saved scenes, edits and recalls at any
\* point of a block.  After a load that raced with a block or a recall, and after an
\* edit of the chain, nothing is claimed until the next scene is applied; it is in force
\* again if the bank is then that of the chain.
ActiveIsInForce ==
  /\ TypeOK
  /\ /\ active # None /\ ctl = "idle" /\ aud = "idle" /\ incoming = NoChain
     /\ claim = "kept"
     => active < Len(scenesDefs) /\ InForce(scenesDefs[active + 1], live)

\* Recalls overtake each other only whole: one the audio thread has not taken yet is
\* taken and applied to its end, also when the scene is the active one already, unless
\* a newer recall or a load takes its place (recall, load, apply; or a load in the
\* middle of apply left it no scene of that index).
RecallLands ==
  \A i \in 0 .. MaxScenes - 1 :
    pending = i /\ index # i ~>
      (\/ aud = "router" /\ index = i /\ active = i
       \/ pending \notin {i, None}
       \/ ctl # "idle" \/ aud = "thrown")
=============================================================================
