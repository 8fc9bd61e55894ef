------------------------------ MODULE ChainEdit ------------------------------
(***************************************************************************)
(* Editing the signal chain on the control thread: core/audio/             *)
(* chain_builder.cpp, the constructor of core/audio/chain.cpp and          *)
(* EngineHost's add, remove and move.  Every edit lists the slots of the   *)
(* current chain, changes the list and builds a fresh chain of it.  A slot *)
(* is its id and its module; parameters and assets are left out, but a     *)
(* fresh chain may fail to load an asset.                                  *)
(***************************************************************************)
EXTENDS Integers, Sequences, FiniteSets, SequencesExt

CONSTANTS
  Modules,     \* module ids of the registry
  MaxSlots     \* maxSlots_

ASSUME MaxSlotsAssumption == MaxSlots \in Nat \ {0}

VARIABLES
  loaded,      \* chain_ is not null
  chain,       \* slots_ of the chain chain_ points at
  answer       \* the last call and whether it succeeded

vars == <<loaded, chain, answer>>

SlotDef == [slot : Nat, module : Modules]

-----------------------------------------------------------------------------
\* The Chain constructor throws for an id out of range or used twice, and sorts
\* by slot id.
Accepts(defs) ==
  /\ \A i \in DOMAIN defs : defs[i].slot < MaxSlots
  /\ \A i, j \in DOMAIN defs : defs[i].slot = defs[j].slot => i = j
Below(defs, d) == {e \in defs : e.slot < d.slot}
InOrder(defs) ==
  [i \in 1 .. Cardinality(defs) |-> CHOOSE d \in defs : Cardinality(Below(defs, d)) = i - 1]
Construct(defs) == InOrder(ToSet(defs))

\* slotIndexOf, defOf and the rest take and return slot ids, not positions.
PositionOf(defs, slot) == {i \in DOMAIN defs : defs[i].slot = slot}

\* snapshotChain asks for the ids 0 .. slotCount() - 1 in turn and skips those
\* the chain does not have.
Snapshot(c) == InOrder({d \in ToSet(c) : d.slot < Len(c)})

\* reorderChain; dst counts from 0.
CanReorder(defs, slot, dst) ==
  PositionOf(defs, slot) # {} /\ dst \in 0 .. Len(defs)
Reorder(defs, slot, dst) ==
  LET src == CHOOSE i \in PositionOf(defs, slot) : TRUE
      ins == IF dst > src - 1 THEN dst - 1 ELSE dst
  IN InsertAt(RemoveAt(defs, src), ins + 1, defs[src])

NextSlotInGap(defs) ==   \* deviation: the lowest id that is free
  Min((0 .. Len(defs)) \ {defs[i].slot : i \in DOMAIN defs})
NextSlot(defs) ==
  IF defs = << >> THEN 0 ELSE 1 + Max({defs[i].slot : i \in DOMAIN defs})

-----------------------------------------------------------------------------
Answer(call, ok) == [call |-> call, ok |-> ok]

Init == loaded = FALSE /\ chain = << >> /\ answer = Answer("none", TRUE)

Refuse(call) == answer' = Answer(call, FALSE) /\ UNCHANGED <<loaded, chain>>

\* rebuildChain: a constructor that throws leaves everything as it was.
Rebuild(call, defs) ==
  \/ /\ Accepts(defs)
     /\ chain' = Construct(defs) /\ answer' = Answer(call, TRUE)
     /\ UNCHANGED loaded
  \/ Refuse(call)                  \* also when an asset does not load

AddModuleToChain(m) ==
  LET slots == Snapshot(chain)
  IN /\ loaded
     /\ Rebuild("add", Append(slots, [slot |-> NextSlot(slots), module |-> m]))

RemoveModuleFromChain(slot) ==
  LET slots == Snapshot(chain)
  IN /\ loaded
     /\ IF PositionOf(slots, slot) = {} THEN Refuse("remove")
        ELSE Rebuild("remove", RemoveAt(slots, CHOOSE i \in PositionOf(slots, slot) : TRUE))

MoveModuleTo(slot, dst) ==
  LET slots == Snapshot(chain)
  IN /\ loaded
     /\ IF CanReorder(slots, slot, dst) THEN Rebuild("moveTo", Reorder(slots, slot, dst))
        ELSE Refuse("moveTo")

\* moveModule looks for the slot among the ids 0 .. slotCount() - 1 and takes
\* the id for the position.
MoveModule(slot, direction) ==
  LET slots == Snapshot(chain)
      dst   == slot + direction
  IN /\ loaded
     /\ IF /\ PositionOf(slots, slot) # {} /\ dst \in 0 .. Len(chain) - 1
           /\ CanReorder(slots, slot, dst)
        THEN Rebuild("move", Reorder(slots, slot, dst))
        ELSE Refuse("move")

Presets == UNION {[ids -> Modules] : ids \in SUBSET (0 .. MaxSlots - 1)}
DefsOf(preset) == InOrder({[slot |-> s, module |-> preset[s]] : s \in DOMAIN preset})

Ids == 0 .. MaxSlots - 1

-----------------------------------------------------------------------------
(***************************************************************************)
(* Properties                                                              *)
(***************************************************************************)
\* The chain is sorted by slot id, each id used once and within the range the
\* per-slot arrays have; before the first preset there is none.
TypeOK ==
  /\ loaded \in BOOLEAN
  /\ answer \in [call : {"none", "load", "add", "remove", "moveTo", "move", "saveScene"},
                  ok : BOOLEAN]
  /\ chain \in Seq(SlotDef)
  /\ Len(chain) <= MaxSlots
  /\ \A i \in DOMAIN chain : chain[i].slot < MaxSlots
  /\ \A i, j \in DOMAIN chain : i < j => chain[i].slot < chain[j].slot
  /\ ~loaded => chain = << >>

ModulesOf(c) == [i \in DOMAIN c |-> c[i].module]
WithoutGaps(c) == \A i \in DOMAIN c : c[i].slot = i - 1

Adding(m) == AddModuleToChain(m) /\ answer' = Answer("add", TRUE)
Removing(slot) == RemoveModuleFromChain(slot) /\ answer' = Answer("remove", TRUE)

\* From a chain without gaps in its slot ids an edit does what it says: the new
\* module is at the end, and nothing but the removed module is gone; and also with
\* gaps, which adding never fills, what was added last is what plays last
\* (addModuleToChain, removeModuleFromChain, snapshotChain).
EditsAreExact ==
  [][/\ WithoutGaps(chain) =>
          /\ \A m \in Modules :
               Adding(m) => ModulesOf(chain') = Append(ModulesOf(chain), m)
          /\ \A slot \in Ids :
               Removing(slot) => ModulesOf(chain') = RemoveAt(ModulesOf(chain), slot + 1)
     /\ \A m \in Modules : Adding(m) => Last(chain').module = m]_vars
=============================================================================
