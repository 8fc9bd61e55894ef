-------------------------- MODULE EngineHostProofs --------------------------
(***************************************************************************)
(* Proofs about EngineHost, for every set of modules, block sizes and      *)
(* callback sizes: whatever presets, edits and devices come in which       *)
(* order, the chain that is played was prepared for what a callback brings *)
(* it, an edit changes what it says and nothing else, the chain stays one  *)
(* the constructor accepts, and the scenes that are shown are the ones     *)
(* that are recalled.                                                      *)
(***************************************************************************)
EXTENDS EngineHost, FiniteSetTheorems, TLAPS

(***************************************************************************)
(* The sizes.                                                              *)
(***************************************************************************)
SizesOK ==
  /\ blockSize \in BlockSizes
  /\ maxBlock \in Nat
  /\ built \in BlockSizes \cup {0}

\* Between a device's two steps nothing is said of the chain: no callback comes.
PreparedForBlock ==
  loaded /\ device = "idle" /\ prepared /\ ~raced => maxBlock = blockSize

SizeInv ==
  /\ SizesOK
  /\ PreparedForBlock
  /\ overrun => raced

\* No chunk of a callback is longer than a block, however the callback is cut.
LEMMA ChunksAreBlocks ==
  ASSUME blockSize \in Nat \ {0}, NEW n \in Nat, NEW count \in Chunks(n)
  PROVE  count \in Nat /\ count <= blockSize
<1>1. PICK off \in {k * blockSize : k \in 0 .. n} \cap (0 .. n - 1) :
        count = IF n - off < blockSize THEN n - off ELSE blockSize
  BY DEF Chunks
<1>2. off \in 0 .. n - 1
  BY <1>1
<1>3. n - off \in Nat
  BY <1>2
<1> QED BY <1>1, <1>3

\* An edit keeps whether there is a chain, and prepares it for the block if it
\* replaces it.
LEMMA EditsPrepare ==
  ASSUME EditChain
  PROVE  loaded' = loaded /\ maxBlock' \in {blockSize, maxBlock}
<1>1. maxBlock' \in {blockSize, maxBlock}
  BY DEF EditChain
<1>2. ASSUME NEW call, NEW defs, Rebuild(call, defs) PROVE loaded' = loaded
  BY <1>2 DEF Rebuild, Refuse
<1>3. ASSUME NEW call, Refuse(call) PROVE loaded' = loaded
  BY <1>3 DEF Refuse
<1>4. ASSUME NEW m \in Modules, AddModuleToChain(m) PROVE loaded' = loaded
  BY <1>2, <1>4 DEF AddModuleToChain
<1>5. ASSUME NEW slot \in Ids, RemoveModuleFromChain(slot) PROVE loaded' = loaded
  BY <1>2, <1>3, <1>5 DEF RemoveModuleFromChain
<1>6. ASSUME NEW slot \in Ids, NEW dst \in 0 .. MaxSlots, MoveModuleTo(slot, dst)
      PROVE  loaded' = loaded
  BY <1>2, <1>3, <1>6 DEF MoveModuleTo
<1>7. ASSUME NEW slot \in Ids, NEW direction \in {-1, 1}, MoveModule(slot, direction)
      PROVE  loaded' = loaded
  BY <1>2, <1>3, <1>7 DEF MoveModule
<1> QED BY <1>1, <1>4, <1>5, <1>6, <1>7 DEF EditChain

LEMMA SizeInvHolds == HostInit => SizeInv
  BY SizesAssumption DEF HostInit, SizeInv, SizesOK, PreparedForBlock

LEMMA SizeInvKept ==
  ASSUME SizeInv, [HostNext]_hostVars
  PROVE  SizeInv'
<1> USE SizesAssumption
<1> USE DEF SizeInv, SizesOK, PreparedForBlock
<1>1. CASE UNCHANGED hostVars
  BY <1>1 DEF hostVars, sizeVars, vars
<1>2. ASSUME NEW size \in BlockSizes, PrepareSizes(size) PROVE SizeInv'
  BY <1>2 DEF PrepareSizes, vars
<1>3. CASE PrepareChain
  BY <1>3 DEF PrepareChain, vars
<1>4. CASE BeginLoad
  BY <1>4 DEF BeginLoad, sizeVars
<1>5. CASE FailLoad
  BY <1>5 DEF FailLoad, Refuse, sizeVars
<1>6. ASSUME NEW defs, NEW scenes, FinishLoad(defs, scenes) PROVE SizeInv'
  <2>1. built \in BlockSizes
    BY <1>6 DEF FinishLoad
  <2>2. SizesOK'
    BY <1>6, <2>1 DEF FinishLoad
  <2>3. PreparedForBlock'
    <3>1. CASE built = blockSize
      BY <1>6, <3>1 DEF FinishLoad
    <3>2. CASE built # blockSize /\ device = "idle"
      BY <1>6, <3>2 DEF FinishLoad
    <3>3. CASE device # "idle"
      BY <1>6, <3>3 DEF FinishLoad
    <3> QED BY <3>1, <3>2, <3>3
  <2>4. (overrun => raced)'
    BY <1>6 DEF FinishLoad
  <2> QED BY <2>2, <2>3, <2>4
<1>7. CASE EditChain
  <2>1. loaded' = loaded /\ maxBlock' \in {blockSize, maxBlock}
    BY <1>7, EditsPrepare
  <2>2. UNCHANGED <<blockSize, prepared, device, raced, overrun, built>>
    BY <1>7 DEF EditChain
  <2> QED BY <2>1, <2>2
<1>8. ASSUME NEW i \in 0 .. MaxScenes, SaveScene(i) PROVE SizeInv'
  BY <1>8 DEF SaveScene, sizeVars
<1>9. ASSUME ~raced, NEW n \in CallbackSizes, Process(n) PROVE SizeInv'
  <2>1. maxBlock = blockSize
    BY <1>9 DEF Process
  <2>2. \A count \in Chunks(n) : count \in Nat /\ count <= blockSize
    BY ChunksAreBlocks
  <2>3. ~(\E count \in Chunks(n) : count > maxBlock)
    BY <2>1, <2>2
  <2>4. overrun' => overrun
    BY <1>9, <2>3 DEF Process
  <2> QED BY <1>9, <2>4 DEF Process, vars
<1> QED BY <1>1, <1>2, <1>3, <1>4, <1>5, <1>6, <1>7, <1>8, <1>9 DEF HostNext

\* The chain that is played was prepared for what every callback hands it, unless
\* a whole prepare ran within a load (EngineHost::process, prepare, loadPresetText).
THEOREM CallbacksFit == HostSpec => []ChunksFit
<1>1. SizeInv => ChunksFit
  BY DEF SizeInv, PreparedForBlock, ChunksFit
<1> QED BY <1>1, SizeInvHolds, SizeInvKept, PTL DEF HostSpec

(***************************************************************************)
(* A chain is sorted by slot id: what the sort makes of a set of slots.    *)
(***************************************************************************)
\* Finitely many slots whose ids tell them apart.
Distinct(S) ==
  /\ S \subseteq SlotDef /\ IsFiniteSet(S)
  /\ \A d, e \in S : d.slot = e.slot => d = e

Sorted(c) == \A i, j \in DOMAIN c : i < j => c[i].slot < c[j].slot
Rank(S, d) == Cardinality(Below(S, d))

\* The number of slots below a slot is its place: different for every slot, in the
\* order of the ids, and every place is taken.
LEMMA EveryPlaceIsTaken ==
  ASSUME NEW S, Distinct(S)
  PROVE  /\ Cardinality(S) \in Nat
         /\ \A d \in S : Rank(S, d) \in 0 .. Cardinality(S) - 1
         /\ \A d, e \in S : d.slot < e.slot => Rank(S, d) < Rank(S, e)
         /\ \A i \in 1 .. Cardinality(S) : \E d \in S : Rank(S, d) = i - 1
<1> USE DEF Distinct
<1> DEFINE n == Cardinality(S)
           place == [d \in S |-> Rank(S, d) + 1]
<1>1. n \in Nat
  BY FS_CardinalityType
<1>2. ASSUME NEW d \in S
      PROVE  IsFiniteSet(Below(S, d)) /\ Rank(S, d) \in Nat
  <2>1. Below(S, d) \in SUBSET S
    BY DEF Below
  <2> QED
    BY <2>1, FS_Subset, FS_CardinalityType DEF Rank
<1>3. ASSUME NEW d \in S
      PROVE  Rank(S, d) < n
  <2>1. Below(S, d) \in SUBSET S
    BY DEF Below
  <2>2. d.slot \in Nat
    BY DEF SlotDef
  <2>3. d \notin Below(S, d)
    BY <2>2 DEF Below
  <2>4. Cardinality(Below(S, d)) <= n /\ Cardinality(Below(S, d)) # n
    BY <2>1, <2>3, FS_Subset
  <2> QED
    BY <2>4, <1>1, <1>2 DEF Rank
<1>4. ASSUME NEW d \in S, NEW e \in S, d.slot < e.slot
      PROVE  Rank(S, d) < Rank(S, e)
  <2>1. d.slot \in Nat /\ e.slot \in Nat /\ \A x \in S : x.slot \in Nat
    BY DEF SlotDef
  <2>2. Below(S, d) \subseteq Below(S, e)
    BY <1>4, <2>1 DEF Below
  <2>3. d \in Below(S, e) /\ d \notin Below(S, d)
    BY <1>4, <2>1 DEF Below
  <2>4. /\ Cardinality(Below(S, d)) <= Cardinality(Below(S, e))
        /\ Cardinality(Below(S, d)) # Cardinality(Below(S, e))
    BY <2>2, <2>3, <1>2, FS_Subset
  <2> QED
    BY <2>4, <1>2 DEF Rank
<1>5. \A d \in S : Rank(S, d) \in 0 .. n - 1
  <2>1. ASSUME NEW d \in S PROVE Rank(S, d) \in 0 .. n - 1
    <3>1. Rank(S, d) \in Nat /\ Rank(S, d) < n
      BY <1>2, <1>3
    <3> HIDE DEF n
    <3> QED
      BY <3>1, <1>1
  <2> QED
    BY <2>1
<1>6. place \in Injection(S, 1 .. n)
  <2>1. \A d \in S : Rank(S, d) + 1 \in 1 .. n
    BY <1>1, <1>5
  <2>2. place \in [S -> 1 .. n]
    BY <2>1
  <2>3. ASSUME NEW d \in S, NEW e \in S, place[d] = place[e]
        PROVE  d = e
    <3>1. Rank(S, d) = Rank(S, e) /\ Rank(S, d) \in Nat
      BY <2>3, <1>2
    <3>2. d.slot \in Nat /\ e.slot \in Nat
      BY DEF SlotDef
    <3>3. ~(d.slot < e.slot) /\ ~(e.slot < d.slot)
      BY <3>1, <1>4
    <3>4. d.slot = e.slot
      BY <3>2, <3>3
    <3> QED
      BY <3>4
  <2> QED
    BY <2>2, <2>3 DEF Injection, IsInjective
<1>7. IsFiniteSet(1 .. n) /\ Cardinality(1 .. n) = n
  BY <1>1, FS_Interval
<1>8. place \in Surjection(S, 1 .. n)
  BY <1>6, <1>7, FS_Injection
<1>9. \A i \in 1 .. n : \E d \in S : place[d] = i
  BY <1>8 DEF Surjection
<1>10. ASSUME NEW i \in 1 .. n PROVE \E d \in S : Rank(S, d) = i - 1
  <2>1. PICK d \in S : Rank(S, d) + 1 = i
    BY <1>9
  <2>2. Rank(S, d) \in Nat
    BY <1>2
  <2> QED
    BY <2>1, <2>2
<1> QED
  BY <1>1, <1>4, <1>5, <1>10

\* The sort keeps the slots, every one once, in the order of their ids.
LEMMA SortKeepsTheSlots ==
  ASSUME NEW S, Distinct(S)
  PROVE  /\ InOrder(S) \in Seq(SlotDef)
         /\ Len(InOrder(S)) = Cardinality(S)
         /\ ToSet(InOrder(S)) = S
         /\ Sorted(InOrder(S))
<1> DEFINE n == Cardinality(S)
           c == InOrder(S)
<1>1. /\ n \in Nat
      /\ \A d \in S : Rank(S, d) \in 0 .. n - 1
      /\ \A d, e \in S : d.slot < e.slot => Rank(S, d) < Rank(S, e)
      /\ \A i \in 1 .. n : \E d \in S : Rank(S, d) = i - 1
  BY EveryPlaceIsTaken
<1>2. c = [i \in 1 .. n |-> CHOOSE d \in S : Rank(S, d) = i - 1]
  BY DEF InOrder, Rank
<1> HIDE DEF n, c
<1>3. ASSUME NEW i \in 1 .. n
      PROVE  c[i] \in S /\ Rank(S, c[i]) = i - 1
  BY <1>1, <1>2
<1>4. DOMAIN c = 1 .. n
  BY <1>2
<1>5. c \in [1 .. n -> SlotDef]
  BY <1>2, <1>3 DEF Distinct
<1>6. c \in Seq(SlotDef) /\ Len(c) = n
  BY <1>1, <1>5, <1>4
<1>7. ASSUME NEW d \in S PROVE \E i \in DOMAIN c : c[i] = d
  <2>1. Rank(S, d) \in 0 .. n - 1
    BY <1>1
  <2>2. PICK i \in 1 .. n : Rank(S, d) = i - 1
    <3>1. Rank(S, d) + 1 \in 1 .. n /\ Rank(S, d) = (Rank(S, d) + 1) - 1
      BY <2>1, <1>1
    <3> QED
      BY <3>1
  <2>3. c[i] \in S /\ Rank(S, c[i]) = Rank(S, d)
    BY <2>2, <1>3
  <2>4. c[i].slot \in Nat /\ d.slot \in Nat
    BY <2>3 DEF Distinct, SlotDef
  <2>5. ~(c[i].slot < d.slot) /\ ~(d.slot < c[i].slot)
    BY <1>1, <2>1, <2>3
  <2>6. c[i] = d
    BY <2>3, <2>4, <2>5 DEF Distinct
  <2> QED
    BY <2>6, <1>4
<1>8. ToSet(c) = S
  BY <1>3, <1>4, <1>7 DEF ToSet
<1>9. ASSUME NEW i \in DOMAIN c, NEW j \in DOMAIN c, i < j
      PROVE  c[i].slot < c[j].slot
  <2>1. i \in 1 .. n /\ j \in 1 .. n
    BY <1>4
  <2>2. c[i] \in S /\ c[j] \in S /\ Rank(S, c[i]) = i - 1 /\ Rank(S, c[j]) = j - 1
    BY <1>3, <2>1
  <2>3. c[i].slot \in Nat /\ c[j].slot \in Nat
    BY <2>2 DEF Distinct, SlotDef
  <2>4. ~(c[j].slot < c[i].slot)
    BY <1>1, <2>1, <2>2, <1>9
  <2>5. c[i].slot # c[j].slot
    BY <2>1, <2>2, <1>9 DEF Distinct
  <2> QED
    BY <2>3, <2>4, <2>5
<1> QED
  BY <1>6, <1>8, <1>9 DEF Sorted, c, n

LEMMA SlotsOfSequence ==
  ASSUME NEW c \in Seq(SlotDef)
  PROVE  \A i \in DOMAIN c : c[i] \in SlotDef /\ c[i].slot \in Nat /\ c[i].module \in Modules
<1>1. \A i \in DOMAIN c : c[i] \in SlotDef
  OBVIOUS
<1>2. \A d \in SlotDef : d.slot \in Nat /\ d.module \in Modules
  BY DEF SlotDef
<1> QED
  BY <1>1, <1>2

\* The elements of a sorted sequence are slots whose ids tell them apart.
LEMMA SortedIsDistinct ==
  ASSUME NEW c \in Seq(SlotDef), Sorted(c)
  PROVE  Distinct(ToSet(c))
<1>1. c \in Surjection(1 .. Len(c), ToSet(c))
  BY DEF ToSet, Surjection
<1>2. IsFiniteSet(1 .. Len(c)) /\ Len(c) \in Nat /\ DOMAIN c = 1 .. Len(c)
  BY FS_Interval
<1>3. IsFiniteSet(ToSet(c))
  BY <1>1, <1>2, FS_Surjection
<1>4. \A i \in DOMAIN c : c[i] \in SlotDef /\ c[i].slot \in Nat
  BY SlotsOfSequence
<1>5. ASSUME NEW d \in ToSet(c), NEW e \in ToSet(c), d.slot = e.slot
      PROVE  d = e
  <2>1. PICK i \in DOMAIN c : d = c[i]
    BY DEF ToSet
  <2>2. PICK j \in DOMAIN c : e = c[j]
    BY DEF ToSet
  <2>3. ~(i < j) /\ ~(j < i)
    BY <1>4, <1>5, <2>1, <2>2 DEF Sorted
  <2>4. i = j
    BY <2>3, <1>2
  <2> QED
    BY <2>1, <2>2, <2>4
<1> QED
  BY <1>3, <1>4, <1>5 DEF Distinct, ToSet

\* Sorting what is sorted gives it back.
LEMMA SortedIsInOrder ==
  ASSUME NEW c \in Seq(SlotDef), Sorted(c)
  PROVE  InOrder(ToSet(c)) = c
<1> DEFINE S == ToSet(c)
<1>1. Distinct(S)
  BY SortedIsDistinct
<1>2. Len(c) \in Nat /\ DOMAIN c = 1 .. Len(c)
  OBVIOUS
<1>3. \A i \in DOMAIN c : c[i] \in SlotDef /\ c[i].slot \in Nat
  BY SlotsOfSequence
<1>4. ASSUME NEW i \in 1 .. Len(c)
      PROVE  c[i] \in S /\ Rank(S, c[i]) = i - 1
  <2> DEFINE T == Below(S, c[i])
             f == [k \in 1 .. i - 1 |-> c[k]]
  <2>1. c[i] \in S
    BY <1>2 DEF ToSet
  <2>2. ASSUME NEW k \in 1 .. i - 1
        PROVE  c[k] \in T
    <3>1. k \in DOMAIN c /\ k < i /\ i \in DOMAIN c
      BY <1>2
    <3> QED
      BY <3>1 DEF Sorted, ToSet, Below
  <2>3. ASSUME NEW d \in T
        PROVE  \E k \in 1 .. i - 1 : c[k] = d
    <3>1. PICK k \in DOMAIN c : d = c[k]
      BY DEF ToSet, Below
    <3>2. c[k].slot < c[i].slot
      BY <3>1 DEF Below
    <3>3. k < i
      <4>1. k # i
        BY <3>2, <1>3, <1>2
      <4>2. ~(i < k)
        BY <3>2, <1>3, <1>2 DEF Sorted
      <4> QED
        BY <4>1, <4>2, <1>2
    <3> QED
      BY <3>1, <3>3, <1>2
  <2>4. ASSUME NEW k \in 1 .. i - 1, NEW l \in 1 .. i - 1, c[k] = c[l]
        PROVE  k = l
    <3>1. k \in DOMAIN c /\ l \in DOMAIN c /\ k \in Int /\ l \in Int
      BY <1>2
    <3>2. ~(k < l) /\ ~(l < k)
      BY <2>4, <3>1, <1>3 DEF Sorted
    <3> QED
      BY <3>1, <3>2
  <2> HIDE DEF T
  <2>5. f \in Bijection(1 .. i - 1, T)
    BY <2>2, <2>3, <2>4 DEF Bijection, Injection, Surjection, IsInjective
  <2>6. Cardinality(T) = i - 1
    <3>1. i - 1 \in Nat
      OBVIOUS
    <3>2. ExistsBijection(1 .. i - 1, T)
      BY <2>5 DEF ExistsBijection
    <3> QED
      BY <3>1, <3>2, FS_CountingElements
  <2> QED
    BY <2>1, <2>6 DEF Rank, T
<1>5. Cardinality(S) = Len(c)
  <2>1. ASSUME NEW k \in 1 .. Len(c), NEW l \in 1 .. Len(c), c[k] = c[l]
        PROVE  k = l
    <3>1. ~(k < l) /\ ~(l < k)
      BY <2>1, <1>2, <1>3 DEF Sorted
    <3> QED
      BY <3>1
  <2>2. c \in Bijection(1 .. Len(c), S)
    BY <1>2, <2>1 DEF Bijection, Injection, Surjection, IsInjective, ToSet
  <2> QED
    BY <2>2, <1>2, FS_CountingElements DEF ExistsBijection
<1>6. /\ \A d, e \in S : d.slot < e.slot => Rank(S, d) < Rank(S, e)
      /\ \A d \in S : Rank(S, d) \in 0 .. Cardinality(S) - 1
  BY <1>1, EveryPlaceIsTaken
<1> HIDE DEF S
<1>7. ASSUME NEW i \in 1 .. Len(c)
      PROVE  (CHOOSE d \in S : Rank(S, d) = i - 1) = c[i]
  <2>1. ASSUME NEW d \in S, Rank(S, d) = i - 1 PROVE d = c[i]
    <3>1. c[i] \in S /\ Rank(S, c[i]) = i - 1
      BY <1>4
    <3>2. d.slot \in Nat /\ c[i].slot \in Nat
      BY <3>1, <1>1 DEF Distinct, SlotDef
    <3>3. ~(d.slot < c[i].slot) /\ ~(c[i].slot < d.slot)
      BY <2>1, <3>1, <1>6
    <3>4. d.slot = c[i].slot
      BY <3>2, <3>3
    <3> QED
      BY <3>1, <3>4, <1>1 DEF Distinct
  <2> QED
    BY <2>1, <1>4
<1>8. InOrder(S) = [i \in 1 .. Len(c) |-> CHOOSE d \in S : Rank(S, d) = i - 1]
  BY <1>5 DEF InOrder, Rank
<1>9. InOrder(S) = c
  BY <1>2, <1>7, <1>8
<1> QED
  BY <1>9 DEF S

\* A chain the constructor can have made.
Legal(c) ==
  /\ c \in Seq(SlotDef) /\ Len(c) <= MaxSlots /\ Sorted(c)
  /\ \A i \in DOMAIN c : c[i].slot < MaxSlots

\* What the constructor does not throw for it makes a legal chain of, with the same
\* slots.
LEMMA ConstructIsLegal ==
  ASSUME NEW defs \in Seq(SlotDef), Accepts(defs)
  PROVE  Legal(Construct(defs)) /\ ToSet(Construct(defs)) = ToSet(defs)
<1> USE MaxSlotsAssumption
<1> DEFINE S == ToSet(defs)
           c == Construct(defs)
<1>1. \A i \in DOMAIN defs : defs[i] \in SlotDef /\ defs[i].slot \in Nat
  BY SlotsOfSequence
<1>2. defs \in Surjection(1 .. Len(defs), S)
  BY DEF ToSet, Surjection
<1>3. IsFiniteSet(1 .. Len(defs)) /\ Len(defs) \in Nat
  BY FS_Interval
<1>4. IsFiniteSet(S)
  BY <1>2, <1>3, FS_Surjection
<1>5. \A d \in S : d \in SlotDef /\ d.slot \in Nat /\ d.slot < MaxSlots
  BY <1>1 DEF ToSet, Accepts
<1>6. \A d, e \in S : d.slot = e.slot => d = e
  BY DEF ToSet, Accepts
<1>7. Distinct(S)
  BY <1>4, <1>5, <1>6 DEF Distinct
<1>8. c \in Seq(SlotDef) /\ Len(c) = Cardinality(S) /\ ToSet(c) = S /\ Sorted(c)
  BY <1>7, SortKeepsTheSlots DEF Construct
<1> HIDE DEF S, c
<1>9. Len(c) <= MaxSlots
  <2> DEFINE id == [d \in S |-> d.slot]
  <2>1. id \in [S -> 0 .. MaxSlots - 1]
    BY <1>5
  <2>2. id \in Injection(S, 0 .. MaxSlots - 1)
    BY <2>1, <1>6 DEF Injection, IsInjective
  <2>3. IsFiniteSet(0 .. MaxSlots - 1) /\ Cardinality(0 .. MaxSlots - 1) = MaxSlots
    BY FS_Interval
  <2> QED
    BY <1>8, <2>2, <2>3, FS_Injection
<1>10. \A i \in DOMAIN c : c[i] \in S
  BY <1>8 DEF ToSet
<1> QED
  BY <1>5, <1>8, <1>9, <1>10 DEF Legal, S, c

\* snapshotChain gives a sorted part of the chain, and all of it if the ids have no
\* gap.
LEMMA SnapshotIsSorted ==
  ASSUME NEW c \in Seq(SlotDef), Sorted(c)
  PROVE  /\ Snapshot(c) \in Seq(SlotDef) /\ Sorted(Snapshot(c))
         /\ WithoutGaps(c) => Snapshot(c) = c
<1> DEFINE T == {d \in ToSet(c) : d.slot < Len(c)}
<1>1. Distinct(ToSet(c))
  BY SortedIsDistinct
<1>2. IsFiniteSet(T)
  BY <1>1, FS_Subset DEF Distinct
<1>3. Distinct(T)
  BY <1>1, <1>2 DEF Distinct
<1>4. ASSUME WithoutGaps(c) PROVE T = ToSet(c)
  <2>1. \A i \in DOMAIN c : c[i].slot = i - 1 /\ i <= Len(c) /\ i \in Nat /\ Len(c) \in Nat
    BY <1>4 DEF WithoutGaps
  <2>2. \A i \in DOMAIN c : c[i].slot < Len(c)
    BY <2>1
  <2> QED
    BY <2>2 DEF ToSet
<1>5. Snapshot(c) = InOrder(T)
  BY DEF Snapshot
<1> HIDE DEF T
<1>6. WithoutGaps(c) => Snapshot(c) = c
  BY <1>4, <1>5, SortedIsInOrder
<1> QED
  BY <1>3, <1>5, <1>6, SortKeepsTheSlots

\* addModuleToChain takes an id above every other.
LEMMA NextSlotIsAbove ==
  ASSUME NEW defs \in Seq(SlotDef), Sorted(defs)
  PROVE  NextSlot(defs) \in Nat /\ \A i \in DOMAIN defs : defs[i].slot < NextSlot(defs)
<1>1. CASE defs = << >>
  BY <1>1 DEF NextSlot
<1>2. CASE defs # << >>
  <2> DEFINE n == Len(defs)
             ids == {defs[i].slot : i \in DOMAIN defs}
  <2>1. n \in Nat \ {0} /\ DOMAIN defs = 1 .. n
    BY <1>2
  <2>2. \A i \in DOMAIN defs : defs[i].slot \in Nat
    BY SlotsOfSequence
  <2>3. defs[n].slot \in ids /\ \A i \in DOMAIN defs : defs[i].slot <= defs[n].slot
    <3>1. n \in DOMAIN defs
      BY <2>1
    <3>2. ASSUME NEW i \in DOMAIN defs PROVE defs[i].slot <= defs[n].slot
      <4>1. CASE i = n
        BY <4>1, <2>2, <3>1
      <4>2. CASE i # n
        <5>1. i < n
          BY <4>2, <2>1
        <5>2. defs[i].slot < defs[n].slot
          BY <5>1, <3>1 DEF Sorted
        <5> QED
          BY <5>2, <2>2, <3>1
      <4> QED
        BY <4>1, <4>2
    <3> QED
      BY <3>1, <3>2
  <2>4. \E x \in ids : \A y \in ids : x >= y
    <3>1. \A y \in ids : defs[n].slot >= y
      BY <2>2, <2>3, <2>1
    <3> QED
      BY <3>1, <2>3
  <2>5. Max(ids) \in ids /\ \A y \in ids : Max(ids) >= y
    BY <2>4 DEF Max
  <2>6. ids \subseteq Nat
    BY <2>2
  <2>7. NextSlot(defs) = 1 + Max(ids)
    BY <1>2 DEF NextSlot
  <2>8. \A i \in DOMAIN defs : defs[i].slot \in ids
    OBVIOUS
  <2> HIDE DEF ids, n
  <2>9. Max(ids) \in Nat
    BY <2>5, <2>6
  <2>10. \A i \in DOMAIN defs : defs[i].slot \in Nat /\ Max(ids) >= defs[i].slot
    BY <2>2, <2>5, <2>8
  <2> QED
    BY <2>7, <2>9, <2>10
<1> QED
  BY <1>1, <1>2

\* Sequences without one element, and with one more.
LEMMA Concatenated ==
  ASSUME NEW A, NEW s \in Seq(A), NEW t \in Seq(A)
  PROVE  /\ s \o t \in Seq(A) /\ Len(s \o t) = Len(s) + Len(t)
         /\ \A k \in 1 .. Len(s) : (s \o t)[k] = s[k]
         /\ \A k \in Len(s) + 1 .. Len(s) + Len(t) : (s \o t)[k] = t[k - Len(s)]
OBVIOUS

LEMMA WithoutOne ==
  ASSUME NEW A, NEW s \in Seq(A), NEW i \in 1 .. Len(s)
  PROVE  /\ RemoveAt(s, i) \in Seq(A) /\ Len(RemoveAt(s, i)) = Len(s) - 1
         /\ \A k \in 1 .. i - 1 : RemoveAt(s, i)[k] = s[k]
         /\ \A k \in i .. Len(s) - 1 : RemoveAt(s, i)[k] = s[k + 1]
<1> DEFINE left == SubSeq(s, 1, i - 1)
           right == SubSeq(s, i + 1, Len(s))
<1>1. left \in Seq(A) /\ Len(left) = i - 1
  OBVIOUS
<1>2. \A k \in 1 .. i - 1 : left[k] = s[k]
  OBVIOUS
<1>3. right \in Seq(A) /\ Len(right) = Len(s) - i
  OBVIOUS
<1>4. \A k \in 1 .. Len(s) - i : right[k] = s[i + k]
  OBVIOUS
<1>5. RemoveAt(s, i) = left \o right
  BY DEF RemoveAt
<1> HIDE DEF left, right
<1>6. /\ left \o right \in Seq(A) /\ Len(left \o right) = Len(left) + Len(right)
      /\ \A k \in 1 .. Len(left) : (left \o right)[k] = left[k]
      /\ \A k \in Len(left) + 1 .. Len(left) + Len(right) :
           (left \o right)[k] = right[k - Len(left)]
  BY <1>1, <1>3, Concatenated
<1>7. Len(left) + Len(right) = Len(s) - 1
  BY <1>1, <1>3
<1>8. ASSUME NEW k \in i .. Len(s) - 1 PROVE RemoveAt(s, i)[k] = s[k + 1]
  <2>1. k \in Len(left) + 1 .. Len(left) + Len(right)
    BY <1>1, <1>7
  <2>2. k - Len(left) \in 1 .. Len(s) - i /\ i + (k - Len(left)) = k + 1
    BY <1>1
  <2> QED
    BY <1>4, <1>5, <1>6, <2>1, <2>2
<1> QED
  BY <1>1, <1>2, <1>5, <1>6, <1>7, <1>8

LEMMA WithOneMore ==
  ASSUME NEW A, NEW s \in Seq(A), NEW e \in A, NEW i \in 1 .. Len(s) + 1
  PROVE  InsertAt(s, i, e) \in Seq(A)
<1>1. SubSeq(s, 1, i - 1) \in Seq(A) /\ SubSeq(s, i, Len(s)) \in Seq(A) /\ <<e>> \in Seq(A)
  OBVIOUS
<1> QED
  BY <1>1 DEF InsertAt

(***************************************************************************)
(* The edits.                                                              *)
(***************************************************************************)
\* Every edit that succeeds is a fresh chain of the list it made; one that does not
\* leaves the chain as it was.
LEMMA RebuildMakesTheChain ==
  ASSUME TypeOK, NEW call, NEW defs \in Seq(SlotDef), Rebuild(call, defs)
  PROVE  /\ loaded' = loaded
         /\ chain' = chain \/ Legal(chain')
         /\ answer' \in {Answer(call, TRUE), Answer(call, FALSE)}
         /\ answer'.ok => chain' = Construct(defs)
<1>1. CASE Accepts(defs) /\ chain' = Construct(defs) /\ answer' = Answer(call, TRUE) /\ loaded' = loaded
  <2>1. Legal(chain')
    BY <1>1, ConstructIsLegal
  <2> QED
    BY <1>1, <2>1 DEF Answer
<1>2. CASE Refuse(call)
  BY <1>2 DEF Refuse, Answer
<1> QED
  BY <1>1, <1>2 DEF Rebuild

LEMMA ChainIsSorted ==
  TypeOK => chain \in Seq(SlotDef) /\ Sorted(chain)
BY DEF TypeOK, Sorted

Calls == {"none", "load", "add", "remove", "moveTo", "move", "saveScene"}

LEMMA RefuseKeeps ==
  ASSUME TypeOK, NEW call \in Calls, Refuse(call)
  PROVE  TypeOK'
BY DEF TypeOK, Refuse, Answer, Calls

LEMMA LegalKeeps ==
  ASSUME TypeOK, Legal(chain'), loaded', loaded' \in BOOLEAN,
         NEW call \in Calls, NEW ok \in BOOLEAN, answer' = Answer(call, ok)
  PROVE  TypeOK'
<1>1. \A i, j \in DOMAIN chain' : i < j => chain'[i].slot < chain'[j].slot
  BY DEF Legal, Sorted
<1>2. answer' \in [call : Calls, ok : BOOLEAN]
  BY DEF Answer
<1> QED
  BY <1>1, <1>2 DEF TypeOK, Legal, Calls

LEMMA RebuildKeeps ==
  ASSUME TypeOK, loaded, NEW call \in Calls, NEW defs \in Seq(SlotDef), Rebuild(call, defs)
  PROVE  TypeOK'
<1>1. CASE Refuse(call)
  BY <1>1, RefuseKeeps
<1>2. CASE Accepts(defs) /\ chain' = Construct(defs) /\ answer' = Answer(call, TRUE) /\ loaded' = loaded
  <2>1. Legal(chain')
    BY <1>2, ConstructIsLegal
  <2>2. loaded' /\ loaded' \in BOOLEAN
    BY <1>2 DEF TypeOK
  <2> QED
    BY <1>2, <2>1, <2>2, LegalKeeps
<1> QED
  BY <1>1, <1>2 DEF Rebuild

\* Every edit hands the constructor a list of slots.
LEMMA EditsListSlots ==
  ASSUME TypeOK
  PROVE  /\ Snapshot(chain) \in Seq(SlotDef) /\ Sorted(Snapshot(chain))
         /\ \A m \in Modules :
              Append(Snapshot(chain), [slot |-> NextSlot(Snapshot(chain)), module |-> m])
                \in Seq(SlotDef)
         /\ \A slot \in Ids : PositionOf(Snapshot(chain), slot) # {} =>
              RemoveAt(Snapshot(chain), CHOOSE i \in PositionOf(Snapshot(chain), slot) : TRUE)
                \in Seq(SlotDef)
         /\ \A slot \in Ids, dst \in Int : CanReorder(Snapshot(chain), slot, dst) =>
              Reorder(Snapshot(chain), slot, dst) \in Seq(SlotDef)
<1> DEFINE slots == Snapshot(chain)
<1>1. slots \in Seq(SlotDef) /\ Sorted(slots)
  BY ChainIsSorted, SnapshotIsSorted
<1> HIDE DEF slots
<1>2. ASSUME NEW m \in Modules
      PROVE  Append(slots, [slot |-> NextSlot(slots), module |-> m]) \in Seq(SlotDef)
  <2>1. NextSlot(slots) \in Nat
    BY <1>1, NextSlotIsAbove
  <2>2. [slot |-> NextSlot(slots), module |-> m] \in SlotDef
    BY <2>1 DEF SlotDef
  <2> QED
    BY <1>1, <2>2
<1>3. ASSUME NEW slot \in Ids, PositionOf(slots, slot) # {}
      PROVE  /\ (CHOOSE i \in PositionOf(slots, slot) : TRUE) \in 1 .. Len(slots)
             /\ RemoveAt(slots, CHOOSE i \in PositionOf(slots, slot) : TRUE) \in Seq(SlotDef)
  <2> DEFINE src == CHOOSE i \in PositionOf(slots, slot) : TRUE
  <2>1. src \in 1 .. Len(slots)
    BY <1>1, <1>3 DEF PositionOf
  <2> HIDE DEF src
  <2>2. RemoveAt(slots, src) \in Seq(SlotDef)
    BY <1>1, <2>1, WithoutOne
  <2> QED
    BY <2>1, <2>2 DEF src
<1>4. ASSUME NEW slot \in Ids, NEW dst \in Int, CanReorder(slots, slot, dst)
      PROVE  Reorder(slots, slot, dst) \in Seq(SlotDef)
  <2> DEFINE src == CHOOSE i \in PositionOf(slots, slot) : TRUE
             ins == IF dst > src - 1 THEN dst - 1 ELSE dst
  <2>1. src \in 1 .. Len(slots) /\ RemoveAt(slots, src) \in Seq(SlotDef)
    BY <1>3, <1>4 DEF CanReorder
  <2>2. Reorder(slots, slot, dst) = InsertAt(RemoveAt(slots, src), ins + 1, slots[src])
    BY DEF Reorder
  <2> HIDE DEF src
  <2>3. Len(RemoveAt(slots, src)) = Len(slots) - 1
    BY <1>1, <2>1, WithoutOne
  <2>4. ins + 1 \in 1 .. Len(slots)
    BY <1>1, <1>4, <2>1 DEF CanReorder
  <2>5. slots[src] \in SlotDef /\ ins + 1 \in 1 .. Len(RemoveAt(slots, src)) + 1
    BY <1>1, <2>1, <2>3, <2>4
  <2> HIDE DEF ins
  <2> QED
    BY <2>1, <2>2, <2>5, WithOneMore
<1> QED
  BY <1>1, <1>2, <1>3, <1>4 DEF slots

LEMMA EditKeepsType ==
  ASSUME TypeOK, EditChain
  PROVE  TypeOK'
<1> USE EditsListSlots DEF Calls
<1>1. ASSUME NEW m \in Modules, AddModuleToChain(m) PROVE TypeOK'
  BY <1>1, RebuildKeeps DEF AddModuleToChain
<1>2. ASSUME NEW slot \in Ids, RemoveModuleFromChain(slot) PROVE TypeOK'
  BY <1>2, RebuildKeeps, RefuseKeeps DEF RemoveModuleFromChain
<1>3. ASSUME NEW slot \in Ids, NEW dst \in 0 .. MaxSlots, MoveModuleTo(slot, dst) PROVE TypeOK'
  BY <1>3, RebuildKeeps, RefuseKeeps DEF MoveModuleTo
<1>4. ASSUME NEW slot \in Ids, NEW direction \in {-1, 1}, MoveModule(slot, direction)
      PROVE  TypeOK'
  <2>1. slot + direction \in Int
    BY DEF Ids
  <2> QED
    BY <1>4, <2>1, RebuildKeeps, RefuseKeeps DEF MoveModule
<1> QED
  BY <1>1, <1>2, <1>3, <1>4 DEF EditChain

\* What a preset lists the constructor accepts, or the load fails.
LEMMA PresetListsSlots ==
  ASSUME NEW preset \in Presets
  PROVE  DefsOf(preset) \in Seq(SlotDef)
<1> DEFINE D == DOMAIN preset
           def == [s \in D |-> [slot |-> s, module |-> preset[s]]]
           S == {[slot |-> s, module |-> preset[s]] : s \in D}
<1>1. D \subseteq 0 .. MaxSlots - 1 /\ \A s \in D : preset[s] \in Modules
  BY DEF Presets
<1>2. IsFiniteSet(D)
  <2>1. IsFiniteSet(0 .. MaxSlots - 1)
    BY MaxSlotsAssumption, FS_Interval
  <2>2. D \in SUBSET (0 .. MaxSlots - 1)
    BY <1>1
  <2> QED
    BY <2>1, <2>2, FS_Subset
<1>3. def \in Surjection(D, S)
  BY DEF Surjection
<1>4. IsFiniteSet(S)
  BY <1>2, <1>3, FS_Surjection
<1>5. S \subseteq SlotDef
  BY <1>1, MaxSlotsAssumption DEF SlotDef
<1>6. \A d, e \in S : d.slot = e.slot => d = e
  OBVIOUS
<1>7. Distinct(S)
  BY <1>4, <1>5, <1>6 DEF Distinct
<1> HIDE DEF S
<1>8. InOrder(S) \in Seq(SlotDef)
  BY <1>7, SortKeepsTheSlots
<1> QED
  BY <1>8 DEF DefsOf, S

LEMMA TypeKept ==
  ASSUME TypeOK, [HostNext]_hostVars
  PROVE  TypeOK'
<1>1. CASE UNCHANGED vars
  BY <1>1 DEF TypeOK, vars
<1>2. CASE UNCHANGED hostVars
  BY <1>1, <1>2 DEF hostVars
<1>3. ASSUME NEW size \in BlockSizes, PrepareSizes(size) PROVE TypeOK'
  BY <1>1, <1>3 DEF PrepareSizes
<1>4. CASE PrepareChain
  BY <1>1, <1>4 DEF PrepareChain
<1>5. CASE BeginLoad
  BY <1>5 DEF BeginLoad, TypeOK, Answer
<1>6. CASE FailLoad
  BY <1>6, RefuseKeeps DEF FailLoad, Calls
<1>7. ASSUME NEW preset \in Presets, NEW scenes \in SceneLists,
             FinishLoad(DefsOf(preset), scenes)
      PROVE  TypeOK'
  <2>1. Legal(chain')
    BY <1>7, PresetListsSlots, ConstructIsLegal DEF FinishLoad
  <2>2. \E ok \in BOOLEAN : answer' = Answer("load", ok)
    BY <1>7 DEF FinishLoad
  <2>3. loaded' /\ loaded' \in BOOLEAN
    BY <1>7 DEF FinishLoad
  <2> QED
    BY <2>1, <2>2, <2>3, LegalKeeps DEF Calls
<1>8. CASE EditChain
  BY <1>8, EditKeepsType
<1>9. ASSUME NEW i \in 0 .. MaxScenes, SaveScene(i) PROVE TypeOK'
  <2>1. loaded' = loaded /\ chain' = chain
    BY <1>9 DEF SaveScene
  <2>2. answer' \in {Answer("saveScene", TRUE), Answer("saveScene", FALSE)}
    BY <1>9 DEF SaveScene
  <2>3. answer' \in [call : Calls, ok : BOOLEAN]
    <3>1. \A ok \in BOOLEAN : Answer("saveScene", ok) \in [call : Calls, ok : BOOLEAN]
      BY DEF Answer, Calls
    <3> QED
      BY <2>2, <3>1
  <2> QED
    BY <2>1, <2>3 DEF TypeOK, Calls
<1>10. ASSUME NEW n \in CallbackSizes, Process(n) PROVE TypeOK'
  BY <1>1, <1>10 DEF Process
<1> QED
  BY <1>2, <1>3, <1>4, <1>5, <1>6, <1>7, <1>8, <1>9, <1>10 DEF HostNext

\* What was added plays after everything snapshotChain gave.
LEMMA AddedIsLast ==
  ASSUME TypeOK, NEW m \in Modules, Adding(m)
  PROVE  \E s \in SlotDef : s.module = m /\ chain' = Append(Snapshot(chain), s)
<1> DEFINE slots == Snapshot(chain)
           s == [slot |-> NextSlot(slots), module |-> m]
           defs == Append(slots, s)
<1>1. slots \in Seq(SlotDef) /\ Sorted(slots) /\ defs \in Seq(SlotDef)
  BY EditsListSlots
<1>2. Rebuild("add", defs) /\ answer'.ok
  BY DEF Adding, AddModuleToChain, Answer
<1> HIDE DEF slots
<1>3. NextSlot(slots) \in Nat /\ \A i \in DOMAIN slots : slots[i].slot < NextSlot(slots)
  BY <1>1, NextSlotIsAbove
<1>4. s \in SlotDef /\ s.slot = NextSlot(slots) /\ s.module = m
  BY <1>3 DEF SlotDef
<1> HIDE DEF s
<1>5. chain' = Construct(defs)
  BY <1>1, <1>2, RebuildMakesTheChain
<1>6. Len(slots) \in Nat /\ DOMAIN slots = 1 .. Len(slots) /\ DOMAIN defs = 1 .. Len(slots) + 1
  BY <1>1, <1>4
<1>7. defs[Len(slots) + 1] = s /\ \A i \in 1 .. Len(slots) : defs[i] = slots[i]
  BY <1>1, <1>4
<1>8. Sorted(defs)
  <2>1. ASSUME NEW i \in DOMAIN defs, NEW j \in DOMAIN defs, i < j
        PROVE  defs[i].slot < defs[j].slot
    <3>1. i \in 1 .. Len(slots)
      BY <2>1, <1>6
    <3>2. CASE j = Len(slots) + 1
      BY <3>1, <3>2, <1>3, <1>4, <1>6, <1>7
    <3>3. CASE j # Len(slots) + 1
      <4>1. j \in 1 .. Len(slots)
        BY <3>3, <1>6
      <4> HIDE DEF defs
      <4> QED
        BY <2>1, <3>1, <4>1, <1>1, <1>6, <1>7 DEF Sorted
    <3> QED
      BY <3>2, <3>3
  <2> QED
    BY <2>1 DEF Sorted
<1>9. Construct(defs) = defs
  BY <1>1, <1>8, SortedIsInOrder DEF Construct
<1> QED
  BY <1>4, <1>5, <1>9 DEF slots

\* Removing takes the module of that slot out of a chain without gaps.
LEMMA RemovedIsGone ==
  ASSUME TypeOK, WithoutGaps(chain), NEW slot \in Ids, Removing(slot)
  PROVE  slot + 1 \in 1 .. Len(chain) /\ chain' = RemoveAt(chain, slot + 1)
<1> DEFINE src == CHOOSE i \in PositionOf(chain, slot) : TRUE
           defs == RemoveAt(chain, slot + 1)
<1>1. chain \in Seq(SlotDef) /\ Sorted(chain)
  BY ChainIsSorted
<1>2. Snapshot(chain) = chain
  BY <1>1, SnapshotIsSorted
<1>3. PositionOf(chain, slot) # {} /\ Rebuild("remove", RemoveAt(chain, src)) /\ answer'.ok
  BY <1>2 DEF Removing, RemoveModuleFromChain, Refuse, Answer
<1>4. \A i \in DOMAIN chain : chain[i].slot = i - 1 /\ i \in Nat
  BY <1>1 DEF WithoutGaps
<1>5. slot \in Nat
  BY MaxSlotsAssumption DEF Ids
<1>6. \A i \in PositionOf(chain, slot) : i = slot + 1 /\ i \in 1 .. Len(chain)
  BY <1>1, <1>4, <1>5 DEF PositionOf
<1>7. src = slot + 1 /\ slot + 1 \in 1 .. Len(chain)
  BY <1>3, <1>6
<1> HIDE DEF src
<1>8. /\ defs \in Seq(SlotDef) /\ Len(defs) = Len(chain) - 1
      /\ \A k \in 1 .. slot : defs[k] = chain[k]
      /\ \A k \in slot + 1 .. Len(chain) - 1 : defs[k] = chain[k + 1]
  <2>1. \A i \in 1 .. Len(chain) :
          /\ RemoveAt(chain, i) \in Seq(SlotDef) /\ Len(RemoveAt(chain, i)) = Len(chain) - 1
          /\ \A k \in 1 .. i - 1 : RemoveAt(chain, i)[k] = chain[k]
          /\ \A k \in i .. Len(chain) - 1 : RemoveAt(chain, i)[k] = chain[k + 1]
    BY <1>1, WithoutOne
  <2>2. PICK i \in 1 .. Len(chain) : i = slot + 1
    BY <1>7
  <2>3. slot = i - 1 /\ defs = RemoveAt(chain, i)
    BY <1>5, <2>2
  <2> HIDE DEF defs
  <2> QED
    BY <2>1, <2>2, <2>3
<1>9. chain' = Construct(defs)
  BY <1>3, <1>7, <1>8, RebuildMakesTheChain
<1> HIDE DEF defs
<1>10. \A i \in DOMAIN chain : chain[i].slot \in Nat
  BY <1>1, SlotsOfSequence
<1>11. Sorted(defs)
  <2>1. ASSUME NEW i \in DOMAIN defs, NEW j \in DOMAIN defs, i < j
        PROVE  defs[i].slot < defs[j].slot
    <3>1. i \in 1 .. Len(chain) - 1 /\ j \in 1 .. Len(chain) - 1 /\ Len(chain) \in Nat
      BY <1>1, <1>8
    <3>2. ASSUME NEW k \in 1 .. Len(chain) - 1
          PROVE  defs[k] = chain[IF k <= slot THEN k ELSE k + 1]
      <4>1. CASE k <= slot
        BY <4>1, <3>1, <1>5, <1>8
      <4>2. CASE ~(k <= slot)
        <5>1. k \in slot + 1 .. Len(chain) - 1
          BY <4>2, <3>1, <1>5
        <5> QED
          BY <4>2, <5>1, <1>8
      <4> QED
        BY <4>1, <4>2
    <3> DEFINE a == IF i <= slot THEN i ELSE i + 1
               b == IF j <= slot THEN j ELSE j + 1
    <3>3. a \in DOMAIN chain /\ b \in DOMAIN chain /\ a < b
      BY <2>1, <3>1, <1>1, <1>5
    <3>4. defs[i] = chain[a] /\ defs[j] = chain[b]
      BY <3>1, <3>2
    <3> HIDE DEF a, b
    <3> QED
      BY <3>3, <3>4, <1>1 DEF Sorted
  <2> QED
    BY <2>1 DEF Sorted
<1>12. Construct(defs) = defs
  BY <1>8, <1>11, SortedIsInOrder DEF Construct
<1> QED
  BY <1>7, <1>9, <1>12 DEF defs

\* The modules of a list of slots, without one of them.
LEMMA ModulesWithoutOne ==
  ASSUME NEW c \in Seq(SlotDef), NEW i \in 1 .. Len(c)
  PROVE  ModulesOf(RemoveAt(c, i)) = RemoveAt(ModulesOf(c), i)
<1> DEFINE d == RemoveAt(c, i)
           ms == ModulesOf(c)
           rs == RemoveAt(ms, i)
<1>1. \A k \in DOMAIN c : c[k].module \in Modules
  BY SlotsOfSequence
<1>2. ms \in Seq(Modules) /\ Len(ms) = Len(c) /\ \A k \in 1 .. Len(c) : ms[k] = c[k].module
  BY <1>1 DEF ModulesOf
<1>3. /\ d \in Seq(SlotDef) /\ Len(d) = Len(c) - 1
      /\ \A k \in 1 .. i - 1 : d[k] = c[k]
      /\ \A k \in i .. Len(c) - 1 : d[k] = c[k + 1]
  BY WithoutOne
<1> HIDE DEF ms, d
<1>4. i \in 1 .. Len(ms)
  BY <1>2
<1>5. /\ rs \in Seq(Modules) /\ Len(rs) = Len(ms) - 1
      /\ \A k \in 1 .. i - 1 : rs[k] = ms[k]
      /\ \A k \in i .. Len(ms) - 1 : rs[k] = ms[k + 1]
  BY <1>2, <1>4, WithoutOne
<1> HIDE DEF rs
<1>6. /\ ModulesOf(d) = [k \in 1 .. Len(c) - 1 |-> d[k].module]
      /\ rs = [k \in 1 .. Len(c) - 1 |-> rs[k]]
  BY <1>2, <1>3, <1>5 DEF ModulesOf
<1>7. ASSUME NEW k \in 1 .. Len(c) - 1 PROVE d[k].module = rs[k]
  <2>1. CASE k < i
    <3>1. k \in 1 .. i - 1 /\ k \in 1 .. Len(c)
      BY <2>1
    <3> QED
      BY <3>1, <1>2, <1>3, <1>5
  <2>2. CASE ~(k < i)
    <3>1. k \in i .. Len(c) - 1 /\ k + 1 \in 1 .. Len(c)
      BY <2>2
    <3> QED
      BY <3>1, <1>2, <1>3, <1>5
  <2> QED
    BY <2>1, <2>2
<1>8. ModulesOf(d) = rs
  BY <1>6, <1>7
<1> QED
  BY <1>8 DEF ms, d, rs

LEMMA ModulesWithOneMore ==
  ASSUME NEW c \in Seq(SlotDef), NEW s \in SlotDef
  PROVE  /\ ModulesOf(Append(c, s)) = Append(ModulesOf(c), s.module)
         /\ Last(Append(c, s)) = s
<1> DEFINE d == Append(c, s)
           ms == ModulesOf(c)
           rs == Append(ms, s.module)
<1>1. /\ Len(d) = Len(c) + 1 /\ DOMAIN d = 1 .. Len(c) + 1 /\ d[Len(c) + 1] = s
      /\ \A k \in 1 .. Len(c) : d[k] = c[k]
  OBVIOUS
<1>2. s.module \in Modules /\ \A k \in DOMAIN c : c[k].module \in Modules
  BY SlotsOfSequence DEF SlotDef
<1>3. ms \in Seq(Modules) /\ Len(ms) = Len(c) /\ \A k \in 1 .. Len(c) : ms[k] = c[k].module
  BY <1>2 DEF ModulesOf
<1> HIDE DEF ms
<1>4. /\ rs \in Seq(Modules) /\ Len(rs) = Len(c) + 1 /\ rs[Len(c) + 1] = s.module
      /\ \A k \in 1 .. Len(c) : rs[k] = ms[k]
  BY <1>2, <1>3
<1> HIDE DEF d, rs
<1>5. /\ ModulesOf(d) = [k \in 1 .. Len(c) + 1 |-> d[k].module]
      /\ rs = [k \in 1 .. Len(c) + 1 |-> rs[k]]
  BY <1>1, <1>4 DEF ModulesOf
<1>6. ASSUME NEW k \in 1 .. Len(c) + 1 PROVE d[k].module = rs[k]
  <2>1. CASE k = Len(c) + 1
    BY <1>1, <1>4, <2>1
  <2>2. CASE k # Len(c) + 1
    <3>1. k \in 1 .. Len(c)
      BY <2>2
    <3> QED
      BY <3>1, <1>1, <1>3, <1>4
  <2> QED
    BY <2>1, <2>2
<1>7. ModulesOf(d) = rs
  BY <1>5, <1>6
<1>8. Last(d) = s
  BY <1>1 DEF Last
<1> QED
  BY <1>7, <1>8 DEF d, ms, rs

LEMMA TypeStarts == HostInit => TypeOK
<1> SUFFICES ASSUME HostInit PROVE TypeOK
  OBVIOUS
<1>1. loaded = FALSE /\ chain = << >> /\ answer = Answer("none", TRUE)
  BY DEF HostInit, Init
<1>2. Answer("none", TRUE) \in [call : Calls, ok : BOOLEAN]
  BY DEF Answer, Calls
<1>3. chain \in Seq(SlotDef) /\ Len(chain) = 0 /\ DOMAIN chain = {}
  BY <1>1
<1>4. 0 <= MaxSlots
  BY MaxSlotsAssumption
<1> QED
  BY <1>1, <1>2, <1>3, <1>4 DEF TypeOK, Calls

\* Adding puts the new module last and, like removing from a chain without gaps in
\* its slot ids, touches nothing else (addModuleToChain, removeModuleFromChain).
THEOREM EditsDoWhatTheySay == HostSpec => EditsAreExact
<1> DEFINE Exact ==
      /\ WithoutGaps(chain) =>
           /\ \A m \in Modules :
                Adding(m) => ModulesOf(chain') = Append(ModulesOf(chain), m)
           /\ \A slot \in Ids :
                Removing(slot) => ModulesOf(chain') = RemoveAt(ModulesOf(chain), slot + 1)
      /\ \A m \in Modules : Adding(m) => Last(chain').module = m
<1>1. ASSUME TypeOK PROVE Exact
  <2>1. chain \in Seq(SlotDef) /\ Sorted(chain) /\ Snapshot(chain) \in Seq(SlotDef)
    BY <1>1, ChainIsSorted, EditsListSlots
  <2>2. WithoutGaps(chain) => Snapshot(chain) = chain
    BY <2>1, SnapshotIsSorted
  <2>3. ASSUME NEW m \in Modules, Adding(m)
        PROVE  /\ Last(chain').module = m
               /\ WithoutGaps(chain) => ModulesOf(chain') = Append(ModulesOf(chain), m)
    <3>1. PICK s \in SlotDef : s.module = m /\ chain' = Append(Snapshot(chain), s)
      BY <1>1, <2>3, AddedIsLast
    <3> QED
      BY <2>1, <2>2, <3>1, ModulesWithOneMore
  <2>4. ASSUME WithoutGaps(chain), NEW slot \in Ids, Removing(slot)
        PROVE  ModulesOf(chain') = RemoveAt(ModulesOf(chain), slot + 1)
    BY <1>1, <2>1, <2>4, RemovedIsGone, ModulesWithoutOne
  <2> QED
    BY <2>3, <2>4
<1>2. TypeOK => [Exact]_vars
  BY <1>1
<1> QED
  BY <1>2, TypeStarts, TypeKept, PTL DEF HostSpec, EditsAreExact

(***************************************************************************)
(* The scenes and the chain.                                               *)
(***************************************************************************)
ScenesBelong ==
  ~rejected =>
    /\ bank = scenesDefs
    /\ ~lost => \A i \in DOMAIN scenesDefs : scenesDefs[i] \subseteq ModuleSet(chain)

LEMMA ScenesStart == HostInit => ScenesBelong
BY DEF HostInit, ScenesBelong

LEMMA ScenesKept ==
  ASSUME ScenesBelong, [HostNext]_hostVars
  PROVE  ScenesBelong'
<1> USE DEF ScenesBelong, sceneVars
<1>1. CASE UNCHANGED <<vars, sceneVars>>
  BY <1>1 DEF vars, ModuleSet
<1>2. CASE UNCHANGED hostVars
  BY <1>1, <1>2 DEF hostVars
<1>3. ASSUME NEW size \in BlockSizes, PrepareSizes(size) PROVE ScenesBelong'
  BY <1>1, <1>3 DEF PrepareSizes
<1>4. CASE PrepareChain
  BY <1>1, <1>4 DEF PrepareChain
<1>5. CASE BeginLoad
  BY <1>5 DEF BeginLoad, ModuleSet
<1>6. CASE FailLoad
  BY <1>6 DEF FailLoad, Refuse, ModuleSet
<1>7. ASSUME NEW defs, NEW scenes, FinishLoad(defs, scenes) PROVE ScenesBelong'
  <2>1. CASE ScenesFit(scenes, chain')
    BY <1>7, <2>1 DEF FinishLoad, ScenesFit, ModuleSet
  <2>2. CASE ~ScenesFit(scenes, chain')
    BY <1>7, <2>2 DEF FinishLoad
  <2> QED
    BY <2>1, <2>2
<1>8. CASE EditChain
  <2>1. lost' = (lost \/ ~(ModuleSet(chain) \subseteq ModuleSet(chain')))
    BY <1>8 DEF EditChain
  <2>2. UNCHANGED <<scenesDefs, bank, rejected>>
    BY <1>8 DEF EditChain
  <2>3. ASSUME ~lost' PROVE ~lost /\ ModuleSet(chain) \subseteq ModuleSet(chain')
    BY <2>1, <2>3
  <2>4. ModuleSet(chain') = ModuleSet(chain)'
    BY DEF ModuleSet
  <2> QED
    BY <2>2, <2>3, <2>4
<1>9. ASSUME NEW i \in 0 .. MaxScenes, SaveScene(i) PROVE ScenesBelong'
  <2> DEFINE defs == WithScene(i, ModuleSet(Snapshot(chain)))
  <2>1. chain' = chain
    BY <1>9 DEF SaveScene
  <2>2. CASE ScenesFit(defs, chain)
    <3>1. scenesDefs' = defs /\ bank' = defs
      BY <1>9, <2>2 DEF SaveScene
    <3>2. \A k \in DOMAIN defs : defs[k] \subseteq ModuleSet(chain)
      BY <2>2 DEF ScenesFit
    <3> HIDE DEF defs
    <3> QED
      BY <2>1, <3>1, <3>2 DEF ModuleSet
  <2>3. CASE ~ScenesFit(defs, chain)
    BY <1>9, <2>1, <2>3 DEF SaveScene, ModuleSet
  <2> QED
    BY <2>2, <2>3
<1>10. ASSUME NEW n \in CallbackSizes, Process(n) PROVE ScenesBelong'
  BY <1>1, <1>10 DEF Process
<1> QED
  BY <1>2, <1>3, <1>4, <1>5, <1>6, <1>7, <1>8, <1>9, <1>10 DEF HostNext

\* The chain is legal, the scenes that are shown are the ones that are recalled, and
\* a preset that is saved and loaded again gives the same chain, with scenes that are
\* accepted (loadPresetText, the edits, saveScene, savePreset).
THEOREM HostIsSound == HostSpec => []HostInv
<1>1. ASSUME TypeOK, ScenesBelong PROVE HostInv
  <2>1. chain \in Seq(SlotDef) /\ Sorted(chain)
    BY <1>1, ChainIsSorted
  <2>2. ASSUME WithoutGaps(chain) PROVE Snapshot(chain) = chain /\ Construct(chain) = chain
    BY <2>1, <2>2, SnapshotIsSorted, SortedIsInOrder DEF Construct
  <2>3. ScenesAgree
    BY <1>1, <2>2 DEF ScenesAgree, ScenesBelong
  <2> QED
    BY <1>1, <2>3 DEF HostInv
<1> QED
  BY <1>1, TypeStarts, TypeKept, ScenesStart, ScenesKept, PTL DEF HostSpec
=============================================================================
