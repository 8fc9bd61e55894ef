--------------------------- MODULE HandoversProofs ---------------------------
(***************************************************************************)
(* For every capacity that divides the word size, the ring of SpscQueue is *)
(* free of data races and implements the bounded first-in first-out        *)
(* buffer.  For any set of chains, AudioGraph keeps exactly one owner per  *)
(* chain, never deletes the chain the control thread is editing and        *)
(* implements the exchange it promises.                                    *)
(***************************************************************************)
EXTENDS Handovers, SequenceTheorems, TLAPS

-----------------------------------------------------------------------------
(* Arithmetic of the slots *)

\* The index of a slot is one of the ring's.
LEMMA SlotInRange == \A i \in Nat : Slot(i) \in 0 .. Capacity - 1
BY CapacityAssumption, SMT DEF Slot

\* The remainder is determined by the division.
LEMMA SlotOfSum ==
  ASSUME NEW m \in Nat, NEW r \in 0 .. Capacity - 1
  PROVE  Slot(Capacity * m + r) = r
<1> DEFINE k == Capacity * m + r
           d == k \div Capacity
<1>1. k \in Nat /\ d \in Int /\ k = Capacity * d + Slot(k)
  BY CapacityAssumption, SMT DEF Slot
<1>2. Capacity * (m - d) = Slot(k) - r
  BY <1>1, SlotInRange, CapacityAssumption, SMT
<1>3. m - d < 1 /\ m - d > -1
  BY <1>1, <1>2, SlotInRange, CapacityAssumption, SMT
<1> QED
  BY <1>1, <1>2, <1>3, SlotInRange, CapacityAssumption, SMT

\* A counter that wraps keeps its slot, because Capacity divides WordSize.
LEMMA SlotOfWrap == \A i \in Nat : Slot(i + WordSize) = Slot(i)
<1> TAKE i \in Nat
<1> DEFINE q == WordSize \div Capacity
           p == i \div Capacity
<1>1. /\ q \in Nat /\ p \in Nat
      /\ WordSize = Capacity * q
      /\ i = Capacity * p + Slot(i)
      /\ Slot(i) \in 0 .. Capacity - 1
  BY CapacityAssumption, WordSizeAssumption, SMT DEF Slot
<1> HIDE DEF p, q
<1>2. i + WordSize = Capacity * (p + q) + Slot(i)
  BY <1>1, CapacityAssumption, SMT DEF Slot
<1> QED
  BY <1>1, <1>2, SlotOfSum

\* Two counters less than Capacity apart have different slots.
LEMMA SlotsDiffer ==
  ASSUME NEW i \in Nat, NEW j \in Nat, i < j, j < i + Capacity
  PROVE  Slot(i) # Slot(j)
<1> DEFINE p == i \div Capacity
           q == j \div Capacity
<1>1. /\ p \in Int /\ q \in Int
      /\ i = Capacity * p + Slot(i)
      /\ j = Capacity * q + Slot(j)
  BY CapacityAssumption, SMT DEF Slot
<1> SUFFICES ASSUME Slot(i) = Slot(j) PROVE FALSE
  OBVIOUS
<1>2. j - i = Capacity * (q - p)
  BY <1>1, SlotInRange, CapacityAssumption, SMT
<1>3. q - p > 0
  BY <1>1, <1>2, CapacityAssumption, SMT
<1> QED
  BY <1>1, <1>2, <1>3, CapacityAssumption, SMT

-----------------------------------------------------------------------------
(* The ring's inductive invariant *)

\* The slot the producer writes is the one after the last item.
LEMMA SlotOfTail ==
  ASSUME NEW h \in Word, NEW t \in Word
  PROVE  Slot(t) = Slot(h + Minus(t, h))
<1>1. CASE t >= h
  BY <1>1, WordSizeAssumption, SMT DEF Word, Minus
<1>2. CASE t < h
  <2>1. h + Minus(t, h) = t + WordSize
    BY <1>2, WordSizeAssumption, SMT DEF Word, Minus
  <2> QED
    BY <2>1, SlotOfWrap, WordSizeAssumption DEF Word
<1> QED
  BY <1>1, <1>2, WordSizeAssumption, SMT DEF Word

\* An item keeps its slot when the counter before it advances.
LEMMA SlotOfPlus1 ==
  ASSUME NEW h \in Word, NEW k \in Nat
  PROVE  Slot(Plus1(h) + k) = Slot(h + 1 + k)
<1>1. CASE h = WordSize - 1
  <2>1. Plus1(h) + k = k /\ h + 1 + k = k + WordSize
    BY <1>1, WordSizeAssumption, SMT DEF Plus1
  <2> QED
    BY <2>1, SlotOfWrap
<1>2. CASE h # WordSize - 1
  BY <1>2, WordSizeAssumption, SMT DEF Word, Plus1
<1> QED
  BY <1>1, <1>2

\* How the counters' distance moves with each of them.
LEMMA MinusPlus1 ==
  ASSUME NEW h \in Word, NEW t \in Word
  PROVE  /\ Plus1(h) \in Word /\ Minus(t, h) \in 0 .. WordSize - 1
         /\ Minus(t, h) < WordSize - 1 => Minus(Plus1(t), h) = Minus(t, h) + 1
         /\ Minus(t, h) > 0 => Minus(t, Plus1(h)) = Minus(t, h) - 1
         /\ Minus(t, h) = 0 <=> t = h
BY WordSizeAssumption, SMT DEF Word, Plus1, Minus

LEMMA InitRingInv == RingInit => RingInv
BY CapacityAssumption, WordSizeAssumption, SMT
   DEF RingInit, RingInv, RingTypeOK, Word, Count, Minus

\* Every step of either thread preserves what both rely on.
LEMMA NextRingInv == RingInv /\ [RingNext]_ringVars => RingInv'
<1> SUFFICES ASSUME RingInv, [RingNext]_ringVars
             PROVE  RingInv'
  OBVIOUS
<1> USE CapacityAssumption, WordSizeAssumption
<1>0. /\ head \in Nat /\ tail \in Nat
      /\ Slot(head) \in 0 .. Capacity - 1
      /\ Slot(tail) \in 0 .. Capacity - 1
  BY SlotInRange DEF RingInv, RingTypeOK, Word
<1>1. ASSUME NEW item \in Items, PushBegin(item)
      PROVE  RingInv'
  BY <1>1 DEF PushBegin, RingInv, RingTypeOK, popVars, Count
<1>2. CASE PushLoadHead
  BY <1>2 DEF PushLoadHead, RingInv, RingTypeOK, popVars, Count, Word, Minus
<1>3. CASE PushWrite
  <2>1. popPc = "publish" => Slot(head) # Slot(tail)
    <3>1. Slot(tail) = Slot(head + Count)
      BY SlotOfTail DEF RingInv, RingTypeOK, Count
    <3>2. popPc = "publish" => Count \in Nat /\ head < head + Count
                               /\ head + Count < head + Capacity
      BY <1>3 DEF PushWrite, RingInv, RingTypeOK, Count, Word, Minus
    <3> QED
      BY <1>0, <3>1, <3>2, SlotsDiffer
  <2> QED
    BY <1>0, <1>3, <2>1 DEF PushWrite, RingInv, RingTypeOK, popVars, Count
<1>4. CASE PushPublish
  <2>1. Count' = Count + 1 /\ tail' \in Word
    BY <1>4 DEF PushPublish, RingInv, RingTypeOK, Count, Word, Minus, Plus1
  <2> QED
    BY <1>4, <2>1, MinusPlus1 DEF PushPublish, RingInv, RingTypeOK, popVars, Count
<1>5. CASE PopBegin
  BY <1>5 DEF PopBegin, RingInv, RingTypeOK, pushVars, Count
<1>6. CASE PopLoadTail
  BY <1>6 DEF PopLoadTail, RingInv, RingTypeOK, pushVars, Count, Word, Minus
<1>7. CASE PopTake
  BY <1>0, <1>7 DEF PopTake, RingInv, RingTypeOK, pushVars, Count
<1>8. CASE PopPublish
  <2>1. Count' = Count - 1 /\ head' \in Word /\ Count \in Nat
    BY <1>8, MinusPlus1 DEF PopPublish, RingInv, RingTypeOK, Count
  <2> QED
    BY <1>8, <2>1 DEF PopPublish, RingInv, RingTypeOK, pushVars
<1>9. CASE UNCHANGED ringVars
  BY <1>9 DEF ringVars, pushVars, popVars, RingInv, RingTypeOK, Count
<1> QED
  BY <1>1, <1>2, <1>3, <1>4, <1>5, <1>6, <1>7, <1>8, <1>9
  DEF RingNext, Producer, Consumer

\* The ring invariant holds throughout, for every capacity and word size.
THEOREM RingSafe == RingSpec => []RingInv
BY InitRingInv, NextRingInv, PTL DEF RingSpec

\* Lines 25 and 37 of spsc_queue.h never touch the same element at once.
THEOREM RaceFree == RingSpec => []NoDataRace
<1>1. RingInv => NoDataRace
  <2> SUFFICES ASSUME RingInv, pushPc = "write", popPc = "take"
               PROVE  Slot(pushTail) # Slot(popHead)
    BY DEF NoDataRace
  <2>1. pushTail = tail /\ popHead = head /\ head \in Nat
    BY WordSizeAssumption DEF RingInv, RingTypeOK, Word
  <2>2. Slot(tail) = Slot(head + Count)
    BY SlotOfTail DEF RingInv, RingTypeOK, Count
  <2>3. Count \in Nat /\ head < head + Count /\ head + Count < head + Capacity
    BY CapacityAssumption, WordSizeAssumption
    DEF RingInv, RingTypeOK, Count, Word, Minus
  <2> QED
    BY <2>1, <2>2, <2>3, SlotsDiffer
<1> QED
  BY <1>1, RingSafe, PTL
-----------------------------------------------------------------------------
(* The ring implements the bounded buffer *)

Elements == Items \cup {NoItem}

\* The contents are a sequence as long as the counters are apart.
LEMMA ContentsIsSeq ==
  ASSUME RingInv
  PROVE  /\ Contents \in Seq(Elements) /\ Len(Contents) = Count
         /\ Count \in 0 .. Capacity /\ head \in Nat
         /\ \A i \in 1 .. Count : Contents[i] = data[Slot(head + i - 1)]
<1>1. Count \in 0 .. Capacity /\ head \in Nat
  BY CapacityAssumption, WordSizeAssumption
  DEF RingInv, RingTypeOK, Word, Count, Minus
<1>2. \A i \in 1 .. Count : data[Slot(head + i - 1)] \in Elements
  <2> TAKE i \in 1 .. Count
  <2>1. head + i - 1 \in Nat
    BY <1>1
  <2> QED
    BY <2>1, SlotInRange DEF RingInv, RingTypeOK, Elements
<1> QED
  BY <1>1, <1>2 DEF Contents

\* Publishing the counter appends the item that was written.
LEMMA PublishAppends ==
  ASSUME RingInv, RingInv', PushPublish
  PROVE  Contents' = Append(Contents, pushItem) /\ Len(Contents) < Capacity
<1>1. /\ Count < Capacity /\ Count' = Count + 1 /\ head' = head /\ data' = data
      /\ pushItem \in Elements /\ data[Slot(tail)] = pushItem
  BY CapacityAssumption, WordSizeAssumption
  DEF PushPublish, RingInv, RingTypeOK, Count, Word, Minus, Plus1, Elements
<1>2. /\ Contents' \in Seq(Elements) /\ Len(Contents') = Count'
      /\ \A i \in 1 .. Count' : Contents'[i] = data'[Slot(head' + i - 1)]
  <2>1. (Contents \in Seq(Elements))' /\ (Len(Contents) = Count)'
        /\ (\A i \in 1 .. Count : Contents[i] = data[Slot(head + i - 1)])'
    BY ContentsIsSeq, PTL
  <2> QED
    BY <2>1 DEF Elements, Slot
<1>3. Slot(tail) = Slot(head + Count)
  BY SlotOfTail DEF RingInv, RingTypeOK, Count
<1>4. /\ Append(Contents, pushItem) \in Seq(Elements)
      /\ Len(Append(Contents, pushItem)) = Count + 1
      /\ \A i \in 1 .. Count : Append(Contents, pushItem)[i] = Contents[i]
      /\ Append(Contents, pushItem)[Count + 1] = pushItem
  BY <1>1, ContentsIsSeq
<1>5. \A i \in 1 .. Count + 1 : Contents'[i] = Append(Contents, pushItem)[i]
  BY <1>1, <1>2, <1>3, <1>4, ContentsIsSeq
<1> QED
  BY <1>1, <1>2, <1>4, <1>5, SeqEqual, ContentsIsSeq

\* Advancing the consumer's counter removes the item that was copied out.
LEMMA PublishRemoves ==
  ASSUME RingInv, RingInv', PopPublish
  PROVE  /\ Contents # <<>>
         /\ Contents' = Tail(Contents) /\ popOut = Head(Contents)
<1>1. /\ Count > 0 /\ Count' = Count - 1 /\ head' = Plus1(head) /\ data' = data
      /\ popOut = data[Slot(head)]
  BY CapacityAssumption, WordSizeAssumption
  DEF PopPublish, RingInv, RingTypeOK, Count, Word, Minus, Plus1
<1>2. /\ Contents' \in Seq(Elements) /\ Len(Contents') = Count'
      /\ head' \in Nat
      /\ \A i \in 1 .. Count' : Contents'[i] = data[Slot(head' + i - 1)]
  <2>1. (Contents \in Seq(Elements))' /\ (Len(Contents) = Count)' /\ (head \in Nat)'
        /\ (\A i \in 1 .. Count : Contents[i] = data[Slot(head + i - 1)])'
    BY ContentsIsSeq, PTL
  <2> QED
    BY <1>1, <2>1 DEF Elements, Slot
<1>3. /\ Tail(Contents) \in Seq(Elements) /\ Len(Tail(Contents)) = Count - 1
      /\ \A i \in 1 .. Count - 1 : Tail(Contents)[i] = Contents[i + 1]
      /\ Contents # <<>> /\ Head(Contents) = Contents[1]
  BY <1>1, ContentsIsSeq
<1>4. \A i \in 1 .. Count - 1 : Contents'[i] = Tail(Contents)[i]
  <2> TAKE i \in 1 .. Count - 1
  <2>1. i \in Nat /\ i - 1 \in Nat /\ i + 1 \in 1 .. Count /\ head \in Word /\ head \in Nat
    BY <1>1, ContentsIsSeq DEF RingInv, RingTypeOK
  <2>2. Contents'[i] = data[Slot(Plus1(head) + (i - 1))]
    <3>1. Plus1(head) + i - 1 = Plus1(head) + (i - 1)
      BY <1>1, <1>2, <2>1
    <3> QED
      BY <1>1, <1>2, <3>1
  <2>3. Slot(Plus1(head) + (i - 1)) = Slot(head + 1 + (i - 1))
    BY <2>1, SlotOfPlus1
  <2>4. head + 1 + (i - 1) = head + (i + 1) - 1
    BY <2>1
  <2>5. Tail(Contents)[i] = data[Slot(head + (i + 1) - 1)]
    BY <1>3, <2>1, ContentsIsSeq
  <2> QED
    BY <2>2, <2>3, <2>4, <2>5
<1>5. Contents[1] = data[Slot(head)]
  <2>1. head + 1 - 1 = head /\ 1 \in 1 .. Count
    BY <1>1, ContentsIsSeq
  <2> QED
    BY <2>1, ContentsIsSeq
<1> QED
  BY <1>1, <1>2, <1>3, <1>4, <1>5, SeqEqual, ContentsIsSeq

\* The element being written is not among the contents.
LEMMA WriteKeepsContents ==
  ASSUME RingInv, PushWrite
  PROVE  Contents' = Contents
<1>1. /\ pushTail = tail /\ Count < Capacity /\ Count' = Count /\ head' = head
      /\ data' = [data EXCEPT ![Slot(tail)] = pushItem]
      /\ data \in [0 .. Capacity - 1 -> Elements]
  BY DEF PushWrite, RingInv, RingTypeOK, Count, Elements
<1>2. Slot(tail) = Slot(head + Count)
  BY SlotOfTail DEF RingInv, RingTypeOK, Count
<1>3. \A i \in 1 .. Count : data'[Slot(head + i - 1)] = data[Slot(head + i - 1)]
  <2> TAKE i \in 1 .. Count
  <2>1. /\ head + i - 1 \in Nat /\ head + Count \in Nat
        /\ head + i - 1 < head + Count /\ head + Count < head + i - 1 + Capacity
    BY <1>1, ContentsIsSeq, CapacityAssumption
  <2>2. Slot(head + i - 1) # Slot(tail)
    BY <1>2, <2>1, SlotsDiffer
  <2>3. Slot(head + i - 1) \in 0 .. Capacity - 1
    BY <2>1, SlotInRange
  <2> QED
    BY <1>1, <2>2, <2>3
<1> QED
  BY <1>1, <1>3 DEF Contents

\* Each step of the ring is a step of the abstract buffer, or leaves its
\* state alone.
LEMMA StepImplementsFifo ==
  RingInv /\ RingInv' /\ [RingNext]_ringVars => [Fifo!FifoNext]_Fifo!fifoVars
<1> SUFFICES ASSUME RingInv, RingInv', [RingNext]_ringVars
             PROVE  [Fifo!FifoNext]_Fifo!fifoVars
  OBVIOUS
<1> USE DEF Fifo!FifoNext, Fifo!fifoVars
<1>0. data' = data /\ head' = head /\ tail' = tail => Contents' = Contents
  BY DEF Contents, Count
<1>1. ASSUME NEW item \in Items, PushBegin(item)
      PROVE  UNCHANGED Fifo!fifoVars
  BY <1>0, <1>1 DEF PushBegin, popVars
<1>2. CASE PushLoadHead
  <2>1. CASE Minus(pushTail, head) >= Capacity
    <3>1. Len(Contents) = Capacity
      BY <1>2, <2>1, ContentsIsSeq, CapacityAssumption
      DEF PushLoadHead, RingInv, Count
    <3> QED
      BY <1>0, <1>2, <2>1, <3>1 DEF PushLoadHead, popVars, Fifo!PushFull
  <2>2. CASE ~(Minus(pushTail, head) >= Capacity)
    BY <1>0, <1>2, <2>2 DEF PushLoadHead, popVars
  <2> QED
    BY <2>1, <2>2
<1>3. CASE PushWrite
  BY <1>3, WriteKeepsContents DEF PushWrite, popVars
<1>4. CASE PushPublish
  <2>1. pushItem \in Items
    BY <1>4 DEF PushPublish, RingInv
  <2>2. Fifo!Push(pushItem)
    BY <1>4, PublishAppends DEF PushPublish, popVars, Fifo!Push
  <2> QED
    BY <2>1, <2>2
<1>5. CASE PopBegin
  BY <1>0, <1>5 DEF PopBegin, pushVars
<1>6. CASE PopLoadTail
  <2>1. CASE tail = popHead
    <3>1. Count = 0
      BY <1>6, <2>1, MinusPlus1 DEF PopLoadTail, RingInv, RingTypeOK, Count
    <3>2. Contents = <<>>
      BY <3>1, ContentsIsSeq, EmptySeq
    <3> QED
      BY <1>0, <1>6, <2>1, <3>2 DEF PopLoadTail, pushVars, Fifo!PopEmpty
  <2>2. CASE tail # popHead
    BY <1>0, <1>6, <2>2 DEF PopLoadTail, pushVars
  <2> QED
    BY <2>1, <2>2
<1>7. CASE PopTake
  BY <1>0, <1>7 DEF PopTake, pushVars
<1>8. CASE PopPublish
  BY <1>8, PublishRemoves DEF PopPublish, pushVars, Fifo!Pop
<1>9. CASE UNCHANGED ringVars
  BY <1>0, <1>9 DEF ringVars, pushVars, popVars
<1> QED
  BY <1>1, <1>2, <1>3, <1>4, <1>5, <1>6, <1>7, <1>8, <1>9
  DEF RingNext, Producer, Consumer

\* The ring implements the bounded first-in first-out buffer: no interleaving
\* of push and pop loses, duplicates or reorders an item, and push and pop
\* fail only on a full and on an empty buffer.
THEOREM RingIsFifo == RingSpec => ImplementsFifo
<1>1. RingInit => Fifo!FifoInit
  <2> SUFFICES ASSUME RingInit PROVE Fifo!FifoInit
    OBVIOUS
  <2>1. Contents = <<>>
    BY InitRingInv, ContentsIsSeq DEF RingInit, Count, Minus
  <2> QED
    BY <2>1 DEF RingInit, Fifo!FifoInit
<1> QED
  BY <1>1, StepImplementsFifo, RingSafe, PTL
  DEF RingSpec, ImplementsFifo, Fifo!FifoSpec

\* Both together: the ring is safe without a lock (SpscQueue::push and pop).
THEOREM RingIsSafe == RingSpec => []RingSafety
BY RingSafe, RaceFree, PTL DEF RingSafety

-----------------------------------------------------------------------------
(* The exchange of chains *)

USE ChainsAssumption DEF Pointer

-----------------------------------------------------------------------------
(* Ownership as a property of the function from places to chains *)

OneOwner(held, exist) ==
  /\ \A c \in exist : \E p \in Place : held[p] = c
  /\ \A p \in Place : held[p] \in exist \cup {NoChain}
  /\ \A p, q \in Place : held[p] = held[q] /\ p # q => held[p] = NoChain

\* A chain that moves from one place to an empty one keeps a single owner.
LEMMA MoveKeepsOwner ==
  ASSUME NEW held \in [Place -> Pointer], NEW exist \in SUBSET Chains,
         OneOwner(held, exist),
         NEW from \in Place, NEW to \in Place, from # to, held[to] = NoChain
  PROVE  OneOwner([held EXCEPT ![to] = held[from], ![from] = NoChain], exist)
<1> DEFINE new == [held EXCEPT ![to] = held[from], ![from] = NoChain]
<1>1. \A p \in Place : new[p] = IF p = from THEN NoChain
                                ELSE IF p = to THEN held[from] ELSE held[p]
  OBVIOUS
<1> HIDE DEF new
<1>2. \A c \in exist : \E p \in Place : new[p] = c
  <2> TAKE c \in exist
  <2>1. PICK p \in Place : held[p] = c
    BY DEF OneOwner
  <2>2. CASE p = from
    BY <1>1, <2>1, <2>2
  <2>3. CASE p # from
    BY <1>1, <2>1, <2>3
  <2> QED
    BY <2>2, <2>3
<1> QED
  BY <1>1, <1>2 DEF OneOwner, new

\* A new chain is put in an empty place.
LEMMA CreateKeepsOwner ==
  ASSUME NEW held \in [Place -> Pointer], NEW exist \in SUBSET Chains,
         OneOwner(held, exist),
         NEW c \in Chains, c \notin exist, NEW to \in Place, held[to] = NoChain
  PROVE  OneOwner([held EXCEPT ![to] = c], exist \cup {c})
BY DEF OneOwner

\* Deleting what one place holds, and clearing it, leaves the others alone.
LEMMA DeleteKeepsOwner ==
  ASSUME NEW held \in [Place -> Pointer], NEW exist \in SUBSET Chains,
         OneOwner(held, exist), NEW from \in Place
  PROVE  OneOwner([held EXCEPT ![from] = NoChain], exist \ {held[from]})
BY DEF OneOwner

LEMMA HeldType == TypeOK => Held \in [Place -> Pointer]
BY DEF TypeOK, Held, Place

LEMMA OwnerIsHeld == SingleOwner <=> OneOwner(Held, alive)
BY DEF SingleOwner, OneOwner
-----------------------------------------------------------------------------
(* Ownership through every step of either thread *)

LEMMA InitGraphInv == Init => GraphInv
BY DEF Init, GraphInv, TypeOK, LocalsOK, NewestOnItsWay, SingleOwner, Place, Held

LEMMA NextTypeOK == TypeOK /\ [Next]_vars => TypeOK'
BY DEF TypeOK, Next, Control, SwapSteps, Audio, vars, ctlVars, audVars,
   RequestSwap, DrainRetired, DeleteDrained, PublishNext,
   DeletePrevious, Destroy, TakePending,
   ReleaseSlot, Install, Retire, DeleteLeftover, Flip, ProcessLive

\* The slot that is not live, as a place.
OtherSlot == IF current = 0 THEN "slot1" ELSE "slot0"

LEMMA RequestSwapOwner ==
  ASSUME GraphInv, NEW c \in Chains, RequestSwap(c)
  PROVE  SingleOwner'
<1>1. Held' = [Held EXCEPT !["next"] = c] /\ Held["next"] = NoChain
  BY DEF GraphInv, TypeOK, LocalsOK, RequestSwap, audVars, Held, Place
<1>2. "next" \in Place /\ alive \in SUBSET Chains
  BY DEF Place, GraphInv, TypeOK
<1>3. OneOwner(Held', alive \cup {c})
  BY <1>1, <1>2, HeldType, OwnerIsHeld, CreateKeepsOwner DEF GraphInv, RequestSwap
<1> QED
  BY <1>3 DEF RequestSwap, SingleOwner, OneOwner

LEMMA DrainRetiredOwner ==
  ASSUME GraphInv, DrainRetired
  PROVE  SingleOwner'
<1>1. Held' = [Held EXCEPT !["drained"] = Held["retired"], !["retired"] = NoChain]
      /\ Held["drained"] = NoChain
  BY DEF GraphInv, TypeOK, LocalsOK, DrainRetired, audVars, Held, Place
<1>2. "drained" \in Place /\ "retired" \in Place /\ alive \in SUBSET Chains
  BY DEF Place, GraphInv, TypeOK
<1>3. OneOwner(Held', alive)
  BY <1>1, <1>2, HeldType, OwnerIsHeld, MoveKeepsOwner DEF GraphInv
<1> QED
  BY <1>3 DEF DrainRetired, SingleOwner, OneOwner
LEMMA DeleteDrainedOwner ==
  ASSUME GraphInv, DeleteDrained
  PROVE  SingleOwner'
<1>1. Held' = [Held EXCEPT !["drained"] = NoChain] /\ Held["drained"] = drained
  BY DEF GraphInv, TypeOK, DeleteDrained, audVars, Held, Place
<1>2. "drained" \in Place /\ alive \in SUBSET Chains
  BY DEF Place, GraphInv, TypeOK
<1>3. OneOwner(Held', alive \ {Held["drained"]})
  BY <1>1, <1>2, HeldType, OwnerIsHeld, DeleteKeepsOwner DEF GraphInv
<1> QED
  BY <1>1, <1>3 DEF DeleteDrained, SingleOwner, OneOwner

LEMMA PublishNextOwner ==
  ASSUME GraphInv, PublishNext
  PROVE  SingleOwner'
<1> DEFINE mid == [Held EXCEPT !["previous"] = Held["pending"],
                               !["pending"] = NoChain]
<1>1. /\ Held' = [mid EXCEPT !["pending"] = mid["next"], !["next"] = NoChain]
      /\ Held["previous"] = NoChain
  BY DEF GraphInv, TypeOK, LocalsOK, PublishNext, audVars, Held, Place
<1>2. /\ {"previous", "pending", "next"} \subseteq Place
      /\ alive \in SUBSET Chains
  BY DEF Place, GraphInv, TypeOK
<1>3. OneOwner(mid, alive)
  BY <1>1, <1>2, HeldType, OwnerIsHeld, MoveKeepsOwner DEF GraphInv
<1>4. mid \in [Place -> Pointer] /\ mid["pending"] = NoChain
  BY <1>2, HeldType DEF GraphInv
<1> HIDE DEF mid
<1>5. OneOwner(Held', alive)
  BY <1>1, <1>2, <1>3, <1>4, MoveKeepsOwner
<1> QED
  BY <1>5 DEF PublishNext, SingleOwner, OneOwner

LEMMA DeletePreviousOwner ==
  ASSUME GraphInv, DeletePrevious
  PROVE  SingleOwner'
<1>1. Held' = [Held EXCEPT !["previous"] = NoChain] /\ Held["previous"] = previous
  BY DEF GraphInv, TypeOK, DeletePrevious, audVars, Held, Place
<1>2. "previous" \in Place /\ alive \in SUBSET Chains
  BY DEF Place, GraphInv, TypeOK
<1>3. OneOwner(Held', alive \ {Held["previous"]})
  BY <1>1, <1>2, HeldType, OwnerIsHeld, DeleteKeepsOwner DEF GraphInv
<1> QED
  BY <1>1, <1>3 DEF DeletePrevious, SingleOwner, OneOwner

\* The destructor deletes what the graph owns, and nothing else is left.
LEMMA DestroyDeletesAll ==
  ASSUME GraphInv, Destroy
  PROVE  alive' = {} /\ \A p \in Place : Held'[p] = NoChain
<1>1. \A p \in Place : Held[p] \in {pending, retired, slots[0], slots[1], NoChain}
  BY DEF GraphInv, LocalsOK, Destroy, Held, Place
<1>2. alive \subseteq {pending, retired, slots[0], slots[1]}
  BY <1>1 DEF GraphInv, SingleOwner, TypeOK
<1>3. \A p \in Place : Held'[p] = NoChain
  BY DEF GraphInv, LocalsOK, Destroy, audVars, Held, Place
<1> QED
  BY <1>2, <1>3 DEF Destroy

LEMMA TakePendingOwner ==
  ASSUME GraphInv, TakePending
  PROVE  SingleOwner'
<1>1. Held' = [Held EXCEPT !["incoming"] = Held["pending"], !["pending"] = NoChain]
      /\ Held["incoming"] = NoChain
  BY DEF GraphInv, TypeOK, LocalsOK, TakePending, ctlVars, Held, Place
<1>2. "incoming" \in Place /\ "pending" \in Place /\ alive \in SUBSET Chains
  BY DEF Place, GraphInv, TypeOK
<1>3. OneOwner(Held', alive)
  BY <1>1, <1>2, HeldType, OwnerIsHeld, MoveKeepsOwner DEF GraphInv
<1> QED
  BY <1>3 DEF TakePending, SingleOwner, OneOwner

LEMMA ReleaseSlotOwner ==
  ASSUME GraphInv, ReleaseSlot
  PROVE  SingleOwner'
<1>1. /\ Held' = [Held EXCEPT !["displaced"] = Held[OtherSlot], ![OtherSlot] = NoChain]
      /\ Held["displaced"] = NoChain
  <2>1. CASE current = 0
    <3>1. 1 - current = 1 /\ OtherSlot = "slot1"
      BY <2>1 DEF OtherSlot
    <3>2. slots'[0] = slots[0] /\ slots'[1] = NoChain /\ displaced' = slots[1]
      BY <3>1 DEF GraphInv, TypeOK, LocalsOK, ReleaseSlot
    <3> QED
      BY <3>1, <3>2 DEF GraphInv, LocalsOK, ReleaseSlot, ctlVars, Held, Place
  <2>2. CASE current = 1
    <3>1. 1 - current = 0 /\ OtherSlot = "slot0"
      BY <2>2 DEF OtherSlot
    <3>2. slots'[1] = slots[1] /\ slots'[0] = NoChain /\ displaced' = slots[0]
      BY <3>1 DEF GraphInv, TypeOK, LocalsOK, ReleaseSlot
    <3> QED
      BY <3>1, <3>2 DEF GraphInv, LocalsOK, ReleaseSlot, ctlVars, Held, Place
  <2> QED
    BY <2>1, <2>2 DEF GraphInv, TypeOK
<1>2. /\ "displaced" \in Place /\ OtherSlot \in Place /\ OtherSlot # "displaced"
      /\ alive \in SUBSET Chains
  BY DEF Place, GraphInv, TypeOK, OtherSlot
<1>3. OneOwner(Held', alive)
  BY <1>1, <1>2, HeldType, OwnerIsHeld, MoveKeepsOwner DEF GraphInv
<1> QED
  BY <1>3 DEF ReleaseSlot, SingleOwner, OneOwner

LEMMA InstallOwner ==
  ASSUME GraphInv, Install
  PROVE  SingleOwner'
<1>1. /\ Held' = [Held EXCEPT ![OtherSlot] = Held["incoming"], !["incoming"] = NoChain]
      /\ Held[OtherSlot] = NoChain
  <2>1. CASE current = 0
    <3>1. 1 - current = 1 /\ OtherSlot = "slot1"
      BY <2>1 DEF OtherSlot
    <3>2. slots'[0] = slots[0] /\ slots'[1] = incoming /\ slots[1] = NoChain
      BY <3>1 DEF GraphInv, TypeOK, LocalsOK, Install
    <3> QED
      BY <3>1, <3>2 DEF GraphInv, LocalsOK, Install, ctlVars, Held, Place
  <2>2. CASE current = 1
    <3>1. 1 - current = 0 /\ OtherSlot = "slot0"
      BY <2>2 DEF OtherSlot
    <3>2. slots'[1] = slots[1] /\ slots'[0] = incoming /\ slots[0] = NoChain
      BY <3>1 DEF GraphInv, TypeOK, LocalsOK, Install
    <3> QED
      BY <3>1, <3>2 DEF GraphInv, LocalsOK, Install, ctlVars, Held, Place
  <2> QED
    BY <2>1, <2>2 DEF GraphInv, TypeOK
<1>2. /\ "incoming" \in Place /\ OtherSlot \in Place /\ OtherSlot # "incoming"
      /\ alive \in SUBSET Chains
  BY DEF Place, GraphInv, TypeOK, OtherSlot
<1>3. OneOwner(Held', alive)
  BY <1>1, <1>2, HeldType, OwnerIsHeld, MoveKeepsOwner DEF GraphInv
<1> QED
  BY <1>3 DEF Install, SingleOwner, OneOwner

LEMMA RetireOwner ==
  ASSUME GraphInv, Retire
  PROVE  SingleOwner'
<1> DEFINE mid == [Held EXCEPT !["leftover"] = Held["retired"],
                               !["retired"] = NoChain]
<1>1. /\ Held' = [mid EXCEPT !["retired"] = mid["displaced"],
                             !["displaced"] = NoChain]
      /\ Held["leftover"] = NoChain
  BY DEF GraphInv, TypeOK, LocalsOK, Retire, ctlVars, Held, Place
<1>2. /\ {"leftover", "retired", "displaced"} \subseteq Place
      /\ alive \in SUBSET Chains
  BY DEF Place, GraphInv, TypeOK
<1>3. OneOwner(mid, alive)
  BY <1>1, <1>2, HeldType, OwnerIsHeld, MoveKeepsOwner DEF GraphInv
<1>4. mid \in [Place -> Pointer] /\ mid["retired"] = NoChain
  BY <1>2, HeldType DEF GraphInv
<1> HIDE DEF mid
<1>5. OneOwner(Held', alive)
  BY <1>1, <1>2, <1>3, <1>4, MoveKeepsOwner
<1> QED
  BY <1>5 DEF Retire, SingleOwner, OneOwner

LEMMA DeleteLeftoverOwner ==
  ASSUME GraphInv, DeleteLeftover
  PROVE  SingleOwner'
<1>1. Held' = [Held EXCEPT !["leftover"] = NoChain] /\ Held["leftover"] = leftover
  BY DEF GraphInv, TypeOK, DeleteLeftover, ctlVars, Held, Place
<1>2. "leftover" \in Place /\ alive \in SUBSET Chains
  BY DEF Place, GraphInv, TypeOK
<1>3. OneOwner(Held', alive \ {Held["leftover"]})
  BY <1>1, <1>2, HeldType, OwnerIsHeld, DeleteKeepsOwner DEF GraphInv
<1> QED
  BY <1>1, <1>3 DEF DeleteLeftover, SingleOwner, OneOwner
\* Every step keeps one owner per chain.
LEMMA NextSingleOwner ==
  ASSUME GraphInv, [Next]_vars
  PROVE  SingleOwner'
<1> DEFINE Same == Held' = Held /\ alive' = alive
<1>0. Same => SingleOwner'
  BY DEF GraphInv, SingleOwner
<1>1. ASSUME NEW c \in Chains, RequestSwap(c)
      PROVE  SingleOwner'
  BY <1>1, RequestSwapOwner
<1>2. CASE Destroy
  BY <1>2, DestroyDeletesAll DEF SingleOwner
<1>3. CASE Flip \/ ProcessLive \/ UNCHANGED vars
  <2>1. /\ pending' = pending /\ retired' = retired /\ slots' = slots
        /\ next' = next /\ drained' = drained /\ previous' = previous
        /\ incoming' = incoming /\ displaced' = displaced
        /\ leftover' = leftover /\ alive' = alive
    BY <1>3 DEF Flip, ProcessLive, vars, ctlVars, audVars
  <2> QED
    BY <1>0, <2>1 DEF Held
<1>4. CASE SwapSteps
  BY <1>4, DrainRetiredOwner, DeleteDrainedOwner, PublishNextOwner,
     DeletePreviousOwner DEF SwapSteps
<1>5. CASE TakePending \/ ReleaseSlot \/ Install \/ Retire \/ DeleteLeftover
  BY <1>5, TakePendingOwner, ReleaseSlotOwner, InstallOwner, RetireOwner,
     DeleteLeftoverOwner
<1> QED
  BY <1>1, <1>2, <1>3, <1>4, <1>5 DEF Next, Control, Audio

\* The locals of a thread are in use exactly where its code declares them.
LEMMA NextLocalsOK ==
  ASSUME GraphInv, [Next]_vars
  PROVE  LocalsOK'
<1> USE DEF GraphInv, TypeOK, LocalsOK
<1>1. ASSUME NEW c \in Chains, RequestSwap(c)
      PROVE  LocalsOK'
  BY <1>1 DEF RequestSwap, audVars
<1>2. CASE SwapSteps
  BY <1>2 DEF SwapSteps, DrainRetired, DeleteDrained, PublishNext,
     DeletePrevious, audVars
<1>3. CASE Destroy
  BY <1>3 DEF Destroy, audVars
<1>4. CASE TakePending
  BY <1>4 DEF TakePending, ctlVars
<1>5. CASE ReleaseSlot
  <2>1. 1 - current \in {0, 1}
    OBVIOUS
  <2>2. slots'[1 - current'] = NoChain
    BY <1>5, <2>1 DEF ReleaseSlot
  <2> QED
    BY <1>5, <2>2 DEF ReleaseSlot, ctlVars
<1>6. CASE Install
  BY <1>6 DEF Install, ctlVars
<1>7. CASE Retire \/ DeleteLeftover \/ Flip \/ ProcessLive
  BY <1>7 DEF Retire, DeleteLeftover, Flip, ProcessLive, ctlVars
<1>8. CASE UNCHANGED vars
  BY <1>8 DEF vars, ctlVars, audVars
<1> QED
  BY <1>1, <1>2, <1>3, <1>4, <1>5, <1>6, <1>7, <1>8
  DEF Next, Control, Audio

\* The newest chain moves forward only: from the request to pending_, to the
\* audio thread, to the slot that becomes live.
LEMMA NextNewestOnItsWay ==
  ASSUME GraphInv, [Next]_vars
  PROVE  NewestOnItsWay'
<1> USE DEF GraphInv, TypeOK, LocalsOK, NewestOnItsWay
<1>1. ASSUME NEW c \in Chains, RequestSwap(c)
      PROVE  NewestOnItsWay'
  BY <1>1 DEF RequestSwap
<1>2. CASE SwapSteps
  BY <1>2 DEF SwapSteps, DrainRetired, DeleteDrained, PublishNext,
     DeletePrevious, audVars
<1>3. CASE Destroy
  BY <1>3 DEF Destroy, audVars
<1>4. CASE TakePending
  BY <1>4 DEF TakePending, ctlVars
<1>5. CASE ReleaseSlot
  BY <1>5 DEF ReleaseSlot, ctlVars
<1>6. CASE Install
  <2>1. slots'[1 - current'] = incoming
    BY <1>6 DEF Install
  <2> QED
    BY <1>6, <2>1 DEF Install, ctlVars
<1>7. CASE Retire \/ DeleteLeftover \/ ProcessLive
  BY <1>7 DEF Retire, DeleteLeftover, ProcessLive, ctlVars
<1>8. CASE Flip
  BY <1>8 DEF Flip, ctlVars
<1>9. CASE UNCHANGED vars
  BY <1>9 DEF vars, ctlVars, audVars
<1> QED
  BY <1>1, <1>2, <1>3, <1>4, <1>5, <1>6, <1>7, <1>8, <1>9
  DEF Next, Control, Audio

\* The invariant of the exchange, for every set of chains.
THEOREM GraphSafe == Spec => []GraphInv
<1>1. GraphInv /\ [Next]_vars => GraphInv'
  BY NextTypeOK, NextLocalsOK, NextNewestOnItsWay, NextSingleOwner DEF GraphInv
<1> QED
  BY <1>1, InitGraphInv, PTL DEF Spec

\* EngineHost::chain_ never dangles: the chain the control thread edits
\* without asking the graph (engine_host.cpp:195-199) has an owner.
THEOREM NewestAlive == Spec => []NewestIsAlive
<1>1. GraphInv => NewestIsAlive
  <2> SUFFICES ASSUME GraphInv PROVE newest \in alive \cup {NoChain}
    BY DEF NewestIsAlive
  <2>1. \E p \in Place : newest = Held[p]
    <3>1. newest \in {next, pending, incoming, slots[0], slots[1]}
      BY DEF GraphInv, NewestOnItsWay, TypeOK
    <3>2. /\ next = Held["next"] /\ pending = Held["pending"]
          /\ incoming = Held["incoming"]
          /\ slots[0] = Held["slot0"] /\ slots[1] = Held["slot1"]
          /\ {"next", "pending", "incoming", "slot0", "slot1"} \subseteq Place
      BY DEF Held, Place
    <3> QED
      BY <3>1, <3>2
  <2> QED
    BY <2>1 DEF GraphInv, SingleOwner
<1> QED
  BY <1>1, GraphSafe, PTL
-----------------------------------------------------------------------------
(* The graph implements the exchange it promises *)

\* A chain taken out to be deleted is neither live nor waiting.
LEMMA DoomedIsElsewhere ==
  ASSUME GraphInv
  PROVE  /\ drained # NoChain => drained \in alive \ {LandingChain, pending}
         /\ previous # NoChain => previous \in alive \ {LandingChain, pending}
         /\ leftover # NoChain => leftover \in alive \ {LandingChain, pending}
         /\ next # NoChain => next \in alive \ {LandingChain, pending}
<1>1. /\ Held["drained"] = drained /\ Held["previous"] = previous
      /\ Held["leftover"] = leftover /\ Held["next"] = next
      /\ Held["pending"] = pending
      /\ Place = Place \cup {"drained", "previous", "leftover", "next", "pending"}
  BY DEF Held, Place
<1>2. \E p \in {"incoming", "slot0", "slot1"} : p \in Place /\ LandingChain = Held[p]
  <2>1. LandingChain \in {incoming, slots[0], slots[1]}
    BY DEF LandingChain, GraphInv, TypeOK
  <2> QED
    BY <2>1 DEF Held, Place
<1>3. \A p, q \in Place : Held[p] = Held[q] /\ p # q => Held[p] = NoChain
  BY DEF GraphInv, SingleOwner
<1>4. \A p \in Place : Held[p] # NoChain => Held[p] \in alive
  BY DEF GraphInv, SingleOwner
<1>5. ASSUME NEW p \in {"drained", "previous", "leftover", "next"},
             Held[p] # NoChain
      PROVE  Held[p] \in alive \ {LandingChain, pending}
  BY <1>1, <1>2, <1>3, <1>4, <1>5
<1> QED
  BY <1>1, <1>5

LEMMA StepImplementsExchange ==
  ASSUME GraphInv, GraphInv', [Next]_vars
  PROVE  [Exchange!ExchangeNext]_Exchange!exchangeVars
<1> USE DEF Exchange!ExchangeNext, Exchange!exchangeVars
<1> DEFINE Stays == LandingChain' = LandingChain
<1>0. audPc' = audPc /\ incoming' = incoming /\ slots' = slots /\ current' = current
      => Stays
  BY DEF LandingChain
<1>1. ASSUME NEW c \in Chains, RequestSwap(c)
      PROVE  Exchange!Build(c)
  BY <1>0, <1>1 DEF RequestSwap, audVars, Exchange!Build
<1>2. CASE DrainRetired
  BY <1>0, <1>2 DEF DrainRetired, audVars
<1>3. CASE DeleteDrained
  <2>1. Stays /\ pending' = pending /\ alive' = alive \ {drained}
    BY <1>0, <1>3 DEF DeleteDrained, audVars
  <2>2. CASE drained = NoChain
    BY <2>1, <2>2 DEF GraphInv, TypeOK
  <2>3. CASE drained # NoChain
    BY <2>1, <2>3, DoomedIsElsewhere DEF Exchange!Discard, GraphInv, TypeOK
  <2> QED
    BY <2>2, <2>3
<1>4. CASE PublishNext
  <2>1. Stays /\ pending' = next /\ alive' = alive /\ next # NoChain /\ next \in Chains
    BY <1>0, <1>4 DEF PublishNext, audVars, GraphInv, TypeOK, LocalsOK
  <2> QED
    BY <2>1, DoomedIsElsewhere DEF Exchange!HandOver
<1>5. CASE DeletePrevious
  <2>1. Stays /\ pending' = pending /\ alive' = alive \ {previous}
    BY <1>0, <1>5 DEF DeletePrevious, audVars
  <2>2. CASE previous = NoChain
    BY <2>1, <2>2 DEF GraphInv, TypeOK
  <2>3. CASE previous # NoChain
    BY <2>1, <2>3, DoomedIsElsewhere DEF Exchange!Discard, GraphInv, TypeOK
  <2> QED
    BY <2>2, <2>3
<1>6. CASE Destroy
  <2>1. LandingChain' = NoChain
    BY <1>6 DEF Destroy, audVars, LandingChain, GraphInv, TypeOK
  <2> QED
    BY <1>6, <2>1, DestroyDeletesAll DEF Destroy, Exchange!TearDown
<1>7. CASE TakePending
  <2>1. CASE pending = NoChain
    BY <1>7, <2>1 DEF TakePending, LandingChain
  <2>2. CASE pending # NoChain
    BY <1>7, <2>2 DEF TakePending, LandingChain, Exchange!Land
  <2> QED
    BY <2>1, <2>2
<1>8. CASE ReleaseSlot \/ Retire
  BY <1>8 DEF ReleaseSlot, Retire, LandingChain
<1>9. CASE Install
  BY <1>9 DEF Install, LandingChain, GraphInv, TypeOK
<1>10. CASE DeleteLeftover
  <2>1. Stays /\ pending' = pending /\ alive' = alive \ {leftover}
    BY <1>10 DEF DeleteLeftover, LandingChain
  <2>2. CASE leftover = NoChain
    BY <2>1, <2>2 DEF GraphInv, TypeOK
  <2>3. CASE leftover # NoChain
    BY <2>1, <2>3, DoomedIsElsewhere DEF Exchange!Discard, GraphInv, TypeOK
  <2> QED
    BY <2>2, <2>3
<1>11. CASE Flip \/ ProcessLive
  BY <1>11 DEF Flip, ProcessLive, LandingChain
<1>12. CASE UNCHANGED vars
  BY <1>0, <1>12 DEF vars, audVars
<1> QED
  BY <1>1, <1>2, <1>3, <1>4, <1>5, <1>6, <1>7, <1>8, <1>9, <1>10, <1>11, <1>12
  DEF Next, Control, SwapSteps, Audio

\* Whatever the interleaving, requestSwap and processBlock together are the
\* exchange of ChainExchange: the newest chain wins, a swap takes effect in
\* one step, and neither the live nor the waiting chain is ever deleted.
THEOREM GraphIsExchange == Spec => ImplementsExchange
<1>1. Init => Exchange!ExchangeInit
  BY DEF Init, LandingChain, Exchange!ExchangeInit
<1>2. GraphInv /\ GraphInv' /\ [Next]_vars
      => [Exchange!ExchangeNext]_Exchange!exchangeVars
  BY StepImplementsExchange
<1> QED
  BY <1>1, <1>2, GraphSafe, PTL
  DEF Spec, ImplementsExchange, Exchange!ExchangeSpec

\* Both together: no chain leaks, none is used after it was deleted
\* (AudioGraph::requestSwap, processBlock and EngineHost::chain_).
THEOREM GraphIsSafe == Spec => []GraphSafety
BY GraphSafe, NewestAlive, PTL DEF GraphSafety
=============================================================================
