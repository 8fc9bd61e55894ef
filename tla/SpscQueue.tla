------------------------------ MODULE SpscQueue ------------------------------
(***************************************************************************)
(* core/audio/spsc_queue.h: the lock-free ring that carries UI commands    *)
(* from the control thread to the audio thread and used binding tables     *)
(* back.  One thread pushes and one pops; each operation is split at its   *)
(* atomic loads and stores, so every interleaving of the two is explored.  *)
(* head_ and tail_ are free-running size_t counters and wrap at WordSize.  *)
(***************************************************************************)
EXTENDS Integers, Sequences

CONSTANTS
  Items,      \* the values that may be pushed
  NoItem,     \* an element that was never written
  Capacity,   \* template parameter Capacity
  WordSize    \* number of values of std::size_t

\* The static_asserts of lines 12-13 make Capacity a power of two below the
\* width of size_t; what the ring needs of it is that it divides WordSize.
ASSUME CapacityAssumption == Capacity \in Nat \ {0}
ASSUME WordSizeAssumption ==
  /\ WordSize \in Nat
  /\ WordSize > Capacity
  /\ WordSize % Capacity = 0
ASSUME ItemsAssumption == NoItem \notin Items

VARIABLES
  data,       \* data_
  head,       \* head_, written by the consumer
  tail,       \* tail_, written by the producer
  pushPc,     \* where the producer is in push()
  pushItem,   \* its argument
  pushTail,   \* its local `tail'
  pushed,     \* what its last call returned
  popPc,      \* where the consumer is in pop()
  popHead,    \* its local `head'
  popOut,     \* its local copy of the slot
  popped      \* the item its last call delivered, NoItem for `false'

pushVars == <<pushPc, pushItem, pushTail, pushed>>
popVars  == <<popPc, popHead, popOut, popped>>
ringVars == <<data, head, tail, pushVars, popVars>>

Word == 0 .. WordSize - 1

\* size_t arithmetic on the counters
Minus(a, b) == IF a >= b THEN a - b ELSE a - b + WordSize
Plus1(a)    == IF a = WordSize - 1 THEN 0 ELSE a + 1

\* index & (Capacity - 1) for a power of two
Slot(index) == index % Capacity

RingInit ==
  /\ data = [i \in 0 .. Capacity - 1 |-> NoItem]
  /\ head = 0 /\ tail = 0
  /\ pushPc = "idle" /\ pushItem = NoItem /\ pushTail = 0 /\ pushed = "none"
  /\ popPc = "idle" /\ popHead = 0 /\ popOut = NoItem /\ popped = NoItem

(***************************************************************************)
(* The producer: push(item)                                                *)
(***************************************************************************)
PushBegin(item) ==        \* the relaxed load of the producer's own counter
  /\ pushPc = "idle"
  /\ pushPc' = "load"
  /\ pushItem' = item
  /\ pushTail' = tail
  /\ UNCHANGED <<data, head, tail, pushed, popVars>>

PushLoadHeadLate ==       \* deviation: the full test is off by one
  /\ pushPc = "load"
  /\ IF Minus(pushTail, head) > Capacity
     THEN pushPc' = "idle" /\ pushed' = "full"
     ELSE pushPc' = "write" /\ UNCHANGED pushed
  /\ UNCHANGED <<data, head, tail, pushItem, pushTail, popVars>>

PushLoadHead ==           \* acquire load, then the full test
  /\ pushPc = "load"
  /\ IF Minus(pushTail, head) >= Capacity
     THEN pushPc' = "idle" /\ pushed' = "full"
     ELSE pushPc' = "write" /\ UNCHANGED pushed
  /\ UNCHANGED <<data, head, tail, pushItem, pushTail, popVars>>

PushWrite ==
  /\ pushPc = "write"
  /\ pushPc' = "publish"
  /\ data' = [data EXCEPT ![Slot(pushTail)] = pushItem]
  /\ UNCHANGED <<head, tail, pushItem, pushTail, pushed, popVars>>

PushPublish ==            \* release store
  /\ pushPc = "publish"
  /\ pushPc' = "idle"
  /\ tail' = Plus1(pushTail)
  /\ pushed' = "ok"
  /\ UNCHANGED <<data, head, pushItem, pushTail, popVars>>

(***************************************************************************)
(* The consumer: pop(out)                                                  *)
(***************************************************************************)
PopBegin ==
  /\ popPc = "idle"
  /\ popPc' = "load"
  /\ popHead' = head
  /\ UNCHANGED <<data, head, tail, popOut, popped, pushVars>>

PopLoadTailBlind ==       \* deviation: no test for an empty ring
  /\ popPc = "load"
  /\ popPc' = "take"
  /\ UNCHANGED <<data, head, tail, popHead, popOut, popped, pushVars>>

PopLoadTail ==
  /\ popPc = "load"
  /\ IF tail = popHead
     THEN popPc' = "idle" /\ popped' = NoItem
     ELSE popPc' = "take" /\ UNCHANGED popped
  /\ UNCHANGED <<data, head, tail, popHead, popOut, pushVars>>

PopTake ==
  /\ popPc = "take"
  /\ popPc' = "publish"
  /\ popOut' = data[Slot(popHead)]
  /\ UNCHANGED <<data, head, tail, popHead, popped, pushVars>>

PopPublishStuck ==        \* deviation: stores head back, not head + 1
  /\ popPc = "publish"
  /\ popPc' = "idle"
  /\ head' = popHead
  /\ popped' = popOut
  /\ UNCHANGED <<data, tail, popHead, popOut, pushVars>>

PopPublish ==
  /\ popPc = "publish"
  /\ popPc' = "idle"
  /\ head' = Plus1(popHead)
  /\ popped' = popOut
  /\ UNCHANGED <<data, tail, popHead, popOut, pushVars>>

Producer == (\E item \in Items : PushBegin(item))
            \/ PushLoadHead \/ PushWrite \/ PushPublish
Consumer == PopBegin \/ PopLoadTail \/ PopTake \/ PopPublish

RingNext == Producer \/ Consumer
RingSpec == RingInit /\ [][RingNext]_ringVars

\* A call that has begun runs to its end, and the audio thread drains the
\* queue in every block (control_router.cpp:154); nobody has to push.
RingFairSpec ==
  /\ RingSpec
  /\ WF_ringVars(PushLoadHead \/ PushWrite \/ PushPublish)
  /\ WF_ringVars(Consumer)

-----------------------------------------------------------------------------
(***************************************************************************)
(* Properties                                                              *)
(***************************************************************************)
RingTypeOK ==
  /\ data \in [0 .. Capacity - 1 -> Items \cup {NoItem}]
  /\ head \in Word /\ tail \in Word
  /\ pushPc \in {"idle", "load", "write", "publish"}
  /\ pushItem \in Items \cup {NoItem}
  /\ pushTail \in Word
  /\ pushed \in {"none", "ok", "full"}
  /\ popPc \in {"idle", "load", "take", "publish"}
  /\ popHead \in Word
  /\ popOut \in Items \cup {NoItem}
  /\ popped \in Items \cup {NoItem}

Count == Minus(tail, head)

\* What each thread knows of the other while its call is under way: a local
\* counter is still the shared one it was read from, a slot the producer may
\* write is free, a slot the consumer may read is filled and stays as it was.
RingInv ==
  /\ RingTypeOK
  /\ Count <= Capacity
  /\ pushPc # "idle" => pushTail = tail /\ pushItem \in Items
  /\ pushPc \in {"write", "publish"} => Count < Capacity
  /\ pushPc = "publish" => data[Slot(tail)] = pushItem
  /\ popPc # "idle" => popHead = head
  /\ popPc \in {"take", "publish"} => Count > 0
  /\ popPc = "publish" => popOut = data[Slot(head)]

\* Safety of the unsynchronised element accesses: while one thread is at the
\* write of data_[tail & mask] and the other at the read of data_[head & mask],
\* they are at different elements, so lines 25 and 37 never race.
NoDataRace ==
  pushPc = "write" /\ popPc = "take" => Slot(pushTail) # Slot(popHead)

\* What the ring needs to be safe: its locals are still true when they are used,
\* and its element accesses never meet.
RingSafety == RingInv /\ NoDataRace

\* The ring behaves as the bounded first-in first-out buffer of BoundedFifo:
\* nothing is lost, duplicated or reordered, `false' from push means full at
\* that moment and `false' from pop means empty.
Contents == [i \in 1 .. Count |-> data[Slot(head + i - 1)]]
Fifo == INSTANCE BoundedFifo WITH queue <- Contents
ImplementsFifo == Fifo!FifoSpec

\* Whatever is in the ring moves forward: the oldest item is taken out.
OldestIsTaken ==
  \A h \in Word : (head = h /\ tail # h) ~> (head # h)
=============================================================================
