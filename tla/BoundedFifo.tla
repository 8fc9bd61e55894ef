----------------------------- MODULE BoundedFifo -----------------------------
(***************************************************************************)
(* What core/audio/spsc_queue.h promises its two users: a first-in         *)
(* first-out buffer of at most Capacity items whose push reports failure   *)
(* only when the buffer is full and whose pop reports failure only when it *)
(* is empty.  Every operation takes effect in one step.                    *)
(***************************************************************************)
EXTENDS Naturals, Sequences

CONSTANTS
  Items,      \* the values that may be pushed
  Capacity,   \* template parameter Capacity
  NoItem      \* what a register holds before the first operation

VARIABLES
  queue,      \* the items pushed and not yet popped, oldest first
  pushed,     \* result of the last push: "ok", "full", or "none" before it
  popped      \* the item of the last pop, NoItem when it found nothing

fifoVars == <<queue, pushed, popped>>

FifoInit ==
  /\ queue = <<>>
  /\ pushed = "none"
  /\ popped = NoItem

Push(item) ==
  /\ Len(queue) < Capacity
  /\ queue' = Append(queue, item)
  /\ pushed' = "ok"
  /\ UNCHANGED popped

PushFull ==
  /\ Len(queue) = Capacity
  /\ pushed' = "full"
  /\ UNCHANGED <<queue, popped>>

Pop ==
  /\ queue # <<>>
  /\ queue' = Tail(queue)
  /\ popped' = Head(queue)
  /\ UNCHANGED pushed

PopEmpty ==
  /\ queue = <<>>
  /\ popped' = NoItem
  /\ UNCHANGED <<queue, pushed>>

FifoNext == (\E item \in Items : Push(item)) \/ PushFull \/ Pop \/ PopEmpty

FifoSpec == FifoInit /\ [][FifoNext]_fifoVars
=============================================================================
