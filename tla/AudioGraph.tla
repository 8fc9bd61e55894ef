------------------------------ MODULE AudioGraph ------------------------------
(***************************************************************************)
(* core/audio/audio_graph.{h,cpp}: the control thread exchanges signal     *)
(* chains with the audio thread through two atomic pointers, pending_ and  *)
(* retired_, and two slots that only the audio thread writes.  Every       *)
(* exchange, every delete and every slot write is a step of its own.       *)
(***************************************************************************)
EXTENDS Naturals, FiniteSets

CONSTANTS
  Chains,     \* identities of heap-allocated chains, reused after a delete
  NoChain     \* the null pointer

ASSUME ChainsAssumption == NoChain \notin Chains

VARIABLES
  alive,      \* chains allocated and not yet deleted
  pending,    \* pending_
  retired,    \* retired_
  slots,      \* slots_[2]
  current,    \* current_
  ctlPc,      \* where the control thread is
  next,       \* requestSwap: the chain it was given
  drained,    \* requestSwap: what it took out of retired_ (line 25)
  previous,   \* requestSwap: what it took out of pending_ (line 26)
  newest,     \* EngineHost::chain_, the last chain given to requestSwap
  audPc,      \* where the audio thread is
  incoming,   \* processBlock: its locals of the same names
  displaced,
  leftover

ctlVars  == <<ctlPc, next, drained, previous, newest>>
audVars  == <<audPc, incoming, displaced, leftover>>
vars     == <<alive, pending, retired, slots, current, ctlVars, audVars>>

Pointer == Chains \cup {NoChain}

Init ==
  /\ alive = {}
  /\ pending = NoChain /\ retired = NoChain
  /\ slots = [i \in {0, 1} |-> NoChain] /\ current = 0
  /\ ctlPc = "idle" /\ next = NoChain /\ drained = NoChain
  /\ previous = NoChain /\ newest = NoChain
  /\ audPc = "idle" /\ incoming = NoChain
  /\ displaced = NoChain /\ leftover = NoChain

(***************************************************************************)
(* Control thread: requestSwap(next)                                       *)
(***************************************************************************)
RequestSwap(c) ==        \* the caller built c and remembers it as chain_
  /\ ctlPc = "idle"
  /\ c \notin alive
  /\ alive' = alive \cup {c}
  /\ ctlPc' = "drain" /\ next' = c /\ newest' = c
  /\ UNCHANGED <<pending, retired, slots, current, drained, previous, audVars>>

DrainRetired ==
  /\ ctlPc = "drain"
  /\ ctlPc' = "deleteDrained"
  /\ drained' = retired
  /\ retired' = NoChain
  /\ UNCHANGED <<alive, pending, slots, current, next, previous, newest, audVars>>

DeleteDrained ==
  /\ ctlPc = "deleteDrained"
  /\ ctlPc' = "publish"
  /\ alive' = alive \ {drained}
  /\ drained' = NoChain
  /\ UNCHANGED <<pending, retired, slots, current, next, previous, newest, audVars>>

PublishNext ==
  /\ ctlPc = "publish"
  /\ ctlPc' = "deletePrevious"
  /\ previous' = pending
  /\ pending' = next
  /\ next' = NoChain
  /\ UNCHANGED <<alive, retired, slots, current, drained, newest, audVars>>

DeletePrevious ==
  /\ ctlPc = "deletePrevious"
  /\ ctlPc' = "idle"
  /\ alive' = alive \ {previous}
  /\ previous' = NoChain
  /\ UNCHANGED <<pending, retired, slots, current, next, drained, newest, audVars>>

(***************************************************************************)
(* Control thread: the destructor, once the audio callback has stopped     *)
(***************************************************************************)
Destroy ==
  /\ ctlPc = "idle" /\ audPc = "idle"
  /\ ctlPc' = "destroyed"
  /\ alive' = alive \ {pending, retired, slots[0], slots[1]}
  /\ pending' = NoChain /\ retired' = NoChain /\ newest' = NoChain
  /\ slots' = [i \in {0, 1} |-> NoChain]
  /\ UNCHANGED <<current, next, drained, previous, audVars>>

(***************************************************************************)
(* Audio thread: processBlock()                                            *)
(***************************************************************************)
TakePendingShy ==        \* deviation: waits for the control thread to drain
  /\ audPc = "idle" /\ ctlPc # "destroyed"
  /\ IF pending = NoChain \/ retired # NoChain
     THEN audPc' = "process" /\ UNCHANGED <<incoming, pending>>
     ELSE audPc' = "release" /\ incoming' = pending /\ pending' = NoChain
  /\ UNCHANGED <<alive, retired, slots, current, displaced, leftover, ctlVars>>

TakePending ==
  /\ audPc = "idle" /\ ctlPc # "destroyed"
  /\ audPc' = IF pending = NoChain THEN "process" ELSE "release"
  /\ incoming' = pending
  /\ pending' = NoChain
  /\ UNCHANGED <<alive, retired, slots, current, displaced, leftover, ctlVars>>

ReleaseSlot ==           \* release() leaves the other slot null
  /\ audPc = "release"
  /\ audPc' = "install"
  /\ displaced' = slots[1 - current]
  /\ slots' = [slots EXCEPT ![1 - current] = NoChain]
  /\ UNCHANGED <<alive, pending, retired, current, incoming, leftover, ctlVars>>

Install ==
  /\ audPc = "install"
  /\ audPc' = "retire"
  /\ slots' = [slots EXCEPT ![1 - current] = incoming]
  /\ incoming' = NoChain
  /\ UNCHANGED <<alive, pending, retired, current, displaced, leftover, ctlVars>>

RetireByStore ==         \* deviation: a store where an exchange is needed
  /\ audPc = "retire"
  /\ audPc' = "deleteLeftover"
  /\ leftover' = NoChain
  /\ retired' = displaced
  /\ displaced' = NoChain
  /\ UNCHANGED <<alive, pending, slots, current, incoming, ctlVars>>

Retire ==
  /\ audPc = "retire"
  /\ audPc' = "deleteLeftover"
  /\ leftover' = retired
  /\ retired' = displaced
  /\ displaced' = NoChain
  /\ UNCHANGED <<alive, pending, slots, current, incoming, ctlVars>>

DeleteLeftover ==
  /\ audPc = "deleteLeftover"
  /\ audPc' = "flip"
  /\ alive' = alive \ {leftover}
  /\ leftover' = NoChain
  /\ UNCHANGED <<pending, retired, slots, current, incoming, displaced,
                 ctlVars>>

FlipForgotten ==         \* deviation: current_ is not flipped
  /\ audPc = "flip"
  /\ audPc' = "process"
  /\ UNCHANGED <<alive, pending, retired, slots, current, incoming, displaced,
                 leftover, ctlVars>>

Flip ==
  /\ audPc = "flip"
  /\ audPc' = "process"
  /\ current' = 1 - current
  /\ UNCHANGED <<alive, pending, retired, slots, incoming, displaced,
                 leftover, ctlVars>>

ProcessLive ==           \* runs slots_[current_] and lets live() be applied to
  /\ audPc = "process"
  /\ audPc' = "idle"
  /\ UNCHANGED <<alive, pending, retired, slots, current, incoming, displaced,
                 leftover, ctlVars>>

SwapSteps == DrainRetired \/ DeleteDrained \/ PublishNext \/ DeletePrevious
Control ==
  \/ \E c \in Chains : RequestSwap(c)
  \/ SwapSteps \/ Destroy
Audio ==
  \/ TakePending \/ ReleaseSlot \/ Install
  \/ Retire \/ DeleteLeftover \/ Flip \/ ProcessLive

Next == Control \/ Audio
Spec == Init /\ [][Next]_vars

\* The device calls back for every block, and a requestSwap that has begun
\* runs to its end; no request ever has to come.
FairSpec == Spec /\ WF_vars(Audio) /\ WF_vars(SwapSteps)

-----------------------------------------------------------------------------
(***************************************************************************)
(* Properties                                                              *)
(***************************************************************************)
TypeOK ==
  /\ alive \subseteq Chains
  /\ {pending, retired, next, drained, previous, newest} \subseteq Pointer
  /\ {incoming, displaced, leftover} \subseteq Pointer
  /\ slots \in [{0, 1} -> Pointer]
  /\ current \in {0, 1}
  /\ ctlPc \in {"idle", "drain", "deleteDrained", "publish",
                "deletePrevious", "destroyed"}
  /\ audPc \in {"idle", "release", "install", "retire", "deleteLeftover",
                "flip", "process"}

\* Which of the threads' locals are in use at each point, and where the
\* newest chain is on its way from requestSwap to the live slot.
LocalsOK ==
  /\ next # NoChain <=> ctlPc \in {"drain", "deleteDrained", "publish"}
  /\ drained # NoChain => ctlPc = "deleteDrained"
  /\ previous # NoChain => ctlPc = "deletePrevious"
  /\ incoming # NoChain <=> audPc \in {"release", "install"}
  /\ displaced # NoChain => audPc \in {"install", "retire"}
  /\ leftover # NoChain => audPc = "deleteLeftover"
  /\ audPc = "install" => slots[1 - current] = NoChain
  /\ ctlPc = "destroyed" => audPc = "idle"

NewestOnItsWay ==
  \/ newest = next
  \/ next = NoChain /\ newest = pending
  \/ /\ next = NoChain /\ pending = NoChain
     /\ CASE audPc \in {"release", "install"} -> newest = incoming
          [] audPc \in {"retire", "deleteLeftover", "flip"} ->
               newest = slots[1 - current]
          [] OTHER -> newest = slots[current]

\* Every place a chain can be owned from.
Place == {"pending", "retired", "slot0", "slot1", "next", "drained",
          "previous", "incoming", "displaced", "leftover"}
Held == [place \in Place |->
  CASE place = "pending"   -> pending
    [] place = "retired"   -> retired
    [] place = "slot0"     -> slots[0]
    [] place = "slot1"     -> slots[1]
    [] place = "next"      -> next
    [] place = "drained"   -> drained
    [] place = "previous"  -> previous
    [] place = "incoming"  -> incoming
    [] place = "displaced" -> displaced
    [] place = "leftover"  -> leftover]

\* Each existing chain has exactly one owner, and no place holds a deleted
\* one: nothing is deleted twice, leaked or used after its delete, whichever
\* way the exchanges of the two threads interleave.
SingleOwner ==
  /\ \A c \in alive : \E p \in Place : Held[p] = c
  /\ \A p \in Place : Held[p] \in alive \cup {NoChain}
  /\ \A p, q \in Place : Held[p] = Held[q] /\ p # q => Held[p] = NoChain

GraphInv == TypeOK /\ LocalsOK /\ NewestOnItsWay /\ SingleOwner

\* The chain EngineHost::chain_ points at, which the control thread edits
\* without asking the graph, exists (engine_host.cpp:195-199).
NewestIsAlive == newest \in alive \cup {NoChain}

\* Every chain has one owner, and the one that EngineHost points at has one too.
GraphSafety == GraphInv /\ NewestIsAlive

\* The graph is the exchange of ChainExchange; a swap takes effect when the
\* audio thread takes it out of pending_.
LandingChain ==
  CASE audPc \in {"release", "install"} -> incoming
    [] audPc \in {"retire", "deleteLeftover", "flip"} -> slots[1 - current]
    [] OTHER -> slots[current]
Exchange == INSTANCE ChainExchange WITH live <- LandingChain, waiting <- pending
ImplementsExchange == Exchange!ExchangeSpec

\* The chain given to requestSwap becomes live unless a newer one was given.
NewestBecomesLive ==
  \A c \in Chains : (newest = c) ~> (slots[current] = c \/ newest # c)

\* "retired chain is destroyed by the control thread, not inside
\* processBlock" (tests/unit/graph_exchange_test.cpp:180).
AudioNeverDeletes == audPc = "deleteLeftover" => leftover = NoChain
=============================================================================
