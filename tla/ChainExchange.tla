---------------------------- MODULE ChainExchange ----------------------------
(***************************************************************************)
(* What AudioGraph promises (audio_graph.h): the control thread hands over *)
(* a chain, the audio thread makes the newest one live at a block          *)
(* boundary, and a chain is destroyed only when it is neither live nor     *)
(* waiting to become live.                                                 *)
(***************************************************************************)
CONSTANTS Chains, NoChain

VARIABLES
  live,       \* the chain the audio thread runs, NoChain for passthrough
  waiting,    \* the chain handed over and not yet live
  alive       \* the chains that exist

exchangeVars == <<live, waiting, alive>>

ExchangeInit == live = NoChain /\ waiting = NoChain /\ alive = {}

Build(c) ==
  /\ c \notin alive
  /\ alive' = alive \cup {c}
  /\ UNCHANGED <<live, waiting>>

HandOver(c) ==        \* a chain that was still waiting is superseded
  /\ c \in alive \ {live, waiting}
  /\ waiting' = c
  /\ UNCHANGED <<live, alive>>

Land ==
  /\ waiting # NoChain
  /\ live' = waiting
  /\ waiting' = NoChain
  /\ UNCHANGED alive

Discard(c) ==
  /\ c \in alive \ {live, waiting}
  /\ alive' = alive \ {c}
  /\ UNCHANGED <<live, waiting>>

\* the owner of the graph destroys it together with every chain in it
TearDown == live' = NoChain /\ waiting' = NoChain /\ alive' = {}

ExchangeNext ==
  \/ \E c \in Chains : Build(c) \/ HandOver(c) \/ Discard(c)
  \/ Land
  \/ TearDown

ExchangeSpec == ExchangeInit /\ [][ExchangeNext]_exchangeVars
=============================================================================
