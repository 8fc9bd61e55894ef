------------------------------ MODULE Handovers ------------------------------
(***************************************************************************)
(* The handovers from the control thread to the audio thread: the ring of  *)
(* SpscQueue, the exchange of chains of AudioGraph and the recall of a     *)
(* scene of SceneEngine.  The first two share no memory and the scenes see *)
(* of the graph only what ChainExchange says of it; no property relates    *)
(* them, so each behaviour follows one of them.                            *)
(***************************************************************************)
EXTENDS SpscQueue, AudioGraph

CONSTANTS Modules, Settings, Fresh, MaxSlots, MaxScenes, Presets   \* SceneEngine's

VARIABLES
  part,              \* the one that is followed
  live, requested, scenesDefs, bank, recalled, active, ctl, aud, index, claim

Recalls == INSTANCE SceneEngine WITH pending <- recalled, incoming <- requested
ASSUME RecallsAssumption == Recalls!SceneAssumption

recallVars ==
  <<live, requested, scenesDefs, bank, recalled, active, ctl, aud, index, claim>>
handoverVars == <<part, ringVars, vars, recallVars>>

HandoverInit ==
  /\ part \in {"ring", "graph", "recalls"} /\ RingInit /\ Init /\ Recalls!Init
  /\ part # "recalls" => live = << >>
RingStep == part = "ring" /\ RingNext /\ UNCHANGED <<part, vars, recallVars>>
GraphStep == part = "graph" /\ Next /\ UNCHANGED <<part, ringVars, recallVars>>
RecallStep == part = "recalls" /\ Recalls!Next /\ UNCHANGED <<part, ringVars, vars>>

\* Each is scheduled as its RingFairSpec and FairSpec say.
HandoverSpec ==
  /\ HandoverInit /\ [][RingStep \/ GraphStep \/ RecallStep]_handoverVars
  /\ WF_ringVars(part = "ring" /\ (PushLoadHead \/ PushWrite \/ PushPublish))
  /\ WF_ringVars(part = "ring" /\ Consumer)
  /\ WF_vars(part = "graph" /\ Audio)
  /\ WF_vars(part = "graph" /\ SwapSteps)
  /\ WF_recallVars(part = "recalls" /\ Recalls!AudioNext)

\* SceneEngine: a recall is applied to its end or replaced by a newer one.
RecallLands == Recalls!RecallLands
==============================================================================
