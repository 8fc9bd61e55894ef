------------------------------- MODULE Playing -------------------------------
(***************************************************************************)
(* What the audio thread makes sound at the end: the fades and ramps of    *)
(* the chain (Chain) and the mute of the output behind it (OutputPanel).   *)
(* The mute neither sees a module nor is seen by one and no property       *)
(* relates them, so each behaviour follows one of the two.                 *)
(***************************************************************************)
EXTENDS Chain, OutputPanel

VARIABLE part      \* the one that is followed

playingVars == <<part, vars, outputPanelVars>>

PlayingInit ==
  /\ part \in {"chain", "panel"} /\ Init /\ PanelInit
  /\ part = "panel" =>
       /\ bypass = [s \in Slots |-> TRUE] /\ mix = [s \in Slots |-> "zero"]
       /\ dialed = [p \in Params |-> 0] /\ sampleRate = CHOOSE rate \in Rates : TRUE
  /\ part = "chain" => now = 0 /\ ~running
ChainStep == part = "chain" /\ Next /\ UNCHANGED <<part, outputPanelVars>>
PanelStep == part = "panel" /\ PanelNext /\ UNCHANGED <<part, vars>>

\* Each is scheduled as its FairSpec and PanelFairSpec say.
PlayingSpec ==
  /\ PlayingInit /\ [][ChainStep \/ PanelStep]_playingVars
  /\ WF_vars(part = "chain" /\ \E n \in 1 .. MaxBlock : Process(n))
  /\ WF_outputPanelVars(part = "panel" /\ Tick)
  /\ WF_outputPanelVars(part = "panel" /\ Message)
  /\ WF_outputPanelVars(part = "panel" /\ AudioStep)
  /\ WF_outputPanelVars(part = "panel" /\ AudioStart)
==============================================================================
