---------------------------- MODULE ControlThread ----------------------------
(***************************************************************************)
(* What the control thread owns: the chain, its sizes and its scenes       *)
(* (EngineHost) and the MIDI controllers (MidiLearn).  Of the chain, the   *)
(* controllers only see which parameters are present, which MidiLearn      *)
(* lets any edit change, so each behaviour follows one of the two.         *)
(***************************************************************************)
EXTENDS EngineHost, MidiLearn

VARIABLE part      \* the one that is followed

controlVars == <<part, hostVars, learnVars>>

ControlInit ==
  /\ part \in {"host", "midi"} /\ HostInit /\ LearnInit
  /\ part = "midi" => blockSize = CHOOSE size \in BlockSizes : TRUE
HostStep == part = "host" /\ HostNext /\ UNCHANGED <<part, learnVars>>
LearnStep == part = "midi" /\ LearnNext /\ UNCHANGED <<part, hostVars>>
ControlSpec == ControlInit /\ [][HostStep \/ LearnStep]_controlVars
==============================================================================
