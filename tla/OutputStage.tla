------------------------------ MODULE OutputStage ------------------------------
(***************************************************************************)
(* core/audio/output_stage.cpp: the mute.  setMute runs on the message     *)
(* thread while process runs on the audio thread; muteGainSm_ is a plain   *)
(* float both write.  Its smoothing is a fade of Full levels, one a        *)
(* sample.  Gains and equaliser are left out: they move the same way and   *)
(* nothing but their sound depends on them.                                *)
(***************************************************************************)
EXTENDS Integers

CONSTANTS
  Full,         \* the gain of an output that is not muted; 0 is silence
  BlockSamples  \* the samples of the longest block

ASSUME OutputAssumption == Full \in Nat \ {0} /\ BlockSamples \in Nat \ {0}

VARIABLES
  mute,         \* mute_
  muteGain,     \* muteGainSm_ in memory
  silencing,    \* setMute(true) has stored the flag and not yet the gain
  inBlock,      \* process is running
  left,         \* samples it has to go
  muteTarget,   \* what it took for the target
  held,         \* muteGainSm_ in its register
  stored,       \* the register was written back
  gainHeard,        \* the gain of the last sample
  faded         \* samples since the mute, in blocks that know of it, up to Full

outputBlockVars == <<inBlock, left, muteTarget, held, stored>>
outputVars == <<mute, muteGain, silencing, outputBlockVars, gainHeard, faded>>

Gains == 0 .. Full

\* As initialise leaves it: muted before there is a device to call back.
InitOutput ==
  /\ mute = TRUE /\ muteGain = 0 /\ silencing = FALSE
  /\ inBlock = FALSE /\ left = 0 /\ muteTarget = 0 /\ held = 0 /\ stored = TRUE
  /\ gainHeard = 0 /\ faded = Full

-----------------------------------------------------------------------------
(* setMute: the flag, and if it is set the gain, without a fade. *)

\* Deviation: unmuting sets the gain as muting does.
SetMuteAtOnce(b) ==
  /\ mute' = b /\ silencing' = b
  /\ muteGain' = IF b THEN muteGain ELSE Full
  /\ faded' = 0
  /\ UNCHANGED <<outputBlockVars, gainHeard>>

SetMute(b) ==
  /\ mute' = b /\ silencing' = b
  /\ faded' = IF mute /\ b THEN faded ELSE 0
  /\ UNCHANGED <<muteGain, outputBlockVars, gainHeard>>

Silence ==
  /\ silencing
  /\ muteGain' = 0 /\ silencing' = FALSE
  /\ UNCHANGED <<mute, outputBlockVars, gainHeard, faded>>

-----------------------------------------------------------------------------
(* process: the compiler may keep the gain in a register for any number of *)
(* samples; it writes it back at the latest when the block ends.           *)

BlockStart(n) ==
  /\ ~inBlock
  /\ inBlock' = TRUE /\ left' = n
  /\ muteTarget' = IF mute THEN 0 ELSE Full
  /\ held' = muteGain /\ stored' = TRUE
  /\ UNCHANGED <<mute, muteGain, silencing, gainHeard, faded>>

Toward(gain, goal) ==
  IF gain < goal THEN gain + 1 ELSE IF gain > goal THEN gain - 1 ELSE gain

Sample ==
  /\ inBlock /\ left > 0
  /\ left' = left - 1 /\ stored' = FALSE
  /\ held' = Toward(held, muteTarget) /\ gainHeard' = held'
  /\ faded' = IF mute /\ muteTarget = 0 /\ faded < Full THEN faded + 1 ELSE faded
  /\ UNCHANGED <<mute, muteGain, silencing, inBlock, muteTarget>>

StoreGain ==
  /\ inBlock /\ ~stored
  /\ muteGain' = held /\ stored' = TRUE
  /\ UNCHANGED <<mute, silencing, inBlock, left, muteTarget, held, gainHeard, faded>>

LoadGain ==
  /\ inBlock /\ stored /\ held # muteGain
  /\ held' = muteGain
  /\ UNCHANGED <<mute, muteGain, silencing, inBlock, left, muteTarget, stored, gainHeard, faded>>

BlockEnd ==
  /\ inBlock /\ left = 0 /\ stored
  /\ inBlock' = FALSE /\ muteTarget' = 0 /\ held' = 0
  /\ UNCHANGED <<mute, muteGain, silencing, left, stored, gainHeard, faded>>

\* The steps of a block that has begun.
ProcessOutput == Sample \/ StoreGain \/ LoadGain \/ BlockEnd

-----------------------------------------------------------------------------
(***************************************************************************)
(* Properties                                                              *)
(***************************************************************************)
OutputTypeOK ==
  /\ mute \in BOOLEAN /\ silencing \in BOOLEAN /\ inBlock \in BOOLEAN /\ stored \in BOOLEAN
  /\ muteGain \in Gains /\ held \in Gains /\ gainHeard \in Gains /\ faded \in Gains
  /\ left \in 0 .. BlockSamples /\ muteTarget \in {0, Full}

\* A mute is heard: although the audio thread may write a gain over the zero that
\* setMute stored, its output is silent at the latest one fade after the first
\* block that began muted, and stays so (setMute, process).
SilentWithinAFade == OutputTypeOK /\ (mute => gainHeard <= Full - faded)

\* The output never comes in at once, whoever writes the gain in which order: from
\* sample to sample it rises by no more than the fade does (process).
NeverPopsIn == [][gainHeard' <= gainHeard + 1]_outputVars
===============================================================================
