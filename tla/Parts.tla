-------------------------------- MODULE Parts --------------------------------
(***************************************************************************)
(* The parts that share no state and are proved of next to the backups,    *)
(* and what each of them promises in the behaviours in which it runs.      *)
(***************************************************************************)
EXTENDS Backup, Integers, Sequences

CONSTANTS
  Modules, Settings, Fresh, MaxSlots, MaxScenes, Presets, NoChain,       \* scenes
  Threads, MaxArm, MaxGuards, MaxArmings,                \* allocation guard
  Positions, Default, MaxPanelSaves,                     \* settings
  Unit, C, Ratios,                                       \* pitch shifter
  Window, DetectEvery, MinLag, MaxLag, Rate, Voiced, Tie, Frames, Silent, Settles, BlockSizes,
  MaxChanges,                                            \* tuner
  Effects, SampleRates,                                  \* delays
  Zeros, Rates, Slack, Tiers, MaxInput,                  \* amplifier
  Block, DirectLimit, MaxIrSamples, Recordings, Cuts, EngineRates, MaxBlock, \* cabinet
  Absent, Bad, Torn, NoName, Registry, Params, Top, NameLimit, CurrentSchema, Root, Texts,
  Keys, Amounts, Docs, Dirs, Disk, MaxSchema, MaxSteps, MaxPath         \* presets

VARIABLES
  part,         \* the one that runs
  live, incoming, scenesDefs, bank, pending, active, ctl, aud, index, claim,
  failpoint, at, remaining, inCallback, violation, guards, armed, taken, failed, lost, armings,
  phase, slider, toggle, ahead, saved, clicked,
  write, read, left, offset, ratio, lag, hurried,
  filled, since, detected, freq, last, count, stable, held, frame, changes,
  effect, rate, prepared, lines, loop, heard, played,
  amp, inRes, outRes, qRead, qWrite, pads,
  asset, cab, conv, out,
  steps, doc, package, sent

Scenes == INSTANCE SceneEngine
Rt     == INSTANCE RtAlloc WITH pc <- at
Panel  == INSTANCE Settings WITH MaxSaves <- MaxPanelSaves
Pitch  == INSTANCE PitchShifter
Tune   == INSTANCE Tuner
Delays == INSTANCE DelayEffects
Nam    == INSTANCE NamAmp
Cab    == INSTANCE CabIr
Preset == INSTANCE PresetFiles WITH Modules <- Registry

ASSUME PartsAssumption ==
  /\ Scenes!SceneAssumption /\ Pitch!PitchAssumption /\ Nam!AmpAssumption
  /\ Cab!CabAssumption /\ Tune!TunerAssumption /\ Delays!DelayAssumption
  /\ Preset!PresetAssumption

-----------------------------------------------------------------------------
(***************************************************************************)
(* Properties                                                              *)
(***************************************************************************)
\* SceneEngine: the scene shown as active is what is played.
ActiveIsInForce == part = "scenes" => Scenes!ActiveIsInForce

\* RtAlloc: the one allocation the failpoint was armed for fails, and a guard says
\* whether its own thread allocated under it.
RtAllocInv == part = "rt" => Rt!RtAllocInv

\* Settings: without Mute the panel comes back as it was left.
RestoresTheLast == part = "settings" => Panel!RestoresTheLast

\* PitchShifter: neither tap overtakes the write position or is overtaken by it.
TapsStayBehind == part = "pitch" => Pitch!TapsStayBehind

\* NamAmp: every block fits every buffer, and the queue holds what it should.
NamInv == part = "nam" => Nam!NamInv
\* NamAmp: the resampler computes only what it holds the window of.
WindowsAreHeld == [][part = "nam" => Nam!HeldStep]_<<part, Nam!vars>>

\* CabIr: the convolution is exact and a recording is taken whole or not at all.
CabIsExact == part = "cab" => Cab!ConvolutionIsExact /\ Cab!RecordingIsWhole

\* Tuner: the note that is held is shown in the end, and no other as stable.
TunerInv == part = "tuner" => Tune!TunerInv

\* DelayEffects: a delay reads what was written that long ago, and nothing from
\* before a reset.
DelaysAreExact == part = "delays" => Delays!TapsAreExact /\ Delays!ResetForgets

\* PresetFiles: what was loaded and can be saved is loaded back, and what was exported
\* can be imported anywhere or is refused.
PresetsSurvive == part = "presets" => Preset!SavedLoadsBack /\ Preset!PackageIsWhole
\* PresetFiles: registering a migration takes nothing away, but for a step from schema
\* 0 that comes before the built-in one.
OldPresetsStillLoad == [][part = "presets" => Preset!StillLoadStep]_<<part, Preset!vars>>
=============================================================================
