--------------------------- MODULE OutputPanelProofs ---------------------------
(***************************************************************************)
(* For a fade, a block, a clock and a warm-up of any length: a mute is     *)
(* silent after a fade, nothing pops in, a manual mute and a device that   *)
(* warms up stay muted.                                                    *)
(***************************************************************************)
EXTENDS OutputPanel, TLAPS

USE OutputAssumption, PanelAssumption DEF OutputAssumption, PanelAssumption

-----------------------------------------------------------------------------
(* The inductive invariant *)

BetweenBlocks == ~inBlock => stored

\* Once a sample of a block that knows of the mute was heard, whatever may become
\* the gain has fallen as far.
FadeBound ==
  mute /\ faded > 0 =>
    /\ held <= Full - faded /\ gainHeard <= Full - faded
    /\ muteTarget = 0
    /\ stored => muteGain <= Full - faded

\* The gain in use is never above what was heard last.
HeardBound == held <= gainHeard /\ (stored => muteGain <= gainHeard)

StageInv == OutputTypeOK /\ BetweenBlocks /\ FadeBound /\ HeardBound

BusyMuted == step # "idle" => mute

\* The wait ends no sooner than the warm-up, unless the counter wraps in it.
WaitsLongEnough ==
  /\ step \in {"load", "startTimer"} => WarmUp - age <= StartWarmUp
  /\ step \in {"idle", "restart"} /\ pendingUnmute # 0 /\ ~wraps /\ age < WarmUp =>
       WarmUp - age <= pendingUnmute - now

-----------------------------------------------------------------------------
(* The output stage *)

LEMMA TowardFalls ==
  ASSUME NEW gain \in Gains, NEW goal \in {0, Full}
  PROVE  /\ Toward(gain, goal) \in Gains /\ Toward(gain, goal) <= gain + 1
         /\ goal = 0 => Toward(gain, goal) <= gain /\ (gain > 0 => Toward(gain, goal) = gain - 1)
BY DEF Toward, Gains

LEMMA InitStage == InitOutput => StageInv
<1> SUFFICES ASSUME InitOutput PROVE StageInv
  OBVIOUS
<1>1. OutputTypeOK
  <2>1. mute \in BOOLEAN /\ silencing \in BOOLEAN /\ inBlock \in BOOLEAN /\ stored \in BOOLEAN
    BY DEF InitOutput, Gains
  <2>2. /\ muteGain \in Gains /\ held \in Gains /\ gainHeard \in Gains /\ faded \in Gains
        /\ left \in 0 .. BlockSamples /\ muteTarget \in {0, Full}
    BY DEF InitOutput, Gains
  <2> QED
    BY <2>1, <2>2 DEF OutputTypeOK
<1>2. BetweenBlocks /\ FadeBound /\ HeardBound
  BY DEF InitOutput, BetweenBlocks, FadeBound, HeardBound
<1> QED
  BY <1>1, <1>2 DEF StageInv

LEMMA SetMuteStage ==
  ASSUME StageInv, NEW b \in BOOLEAN, SetMute(b)
  PROVE  StageInv'
BY DEF SetMute, StageInv, OutputTypeOK, BetweenBlocks, FadeBound, HeardBound, Gains, outputBlockVars

LEMMA SilenceStage == ASSUME StageInv, Silence PROVE StageInv'
<1>1. OutputTypeOK'
  <2>1. mute' \in BOOLEAN /\ silencing' \in BOOLEAN /\ inBlock' \in BOOLEAN /\ stored' \in BOOLEAN
    BY DEF Silence, StageInv, OutputTypeOK, Gains, outputBlockVars
  <2>2. /\ muteGain' \in Gains /\ held' \in Gains /\ gainHeard' \in Gains /\ faded' \in Gains
        /\ left' \in 0 .. BlockSamples /\ muteTarget' \in {0, Full}
    BY DEF Silence, StageInv, OutputTypeOK, Gains, outputBlockVars
  <2> QED
    BY <2>1, <2>2 DEF OutputTypeOK
<1>2. (BetweenBlocks /\ FadeBound /\ HeardBound)'
  BY DEF Silence, StageInv, OutputTypeOK, BetweenBlocks, FadeBound, HeardBound, Gains, outputBlockVars
<1> QED
  BY <1>1, <1>2 DEF StageInv

LEMMA BlockStartStage ==
  ASSUME StageInv, NEW n \in 1 .. BlockSamples, BlockStart(n)
  PROVE  StageInv'
BY DEF BlockStart, StageInv, OutputTypeOK, BetweenBlocks, FadeBound, HeardBound, Gains

LEMMA SampleStage == ASSUME StageInv, Sample PROVE StageInv' /\ gainHeard' <= gainHeard + 1
<1>1. /\ held' \in Gains /\ held' <= held + 1 /\ gainHeard' = held' /\ stored' = FALSE
      /\ muteTarget = 0 => held' <= held /\ (held > 0 => held' = held - 1)
  BY TowardFalls DEF Sample, StageInv, OutputTypeOK
<1>2. OutputTypeOK'
  <2>1. mute' \in BOOLEAN /\ silencing' \in BOOLEAN /\ inBlock' \in BOOLEAN /\ stored' \in BOOLEAN
    BY <1>1 DEF Sample, StageInv, OutputTypeOK, Gains
  <2>2. /\ muteGain' \in Gains /\ held' \in Gains /\ gainHeard' \in Gains /\ faded' \in Gains
        /\ left' \in 0 .. BlockSamples /\ muteTarget' \in {0, Full}
    BY <1>1 DEF Sample, StageInv, OutputTypeOK, Gains
  <2> QED
    BY <2>1, <2>2 DEF OutputTypeOK
<1>3. FadeBound'
  <2> SUFFICES ASSUME mute', faded' > 0
               PROVE  held' <= Full - faded' /\ muteTarget' = 0
    BY <1>1 DEF FadeBound
  <2>1. mute' = mute /\ muteTarget' = muteTarget
    BY DEF Sample
  <2>2. muteTarget = 0
    BY <2>1 DEF Sample, StageInv, FadeBound, OutputTypeOK, Gains
  <2>3. faded' = IF faded < Full THEN faded + 1 ELSE faded
    BY <2>1, <2>2 DEF Sample
  <2>4. faded > 0 => held <= Full - faded
    BY <2>1 DEF StageInv, FadeBound
  <2> QED
    BY <1>1, <2>1, <2>2, <2>3, <2>4 DEF StageInv, OutputTypeOK, Gains
<1>4. HeardBound' /\ BetweenBlocks'
  BY <1>1 DEF Sample, StageInv, HeardBound, BetweenBlocks, OutputTypeOK, Gains
<1>5. gainHeard' <= gainHeard + 1
  BY <1>1 DEF StageInv, HeardBound, OutputTypeOK, Gains
<1> QED
  BY <1>2, <1>3, <1>4, <1>5 DEF StageInv

LEMMA StoreGainStage == ASSUME StageInv, StoreGain PROVE StageInv'
BY DEF StoreGain, StageInv, OutputTypeOK, BetweenBlocks, FadeBound, HeardBound, Gains

LEMMA LoadGainStage == ASSUME StageInv, LoadGain PROVE StageInv'
BY DEF LoadGain, StageInv, OutputTypeOK, BetweenBlocks, FadeBound, HeardBound, Gains

LEMMA BlockEndStage == ASSUME StageInv, BlockEnd PROVE StageInv'
<1>1. OutputTypeOK'
  <2>1. mute' \in BOOLEAN /\ silencing' \in BOOLEAN /\ inBlock' \in BOOLEAN /\ stored' \in BOOLEAN
    BY DEF BlockEnd, StageInv, OutputTypeOK, Gains
  <2>2. /\ muteGain' \in Gains /\ held' \in Gains /\ gainHeard' \in Gains /\ faded' \in Gains
        /\ left' \in 0 .. BlockSamples /\ muteTarget' \in {0, Full}
    BY DEF BlockEnd, StageInv, OutputTypeOK, Gains
  <2> QED
    BY <2>1, <2>2 DEF OutputTypeOK
<1>2. (BetweenBlocks /\ FadeBound /\ HeardBound)'
  BY DEF BlockEnd, StageInv, OutputTypeOK, BetweenBlocks, FadeBound, HeardBound, Gains
<1> QED
  BY <1>1, <1>2 DEF StageInv

LEMMA StutterStage == ASSUME StageInv, UNCHANGED outputVars PROVE StageInv'
BY DEF outputVars, outputBlockVars, StageInv, OutputTypeOK, BetweenBlocks, FadeBound, HeardBound, Gains

\* What any step does to the output stage.
StageStep ==
  \/ \E b \in BOOLEAN : SetMute(b)
  \/ Silence
  \/ \E n \in 1 .. BlockSamples : BlockStart(n)
  \/ ProcessOutput
  \/ UNCHANGED outputVars

LEMMA NextIsStageStep == ASSUME PanelTypeOK, [PanelNext]_outputPanelVars PROVE StageStep
BY DEF PanelTypeOK, PanelNext, Message, LoadSettings, StartTimer, UnmuteAfter, RestartDevice, ArmTimer,
       TimerCallback, SilenceStep, Click, ChangeDevice, Tick, AudioStart, AudioStep, outputPanelVars,
       StageStep

LEMMA StageSafe ==
  ASSUME StageInv, StageStep
  PROVE  StageInv' /\ gainHeard' <= gainHeard + 1
<1>1. CASE ProcessOutput
  <2>1. CASE Sample
    BY <2>1, SampleStage
  <2>2. CASE StoreGain \/ LoadGain \/ BlockEnd
    <3>1. gainHeard' = gainHeard
      BY <2>2 DEF StoreGain, LoadGain, BlockEnd
    <3> QED
      BY <2>2, <3>1, StoreGainStage, LoadGainStage, BlockEndStage DEF StageInv, OutputTypeOK, Gains
  <2> QED
    BY <1>1, <2>1, <2>2 DEF ProcessOutput
<1>2. CASE ~ProcessOutput
  <2>1. gainHeard' = gainHeard
    BY <1>2 DEF StageStep, SetMute, Silence, BlockStart, outputVars
  <2>2. StageInv'
    BY <1>2, SetMuteStage, SilenceStage, BlockStartStage, StutterStage DEF StageStep
  <2> QED
    BY <2>1, <2>2 DEF StageInv, OutputTypeOK, Gains
<1> QED
  BY <1>1, <1>2

-----------------------------------------------------------------------------
(* The panel *)

LEMMA ClockWraps ==
  ASSUME NEW t \in Nat
  PROVE  t % ClockSize \in 0 .. ClockSize - 1 /\ (t < ClockSize => t % ClockSize = t)
OBVIOUS

MessageTypeOK ==
  /\ toggle \in BOOLEAN /\ running \in BOOLEAN /\ userUnmuted \in BOOLEAN /\ wraps \in BOOLEAN
  /\ pendingUnmute \in 0 .. ClockSize - 1 /\ now \in 0 .. ClockSize - 1
  /\ age \in 0 .. WarmUp /\ step \in Steps

MutedMeanwhile ==
  /\ toggle => mute
  /\ age < WarmUp => mute \/ userUnmuted \/ wraps
  /\ BusyMuted

PanelInv == MessageTypeOK /\ MutedMeanwhile /\ WaitsLongEnough

LEMMA InitPanel == ASSUME PanelInit PROVE PanelInv
<1>1. MessageTypeOK
  <2>1. /\ toggle \in BOOLEAN /\ running \in BOOLEAN /\ userUnmuted \in BOOLEAN
        /\ wraps \in BOOLEAN /\ step \in Steps
    BY DEF PanelInit, Steps
  <2>2. pendingUnmute \in 0 .. ClockSize - 1 /\ now \in 0 .. ClockSize - 1 /\ age \in 0 .. WarmUp
    BY DEF PanelInit
  <2> QED
    BY <2>1, <2>2 DEF MessageTypeOK
<1>2. MutedMeanwhile /\ WaitsLongEnough
  BY DEF PanelInit, InitOutput, MutedMeanwhile, BusyMuted, WaitsLongEnough
<1> QED
  BY <1>1, <1>2 DEF PanelInv

LEMMA LoadSettingsPanel == ASSUME PanelInv, LoadSettings PROVE PanelInv'
<1>1. /\ mute /\ mute' /\ step' = "startTimer"
      /\ UNCHANGED <<pendingUnmute, running, userUnmuted, wraps, now, age>>
  BY DEF PanelInv, MutedMeanwhile, BusyMuted, LoadSettings, SetMute, outputVars, clockVars
<1>2. toggle' \in BOOLEAN
  BY DEF PanelInv, MessageTypeOK, LoadSettings
<1>3. MessageTypeOK'
  BY <1>1, <1>2 DEF PanelInv, MessageTypeOK, Steps
<1>4. MutedMeanwhile'
  BY <1>1 DEF MutedMeanwhile, BusyMuted
<1>5. WaitsLongEnough'
  BY <1>1 DEF PanelInv, WaitsLongEnough, LoadSettings
<1> QED
  BY <1>3, <1>4, <1>5 DEF PanelInv

LEMMA UnmuteAfterPanel ==
  ASSUME PanelInv, step # "idle", NEW wait \in Nat, WarmUp - age <= wait, UnmuteAfter(wait)
  PROVE  PanelInv'
<1>1. /\ mute /\ mute' /\ step' = "idle"
      /\ UNCHANGED <<toggle, running, userUnmuted, now, age>>
  BY DEF PanelInv, MutedMeanwhile, BusyMuted, UnmuteAfter, outputVars, clockVars
<1>2. /\ wraps' = (now + wait >= ClockSize) /\ wraps' \in BOOLEAN
      /\ pendingUnmute' = (now + wait) % ClockSize /\ now + wait \in Nat
  BY DEF PanelInv, MessageTypeOK, UnmuteAfter
<1>3. pendingUnmute' \in 0 .. ClockSize - 1 /\ (~wraps' => pendingUnmute' = now + wait)
  <2>1. now + wait \in Nat /\ pendingUnmute' = (now + wait) % ClockSize
    BY <1>2
  <2>2. /\ pendingUnmute' \in 0 .. ClockSize - 1
        /\ now + wait < ClockSize => pendingUnmute' = now + wait
    BY <2>1, ClockWraps
  <2>3. ~wraps' => ~(now + wait >= ClockSize)
    BY <1>2
  <2>4. ~wraps' => now + wait < ClockSize
    BY <2>1, <2>3
  <2> QED
    BY <2>2, <2>4
<1>4. MessageTypeOK'
  BY <1>1, <1>2, <1>3 DEF PanelInv, MessageTypeOK, Steps
<1>5. MutedMeanwhile'
  BY <1>1 DEF MutedMeanwhile, BusyMuted
<1>6. WaitsLongEnough'
  <2>1. ~wraps' => WarmUp - age' <= pendingUnmute' - now'
    BY <1>1, <1>3 DEF PanelInv, MessageTypeOK
  <2> QED
    BY <1>1, <2>1 DEF WaitsLongEnough
<1> QED
  BY <1>4, <1>5, <1>6 DEF PanelInv

LEMMA StartTimerPanel == ASSUME PanelInv, StartTimer PROVE PanelInv'
BY UnmuteAfterPanel DEF StartTimer, PanelInv, WaitsLongEnough

LEMMA ArmTimerPanel == ASSUME PanelInv, ArmTimer PROVE PanelInv'
<1>1. WarmUp - age <= WarmUp
  BY DEF PanelInv, MessageTypeOK
<1> QED
  BY <1>1, UnmuteAfterPanel DEF ArmTimer

LEMMA ClickPanel == ASSUME PanelInv, Click PROVE PanelInv'
<1>1. /\ toggle' = ~toggle /\ mute' = ~toggle /\ userUnmuted' = (userUnmuted \/ toggle)
      /\ step = "idle" /\ UNCHANGED <<pendingUnmute, step, running, wraps, now, age>>
  BY DEF Click, Idle, SetMute, clockVars
<1>2. toggle' \in BOOLEAN /\ userUnmuted' \in BOOLEAN
  BY <1>1 DEF PanelInv, MessageTypeOK
<1>3. MessageTypeOK'
  BY <1>1, <1>2 DEF PanelInv, MessageTypeOK
<1>4. MutedMeanwhile'
  BY <1>1 DEF PanelInv, MutedMeanwhile, BusyMuted
<1>5. WaitsLongEnough'
  BY <1>1 DEF PanelInv, WaitsLongEnough
<1> QED
  BY <1>3, <1>4, <1>5 DEF PanelInv

LEMMA ChangeDevicePanel == ASSUME PanelInv, ChangeDevice PROVE PanelInv'
<1>1. /\ mute' /\ step = "idle" /\ step' = "restart"
      /\ UNCHANGED <<toggle, pendingUnmute, running, userUnmuted, wraps, now, age>>
  BY DEF ChangeDevice, Idle, SetMute, clockVars
<1>2. MessageTypeOK'
  BY <1>1 DEF PanelInv, MessageTypeOK, Steps
<1>3. MutedMeanwhile'
  BY <1>1 DEF MutedMeanwhile, BusyMuted
<1>4. WaitsLongEnough'
  BY <1>1 DEF PanelInv, WaitsLongEnough
<1> QED
  BY <1>2, <1>3, <1>4 DEF PanelInv

LEMMA RestartDevicePanel == ASSUME PanelInv, RestartDevice PROVE PanelInv'
<1>1. /\ mute /\ mute' /\ step' = "arm" /\ age' = 0 /\ running' \in BOOLEAN
      /\ userUnmuted' \in BOOLEAN
      /\ UNCHANGED <<toggle, pendingUnmute, wraps, now>>
  BY DEF RestartDevice, Stopping, outputVars, PanelInv, MutedMeanwhile, BusyMuted
<1>2. MessageTypeOK'
  BY <1>1 DEF PanelInv, MessageTypeOK, Steps
<1>3. MutedMeanwhile' /\ WaitsLongEnough'
  BY <1>1 DEF MutedMeanwhile, BusyMuted, WaitsLongEnough
<1> QED
  BY <1>2, <1>3 DEF PanelInv

LEMMA TimerPanel == ASSUME PanelInv, TimerCallback PROVE PanelInv'
<1>1. /\ step = "idle" /\ pendingUnmute # 0 /\ now >= pendingUnmute /\ pendingUnmute' = 0
      /\ UNCHANGED <<toggle, step, running, userUnmuted, wraps, now, age>>
      /\ toggle => mute' = mute
  BY DEF TimerCallback, TimerDue, Idle, SetMute, outputVars, clockVars
<1>2. MessageTypeOK'
  BY <1>1 DEF PanelInv, MessageTypeOK
<1>3. age < WarmUp => wraps
  BY <1>1 DEF PanelInv, MessageTypeOK, WaitsLongEnough
<1>4. MutedMeanwhile'
  BY <1>1, <1>3 DEF PanelInv, MutedMeanwhile, BusyMuted
<1>5. WaitsLongEnough'
  BY <1>1 DEF WaitsLongEnough
<1> QED
  BY <1>2, <1>4, <1>5 DEF PanelInv

LEMMA TickPanel == ASSUME PanelInv, Tick PROVE PanelInv'
<1>1. /\ now' = (now + 1) % ClockSize /\ age' = (IF age < WarmUp THEN age + 1 ELSE age)
      /\ UNCHANGED <<toggle, pendingUnmute, step, running, userUnmuted, wraps, mute>>
  BY DEF Tick, panelVars, outputVars
<1>2. /\ now' \in 0 .. ClockSize - 1 /\ age' \in 0 .. WarmUp
      /\ IF now + 1 < ClockSize THEN now' = now + 1 ELSE now = ClockSize - 1
  BY <1>1, ClockWraps DEF PanelInv, MessageTypeOK
<1>3. MessageTypeOK'
  BY <1>1, <1>2 DEF PanelInv, MessageTypeOK
<1>4. MutedMeanwhile'
  BY <1>1 DEF PanelInv, MessageTypeOK, MutedMeanwhile, BusyMuted
<1>5. WaitsLongEnough'
  <2>1. /\ now \in Nat /\ pendingUnmute \in 0 .. ClockSize - 1 /\ age \in 0 .. WarmUp
        /\ now' \in Nat /\ age' \in 0 .. WarmUp
    BY <1>2 DEF PanelInv, MessageTypeOK
  <2>2. WarmUp - age' <= WarmUp - age /\ (age < WarmUp => WarmUp - age' = WarmUp - age - 1)
    BY <1>1, <2>1
  <2>3. step \in {"load", "startTimer"} => WarmUp - age' <= StartWarmUp
    <3>1. step \in {"load", "startTimer"} => WarmUp - age <= StartWarmUp
      BY DEF PanelInv, WaitsLongEnough
    <3>2. WarmUp - age' \in Int /\ WarmUp - age \in Int
      BY <2>1
    <3> QED
      BY <3>1, <3>2, <2>2
  <2>4. SUFFICES ASSUME step \in {"idle", "restart"}, pendingUnmute # 0, ~wraps, age' < WarmUp
                 PROVE  WarmUp - age' <= pendingUnmute - now'
    BY <1>1, <2>3 DEF WaitsLongEnough
  <2>5. age < WarmUp /\ WarmUp - age <= pendingUnmute - now
    <3>1. age < WarmUp
      BY <1>1, <2>1, <2>4
    <3> QED
      BY <3>1, <2>4 DEF PanelInv, WaitsLongEnough
  <2>6. now < ClockSize - 1
    BY <2>1, <2>5
  <2>7. now' = now + 1
    BY <1>2, <2>1, <2>6
  <2>8. WarmUp - age' = WarmUp - age - 1
    BY <2>2, <2>5
  <2>9. \A w, a, p, t \in Int : w - a <= p - t => w - a - 1 <= p - (t + 1)
    OBVIOUS
  <2>10. WarmUp \in Int /\ age \in Int /\ pendingUnmute \in Int /\ now \in Int
    BY <2>1
  <2> QED
    BY <2>5, <2>7, <2>8, <2>9, <2>10
<1> QED
  BY <1>3, <1>4, <1>5 DEF PanelInv

LEMMA AudioPanel ==
  ASSUME PanelInv, SilenceStep \/ AudioStart \/ AudioStep \/ UNCHANGED outputPanelVars
  PROVE  PanelInv'
<1>1. UNCHANGED <<toggle, pendingUnmute, step, running, userUnmuted, wraps, now, age, mute>>
  BY DEF SilenceStep, Silence, AudioStart, BlockStart, AudioStep, ProcessOutput, Sample, StoreGain,
         LoadGain, BlockEnd, panelVars, clockVars, outputPanelVars, outputVars
<1> QED
  BY <1>1 DEF PanelInv, MessageTypeOK, MutedMeanwhile, BusyMuted, WaitsLongEnough

LEMMA PanelSafe == ASSUME PanelInv, [PanelNext]_outputPanelVars PROVE PanelInv'
BY LoadSettingsPanel, StartTimerPanel, ArmTimerPanel, ClickPanel, ChangeDevicePanel,
   RestartDevicePanel, TimerPanel, TickPanel, AudioPanel DEF PanelNext, Message

-----------------------------------------------------------------------------
(* Theorems *)

\* The output stage keeps its fade and the panel its promises in every state
\* (setMute, process, timerCallback, applyAudioSetup).
THEOREM PanelInvariant == PanelSpec => [](StageInv /\ PanelInv)
<1>1. PanelInit => StageInv /\ PanelInv
  BY InitStage, InitPanel DEF PanelInit
<1>2. StageInv /\ PanelInv /\ [PanelNext]_outputPanelVars => (StageInv /\ PanelInv)'
  <2>1. StageInv /\ PanelInv => PanelTypeOK
    BY DEF StageInv, PanelInv, MessageTypeOK, PanelTypeOK
  <2> QED
    BY <2>1, NextIsStageStep, StageSafe, PanelSafe
<1> QED
  BY <1>1, <1>2, PTL DEF PanelSpec

\* A mute is silent one fade after the first block that began muted, for ever.
THEOREM MuteIsSilent == PanelSpec => []SilentWithinAFade
<1>1. StageInv => SilentWithinAFade
  BY DEF StageInv, FadeBound, SilentWithinAFade, OutputTypeOK, Gains
<1> QED
  BY <1>1, PanelInvariant, PTL

\* From sample to sample the output rises by no more than the fade does.
THEOREM NothingPopsIn == PanelSpec => NeverPopsIn
<1>1. StageInv /\ PanelInv /\ [PanelNext]_outputPanelVars => [gainHeard' <= gainHeard + 1]_outputVars
  <2>1. StageInv /\ PanelInv => PanelTypeOK
    BY DEF StageInv, PanelInv, MessageTypeOK, PanelTypeOK
  <2> QED
    BY <2>1, NextIsStageStep, StageSafe
<1> QED
  BY <1>1, PanelInvariant, PTL DEF PanelSpec, NeverPopsIn

\* A manual mute and a device that warms up are muted.
THEOREM MutedAsPromised == PanelSpec => []MutedWhenItShould
<1>1. StageInv /\ PanelInv => MutedWhenItShould
  BY DEF StageInv, PanelInv, MessageTypeOK, MutedMeanwhile, MutedWhenItShould, PanelTypeOK
<1> QED
  BY <1>1, PanelInvariant, PTL

\* Both together: what should be muted is, and is silent one fade later.
THEOREM MuteAlwaysHolds == PanelSpec => []MuteHolds
BY MuteIsSilent, MutedAsPromised, PTL DEF MuteHolds
===============================================================================
