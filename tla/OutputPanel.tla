------------------------------ MODULE OutputPanel ------------------------------
(***************************************************************************)
(* desktop/App/nam_editor_app.cpp: who mutes the output when.  The user's  *)
(* Mute button, the start-up, a change of the device, which keeps the      *)
(* output muted until the new device has warmed up, and the timer that     *)
(* lets it sound again.  All run on the message thread, one after the      *)
(* other; time and the audio thread go on between any two of their steps.  *)
(***************************************************************************)
EXTENDS OutputStage

CONSTANTS
  ClockSize,    \* values of the millisecond counter, 2^32
  WarmUp,       \* 2000, in ticks of the model's clock
  StartWarmUp   \* 1500

ASSUME PanelAssumption ==
  /\ ClockSize \in Nat \ {0} /\ WarmUp \in Nat \ {0} /\ StartWarmUp \in Nat \ {0}
  /\ StartWarmUp <= WarmUp /\ WarmUp < ClockSize

VARIABLES
  toggle,       \* state of muteToggle_
  pendingUnmute,\* pendingUnmute_, 0 for none
  now,          \* Time::getMillisecondCounter()
  step,         \* what the message thread is in the middle of
  running,      \* the device calls back
  age,          \* how long the device has been warming up, up to WarmUp
  userUnmuted,  \* the user switched Mute off since the device restarted
  wraps         \* the counter wraps before pendingUnmute is due

clockVars == <<now, age>>
panelVars == <<toggle, pendingUnmute, step, running, userUnmuted, wraps>>
outputPanelVars == <<outputVars, panelVars, clockVars>>

Steps == {"load", "startTimer", "idle", "restart", "arm"}
Idle == step = "idle" /\ ~silencing

\* initialise: muted before the device is opened.
PanelInit ==
  /\ InitOutput
  /\ toggle = FALSE /\ pendingUnmute = 0 /\ step = "load"
  /\ now \in 0 .. ClockSize - 1 /\ age = WarmUp - StartWarmUp
  /\ running \in BOOLEAN /\ userUnmuted = FALSE /\ wraps = FALSE

\* initialise: loadSettings sets the button as it was saved, which clicks it if
\* that changes it.
LoadSettings ==
  /\ step = "load"
  /\ \/ toggle' = TRUE /\ SetMute(TRUE)
     \/ UNCHANGED <<toggle, outputVars>>
  /\ step' = "startTimer"
  /\ UNCHANGED <<pendingUnmute, running, userUnmuted, wraps, clockVars>>

\* Deviation: a wait that is under way is not extended.
UnmuteOnceAfter(wait) ==
  /\ pendingUnmute' = IF pendingUnmute = 0 THEN (now + wait) % ClockSize ELSE pendingUnmute
  /\ wraps' = (now + wait >= ClockSize)
  /\ step' = "idle"
  /\ UNCHANGED <<toggle, running, userUnmuted, clockVars, outputVars>>

UnmuteAfter(wait) ==
  /\ pendingUnmute' = (now + wait) % ClockSize
  /\ wraps' = (now + wait >= ClockSize)
  /\ step' = "idle"
  /\ UNCHANGED <<toggle, running, userUnmuted, clockVars, outputVars>>

StartTimer == step = "startTimer" /\ ~silencing /\ UnmuteAfter(StartWarmUp)

Click ==
  /\ Idle
  /\ toggle' = ~toggle
  /\ SetMute(~toggle)
  /\ userUnmuted' = (userUnmuted \/ toggle)
  /\ UNCHANGED <<pendingUnmute, step, running, wraps, clockVars>>

\* applyAudioSetup and the device type's box: mute, restart the device, wait.
ChangeDevice ==
  /\ Idle
  /\ SetMute(TRUE)
  /\ step' = "restart"
  /\ UNCHANGED <<toggle, pendingUnmute, running, userUnmuted, wraps, clockVars>>

\* The device manager lets no new callback begin and waits for the last to end; the
\* setup may fail.
Stopping == step = "restart" /\ ~silencing

RestartDevice ==
  /\ Stopping /\ ~inBlock
  /\ running' \in BOOLEAN
  /\ age' = 0 /\ userUnmuted' = FALSE
  /\ step' = "arm"
  /\ UNCHANGED <<toggle, pendingUnmute, wraps, now, outputVars>>

ArmTimer == step = "arm" /\ UnmuteAfter(WarmUp)

-----------------------------------------------------------------------------
TimerDue == Idle /\ pendingUnmute # 0 /\ now >= pendingUnmute

\* Deviation: reads the button the wrong way round.
TimerReversed ==
  /\ TimerDue
  /\ pendingUnmute' = 0
  /\ IF toggle THEN SetMute(FALSE) ELSE UNCHANGED outputVars
  /\ UNCHANGED <<toggle, step, running, userUnmuted, wraps, clockVars>>

TimerCallback ==
  /\ TimerDue
  /\ pendingUnmute' = 0
  /\ IF toggle THEN UNCHANGED outputVars ELSE SetMute(FALSE)
  /\ UNCHANGED <<toggle, step, running, userUnmuted, wraps, clockVars>>

\* The timer runs every few milliseconds: an idle message thread is not late by a
\* tick of this clock.
Tick ==
  /\ ~TimerDue
  /\ now' = (now + 1) % ClockSize
  /\ age' = IF age < WarmUp THEN age + 1 ELSE age
  /\ UNCHANGED <<panelVars, outputVars>>

-----------------------------------------------------------------------------
AudioStart ==
  /\ running /\ ~Stopping
  /\ \E n \in 1 .. BlockSamples : BlockStart(n)
  /\ UNCHANGED <<panelVars, clockVars>>
AudioStep == ProcessOutput /\ UNCHANGED <<panelVars, clockVars>>
SilenceStep == Silence /\ UNCHANGED <<panelVars, clockVars>>

Message ==
  LoadSettings \/ StartTimer \/ RestartDevice \/ ArmTimer \/ TimerCallback \/ SilenceStep

PanelNext == Message \/ Click \/ ChangeDevice \/ Tick \/ AudioStart \/ AudioStep

PanelSpec == PanelInit /\ [][PanelNext]_outputPanelVars

\* Time passes, the message thread finishes what it began, and a running device
\* keeps calling back.
PanelFairSpec ==
  /\ PanelSpec
  /\ WF_outputPanelVars(Tick) /\ WF_outputPanelVars(Message)
  /\ WF_outputPanelVars(AudioStep) /\ WF_outputPanelVars(AudioStart)

-----------------------------------------------------------------------------
(***************************************************************************)
(* Properties                                                              *)
(***************************************************************************)
PanelTypeOK ==
  /\ OutputTypeOK
  /\ toggle \in BOOLEAN /\ running \in BOOLEAN /\ userUnmuted \in BOOLEAN /\ wraps \in BOOLEAN
  /\ pendingUnmute \in 0 .. ClockSize - 1 /\ now \in 0 .. ClockSize - 1
  /\ age \in 0 .. WarmUp /\ step \in Steps

\* "a manual Mute keeps the output muted" (nam_editor_app.cpp:362) through device
\* changes and whichever timer runs out, and a device that is not yet warm is
\* muted, also if one change follows another before the timer is due; unless the
\* user switched Mute off meanwhile or the counter wraps in the wait.
MutedWhenItShould ==
  /\ PanelTypeOK
  /\ toggle => mute
  /\ age < WarmUp => mute \/ userUnmuted \/ wraps

\* The mute keeps both of its promises: what should be muted is, and what is muted
\* is silent one fade later.
MuteHolds == SilentWithinAFade /\ MutedWhenItShould

\* The output comes back at full after a device change or the start, unless the
\* device is changed or the button clicked again, it does not run, or the counter
\* wraps in the wait (timerCallback).
ComesBack ==
  \/ []<><<ChangeDevice>>_outputPanelVars
  \/ (~toggle /\ running) ~> (gainHeard = Full \/ toggle \/ ~running \/ wraps)
===============================================================================
