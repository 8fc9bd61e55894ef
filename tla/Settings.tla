------------------------------ MODULE Settings ------------------------------
(***************************************************************************)
(* desktop/App/nam_editor_app.cpp: the output panel's settings, one        *)
(* session that saves them and the start after it that loads them.  One    *)
(* slider stands for the five; a file stream of JUCE (external) that is    *)
(* opened for a file that exists writes behind what is there.              *)
(***************************************************************************)
EXTENDS Integers, Sequences

CONSTANTS
  Positions, Default,   \* of the slider
  MaxSaves              \* bound: saves of the session

VARIABLES
  phase,       \* "session", "loading" or "loaded"
  slider, toggle,
  ahead,       \* the lines a reader of settings.txt has before it
  saved,       \* what the session saved last
  clicked      \* whether loading clicked the button

vars == <<phase, slider, toggle, ahead, saved, clicked>>

Line(key, val) == [key |-> key, val |-> val]
SaveMuteOnly(s, t) == <<Line("mute", t)>>   \* deviation: forgets the slider
SaveSettings(s, t) == <<Line("slider", s), Line("mute", t)>>

Init ==
  /\ phase = "session" /\ slider = Default /\ toggle = FALSE
  /\ ahead = << >> /\ saved = <<Default, FALSE>> /\ clicked = FALSE

\* The user moves the slider or clicks the button.
Change(s, t) ==
  /\ phase = "session" /\ Len(ahead) < 2 * MaxSaves
  /\ slider' = s /\ toggle' = t /\ saved' = <<s, t>>
  /\ ahead' = ahead \o SaveSettings(s, t)
  /\ UNCHANGED <<phase, clicked>>
MoveSlider == \E s \in Positions \ {slider} : Change(s, toggle)
ClickMute == Change(slider, ~toggle)

\* The program ends and starts: the panel is built, then loadSettings opens the file.
Restart ==
  /\ phase = "session" /\ phase' = "loading"
  /\ slider' = Default /\ toggle' = FALSE
  /\ UNCHANGED <<ahead, saved, clicked>>

\* A slider tells its listener later, when loading has ended; the button at once, if
\* it changes, and then saves.
LoadLine ==
  /\ phase = "loading" /\ ahead # << >>
  /\ LET line == Head(ahead)
     IN \/ /\ line.key = "slider"
           /\ slider' = line.val /\ ahead' = Tail(ahead)
           /\ UNCHANGED <<toggle, clicked>>
        \/ /\ line.key = "mute" /\ line.val = toggle
           /\ ahead' = Tail(ahead)
           /\ UNCHANGED <<slider, toggle, clicked>>
        \/ /\ line.key = "mute" /\ line.val # toggle
           /\ toggle' = line.val /\ clicked' = TRUE
           /\ ahead' = Tail(ahead) \o SaveSettings(slider, line.val)
           /\ UNCHANGED slider
  /\ UNCHANGED <<phase, saved>>
LoadEnd ==
  /\ phase = "loading" /\ ahead = << >> /\ phase' = "loaded"
  /\ UNCHANGED <<slider, toggle, ahead, saved, clicked>>

LoadSettings == LoadLine \/ LoadEnd
Next == MoveSlider \/ ClickMute \/ Restart \/ LoadSettings

Spec == Init /\ [][Next]_vars
FairSpec == Spec /\ WF_vars(LoadSettings)

-----------------------------------------------------------------------------
(***************************************************************************)
(* Properties                                                              *)
(***************************************************************************)
\* If Mute was never saved as on, the panel comes back as it was left, however often
\* it was saved (saveSettings, loadSettings).  Once it was, a save made in the middle
\* of loading puts the slider back to an earlier position.
RestoresTheLast == phase = "loaded" /\ ~clicked => <<slider, toggle>> = saved

\* The start gets past "restore output panel values" (nam_editor_app.cpp:305): not
\* true when Mute was saved as on and then as off, for each line that is read then
\* adds a line to read.
LoadEnds == phase = "loading" ~> phase = "loaded"
=============================================================================
