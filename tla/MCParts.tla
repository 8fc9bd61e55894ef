------------------------------- MODULE MCParts -------------------------------
(***************************************************************************)
(* The parts that share no state, one beside the other: Init chooses which *)
(* of them runs, and the others stand still.  The backups stand still in   *)
(* their initial state, so that their own properties can be asked of every *)
(* behaviour; a variable two other parts name alike is used by the one     *)
(* that runs.                                                              *)
(***************************************************************************)
EXTENDS Parts, SequencesExt

CONSTANTS a, b                                           \* modules

-----------------------------------------------------------------------------
(***************************************************************************)
(* What the parts are given.                                               *)
(***************************************************************************)
\* Presets of two modules and of the second alone: with no scenes, with one for all
\* their modules, with one for a module that is not there, with one that
\* names its module twice, or with one too many.
At(id, m) == [slot |-> id, module |-> m]
MCScene(slots, v) == [k \in DOMAIN slots |-> [module |-> slots[k].module, setting |-> v]]
MCChains == {<<At(0, a), At(1, b)>>, <<At(0, b)>>}
MCPresets ==
  [chain : MCChains, scenes : {<< >>}]
  \cup {[chain |-> c, scenes |-> <<MCScene(c, v)>>] : c \in MCChains, v \in Settings}
  \cup {[chain |-> <<At(0, b)>>, scenes |-> s] :
          s \in {<<MCScene(<<At(0, a)>>, Fresh)>>,
                  <<MCScene(<<At(0, b)>>, Fresh), << >>>>}
                \cup {<<MCScene(<<At(0, b)>>, Fresh) \o MCScene(<<At(0, b)>>, v)>> : v \in Settings}}

\* Documents: one slot or one scene with each field missing, wrong, unknown or out of
\* range; each schema; two slots with each pair of files; names cut behind a character
\* and within one; scenes up to one too many.
Node(module, file, params, bypass, mix) ==
  [module |-> module, file |-> file, params |-> params, bypass |-> bypass, mix |-> mix]
Plain(file) == Node("amp", file, Absent, Absent, Absent)
Here == <<Root, "a", "x">>
ParamNodes == {Absent, Bad} \cup UNION {[S -> {-1, 1, Bad}] : S \in SUBSET {"gain", "odd"}}
SlotNodes ==
  {Bad} \cup {Node(m, f, p, w, x) : m \in {Bad, NoName, "amp", "fuzz"}, f \in {Bad, Here},
                p \in ParamNodes, w \in {Absent, Bad, TRUE}, x \in {Absent, Bad, 3}}
Doc(schema, name, nodes, scenes) ==
  [schema |-> schema, name |-> name, chain |-> nodes, scenes |-> scenes]
Override(m, p) == [module |-> m, params |-> p, bypass |-> TRUE]
SceneNodes ==
  {Bad} \cup {[name |-> n, overrides |-> o] : n \in {Absent, <<0, 0, 0>>, <<0, 1, 0>>},
     o \in {Absent, Bad, <<Bad>>} \cup
       {<<Override(m, p)>> : m \in {"amp", "fuzz"}, p \in {Absent, Bad, [id \in {"gain"} |-> 3]}}}
Unnamed == [name |-> Absent, overrides |-> << >>]
Cut == [name |-> <<0, 1, 0>>, overrides |-> << >>]
MCAmounts == -1 .. 3
Files == {Absent, Here, <<"x">>, <<"y">>, <<"gone">>}
MCDocs ==
  {Torn, Bad} \cup
  {Doc(1, "p", <<node>>, Absent) : node \in SlotNodes} \cup
  {Doc(s, n, c, Absent) :
     s \in {Absent, Bad, -1, 0, 1, 2}, n \in {Absent, Bad, "p"}, c \in {Bad, << >>}} \cup
  {Doc(1, "p", <<Plain(f), Plain(g)>>, Absent) : f, g \in Files} \cup
  {Doc(0, "p", << >>, sc) :
     sc \in {Bad} \cup {<<m>> : m \in SceneNodes} \cup {<<m, n>> : m, n \in {Bad, Unnamed, Cut}}}
MCDisk ==
  [path \in {Here, <<"x">>, <<"d", "x">>, <<"d", "y">>} |-> path]
MCDirs == {<< >>, <<"d">>}

\* Recordings: whole and too long, with notes before and between, with a second and a
\* short format chunk, with data before the format, in formats that cannot be read.
Chunk(id, size, format) == [id |-> id, size |-> size, format |-> format]
Pcm(r, bits) == [code |-> 1, channels |-> 1, rate |-> r, bits |-> bits]
NoFormat == [code |-> 0, channels |-> 0, rate |-> 0, bits |-> 0]
Fmt(format) == Chunk("fmt", 16, format)
Note(size) == Chunk("LIST", size, NoFormat)
Wav(format, size) == <<Fmt(format), Chunk("data", size, NoFormat)>>
MCRecordings ==
  {Wav(Pcm(2, 16), 2), Wav(Pcm(3, 24), 15), Wav(Pcm(2, 16), 14), Wav(Pcm(2, 12), 6),
   Wav(Pcm(0, 16), 6), <<Chunk("data", 16, NoFormat), Fmt(Pcm(2, 16))>>,
   <<Note(3)>> \o Wav(Pcm(2, 16), 5),
   <<Fmt(Pcm(2, 16)), Note(5), Chunk("fmt", 8, Pcm(3, 24))>> \o Wav(Pcm(3, 16), 4),
   <<Fmt(Pcm(2, 16)), Note(1), Chunk("fmt", 8, Pcm(3, 24)), Chunk("data", 9, NoFormat)>>}

\* A note's autocorrelation peaks at its period and, higher, at twice that.
NoteAt(period) ==
  [k \in MinLag - 1 .. MaxLag + 1 |->
     IF k = period THEN 4 ELSE IF k = 2 * period THEN 5
     ELSE IF k \in {period - 1, period + 1} THEN 3 ELSE 1]
Noise == [k \in MinLag - 1 .. MaxLag + 1 |-> 2]
\* Notes out of range: highest at the shortest lag, with no candidate near it, with one,
\* and with a harmonic's peak.
Below == [k \in MinLag - 1 .. MaxLag + 1 |-> IF k = MinLag - 1 THEN 5 ELSE IF k = MinLag THEN 3 ELSE 1]
Above == [Below EXCEPT ![MinLag] = 4]
WithHarmonic == [Below EXCEPT ![16] = 4]
MCFrames == {NoteAt(2), NoteAt(3), NoteAt(16), Noise, Below, Above, WithHarmonic}

-----------------------------------------------------------------------------
sceneVars == <<live, incoming, scenesDefs, bank, pending, active, ctl, aud, index, claim>>
presetVars == <<steps, doc, package, sent>>     \* and held
namVars == <<amp, inRes, outRes, qRead, qWrite, pads>>
cabVars == <<asset, cab, conv, out>>            \* and heard
delayVars == <<effect, rate, prepared, lines, loop, played>>   \* and heard
pitchVars == <<write, read, left, offset, ratio, lag, hurried>>
tuneVars == <<filled, since, detected, freq, last, count, stable, frame, changes>>
rtVars == <<failpoint, at, remaining, inCallback, violation, guards, armed, taken, failed,
            lost, armings>>
panelVars == <<phase, slider, toggle, ahead, saved, clicked>>
allVars == <<part, vars, sceneVars, presetVars, held, namVars, cabVars, heard, delayVars,
             pitchVars, tuneVars, rtVars, panelVars>>

Off == "off"
ScenesOff ==
  /\ live = << >> /\ incoming = NoChain /\ scenesDefs = << >> /\ bank = << >>
  /\ pending = -1 /\ active = -1 /\ index = -1 /\ ctl = "idle" /\ aud = "idle"
  /\ claim = "kept"
PresetsOff ==
  /\ steps = Off /\ doc = Off /\ package = Off /\ sent = Off
NamOff ==
  /\ amp = Off /\ inRes = Off /\ outRes = Off /\ qRead = Off /\ qWrite = Off
  /\ pads = Off
CabOff ==
  /\ asset = Off /\ cab = Off /\ conv = Off /\ out = Off
DelaysOff ==
  /\ effect = Off /\ rate = Off /\ prepared = Off /\ lines = Off /\ loop = Off
  /\ played = Off
PitchOff ==
  /\ write = Off /\ read = Off /\ left = Off /\ offset = Off /\ ratio = Off
  /\ lag = Off /\ hurried = Off
TunerOff ==
  /\ filled = Off /\ since = Off /\ detected = Off /\ freq = Off /\ last = Off
  /\ count = Off /\ stable = Off /\ frame = Off /\ changes = Off
RtOff ==
  /\ failpoint = Off /\ at = Off /\ remaining = Off /\ inCallback = Off
  /\ violation = Off /\ guards = Off /\ armed = Off /\ taken = Off /\ failed = Off
  /\ lost = Off /\ armings = Off
SettingsOff ==
  /\ phase = Off /\ slider = Off /\ toggle = Off /\ ahead = Off /\ saved = Off
  /\ clicked = Off

MCInit ==
  /\ part \in {"backup", "scenes", "presets", "nam", "cab", "delays", "pitch", "tuner",
               "rt", "settings"}
  /\ Init
  /\ IF part = "scenes" THEN Scenes!Init ELSE ScenesOff
  /\ IF part = "presets" THEN Preset!Init ELSE PresetsOff
  /\ IF part = "nam" THEN Nam!Init ELSE NamOff
  /\ IF part = "cab" THEN Cab!Init ELSE CabOff
  /\ IF part = "delays" THEN Delays!Init ELSE DelaysOff
  /\ IF part = "pitch" THEN Pitch!Init ELSE PitchOff
  /\ IF part = "tuner" THEN Tune!Init ELSE TunerOff
  /\ IF part = "rt" THEN Rt!Init ELSE RtOff
  /\ IF part = "settings" THEN Panel!Init ELSE SettingsOff
  /\ part \notin {"presets", "tuner"} => held = Off
  /\ part \notin {"cab", "delays"} => heard = Off

MCNext ==
  \/ /\ part = "backup" /\ Next
     /\ UNCHANGED <<part, sceneVars, presetVars, namVars, cabVars, delayVars, pitchVars, tuneVars, rtVars, panelVars, held, heard>>
  \/ /\ part = "scenes" /\ Scenes!Next
     /\ UNCHANGED <<part, vars, presetVars, namVars, cabVars, delayVars, pitchVars, tuneVars, rtVars, panelVars, held, heard>>
  \/ /\ part = "presets" /\ Preset!Next
     /\ UNCHANGED <<part, vars, sceneVars, namVars, cabVars, delayVars, pitchVars, tuneVars, rtVars, panelVars, heard>>
  \/ /\ part = "nam" /\ Nam!Next
     /\ UNCHANGED <<part, vars, sceneVars, presetVars, cabVars, delayVars, pitchVars, tuneVars, rtVars, panelVars, held, heard>>
  \/ /\ part = "cab" /\ Cab!Next
     /\ UNCHANGED <<part, vars, sceneVars, presetVars, namVars, delayVars, pitchVars, tuneVars, rtVars, panelVars, held>>
  \/ /\ part = "delays" /\ Delays!Next
     /\ UNCHANGED <<part, vars, sceneVars, presetVars, namVars, cabVars, pitchVars, tuneVars, rtVars, panelVars, held>>
  \/ /\ part = "pitch" /\ Pitch!Next
     /\ UNCHANGED <<part, vars, sceneVars, presetVars, namVars, cabVars, delayVars, tuneVars, rtVars, panelVars, held, heard>>
  \/ /\ part = "tuner" /\ Tune!Next
     /\ UNCHANGED <<part, vars, sceneVars, presetVars, namVars, cabVars, delayVars, pitchVars, rtVars, panelVars, heard>>
  \/ /\ part = "rt" /\ Rt!Next
     /\ UNCHANGED <<part, vars, sceneVars, presetVars, namVars, cabVars, delayVars, pitchVars, tuneVars, panelVars, held, heard>>
  \/ /\ part = "settings" /\ Panel!Next
     /\ UNCHANGED <<part, vars, sceneVars, presetVars, namVars, cabVars, delayVars, pitchVars, tuneVars, rtVars, held, heard>>

MCSpec == MCInit /\ [][MCNext]_allVars
=============================================================================
