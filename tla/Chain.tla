-------------------------------- MODULE Chain --------------------------------
(***************************************************************************)
(* core/audio/chain.cpp: what of each module is heard.  A module is faded  *)
(* between dry and wet when it is bypassed or switched on and when a fresh *)
(* chain takes over, and blended by its mix.  The samples themselves are   *)
(* left out: a fade is dry, wet or on its way, and its position is the     *)
(* number of samples it still has to run.  The stores of the slots advance *)
(* together and are one ParamStore.  A chain that takes over is built first *)
(* and lands with a later block: what the old chain is asked in between is *)
(* lost with it.  A command that falls between the request and the landing *)
(* and acts on the chain to come (uiSetMix) is the same as one just after. *)
(***************************************************************************)
EXTENDS ParamStore

CONSTANTS
  Slots,        \* the slots of the chain
  FadeMs,       \* length of a fade
  MaxBlock      \* maxBlock_

ASSUME FadeAssumption == FadeMs \in Nat \ {0} /\ MaxBlock \in Nat \ {0}

VARIABLES
  bypass,       \* def.bypass
  mix,          \* mixValueOf: mixVal or, while it is negative, def.mix
  fade,         \* fade
  fadeTarget,   \* fadeTarget
  fadeRemaining,\* fadeRemaining
  heard,        \* what the last block let through of each module
  blockMix,     \* the mix it used
  restart,      \* what restarted the fades since: none, swap or reset
  settled,      \* slots whose bypass flag was acted on in this chain
  dialed,       \* what was last asked of each parameter
  cut,          \* parameters whose last request a takeover cut off or lost
  coming,       \* the chain that is built or waits to land: none, edit or preset
  snapshot,     \* what snapshotChain read for an edit, and the rate at that time
  lost          \* what cut will be once the chain has landed

fadeVars == <<fade, fadeTarget, fadeRemaining>>
blockVars == <<heard, blockMix>>
askedVars == <<dialed, cut, lost>>
comingVars == <<coming, snapshot>>
paramVars == <<rampVars, sampleRate, askedVars>>
vars == <<bypass, mix, fadeVars, blockVars, restart, settled, comingVars, paramVars>>

FadeSamples(rate) == rate * FadeMs

Mixes == {"zero", "some", "full"}
NothingRead(rate) ==
  [bypass |-> [s \in Slots |-> FALSE], value |-> [p \in Params |-> 0], rate |-> rate]

\* A new chain: the constructor sets the fades by the bypass flags, then
\* startFadeIn sets them to run from dry to wet.
TakeOver(b, m) ==
  /\ bypass' = b /\ mix' = m
  /\ fade' = [s \in Slots |-> "dry"]
  /\ fadeTarget' = [s \in Slots |-> "wet"]
  /\ fadeRemaining' = [s \in Slots |-> FadeSamples(snapshot.rate)]
  /\ restart' = "swap" /\ settled' = {}

Init ==
  /\ bypass \in [Slots -> BOOLEAN] /\ mix \in [Slots -> Mixes]
  /\ fade = [s \in Slots |-> "dry"]
  /\ fadeTarget = [s \in Slots |-> "wet"]
  /\ sampleRate \in Rates
  /\ fadeRemaining = [s \in Slots |-> FadeSamples(sampleRate)]
  /\ heard = [s \in Slots |-> "dry"] /\ blockMix = mix
  /\ restart = "none" /\ settled = {}
  /\ dialed \in [Params -> Asked] /\ cut = {} /\ lost = {}
  /\ coming = "none" /\ snapshot = NothingRead(sampleRate)
  /\ value = [p \in Params |-> ClampTo(dialed[p])] /\ target = value
  /\ remaining = [p \in Params |-> 0]

\* What the live chain goes on with while another is built.
liveVars == <<bypass, mix, fadeVars, blockVars, restart, settled, rampVars, sampleRate>>

\* loadPresetText: chain_ is the preset's from now on, and replaces what waited.
LoadPreset ==
  /\ coming' = "preset" /\ snapshot' = NothingRead(sampleRate) /\ lost' = {}
  /\ UNCHANGED <<liveVars, dialed, cut>>

\* An edit: rebuildChain of snapshotChain(*chain_), which reads the flags and the
\* current values.  With a chain on its way it reads that one, and what lands is
\* the same.
Snapshot ==
  /\ coming = "none"
  /\ coming' = "edit"
  /\ snapshot' = [bypass |-> bypass, value |-> value, rate |-> sampleRate]
  /\ lost' = cut \cup {p \in Params : remaining[p] > 0}
  /\ UNCHANGED <<liveVars, dialed, cut>>

Landed ==
  /\ coming' = "none" /\ snapshot' = NothingRead(sampleRate)
  /\ cut' = lost /\ lost' = {}
  /\ UNCHANGED <<blockVars, sampleRate>>

LandEditBare(m) ==       \* deviation: the parameters start from the preset's again
  /\ coming = "edit"
  /\ TakeOver(snapshot.bypass, m) /\ AtRest([p \in Params |-> 0])
  /\ UNCHANGED dialed
  /\ Landed

\* The first block after requestSwap takes the chain: of an edit with the mix that
\* was heard (snapshotChain) or that was set since, of a preset with what its file says
\* or that was set since.
LandEdit(m) ==
  /\ coming = "edit"
  /\ TakeOver(snapshot.bypass, m) /\ AtRest(snapshot.value)
  /\ UNCHANGED dialed
  /\ Landed

LandPreset(b, m, v) ==
  /\ coming = "preset"
  /\ TakeOver(b, m) /\ AtRest(v)
  /\ dialed' = [p \in Params |-> IF p \in lost THEN dialed[p] ELSE v[p]]
  /\ Landed

SetParamByIndex(p, v) ==
  /\ SetByIndex(p, v)
  /\ dialed' = [dialed EXCEPT ![p] = v] /\ cut' = cut \ {p}
  /\ lost' = IF coming = "none" THEN lost ELSE lost \cup {p}
  /\ UNCHANGED <<bypass, mix, fadeVars, blockVars, restart, settled, comingVars, sampleRate>>

\* The device's rate changes: ramps start again, fades go on by the samples they
\* have left.
Prepare(rate) ==
  /\ coming = "none"
  /\ SetSampleRate(rate)
  /\ snapshot' = NothingRead(rate)
  /\ UNCHANGED <<bypass, mix, fadeVars, blockVars, restart, settled, askedVars, coming>>

\* With a chain on its way it is that chain's rate which is set; its parameters rest.
PrepareComing(rate) ==
  /\ coming # "none"
  /\ sampleRate' = rate
  /\ UNCHANGED <<bypass, mix, fadeVars, blockVars, restart, settled, rampVars, askedVars, comingVars>>

\* Deviation: jumps to the end of the fade.
StartFadeAtOnce(s, toWet) ==
  LET goal == IF toWet THEN "wet" ELSE "dry"
  IN /\ fadeTarget' = [fadeTarget EXCEPT ![s] = goal]
     /\ fade' = [fade EXCEPT ![s] = goal]
     /\ fadeRemaining' = [fadeRemaining EXCEPT ![s] = 0]

StartFade(s, toWet) ==
  LET goal == IF toWet THEN "wet" ELSE "dry"
  IN /\ fadeTarget' = [fadeTarget EXCEPT ![s] = goal]
     /\ fadeRemaining' =
          [fadeRemaining EXCEPT ![s] = IF fade[s] = goal THEN 0 ELSE FadeSamples(sampleRate)]
     /\ UNCHANGED fade

SetBypassByIndex(s, b) ==
  /\ bypass' = [bypass EXCEPT ![s] = b]
  /\ settled' = settled \cup {s}
  /\ StartFade(s, ~b)
  /\ UNCHANGED <<mix, blockVars, restart, comingVars, paramVars>>

\* To some mix, or back to the preset's.  With a chain on its way it is that chain's
\* (uiSetMix), with what it lands with.
SetMixByIndex(s, m) ==
  /\ coming = "none"
  /\ mix' = [mix EXCEPT ![s] = m]
  /\ UNCHANGED <<bypass, fadeVars, blockVars, restart, settled, comingVars, paramVars>>

Reset ==
  /\ fadeTarget' = [s \in Slots |-> IF bypass[s] THEN "dry" ELSE "wet"]
  /\ fade' = fadeTarget'
  /\ fadeRemaining' = [s \in Slots |-> 0]
  /\ restart' = "reset" /\ settled' = Slots
  /\ UNCHANGED <<bypass, mix, heard, blockMix, comingVars, paramVars>>

\* process(n): each slot copies its wet signal, is skipped, or blends sample by
\* sample while its fade moves on.
FadeAfter(s, n) ==
  CASE fadeRemaining[s] = 0 -> fade[s]
    [] fadeRemaining[s] \in 1 .. n -> fadeTarget[s]
    [] OTHER -> "partial"

Heard(s) ==
  CASE fadeRemaining[s] = 0 /\ fade[s] = "wet" /\ mix[s] = "full" -> "wet"
    [] fadeRemaining[s] = 0 /\ (fade[s] = "dry" \/ mix[s] = "zero") -> "dry"
    [] OTHER -> "blend"

ProcessStuck(n) ==       \* deviation: a dry slot is skipped before its fade moves
  LET stuck == {s \in Slots : fade[s] = "dry"}
  IN /\ heard' = [s \in Slots |-> IF s \in stuck THEN "dry" ELSE Heard(s)]
     /\ blockMix' = mix
     /\ restart' = "none"
     /\ fade' = [s \in Slots |-> IF s \in stuck THEN "dry" ELSE FadeAfter(s, n)]
     /\ fadeRemaining' = [s \in Slots |->
          IF s \in stuck THEN fadeRemaining[s]
          ELSE IF fadeRemaining[s] > n THEN fadeRemaining[s] - n ELSE 0]
     /\ Advance(n)
     /\ UNCHANGED <<bypass, mix, fadeTarget, settled, sampleRate, comingVars, askedVars>>

Process(n) ==
  /\ heard' = [s \in Slots |-> Heard(s)]
  /\ blockMix' = mix
  /\ restart' = "none"
  /\ fade' = [s \in Slots |-> FadeAfter(s, n)]
  /\ fadeRemaining' = [s \in Slots |->
       IF fadeRemaining[s] > n THEN fadeRemaining[s] - n ELSE 0]
  /\ Advance(n)
  /\ UNCHANGED <<bypass, mix, fadeTarget, settled, sampleRate, comingVars, askedVars>>

Next ==
  \/ LoadPreset
  \/ \E b \in [Slots -> BOOLEAN], m \in [Slots -> Mixes], v \in [Params -> Asked] :
       LandPreset(b, m, v)
  \/ Snapshot
  \/ \E m \in [Slots -> Mixes] : LandEdit(m)
  \/ \E p \in Params, v \in Asked : SetParamByIndex(p, v)
  \/ \E rate \in Rates : Prepare(rate) \/ PrepareComing(rate)
  \/ \E s \in Slots, b \in BOOLEAN : SetBypassByIndex(s, b)
  \/ \E s \in Slots, m \in Mixes : SetMixByIndex(s, m)
  \/ Reset
  \/ \E n \in 1 .. MaxBlock : Process(n)

Spec == Init /\ [][Next]_vars
\* The audio callback keeps coming.
FairSpec == Spec /\ WF_vars(\E n \in 1 .. MaxBlock : Process(n))

-----------------------------------------------------------------------------
(***************************************************************************)
(* Properties                                                              *)
(***************************************************************************)
TypeOK ==
  /\ bypass \in [Slots -> BOOLEAN]
  /\ mix \in [Slots -> Mixes]
  /\ fade \in [Slots -> {"dry", "partial", "wet"}]
  /\ fadeTarget \in [Slots -> {"dry", "wet"}]
  /\ fadeRemaining \in [Slots -> Nat]
  /\ \A s \in Slots : \E rate \in Rates : fadeRemaining[s] <= FadeSamples(rate)
  /\ heard \in [Slots -> {"dry", "blend", "wet"}]
  /\ blockMix \in [Slots -> Mixes] /\ restart \in {"none", "swap", "reset"}
  /\ settled \subseteq Slots
  /\ RampTypeOK /\ dialed \in [Params -> Asked]
  /\ cut \subseteq Params /\ lost \subseteq Params
  /\ coming \in {"none", "edit", "preset"}
  /\ snapshot \in [bypass : [Slots -> BOOLEAN], value : [Params -> Levels], rate : Rates]

\* A fade that is over has arrived and one that is not has a way to go, through
\* every reversal in mid-fade (startFade, process); and it heads where the flag
\* says once the flag was acted on.
FadeInv ==
  /\ TypeOK
  /\ \A s \in Slots : fadeRemaining[s] = 0 <=> fade[s] = fadeTarget[s]
  /\ \A s \in settled : fadeTarget[s] = IF bypass[s] THEN "dry" ELSE "wet"

\* No pop: between two blocks with the same mix a module never jumps from not
\* heard at all to heard alone or back, whatever was toggled, edited or loaded
\* in between and however far a fade had come (Chain::process and startFade);
\* a chain that takes over starts from dry, never at once from wet.
NoPop ==
  [][\A s \in Slots :
       blockMix'[s] = blockMix[s] /\ heard'[s] # heard[s] =>
         \/ "blend" \in {heard[s], heard'[s]}
         \/ restart = "reset"
         \/ restart = "swap" /\ heard'[s] = "dry"]_vars

\* A module that is bypassed falls silent and one that is switched on is heard
\* alone if its mix says so, unless commands for it keep coming, each of which
\* restarts the whole fade, or another chain comes.
BypassTakesEffect ==
  \A s \in Slots :
    LET full == ~bypass[s] /\ mix[s] = "full"
        off  == bypass[s] /\ s \in settled
    IN \/ []<><<\E b \in BOOLEAN : SetBypassByIndex(s, b)>>_vars
       \/ []<>(restart = "swap")
       \/ (off ~> (heard[s] = "dry" \/ ~off)) /\ (full ~> (heard[s] = "wet" \/ ~full))

\* A parameter rests nowhere but at the legal value closest to what was last asked
\* of it, and heads there while it does not rest, through restarts in mid-ramp,
\* changes of the rate, edits and preset loads (ParamStore, snapshotChain); except
\* one that an edit found in mid-ramp, whose value it keeps, and one that the old
\* chain was asked for after the snapshot or the load and before the landing.
DialedIsKept ==
  \A p \in Params \ cut :
    /\ \A x \in Levels : (dialed[p] - target[p]) * (dialed[p] - target[p])
                            <= (dialed[p] - x) * (dialed[p] - x)
    /\ remaining[p] = 0 => value[p] = target[p]

\* What the chain keeps through reversals, restarts and takeovers: fades and ramps
\* end at what was last asked for.
ChainInv == FadeInv /\ DialedIsKept

\* A parameter gets where it was asked to, unless it is asked again and again or
\* the device is set up again and again: each restarts the whole ramp (startRamp).
\* Edits and presets do not keep it from getting there.
ParamLands ==
  \A p \in Params, x \in Levels :
    \/ []<><<\E v \in Asked : SetParamByIndex(p, v)>>_vars
    \/ []<><<\E rate \in Rates : Prepare(rate)>>_vars
    \/ (target[p] = x) ~> (value[p] = x \/ target[p] # x)

\* "parameters carry their current (ramped) values [...] so an edit never reverts
\* what the user dialed in" (core/audio/chain_builder.cpp:24): a parameter that
\* rests where it was dialed stays there when an edit lands.
EditNeverReverts ==
  [][coming = "edit" /\ coming' = "none" =>
       \A p \in Params \ cut : remaining[p] = 0 => value'[p] = value[p]]_vars

\* "a chain rebuilt from the snapshot behaves identically (module order,
\* bypass, values preserved)" (tests/unit/chain_test.cpp:388): a bypassed
\* module whose fade is over is not heard.
BypassedIsSilent ==
  \A s \in Slots : bypass[s] /\ fadeRemaining[s] = 0 => fade[s] = "dry"
=============================================================================
