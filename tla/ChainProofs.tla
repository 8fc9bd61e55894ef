------------------------------ MODULE ChainProofs ------------------------------
(***************************************************************************)
(* For any slots, parameters, rates and lengths of fades, ramps and        *)
(* blocks: a fade ends where it should, and a parameter rests nowhere but  *)
(* at the legal value closest to what was asked of it.                     *)
(***************************************************************************)
EXTENDS Chain, TLAPS

USE RampAssumption, FadeAssumption DEF RampAssumption, FadeAssumption

-----------------------------------------------------------------------------
(* Parameters *)

\* Clamping finds the closest legal value.
LEMMA ClampIsClosest ==
  ASSUME NEW v \in Int, NEW x \in Levels
  PROVE  /\ ClampTo(v) \in Levels
         /\ (v - ClampTo(v)) * (v - ClampTo(v)) <= (v - x) * (v - x)
<1>1. ClampTo(v) \in Levels
  BY DEF ClampTo, Levels
<1>2. \A a, b \in Int : 0 <= a /\ a <= b => a * a <= b * b
  <2> TAKE a, b \in Int
  <2> HAVE 0 <= a /\ a <= b
  <2>1. a * a <= a * b /\ a * b <= b * b
    OBVIOUS
  <2> QED
    BY <2>1
<1>3. \A a \in Int : a * a = (-a) * (-a)
  OBVIOUS
<1>4. CASE v < 0
  <2>1. ClampTo(v) = 0 /\ 0 <= -(v - 0) /\ -(v - 0) <= -(v - x)
    BY <1>4 DEF ClampTo, Levels
  <2>2. (-(v - 0)) * (-(v - 0)) <= (-(v - x)) * (-(v - x))
    BY <1>2, <2>1 DEF Levels
  <2> QED
    BY <1>1, <1>3, <2>1, <2>2 DEF Levels
<1>5. CASE v > Top
  <2>1. ClampTo(v) = Top /\ 0 <= v - Top /\ v - Top <= v - x
    BY <1>5 DEF ClampTo, Levels
  <2> QED
    BY <1>1, <1>2, <2>1 DEF Levels
<1>6. CASE 0 <= v /\ v <= Top
  <2>1. ClampTo(v) = v /\ (v - v) * (v - v) = 0
    BY <1>6 DEF ClampTo
  <2>2. 0 * 0 <= (v - x) * (v - x)
    <3>1. CASE v >= x
      BY <3>1, <1>2 DEF Levels
    <3>2. CASE v < x
      BY <3>2, <1>2, <1>3 DEF Levels
    <3> QED
      BY <3>1, <3>2 DEF Levels
  <2> QED
    BY <1>1, <2>1, <2>2 DEF Levels
<1>7. v < 0 \/ v > Top \/ (0 <= v /\ v <= Top)
  OBVIOUS
<1> QED
  BY <1>1, <1>4, <1>5, <1>6, <1>7

LEMMA ClampKeepsLegal == ASSUME NEW v \in Levels PROVE ClampTo(v) = v
BY DEF ClampTo, Levels

LEMMA LengthsAreCounts ==
  ASSUME NEW rate \in Rates
  PROVE  /\ RampSamples(rate) \in Nat \ {0}
         /\ FadeSamples(rate) \in Nat \ {0}
BY DEF RampSamples, FadeSamples

\* A parameter that is at rest is at its target, which is what was asked unless a
\* takeover cut or lost it; and so is what an edit will bring, but for what it is
\* going to cut or lose.
ParamInv ==
  /\ RampTypeOK /\ dialed \in [Params -> Asked]
  /\ cut \subseteq Params /\ lost \subseteq Params
  /\ coming \in {"none", "edit", "preset"}
  /\ snapshot.value \in [Params -> Levels] /\ snapshot.rate \in Rates
  /\ \A p \in Params : remaining[p] = 0 => value[p] = target[p]
  /\ \A p \in Params \ cut : target[p] = ClampTo(dialed[p])
  /\ coming = "edit" => \A p \in Params \ lost : snapshot.value[p] = ClampTo(dialed[p])

LEMMA AtRestParam ==
  ASSUME NEW v, \A p \in Params : v[p] \in Int, AtRest(v), sampleRate' = sampleRate,
         sampleRate \in Rates
  PROVE  /\ RampTypeOK'
         /\ \A p \in Params : value'[p] = ClampTo(v[p]) /\ target'[p] = ClampTo(v[p])
<1>1. \A p \in Params : ClampTo(v[p]) \in Levels
  BY DEF ClampTo, Levels
<1>2. value' \in [Params -> Levels] /\ target' = value' /\ remaining' = [p \in Params |-> 0]
  BY <1>1 DEF AtRest
<1>3. \A p \in Params : 0 <= RampSamples(sampleRate)
  BY LengthsAreCounts
<1>4. RampTypeOK'
  BY <1>2, <1>3, LengthsAreCounts DEF RampTypeOK
<1> QED
  BY <1>4 DEF AtRest

Read == [bypass : [Slots -> BOOLEAN], value : [Params -> Levels], rate : Rates]

LEMMA NothingReadIsTyped ==
  ASSUME NEW rate \in Rates
  PROVE  /\ NothingRead(rate) \in Read
         /\ NothingRead(rate).value \in [Params -> Levels] /\ NothingRead(rate).rate \in Rates
BY DEF Read, NothingRead, Levels

LEMMA LoadPresetParam == ASSUME ParamInv, LoadPreset PROVE ParamInv'
<1>1. /\ coming' = "preset" /\ snapshot' = NothingRead(sampleRate) /\ lost' = {}
      /\ UNCHANGED <<rampVars, sampleRate, dialed, cut>>
  BY DEF LoadPreset, liveVars
<1>2. sampleRate \in Rates
  BY DEF ParamInv, RampTypeOK
<1> QED
  BY <1>1, <1>2, NothingReadIsTyped DEF ParamInv, RampTypeOK, rampVars

LEMMA SnapshotParam == ASSUME ParamInv, Snapshot PROVE ParamInv'
<1>1. /\ coming' = "edit" /\ lost' = cut \cup {p \in Params : remaining[p] > 0}
      /\ snapshot' = [bypass |-> bypass, value |-> value, rate |-> sampleRate]
      /\ UNCHANGED <<rampVars, sampleRate, dialed, cut>>
  BY DEF Snapshot, liveVars
<1>2. ASSUME NEW p \in Params \ lost'
      PROVE  value[p] = ClampTo(dialed[p])
  BY <1>1 DEF ParamInv, RampTypeOK
<1> QED
  BY <1>1, <1>2 DEF ParamInv, RampTypeOK, rampVars

LEMMA LandEditParam == ASSUME ParamInv, NEW m, LandEdit(m) PROVE ParamInv'
<1>1. /\ AtRest(snapshot.value) /\ dialed' = dialed /\ sampleRate' = sampleRate /\ sampleRate \in Rates
      /\ coming = "edit" /\ cut' = lost /\ lost' = {} /\ coming' = "none"
      /\ snapshot' = NothingRead(sampleRate)
  BY DEF LandEdit, Landed, ParamInv, RampTypeOK
<1>2. \A p \in Params : /\ snapshot.value[p] \in Int
                        /\ ClampTo(snapshot.value[p]) = snapshot.value[p]
  <2> TAKE p \in Params
  <2>1. snapshot.value[p] \in Levels
    BY DEF ParamInv
  <2> QED
    BY <2>1, ClampKeepsLegal DEF Levels
<1>3. /\ RampTypeOK'
      /\ \A p \in Params : value'[p] = snapshot.value[p] /\ target'[p] = snapshot.value[p]
  BY <1>1, <1>2, AtRestParam
<1>4. \A p \in Params \ cut' : snapshot.value[p] = ClampTo(dialed[p])
  BY <1>1 DEF ParamInv
<1> QED
  BY <1>1, <1>3, <1>4, NothingReadIsTyped DEF ParamInv

LEMMA LandPresetParam ==
  ASSUME ParamInv, NEW b, NEW m, NEW v \in [Params -> Asked], LandPreset(b, m, v)
  PROVE  ParamInv'
<1>1. /\ AtRest(v) /\ sampleRate' = sampleRate /\ sampleRate \in Rates
      /\ dialed' = [p \in Params |-> IF p \in lost THEN dialed[p] ELSE v[p]]
      /\ cut' = lost /\ lost' = {} /\ coming' = "none" /\ snapshot' = NothingRead(sampleRate)
  BY DEF LandPreset, Landed, ParamInv, RampTypeOK
<1>2. \A p \in Params : v[p] \in Int
  BY DEF Asked
<1>3. /\ RampTypeOK'
      /\ \A p \in Params : value'[p] = ClampTo(v[p]) /\ target'[p] = ClampTo(v[p])
  BY <1>1, <1>2, AtRestParam
<1>4. dialed' \in [Params -> Asked]
  BY <1>1 DEF ParamInv
<1> QED
  BY <1>1, <1>3, <1>4, NothingReadIsTyped DEF ParamInv

LEMMA SetParam ==
  ASSUME ParamInv, NEW p \in Params, NEW v \in Asked, SetParamByIndex(p, v)
  PROVE  ParamInv'
<1>1. /\ target' = [target EXCEPT ![p] = ClampTo(v)]
      /\ remaining' = [remaining EXCEPT ![p] = RampLength(value[p], ClampTo(v), sampleRate)]
      /\ value' = value /\ sampleRate' = sampleRate
      /\ dialed' = [dialed EXCEPT ![p] = v] /\ cut' = cut \ {p}
      /\ lost' = IF coming = "none" THEN lost ELSE lost \cup {p}
      /\ UNCHANGED <<coming, snapshot>>
  BY DEF SetParamByIndex, SetByIndex, comingVars
<1>2. ClampTo(v) \in Levels
  BY DEF ClampTo, Levels, Asked
<1>3. /\ RampLength(value[p], ClampTo(v), sampleRate) \in Nat
      /\ RampLength(value[p], ClampTo(v), sampleRate) <= RampSamples(sampleRate)
      /\ RampLength(value[p], ClampTo(v), sampleRate) = 0 => value[p] = ClampTo(v)
  BY LengthsAreCounts DEF RampLength, ParamInv, RampTypeOK
<1>4. RampTypeOK'
  BY <1>1, <1>2, <1>3 DEF ParamInv, RampTypeOK
<1>5. dialed' \in [Params -> Asked] /\ cut' \subseteq Params /\ lost' \subseteq Params
  BY <1>1 DEF ParamInv
<1>7. coming' = "edit" => \A q \in Params \ lost' : snapshot'.value[q] = ClampTo(dialed'[q])
  <2> SUFFICES ASSUME coming = "edit", NEW q \in Params \ lost'
               PROVE  snapshot.value[q] = ClampTo(dialed'[q])
    BY <1>1
  <2>1. q # p /\ q \notin lost
    BY <1>1
  <2> QED
    BY <2>1, <1>1 DEF ParamInv
<1>6. ASSUME NEW q \in Params
      PROVE  /\ remaining'[q] = 0 => value'[q] = target'[q]
             /\ q \notin cut' => target'[q] = ClampTo(dialed'[q])
  <2>1. CASE q = p
    BY <2>1, <1>1, <1>3 DEF ParamInv, RampTypeOK
  <2>2. CASE q # p
    BY <2>2, <1>1 DEF ParamInv, RampTypeOK
  <2> QED
    BY <2>1, <2>2
<1> QED
  BY <1>1, <1>4, <1>5, <1>6, <1>7 DEF ParamInv

LEMMA PrepareParam ==
  ASSUME ParamInv, NEW rate \in Rates, Prepare(rate)
  PROVE  ParamInv'
<1>1. /\ sampleRate' = rate /\ UNCHANGED <<value, target, dialed, cut, lost, coming>>
      /\ snapshot' = NothingRead(rate) /\ coming = "none"
      /\ remaining' = [p \in Params |-> RampLength(value[p], target[p], rate)]
  BY DEF Prepare, SetSampleRate, askedVars
<1>2. \A p \in Params : /\ RampLength(value[p], target[p], rate) \in Nat
                        /\ RampLength(value[p], target[p], rate) <= RampSamples(rate)
                        /\ RampLength(value[p], target[p], rate) = 0 => value[p] = target[p]
  <2>1. RampSamples(rate) \in Int /\ 0 < RampSamples(rate)
    BY LengthsAreCounts
  <2> QED
    BY <2>1 DEF RampLength
<1>3. remaining' \in [Params -> Nat]
  BY <1>1, <1>2
<1>4. \A p \in Params : /\ \E r \in Rates : remaining'[p] <= RampSamples(r)
                        /\ remaining'[p] = 0 => value'[p] = target'[p]
  BY <1>1, <1>2
<1> QED
  BY <1>1, <1>3, <1>4, NothingReadIsTyped DEF ParamInv, RampTypeOK

LEMMA PrepareComingParam ==
  ASSUME ParamInv, NEW rate \in Rates, PrepareComing(rate)
  PROVE  ParamInv'
BY DEF PrepareComing, rampVars, askedVars, comingVars, ParamInv, RampTypeOK

LEMMA AdvanceParam ==
  ASSUME ParamInv, NEW n \in 1 .. MaxBlock, Advance(n),
         UNCHANGED <<sampleRate, comingVars, askedVars>>
  PROVE  ParamInv'
<1>1. /\ remaining' = [p \in Params |-> IF remaining[p] > n THEN remaining[p] - n ELSE 0]
      /\ value' \in [Params -> Levels] /\ target' = target
      /\ UNCHANGED <<sampleRate, dialed, cut, lost, coming, snapshot>>
  BY DEF Advance, askedVars, comingVars
<1>2. \A p \in Params : remaining[p] \in Nat /\ \E rate \in Rates : remaining[p] <= RampSamples(rate)
  BY DEF ParamInv, RampTypeOK
<1>3. \A p \in Params : remaining'[p] \in Nat /\ remaining'[p] <= remaining[p]
  BY <1>1, <1>2
<1>4. RampTypeOK'
  <2>1. \A p \in Params : \E rate \in Rates : remaining'[p] <= RampSamples(rate)
    BY <1>2, <1>3, LengthsAreCounts
  <2>2. remaining' \in [Params -> Nat]
    BY <1>1, <1>3
  <2> QED
    BY <1>1, <2>1, <2>2 DEF ParamInv, RampTypeOK
<1>5. ASSUME NEW p \in Params, remaining'[p] = 0
      PROVE  value'[p] = target'[p]
  <2>1. remaining[p] \in 0 .. n
    BY <1>1, <1>2, <1>5
  <2>2. CASE remaining[p] = 0
    BY <2>2, <1>1 DEF Advance, ParamInv
  <2>3. CASE remaining[p] \in 1 .. n
    BY <2>3, <1>1 DEF Advance
  <2> QED
    BY <2>1, <2>2, <2>3
<1> QED
  BY <1>1, <1>4, <1>5 DEF ParamInv

LEMMA SameParam ==
  ASSUME ParamInv, UNCHANGED <<comingVars, paramVars>>
  PROVE  ParamInv'
BY DEF paramVars, comingVars, rampVars, askedVars, ParamInv, RampTypeOK

LEMMA ParamInitially == Init => ParamInv
<1> SUFFICES ASSUME Init PROVE ParamInv
  OBVIOUS
<1>1. /\ dialed \in [Params -> Asked] /\ cut = {} /\ lost = {} /\ sampleRate \in Rates
      /\ coming = "none" /\ snapshot = NothingRead(sampleRate)
      /\ value = [p \in Params |-> ClampTo(dialed[p])] /\ target = value
      /\ remaining = [p \in Params |-> 0]
  BY DEF Init
<1>2. ASSUME NEW p \in Params
      PROVE  ClampTo(dialed[p]) \in Levels
  <2>1. dialed[p] \in Int
    BY <1>1 DEF Asked
  <2> QED
    BY <2>1, ClampIsClosest DEF Levels, ClampTo
<1>3. 0 <= RampSamples(sampleRate)
  BY <1>1, LengthsAreCounts
<1>4. \A p \in Params : \E rate \in Rates : remaining[p] <= RampSamples(rate)
  <2>1. \A p \in Params : remaining[p] = 0
    BY <1>1
  <2> QED
    BY <1>1, <1>3, <2>1
<1>5. value \in [Params -> Levels] /\ target \in [Params -> Levels] /\ remaining \in [Params -> Nat]
  BY <1>1, <1>2
<1>6. RampTypeOK
  BY <1>1, <1>4, <1>5 DEF RampTypeOK
<1> QED
  BY <1>1, <1>6, NothingReadIsTyped DEF ParamInv

LEMMA ParamStep == ParamInv /\ [Next]_vars => ParamInv'
<1> SUFFICES ASSUME ParamInv, [Next]_vars PROVE ParamInv'
  OBVIOUS
<1>1. ASSUME NEW b \in [Slots -> BOOLEAN], NEW m \in [Slots -> Mixes],
             NEW v \in [Params -> Asked], LandPreset(b, m, v)
      PROVE  ParamInv'
  BY <1>1, LandPresetParam
<1>2. ASSUME NEW m \in [Slots -> Mixes], LandEdit(m)
      PROVE  ParamInv'
  BY <1>2, LandEditParam
<1>10. CASE LoadPreset
  BY <1>10, LoadPresetParam
<1>11. CASE Snapshot
  BY <1>11, SnapshotParam
<1>12. ASSUME NEW rate \in Rates, PrepareComing(rate)
       PROVE  ParamInv'
  BY <1>12, PrepareComingParam
<1>3. ASSUME NEW p \in Params, NEW v \in Asked, SetParamByIndex(p, v)
      PROVE  ParamInv'
  BY <1>3, SetParam
<1>4. ASSUME NEW rate \in Rates, Prepare(rate)
      PROVE  ParamInv'
  BY <1>4, PrepareParam
<1>5. ASSUME NEW s \in Slots, NEW b \in BOOLEAN, SetBypassByIndex(s, b)
      PROVE  ParamInv'
  BY <1>5, SameParam DEF SetBypassByIndex
<1>6. ASSUME NEW s \in Slots, NEW m \in Mixes, SetMixByIndex(s, m)
      PROVE  ParamInv'
  BY <1>6, SameParam DEF SetMixByIndex
<1>7. CASE Reset
  BY <1>7, SameParam DEF Reset
<1>8. ASSUME NEW n \in 1 .. MaxBlock, Process(n)
      PROVE  ParamInv'
  BY <1>8, AdvanceParam DEF Process
<1>9. CASE UNCHANGED vars
  BY <1>9, SameParam DEF vars
<1> QED
  BY <1>1, <1>2, <1>3, <1>4, <1>5, <1>6, <1>7, <1>8, <1>9, <1>10, <1>11, <1>12
  DEF Next

THEOREM ParamsAreInOrder == Spec => []ParamInv
BY ParamInitially, ParamStep, PTL DEF Spec

\* A parameter rests nowhere but at the legal value closest to what was last asked
\* of it, and heads there while it does not rest, except one that an edit found in
\* mid-ramp or that the old chain was asked for between the snapshot or the load and
\* the landing (ParamStore::setByIndex, setSampleRate and advance, snapshotChain).
THEOREM DialedValueIsKept == Spec => []DialedIsKept
<1>1. ParamInv => DialedIsKept
  <2> SUFFICES ASSUME ParamInv, NEW p \in Params \ cut
               PROVE  /\ \A x \in Levels : (dialed[p] - target[p]) * (dialed[p] - target[p])
                                             <= (dialed[p] - x) * (dialed[p] - x)
                      /\ remaining[p] = 0 => value[p] = target[p]
    BY DEF DialedIsKept
  <2>1. dialed[p] \in Int /\ target[p] = ClampTo(dialed[p])
    BY DEF ParamInv, Asked
  <2>2. \A x \in Levels : (dialed[p] - ClampTo(dialed[p])) * (dialed[p] - ClampTo(dialed[p]))
                            <= (dialed[p] - x) * (dialed[p] - x)
    BY <2>1, ClampIsClosest
  <2> QED
    BY <2>1, <2>2 DEF ParamInv
<1> QED
  BY <1>1, ParamsAreInOrder, PTL

-----------------------------------------------------------------------------
(* Fades *)

\* What a fade has to do with the flag, without the types of what is heard.
FadeTypes ==
  /\ fade \in [Slots -> {"dry", "partial", "wet"}]
  /\ fadeTarget \in [Slots -> {"dry", "wet"}]
  /\ fadeRemaining \in [Slots -> Nat]
  /\ \A s \in Slots : \E rate \in Rates : fadeRemaining[s] <= FadeSamples(rate)
  /\ sampleRate \in Rates

FadesMeet ==
  /\ \A s \in Slots : fadeRemaining[s] = 0 <=> fade[s] = fadeTarget[s]
  /\ \A s \in settled : fadeTarget[s] = IF bypass[s] THEN "dry" ELSE "wet"

Fades == FadeTypes /\ FadesMeet /\ settled \subseteq Slots

\* The types of the rest.
Flags ==
  /\ bypass \in [Slots -> BOOLEAN]
  /\ mix \in [Slots -> Mixes]
  /\ heard \in [Slots -> {"dry", "blend", "wet"}]
  /\ blockMix \in [Slots -> Mixes] /\ restart \in {"none", "swap", "reset"}
  /\ snapshot \in Read

FadesAndParams == ParamInv /\ Flags /\ Fades

LEMMA FadesSuffice == FadesAndParams => FadeInv
BY DEF FadesAndParams, ParamInv, Flags, Read, Fades, FadeTypes, FadesMeet, FadeInv, TypeOK

\* A chain that takes over heads for wet with the whole fade before it.
LEMMA TakeOverFades ==
  ASSUME FadesAndParams, NEW b, NEW m, TakeOver(b, m), sampleRate' = sampleRate
  PROVE  Fades'
<1>1. /\ fade' = [s \in Slots |-> "dry"] /\ fadeTarget' = [s \in Slots |-> "wet"]
      /\ fadeRemaining' = [s \in Slots |-> FadeSamples(snapshot.rate)] /\ settled' = {}
  BY DEF TakeOver
<1>2. /\ sampleRate \in Rates /\ snapshot.rate \in Rates
      /\ FadeSamples(snapshot.rate) \in Nat \ {0}
  BY LengthsAreCounts DEF FadesAndParams, ParamInv, Fades, FadeTypes
<1>3. \A s \in Slots : \E rate \in Rates : fadeRemaining'[s] <= FadeSamples(rate)
  <2>1. FadeSamples(snapshot.rate) <= FadeSamples(snapshot.rate)
    BY <1>2
  <2> QED
    BY <1>1, <1>2, <2>1
<1>4. FadeTypes'
  BY <1>1, <1>2, <1>3 DEF FadeTypes
<1>5. FadesMeet'
  BY <1>1, <1>2 DEF FadesMeet
<1> QED
  BY <1>1, <1>4, <1>5 DEF Fades

LEMMA SetBypassFades ==
  ASSUME FadesAndParams, NEW s \in Slots, NEW b \in BOOLEAN, SetBypassByIndex(s, b)
  PROVE  Fades' /\ Flags'
<1> DEFINE goal == IF ~b THEN "wet" ELSE "dry"
           length == IF fade[s] = goal THEN 0 ELSE FadeSamples(sampleRate)
<1>1. /\ bypass' = [bypass EXCEPT ![s] = b] /\ settled' = settled \cup {s}
      /\ fadeTarget' = [fadeTarget EXCEPT ![s] = goal]
      /\ fadeRemaining' = [fadeRemaining EXCEPT ![s] = length]
      /\ fade' = fade /\ sampleRate' = sampleRate
  BY DEF SetBypassByIndex, StartFade, paramVars
<1>2. goal \in {"dry", "wet"} /\ goal = IF b THEN "dry" ELSE "wet"
  OBVIOUS
<1>3. /\ length \in Nat /\ length <= FadeSamples(sampleRate)
      /\ length = 0 <=> fade[s] = goal
  BY LengthsAreCounts DEF FadesAndParams, Fades, FadeTypes
<1> HIDE DEF goal, length
<1>4. FadeTypes'
  BY <1>1, <1>2, <1>3 DEF FadesAndParams, Fades, FadeTypes
<1>5. ASSUME NEW t \in Slots
      PROVE  /\ fadeRemaining'[t] = 0 <=> fade'[t] = fadeTarget'[t]
             /\ t \in settled' => fadeTarget'[t] = IF bypass'[t] THEN "dry" ELSE "wet"
  <2>1. CASE t = s
    BY <2>1, <1>1, <1>2, <1>3 DEF FadesAndParams, Flags, Fades, FadeTypes
  <2>2. CASE t # s
    BY <2>2, <1>1 DEF FadesAndParams, Flags, Fades, FadeTypes, FadesMeet
  <2> QED
    BY <2>1, <2>2
<1>6. settled' \subseteq Slots
  BY <1>1 DEF FadesAndParams, Fades
<1>7. Flags'
  BY <1>1 DEF FadesAndParams, Flags, SetBypassByIndex, blockVars, comingVars
<1> QED
  BY <1>4, <1>5, <1>6, <1>7 DEF Fades, FadesMeet

LEMMA ResetFades ==
  ASSUME FadesAndParams, Reset
  PROVE  Fades' /\ Flags'
<1>1. /\ fadeTarget' = [s \in Slots |-> IF bypass[s] THEN "dry" ELSE "wet"]
      /\ fade' = fadeTarget' /\ fadeRemaining' = [s \in Slots |-> 0]
      /\ settled' = Slots /\ bypass' = bypass /\ sampleRate' = sampleRate
  BY DEF Reset, paramVars
<1>2. FadeTypes'
  BY <1>1, LengthsAreCounts DEF FadesAndParams, Fades, FadeTypes
<1>3. FadesMeet'
  BY <1>1 DEF FadesMeet
<1>4. Flags'
  BY DEF FadesAndParams, Flags, Reset, comingVars
<1> QED
  BY <1>1, <1>2, <1>3, <1>4 DEF Fades

LEMMA ProcessFades ==
  ASSUME FadesAndParams, NEW n \in 1 .. MaxBlock, Process(n)
  PROVE  Fades' /\ Flags'
<1>1. /\ fade' = [s \in Slots |-> FadeAfter(s, n)] /\ fadeTarget' = fadeTarget
      /\ fadeRemaining' = [s \in Slots |-> IF fadeRemaining[s] > n THEN fadeRemaining[s] - n ELSE 0]
      /\ settled' = settled /\ bypass' = bypass /\ sampleRate' = sampleRate
  BY DEF Process
<1>2. ASSUME NEW s \in Slots
      PROVE  /\ FadeAfter(s, n) \in {"dry", "partial", "wet"}
             /\ fadeRemaining'[s] \in Nat /\ fadeRemaining'[s] <= fadeRemaining[s]
             /\ fadeRemaining'[s] = 0 <=> FadeAfter(s, n) = fadeTarget[s]
  <2>1. /\ fadeRemaining[s] \in Nat /\ fade[s] \in {"dry", "partial", "wet"}
        /\ fadeTarget[s] \in {"dry", "wet"}
        /\ fadeRemaining[s] = 0 <=> fade[s] = fadeTarget[s]
    BY DEF FadesAndParams, Fades, FadeTypes, FadesMeet
  <2>2. CASE fadeRemaining[s] = 0
    BY <2>1, <2>2, <1>1 DEF FadeAfter
  <2>3. CASE fadeRemaining[s] \in 1 .. n
    BY <2>1, <2>3, <1>1 DEF FadeAfter
  <2>4. CASE fadeRemaining[s] > n
    BY <2>1, <2>4, <1>1 DEF FadeAfter
  <2> QED
    BY <2>1, <2>2, <2>3, <2>4
<1>3. \A s \in Slots : \E rate \in Rates : fadeRemaining'[s] <= FadeSamples(rate)
  BY <1>2, LengthsAreCounts DEF FadesAndParams, Fades, FadeTypes
<1>4. fade' \in [Slots -> {"dry", "partial", "wet"}] /\ fadeRemaining' \in [Slots -> Nat]
  BY <1>1, <1>2
<1>5. FadeTypes'
  BY <1>1, <1>3, <1>4 DEF FadesAndParams, Fades, FadeTypes
<1>6. FadesMeet'
  BY <1>1, <1>2 DEF FadesAndParams, Fades, FadesMeet
<1>7. \A s \in Slots : Heard(s) \in {"dry", "blend", "wet"}
  BY DEF Heard
<1>8. Flags'
  BY <1>7 DEF FadesAndParams, Flags, Process, comingVars
<1> QED
  BY <1>1, <1>5, <1>6, <1>8 DEF FadesAndParams, Fades

LEMMA SameFades ==
  ASSUME Fades, UNCHANGED <<fadeVars, bypass, settled>>, sampleRate' \in Rates
  PROVE  Fades'
BY DEF fadeVars, Fades, FadeTypes, FadesMeet

LEMMA SameFlags ==
  ASSUME Flags, UNCHANGED <<bypass, mix, blockVars, restart, snapshot>>
  PROVE  Flags'
BY DEF Flags, blockVars

LEMMA TakeOverFlags ==
  ASSUME Flags, NEW b \in [Slots -> BOOLEAN], NEW m \in [Slots -> Mixes],
         TakeOver(b, m), Landed, sampleRate \in Rates
  PROVE  Flags'
BY NothingReadIsTyped DEF Flags, TakeOver, Landed, blockVars

LEMMA FadesInitially == Init => FadesAndParams
<1> SUFFICES ASSUME Init PROVE FadesAndParams
  OBVIOUS
<1>1. FadeSamples(sampleRate) \in Nat \ {0} /\ sampleRate \in Rates
  BY LengthsAreCounts DEF Init
<1>2. Flags
  BY <1>1, NothingReadIsTyped DEF Init, Flags
<1>3. Fades
  BY <1>1 DEF Init, Fades, FadeTypes, FadesMeet
<1> QED
  BY <1>2, <1>3, ParamInitially DEF FadesAndParams

LEMMA FadesStep == FadesAndParams /\ [Next]_vars => FadesAndParams'
<1> SUFFICES ASSUME FadesAndParams, [Next]_vars PROVE Fades' /\ Flags'
  BY ParamStep DEF FadesAndParams
<1>0. Fades /\ Flags /\ sampleRate \in Rates
  BY DEF FadesAndParams, Fades, FadeTypes
<1>1. ASSUME NEW b \in [Slots -> BOOLEAN], NEW m \in [Slots -> Mixes],
             NEW v \in [Params -> Asked], LandPreset(b, m, v)
      PROVE  Fades' /\ Flags'
  BY <1>0, <1>1, TakeOverFades, TakeOverFlags DEF LandPreset, Landed
<1>2. ASSUME NEW m \in [Slots -> Mixes], LandEdit(m)
      PROVE  Fades' /\ Flags'
  <2>1. snapshot.bypass \in [Slots -> BOOLEAN]
    BY <1>0 DEF Flags, Read
  <2> QED
    BY <1>0, <1>2, <2>1, TakeOverFades, TakeOverFlags DEF LandEdit, Landed
<1>10. CASE LoadPreset
  <2>1. Fades'
    BY <1>0, <1>10, SameFades DEF LoadPreset, liveVars
  <2>2. Flags'
    BY <1>0, <1>10, NothingReadIsTyped DEF LoadPreset, liveVars, Flags, blockVars
  <2> QED
    BY <2>1, <2>2
<1>11. CASE Snapshot
  <2>1. Fades'
    BY <1>0, <1>11, SameFades DEF Snapshot, liveVars
  <2>2. value \in [Params -> Levels]
    BY DEF FadesAndParams, ParamInv, RampTypeOK
  <2>3. Flags'
    BY <1>0, <1>11, <2>2 DEF Snapshot, liveVars, Flags, Read, blockVars
  <2> QED
    BY <2>1, <2>3
<1>12. ASSUME NEW rate \in Rates, PrepareComing(rate)
       PROVE  Fades' /\ Flags'
  BY <1>0, <1>12, SameFades, SameFlags DEF PrepareComing, comingVars
<1>3. ASSUME NEW p \in Params, NEW v \in Asked, SetParamByIndex(p, v)
      PROVE  Fades' /\ Flags'
  BY <1>0, <1>3, SameFades, SameFlags DEF SetParamByIndex, comingVars
<1>4. ASSUME NEW rate \in Rates, Prepare(rate)
      PROVE  Fades' /\ Flags'
  <2>1. Fades'
    BY <1>0, <1>4, SameFades DEF Prepare, SetSampleRate
  <2>2. Flags'
    BY <1>0, <1>4, NothingReadIsTyped DEF Prepare, Flags, blockVars
  <2> QED
    BY <2>1, <2>2
<1>5. ASSUME NEW s \in Slots, NEW b \in BOOLEAN, SetBypassByIndex(s, b)
      PROVE  Fades' /\ Flags'
  BY <1>5, SetBypassFades
<1>6. ASSUME NEW s \in Slots, NEW m \in Mixes, SetMixByIndex(s, m)
      PROVE  Fades' /\ Flags'
  <2>1. Fades'
    BY <1>0, <1>6, SameFades DEF SetMixByIndex, paramVars
  <2>2. Flags'
    BY <1>0, <1>6 DEF SetMixByIndex, Flags, blockVars, comingVars
  <2> QED
    BY <2>1, <2>2
<1>7. CASE Reset
  BY <1>7, ResetFades
<1>8. ASSUME NEW n \in 1 .. MaxBlock, Process(n)
      PROVE  Fades' /\ Flags'
  BY <1>8, ProcessFades
<1>9. CASE UNCHANGED vars
  BY <1>0, <1>9, SameFades, SameFlags DEF vars, paramVars, comingVars
<1> QED
  BY <1>1, <1>2, <1>3, <1>4, <1>5, <1>6, <1>7, <1>8, <1>9, <1>10, <1>11, <1>12
  DEF Next

\* A fade that is over has arrived and one that is not has a way to go, and it
\* heads where the flag says once the flag was acted on, through every reversal in
\* mid-fade (Chain::startFade, reset, startFadeIn and process).
THEOREM FadesArrive == Spec => []FadeInv
BY FadesInitially, FadesStep, FadesSuffice, PTL DEF Spec

\* Both together: fades and ramps end at what was last asked for (Chain, ParamStore).
THEOREM ChainKeepsWhatWasAsked == Spec => []ChainInv
BY FadesArrive, DialedValueIsKept, PTL DEF ChainInv

-----------------------------------------------------------------------------
(* What is heard *)

\* What the last block let through says where the fades were left, and a chain that
\* took over has not left dry before its first block.
HeardInv ==
  /\ restart = "swap" => \A s \in Slots : fade[s] = "dry"
  /\ restart = "none" =>
       \A s \in Slots :
         /\ heard[s] = "wet" => fade[s] = "wet" /\ blockMix[s] = "full"
         /\ heard[s] = "dry" /\ blockMix[s] # "zero" => fade[s] = "dry"

PopFree ==
  \A s \in Slots :
    blockMix'[s] = blockMix[s] /\ heard'[s] # heard[s] =>
      \/ "blend" \in {heard[s], heard'[s]}
      \/ restart = "reset"
      \/ restart = "swap" /\ heard'[s] = "dry"

LEMMA ProcessHeard ==
  ASSUME FadesAndParams, HeardInv, NEW n \in 1 .. MaxBlock, Process(n)
  PROVE  HeardInv' /\ PopFree
<1>1. /\ heard' = [s \in Slots |-> Heard(s)] /\ blockMix' = mix
      /\ fade' = [s \in Slots |-> FadeAfter(s, n)] /\ restart' = "none"
  BY DEF Process
<1>2. /\ heard \in [Slots -> {"dry", "blend", "wet"}] /\ restart \in {"none", "swap", "reset"}
      /\ mix \in [Slots -> Mixes]
  BY DEF FadesAndParams, Flags
<1>3. ASSUME NEW s \in Slots, Heard(s) = "wet"
      PROVE  fade[s] = "wet" /\ FadeAfter(s, n) = "wet" /\ mix[s] = "full"
  BY <1>3 DEF Heard, FadeAfter
<1>4. ASSUME NEW s \in Slots, Heard(s) = "dry", mix[s] # "zero"
      PROVE  fade[s] = "dry" /\ FadeAfter(s, n) = "dry"
  BY <1>4 DEF Heard, FadeAfter
<1>5. HeardInv'
  BY <1>1, <1>3, <1>4 DEF HeardInv
<1>6. ASSUME NEW s \in Slots, blockMix'[s] = blockMix[s], heard'[s] # heard[s],
             heard[s] # "blend", heard'[s] # "blend", restart # "reset"
      PROVE  restart = "swap" /\ heard'[s] = "dry"
  <2>1. mix[s] = blockMix[s] /\ Heard(s) = heard'[s]
    BY <1>1, <1>6
  <2>2. CASE heard'[s] = "wet"
    <3>1. heard[s] = "dry" /\ fade[s] = "wet" /\ blockMix[s] = "full"
      BY <1>2, <1>3, <1>6, <2>1, <2>2
    <3> QED
      BY <1>2, <1>6, <3>1 DEF HeardInv
  <2>3. CASE heard'[s] # "wet"
    <3>1. heard[s] = "wet" /\ heard'[s] = "dry"
      BY <1>1, <1>2, <1>6, <2>1, <2>3 DEF Heard
    <3>2. ASSUME restart = "none" PROVE FALSE
      <4>1. fade[s] = "wet" /\ blockMix[s] = "full"
        BY <1>6, <3>1, <3>2 DEF HeardInv
      <4>2. mix[s] = "zero"
        BY <1>4, <1>6, <2>1, <3>1, <4>1
      <4> QED
        BY <2>1, <4>1, <4>2
    <3> QED
      BY <1>2, <1>6, <3>1, <3>2
  <2> QED
    BY <2>2, <2>3
<1> QED
  BY <1>5, <1>6 DEF PopFree
LEMMA HeardInitially == Init => HeardInv
BY DEF Init, HeardInv

LEMMA TakeOverHeard ==
  ASSUME NEW b, NEW m, TakeOver(b, m)
  PROVE  HeardInv'
BY DEF TakeOver, HeardInv

LEMMA SameHeard ==
  ASSUME HeardInv, UNCHANGED <<fade, blockVars, restart>>
  PROVE  HeardInv'
BY DEF HeardInv, blockVars

LEMMA NothingHeard ==
  ASSUME UNCHANGED blockVars
  PROVE  PopFree
BY DEF PopFree, blockVars

LEMMA HeardStep ==
  ASSUME FadesAndParams, HeardInv, [Next]_vars
  PROVE  HeardInv' /\ PopFree
<1>1. ASSUME NEW b \in [Slots -> BOOLEAN], NEW m \in [Slots -> Mixes],
             NEW v \in [Params -> Asked], LandPreset(b, m, v)
      PROVE  HeardInv' /\ PopFree
  BY <1>1, TakeOverHeard, NothingHeard DEF LandPreset, Landed
<1>2. ASSUME NEW m \in [Slots -> Mixes], LandEdit(m)
      PROVE  HeardInv' /\ PopFree
  BY <1>2, TakeOverHeard, NothingHeard DEF LandEdit, Landed
<1>10. CASE LoadPreset
  BY <1>10, SameHeard, NothingHeard DEF LoadPreset, liveVars, fadeVars
<1>11. CASE Snapshot
  BY <1>11, SameHeard, NothingHeard DEF Snapshot, liveVars, fadeVars
<1>12. ASSUME NEW rate \in Rates, PrepareComing(rate)
       PROVE  HeardInv' /\ PopFree
  BY <1>12, SameHeard, NothingHeard DEF PrepareComing, fadeVars
<1>3. ASSUME NEW p \in Params, NEW v \in Asked, SetParamByIndex(p, v)
      PROVE  HeardInv' /\ PopFree
  BY <1>3, SameHeard, NothingHeard DEF SetParamByIndex, fadeVars
<1>4. ASSUME NEW rate \in Rates, Prepare(rate)
      PROVE  HeardInv' /\ PopFree
  BY <1>4, SameHeard, NothingHeard DEF Prepare, fadeVars
<1>5. ASSUME NEW s \in Slots, NEW b \in BOOLEAN, SetBypassByIndex(s, b)
      PROVE  HeardInv' /\ PopFree
  BY <1>5, SameHeard, NothingHeard DEF SetBypassByIndex, StartFade
<1>6. ASSUME NEW s \in Slots, NEW m \in Mixes, SetMixByIndex(s, m)
      PROVE  HeardInv' /\ PopFree
  BY <1>6, SameHeard, NothingHeard DEF SetMixByIndex, fadeVars
<1>7. CASE Reset
  <2>1. restart' = "reset" /\ UNCHANGED blockVars
    BY <1>7 DEF Reset, blockVars
  <2> QED
    BY <2>1, NothingHeard DEF HeardInv
<1>8. ASSUME NEW n \in 1 .. MaxBlock, Process(n)
      PROVE  HeardInv' /\ PopFree
  BY <1>8, ProcessHeard
<1>9. CASE UNCHANGED vars
  BY <1>9, SameHeard, NothingHeard DEF vars, fadeVars
<1> QED
  BY <1>1, <1>2, <1>3, <1>4, <1>5, <1>6, <1>7, <1>8, <1>9, <1>10, <1>11, <1>12
  DEF Next

\* Between two blocks with the same mix a module never jumps from not heard at all to
\* heard alone or back, and a chain that takes over starts from dry, whatever was
\* toggled, edited or loaded and however far a fade had come (Chain::process, startFade).
THEOREM NeverPops == Spec => NoPop
<1>1. Init => FadesAndParams /\ HeardInv
  BY FadesInitially, HeardInitially
<1>2. (FadesAndParams /\ HeardInv) /\ [Next]_vars => (FadesAndParams /\ HeardInv)'
  BY FadesStep, HeardStep
<1>3. (FadesAndParams /\ HeardInv) /\ [Next]_vars => [PopFree]_vars
  BY HeardStep
<1> QED
  BY <1>1, <1>2, <1>3, PTL DEF Spec, NoPop, PopFree
===============================================================================
