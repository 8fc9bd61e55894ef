------------------------------ MODULE ParamStore ------------------------------
(***************************************************************************)
(* core/audio/param_store.cpp: parameters that move to what was set last   *)
(* over a ramp of kMaxSmoothingMs.  A value is one of a few levels; while  *)
(* a ramp runs it is anywhere between where it was and the target, which   *)
(* stands for the step computed in floating point.                         *)
(***************************************************************************)
EXTENDS Integers

CONSTANTS
  Params,       \* the parameters of a chain's slots
  Top,          \* a specification's max; its min is 0
  Rates,        \* sample rates, in samples per millisecond
  SmoothingMs   \* kMaxSmoothingMs

ASSUME RampAssumption ==
  Top \in Nat /\ Rates \subseteq Nat \ {0} /\ Rates # {} /\ SmoothingMs \in Nat \ {0}

VARIABLES value, target, remaining, sampleRate

rampVars == <<value, target, remaining>>

Levels == 0 .. Top
Asked == -1 .. Top + 1   \* what may be asked for: some of it is out of range

ClampTo(v) == IF v < 0 THEN 0 ELSE IF v > Top THEN Top ELSE v
RampSamples(rate) == rate * SmoothingMs

\* The constructor and setImmediate: at rest.
AtRest(v) ==
  /\ value' = [p \in Params |-> ClampTo(v[p])]
  /\ target' = value'
  /\ remaining' = [p \in Params |-> 0]

\* startRamp
RampLength(v, to, rate) == IF v = to THEN 0 ELSE RampSamples(rate)

SetByIndex(p, v) ==
  /\ target' = [target EXCEPT ![p] = ClampTo(v)]
  /\ remaining' = [remaining EXCEPT ![p] = RampLength(value[p], ClampTo(v), sampleRate)]
  /\ UNCHANGED value

SetSampleRate(rate) ==
  /\ sampleRate' = rate
  /\ remaining' = [p \in Params |-> RampLength(value[p], target[p], rate)]
  /\ UNCHANGED <<value, target>>

Between(v, to) == {x \in Levels : (v <= x /\ x <= to) \/ (to <= x /\ x <= v)}

\* Deviation: the block in which a ramp would end leaves it as it is.
AdvanceShort(n) ==
  /\ remaining' = [p \in Params |-> IF remaining[p] > n THEN remaining[p] - n ELSE remaining[p]]
  /\ value' \in [Params -> Levels]
  /\ \A p \in Params :
       value'[p] \in IF remaining[p] > n THEN Between(value[p], target[p]) ELSE {value[p]}
  /\ UNCHANGED target

Advance(n) ==
  /\ remaining' = [p \in Params |-> IF remaining[p] > n THEN remaining[p] - n ELSE 0]
  /\ value' \in [Params -> Levels]
  /\ \A p \in Params :
       value'[p] \in CASE remaining[p] = 0 -> {value[p]}
                       [] remaining[p] \in 1 .. n -> {target[p]}
                       [] OTHER -> Between(value[p], target[p])
  /\ UNCHANGED target

RampTypeOK ==
  /\ value \in [Params -> Levels] /\ target \in [Params -> Levels]
  /\ sampleRate \in Rates
  /\ remaining \in [Params -> Nat]
  /\ \A p \in Params : \E rate \in Rates : remaining[p] <= RampSamples(rate)
===============================================================================
