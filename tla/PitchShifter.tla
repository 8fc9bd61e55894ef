---------------------------- MODULE PitchShifter ----------------------------
(***************************************************************************)
(* modules/dsp/pitch_shifter.cpp: a ring buffer that is read at another    *)
(* speed than it is written, and a cross-faded jump of the read position   *)
(* when it comes too near to the write position or too far behind.         *)
(* Positions and ratios are in parts of a sample, as fine as Unit says, and*)
(* the smoothed ratio may take any value it can have at each sample.       *)
(***************************************************************************)
EXTENDS Integers

CONSTANTS
  Unit,      \* parts of a sample
  C,         \* c_: samples of the cross-fade, 20 ms
  Ratios     \* ratios in parts, from an octave down (Unit / 2) to an octave up

VARIABLES
  write, read,     \* writePtr_ in samples, readPos_ in parts
  left, offset,    \* crossfadeLeft_ and targetOffset_, in samples
  ratio,           \* the ratio of the last sample
  lag,             \* how far the read position really is behind, in parts
  hurried          \* whether there was no room for a fade at the ratio

vars == <<write, read, left, offset, ratio, lag, hurried>>

maxDelay == 5 * C                  \* maxDelay_: 100 ms
n == maxDelay + C + 16             \* n_

PitchAssumption ==
  /\ Unit \in Nat \ {0} /\ C \in Nat /\ C >= 2
  /\ Ratios \subseteq {r \in Nat : Unit <= 2 * r /\ r <= 2 * Unit}

Wrapped(pos) ==
  IF pos >= Unit * n THEN pos - Unit * n ELSE IF pos < 0 THEN pos + Unit * n ELSE pos

Init ==
  /\ write = 0 /\ read = Unit * (maxDelay + 16) /\ left = 0 /\ offset = 0
  /\ ratio \in Ratios /\ lag = Unit * C /\ hurried = FALSE

\* The distance process computes after it has written.
Dist(w) == LET d == Unit * w - read IN IF d < 0 THEN d + Unit * n ELSE d

\* How near and how far a fade may begin, in parts.
NearestLate(r) == 2 * Unit                \* deviation: no room for the fade itself
Nearest(r) == 2 * Unit + C * (r - Unit)
Farthest(r) == Unit * (maxDelay - 4) - C * (Unit - r)

\* At an octave up, or a hair below, a jump does not make up for the way of its own
\* fade and the sample before it: each fade begins a sample nearer than the last.
Outruns(r) == (C + 1) * (r - Unit) > C * Unit

\* The ratio rises in a fade, or when less than a fade's way at it is left; or the
\* fades at an octave up have left less than the way of the next.
Hurries(r, dist) ==
  \/ r > ratio /\ (left > 0 \/ dist < Nearest(r))
  \/ Outruns(ratio) /\ left = 0 /\ dist < Unit + C * (r - Unit)

\* One sample of process; a block is as many of these.
Process(r) ==
  LET w == (write + 1) % n
      dist == Dist(w)
      ends == left = 1
      back == left = 0 /\ r >= Unit /\ dist < Nearest(r)
      on   == left = 0 /\ r < Unit /\ dist > Farthest(r)
      jump == IF ends THEN Unit * offset ELSE 0
  IN /\ write' = w /\ ratio' = r
     /\ left' = IF left > 0 THEN left - 1 ELSE IF back \/ on THEN C ELSE 0
     /\ offset' = IF back THEN -C ELSE IF on THEN C ELSE offset
     /\ read' = Wrapped(read + r + jump)
     /\ lag' = lag + Unit - r - jump
     /\ hurried' = (hurried \/ Hurries(r, dist))

\* prepare and reset.
Reset ==
  /\ write' = 0 /\ read' = Unit * (maxDelay + 16) /\ left' = 0 /\ offset' = 0
  /\ lag' = Unit * C /\ hurried' = FALSE
  /\ UNCHANGED ratio

\* Where there was no room the taps may be overtaken and nothing is claimed any more:
\* the model stops there.
Next == (~hurried /\ \E r \in Ratios : Process(r)) \/ Reset

Spec == Init /\ [][Next]_vars

-----------------------------------------------------------------------------
(***************************************************************************)
(* Properties                                                              *)
(***************************************************************************)
\* Whatever the ratio does, both taps stay between the write position and the oldest
\* sample: the wrapped distance is the true one, no tap overtakes the write position,
\* in the middle of a fade or where it jumps to, and none is overtaken (process).
\* Until a fade has no room: because the ratio rose in it or just before, or because
\* it was held at an octave up, which takes the room away a sample each fade.
TapsStayBehind ==
  ~hurried =>
    /\ lag % (Unit * n) = (Unit * write - read) % (Unit * n)
    /\ 0 <= lag /\ lag <= Unit * (n - 2)
    /\ left > 0 => 0 <= lag - Unit * offset /\ lag - Unit * offset <= Unit * (n - 2)
=============================================================================
