-------------------------------- MODULE Tuner --------------------------------
(***************************************************************************)
(* dsp/tuner.cpp: from the autocorrelation of the last window to the       *)
(* frequency shown and whether it is called stable.  An autocorrelation is *)
(* a function from lags to levels, of which Voiced and more pass the       *)
(* threshold; frequencies are integers.  The interpolation between lags    *)
(* and the note's name and cents are left out.                             *)
(***************************************************************************)
EXTENDS Integers

CONSTANTS
  Window, DetectEvery,     \* kWindow and detectEvery_, in samples
  MinLag, MaxLag,          \* minLag_ and maxLag_
  Rate,                    \* sampleRate_, times the unit of a frequency
  Voiced, Tie,             \* kAcfThreshold; 1e-6, in the unit of a level
  Frames,                  \* autocorrelations over MinLag - 1 .. MaxLag + 1
  Silent,                  \* a window without energy
  BlockSizes,
  Settles,                 \* detections a note may take to become stable
  MaxChanges               \* bound: how often the sound changes after prepare

Lags == MinLag .. MaxLag
Lowest == Rate \div MaxLag
Highest == Rate \div MinLag

\* How far off a note's frequency may still be shown after so many detections.
Far[k \in Nat] == IF k = 0 THEN Highest - Lowest ELSE (4 * Far[k - 1]) \div 10 + 1

\* The autocorrelations are any.  Frequencies are fine enough to tell one percent, and a
\* note is given the time to come within a sixtieth and be called stable.
TunerAssumption ==
  /\ MinLag \in Nat \ {0} /\ MaxLag \in Nat /\ MinLag <= MaxLag /\ Rate \in Nat
  /\ Voiced \in Int /\ Tie \in Nat /\ Frames \subseteq [MinLag - 1 .. MaxLag + 1 -> Int]
  /\ Lowest >= 1000
  /\ Settles \in Nat /\ Settles > 3 /\ 60 * Far[Settles - 3] + 100 < Lowest

VARIABLES
  filled, since,           \* filled_ and samplesSinceDetect_
  detected, freq,          \* detected_, freq_
  last, count, stable,     \* lastFreq_, stableCount_, stable_
  frame,                   \* the sound in the window
  held, changes            \* detections since the sound changed, and its changes

vars == <<filled, since, detected, freq, last, count, stable, frame, held, changes>>
shown == <<detected, freq, last, count, stable>>

Voices(acf) == \E k \in DOMAIN acf : acf[k] >= Voiced
FirstOf(lags) == CHOOSE k \in lags : \A j \in lags : k <= j
Peaks(acf) == {k \in Lags : acf[k] >= Voiced /\ acf[k] >= acf[k - 1] /\ acf[k] >= acf[k + 1]}
NearTheTop(acf) == {k \in Lags : \A j \in DOMAIN acf : acf[k] > acf[j] - Tie}

\* The peak of the smallest lag, else the first lag about as high as the highest, which
\* may be a neighbour that is no candidate itself: then there is none.
Candidates(acf) == IF Peaks(acf) # {} THEN Peaks(acf) ELSE NearTheTop(acf)
HighestPeak(acf) ==    \* deviation: takes the highest peak, not the first
  FirstOf({k \in Candidates(acf) : \A j \in Candidates(acf) : acf[j] <= acf[k]})
BestLag(acf) == FirstOf(Candidates(acf))

\* sampleRate_ / lag.  If there is no lag, bestLag is still -1 and its neighbours are
\* read before the buffer: whatever is there moves the lag by nothing or by a half, or
\* makes it no number, which like these is never above zero.
Frequencies(acf) ==
  IF Candidates(acf) # {} THEN {Rate \div BestLag(acf)} ELSE {-Rate, -2 * Rate}

NothingDetected ==
  /\ detected' = FALSE /\ freq' = 0 /\ count' = 0 /\ stable' = FALSE
  /\ UNCHANGED last

Mixed(f) == IF last > 0 THEN (6 * f + 4 * last) \div 10 ELSE f
Near(f) == last > 0 /\ 100 * (IF f > last THEN f - last ELSE last - f) < last

Show(frequency) ==
  LET f == Mixed(frequency)
      c == IF Near(f) THEN (IF count < 10 THEN count + 1 ELSE 10) ELSE 0
  IN /\ detected' = TRUE /\ freq' = f /\ last' = f
     /\ count' = c /\ stable' = (c >= 3)
Sounds == frame # Silent /\ Voices(frame)
Detect ==
  IF Sounds THEN \E f \in Frequencies(frame) : Show(f) ELSE NothingDetected

Init ==
  /\ filled = 0 /\ since = 0 /\ detected = FALSE /\ freq = 0 /\ last = 0
  /\ count = 0 /\ stable = FALSE /\ frame \in Frames \cup {Silent}
  /\ held = 0 /\ changes = 0

\* prepare, which does not begin a new count of samples.
Prepare ==
  /\ filled' = 0 /\ detected' = FALSE /\ freq' = 0 /\ last' = 0
  /\ count' = 0 /\ stable' = FALSE /\ held' = 0
  /\ UNCHANGED <<since, frame, changes>>

\* A block goes into the ring buffer; a full one is looked at from time to time.
Process(n) ==
  LET room == IF filled + n < Window THEN filled + n ELSE Window
      due  == since + n >= DetectEvery /\ room = Window
  IN /\ filled' = room
     /\ since' = IF due THEN 0 ELSE IF since < DetectEvery THEN since + n ELSE since
     /\ IF due
        THEN Detect /\ held' = IF held < Settles THEN held + 1 ELSE held
        ELSE UNCHANGED <<shown, held>>
     /\ UNCHANGED <<frame, changes>>

\* The player: what the window holds changes; with two sounds in it, it is a third.
Change(acf) ==
  /\ acf # frame /\ changes < MaxChanges
  /\ frame' = acf /\ held' = 0 /\ changes' = changes + 1
  /\ UNCHANGED <<filled, since, shown>>

Next ==
  \/ Prepare
  \/ \E n \in BlockSizes : Process(n)
  \/ \E acf \in Frames \cup {Silent} : Change(acf)

Spec == Init /\ [][Next]_vars

-----------------------------------------------------------------------------
(***************************************************************************)
(* Properties                                                              *)
(***************************************************************************)
InRange == Candidates(frame) # {}
Period == FirstOf(Candidates(frame))
Within(f, g, percent) == 100 * (IF f > g THEN f - g ELSE g - f) <= percent * g

\* The tuner is right in the end: once a note with a lag in range has been held for
\* Settles detections, whatever was played before it and whatever its harmonics, it is
\* shown, stable and within one percent; and whatever is shown as stable is within one
\* percent of the note that was in the window, never still that of the note before, and
\* never the frequency of a sound for which no lag was found (detect).
TunerInv ==
  /\ held >= Settles /\ Sounds /\ InRange => stable
  /\ stable /\ held > 0 => Sounds /\ InRange /\ detected /\ Within(freq, Rate \div Period, 1)
  /\ held > 0 /\ ~Sounds => ~detected /\ freq = 0

\* "fall back to the first lag that reaches the global max" (tuner.cpp:121): what is
\* detected has a lag, and so a frequency.
FallsBackToALag == detected => freq > 0
=============================================================================
