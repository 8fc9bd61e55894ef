---------------------------- MODULE DelayEffects ----------------------------
(***************************************************************************)
(* The modules of modules/dsp that remember sound: bbd_delay.h with its    *)
(* users (tape_delay, dm2_delay, chorus, flanger, spring_reverb) and       *)
(* hall_reverb.  A cell of a delay line has the age of what was written to *)
(* it and of which sound it is made: from before the last reset or after   *)
(* it.  Gains, smoothing, filters and waveshapers are left out; times are  *)
(* in 1/100 ms.                                                            *)
(***************************************************************************)
EXTENDS Integers, Sequences

CONSTANTS
  Effects,     \* the modules, of those in Lines
  SampleRates  \* samples per second

DelayAssumption ==
  /\ Effects \subseteq
       {"dly.tape", "dly.dm2", "mod.chorus", "mod.flanger", "rvb.spring", "rvb.hall"}
  /\ SampleRates \subseteq Nat \ {0}

VARIABLES
  effect, rate, prepared,
  lines,       \* the delay lines: cells, write index and size
  loop,        \* the sound in wetPrev_, filters and all-passes behind each line
  played,      \* samples since the last reset, until all lines are full
  heard        \* of the last sample: the ages asked for and the cells read

vars == <<effect, rate, prepared, lines, loop, played, heard>>

(***************************************************************************)
(* Each line's shortest and longest delay and the time it is prepared for. *)
(* The lines of the hall are given in samples at 44.1 kHz.                 *)
(***************************************************************************)
Line(shortest, longest, room) == [lo |-> shortest, hi |-> longest, room |-> room]
TapeLines == <<Line(6000 - 15, 66000 + 165, 66200)>>   \* with wow and flutter
Dm2Lines == <<Line(2000, 30000, 30200)>>
ChorusLines == <<Line(2000 - 400, 2000 + 400, 3000)>>
FlangerLines == <<Line(0, 100 + 200, 700)>>            \* max(ms, 0)
SpringLines == <<Line(2600, 2600, 2800), Line(3100, 3100, 3300), Line(3600, 3600, 3800)>>
Comb == <<1116, 1188, 1277, 1356, 1422, 1491, 1557, 1617>>
Allpass == <<556, 441, 341, 225>>
Lines(e) ==
  CASE e = "dly.tape" -> TapeLines [] e = "dly.dm2" -> Dm2Lines
    [] e = "mod.chorus" -> ChorusLines [] e = "mod.flanger" -> FlangerLines
    [] e = "rvb.spring" -> SpringLines [] e = "rvb.hall" -> Comb \o Allpass
Hall(e) == e = "rvb.hall"

Size(e, r, line) == IF Hall(e) THEN (line * r) \div 44100 + 1
                    ELSE (line.room * r) \div 100000 + 4

Empty == [age |-> -1, sound |-> {}]
Cleared(size) == [cells |-> [i \in 0 .. size - 1 |-> Empty], idx |-> 0, size |-> size]
LinesOf(e, r) ==
  [k \in DOMAIN Lines(e) |-> Cleared(Size(e, r, Lines(e)[k]))]
Quiet(e) == [k \in DOMAIN Lines(e) |-> {}]

-----------------------------------------------------------------------------
(***************************************************************************)
(* One sample.  A delay lies between two samples (part) or on one.         *)
(***************************************************************************)
Places(line, r) ==
  {p \in [whole : 0 .. (line.hi * r) \div 100000, part : BOOLEAN] :
     IF p.part THEN p.whole * 100000 < line.hi * r /\ (p.whole + 1) * 100000 > line.lo * r
     ELSE line.lo * r <= p.whole * 100000}

Older(cells) ==
  [i \in DOMAIN cells |-> IF cells[i].age = -1 THEN Empty ELSE [cells[i] EXCEPT !.age = @ + 1]]
Written(line, sound) ==
  [cells |-> [Older(line.cells) EXCEPT ![line.idx] = [age |-> 0, sound |-> sound]],
   idx |-> (line.idx + 1) % line.size,
   size |-> line.size]
SoundOf(reads) == UNION {read.cell.sound : read \in reads}

\* FractionalDelay::process: write, then read one or two cells.
Tap(line, position) ==
  LET at(age) == [asked |-> age, cell |-> line.cells[(line.idx - 1 - age) % line.size]]
  IN {at(position.whole)} \cup IF position.part THEN {at(position.whole + 1)} ELSE {}

\* Each line is given the input, and what came out of it where that is fed back.
DelaySample(fedBack) ==
  \E positions \in [DOMAIN lines -> UNION {Places(Lines(effect)[k], rate) : k \in DOMAIN lines}] :
    /\ \A k \in DOMAIN lines : positions[k] \in Places(Lines(effect)[k], rate)
    /\ lines' = [k \in DOMAIN lines |->
         Written(lines[k], {"now"} \cup IF fedBack THEN loop[k] ELSE {})]
    /\ heard' = UNION {Tap(lines'[k], positions[k]) : k \in DOMAIN lines}
    /\ loop' = [k \in DOMAIN lines |->
         IF fedBack THEN loop[k] \cup SoundOf(Tap(lines'[k], positions[k])) ELSE {}]
TapeSample    == effect = "dly.tape" /\ DelaySample(TRUE)
Dm2Sample     == effect = "dly.dm2" /\ DelaySample(TRUE)
ChorusSample  == effect = "mod.chorus" /\ DelaySample(FALSE)
FlangerSample == effect = "mod.flanger" /\ DelaySample(TRUE)
SpringSample  == effect = "rvb.spring" /\ DelaySample(TRUE)

\* The eight combs work on the input, the four all-passes on what came out so far.
Oldest(line) == [asked |-> line.size, cell |-> Older(line.cells)[line.idx]]
HallSample ==
  LET through(k) ==
        IF k <= Len(Comb) THEN {"now"} \cup loop[k] \cup lines[k].cells[lines[k].idx].sound
        ELSE UNION {lines[j].cells[lines[j].idx].sound : j \in 1 .. k}
  IN /\ Hall(effect)
     /\ lines' = [k \in DOMAIN lines |-> Written(lines[k], through(k))]
     /\ heard' = {Oldest(lines[k]) : k \in DOMAIN lines}
     /\ loop' = [k \in DOMAIN lines |->
          IF k <= Len(Comb) THEN loop[k] \cup lines[k].cells[lines[k].idx].sound ELSE {}]

\* process with a block of one sample; a longer one is as many of these.  A module
\* that is not prepared passes its input on.
Process ==
  /\ IF ~prepared THEN heard' = {} /\ UNCHANGED <<lines, loop>>
     ELSE \/ TapeSample \/ Dm2Sample \/ ChorusSample \/ FlangerSample \/ SpringSample
          \/ HallSample
  /\ played' = IF ~prepared THEN 0
               ELSE IF \E k \in DOMAIN lines : played <= lines[k].size THEN played + 1
               ELSE played
  /\ UNCHANGED <<effect, rate, prepared>>

-----------------------------------------------------------------------------
Init ==
  /\ effect \in Effects /\ rate \in SampleRates
  /\ prepared = FALSE /\ lines = LinesOf(effect, rate) /\ loop = Quiet(effect)
  /\ played = 0 /\ heard = {}

\* What reset leaves is sound from before it.
Past(sound) == IF sound = {} THEN {} ELSE {"before"}
ResetKeepsLoop ==        \* deviation: forgets the filters and the fed back sample
  /\ lines' = [k \in DOMAIN lines |-> Cleared(lines[k].size)]
  /\ loop' = [k \in DOMAIN lines |-> Past(loop[k])]
  /\ played' = 0 /\ heard' = {}
  /\ UNCHANGED <<effect, rate, prepared>>
Reset ==
  /\ lines' = [k \in DOMAIN lines |-> Cleared(lines[k].size)]
  /\ loop' = [k \in DOMAIN lines |-> {}]
  /\ played' = 0 /\ heard' = {}
  /\ UNCHANGED <<effect, rate, prepared>>

\* prepare and setSampleRate, which end with a reset.
Prepare(r) ==
  /\ rate' = r /\ prepared' = TRUE
  /\ lines' = LinesOf(effect, r) /\ loop' = Quiet(effect)
  /\ played' = 0 /\ heard' = {}
  /\ UNCHANGED effect

Next == Process \/ Reset \/ (\E r \in SampleRates : Prepare(r))

Spec == Init /\ [][Next]_vars

-----------------------------------------------------------------------------
(***************************************************************************)
(* Properties                                                              *)
(***************************************************************************)
\* However the delay is swept and wherever the index wraps, what is heard was
\* written exactly as many samples ago as the delay says, and is silent where that
\* was before the last reset; a read never meets the cell that is written next
\* (FractionalDelay::prepare and process, the combs and all-passes of the hall).
TapsAreExact ==
  \A read \in heard :
    IF read.asked < played THEN read.cell.age = read.asked ELSE read.cell = Empty

\* No sound from before a reset is left anywhere, also not in a filter or on its
\* way back into the line (the reset of each module).
ResetForgets ==
  \A k \in DOMAIN lines :
    "before" \notin loop[k] \cup UNION {lines[k].cells[i].sound : i \in DOMAIN lines[k].cells}
=============================================================================
