------------------------------ MODULE MCTuner ------------------------------
(* Tuner with a note in range and one below it, whose autocorrelation is   *)
(* highest at the shortest lag and falls from there.                       *)
EXTENDS Tuner
Levels == MinLag - 1 .. MaxLag + 1
InTune == [k \in Levels |-> IF k = 3 THEN 5 ELSE IF k \in {2, 4} THEN 4 ELSE 1]
TooLow == [k \in Levels |-> IF k < MinLag THEN 5 ELSE IF k = MinLag THEN 3 ELSE 1]
MCFrames == {InTune, TooLow}
============================================================================
