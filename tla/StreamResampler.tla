--------------------------- MODULE StreamResampler ---------------------------
(***************************************************************************)
(* modules/ir/resample_stream.h: which samples the streaming resampler     *)
(* holds and which it gives.  Sample k lies at k * from / to of its input  *)
(* and needs the Zeros samples before and after that place.                *)
(***************************************************************************)
EXTENDS Integers, Sequences, SequencesExt

CONSTANT Zeros     \* zeros_

CeilDiv(a, b) == (a + b - 1) \div b

\* prepare and reset.  hist_ holds the last histLen of the inTotal samples seen.
Resampler(from, to, maxIn) ==
  [from |-> from, to |-> to, maxIn |-> maxIn, histLen |-> 0, inTotal |-> 0, outCount |-> 0]
Cleared(r) == Resampler(r.from, r.to, r.maxIn)

OutCapacity(r, n) ==
  LET produced == ((r.inTotal + n + Zeros) * r.to) \div r.from + 1
  IN IF produced + 1 > n + 1 THEN produced + 1 ELSE n + 1

KeptHalf(r, n) ==       \* deviation: keeps one side of the window
  IF r.histLen + n > 2 * Zeros + r.maxIn THEN Zeros ELSE r.histLen
Kept(r, n) ==
  IF r.histLen + n > 2 * Zeros + r.maxIn THEN 2 * Zeros ELSE r.histLen

\* produce goes on until a sample's window has not arrived yet.
Due(r) ==
  IF r.inTotal <= Zeros THEN 0 ELSE CeilDiv((r.inTotal - Zeros) * r.to, r.from)

ProcessOne(r, n) ==
  LET fed == [r EXCEPT !.histLen = Kept(r, n) + n, !.inTotal = @ + n]
  IN [fed EXCEPT !.outCount = Due(fed)]

\* process splits what is longer than maxIn.
Split(r, n) ==
  LET whole == n \div r.maxIn
      rest  == n % r.maxIn
  IN [i \in 1 .. whole |-> r.maxIn] \o (IF rest > 0 THEN <<rest>> ELSE << >>)
Process(r, n) ==
  CASE n = 0 -> r
    [] n \in 1 .. r.maxIn -> ProcessOne(r, n)
    [] OTHER -> FoldLeft(ProcessOne, r, Split(r, n))
Produced(r, n) == Process(r, n).outCount - r.outCount

\* sampleAt: the window of sample k, as far as the stream has begun, is in hist_.
WindowHeld(r, k) ==
  LET i0 == (k * r.from) \div r.to
      first == IF i0 - Zeros + 1 < 0 THEN 0 ELSE i0 - Zeros + 1
  IN first >= r.inTotal - r.histLen /\ i0 + Zeros < r.inTotal
=============================================================================
