-------------------------------- MODULE CabIr --------------------------------
(***************************************************************************)
(* modules/ir/cab_ir.cpp and partitioned_conv.h: a cabinet's impulse       *)
(* response, convolved sample by sample if it is short and in partitions   *)
(* if it is long.  A value is the bag of the products it is the sum of:    *)
(* <<k, j>> is tap k times input sample j, counted from the last reset.    *)
(* Gain, tone filters and what the load path does to the taps are left out;*)
(* an FFT multiplies without error.                                        *)
(***************************************************************************)
EXTENDS WavFile, Bags

CONSTANTS
  Block,          \* block_, 1024 samples
  DirectLimit,    \* kDirectLimit
  MaxIrSamples,   \* kMaxIrSamples
  Recordings,     \* chunk lists of the files there are
  Cuts,           \* how many bytes a file may lack
  EngineRates, MaxBlock,
  MaxInput        \* bound: samples played since the last reset

CabAssumption ==
  /\ Block \in Nat \ {0} /\ MaxIrSamples \in Nat /\ MaxBlock \in Nat /\ MaxInput \in Nat
  /\ EngineRates \subseteq Nat \ {0} /\ Cuts \subseteq Nat
  /\ \A chunks \in Recordings :
       /\ chunks \in Seq({chunks[i] : i \in DOMAIN chunks})
       /\ \A i \in DOMAIN chunks :
            /\ chunks[i].size \in Nat
            /\ chunks[i].format \in [code : Nat, channels : Nat, rate : Nat, bits : Nat]

VARIABLES
  asset,    \* rawIr_ (its length), rawRate_; a file just tried and the answer
  cab,      \* prepared_, the number of taps, usePartitioned_, maxBlock_
  conv,     \* the convolver: partitioned_, or buf_ and bufPos_
  heard,    \* samples since the last reset
  out       \* what the last block gave

vars == <<asset, cab, conv, heard, out>>

Silence == -1
Product(k, j) == IF j = Silence THEN EmptyBag ELSE SetToBag({<<k, j>>})
Products(pairs) == SetToBag({pair \in pairs : pair[2] # Silence})

(***************************************************************************)
(* The two convolvers.                                                     *)
(***************************************************************************)
Direct(taps) == [buf |-> [i \in 0 .. taps - 1 |-> Silence], pos |-> 0]
Parts(taps) == (taps + Block - 1) \div Block
Ring(taps) == (Parts(taps) + 2) * Block
Partitioned(taps) ==
  [seg |-> [i \in 0 .. 2 * Block - 1 |-> Silence], inCount |-> 0, blockIndex |-> 0,
   ring |-> [i \in 0 .. Ring(taps) - 1 |-> EmptyBag],
   segOut |-> [i \in 0 .. Block - 1 |-> EmptyBag], segPos |-> Block]

\* A step takes a sample and gives one.
DirectStep(taps, d, x) ==
  LET buf == [d.buf EXCEPT ![d.pos] = x]
      pos == (d.pos + 1) % taps
      at(k) == (pos - 1 - k) % taps      \* readPos, wrapped
  IN [conv |-> [buf |-> buf, pos |-> pos],
      out |-> Products({<<k, buf[at(k)]>> : k \in 0 .. taps - 1})]

\* The half of a partition's product that does not wrap.
Valid(taps, seg, p, m) ==
  Products({<<p * Block + i, seg[m + Block - i]>> :
              i \in {i \in 0 .. Block - 1 : p * Block + i < taps}})

\* Partition p is added p blocks behind the block's place, no two at one place; then
\* the block's segment is given and cleared.
Accumulated(taps, c) ==
  [q \in DOMAIN c.ring |->
     LET behind == (q - c.blockIndex * Block) % Ring(taps)
         p == behind \div Block
     IN IF p < Parts(taps) THEN c.ring[q] (+) Valid(taps, c.seg, p, behind % Block)
        ELSE c.ring[q]]
Slid(seg) == [i \in DOMAIN seg |-> IF i < Block THEN seg[i + Block] ELSE seg[i]]
ProcessBlock(taps, c) ==
  LET ring == Accumulated(taps, c)
      place(m) == (c.blockIndex * Block + m) % Ring(taps)
  IN [c EXCEPT !.segOut = [m \in 0 .. Block - 1 |-> ring[place(m)]],
               !.ring = [q \in DOMAIN ring |->
                           IF \E m \in 0 .. Block - 1 : place(m) = q THEN EmptyBag ELSE ring[q]],
               !.segPos = 0, !.seg = Slid(c.seg), !.inCount = 0, !.blockIndex = @ + 1]
PartitionedStep(taps, c, x) ==
  LET fed  == [c EXCEPT !.seg[Block + c.inCount] = x, !.inCount = @ + 1]
      done == IF fed.inCount = Block THEN ProcessBlock(taps, fed) ELSE fed
  IN IF done.segPos < Block
     THEN [conv |-> [done EXCEPT !.segPos = @ + 1], out |-> done.segOut[done.segPos]]
     ELSE [conv |-> done, out |-> EmptyBag]

Answered == [asset EXCEPT !.tried = << >>, !.ok = FALSE]

-----------------------------------------------------------------------------
Init ==
  /\ asset = [len |-> 0, rate |-> 0, tried |-> << >>, ok |-> FALSE]
  /\ cab = [prepared |-> FALSE, taps |-> 1, partitioned |-> FALSE, maxBlock |-> MaxBlock]
  /\ conv = Direct(1) /\ heard = 0 /\ out = << >>

\* A recording that cannot be read, or is too long, leaves what was loaded before.
LoadAsset(chunks, cut) ==
  LET wav == ParseWav(File(chunks, cut))
      ok  == wav.ok /\ wav.frames \in 1 .. MaxIrSamples
  IN /\ asset' = [len |-> IF ok THEN wav.frames ELSE asset.len,
                  rate |-> IF ok THEN wav.rate ELSE asset.rate,
                  tried |-> <<chunks, cut>>, ok |-> ok]
     /\ UNCHANGED <<cab, conv, heard, out>>

\* resampleSinc: the number of taps at the engine's rate; one if there is no asset.
Resampled(len, from, to) ==
  IF len = 0 THEN 1 ELSE IF from = to THEN len ELSE (len * to) \div from + 1
Cleared(taps, partitioned) == IF partitioned THEN Partitioned(taps) ELSE Direct(taps)

Prepare(rate, maxBlock) ==
  LET taps == Resampled(asset.len, asset.rate, rate)
  IN /\ cab' = [prepared |-> TRUE, taps |-> taps, partitioned |-> taps > DirectLimit,
                maxBlock |-> maxBlock]
     /\ conv' = Cleared(taps, taps > DirectLimit)
     /\ heard' = 0 /\ out' = << >> /\ asset' = Answered

\* The samples of a block, one after the other.
Run(n) ==
  LET after[i \in 0 .. n] ==
        IF i = 0 THEN [conv |-> conv, out |-> EmptyBag]
        ELSE IF ~cab.prepared THEN [conv |-> conv, out |-> Product(0, heard + i - 1)]
        ELSE IF cab.partitioned
             THEN PartitionedStep(cab.taps, after[i - 1].conv, heard + i - 1)
        ELSE DirectStep(cab.taps, after[i - 1].conv, heard + i - 1)
  IN after
Process(n) ==
  /\ n <= cab.maxBlock /\ heard + n <= MaxInput
  /\ conv' = Run(n)[n].conv
  /\ out' = [i \in 1 .. n |-> Run(n)[i].out]
  /\ heard' = heard + n /\ asset' = Answered
  /\ UNCHANGED cab

Reset ==
  /\ conv' = Cleared(cab.taps, cab.partitioned)
  /\ heard' = 0 /\ out' = << >> /\ asset' = Answered
  /\ UNCHANGED cab

Next ==
  \/ \E chunks \in Recordings, cut \in Cuts : LoadAsset(chunks, cut)
  \/ \E rate \in EngineRates, n \in 1 .. MaxBlock : Prepare(rate, n)
  \/ \E n \in 1 .. MaxBlock : Process(n)
  \/ Reset

Spec == Init /\ [][Next]_vars

-----------------------------------------------------------------------------
(***************************************************************************)
(* Properties                                                              *)
(***************************************************************************)
\* Whatever the blocks are cut to and whenever it was reset, each output sample is
\* the sum of every tap times the sample that many places before it, each product
\* once and nothing from before the reset: at once where the response is short, one
\* sample less than a block later where it is long (process, processBlock, reset).
Delay == IF cab.partitioned THEN Block - 1 ELSE 0
ConvolutionIsExact ==
  \A i \in DOMAIN out :
    LET t == heard - Len(out) + i - 1
    IN out[i] = SetToBag({<<k, t - Delay - k>> :
                   k \in {k \in 0 .. cab.taps - 1 : t - Delay - k >= 0}})

\* A recording is taken if and only if its first data chunk is whole, in a format
\* that can be read, given by the last complete format chunk before it, and neither
\* empty nor too long: whatever other chunks there are, whatever their sizes.  What
\* is taken is that chunk's frames at that format's rate (parseWav, loadAsset).
RecordingIsWhole ==
  asset.tried # << >> =>
    LET chunks == asset.tried[1]
        datas  == {i \in DOMAIN chunks : chunks[i].id = "data"}
        d      == CHOOSE i \in datas : \A j \in datas : i <= j
        fmts   == {i \in 1 .. d - 1 : chunks[i].id = "fmt" /\ chunks[i].size >= 16}
        format == chunks[CHOOSE i \in fmts : \A j \in fmts : j <= i].format
        frames == chunks[d].size \div (BytesPerSample(format) * format.channels)
    IN /\ asset.ok <=>
            /\ datas # {} /\ fmts # {} /\ Readable(format)
            /\ Begins(chunks)[d] + 8 + chunks[d].size <= File(chunks, asset.tried[2]).size
            /\ frames \in 1 .. MaxIrSamples
       /\ asset.ok => asset.len = frames /\ asset.rate = format.rate
=============================================================================
