------------------------------- MODULE NamAmp -------------------------------
(***************************************************************************)
(* modules/nam/nam_amp.cpp: an amplifier model that runs at a rate of its  *)
(* own.  A block is resampled to the model's rate, run through the model,  *)
(* resampled back and put into a queue, from which the block's output is   *)
(* taken; where the queue is empty the output is silent.  Gains, filters   *)
(* and the model itself are left out: one sample in, one sample out.       *)
(***************************************************************************)
EXTENDS StreamResampler

CONSTANTS
  Rates,       \* sample rates, far enough apart to be resampled
  BlockSizes,  \* maxBlock of prepare
  Slack,       \* the 64 samples added to the model's block
  Tiers,       \* targets of the tier parameter
  MaxInput     \* bound: samples played since the last reset

AmpAssumption ==
  /\ Zeros \in Nat \ {0} /\ Slack \in Nat \ {0}
  /\ Rates \subseteq Nat \ {0} /\ Rates # {} /\ BlockSizes \subseteq Nat \ {0}

VARIABLES
  amp,         \* asset, rates, block size and tier: impl_
  inRes, outRes,
  qRead, qWrite,   \* outQRead, outQWrite
  pads         \* samples of silence given for want of samples since the reset

vars == <<amp, inRes, outRes, qRead, qWrite, pads>>

Rate0 == CHOOSE r \in Rates : TRUE
Full == CHOOSE t \in Tiers : \A u \in Tiers : u <= t
NewAmp(state, rate, slimmable) ==
  [state |-> state, model |-> rate, engine |-> rate, maxBlock |-> 1,
   slimmable |-> slimmable, tier |-> Full, tierApplied |-> Full]

Idle ==
  /\ inRes' = Resampler(Rate0, Rate0, 1) /\ outRes' = inRes'
  /\ qRead' = 0 /\ qWrite' = 0 /\ pads' = 0

Init ==
  /\ amp = NewAmp("none", Rate0, FALSE)
  /\ inRes = Resampler(Rate0, Rate0, 1) /\ outRes = inRes
  /\ qRead = 0 /\ qWrite = 0 /\ pads = 0

\* A model that cannot be read leaves the module without one.
LoadAsset(rate, slimmable) ==
  /\ \/ amp' = NewAmp("loaded", rate, slimmable)
     \/ amp' = NewAmp("none", Rate0, FALSE)
  /\ Idle

AppliedTier(a) == [a EXCEPT !.tierApplied = IF a.slimmable THEN a.tier ELSE @]
ApplyTier ==
  /\ amp.state # "none"
  /\ amp' = AppliedTier(amp)
  /\ UNCHANGED <<inRes, outRes, qRead, qWrite, pads>>

Resampling == amp.engine # amp.model
DspBlockMax(a) == CeilDiv(a.maxBlock * a.model, a.engine) + Slack
ResCap ==
  IF Resampling
  THEN OutCapacity(Cleared(outRes), DspBlockMax(amp)) + amp.maxBlock + 1
  ELSE amp.maxBlock
QueueSize == ResCap + amp.maxBlock + 1

Prepare(rate, block) ==
  /\ amp.state # "none"
  /\ amp' = [AppliedTier(amp) EXCEPT
               !.state = "prepared", !.engine = rate, !.maxBlock = block]
  /\ inRes' = Resampler(rate, amp.model, block)
  /\ outRes' = Resampler(amp.model, rate, DspBlockMax(amp'))
  /\ qRead' = 0 /\ qWrite' = 0 /\ pads' = 0

\* Samples the model gets of a block of n, and samples that reach the queue.
ModelBlock(n) == IF Resampling THEN Produced(inRes, n) ELSE n
Queued(n) == IF Resampling THEN Produced(outRes, ModelBlock(n)) ELSE n

CompactLate(read, write) ==    \* deviation: never moves the queue to its front
  qRead' = read /\ qWrite' = write
Compact(read, write) ==
  IF read >= QueueSize \div 2 /\ read > 0
  THEN qRead' = 0 /\ qWrite' = write - read
  ELSE qRead' = read /\ qWrite' = write

\* A module that is not prepared passes its input on.
ProcessBlock(n) ==
  LET write == qWrite + Queued(n)
      taken == IF n < write - qRead THEN n ELSE write - qRead
  IN /\ amp.state = "prepared" /\ n <= amp.maxBlock
     /\ inRes.inTotal + n <= MaxInput
     /\ inRes' = IF Resampling THEN Process(inRes, n)
                 ELSE [inRes EXCEPT !.inTotal = @ + n]   \* counts the input only
     /\ outRes' = IF Resampling THEN Process(outRes, ModelBlock(n)) ELSE outRes
     /\ pads' = pads + n - taken
     /\ Compact(qRead + taken, write)
     /\ UNCHANGED amp

Reset ==
  /\ amp.state # "none"
  /\ inRes' = Cleared(inRes) /\ outRes' = Cleared(outRes)
  /\ qRead' = 0 /\ qWrite' = 0 /\ pads' = 0
  /\ amp' = AppliedTier(amp)

\* The audio thread only notes the tier.
SetTier(tier) ==
  /\ amp.state # "none"
  /\ amp' = [amp EXCEPT !.tier = tier]
  /\ UNCHANGED <<inRes, outRes, qRead, qWrite, pads>>

Next ==
  \/ \E rate \in Rates, slimmable \in BOOLEAN : LoadAsset(rate, slimmable)
  \/ ApplyTier
  \/ \E rate \in Rates, block \in BlockSizes : Prepare(rate, block)
  \/ \E n \in 1 .. amp.maxBlock : ProcessBlock(n)
  \/ Reset
  \/ \E tier \in Tiers : SetTier(tier)

Spec == Init /\ [][Next]_vars

-----------------------------------------------------------------------------
(***************************************************************************)
(* Properties                                                              *)
(***************************************************************************)
Latency ==
  IF Resampling THEN Zeros + CeilDiv(Zeros * amp.engine, amp.model) + 1 ELSE 0

\* With whatever blocks the stream came so far, the next block, of any size that
\* was prepared for, fits every buffer; what was queued and not yet given is
\* exactly what is in the queue; and the silence inserted, at the start or later
\* for the two resamplers' rounding, never adds up to more than their two windows
\* and one sample (prepare, process, StreamingResampler).
NamInv ==
  amp.state = "prepared" =>
    /\ \A n \in 1 .. amp.maxBlock :
         /\ ModelBlock(n) <= DspBlockMax(amp) /\ Queued(n) <= ResCap
         /\ qWrite + Queued(n) <= QueueSize
    /\ 0 <= qRead /\ qRead <= qWrite
    /\ Resampling => qWrite - qRead = outRes.outCount - (inRes.inTotal - pads)
    /\ pads <= Latency

\* A sample is computed only while all of its window is still in the history.
HeldStep == \A k \in inRes.outCount .. inRes'.outCount - 1 : WindowHeld(inRes', k)
WindowsAreHeld == [][HeldStep]_vars
=============================================================================
