---------------------------- MODULE MCHandovers ----------------------------
(* Handovers with a ring of two elements, whose counters wrap at eight,    *)
(* and banks of no scene and of two, which edits and saved scenes change.  *)
EXTENDS Handovers
CONSTANTS a, b, amp, cab, x, y
MCItems == {a, b}
MCChain == <<[slot |-> 0, module |-> amp]>>
MCPresets ==
  {[chain |-> << >>, scenes |-> << >>],
   [chain |-> MCChain, scenes |-> <<<<[module |-> amp, setting |-> y]>>, << >>>>]}
============================================================================
