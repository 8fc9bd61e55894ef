--------------------------- MODULE MCControlThread ---------------------------
(* ControlThread: nothing tells two module ids apart, and the first preset *)
(* lacks one of the two parameters that may be learned.                    *)
EXTENDS ControlThread
CONSTANTS gain, tone
MCSymmetry == Permutations(Modules)
MCChains == {{gain}, {gain, tone}}
==============================================================================
