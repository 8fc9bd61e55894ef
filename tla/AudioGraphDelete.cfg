SPECIFICATION Spec
CONSTANTS
  Chains = {c1, c2, c3, c4, c5, c6}
  NoChain = NoChain
CHECK_DEADLOCK FALSE
INVARIANTS AudioNeverDeletes
