\* After a race of prepare and a load the model stops.
CHECK_DEADLOCK FALSE
SPECIFICATION ControlSpec
CONSTANTS
  Modules = {m1, m2}
  MaxSlots = 3
  BlockSizes = {2, 3}
  CallbackSizes = {7}
  MaxScenes = 2
  Ccs = {1, 2}
  gain = gain
  tone = tone
  Params = {gain, tone}
  Scenes = {1}
  Sources = {0, 1}
  MaxBindings = 2
  Chains <- MCChains
  StartChain = {gain}
  MaxLines = 5
SYMMETRY MCSymmetry
INVARIANTS HostInv ChunksFit BindingsAgree MovesNothingElse SavedIsRestored
PROPERTIES EditsAreExact
