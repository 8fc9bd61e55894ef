\* The destructor ends the graph.
CHECK_DEADLOCK FALSE
SPECIFICATION HandoverSpec
CONSTANTS
  a = a
  b = b
  NoItem = NoItem
  Items <- MCItems
  Capacity = 2
  WordSize = 8
  Chains = {c1, c2, c3, c4, c5, c6}
  NoChain = NoChain
  amp = amp
  cab = cab
  Modules = {amp, cab}
  x = x
  y = y
  Settings = {x, y}
  Fresh = x
  MaxSlots = 1
  MaxScenes = 2
  Presets <- MCPresets
INVARIANTS RingSafety GraphSafety
PROPERTIES ImplementsFifo OldestIsTaken ImplementsExchange NewestBecomesLive RecallLands
