SPECIFICATION Spec
CONSTANTS
  m1 = m1
  m2 = m2
  Modules = {m1, m2}
  Sources = {s1}
  Levels = {x}
  Preset = Preset
  Zero = Zero
  Layouts <- Steady
  Tables = {t1, t2, t3}
  NoTable = NoTable
  MaxBindings = 2
  UiCapacity = 1
  ReleaseCapacity = 4
  HangBlocks = 1
  MaxTicks = 2
  MaxBeats = 1
  MaxBypasses = 0
PROPERTIES OnlyNewHeartbeatsTake
