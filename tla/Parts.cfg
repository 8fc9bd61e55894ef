\* A part may come to its bounds, and a program that has started is followed no further.
CHECK_DEADLOCK FALSE
SPECIFICATION MCSpec
CONSTANTS
  MaxVersions = 2
  MaxSaves = 4
  a = a
  b = b
  Modules = {a, b}
  Presets <- MCPresets
  NoChain = NoChain
  Settings = {x, y}
  Fresh = x
  MaxSlots = 2
  MaxScenes = 1
  Registry = {"amp"}
  Params = {"gain"}
  Texts = {"amp", "fuzz", "p", "Untitled", "a", "d", "x", "y", "gone", "assets", "elsewhere"}
  Keys = {"gain", "odd"}
  Amounts <- MCAmounts
  Top = 1
  Docs <- MCDocs
  Dirs <- MCDirs
  Disk <- MCDisk
  Absent = Absent
  Bad = Bad
  Torn = Torn
  NoName = NoName
  Root = Root
  NameLimit = 2
  CurrentSchema = 1
  MaxSchema = 2
  MaxSteps = 2
  MaxPath = 4
  Zeros = 2
  Rates = {2, 3, 4}
  BlockSizes = {1, 3}
  Slack = 2
  Tiers = {0, 1}
  MaxInput = 12
  Recordings <- MCRecordings
  Block = 2
  DirectLimit = 2
  MaxIrSamples = 6
  Cuts = {0, 2}
  EngineRates = {2, 3}
  MaxBlock = 2
  Effects = {"dly.tape", "dly.dm2", "mod.chorus", "mod.flanger", "rvb.spring", "rvb.hall"}
  SampleRates = {10, 60}
  Unit = 2
  C = 4
  Ratios = {1, 2, 3, 4}
  Window = 4
  DetectEvery = 2
  MinLag = 2
  MaxLag = 32
  Rate = 320000
  Voiced = 3
  Tie = 2
  Frames <- MCFrames
  Silent = Silent
  Settles = 11
  MaxChanges = 2
  Threads = {t1, t2}
  MaxArm = 2
  MaxGuards = 2
  MaxArmings = 2
  Positions = {0, 1}
  Default = 0
  MaxPanelSaves = 3
INVARIANTS BackupSafety KeepsTheNewest
  ActiveIsInForce PresetsSurvive NamInv CabIsExact DelaysAreExact TapsStayBehind TunerInv
  RtAllocInv RestoresTheLast
PROPERTIES ImplementsStore OldPresetsStillLoad WindowsAreHeld
