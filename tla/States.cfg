SPECIFICATION Spec
CONSTANTS
  Lists = {l1, l2}
  Resources = {r1, r2}
  Images = {r1}
  Slices = {s1, s2}
  Stages <- MCStages
  Targets <- OneStageEach
  Undefined <- MCUndefined
  MaxEntries = 1
  BundleSize = 1
  MaxCommands = 4
  NoList = NoList
INVARIANTS
  StatesInv
  BeforeStatesRight
  CacheFullRight
  MasterRight
  StagesOrdered
SYMMETRY Symmetry
CHECK_DEADLOCK FALSE
