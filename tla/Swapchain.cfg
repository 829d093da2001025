SPECIFICATION FairSpec
CONSTANTS
  N = 4
  Sizes = {1, 2}
INVARIANTS
  TypeOK
  FenceDone
  RenderFinishedFree
  AcquiresRight
  SizeKnown
PROPERTIES
  BeforeStateRight
  CallsReturn
CHECK_DEADLOCK FALSE
