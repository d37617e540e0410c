SPECIFICATION Spec
CONSTANTS
  Width = 5
  Height = 6
  Pieces = {"I", "T"}
  ShapeOf <- SRSShapes
  KicksOf <- SRSKicks
  Gravity = 6000000
  LockStyle = "move"
  LockTicks = 3
  AreTicks = 0
  ReadyTicks = 0
  GoTicks = 1
  FloorkickLimit = 1
  PersistentAction = TRUE
  AreCancellable = FALSE
  InfiniteReadyGoHold = TRUE
  PreviewCount = 0
  Goal = 1
  Inputs <- PlaceInputs
  MaxBlocks = 2
  MaxFloorkicks = 2
PROPERTIES FloorkickForcesLock
