SPECIFICATION Spec
CONSTANTS
  Width = 5
  Height = 4
  Pieces = {"I", "J"}
  ShapeOf <- SRSShapes
  KicksOf <- SRSKicks
  Gravity = 1000000
  LockStyle = "move"
  LockTicks = 1
  AreTicks = 0
  ReadyTicks = 0
  GoTicks = 1
  FloorkickLimit = 1
  PersistentAction = TRUE
  AreCancellable = FALSE
  InfiniteReadyGoHold = TRUE
  PreviewCount = 1
  Goal = 1
  Inputs <- AllInputs
  MaxBlocks = 2
  MaxFloorkicks = 1
INVARIANTS HardDropValid
