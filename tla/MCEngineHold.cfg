SPECIFICATION Spec
CONSTANTS
  Width = 5
  Height = 6
  Pieces = {"I", "T"}
  ShapeOf <- SRSShapes
  KicksOf <- SRSKicks
  Gravity = 500000
  LockStyle = "step"
  LockTicks = 2
  AreTicks = 0
  ReadyTicks = 0
  GoTicks = 1
  FloorkickLimit = 1
  PersistentAction = TRUE
  AreCancellable = FALSE
  InfiniteReadyGoHold = FALSE
  PreviewCount = 1
  Goal = 1
  Inputs <- AllInputs
  MaxBlocks = 2
  MaxFloorkicks = 2
INVARIANTS TypeOK ActiveInField RowAgrees GhostRests Supported TimersBounded NoFullRow
PROPERTIES SpawnIsFree LocksAtOnce HoldOncePerPiece NoPieceLost StaysClear ImplementsGame
