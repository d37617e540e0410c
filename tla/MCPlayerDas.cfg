SPECIFICATION PSpec
CONSTANTS
  Width = 5
  Height = 5
  Pieces = {"O", "I"}
  ShapeOf <- SRSShapes
  KicksOf <- SRSKicks
  Gravity = 500000
  LockStyle = "entry"
  LockTicks = 2
  AreTicks = 0
  ReadyTicks = 0
  GoTicks = 1
  FloorkickLimit = 0
  PersistentAction = FALSE
  AreCancellable = FALSE
  InfiniteReadyGoHold = TRUE
  PreviewCount = 0
  Goal = 1
  Inputs <- NoInputs
  MaxBlocks = 2
  MaxFloorkicks = 1
  MsPerTick = 8
  DasDelay = 20
  DasSpeed = 2
  FieldWidth = 5
  FieldHeight = 5
  SoftDropRows = 1
  OneShotSoftDrop = TRUE
  Keystates <- HeldKeys
  Starts <- Garbage
PROPERTIES RepeatsAsDocumented
