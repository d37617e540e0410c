SPECIFICATION RSpec
CONSTANTS
  Piece = {"I", "J", "S"}
  Unlucky = {"S"}
  Kinds <- OneBag
  MAX = 31
  TGMPiece = {"J", "I", "Z", "L", "O", "T", "S"}
  Openers = {"J", "I", "L", "T"}
  StartHistory <- Histories
  StartDrought <- AllOrder
  Rolls <- RollTable
  BagCopies = 5
  TGMKinds = {"TGM3"}
  MaxDeals = 4
INVARIANT DroughtOrder
CHECK_DEADLOCK FALSE
