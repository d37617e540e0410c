SPECIFICATION RSpec
CONSTANTS
  Piece = {"I", "J", "S"}
  Unlucky = {"S"}
  Kinds <- Bags
  MAX = 31
  TGMPiece = {"J", "I", "Z", "S"}
  Openers = {"J", "I"}
  StartHistory <- Histories
  StartDrought <- FewOrder
  Rolls <- RollTable
  BagCopies = 2
  TGMKinds = {"TGM1", "TGM2", "TGM3"}
  MaxDeals = 6
INVARIANTS RTypeOK DealtOnce UnbiasedShuffle UnbiasedDraw HistoryIsLastFour
PROPERTY NoRepeat
CHECK_DEADLOCK FALSE
