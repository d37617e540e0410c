\* Every rotation system, every piece, walks of up to six quarter turns.
CONSTANTS
  Systems = {"simple", "sega", "srs", "arikasrs", "tgm12", "tgm3", "dtet"}
  MaxTurns = 6
SPECIFICATION Spec
INVARIANTS
  HomeAgain
  RigidTurn
  KicksReversible
  LeftRightFair
  TGMTurnsLikeSega
  FinesseExact
CHECK_DEADLOCK FALSE
