SPECIFICATION Spec
CONSTANTS
  DasDelay = 1
  DasSpeed = 1
  Keystates <- Both
  Starts <- Zeroed
  ResetState <- Entry
  Advance <- Moved
  Completed <- Aside
  ToppedOut <- Blocked
  WritesFail = FALSE
  MaxGames = 2
  MaxTicks = 3
PROPERTY EveryReplayFaithful
