SPECIFICATION Spec
CONSTANTS
  DasDelay = 1
  DasSpeed = 1
  Keystates <- Few
  Starts <- Zeroed
  ResetState <- Entry
  Advance <- Moved
  Completed <- Aside
  ToppedOut <- Blocked
  WritesFail = TRUE
  MaxGames = 2
  MaxTicks = 2
INVARIANT ReferencesHold
