SPECIFICATION FairSpec
CONSTANTS
  DasDelay = 1
  DasSpeed = 1
  Keystates <- Held
  Starts <- Zeroed
  ResetState <- Entry
  Advance <- Moved
  Completed <- Aside
  ToppedOut <- Blocked
  WritesFail = FALSE
  MaxGames = 2
  MaxTicks = 3
INVARIANT HiscoresBelong
PROPERTIES PlaybackFaithful PlaybackEnds
