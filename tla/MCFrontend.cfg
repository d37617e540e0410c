SPECIFICATION TSpec
CONSTANTS
  TickRate = 4
  TicksPerDraw = 2
  Countdown = 1
  MenuRest = 4
  MenuFrames = 1
  Word = 64
  Boots = {28}
  Works = {1, 6}
  Late = {0, 3}
  MaxTime = 48
  TermWidth = 2
  Sizes = {2, 4}
  Pictures <- TwoPictures
  MaxWinches = 2
  MaxPresses = 2
INVARIANTS NeverAhead DrawnOften ScreenRight TtyRestored
PROPERTIES NoOversleep
CHECK_DEADLOCK FALSE
