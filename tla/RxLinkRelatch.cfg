SPECIFICATION XLSpec
CONSTANTS
  Crafts = {1, 2}
  Width = 8
  MaxCount = 3
  MaxTurns = 4
INVARIANT ReportTrue
CHECK_DEADLOCK FALSE
