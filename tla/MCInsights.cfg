SPECIFICATION Spec
CONSTANTS
  Configurations <- MCConfigurations
  Sheets <- MCSheets
  Rows <- MCRows
  JobCount = 2
  MaxRows = 5
  MaxPeriods = 4
  MaxDimensionValues = 2
  MaxPoints = 8
  MaxAnomalies = 3
  Window = 2
  MaxStatusUpdates = 2
  Null = Null
  Text = Text
  Long = Long
INVARIANT VerdictOrderFree
INVARIANT AccumulatorsFaithful
INVARIANT WholeIsSumOfParts
INVARIANT ForecastContinues
INVARIANT SignalsComplete
CHECK_DEADLOCK FALSE
