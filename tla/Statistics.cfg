CONSTANTS
  hades = hades
  celeste = celeste
  rogue = rogue
  indie = indie
  Games = {hades, celeste}
  Tags = {rogue, indie}
  TagsOf <- MCTagsOf
  YearOf <- MCYearOf
  Limit = 1
  Offsets = {0, 1}
  Hour = 2
  HoursPerDay = 2
  DaysPerWeek = 2
  MonthStarts <- MCMonthStarts
  ShortWindow = 1
  MediumWindow = 2
  Windows = {0, 1, 2, 3}
  FutureGrace = 1
  Lookback = 6
  HistoryDays = 3
  MaxTime = 17
  Durations = {1, 4, 6}
  MaxSessions = 1
  MaxChanges = 1
SPECIFICATION Spec
CHECK_DEADLOCK FALSE
INVARIANT HeatmapExact
INVARIANT TrendAccounts
INVARIANT StreaksAreRuns
INVARIANT ViewsAgree
