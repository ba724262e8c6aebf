SPECIFICATION FairSpec
CONSTANTS
  h1 = h1
  k1 = k1
  k2 = k2
  Handlers <- MCHandlers
  Workers <- MCWorkers
  FirstDay <- MCFirstDay
  YearMonths = 2
  MaxDate = 3
  WeekDays = 3
  DayHours = 2
  HourMinutes = 2
  MinuteSeconds = 2
  Horizon = 100
  Times <- MCTimes
  Clock <- MCClock
  Crons <- MCCrons
  CronInputs <- MCCronInputs
  MaxRequests = 1
  MaxFirings = 1
  MaxCrashes = 1
  MAX_STALLED = 1
INVARIANTS
  TypeOK
  SyncReconciles
  CronExact
  ScansPerFiring
PROPERTIES
  FiringsSettle
CHECK_DEADLOCK FALSE
