SPECIFICATION MailSpec
CONSTANTS
  w1 = w1
  w2 = w2
  Workers = {w1, w2}
  Emails = {1, 2}
  Settings <- MCSettings
  Lease = 2
  PaceWindow = 2
  PauseFor = 1
  AllowanceFor = 2
  GmailBatch = 1
  MaxDelay = 2
  FailoverAfter = 2
  PinReleaseAfter = 3
  TriesInADay = 6
  StopsMax = 2
  People = {1, 2}
  Kept = {2}
  Sittings = {1}
  Window = 2
  HoldFor = 1
  SignWindow = 1
  LastTick = 4
  HitchesMax = 0
  Chores = {1,2}
  Runs = {1, 2}
  Day = 4
  MinGap = 1
  SlotWidth = 1
  HourWidth = 2
  FineSpan = 2
  Intervals = {0, 2}
  Stretch = 1
  Dues = {0,3,5}
  LongestRun = 1
  SetbacksMax = 1
  ChangesMax = 1
INVARIANTS
  MailTypeOK
  SentAgainOnlyForALostAnswer
  OneWorkerPerRow
  HourNotOverrun
  QuietHidesOnlyWhatRaced
  AtMostADayLate
PROPERTIES
  NoKnockDuringAPause
  ComplaintStands
  SecondRoadOnlyWhenReleased
  NothingWaitsForEver
CHECK_DEADLOCK FALSE
