CONSTANTS
  a = a
  b = b
  h1 = h1
  h2 = h2
  Default = a
  Unset = Unset
  Urls <- TwoUrls
  Checks <- TwoChecks
  Setups <- AgreedSetups
  MaxChanges <- Changes
SPECIFICATION FairSpec
INVARIANTS
  TypeOK
  ReadyMeansReachable
  NoFalseAlarm
  GaugeShowsLatest
PROPERTY EveryCheckReturns
CHECK_DEADLOCK FALSE
