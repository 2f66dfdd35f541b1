\* Three tokens, one of them a stock; scans that fail, overlap and die.
SPECIFICATION Spec
CONSTANTS
  Tokens = {1, 2, 3}
  Stocks = {3}
  Steady = {2, 3}
  Taxed = {1}
  Flagged = {1}
  Cron = cron
  Manual = {manual}
  PerRun = 1
  Retry = 1
  Ttl = 2
  ApiTtl = 0
  NoRow = NoRow
  MaxTrouble = 2
PROPERTIES
  OutageKeepsBoard
  ScreenedAgain
  FallsOff
