CONSTANTS
  TimeoutSec = 0
  Interval = 4
  RequireHealth = TRUE
  ProbeTime = 1
  Slack = 1
  Horizon = 20
SPECIFICATION FairSpec
PROPERTIES ComesBack
CHECK_DEADLOCK FALSE
