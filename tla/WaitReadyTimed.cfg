CONSTANTS
  TimeoutSec = 9
  Interval = 4
  RequireHealth = TRUE
  ProbeTime = 1
  Slack = 1
  Horizon = 20
SPECIFICATION FairSpec
INVARIANTS TimeoutIsDue ReadyIsCurrent OvershootIsOneAttempt ProbesAreSpaced
PROPERTIES ComesBack
CHECK_DEADLOCK FALSE
