CONSTANTS
  a = a
  b = b
  Host = {a, b}
  Ops <- TwoPushes
  Rsn = {0, 1}
  RxWindow = 1
  Fcwnd = 3
  Ncwnd = 2
  CounterMod = 100
  EarlyRetransmitLimit = 3
  OooCount <- Disabled
  OooDistance = 1
  EackOwn = FALSE
  PauseOnOow = FALSE
  Slack = 0
  EackTriggerByHole = TRUE
  Rnr = FALSE
  Exhaustible = {}
  Duplication = FALSE
  MaxLosses = 1
SPECIFICATION FairSpec
PROPERTY AllComplete
CHECK_DEADLOCK FALSE
