CONSTANTS
  a = a
  b = b
  Host = {a, b}
  Ops <- TwoPushes
  Rsn = {0, 1}
  RxWindow = 2
  Fcwnd = 3
  Ncwnd = 2
  CounterMod = 100
  EarlyRetransmitLimit = 3
  OooCount <- Disabled
  OooDistance = 1
  EackOwn = FALSE
  PauseOnOow = FALSE
  Slack = 0
  EackTriggerByHole = TRUE
  Rnr = TRUE
  Exhaustible = {}
  Duplication = TRUE
  MaxLosses = 0
SPECIFICATION Spec
INVARIANTS
  LateRnrNackIgnored
CHECK_DEADLOCK FALSE
