CONSTANTS
  a = a
  b = b
  Host = {a, b}
  Ops <- TwoPulls
  Rsn = {0, 1}
  RxWindow = 1
  Fcwnd = 3
  Ncwnd = 2
  CounterMod = 100
  EarlyRetransmitLimit = 3
  OooCount <- Disabled
  OooDistance = 1
  EackOwn = TRUE
  PauseOnOow = TRUE
  Slack = 0
  EackTriggerByHole = TRUE
  Rnr = FALSE
  Exhaustible = {}
  Duplication = TRUE
  MaxLosses = 0
SPECIFICATION Spec
INVARIANTS
  PauseEnds
CHECK_DEADLOCK FALSE
