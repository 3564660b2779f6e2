CONSTANTS
  a = a
  b = b
  Host = {a, b}
  Ops <- BothWays
  Rsn = {0, 1}
  RxWindow = 2
  Fcwnd = 3
  Ncwnd = 2
  CounterMod = 100
  EarlyRetransmitLimit = 3
  OooCount <- Disabled
  OooDistance = 1
  EackOwn = FALSE
  PauseOnOow = FALSE
  Slack = 0
  EackTriggerByHole = TRUE
  Rnr = FALSE
  Exhaustible = {}
  Duplication = TRUE
  MaxLosses = 0
SPECIFICATION Spec
INVARIANTS
  NoFailedCheck
  UnackedHasTransaction
CHECK_DEADLOCK FALSE
