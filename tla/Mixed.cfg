CONSTANTS
  a = a
  b = b
  Host = {a, b}
  Ops <- PullThenPush
  Rsn = {0, 1}
  RxWindow = 2
  Fcwnd = 3
  Ncwnd = 2
  CounterMod = 100
  EarlyRetransmitLimit = 3
  OooCount <- Disabled
  OooDistance = 1
  EackOwn = FALSE
  PauseOnOow = FALSE
  Slack = 0
  EackTriggerByHole = TRUE
  Rnr = FALSE
  Exhaustible = {}
  Duplication = TRUE
  MaxLosses = 0
SPECIFICATION Spec
INVARIANTS
  TypeOK
  SenderLedger
  NoFailedCheck
  ExactRequestCount
PROPERTIES
  ExactlyOnce
CHECK_DEADLOCK FALSE
