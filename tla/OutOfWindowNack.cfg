CONSTANTS
  a = a
  b = b
  Host = {a, b}
  Ops <- TwoPushes
  Rsn = {0, 1}
  RxWindow = 1
  Fcwnd = 3
  Ncwnd = 2
  CounterMod = 100
  EarlyRetransmitLimit = 3
  OooCount <- Disabled
  OooDistance <- Disabled
  EackOwn = FALSE
  PauseOnOow = FALSE
  Slack = 0
  EackTriggerByHole = TRUE
  Rnr = FALSE
  Exhaustible = {"PushUnsolicitedData"}
  Duplication = TRUE
  MaxLosses = 0
SPECIFICATION Spec
INVARIANTS
  SenderLedger
  NoFailedCheck
CHECK_DEADLOCK FALSE
