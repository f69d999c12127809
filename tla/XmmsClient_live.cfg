CONSTANTS
  MaxResults = 2
  MaxNotifiers = 2
  MaxEmits = 1
  MaxDown = 2
  MaxDepth = 4
  CookieMod = 8
  Classes = {"default", "signal"}
  SyncClasses = {"default", "signal"}
  Values = {v1}
  Payloads = {v1, Error}
  Error = Error
  Garbage = Garbage
  Null = Null
SPECIFICATION FairSpec
CHECK_DEADLOCK FALSE
PROPERTIES NotifierCalled WaitReturns LossReported
INVARIANT ExactlyOnce
