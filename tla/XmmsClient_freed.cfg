CONSTANTS
  MaxResults = 2
  MaxNotifiers = 2
  MaxEmits = 2
  MaxDown = 2
  MaxDepth = 4
  CookieMod = 8
  Classes = {"default", "broadcast"}
  SyncClasses = {"broadcast"}
  Values = {v1}
  Payloads = {v1}
  Error = Error
  Garbage = Garbage
  Null = Null
SPECIFICATION Spec
CHECK_DEADLOCK FALSE
INVARIANT NoFreedAccess
