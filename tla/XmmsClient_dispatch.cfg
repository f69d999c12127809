CONSTANTS
  MaxResults = 2
  MaxNotifiers = 2
  MaxEmits = 2
  MaxDown = 2
  MaxDepth = 4
  CookieMod = 8
  Classes = {"default", "signal", "broadcast"}
  SyncClasses = {"default", "signal"}
  Values = {v1, v2}
  Payloads = {v1, v2, Error, Garbage}
  Error = Error
  Garbage = Garbage
  Null = Null
SPECIFICATION Spec
CHECK_DEADLOCK FALSE
SYMMETRY Symmetry
INVARIANTS RefCount Registered RightCaller CallbackGetsAnswer ConnRefCount NoFreedAccess
