CONSTANTS
  Base = 16
  WordLen = 2
  Default = 12
  Half = 4
  Utf8 <- MCUtf8
  Args <- MCArgs
  Values <- MCValues
SPECIFICATION Spec
INVARIANTS  Understood UrlsAccepted 
