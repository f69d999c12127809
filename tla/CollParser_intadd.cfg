CONSTANTS
  Inputs <- SequenceInputs
  Digits <- MCDigits
SPECIFICATION Spec
CHECK_DEADLOCK FALSE
INVARIANT SequenceMeant
