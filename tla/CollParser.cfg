CONSTANTS
  Inputs <- MCInputs
  Digits <- MCDigits
SPECIFICATION Spec
CHECK_DEADLOCK FALSE
INVARIANTS ParsesGrammar TextSurvives SequenceMeantSameLength
