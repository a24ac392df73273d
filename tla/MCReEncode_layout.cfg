\* Lists of up to three arguments of all kinds; a call ends.
SPECIFICATION Spec
CHECK_DEADLOCK FALSE
CONSTANTS
  Calls <- MCCalls
  Count = {0, 1, 32, 33}
  WideWords = 2
  MAX_IT_STRING_CELLS = 1
INVARIANTS
  CalleeGetsArguments
