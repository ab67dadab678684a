CONSTANTS
  MaxCalls = 5
SPECIFICATION Spec
INVARIANTS
  PassReadsItsCall
CHECK_DEADLOCK FALSE
