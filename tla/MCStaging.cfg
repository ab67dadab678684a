CONSTANTS
  Plans <- MCPlans
  MaxCalls = 4
SPECIFICATION Spec
INVARIANTS
  InputsOfTheCall
  AnswerOfTheCall
CHECK_DEADLOCK FALSE
