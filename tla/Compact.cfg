CONSTANTS
  Units = 3
  LateData = TRUE
SPECIFICATION SpecExt
INVARIANTS NoSleepOverNews NoFalseEnd
PROPERTIES AnswerableReturns
