SPECIFICATION Spec
CONSTANTS
  MaxErrs = 4
INVARIANTS
  AnswersWhatIsVisible
  ShownIsTold
  PrivateStaysPrivate
CHECK_DEADLOCK FALSE
