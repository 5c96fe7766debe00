SPECIFICATION Spec
CONSTANTS
  MaxInputs = 2
  MaxCount = 3
INVARIANTS ContextOutlivesUsers RightOutcome NothingLeaks
PROPERTY OutputSettles
