SPECIFICATION Spec
CONSTANTS
  Ops = {o1, o2}
  Inners = {n1}
  In = in
  Null = Null
SYMMETRY Symmetry
INVARIANTS ContextOutlivesUsers ValueInOnePlace CancelReaches RightOutcome NothingHangs
