SPECIFICATION FairSpec
CONSTANTS
  Values = {v1}
  Errors = {}
  Conts = {k1}
  Movers = {}
  OkMovers = {}
  Getters = {g1}
  Coroutines = {g1}
INVARIANT NoDangling
PROPERTY ImplementsCell
