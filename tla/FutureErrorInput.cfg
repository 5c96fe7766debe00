SPECIFICATION Spec
CONSTANTS
  Values = {e1}
  Errors = {e1}
  Conts = {k1, m1}
  Movers = {m1}
  OkMovers = {}
  Getters = {}
  Coroutines = {}
INVARIANT NoCallbackOnError
