SPECIFICATION Spec
CONSTANTS
  Values = {v1, e1}
  Errors = {e1}
  Conts = {m1, m2}
  Movers = {m1}
  OkMovers = {m2}
  Getters = {}
  Coroutines = {}
INVARIANTS DeliversWinner RunsOnce ValueReleasedOnce
