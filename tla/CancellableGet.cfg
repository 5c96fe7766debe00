SPECIFICATION Spec
CONSTANTS
  Getters = {g1, g2}
  NoNode = NoNode
INVARIANTS WakesWaiting WaiterFreedLast AnswerIsTrue
PROPERTIES GetReturns
