SPECIFICATION Spec
CONSTANTS
  Attachers = {a1, a2}
  NoNode = NoNode
  StoreBuffers = {TRUE, FALSE}
SYMMETRY Symmetry
INVARIANTS FutureOutlivesUsers TokenOutlivesFuture CancelCompletes NothingLeaks
