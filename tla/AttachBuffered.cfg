SPECIFICATION Spec
CONSTANTS
  Attachers = {a1, a2}
  NoNode = NoNode
  StoreBuffers = {TRUE}
SYMMETRY Symmetry
INVARIANT CompletedIsDetached
