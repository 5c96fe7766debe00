SPECIFICATION FairSpec
CONSTANTS
  Threads = {t1, t2, t3}
  Nodes = {n1, n2, n3}
  HookNodes = {n1, n2}
  MaxRefs = 2
  NoNode = NoNode
INVARIANTS TokenOutlivesUsers NoDanglingNode SettledOnce
PROPERTIES ImplementsRegistry AbandonedIsReclaimed
