SPECIFICATION Spec
CONSTANTS
  a = a
  b = b
  f = f
  w = w
  None = None
  Obj = {a, b, w}
  Weak = {w}
  Finalizer = {}
  Clearable = {a, b, w}
  MayRefer <- LastRef
  MayWatch <- LastWatch
  NUM_GENERATIONS = 2
  MaxStack = 2
INVARIANTS
  TrashHidden
