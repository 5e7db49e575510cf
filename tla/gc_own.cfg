SPECIFICATION Spec
CONSTANTS
  a = a
  b = b
  f = f
  w = w
  None = None
  Obj = {a, b, f, w}
  Weak = {w}
  Finalizer = {f}
  Clearable = {a, w}
  MayRefer <- OwnCycle
  MayWatch <- OwnWatch
  NUM_GENERATIONS = 2
  MaxStack = 2
INVARIANTS
  TypeOK
  TrashHidden
  UnreachableExact
  ListsExact
  CallbacksMade
  TrashFreed
