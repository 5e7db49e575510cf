SPECIFICATION Spec
CONSTANTS
  obj = obj  A = A  B = B  C = C  D = D  E = E  F = F  m = m  g = g  v1 = v1  v2 = v2
  Type = {obj, A, B, C}
  Object = obj
  Legacy = {C}
  Name = {m}
  Cacheable = {m}
  Getter = m
  Value = {v1}
  NoValue = NoValue  NoType = NoType  NoCode = NoCode
  ClassOf <- Plain
  Code = {}
  Actor = {a1, a2}
  Slot = {0, 1}
  Hash <- ByTag
  BaseChoices <- Chain
  Tag0 = 1
  LastTag = 4
  Env = {"decref", "clear", "mro"}
INVARIANTS
  CacheCurrent
SYMMETRY Actors
