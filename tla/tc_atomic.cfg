SPECIFICATION Spec
CONSTANTS
  obj = obj  A = A  B = B  C = C  D = D  E = E  F = F  m = m  g = g  v1 = v1  v2 = v2
  Type = {obj, A, B, C}
  Object = obj
  Legacy = {}
  Name = {m}
  Cacheable = {m}
  Getter = m
  Value = {v1}
  NoValue = NoValue  NoType = NoType  NoCode = NoCode
  ClassOf <- Plain
  Code = {c1}
  Actor = {a1}
  Slot = {0, 1}
  Hash <- ByTag
  BaseChoices <- Lattice
  Tag0 = 1
  LastTag = 5
  Env = {"fails"}
INVARIANTS
  TypeOK
  TagsOrdered
  TagsUnique
  CacheCurrent
  NativeCurrent
  OrdersCurrent
