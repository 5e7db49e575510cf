SPECIFICATION Spec
CONSTANTS
  c1 = c1  c2 = c2  g1 = g1  g2 = g2  b1 = b1  n1 = n1
  Code = {c1}
  Dict = {g1, b1}
  Exact = {g1, b1}
  Frame = {f1, f2}
  Name = {n1}
  Value = {v1, v2}
  Loads <- MCLoads
  Namespaces <- OneNamespace
  Refused = {}
  UsesTypes = {c1}
  JitModes = {"WHENHOT"}
  Env = {"decref"}
  NoCode = NoCode  NoDict = NoDict  NoValue = NoValue  NoIR = NoIR  Safe = Safe
  PY_HOTNESS_THRESHOLD = 1
  PY_MAX_FATALBAILCOUNT = 1
  MaxPending = 1
SYMMETRY Interchangeable
INVARIANTS
  StaleOnlyWhilePending
  EntryAssertionsHold
  AddedOnce
PROPERTY ImplementsLife
