SPECIFICATION Spec
CONSTANTS
  c1 = c1  c2 = c2  g1 = g1  g2 = g2  b1 = b1  n1 = n1
  Code = {c1, c2}
  Dict = {g1, b1}
  Exact = {g1, b1}
  Frame = {f1}
  Name = {n1}
  Value = {v1}
  Loads <- MCLoads
  Namespaces <- InBuiltins
  Refused = {c2}
  UsesTypes = {}
  JitModes = {"ALWAYS"}
  Env = {"collect", "merge_fails", "compile_fails", "nomem", "set_optimization", "print_ir"}
  NoCode = NoCode  NoDict = NoDict  NoValue = NoValue  NoIR = NoIR  Safe = Safe
  PY_HOTNESS_THRESHOLD = 0
  PY_MAX_FATALBAILCOUNT = 1
  MaxPending = 1
INVARIANTS
  TypeOK
  WatchersExact
  WatcherAssertionsHold
