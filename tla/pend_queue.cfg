SPECIFICATION Spec
CONSTANTS
  Main = Main  worker = worker  NoThread = NoThread
  Thread = {Main, worker}
  NSIG = 1  SIGINT = 1
  Job = {job}  NoCall = NoCall
  JobsOf <- WorkerJob
  Hosts = {worker}
  Interrupters = {worker}
  MayFail = TRUE
  NPENDINGCALLS = 3
  Py_CheckInterval = 0
  MaxScans = 0
INVARIANTS
  TypeOK
  CallsNoticed
PROPERTY ImplementsQueue
