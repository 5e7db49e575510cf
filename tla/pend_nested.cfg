SPECIFICATION Spec
CONSTANTS
  Main = Main  worker = worker  NoThread = NoThread
  Thread = {Main, worker}
  NSIG = 2  SIGINT = 1
  Job = {}  NoCall = NoCall
  JobsOf <- NoJob
  Hosts = {Main}
  Interrupters = {Main}
  MayFail = FALSE
  NPENDINGCALLS = 2
  Py_CheckInterval = 0
  MaxScans = 2
INVARIANT SignalsSeen
