SPECIFICATION FairSpec
CONSTANTS
  Main = Main  worker = worker  NoThread = NoThread
  Thread = {Main, worker}
  NSIG = 2  SIGINT = 1
  Job = {}  NoCall = NoCall
  JobsOf <- NoJob
  Hosts = {Main}
  Interrupters = {}
  MayFail = FALSE
  NPENDINGCALLS = 2
  Py_CheckInterval = 1
  MaxScans = 0
PROPERTY AllDone
