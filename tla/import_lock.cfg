SPECIFICATION FairSpec
CONSTANTS
  Thread = {t1, t2, t3, t4}
  NoThread = NoThread
  MaxLevel = 2
INVARIANTS
  TypeOK
  HolderOwns
  SleepsWithoutGIL
PROPERTIES
  ImplementsSemaphore
  LockTaken
  ChildImports
CHECK_DEADLOCK FALSE
