CONSTANTS
  NoThread = NoThread
  Thread <- RouterThreads
  Mutex <- RouterMutexes
  Program <- RouterProgram
  Rank <- RouterRank
  MaxRank = 5
  Watched <- GuardedData
  Vanish = {}
  Ends = {"router", "transport"}
SPECIFICATION Spec
INVARIANTS
  NoDeadlock
VIEW View
