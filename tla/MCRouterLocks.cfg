CONSTANTS
  NoThread = NoThread
  Thread <- RouterThreads
  Mutex <- RouterMutexes
  Program <- RouterProgram
  Rank <- RouterRank
  MaxRank = 5
  Watched <- GuardedData
  Vanish = {"established"}
  Ends = {"router"}
SPECIFICATION Spec
INVARIANTS
  Disciplined
  Guarded
  NoDeadlock
VIEW View
