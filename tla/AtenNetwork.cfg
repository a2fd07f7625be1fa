\* At most two things on their way, drains of one message, one window that may reconnect once.
CONSTANTS
  MaxRuns = 2
  MaxDrain = 1
  MaxBusy = 1
  MaxQueue = 1

SPECIFICATION FairSpec

INVARIANT LoopIsAlive

PROPERTY StopCompletes
PROPERTY ImplementsLifecycle
