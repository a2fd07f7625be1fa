\* One action on a connection that the log-in has left.
CONSTANTS
  MaxActions = 1
  MaxRuns = 1
  HoldTicks = 2
  PulseTicks = 1
  Reported = {"Off"}

SPECIFICATION FairSpec

INVARIANT NeverPressedTwice
