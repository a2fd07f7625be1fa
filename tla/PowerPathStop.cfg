\* One action: the request that a stop finds under way.
CONSTANTS
  MaxActions = 1
  MaxRuns = 1
  HoldTicks = 2
  PulseTicks = 1
  Reported = {"Off"}

SPECIFICATION FairSpec

PROPERTY StopAbortsRequest
