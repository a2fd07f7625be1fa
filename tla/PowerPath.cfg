\* Two actions over two sessions, with the shortest hold and pulse, and
\* a host that is found switched off at some time.
CONSTANTS
  MaxActions = 2
  MaxRuns = 2
  HoldTicks = 2
  PulseTicks = 1
  Reported = {"Off"}

SPECIFICATION FairSpec

INVARIANT ClientHasOneUser
INVARIANT PressedTwiceOnlyIfLost

PROPERTY ConfirmedIsAnswered
PROPERTY TeardownEnds
