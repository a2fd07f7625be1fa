\* Two runs of the window, the code's five attempts per run and a BMC with the registration
\* race.  A viewer that types twice and presses power once, and a BMC that is quiet while
\* three packets wait for it.  A queue of two frames, and two changes of the picture.
CONSTANTS
  MaxRuns = 2
  MaxValidationRetries = 5
  BmcCommitsLate = TRUE
  MaxInput = 2
  MaxPower = 1
  MaxQueue = 2
  HasWebToken = TRUE
  top = top
  bottom = bottom
  Regions <- MCRegions
  Console = Console
  Garbage = Garbage
  White = White
  Backend = "megarac"
  MaxQueued = 2
  MaxVersion = 2

SPECIFICATION MegaracFairSpec

INVARIANT EndedMeansQuiet
INVARIANT ReportIsOfThisRun
INVARIANT InputReachesLiveSession
INVARIANT StopIsNotLost
INVARIANT AcceptedIsSent
INVARIANT StopOvertakesQueue
INVARIANT InSyncOrRefreshing
INVARIANT ScreenShowsPicture

PROPERTY ImplementsLifecycle
PROPERTY EndIsReported
PROPERTY StopEndsSession
PROPERTY PictureRecovers
