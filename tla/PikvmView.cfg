\* Two input events in each of two sessions of a window that may reconnect once.  Two
\* returns of the user, a hardware decoder that may fall back, a parser that holds one
\* access unit back and a decoder that holds another.
CONSTANTS
  MaxRuns = 2
  MaxInputs = 2
  Hardware = TRUE
  Delay = 2
  MaxWire = 1
  MaxEpochs = 3

SPECIFICATION PikvmFairSpec

INVARIANT EndedMeansQuiet
INVARIANT NothingLeftUnwritten
INVARIANT PictureIsSound

PROPERTY StopCompletes
PROPERTY ErrorEndsRun
PROPERTY ScreenCatchesUp
