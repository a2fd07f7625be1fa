SPECIFICATION WireSpec
CONSTANTS
  CompactAt = 2
  PatternSize = 3
  Narrow = 2
  Fallback = 2
  MegaracFrames <- MCMegaracFrames
  MegaracSent = 3
  Offers <- MCOffers
  AtenMessages <- MCAtenMessages
  AtenSent = 3
  DrainLimit = 2
  MaxPattern = 2
  Surface <- MCSurface
  Places <- MCPlaces
  FrameSizes <- MCFrameSizes
  FallsShort <- MCFallsShort
  DefaultSize <- MCDefaultSize
  Buttons <- MCButtons
  KnownButtons <- MCKnownButtons
  AbsoluteMax = 5
  RelativeMax = 2
  Keys <- MCKeys
  KnownKeys <- MCKnownKeys
  Modifiers <- MCModifiers
  Slots = 2
  MaxLosses = 1
  MaxQueued = 2
  MaxFrames = 5
  MaxFeedbackSessions = 2
INVARIANT StreamIsWhole
INVARIANT ReportIsTheChange
INVARIANT HostHoldsWhatUserDoes
INVARIANT PointsWhereUserDoes
INVARIANT CursorReadsInside
CHECK_DEADLOCK FALSE
