\* Three frames of one session, and a queue that holds two.
CONSTANTS
  MaxQueued = 2
  MaxFrames = 3
  MaxFeedbackSessions = 1

SPECIFICATION FeedbackSpec

CHECK_DEADLOCK FALSE

INVARIANT BacklogIsReported
