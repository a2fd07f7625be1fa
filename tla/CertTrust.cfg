\* A certificate the system knows and two that it does not know, for a stored host of a
\* kind that has to be detected.
CONSTANTS
  Certs = {official, selfsigned, replaced}
  OsTrusted = {official}
  NoCert = NoCert
  HasHostId = TRUE
  AutoDetect = TRUE
  MaxTickets = 2
  MaxRuns = 2

SPECIFICATION FairSpec

\* The two threads can end up waiting for each other: a window that closes just before the
\* prompt is published.
CHECK_DEADLOCK FALSE

INVARIANT DialogHasCaller
INVARIANT SessionIsTrusted
INVARIANT AskedOnce
INVARIANT NothingOutlivesViewer

PROPERTY CloseEndsPrompt
