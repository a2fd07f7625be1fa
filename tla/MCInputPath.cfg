CONSTANTS
  letter = letter
  shift = shift
  Keys <- MCKeys
  Plans <- MCPlans
  Risky <- MCRisky
  MaxSessions = 2
  MaxPresses = 2
  MaxPastes = 1

SPECIFICATION InputSpec

\* The user may have no key left to press and the host no session left to open.
CHECK_DEADLOCK FALSE

INVARIANT GuestAgrees
INVARIANT TypedStreamIsClean
INVARIANT TyperReleasesItsKeys
