CONSTANTS
  Certs = {official, selfsigned}
  OsTrusted = {official}
  NoCert = NoCert
  HasHostId = TRUE
  AutoDetect = FALSE
  MaxTickets = 1
  MaxRuns = 1

SPECIFICATION FairSpec

\* The deadlock of the two threads is what the property is about.
CHECK_DEADLOCK FALSE

PROPERTY StopCompletes
