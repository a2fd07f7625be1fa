\* Two hosts with two addresses, of which one may be there at the start.
CONSTANTS
  MaxHosts = 2
  Addresses = {1, 2}
  Credentials = {1}
  MaxDeeds = 4
  MaxProbes = 2

SPECIFICATION LauncherSpec

INVARIANT ListIsSound

PROPERTY OfflineNeedsTwoFailures
CHECK_DEADLOCK FALSE
