\* The desktop and one scheduler process, each with a registry of its own.
CONSTANTS
  NumProfiles = 1
  Schedulers = {s1}
  Desktops = {d1}
  FirstEndpoints <- Pair
  Endpoints <- TwoPairs
  Sharing = {FALSE}
  Interval = 1
  MaxTime = 1
  MaxRuns = 2
  MaxRunId = 4
  MaxTwists = 2
SPECIFICATION Spec
INVARIANTS
  RunsNeverOverlap
CHECK_DEADLOCK FALSE
