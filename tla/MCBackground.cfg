\* Two scheduler processes and a desktop on one profile.
CONSTANTS
  NumProfiles = 1
  Schedulers = {s1, s2}
  Desktops = {d1}
  FirstEndpoints <- Pair
  Endpoints <- TwoPairs
  Sharing = {TRUE, FALSE}
  Interval = 1
  MaxTime = 2
  MaxRuns = 1
  MaxRunId = 4
  MaxTwists = 2
SPECIFICATION Spec
SYMMETRY SchedulerSymmetry
INVARIANTS
  OneRunPerOccurrence
  MovesOnlyAuthorized
  SharedRunsDisjoint
  LiveRunIsKept
  ScheduledRunsAccounted
PROPERTIES
  LocksImplemented
CHECK_DEADLOCK FALSE
