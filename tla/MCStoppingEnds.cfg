\* One run, and a user who quits while it settles.
CONSTANTS
  LocalFolders = {photos}
  RemoteFolders = {}
  Simple = {plain}
  Advanced = {}
  Unfinished = {}
  MaxTwists = 3
  MaxRuns = 1
  NoPlan = NoPlan
SPECIFICATION Spec
PROPERTIES
  StoppingEnds
CHECK_DEADLOCK FALSE
