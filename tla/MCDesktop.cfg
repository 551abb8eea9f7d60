\* Two pairs of local folders, one with an SSH peer.
CONSTANTS
  LocalFolders = {photos, music}
  RemoteFolders = {server}
  Simple = {plain}
  Advanced = {tuned}
  Unfinished = {nameless}
  MaxTwists = 3
  MaxRuns = 2
  NoPlan = NoPlan
SPECIFICATION Spec
INVARIANTS
  ConsentUsedOnce
PROPERTIES
  StartsWhatIsShown
  QuitsOnlySettled
  ChecksEnd
CHECK_DEADLOCK FALSE
