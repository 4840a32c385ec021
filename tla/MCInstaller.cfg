SPECIFICATION Spec
CONSTANTS
  TroubleSites = {"fetch", "download", "extract", "get", "write", "manifest", "directory", "rename", "cancel", "crash"}
  MaxTroubles = 2
  DataFiles = {"a", "b", "c"}
  Releases <- MCReleases
  Downloaders = {1, 2}
  Files = 3
  Added = {3}
  MaxRelease = 2
INVARIANTS
  TypeOK
  SkipsOnlyInstalled
  AllOrNothing
  RestartUpdates
PROPERTY EventuallySynced
