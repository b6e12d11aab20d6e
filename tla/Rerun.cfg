SPECIFICATION Spec
CONSTANTS
  Versions = {1, 2}
  Count = 4
  Profiles <- AllProfiles
  BadImage = BadImage
  NoSnapshot = NoSnapshot
  MaxCrashes = 3
INVARIANT StorageInStep
INVARIANT OutInStep
INVARIANT DoneIsComplete
PROPERTY RestartFindsCheckpoint
PROPERTY JobFinishes
