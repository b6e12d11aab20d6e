SPECIFICATION Spec
CONSTANTS
  Versions = {1, 2}
  Count = 4
  Profiles <- OutputProfiles
  BadImage = BadImage
  NoSnapshot = NoSnapshot
  MaxCrashes = 3
PROPERTY RestoreKeepsFiles
