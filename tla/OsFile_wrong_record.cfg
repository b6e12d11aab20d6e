SPECIFICATION Spec
CONSTANTS
  a = a
  b = b
  Byte = {a, b}
  Zero = zero
  NoFile = NoFile
  Profiles <- MixedProfiles
  InitialDisks <- Disks
  MaxBytes = 4
  MaxCursor = 5
INVARIANT CurrentIsOnDisk
