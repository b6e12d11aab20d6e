SPECIFICATION Spec
CONSTANTS
  a = a
  b = b
  Byte = {a, b}
  Zero = zero
  NoFile = NoFile
  Profiles <- AllProfiles
  InitialDisks <- Disks
  MaxBytes = 4
  MaxCursor = 5
INVARIANT BookkeepingAgrees
INVARIANT CurrentIsOnDiskUnlessMixed
INVARIANT CursorLocatesHandle
PROPERTY UpdateLosesNoOther
PROPERTY DispositionProtects
PROPERTY RefinesSequentialFile
