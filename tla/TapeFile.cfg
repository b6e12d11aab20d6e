SPECIFICATION Spec
CONSTANTS
  a = a
  b = b
  Space = space
  NewLine = newline
  FormFeed = formfeed
  Skips <- SkipLines
  NoImage = NoImage
  BadImage = BadImage
  Record <- Records
  RecLens = {0, 1, 2}
  Profiles <- AllProfiles
  InitialImages <- Images
  MaxRecords = 4
INVARIANT VectorIsTape
INVARIANT PagesFit
INVARIANT StatusTellsFailure
PROPERTY ClosingKeepsTape
PROPERTY RefinesSequentialFile
