SPECIFICATION Spec
CONSTANTS
  Programs = {1, 2}
  MinOf <- MCMinOf
  MaxOf <- MCMaxOf
  StartOf <- MCStartOf
  Top = 3
  Data = {0, 1}
  Value = 0
  Absent = Absent
  Profiles <- MCProfiles
INVARIANT ActiveCellsExist
INVARIANT FreshUntilWritten
INVARIANT CountsAgree
INVARIANT SearchIsRight
PROPERTY SearchNeverFails
PROPERTY SearchEnds
CHECK_DEADLOCK FALSE
