SPECIFICATION Spec
CONSTANTS
  a = a
  b = b
  Record <- Records
  MaxRecords = 3
INVARIANT CurrentIsInPlace
PROPERTY RefinesSequentialFile
