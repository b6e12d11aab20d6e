CONSTANTS
    Jobs <- MCJobs
    LengthOf <- MCLengthOf
    RowsOf <- MCRowsOf
    MaxBuffered = 3
    MaxBytes = 6
    MaxLines = 3
SPECIFICATION Spec
INVARIANT ReportAddsUp
INVARIANT OutputIsOfInput
INVARIANT VerdictIsOfInput
INVARIANT FramedRecordsDecode
PROPERTY Finishes
CHECK_DEADLOCK FALSE
