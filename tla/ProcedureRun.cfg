CONSTANTS
    Names <- MCNames
    Texts <- MCTexts
    MaxDepth = 3
SPECIFICATION Spec
INVARIANT WarnedNeverRuns
INVARIANT AcceptedRuns
PROPERTY ThruIsLeftUnseen
CHECK_DEADLOCK FALSE
