CONSTANTS
    LastBlock = 3
    Gobacks = {1}
    Performable <- MCPerformable
    Debugged = {2}
    LastFile = 1
    Alters <- MCAlters
    MaxFrames = 5
SPECIFICATION Spec
INVARIANT ForwardRangesStayInside
INVARIANT GuardsAreExact
INVARIANT SortsFollowTheCalls
PROPERTY ImplementsPerformStack
