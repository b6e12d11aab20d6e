CONSTANTS
    Programs = {"MAIN", "SUB", "LOW"}
    Main = "MAIN"
    Initials = {"SUB"}
    Items <- MCItems
    Groups <- MCGroups
    Formals <- MCFormals
    External = {"T"}
    Numeric <- MCNumeric
    SortFiles <- MCSortFiles
    Moves <- MCMoves
    Literals <- MCLiterals
    Calls <- MCCalls
    NoName = ""
    Releases <- MCReleases
    Returns <- MCReturns
    Rank <- MCRank
    BadKey = 9
    Blank = " "
    MaxDepth = 3
    MaxSorts = 2
    MaxReleased = 2
SPECIFICATION Spec
INVARIANT NamesAreStatic
PROPERTY OthersKeepTheirCells
INVARIANT SortDelivers
