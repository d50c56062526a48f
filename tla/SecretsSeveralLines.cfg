\* values of several lines
SPECIFICATION Spec
CONSTANTS
    Names <- MCNames
    Values <- SeveralLines
    Eq <- MCEq
    Newline <- MCNewline
    Symbols <- MCSymbols
    Readings <- Mounted
INVARIANTS
    LiveIsTrue
