\* values of one line
SPECIFICATION Spec
CONSTANTS
    Names <- MCNames
    Values <- OneLine
    Eq <- MCEq
    Newline <- MCNewline
    Symbols <- MCSymbols
    Readings <- Either
INVARIANTS
    LiveIsTrue CurrentIsLive
