SPECIFICATION Spec
CONSTANTS
    Char <- MCChar
    Strokes <- MCArrows
    TimeMod = 8
    Hold = 2
    EscapeTimeout = 1
    MaxFrame = 2
    MaxStrokes = 1
CHECK_DEADLOCK FALSE
INVARIANTS EscapeMeant
