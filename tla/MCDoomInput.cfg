SPECIFICATION FairSpec
CONSTANTS
    Char <- MCChar
    Strokes <- MCStrokes
    TimeMod = 8
    Hold = 2
    EscapeTimeout = 1
    MaxFrame = 2
    MaxStrokes = 2
CHECK_DEADLOCK FALSE
PROPERTIES KeysPaired CtrlXExits
