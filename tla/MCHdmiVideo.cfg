SPECIFICATION VideoSpec
CONSTANTS
    Palettes = {"pal0", "pal1"}
    CountMod = 2
    MaxFrames = 4
    MaxResets = 1
CHECK_DEADLOCK FALSE
INVARIANTS FrameWhole SnipWhole
