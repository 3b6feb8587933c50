SPECIFICATION Spec
CONSTANTS
    Cell <- MCCell
    Erased = 1
    FlashBytes = 12
    PageBytes = 2
    EraseBytes = 6
    Slot = 4
    MaxBytes = 4
    Headers <- MCHeaders
    Flashes <- MCFlashes
    MaxDisturbs = 2
    Sync <- MCSync
    Crc <- MCCrc
    Native = 6
    NativeBytes = 3
    NativeCrc <- MCNativeCrc
CHECK_DEADLOCK FALSE
INVARIANTS DoneVerified FailClosed ReconfiguredVerified
