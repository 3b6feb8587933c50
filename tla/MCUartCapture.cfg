SPECIFICATION FairSpec
CONSTANTS
    CaptureBytes = 4
    RxDepth = 2
    MaxBytes = 6
INVARIANTS NoEmptyRead CaptureFresh
PROPERTIES InOrder RingIsFifo NoByteStuck
