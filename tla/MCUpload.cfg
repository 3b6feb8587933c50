SPECIFICATION UploadFairSpec
CONSTANTS
    Jobs <- MCJobs
    Payload <- MCPayload
    Byte <- MCByte
    RxDepth = 1
    MaxFaults = 3
INVARIANTS SoonAccepted
PROPERTIES AcceptedIsStored BothEnd
CHECK_DEADLOCK FALSE
