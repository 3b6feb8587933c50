SPECIFICATION Spec
CONSTANTS
    Protected = 1
    DiagnosticBytes = 4
    ImageBase = 4
    ImageLimit = 10
    HeapLimit = 14
    WadLimit = 16
    SdramBytes = 32
    BankBytes = 8
    FullTestBytes = 4
    QuickTestBytes = 2
    RandomTestBytes = 4
    WordCells = 1
    MaxUint = 64
    Val <- MCVal
    Zero = 0
    TestPattern <- MCTestPattern
    Headers <- MCHeaders
    WadHeaders <- MCWadHeaders
    CardWadBytes <- MCCardWadBytes
    CrcVal <- MCCrcVal
    ZeroCrc <- MCZeroCrc
    Crc <- MCCrc
    PayloadIsIwad <- MCPayloadIsIwad
    MinWadBytes = 1
    BackupAlignment = 2
    HeapTestBytes = 2
    SmokeTestBytes = 4
    ExecPayloadBytes = 1
    ExecReservedBytes = 2
    NativeSdr = TRUE
    PowerOnContents <- MCPowerOnContents
    StoreCells <- MCStoreCells
INVARIANTS RestartImageSound WadIntact
PROPERTIES LaunchVerified RestartPreserved LoadedUntouched HeapKept MonitorKept
