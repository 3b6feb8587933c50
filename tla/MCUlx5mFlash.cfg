SPECIFICATION Spec
CONSTANTS
    FlashBytes = 16
    SlotStart = 4
    SlotBytes = 8
    PageBytes = 2
    EraseBytes = 4
    BlockBytes = 3
    StreamMaxBytes = 5
    Byte <- MCByte
    Erased <- MCErased
    Files <- MCFiles
    CrcVal <- MCCrcVal
    Crc <- MCCrc
INVARIANTS SessionAgrees AcceptedInOrder SlotSession
PROPERTIES VerifiedReadBack
