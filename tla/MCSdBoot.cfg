SPECIFICATION SdFairSpec
CONSTANTS
    Cards <- MCCards
    NoCard = "none"
    Disk <- MCDisk
    SectorLen = 2
    FatPerSector <- MCFatPerSector
    MinClusters = 4
    Fat32Clusters = 6
    Eoc <- MCEoc
    WordModulus = 64
    InitTimeout = 2
    TokenTimeout = 1
    HeaderLen = 1
    Payloads <- MCPayloads
    MaxWad = 3
INVARIANTS Delivered CardReleased
PROPERTIES CommandEnds
