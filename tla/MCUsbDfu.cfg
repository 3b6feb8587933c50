SPECIFICATION FairSpec
CONSTANTS
    BlockLen = 2
    PageLen = 1
    FlashLen = 8
    Zones <- MCZones
    Boot = 5
    Retries = 4
    Missing = {"bits", "scheme"}
    Files <- MCFiles
INVARIANTS StreamInOrder ManifestVerified
PROPERTIES Flushed BootloaderKept
