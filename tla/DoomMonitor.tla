---------------------------- MODULE DoomMonitor ----------------------------
(***************************************************************************)
(* The resident monitor as the owner of external memory: it receives or    *)
(* reads a Doom image and an IWAD, keeps a verified copy of the image,     *)
(* launches the program, and runs memory tests that destroy what they      *)
(* touch.  The monitor is one thread that runs each command to its end, so *)
(* a command is one action unless it changes the validity flags first and  *)
(* fails later; those are split where a reset would see the difference.    *)
(***************************************************************************)
EXTENDS Sdram

CONSTANTS
    Headers,               \* the H3IMG headers a host or a card may send
    WadHeaders,            \* the H3WAD headers a host may send
    CardWadBytes,          \* sizes DOOM.WAD may have on the card
    CrcVal, ZeroCrc,       \* checksum values, and that of a cleared header
    Crc(_),                \* CRC-32 of a region's contents
    PayloadIsIwad(_),      \* payload_is_valid: magic, directory and lumps
    MinWadBytes,           \* WAD_HEADER_BYTES
    BackupAlignment,       \* IMAGE_BACKUP_ALIGNMENT
    HeapTestBytes, SmokeTestBytes,   \* what the two heap tests allocate
    ExecPayloadBytes, ExecReservedBytes,
    NativeSdr,             \* a build that tries the card at cold boot
    PowerOnContents,       \* what memory may hold when power comes up
    StoreCells             \* the cells the launched program may store to

VARIABLES
    pc,                    \* what the monitor is in the middle of
    ready,                 \* HAZARD3_VIDEO_STATUS_SDRAM_READY
    mem,
    image_loaded, image_restart_ready, image_backup_address,
    loaded_header,
    wad_loaded, wad_header,
    heap_current,          \* sdram_heap_current
    stray                  \* history: cells of a loaded image's copy or IWAD
                           \* that the program overwrote

image_vars == <<image_loaded, image_restart_ready, image_backup_address,
                loaded_header>>
wad_vars == <<wad_loaded, wad_header>>
vars == <<pc, ready, mem, image_vars, wad_vars, heap_current, stray>>

ImageHeader ==
    [wellformed    : BOOLEAN,  \* magic, sizes, version, flags, reserved words
     load_address  : Uint,
     image_bytes   : Uint,
     entry_address : Uint,
     bss_address   : Uint,
     bss_bytes     : Uint,
     payload_crc32 : CrcVal]

WadHeader ==
    [wellformed    : BOOLEAN,
     load_address  : Uint,
     wad_bytes     : Uint,
     payload_crc32 : CrcVal]

ASSUME HeaderAssumption ==
    /\ Headers \subseteq ImageHeader
    /\ WadHeaders \subseteq WadHeader
    /\ CardWadBytes \subseteq Uint
    /\ ZeroCrc \in CrcVal
    /\ \A n \in 0 .. (WadLimit - WadBase) :
         \A f \in [0 .. (n - 1) -> Val] : Crc(f) \in CrcVal
    /\ MinWadBytes \in Nat \ {0}
    /\ BackupAlignment \in Nat \ {0}

ASSUME HeapTestAssumption ==
    /\ HeapTestBytes \in 1 .. (HeapLimit - HeapBase)
    /\ SmokeTestBytes \in 1 .. (HeapLimit - HeapBase)
    /\ ExecPayloadBytes \in Nat /\ ExecReservedBytes \in Nat
    /\ ExecPayloadBytes + ExecReservedBytes < ImageLimit - ImageBase
    /\ NativeSdr \in BOOLEAN
    /\ StoreCells \subseteq Addr
    /\ PowerOnContents \subseteq [Addr -> Val]

-----------------------------------------------------------------------------
(* The image format.                                                       *)

range_is_valid(address, byte_count) ==
    /\ address >= ImageBase
    /\ address <= ImageLimit
    /\ byte_count <= ImageLimit - address

header_is_valid(header) ==
    LET load_end == AddUint(header.load_address, header.image_bytes)
        bss_end == AddUint(header.bss_address, header.bss_bytes) IN
    /\ header.wellformed
    /\ header.load_address = ImageBase
    /\ header.image_bytes # 0
    /\ range_is_valid(header.load_address, header.image_bytes)
    /\ range_is_valid(header.bss_address, header.bss_bytes)
    /\ header.entry_address >= header.load_address
    /\ header.entry_address < load_end
    /\ header.bss_address >= load_end
    /\ header.bss_address % WordCells = 0
    /\ bss_end <= ImageLimit

align_down(value, alignment) == value - (value % alignment)

BackupAddressOf(header) ==
    align_down(ImageLimit - header.image_bytes, BackupAlignment)

\* Fault: the check against active_end is missing.
BackupFitsAnywhere(header) ==
    LET backup_address == BackupAddressOf(header) IN
    /\ backup_address >= ImageBase
    /\ AddUint(backup_address, header.image_bytes) <= ImageLimit

\* The copy must start after the program's bss and end inside the region.
BackupFits(header) ==
    LET active_end == AddUint(header.bss_address, header.bss_bytes)
        backup_address == BackupAddressOf(header) IN
    /\ backup_address >= active_end
    /\ backup_address >= ImageBase
    /\ AddUint(backup_address, header.image_bytes) <= ImageLimit

\* Fault: the image comes back over a dirty bss.
RestoredWithDirtyBss(m, header, backup_address) ==
    copy_memory(m, header.load_address, backup_address, header.image_bytes)

\* Memory after restore_image_from_backup copied the image and cleared bss.
Restored(m, header, backup_address) ==
    clear_bss(copy_memory(m, header.load_address, backup_address,
                          header.image_bytes),
              header.bss_address, header.bss_bytes)

ImageCrc(m, header) == Crc(Contents(m, header.load_address, header.image_bytes))

wad_header_is_valid(header) ==
    /\ header.wellformed
    /\ header.load_address = WadBase
    /\ header.wad_bytes >= MinWadBytes
    /\ header.wad_bytes <= WadLimit - WadBase

WadContents(m, header) == Contents(m, header.load_address, header.wad_bytes)

ImageWindow == Region(ImageBase, ImageLimit - ImageBase)
WadWindow == Region(WadBase, WadLimit - WadBase)
BackupCells == Region(image_backup_address, loaded_header.image_bytes)
ProgramCells ==
    Region(loaded_header.load_address, loaded_header.image_bytes)
      \cup Region(loaded_header.bss_address, loaded_header.bss_bytes)
      \cup Region(HeapBase, heap_current - HeapBase)
LoadedWadCells == Region(wad_header.load_address, wad_header.wad_bytes)

-----------------------------------------------------------------------------
(* Reset and boot.                                                         *)

\* .bss after start.S and main's sdram_heap_init.
ClearedHeader ==
    [wellformed |-> FALSE, load_address |-> 0, image_bytes |-> 0,
     entry_address |-> 0, bss_address |-> 0, bss_bytes |-> 0,
     payload_crc32 |-> ZeroCrc]

ClearedWadHeader ==
    [wellformed |-> FALSE, load_address |-> 0, wad_bytes |-> 0,
     payload_crc32 |-> ZeroCrc]

Init ==
    /\ pc = "boot"
    /\ ready = FALSE
    /\ mem \in PowerOnContents
    /\ image_loaded = FALSE
    /\ image_restart_ready = FALSE
    /\ image_backup_address = 0
    /\ loaded_header = ClearedHeader
    /\ wad_loaded = FALSE
    /\ wad_header = ClearedWadHeader
    /\ heap_current = HeapBase
    /\ stray = {}

\* A reset clears the monitor's own RAM and leaves external memory alone.
Reset ==
    /\ pc' = "boot"
    /\ ready' \in {ready, FALSE}
    /\ image_loaded' = FALSE
    /\ image_restart_ready' = FALSE
    /\ image_backup_address' = 0
    /\ loaded_header' = ClearedHeader
    /\ wad_loaded' = FALSE
    /\ wad_header' = ClearedWadHeader
    /\ heap_current' = HeapBase
    /\ stray' = {}
    /\ UNCHANGED mem

\* The memory controller finishes calibration.
Calibrate ==
    /\ ~ready
    /\ ready' = TRUE
    /\ UNCHANGED <<pc, mem, image_vars, wad_vars, heap_current, stray>>

\* main: with memory in time, the quick test and, on native SDR builds, the
\* card; after the timeout, the prompt.
BootReady ==
    /\ pc = "boot"
    /\ ready
    /\ mem' = Scribble(mem, SequentialCells(QuickTestBytes))
    /\ pc' = IF NativeSdr THEN "sd_open" ELSE "poll"
    /\ UNCHANGED <<ready, image_vars, wad_vars, heap_current, stray>>

BootTimeout ==
    /\ pc = "boot"
    /\ ~ready
    /\ pc' = "poll"
    /\ UNCHANGED <<ready, mem, image_vars, wad_vars, heap_current, stray>>

-----------------------------------------------------------------------------
(* Receiving an image: `l' from the UART, or DOOM.IMG from the card.       *)

image_invalidate ==
    /\ image_loaded' = FALSE
    /\ image_restart_ready' = FALSE
    /\ image_backup_address' = 0

ImageReceive ==
    /\ pc = "poll"
    /\ ready
    /\ image_invalidate
    /\ pc' = "image_uart"
    /\ UNCHANGED <<ready, mem, loaded_header, wad_vars, heap_current, stray>>

\* `b', or main at cold boot.
SdBoot ==
    /\ pc = "poll"
    /\ ready
    /\ pc' = "sd_open"
    /\ UNCHANGED <<ready, mem, image_vars, wad_vars, heap_current, stray>>

\* No card, no file system or no DOOM.IMG: what was loaded before stays.
SdOpenFails ==
    /\ pc = "sd_open"
    /\ pc' = "poll"
    /\ UNCHANGED <<ready, mem, image_vars, wad_vars, heap_current, stray>>

SdOpen ==
    /\ pc = "sd_open"
    /\ image_invalidate
    /\ pc' = "image_sd"
    /\ UNCHANGED <<ready, mem, loaded_header, wad_vars, heap_current, stray>>

ReceivingImage == pc \in {"image_uart", "image_sd"}

\* Header timeout or read error, or a header that is not valid.
ImageHeaderFails ==
    /\ ReceivingImage
    /\ pc' = "poll"
    /\ UNCHANGED <<ready, mem, image_vars, wad_vars, heap_current, stray>>

\* The payload stops after byte_count bytes.
ImagePayloadFails ==
    /\ ReceivingImage
    /\ \E header \in Headers :
         /\ header_is_valid(header)
         /\ \E byte_count \in 0 .. (header.image_bytes - 1) :
              \E payload \in [0 .. (byte_count - 1) -> Val] :
                mem' = Store(mem, header.load_address, payload, byte_count)
    /\ pc' = "poll"
    /\ UNCHANGED <<ready, image_vars, wad_vars, heap_current, stray>>

ImageCrcFails ==
    /\ ReceivingImage
    /\ \E header \in Headers :
         /\ header_is_valid(header)
         /\ \E payload \in [0 .. (header.image_bytes - 1) -> Val] :
              LET m == Store(mem, header.load_address, payload,
                             header.image_bytes) IN
              /\ ImageCrc(m, header) # header.payload_crc32
              /\ mem' = m
    /\ pc' = "poll"
    /\ UNCHANGED <<ready, image_vars, wad_vars, heap_current, stray>>

\* prepare_image_backup and restore_image_from_backup on memory m, which
\* holds a payload whose checksum is right.
PreserveImage(header, m) ==
    LET backup_address == BackupAddressOf(header)
        copied == copy_memory(m, backup_address, header.load_address,
                              header.image_bytes)
        restored == Restored(copied, header, backup_address)
        prepared == /\ BackupFits(header)
                    /\ Crc(Contents(copied, backup_address,
                                    header.image_bytes))
                         = header.payload_crc32
        verified == prepared /\ ImageCrc(restored, header)
                                  = header.payload_crc32 IN
    /\ mem' = IF prepared THEN restored
              ELSE IF BackupFits(header) THEN copied ELSE m
    /\ image_backup_address' = IF prepared THEN backup_address ELSE 0
    /\ image_restart_ready' = verified
    /\ image_loaded' = verified
    /\ pc' = IF verified /\ pc = "image_sd" THEN "wad_open" ELSE "poll"

ImageComplete ==
    /\ ReceivingImage
    /\ \E header \in Headers :
         /\ header_is_valid(header)
         /\ \E payload \in [0 .. (header.image_bytes - 1) -> Val] :
              LET m == Store(mem, header.load_address, payload,
                             header.image_bytes) IN
              /\ ImageCrc(m, header) = header.payload_crc32
              /\ PreserveImage(header, m)
         /\ loaded_header' = header
    /\ stray' = stray \ ImageWindow
    /\ UNCHANGED <<ready, wad_vars, heap_current>>

-----------------------------------------------------------------------------
(* Receiving an IWAD: `w' from the UART, or DOOM.WAD from the card.        *)

WadReceive ==
    /\ pc = "poll"
    /\ ready
    /\ wad_loaded' = FALSE
    /\ pc' = "wad_uart"
    /\ UNCHANGED <<ready, mem, image_vars, wad_header, heap_current, stray>>

\* No DOOM.WAD, or a size out of bounds: an IWAD loaded before stays.
SdWadRefused ==
    /\ pc = "wad_open"
    /\ pc' = "poll"
    /\ UNCHANGED <<ready, mem, image_vars, wad_vars, heap_current, stray>>

CardHeader(wad_bytes, crc) ==
    [wellformed |-> TRUE, load_address |-> WadBase, wad_bytes |-> wad_bytes,
     payload_crc32 |-> crc]

\* The sizes load_raw_stream accepts.
CardSizes == {n \in CardWadBytes : wad_header_is_valid(CardHeader(n, ZeroCrc))}

SdWadOpen ==
    /\ pc = "wad_open"
    /\ CardSizes # {}
    /\ wad_loaded' = FALSE
    /\ pc' = "wad_sd"
    /\ UNCHANGED <<ready, mem, image_vars, wad_header, heap_current, stray>>

ReceivingWad == pc \in {"wad_uart", "wad_sd"}

\* What may be sent: the host's header, or one built from the file's size.
WadSizes ==
    IF pc = "wad_sd" THEN CardSizes
    ELSE {h.wad_bytes : h \in {w \in WadHeaders : wad_header_is_valid(w)}}

WadHeaderFails ==
    /\ pc = "wad_uart"
    /\ pc' = "poll"
    /\ UNCHANGED <<ready, mem, image_vars, wad_vars, heap_current, stray>>

\* The payload stops after byte_count bytes.
WadPayloadFails ==
    /\ ReceivingWad
    /\ \E wad_bytes \in WadSizes :
         \E byte_count \in 0 .. (wad_bytes - 1) :
           \E payload \in [0 .. (byte_count - 1) -> Val] :
             mem' = Store(mem, WadBase, payload, byte_count)
    /\ pc' = "poll"
    /\ UNCHANGED <<ready, image_vars, wad_vars, heap_current, stray>>

\* A whole payload with a wrong checksum or no IWAD structure.
WadRejected(header, payload) ==
    /\ Crc(payload) = header.payload_crc32 => ~PayloadIsIwad(payload)
    /\ mem' = Store(mem, header.load_address, payload, header.wad_bytes)
    /\ pc' = "poll"
    /\ UNCHANGED <<ready, image_vars, wad_vars, heap_current, stray>>

WadAccepted(header, payload) ==
    /\ Crc(payload) = header.payload_crc32
    /\ PayloadIsIwad(payload)
    /\ mem' = Store(mem, header.load_address, payload, header.wad_bytes)
    /\ wad_header' = header
    /\ wad_loaded' = TRUE
    /\ stray' = stray \ WadWindow
    /\ UNCHANGED <<ready, image_vars, heap_current>>

WadInvalid ==
    /\ pc = "wad_uart"
    /\ \E header \in WadHeaders :
         /\ wad_header_is_valid(header)
         /\ \E payload \in [0 .. (header.wad_bytes - 1) -> Val] :
              WadRejected(header, payload)

WadComplete ==
    /\ pc = "wad_uart"
    /\ \E header \in WadHeaders :
         /\ wad_header_is_valid(header)
         /\ \E payload \in [0 .. (header.wad_bytes - 1) -> Val] :
              WadAccepted(header, payload)
    /\ pc' = "poll"

\* The card carries no checksum: the loader computes the one it records.
SdWadInvalid ==
    /\ pc = "wad_sd"
    /\ \E wad_bytes \in CardSizes :
         \E payload \in [0 .. (wad_bytes - 1) -> Val] :
           WadRejected(CardHeader(wad_bytes, Crc(payload)), payload)

SdWadComplete ==
    /\ pc = "wad_sd"
    /\ \E wad_bytes \in CardSizes :
         \E payload \in [0 .. (wad_bytes - 1) -> Val] :
           WadAccepted(CardHeader(wad_bytes, Crc(payload)), payload)
    /\ pc' = "sd_launch"

-----------------------------------------------------------------------------
(* Launch: `j', or the end of an SD boot.                                  *)

LaunchRequested == (pc = "poll" /\ ready) \/ pc = "sd_launch"

LaunchRefused ==
    /\ LaunchRequested
    /\ ~image_loaded \/ ~wad_loaded
    /\ pc' = "poll"
    /\ UNCHANGED <<ready, mem, image_vars, wad_vars, heap_current, stray>>

\* hazard3_heap_reset, restore_image_from_backup and, when the checksum of
\* the restored image is right, the jump to the entry point.
Launch ==
    /\ LaunchRequested
    /\ image_loaded
    /\ wad_loaded
    /\ heap_current' = HeapBase
    /\ LET can_restore == image_restart_ready /\ image_backup_address # 0
           restored == Restored(mem, loaded_header, image_backup_address)
           verified == /\ can_restore
                       /\ ImageCrc(restored, loaded_header)
                            = loaded_header.payload_crc32 IN
       /\ mem' = IF can_restore THEN restored ELSE mem
       /\ image_restart_ready' = (image_restart_ready /\ (can_restore => verified))
       /\ image_loaded' = (can_restore => verified)
       /\ pc' = IF verified THEN "running" ELSE "poll"
    /\ UNCHANGED <<ready, image_backup_address, loaded_header, wad_vars, stray>>

\* _sbrk through the services table; a request that does not fit changes
\* nothing.
ProgramSbrk ==
    /\ pc = "running"
    /\ \E amount \in Uint \ {0} :
         /\ amount <= HeapLimit - heap_current
         /\ heap_current' = heap_current + amount
    /\ UNCHANGED <<pc, ready, mem, image_vars, wad_vars, stray>>

\* The program stores somewhere: in its own image, bss and heap, or, when it
\* is wrong, anywhere.
ProgramStore ==
    /\ pc = "running"
    /\ \E a \in StoreCells : \E v \in Val :
         /\ mem' = [mem EXCEPT ![a] = v]
         /\ stray' = IF a \in ProgramCells THEN stray ELSE stray \cup {a}
    /\ UNCHANGED <<pc, ready, image_vars, wad_vars, heap_current>>

ProgramReturn ==
    /\ pc = "running"
    /\ pc' = "poll"
    /\ UNCHANGED <<ready, mem, image_vars, wad_vars, heap_current, stray>>

\* An exception in the program: the handler spins until a reset.
ProgramTrap ==
    /\ pc = "running"
    /\ pc' = "halted"
    /\ UNCHANGED <<ready, mem, image_vars, wad_vars, heap_current, stray>>

-----------------------------------------------------------------------------
(* The memory tests of the prompt.                                         *)

\* `m': only the diagnostic window, so nothing is invalidated.
WindowTest ==
    /\ pc = "poll"
    /\ ready
    /\ mem' = Scribble(mem, SequentialCells(FullTestBytes))
    /\ UNCHANGED <<pc, ready, image_vars, wad_vars, heap_current, stray>>

\* Fault: the heap is not looked at.
destructive_test_allowed_on_heap == ready

destructive_test_allowed == ready /\ heap_current = HeapBase

\* Fault: the IWAD stays announced.
DestructiveTestKeepsWad(cells) ==
    /\ pc = "poll"
    /\ destructive_test_allowed
    /\ image_invalidate
    /\ mem' = Scribble(mem, cells)
    /\ UNCHANGED <<pc, ready, loaded_header, wad_vars, heap_current, stray>>

DestructiveTest(cells) ==
    /\ pc = "poll"
    /\ destructive_test_allowed
    /\ image_invalidate
    /\ wad_loaded' = FALSE
    /\ mem' = Scribble(mem, cells)
    /\ UNCHANGED <<pc, ready, loaded_header, wad_header, heap_current, stray>>

\* `a', `r' and `q'.
SparseTest == DestructiveTest(SparseCells)
RandomTest == DestructiveTest(RandomCells)
Qualification ==
    DestructiveTest(SequentialCells(FullTestBytes) \cup SparseCells
                      \cup RandomCells)

\* Fault: the image stays announced.
ExecTestKeepsImage ==
    /\ pc = "poll"
    /\ ready
    /\ mem' = Scribble(mem, Region(ImageBase, ExecPayloadBytes) \cup
                 Region(ImageLimit - ExecReservedBytes, ExecReservedBytes))
    /\ UNCHANGED <<pc, ready, image_vars, wad_vars, heap_current, stray>>

\* `x': the payload at the image base, its data at the end of the region.
ExecTest ==
    /\ pc = "poll"
    /\ ready
    /\ image_invalidate
    /\ mem' = Scribble(mem, Region(ImageBase, ExecPayloadBytes) \cup
                 Region(ImageLimit - ExecReservedBytes, ExecReservedBytes))
    /\ UNCHANGED <<pc, ready, loaded_header, wad_vars, heap_current, stray>>

\* The blocks are filled with patterns and read back.
HeapFill(byte_count) == mem' = Scribble(mem, Region(HeapBase, byte_count))

\* `k' and `d': allocate from an idle heap, write the blocks, keep them.
HeapAllocationTest(byte_count) ==
    /\ pc = "poll"
    /\ ready
    /\ heap_current = HeapBase
    /\ heap_current' = HeapBase + byte_count
    /\ HeapFill(byte_count)
    /\ UNCHANGED <<pc, ready, image_vars, wad_vars, stray>>

HeapTest == HeapAllocationTest(HeapTestBytes)
SmokeTest == HeapAllocationTest(SmokeTestBytes)

\* `z'.
HeapReset ==
    /\ pc = "poll"
    /\ heap_current' = HeapBase
    /\ UNCHANGED <<pc, ready, mem, image_vars, wad_vars, stray>>

-----------------------------------------------------------------------------
Next ==
    \/ Reset \/ Calibrate \/ BootReady \/ BootTimeout
    \/ ImageReceive \/ SdBoot \/ SdOpenFails \/ SdOpen
    \/ ImageHeaderFails \/ ImagePayloadFails \/ ImageCrcFails \/ ImageComplete
    \/ WadReceive \/ SdWadRefused \/ SdWadOpen
    \/ WadHeaderFails \/ WadPayloadFails \/ WadInvalid \/ WadComplete
    \/ SdWadInvalid \/ SdWadComplete
    \/ LaunchRefused \/ Launch
    \/ ProgramSbrk \/ ProgramStore \/ ProgramReturn \/ ProgramTrap
    \/ WindowTest \/ SparseTest \/ RandomTest \/ Qualification
    \/ ExecTest \/ HeapTest \/ SmokeTest \/ HeapReset

Spec == Init /\ [][Next]_vars

-----------------------------------------------------------------------------
(* Properties.                                                             *)

PCs == {"boot", "poll", "sd_open", "image_uart", "image_sd", "wad_open",
        "wad_uart", "wad_sd", "sd_launch", "running", "halted"}

\* Every variable stays in the range of the C variable it stands for; the
\* heap break stays inside the heap.
TypeOK ==
    /\ pc \in PCs
    /\ ready \in BOOLEAN
    /\ mem \in [Addr -> Val]
    /\ image_loaded \in BOOLEAN
    /\ image_restart_ready \in BOOLEAN
    /\ image_backup_address \in Uint
    /\ loaded_header \in ImageHeader
    /\ wad_loaded \in BOOLEAN
    /\ wad_header \in WadHeader
    /\ heap_current \in HeapBase .. HeapLimit
    /\ stray \subseteq Addr

\* While a restart image is announced, a launch is possible exactly when it
\* is (image_loaded), its copy lies after the program's bss inside the image
\* region, and unless the program itself overwrote the copy it still has the
\* checksum of the header: no test, upload, heap use or failed load spoils it,
\* and none is announced while another is being received over it
\* (image_restart_ready in doom_image_loader.c).
RestartImageSound ==
    /\ image_restart_ready = image_loaded
    /\ ReceivingImage => ~image_restart_ready
    /\ pc = "running" => image_restart_ready
    /\ image_restart_ready =>
         /\ header_is_valid(loaded_header)
         /\ image_backup_address >=
              loaded_header.bss_address + loaded_header.bss_bytes
         /\ image_backup_address + loaded_header.image_bytes <= ImageLimit
         /\ stray \cap BackupCells = {} =>
              Crc(Contents(mem, image_backup_address,
                           loaded_header.image_bytes))
                = loaded_header.payload_crc32

\* While an IWAD is announced, memory holds an IWAD of the recorded size and
\* checksum, unless the program overwrote it: nothing re-checks the IWAD at
\* launch, so every command that may destroy it must withdraw wad_loaded.
WadIntact ==
    wad_loaded =>
      /\ ~ReceivingWad
      /\ wad_header_is_valid(wad_header)
      /\ stray \cap LoadedWadCells = {} =>
           /\ PayloadIsIwad(WadContents(mem, wad_header))
           /\ Crc(WadContents(mem, wad_header)) = wad_header.payload_crc32

\* Control reaches the program only with the image the header describes,
\* a cleared bss, an empty heap and an IWAD in place
\* (doom_image_loader_launch).
LaunchVerified ==
    [][pc # "running" /\ pc' = "running" =>
        /\ image_loaded /\ wad_loaded
        /\ ImageCrc(mem', loaded_header) = loaded_header.payload_crc32
        /\ loaded_header.entry_address \in
             Region(loaded_header.load_address, loaded_header.image_bytes)
        /\ \A a \in Region(loaded_header.bss_address,
                           loaded_header.bss_bytes) : mem'[a] = Zero
        /\ heap_current' = HeapBase]_vars

\* `j' restarts a loaded game however the last run ended, as the message after
\* every run promises, unless that run overwrote the copy itself.
RestartPreserved ==
    [][Launch /\ stray \cap BackupCells = {} => pc' = "running"]_vars

\* Between loads, only the program changes the active image, its copy or the
\* IWAD: a command that keeps them announced leaves them alone.
LoadedUntouched ==
    [][pc # "running" /\ pc' # "running" =>
        /\ (image_loaded /\ image_loaded') =>
             \A a \in BackupCells \cup Region(loaded_header.load_address,
                                              loaded_header.image_bytes) :
               mem'[a] = mem[a]
        /\ (wad_loaded /\ wad_loaded') =>
             \A a \in LoadedWadCells : mem'[a] = mem[a]]_vars

\* Allocated heap cells change only at the hands of the program: no test of
\* the prompt runs over a heap in use (sdram_destructive_test_allowed).
HeapKept ==
    [][pc # "running" =>
        \A a \in Region(HeapBase, heap_current - HeapBase) :
          mem'[a] = mem[a]]_vars

\* On the 12F the monitor runs from the low cells of the same memory: no test
\* or load of its own changes them.
MonitorKept ==
    [][pc # "running" =>
        \A a \in Region(0, Protected) : mem'[a] = mem[a]]_vars

=============================================================================
