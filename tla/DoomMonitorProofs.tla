------------------------- MODULE DoomMonitorProofs -------------------------
(***************************************************************************)
(* Type correctness of DoomMonitor, the soundness of the restart image and *)
(* the integrity of the IWAD, for every memory map, header set, checksum   *)
(* and program.  The three invariants together are inductive.  The action  *)
(* properties follow from them step by step; MonitorKept also needs what   *)
(* the address bits of the sparse test are, a recursive definition, whose  *)
(* recursion is shown to have a solution by the pigeonhole principle.      *)
(*                                                                         *)
(* The uploads that feed it (Upload): an undisturbed run is always in one  *)
(* of ten places, of which each step leads to the next; a run that a fault *)
(* has left behind hears nothing that it takes for an answer.  A run that  *)
(* began on a quiet line hears nothing but what the board says to it, what *)
(* ever is lost or reset.                                                  *)
(***************************************************************************)
EXTENDS DoomMonitor, Upload, FiniteSetTheorems, SequenceTheorems, TLAPS

-----------------------------------------------------------------------------
(* Regions of memory.                                                      *)

\* Two memories that agree on a region have the same contents there.
LEMMA ContentsSame ==
    ASSUME NEW m1, NEW m2, NEW b \in Nat, NEW n \in Nat,
           \A a \in Region(b, n) : m1[a] = m2[a]
    PROVE  Contents(m1, b, n) = Contents(m2, b, n)
<1>1. \A i \in 0 .. (n - 1) : b + i \in Region(b, n)
    BY DEF Region
<1>2. \A i \in 0 .. (n - 1) : m1[b + i] = m2[b + i]
    BY <1>1
<1> QED
    BY <1>2 DEF Contents

\* The contents of a region inside memory are cell values.
LEMMA ContentsType ==
    ASSUME NEW m \in [Addr -> Val], NEW b \in Nat, NEW n \in Nat,
           b + n <= WadLimit
    PROVE  Contents(m, b, n) \in [0 .. (n - 1) -> Val]
<1>1. \A i \in 0 .. (n - 1) : b + i \in Addr
    BY LayoutAssumption DEF Addr
<1> QED
    BY <1>1 DEF Contents

\* Storing a payload keeps memory well typed.
LEMMA StoreType ==
    ASSUME NEW m \in [Addr -> Val], NEW b \in Nat, NEW n \in Nat,
           NEW payload \in [0 .. (n - 1) -> Val]
    PROVE  Store(m, b, payload, n) \in [Addr -> Val]
<1>1. \A a \in Region(b, n) : a - b \in 0 .. (n - 1)
    BY DEF Region
<1> QED
    BY <1>1 DEF Store

\* Outside the region a store changes nothing.
LEMMA StoreFrame ==
    ASSUME NEW m, NEW b, NEW n, NEW payload, NEW a \in Addr,
           a \notin Region(b, n)
    PROVE  Store(m, b, payload, n)[a] = m[a]
BY DEF Store

\* Reading back what was stored.
LEMMA StoreContents ==
    ASSUME NEW m, NEW b \in Nat, NEW n \in Nat, b + n <= WadLimit,
           NEW payload \in [0 .. (n - 1) -> Val]
    PROVE  Contents(Store(m, b, payload, n), b, n) = payload
<1>1. ASSUME NEW i \in 0 .. (n - 1)
      PROVE  Store(m, b, payload, n)[b + i] = payload[i]
    <2>1. b + i \in Addr /\ b + i \in Region(b, n)
        BY LayoutAssumption DEF Addr, Region
    <2>2. (b + i) - b = i
        OBVIOUS
    <2> QED
        BY <2>1, <2>2 DEF Store
<1> QED
    BY <1>1 DEF Contents

\* Clearing keeps memory well typed and changes only its region.
LEMMA ClearFacts ==
    ASSUME NEW m \in [Addr -> Val], NEW b, NEW n
    PROVE  /\ clear_bss(m, b, n) \in [Addr -> Val]
           /\ \A a \in Addr \ Region(b, n) : clear_bss(m, b, n)[a] = m[a]
           /\ \A a \in Addr \cap Region(b, n) : clear_bss(m, b, n)[a] = Zero
BY CellAssumption DEF clear_bss

\* A test keeps memory well typed and changes only its cells.
LEMMA ScribbleFacts ==
    ASSUME NEW m \in [Addr -> Val], NEW cells
    PROVE  /\ Scribble(m, cells) \in [Addr -> Val]
           /\ \A a \in Addr \ cells : Scribble(m, cells)[a] = m[a]
BY CellAssumption DEF Scribble

\* A sequential test stays inside the diagnostic window, below the image.
LEMMA SequentialWindow ==
    ASSUME NEW requested \in Nat, NEW a \in SequentialCells(requested)
    PROVE  a < ImageBase /\ a >= Protected
BY LayoutAssumption DEF SequentialCells, Region, sequential_test_bytes

-----------------------------------------------------------------------------
(* The image format.                                                       *)

\* A valid header describes an image, then its bss, inside the image region,
\* and none of its 32-bit sums wraps.
LEMMA HeaderLayout ==
    ASSUME NEW header \in ImageHeader, header_is_valid(header)
    PROVE  /\ header.load_address = ImageBase
           /\ header.image_bytes \in Nat \ {0}
           /\ header.bss_address \in Nat /\ header.bss_bytes \in Nat
           /\ ImageBase + header.image_bytes <= header.bss_address
           /\ header.bss_address + header.bss_bytes <= ImageLimit
           /\ header.entry_address >= ImageBase
           /\ header.entry_address < ImageBase + header.image_bytes
           /\ AddUint(header.bss_address, header.bss_bytes)
                = header.bss_address + header.bss_bytes
BY LayoutAssumption
   DEF ImageHeader, header_is_valid, range_is_valid, AddUint, Uint

\* Rounding down does not go up, and not below zero.
LEMMA AlignDown ==
    ASSUME NEW v \in Nat, NEW k \in Nat \ {0}
    PROVE  align_down(v, k) \in Nat /\ align_down(v, k) <= v
<1>1. v % k \in 0 .. (k - 1)
    OBVIOUS
<1>2. v = k * (v \div k) + (v % k) /\ v \div k \in Nat
    OBVIOUS
<1>3. k * (v \div k) \in Nat
    BY <1>2
<1> QED
    BY <1>1, <1>2, <1>3 DEF align_down

\* Where prepare_image_backup puts the copy: after the bss, inside the region.
LEMMA BackupLayout ==
    ASSUME NEW header \in ImageHeader, header_is_valid(header),
           BackupFits(header)
    PROVE  /\ BackupAddressOf(header) \in Uint
           /\ BackupAddressOf(header) >= header.bss_address + header.bss_bytes
           /\ BackupAddressOf(header) + header.image_bytes <= ImageLimit
           /\ BackupAddressOf(header) # 0
<1> DEFINE backup == BackupAddressOf(header)
<1>1. ImageLimit - header.image_bytes \in Nat
    BY HeaderLayout, LayoutAssumption
<1>2. backup \in Nat /\ backup <= ImageLimit - header.image_bytes
    BY <1>1, AlignDown, HeaderAssumption DEF BackupAddressOf
<1>3. backup >= header.bss_address + header.bss_bytes
    BY HeaderLayout DEF BackupFits
<1> HIDE DEF backup
<1> QED
    BY <1>2, <1>3, HeaderLayout, LayoutAssumption DEF backup, Uint

\* What restore_image_from_backup leaves: the copy as it was, the image equal
\* to it, the bss cleared, and every other cell unchanged.
LEMMA RestoreFacts ==
    ASSUME NEW m \in [Addr -> Val],
           NEW header \in ImageHeader, header_is_valid(header),
           NEW backup \in Nat,
           backup >= header.bss_address + header.bss_bytes,
           backup + header.image_bytes <= ImageLimit,
           NEW restored, restored = Restored(m, header, backup)
    PROVE  /\ restored \in [Addr -> Val]
           /\ \A a \in Addr :
                 a \notin Region(ImageBase, header.image_bytes)
                   \cup Region(header.bss_address, header.bss_bytes)
                 => restored[a] = m[a]
           /\ \A a \in Region(header.bss_address, header.bss_bytes) :
                 restored[a] = Zero
           /\ Contents(restored, backup, header.image_bytes)
                = Contents(m, backup, header.image_bytes)
           /\ Contents(restored, ImageBase, header.image_bytes)
                = Contents(m, backup, header.image_bytes)
<1> DEFINE n == header.image_bytes
           bss == header.bss_address
           bss_n == header.bss_bytes
           payload == Contents(m, backup, n)
           copied == Store(m, ImageBase, payload, n)
<1>1. /\ header.load_address = ImageBase
      /\ n \in Nat \ {0} /\ bss \in Nat /\ bss_n \in Nat
      /\ ImageBase + n <= bss /\ bss + bss_n <= ImageLimit
    BY HeaderLayout
<1>2. restored = clear_bss(copied, bss, bss_n)
    BY <1>1 DEF Restored, copy_memory
<1>0. backup >= bss + bss_n /\ backup + n <= ImageLimit
    OBVIOUS
<1> HIDE DEF n, bss, bss_n
<1>3. ImageBase \in Nat /\ ImageLimit < WadLimit
    BY LayoutAssumption
<1>4. payload \in [0 .. (n - 1) -> Val]
    BY <1>0, <1>1, <1>3, ContentsType, LayoutAssumption
<1> HIDE DEF payload
<1>5. copied \in [Addr -> Val]
    BY <1>1, <1>3, <1>4, StoreType
<1>6. \A a \in Addr \ Region(ImageBase, n) : copied[a] = m[a]
    BY StoreFrame
<1>7. Contents(copied, ImageBase, n) = payload
    BY <1>1, <1>3, <1>4, StoreContents, LayoutAssumption
<1> HIDE DEF copied
<1>8. /\ restored \in [Addr -> Val]
      /\ \A a \in Addr \ Region(bss, bss_n) : restored[a] = copied[a]
      /\ \A a \in Addr \cap Region(bss, bss_n) : restored[a] = Zero
    BY <1>2, <1>5, ClearFacts
<1>9. \A a \in Region(bss, bss_n) : a \in Addr
    BY <1>1, <1>3, LayoutAssumption DEF Region, Addr
<1>10. ASSUME NEW a \in Region(backup, n)
       PROVE  a \in Addr /\ a \notin Region(bss, bss_n)
                /\ a \notin Region(ImageBase, n)
    <2>1. a \in Int /\ bss + bss_n <= a /\ ImageBase + n <= a /\ a < ImageLimit
        BY <1>0, <1>1, <1>3, LayoutAssumption DEF Region
    <2> QED
        BY <2>1, <1>1, <1>3, LayoutAssumption DEF Region, Addr
<1>11. \A a \in Region(ImageBase, n) : a \in Addr /\ a \notin Region(bss, bss_n)
    BY <1>1, <1>3, LayoutAssumption DEF Region, Addr
<1>12. Contents(restored, backup, n) = payload
    <2>1. \A a \in Region(backup, n) : restored[a] = m[a]
        BY <1>6, <1>8, <1>10
    <2> QED
        BY <2>1, <1>1, ContentsSame DEF payload
<1>13. Contents(restored, ImageBase, n) = payload
    <2>1. \A a \in Region(ImageBase, n) : restored[a] = copied[a]
        BY <1>8, <1>11
    <2> QED
        BY <2>1, <1>1, <1>3, <1>7, ContentsSame
<1>14. \A a \in Addr : a \notin Region(ImageBase, n) \cup Region(bss, bss_n)
                          => restored[a] = m[a]
    BY <1>6, <1>8
<1>15. \A a \in Region(bss, bss_n) : restored[a] = Zero
    BY <1>8, <1>9
<1> QED
    BY <1>8, <1>12, <1>13, <1>14, <1>15 DEF payload, n, bss, bss_n

\* What prepare_image_backup leaves before it checks the copy: the copy has
\* the contents of the image, and only its cells changed.
LEMMA CopyFacts ==
    ASSUME NEW m \in [Addr -> Val],
           NEW header \in ImageHeader, header_is_valid(header),
           BackupFits(header),
           NEW copied,
           copied = copy_memory(m, BackupAddressOf(header),
                                header.load_address, header.image_bytes)
    PROVE  /\ copied \in [Addr -> Val]
           /\ \A a \in Addr \ Region(BackupAddressOf(header),
                                     header.image_bytes) : copied[a] = m[a]
<1>1. /\ header.load_address \in Nat /\ header.image_bytes \in Nat
      /\ header.load_address + header.image_bytes <= WadLimit
    BY HeaderLayout, LayoutAssumption
<1>2. Contents(m, header.load_address, header.image_bytes)
        \in [0 .. (header.image_bytes - 1) -> Val]
    BY <1>1, ContentsType
<1>3. BackupAddressOf(header) \in Nat
    BY BackupLayout, LayoutAssumption DEF Uint
<1> QED
    BY <1>1, <1>2, <1>3, StoreType, StoreFrame DEF copy_memory

-----------------------------------------------------------------------------
(* Frames: what keeps each invariant over a step that loads nothing.       *)

\* The restart image stays sound over a step that changes neither its record
\* nor any cell of its copy, except cells the program strayed to.
LEMMA RestartFrame ==
    ASSUME TypeOK, RestartImageSound,
           UNCHANGED image_vars,
           stray \subseteq stray',
           ReceivingImage' => ~image_restart_ready,
           pc' = "running" => image_restart_ready,
           \A a \in BackupCells : mem'[a] = mem[a] \/ a \in stray'
    PROVE  RestartImageSound'
<1>1. CASE ~image_restart_ready
    BY <1>1 DEF RestartImageSound, image_vars
<1>2. CASE image_restart_ready
    <2>1. BackupCells' = BackupCells
        BY DEF image_vars, BackupCells, Region
    <2>2. image_backup_address \in Nat /\ loaded_header.image_bytes \in Nat
        BY LayoutAssumption DEF TypeOK, Uint, ImageHeader
    <2>3. ASSUME stray' \cap BackupCells' = {}
          PROVE  Contents(mem', image_backup_address, loaded_header.image_bytes)
                   = Contents(mem, image_backup_address,
                              loaded_header.image_bytes)
        <3>1. \A a \in BackupCells : mem'[a] = mem[a]
            BY <2>1, <2>3
        <3> QED
            BY <3>1, <2>2, ContentsSame DEF BackupCells
    <2>4. stray' \cap BackupCells' = {} => stray \cap BackupCells = {}
        BY <2>1
    <2> QED
        BY <1>2, <2>3, <2>4 DEF RestartImageSound, image_vars
<1> QED
    BY <1>1, <1>2

\* The same for the IWAD.
LEMMA WadFrame ==
    ASSUME TypeOK, WadIntact,
           UNCHANGED wad_vars,
           stray \subseteq stray',
           ReceivingWad' => ~wad_loaded,
           \A a \in LoadedWadCells : mem'[a] = mem[a] \/ a \in stray'
    PROVE  WadIntact'
<1>1. CASE ~wad_loaded
    BY <1>1 DEF WadIntact, wad_vars
<1>2. CASE wad_loaded
    <2>1. LoadedWadCells' = LoadedWadCells
        BY DEF wad_vars, LoadedWadCells, Region
    <2>2. wad_header.load_address \in Nat /\ wad_header.wad_bytes \in Nat
        BY LayoutAssumption DEF TypeOK, Uint, WadHeader
    <2>3. ASSUME stray' \cap LoadedWadCells' = {}
          PROVE  WadContents(mem', wad_header) = WadContents(mem, wad_header)
        <3>1. \A a \in LoadedWadCells : mem'[a] = mem[a]
            BY <2>1, <2>3
        <3> QED
            BY <3>1, <2>2, ContentsSame DEF LoadedWadCells, WadContents
    <2>4. stray' \cap LoadedWadCells' = {} => stray \cap LoadedWadCells = {}
        BY <2>1
    <2>5. WadContents(mem, wad_header)' = WadContents(mem', wad_header)
        BY DEF wad_vars, WadContents, Contents
    <2> QED
        BY <1>2, <2>3, <2>4, <2>5 DEF WadIntact, wad_vars
<1> QED
    BY <1>1, <1>2

\* Where the announced regions lie.
LEMMA RegionBounds ==
    ASSUME TypeOK, RestartImageSound, WadIntact
    PROVE  /\ image_restart_ready =>
                \A a \in BackupCells :
                  /\ a \in Addr /\ ImageBase <= a /\ a < ImageLimit
                  /\ a \notin ProgramCells
           /\ wad_loaded =>
                \A a \in LoadedWadCells :
                  /\ a \in Addr /\ WadBase <= a
                  /\ image_restart_ready => a \notin ProgramCells
<1>1. ASSUME image_restart_ready, NEW a \in BackupCells
      PROVE  /\ a \in Addr /\ ImageBase <= a /\ a < ImageLimit
             /\ a \notin ProgramCells
    <2>1. loaded_header \in ImageHeader /\ header_is_valid(loaded_header)
        BY <1>1 DEF TypeOK, RestartImageSound
    <2>2. /\ image_backup_address \in Nat
          /\ image_backup_address
               >= loaded_header.bss_address + loaded_header.bss_bytes
          /\ image_backup_address + loaded_header.image_bytes <= ImageLimit
        BY <1>1, LayoutAssumption DEF TypeOK, RestartImageSound, Uint
    <2>3. heap_current \in Int
        BY LayoutAssumption DEF TypeOK, HeapBase
    <2> QED
        BY <1>1, <2>1, <2>2, <2>3, HeaderLayout, LayoutAssumption
        DEF BackupCells, ProgramCells, Region, Addr, HeapBase
<1>2. ASSUME wad_loaded, NEW a \in LoadedWadCells
      PROVE  /\ a \in Addr /\ WadBase <= a
             /\ image_restart_ready => a \notin ProgramCells
    <2>1. a \in Addr /\ WadBase <= a
        BY <1>2, LayoutAssumption
        DEF TypeOK, WadIntact, wad_header_is_valid, LoadedWadCells, Region,
            Addr, WadHeader, Uint, WadBase
    <2>2. ASSUME image_restart_ready
          PROVE  a \notin ProgramCells
        <3>1. loaded_header \in ImageHeader /\ header_is_valid(loaded_header)
            BY <2>2 DEF TypeOK, RestartImageSound
        <3>2. heap_current \in Int /\ heap_current <= HeapLimit
            BY LayoutAssumption DEF TypeOK, HeapBase
        <3> QED
            BY <2>1, <3>1, <3>2, HeaderLayout, LayoutAssumption
            DEF ProgramCells, Region, Addr, HeapBase, WadBase
    <2> QED
        BY <2>1, <2>2
<1> QED
    BY <1>1, <1>2

-----------------------------------------------------------------------------
(* The inductive invariant.                                                *)

IInv == TypeOK /\ RestartImageSound /\ WadIntact

\* Memory after a whole or partial image payload.
LEMMA ImageStoreFacts ==
    ASSUME TypeOK, NEW header \in Headers, header_is_valid(header),
           NEW k \in 0 .. header.image_bytes,
           NEW payload \in [0 .. (k - 1) -> Val]
    PROVE  LET m == Store(mem, header.load_address, payload, k) IN
           /\ header \in ImageHeader
           /\ m \in [Addr -> Val]
           /\ \A a \in Addr \ ImageWindow : m[a] = mem[a]
<1>1. header \in ImageHeader
    BY HeaderAssumption
<1>2. /\ header.load_address = ImageBase /\ ImageBase \in Nat
      /\ header.image_bytes \in Nat
      /\ ImageBase + header.image_bytes <= ImageLimit
    BY <1>1, HeaderLayout, LayoutAssumption
<1>3. k \in Nat /\ k <= header.image_bytes
    BY <1>2
<1>4. Store(mem, header.load_address, payload, k) \in [Addr -> Val]
    BY <1>2, <1>3, StoreType DEF TypeOK
<1>5. \A a \in Addr \ ImageWindow : a \notin Region(header.load_address, k)
    BY <1>2, <1>3, LayoutAssumption DEF ImageWindow, Region, Addr
<1> QED
    BY <1>1, <1>4, <1>5, StoreFrame

\* Memory after a whole or partial IWAD payload.
LEMMA WadStoreFacts ==
    ASSUME TypeOK, NEW n \in Nat, n <= WadLimit - WadBase,
           NEW payload \in [0 .. (n - 1) -> Val]
    PROVE  LET m == Store(mem, WadBase, payload, n) IN
           /\ m \in [Addr -> Val]
           /\ \A a \in Addr : a < WadBase => m[a] = mem[a]
           /\ Contents(m, WadBase, n) = payload
<1>1. WadBase \in Nat /\ WadBase + n <= WadLimit
    BY LayoutAssumption DEF WadBase
<1>2. \A a \in Addr : a < WadBase => a \notin Region(WadBase, n)
    BY <1>1, LayoutAssumption DEF Region, Addr
<1> QED
    BY <1>1, <1>2, StoreType, StoreFrame, StoreContents DEF TypeOK

\* The sizes a receive accepts fit the IWAD region.
LEMMA WadSizeFacts ==
    ASSUME NEW n \in WadSizes
    PROVE  n \in Nat /\ n <= WadLimit - WadBase
<1>1. CASE pc = "wad_sd"
    <2>1. n \in CardWadBytes /\ wad_header_is_valid(CardHeader(n, ZeroCrc))
        BY <1>1 DEF WadSizes, CardSizes
    <2>2. n \in Uint
        BY <2>1, HeaderAssumption
    <2> QED
        BY <2>1, <2>2, LayoutAssumption
        DEF CardHeader, wad_header_is_valid, Uint
<1>2. CASE pc # "wad_sd"
    <2>1. PICK header \in WadHeaders :
             wad_header_is_valid(header) /\ n = header.wad_bytes
        BY <1>2 DEF WadSizes
    <2> QED
        BY <2>1, HeaderAssumption, LayoutAssumption
        DEF wad_header_is_valid, WadHeader, Uint
<1> QED
    BY <1>1, <1>2

\* What a completed image receive does to memory and to the record of it.
LEMMA PreserveFacts ==
    ASSUME NEW header \in ImageHeader, header_is_valid(header),
           NEW m \in [Addr -> Val], PreserveImage(header, m)
    PROVE  /\ mem' \in [Addr -> Val]
           /\ \A a \in Addr \ ImageWindow : mem'[a] = m[a]
           /\ image_backup_address' \in Uint
           /\ image_loaded' \in BOOLEAN
           /\ image_restart_ready' = image_loaded'
           /\ image_restart_ready' =>
                /\ image_backup_address'
                     >= header.bss_address + header.bss_bytes
                /\ image_backup_address' + header.image_bytes <= ImageLimit
                /\ Crc(Contents(mem', image_backup_address',
                                header.image_bytes)) = header.payload_crc32
<1> DEFINE backup == BackupAddressOf(header)
           copied == copy_memory(m, backup, header.load_address,
                                 header.image_bytes)
           restored == Restored(copied, header, backup)
           prepared == /\ BackupFits(header)
                       /\ Crc(Contents(copied, backup, header.image_bytes))
                            = header.payload_crc32
           verified == prepared /\ ImageCrc(restored, header)
                                     = header.payload_crc32
<1>1. /\ mem' = IF prepared THEN restored
                ELSE IF BackupFits(header) THEN copied ELSE m
      /\ image_backup_address' = IF prepared THEN backup ELSE 0
      /\ image_restart_ready' = verified
      /\ image_loaded' = verified
    BY DEF PreserveImage
<1>2. 0 \in Uint
    BY LayoutAssumption DEF Uint
<1>3. CASE ~BackupFits(header)
    BY <1>1, <1>2, <1>3
<1>4. CASE BackupFits(header)
    <2>1. /\ backup \in Uint
          /\ backup >= header.bss_address + header.bss_bytes
          /\ backup + header.image_bytes <= ImageLimit
        BY <1>4, BackupLayout
    <2>2. /\ copied \in [Addr -> Val]
          /\ \A a \in Addr \ Region(backup, header.image_bytes) :
               copied[a] = m[a]
        BY <1>4, CopyFacts
    <2>3. backup \in Nat
        BY <2>1, LayoutAssumption DEF Uint
    <2> HIDE DEF backup, copied
    <2>4. /\ restored \in [Addr -> Val]
          /\ \A a \in Addr :
               a \notin Region(ImageBase, header.image_bytes)
                 \cup Region(header.bss_address, header.bss_bytes)
               => restored[a] = copied[a]
          /\ Contents(restored, backup, header.image_bytes)
               = Contents(copied, backup, header.image_bytes)
        BY <2>1, <2>2, <2>3, RestoreFacts
    <2> HIDE DEF restored
    <2>5. \A a \in Addr \ ImageWindow :
            /\ a \notin Region(backup, header.image_bytes)
            /\ a \notin Region(ImageBase, header.image_bytes)
            /\ a \notin Region(header.bss_address, header.bss_bytes)
        <3>1. /\ header.image_bytes \in Nat /\ ImageBase \in Nat
              /\ header.bss_address \in Nat /\ header.bss_bytes \in Nat
              /\ ImageBase + header.image_bytes <= header.bss_address
              /\ header.bss_address + header.bss_bytes <= ImageLimit
            BY HeaderLayout, LayoutAssumption
        <3>2. \A a \in Addr \ ImageWindow :
                 a \in Int /\ (a < ImageBase \/ a >= ImageLimit)
            BY LayoutAssumption DEF ImageWindow, Region, Addr
        <3> QED
            BY <3>1, <3>2, <2>1, <2>3, LayoutAssumption DEF Region
    <2>6. \A a \in Addr \ ImageWindow :
            copied[a] = m[a] /\ restored[a] = m[a]
        BY <2>2, <2>4, <2>5
    <2> QED
        BY <1>1, <1>2, <1>4, <2>1, <2>2, <2>4, <2>6
<1> QED
    BY <1>3, <1>4

\* A whole IWAD payload that was accepted.
LEMMA WadAcceptedFacts ==
    ASSUME TypeOK,
           NEW header \in WadHeader, wad_header_is_valid(header),
           NEW payload \in [0 .. (header.wad_bytes - 1) -> Val],
           WadAccepted(header, payload)
    PROVE  /\ mem' \in [Addr -> Val]
           /\ \A a \in Addr : a < WadBase => mem'[a] = mem[a]
           /\ wad_header' = header /\ wad_loaded' = TRUE
           /\ PayloadIsIwad(WadContents(mem', header))
           /\ Crc(WadContents(mem', header)) = header.payload_crc32
<1>1. /\ header.wad_bytes \in Nat /\ header.wad_bytes <= WadLimit - WadBase
      /\ header.load_address = WadBase
    BY LayoutAssumption DEF WadHeader, wad_header_is_valid, Uint
<1>2. mem' = Store(mem, WadBase, payload, header.wad_bytes)
    BY <1>1 DEF WadAccepted
<1>3. Contents(mem', WadBase, header.wad_bytes) = payload
    BY <1>1, <1>2, WadStoreFacts
<1> QED
    BY <1>1, <1>2, <1>3, WadStoreFacts DEF WadAccepted, WadContents

\* The header built for a file of the card is one the loader accepts.
LEMMA CardHeaderFacts ==
    ASSUME NEW n \in CardSizes, NEW payload \in [0 .. (n - 1) -> Val]
    PROVE  /\ CardHeader(n, Crc(payload)) \in WadHeader
           /\ wad_header_is_valid(CardHeader(n, Crc(payload)))
           /\ CardHeader(n, Crc(payload)).wad_bytes = n
           /\ CardHeader(n, Crc(payload)).load_address = WadBase
<1>1. n \in CardWadBytes /\ wad_header_is_valid(CardHeader(n, ZeroCrc))
    BY DEF CardSizes
<1>2. n \in Uint /\ n >= MinWadBytes /\ n <= WadLimit - WadBase
    BY <1>1, HeaderAssumption DEF CardHeader, wad_header_is_valid
<1>3. n \in 0 .. (WadLimit - WadBase) /\ WadBase \in Uint
    BY <1>2, LayoutAssumption DEF Uint, WadBase
<1>4. Crc(payload) \in CrcVal
    BY <1>3, HeaderAssumption
<1> QED
    BY <1>2, <1>3, <1>4 DEF CardHeader, WadHeader, wad_header_is_valid

\* What a launch does to memory: only the image region, never the copy.
LEMMA LaunchFacts ==
    ASSUME IInv, Launch
    PROVE  LET restored == Restored(mem, loaded_header, image_backup_address)
           IN
           /\ image_restart_ready /\ loaded_header \in ImageHeader
           /\ header_is_valid(loaded_header)
           /\ mem' = restored /\ mem' \in [Addr -> Val]
           /\ \A a \in Addr \ ImageWindow : mem'[a] = mem[a]
           /\ \A a \in BackupCells : mem'[a] = mem[a]
           /\ \A a \in Region(loaded_header.bss_address,
                              loaded_header.bss_bytes) : mem'[a] = Zero
           /\ Contents(mem', ImageBase, loaded_header.image_bytes)
                = Contents(mem, image_backup_address,
                           loaded_header.image_bytes)
           /\ image_loaded' = (ImageCrc(restored, loaded_header)
                                 = loaded_header.payload_crc32)
           /\ image_restart_ready' = image_loaded'
           /\ pc' = IF image_loaded' THEN "running" ELSE "poll"
<1> DEFINE restored == Restored(mem, loaded_header, image_backup_address)
<1>1. image_restart_ready
    BY DEF IInv, RestartImageSound, Launch
<1>2. /\ loaded_header \in ImageHeader /\ header_is_valid(loaded_header)
      /\ image_backup_address \in Nat
      /\ image_backup_address
           >= loaded_header.bss_address + loaded_header.bss_bytes
      /\ image_backup_address + loaded_header.image_bytes <= ImageLimit
    BY <1>1, LayoutAssumption DEF IInv, RestartImageSound, TypeOK, Uint
<1>3. /\ loaded_header.image_bytes \in Nat \ {0} /\ ImageBase \in Nat
      /\ loaded_header.bss_address \in Nat /\ loaded_header.bss_bytes \in Nat
      /\ ImageBase + loaded_header.image_bytes <= loaded_header.bss_address
      /\ loaded_header.bss_address + loaded_header.bss_bytes <= ImageLimit
    BY <1>2, HeaderLayout, LayoutAssumption
<1>4. image_backup_address # 0
    BY <1>2, <1>3
<1>5. /\ mem' = restored
      /\ image_loaded' = (ImageCrc(restored, loaded_header)
                            = loaded_header.payload_crc32)
      /\ image_restart_ready' = image_loaded'
      /\ pc' = IF image_loaded' THEN "running" ELSE "poll"
    BY <1>1, <1>4 DEF Launch
<1>6. /\ restored \in [Addr -> Val]
      /\ \A a \in Addr :
           a \notin Region(ImageBase, loaded_header.image_bytes)
             \cup Region(loaded_header.bss_address, loaded_header.bss_bytes)
           => restored[a] = mem[a]
      /\ \A a \in Region(loaded_header.bss_address, loaded_header.bss_bytes) :
           restored[a] = Zero
      /\ Contents(restored, ImageBase, loaded_header.image_bytes)
           = Contents(mem, image_backup_address, loaded_header.image_bytes)
    BY <1>2, RestoreFacts DEF IInv, TypeOK
<1> HIDE DEF restored
<1>7. \A a \in (Addr \ ImageWindow) \cup BackupCells :
        /\ a \in Addr
        /\ a \notin Region(ImageBase, loaded_header.image_bytes)
        /\ a \notin Region(loaded_header.bss_address, loaded_header.bss_bytes)
    <2>1. \A a \in Addr \ ImageWindow :
             a \in Int /\ (a < ImageBase \/ a >= ImageLimit)
        BY LayoutAssumption DEF ImageWindow, Region, Addr
    <2>2. \A a \in BackupCells :
             /\ a \in Addr
             /\ a >= loaded_header.bss_address + loaded_header.bss_bytes
        BY <1>2, <1>3, LayoutAssumption DEF BackupCells, Region, Addr
    <2> QED
        BY <1>3, <2>1, <2>2, LayoutAssumption DEF Region, Addr
<1> QED
    BY <1>1, <1>2, <1>5, <1>6, <1>7 DEF restored

-----------------------------------------------------------------------------
(* Every step keeps the types.                                             *)

\* Types are kept by every action and by stuttering.
LEMMA TypeStep ==
    ASSUME IInv, [Next]_vars
    PROVE  TypeOK'
<1> USE DEF IInv
<1>1. /\ FALSE \in BOOLEAN /\ TRUE \in BOOLEAN
      /\ 0 \in Uint /\ HeapBase \in HeapBase .. HeapLimit
      /\ HeapBase \in Nat /\ HeapLimit \in Nat
      /\ ClearedHeader \in ImageHeader /\ ClearedWadHeader \in WadHeader
    BY LayoutAssumption, HeaderAssumption
    DEF Uint, HeapBase, ClearedHeader, ClearedWadHeader, ImageHeader, WadHeader
<1>2. CASE UNCHANGED vars
    BY <1>2 DEF TypeOK, vars, image_vars, wad_vars
<1>3. CASE Reset
    BY <1>1, <1>3 DEF TypeOK, Reset, PCs
<1>4. CASE Calibrate \/ BootTimeout \/ ImageReceive \/ SdBoot \/ SdOpenFails
             \/ SdOpen \/ ImageHeaderFails \/ WadReceive \/ SdWadRefused
             \/ SdWadOpen \/ WadHeaderFails \/ LaunchRefused \/ ProgramReturn
             \/ ProgramTrap
    BY <1>1, <1>4
    DEF TypeOK, PCs, image_vars, wad_vars, image_invalidate, Calibrate,
        BootTimeout, ImageReceive, SdBoot, SdOpenFails, SdOpen,
        ImageHeaderFails, WadReceive, SdWadRefused, SdWadOpen,
        WadHeaderFails, LaunchRefused, ProgramReturn, ProgramTrap
<1>5. CASE BootReady \/ WindowTest
    BY <1>5, ScribbleFacts
    DEF TypeOK, PCs, image_vars, wad_vars, BootReady, WindowTest
<1>6. CASE ImagePayloadFails \/ ImageCrcFails
    <2>1. mem' \in [Addr -> Val]
        <3>1. CASE ImagePayloadFails
            <4>1. PICK header \in Headers :
                    /\ header_is_valid(header)
                    /\ \E k \in 0 .. (header.image_bytes - 1) :
                         \E payload \in [0 .. (k - 1) -> Val] :
                           mem' = Store(mem, header.load_address, payload, k)
                BY <3>1 DEF ImagePayloadFails
            <4>2. PICK k \in 0 .. (header.image_bytes - 1) :
                    \E payload \in [0 .. (k - 1) -> Val] :
                      mem' = Store(mem, header.load_address, payload, k)
                BY <4>1
            <4>3. header.image_bytes \in Nat
                BY <4>1, HeaderAssumption, HeaderLayout
            <4> QED
                BY <4>1, <4>2, <4>3, ImageStoreFacts
        <3>2. CASE ImageCrcFails
            <4>1. PICK header \in Headers :
                    /\ header_is_valid(header)
                    /\ \E payload \in [0 .. (header.image_bytes - 1) -> Val] :
                         mem' = Store(mem, header.load_address, payload,
                                      header.image_bytes)
                BY <3>2 DEF ImageCrcFails
            <4>2. header.image_bytes \in 0 .. header.image_bytes
                BY <4>1, HeaderAssumption, HeaderLayout
            <4> QED
                BY <4>1, <4>2, ImageStoreFacts
        <3> QED
            BY <1>6, <3>1, <3>2
    <2> QED
        BY <1>6, <2>1
        DEF TypeOK, PCs, image_vars, wad_vars, ImagePayloadFails, ImageCrcFails
<1>7. CASE ImageComplete
    <2>1. PICK header \in Headers :
            /\ header_is_valid(header)
            /\ \E payload \in [0 .. (header.image_bytes - 1) -> Val] :
                 PreserveImage(header, Store(mem, header.load_address, payload,
                                             header.image_bytes))
            /\ loaded_header' = header
        BY <1>7 DEF ImageComplete
    <2>2. PICK payload \in [0 .. (header.image_bytes - 1) -> Val] :
            PreserveImage(header, Store(mem, header.load_address, payload,
                                        header.image_bytes))
        BY <2>1
    <2>3. header \in ImageHeader
          /\ header.image_bytes \in 0 .. header.image_bytes
        BY <2>1, HeaderAssumption, HeaderLayout
    <2>4. Store(mem, header.load_address, payload, header.image_bytes)
            \in [Addr -> Val]
        BY <2>1, <2>3, ImageStoreFacts
    <2>5. /\ mem' \in [Addr -> Val] /\ image_backup_address' \in Uint
          /\ image_loaded' \in BOOLEAN /\ image_restart_ready' \in BOOLEAN
        BY <2>1, <2>2, <2>3, <2>4, PreserveFacts
    <2>6. pc' \in PCs
        BY <2>2 DEF PreserveImage, PCs
    <2> QED
        BY <1>7, <2>1, <2>3, <2>5, <2>6 DEF TypeOK, ImageComplete, wad_vars
<1>8. CASE WadPayloadFails
    <2>1. PICK n \in WadSizes :
            \E k \in 0 .. (n - 1) : \E payload \in [0 .. (k - 1) -> Val] :
              mem' = Store(mem, WadBase, payload, k)
        BY <1>8 DEF WadPayloadFails
    <2>2. PICK k \in 0 .. (n - 1) : \E payload \in [0 .. (k - 1) -> Val] :
              mem' = Store(mem, WadBase, payload, k)
        BY <2>1
    <2>3. k \in Nat /\ k <= WadLimit - WadBase
        BY WadSizeFacts, LayoutAssumption DEF WadBase
    <2>4. mem' \in [Addr -> Val]
        BY <2>2, <2>3, WadStoreFacts
    <2> QED
        BY <1>8, <2>4 DEF TypeOK, PCs, image_vars, wad_vars, WadPayloadFails
<1>9. CASE WadInvalid
    <2>1. PICK header \in WadHeaders :
            /\ wad_header_is_valid(header)
            /\ \E payload \in [0 .. (header.wad_bytes - 1) -> Val] :
                 WadRejected(header, payload)
        BY <1>9 DEF WadInvalid
    <2>2. PICK payload \in [0 .. (header.wad_bytes - 1) -> Val] :
            WadRejected(header, payload)
        BY <2>1
    <2>3. /\ header.wad_bytes \in Nat
          /\ header.wad_bytes <= WadLimit - WadBase
          /\ header.load_address = WadBase
        BY <2>1, HeaderAssumption, LayoutAssumption
        DEF WadHeader, wad_header_is_valid, Uint
    <2>4. mem' \in [Addr -> Val]
        BY <2>2, <2>3, WadStoreFacts DEF WadRejected
    <2> QED
        BY <2>2, <2>4 DEF TypeOK, PCs, image_vars, wad_vars, WadRejected
<1>10. CASE SdWadInvalid
    <2>1. PICK n \in CardSizes :
            \E payload \in [0 .. (n - 1) -> Val] :
              WadRejected(CardHeader(n, Crc(payload)), payload)
        BY <1>10 DEF SdWadInvalid
    <2>2. PICK payload \in [0 .. (n - 1) -> Val] :
            WadRejected(CardHeader(n, Crc(payload)), payload)
        BY <2>1
    <2>3. n \in Nat /\ n <= WadLimit - WadBase
        BY <2>1, WadSizeFacts, <1>10 DEF SdWadInvalid, WadSizes
    <2>4. mem' \in [Addr -> Val]
        BY <2>2, <2>3, WadStoreFacts, CardHeaderFacts DEF WadRejected
    <2> QED
        BY <2>2, <2>4 DEF TypeOK, PCs, image_vars, wad_vars, WadRejected
<1>11. CASE WadComplete
    <2>1. PICK header \in WadHeaders :
            /\ wad_header_is_valid(header)
            /\ \E payload \in [0 .. (header.wad_bytes - 1) -> Val] :
                 WadAccepted(header, payload)
        BY <1>11 DEF WadComplete
    <2>2. mem' \in [Addr -> Val] /\ wad_header' \in WadHeader
          /\ wad_loaded' = TRUE
        BY <2>1, HeaderAssumption, WadAcceptedFacts
    <2>3. stray' \subseteq Addr /\ UNCHANGED <<ready, image_vars, heap_current>>
        BY <2>1 DEF WadAccepted, TypeOK
    <2> QED
        BY <1>11, <2>2, <2>3 DEF TypeOK, PCs, image_vars, WadComplete
<1>12. CASE SdWadComplete
    <2>1. PICK n \in CardSizes :
            \E payload \in [0 .. (n - 1) -> Val] :
              WadAccepted(CardHeader(n, Crc(payload)), payload)
        BY <1>12 DEF SdWadComplete
    <2>2. PICK payload \in [0 .. (n - 1) -> Val] :
            WadAccepted(CardHeader(n, Crc(payload)), payload)
        BY <2>1
    <2>3. mem' \in [Addr -> Val] /\ wad_header' \in WadHeader
          /\ wad_loaded' = TRUE
        BY <2>2, CardHeaderFacts, WadAcceptedFacts
    <2>4. stray' \subseteq Addr /\ UNCHANGED <<ready, image_vars, heap_current>>
        BY <2>2 DEF WadAccepted, TypeOK
    <2> QED
        BY <1>12, <2>3, <2>4 DEF TypeOK, PCs, image_vars, SdWadComplete
<1>13. CASE Launch
    BY <1>1, <1>13, LaunchFacts DEF TypeOK, PCs, Launch, wad_vars
<1>14. CASE ProgramSbrk
    BY <1>1, <1>14
    DEF TypeOK, PCs, image_vars, wad_vars, ProgramSbrk, Uint
<1>15. CASE ProgramStore
    <2>1. mem' \in [Addr -> Val] /\ stray' \subseteq Addr
        BY <1>15, HeapTestAssumption DEF TypeOK, ProgramStore
    <2> QED
        BY <1>15, <2>1 DEF TypeOK, ProgramStore, image_vars, wad_vars
<1>16. CASE SparseTest \/ RandomTest \/ Qualification
    BY <1>1, <1>16, ScribbleFacts
    DEF TypeOK, image_invalidate, SparseTest, RandomTest, Qualification,
        DestructiveTest
<1>17. CASE ExecTest
    BY <1>1, <1>17, ScribbleFacts DEF TypeOK, image_invalidate, ExecTest, wad_vars
<1>18. CASE HeapTest \/ SmokeTest
    <2>1. PICK n \in 1 .. (HeapLimit - HeapBase) : HeapAllocationTest(n)
        BY <1>18, HeapTestAssumption DEF HeapTest, SmokeTest
    <2>2. heap_current' \in HeapBase .. HeapLimit
        BY <1>1, <2>1 DEF HeapAllocationTest
    <2> QED
        BY <2>1, <2>2, ScribbleFacts
        DEF TypeOK, image_vars, wad_vars, HeapAllocationTest, HeapFill
<1>19. CASE HeapReset
    BY <1>1, <1>19 DEF TypeOK, image_vars, wad_vars, HeapReset
<1> QED
    BY <1>2, <1>3, <1>4, <1>5, <1>6, <1>7, <1>8, <1>9, <1>10, <1>11, <1>12,
       <1>13, <1>14, <1>15, <1>16, <1>17, <1>18, <1>19 DEF Next

-----------------------------------------------------------------------------
(* Every step keeps the restart image sound.                               *)

\* What an IWAD receive stores lies above WadBase.
LEMMA WadStoresHigh ==
    ASSUME IInv,
           WadPayloadFails \/ WadInvalid \/ SdWadInvalid
             \/ WadComplete \/ SdWadComplete
    PROVE  \A a \in Addr : a < WadBase => mem'[a] = mem[a]
<1>1. TypeOK
    BY DEF IInv
<1>2. CASE WadPayloadFails
    <2>1. PICK n \in WadSizes :
            \E k \in 0 .. (n - 1) : \E payload \in [0 .. (k - 1) -> Val] :
              mem' = Store(mem, WadBase, payload, k)
        BY <1>2 DEF WadPayloadFails
    <2>2. PICK k \in 0 .. (n - 1) : \E payload \in [0 .. (k - 1) -> Val] :
              mem' = Store(mem, WadBase, payload, k)
        BY <2>1
    <2>3. k \in Nat /\ k <= WadLimit - WadBase
        BY WadSizeFacts, LayoutAssumption DEF WadBase
    <2> QED
        BY <1>1, <2>2, <2>3, WadStoreFacts
<1>3. CASE WadInvalid
    <2>1. PICK header \in WadHeaders :
            /\ wad_header_is_valid(header)
            /\ \E payload \in [0 .. (header.wad_bytes - 1) -> Val] :
                 WadRejected(header, payload)
        BY <1>3 DEF WadInvalid
    <2>2. /\ header.wad_bytes \in Nat
          /\ header.wad_bytes <= WadLimit - WadBase
          /\ header.load_address = WadBase
        BY <2>1, HeaderAssumption, LayoutAssumption
        DEF WadHeader, wad_header_is_valid, Uint
    <2> QED
        BY <1>1, <2>1, <2>2, WadStoreFacts DEF WadRejected
<1>4. CASE SdWadInvalid
    <2>1. PICK n \in CardSizes :
            \E payload \in [0 .. (n - 1) -> Val] :
              WadRejected(CardHeader(n, Crc(payload)), payload)
        BY <1>4 DEF SdWadInvalid
    <2>2. n \in Nat /\ n <= WadLimit - WadBase
        BY <2>1, <1>4, WadSizeFacts DEF SdWadInvalid, WadSizes
    <2> QED
        BY <1>1, <2>1, <2>2, WadStoreFacts, CardHeaderFacts DEF WadRejected
<1>5. CASE WadComplete
    BY <1>1, <1>5, HeaderAssumption, WadAcceptedFacts DEF WadComplete
<1>6. CASE SdWadComplete
    BY <1>1, <1>6, CardHeaderFacts, WadAcceptedFacts DEF SdWadComplete
<1> QED
    BY <1>2, <1>3, <1>4, <1>5, <1>6

\* A valid header and a copy that still matches it survive every step, or the
\* step withdraws the restart image.
LEMMA RestartStep ==
    ASSUME IInv, [Next]_vars
    PROVE  RestartImageSound'
<1> USE DEF IInv
<1>1. image_restart_ready =>
        \A a \in BackupCells : a \in Addr /\ ImageBase <= a /\ a < ImageLimit
                                 /\ a \notin ProgramCells
    BY RegionBounds
<1>2. CASE UNCHANGED vars
    <2>1. /\ ReceivingImage' => ~image_restart_ready
          /\ pc' = "running" => image_restart_ready
        BY <1>2 DEF RestartImageSound, ReceivingImage, vars
    <2> QED
        BY <1>2, <2>1, RestartFrame DEF vars
<1>3. CASE Reset \/ ImageReceive \/ SdOpen \/ SparseTest \/ RandomTest
             \/ Qualification \/ ExecTest
    BY <1>3
    DEF RestartImageSound, image_invalidate, Reset, ImageReceive, SdOpen,
        SparseTest, RandomTest, Qualification, DestructiveTest, ExecTest
<1>4. CASE Calibrate \/ BootTimeout \/ SdBoot \/ SdOpenFails
             \/ ImageHeaderFails \/ WadReceive \/ SdWadRefused
             \/ SdWadOpen \/ WadHeaderFails \/ LaunchRefused \/ ProgramReturn
             \/ ProgramTrap \/ ProgramSbrk \/ HeapReset
    <2>1. /\ mem' = mem /\ stray' = stray /\ UNCHANGED image_vars
          /\ ReceivingImage' => ReceivingImage
          /\ pc' = "running" => pc = "running"
        BY <1>4
        DEF ReceivingImage, Calibrate, BootTimeout, SdBoot, SdOpenFails,
            ImageHeaderFails, WadReceive, SdWadRefused, SdWadOpen,
            WadHeaderFails, LaunchRefused, ProgramReturn, ProgramTrap,
            ProgramSbrk, HeapReset
    <2>2. /\ ReceivingImage' => ~image_restart_ready
          /\ pc' = "running" => image_restart_ready
        BY <2>1 DEF RestartImageSound
    <2> QED
        BY <2>1, <2>2, RestartFrame
<1>5. CASE ImagePayloadFails \/ ImageCrcFails
    BY <1>5
    DEF RestartImageSound, ReceivingImage, image_vars, ImagePayloadFails,
        ImageCrcFails
<1>6. CASE ImageComplete
    <2>1. PICK header \in Headers :
            /\ header_is_valid(header)
            /\ \E payload \in [0 .. (header.image_bytes - 1) -> Val] :
                 PreserveImage(header, Store(mem, header.load_address, payload,
                                             header.image_bytes))
            /\ loaded_header' = header
        BY <1>6 DEF ImageComplete
    <2>2. PICK payload \in [0 .. (header.image_bytes - 1) -> Val] :
            PreserveImage(header, Store(mem, header.load_address, payload,
                                        header.image_bytes))
        BY <2>1
    <2>3. header \in ImageHeader
          /\ header.image_bytes \in 0 .. header.image_bytes
        BY <2>1, HeaderAssumption, HeaderLayout
    <2>4. Store(mem, header.load_address, payload, header.image_bytes)
            \in [Addr -> Val]
        BY <2>1, <2>3, ImageStoreFacts
    <2>5. /\ image_restart_ready' = image_loaded'
          /\ image_restart_ready' =>
               /\ image_backup_address'
                    >= header.bss_address + header.bss_bytes
               /\ image_backup_address' + header.image_bytes <= ImageLimit
               /\ Crc(Contents(mem', image_backup_address',
                               header.image_bytes)) = header.payload_crc32
        BY <2>1, <2>2, <2>3, <2>4, PreserveFacts
    <2>6. ~ReceivingImage' /\ pc' # "running"
        BY <2>2 DEF PreserveImage, ReceivingImage
    <2> QED
        BY <2>1, <2>5, <2>6 DEF RestartImageSound
<1>7. CASE BootReady \/ WindowTest
    <2>1. \A a \in BackupCells : image_restart_ready => mem'[a] = mem[a]
        <3>1. PICK requested \in Nat :
                mem' = Scribble(mem, SequentialCells(requested))
            BY <1>7, TestAssumption DEF BootReady, WindowTest
        <3>2. \A a \in SequentialCells(requested) : a < ImageBase
            BY SequentialWindow
        <3>3. image_restart_ready =>
                \A a \in BackupCells : a \in Addr \ SequentialCells(requested)
            BY <1>1, <3>2, LayoutAssumption DEF Addr
        <3> QED
            BY <3>1, <3>3, ScribbleFacts DEF TypeOK
    <2>2. CASE image_restart_ready
        <3>1. UNCHANGED image_vars /\ stray' = stray /\ ~ReceivingImage'
                /\ pc' # "running"
            BY <1>7, <2>2
            DEF RestartImageSound, ReceivingImage, BootReady, WindowTest
        <3> QED
            BY <2>1, <2>2, <3>1, RestartFrame
    <2>3. CASE ~image_restart_ready
        BY <1>7, <2>3
        DEF RestartImageSound, ReceivingImage, image_vars, BootReady, WindowTest
    <2> QED
        BY <2>2, <2>3
<1>8. CASE WadPayloadFails \/ WadInvalid \/ SdWadInvalid \/ WadComplete
             \/ SdWadComplete
    <2>1. UNCHANGED image_vars /\ ~ReceivingImage' /\ pc' # "running"
        BY <1>8
        DEF ReceivingImage, WadPayloadFails, WadInvalid, SdWadInvalid,
            WadComplete, SdWadComplete, WadRejected, WadAccepted
    <2>2. CASE image_restart_ready
        <3>1. \A a \in BackupCells :
                a \in Addr /\ a < WadBase /\ a \notin WadWindow
            BY <1>1, <2>2, LayoutAssumption
            DEF Addr, WadBase, WadWindow, Region
        <3>2. \A a \in BackupCells : mem'[a] = mem[a]
            BY <1>8, <3>1, WadStoresHigh
        <3>3. stray' = stray \/ stray' = stray \ WadWindow
            BY <1>8
            DEF WadPayloadFails, WadInvalid, SdWadInvalid, WadComplete,
                SdWadComplete, WadRejected, WadAccepted
        <3>4. BackupCells' = BackupCells
            BY <2>1 DEF image_vars, BackupCells, Region
        <3>5. Contents(mem', image_backup_address, loaded_header.image_bytes)
                = Contents(mem, image_backup_address,
                           loaded_header.image_bytes)
            <4>1. /\ image_backup_address \in Nat
                  /\ loaded_header.image_bytes \in Nat
                BY LayoutAssumption DEF TypeOK, Uint, ImageHeader
            <4> QED
                BY <3>2, <4>1, ContentsSame DEF BackupCells
        <3>6. stray' \cap BackupCells = {} => stray \cap BackupCells = {}
            BY <3>1, <3>3
        <3> QED
            BY <2>1, <2>2, <3>4, <3>5, <3>6 DEF RestartImageSound, image_vars
    <2>3. CASE ~image_restart_ready
        BY <2>1, <2>3 DEF RestartImageSound, image_vars
    <2> QED
        BY <2>2, <2>3
<1>9. CASE Launch
    <2>1. /\ image_restart_ready /\ ~ReceivingImage'
          /\ pc' = "running" => image_loaded'
          /\ UNCHANGED <<image_backup_address, loaded_header, stray>>
        BY <1>9, LaunchFacts DEF Launch, ReceivingImage
    <2>2. Contents(mem', image_backup_address, loaded_header.image_bytes)
            = Contents(mem, image_backup_address, loaded_header.image_bytes)
        <3>1. /\ image_backup_address \in Nat
              /\ loaded_header.image_bytes \in Nat
            BY LayoutAssumption DEF TypeOK, Uint, ImageHeader
        <3>2. \A a \in BackupCells : mem'[a] = mem[a]
            BY <1>9, LaunchFacts
        <3> QED
            BY <3>1, <3>2, ContentsSame DEF BackupCells
    <2>3. image_restart_ready' = image_loaded'
        BY <1>9, LaunchFacts
    <2>4. BackupCells' = BackupCells
        BY <2>1 DEF BackupCells, Region
    <2> QED
        BY <2>1, <2>2, <2>3, <2>4 DEF RestartImageSound
<1>10. CASE ProgramStore
    <2>1. /\ UNCHANGED image_vars /\ ~ReceivingImage'
          /\ stray \subseteq stray' /\ pc = "running"
        BY <1>10 DEF ProgramStore, ReceivingImage
    <2>2. image_restart_ready =>
            \A a \in BackupCells : mem'[a] = mem[a] \/ a \in stray'
        BY <1>1, <1>10 DEF ProgramStore, TypeOK
    <2>3. CASE image_restart_ready
        BY <2>1, <2>2, <2>3, RestartFrame
    <2> QED
        BY <2>1, <2>3 DEF RestartImageSound
<1>11. CASE HeapTest \/ SmokeTest
    <2>1. PICK n \in Nat : HeapAllocationTest(n)
        BY <1>11, HeapTestAssumption, LayoutAssumption
        DEF HeapTest, SmokeTest, HeapBase
    <2>2. /\ UNCHANGED image_vars /\ stray' = stray /\ ~ReceivingImage'
          /\ pc' # "running"
        BY <2>1 DEF HeapAllocationTest, ReceivingImage
    <2>3. image_restart_ready => \A a \in BackupCells : mem'[a] = mem[a]
        <3>1. image_restart_ready =>
                \A a \in BackupCells : a \notin Region(HeapBase, n)
            BY <1>1, LayoutAssumption DEF Region, HeapBase, Addr
        <3> QED
            BY <1>1, <2>1, <3>1, ScribbleFacts
            DEF HeapAllocationTest, HeapFill, TypeOK
    <2>4. CASE image_restart_ready
        BY <2>2, <2>3, <2>4, RestartFrame
    <2>5. CASE ~image_restart_ready
        BY <2>2, <2>5 DEF RestartImageSound, image_vars
    <2> QED
        BY <2>4, <2>5
<1> QED
    BY <1>2, <1>3, <1>4, <1>5, <1>6, <1>7, <1>8, <1>9, <1>10, <1>11 DEF Next

-----------------------------------------------------------------------------
(* Every step keeps the IWAD intact.                                       *)

\* What an image receive stores lies inside the image region.
LEMMA ImageStoresInWindow ==
    ASSUME IInv, ImagePayloadFails \/ ImageCrcFails \/ ImageComplete
    PROVE  \A a \in Addr \ ImageWindow : mem'[a] = mem[a]
<1>1. TypeOK
    BY DEF IInv
<1>2. CASE ImagePayloadFails
    <2>1. PICK header \in Headers :
            /\ header_is_valid(header)
            /\ \E k \in 0 .. (header.image_bytes - 1) :
                 \E payload \in [0 .. (k - 1) -> Val] :
                   mem' = Store(mem, header.load_address, payload, k)
        BY <1>2 DEF ImagePayloadFails
    <2>2. PICK k \in 0 .. (header.image_bytes - 1) :
            \E payload \in [0 .. (k - 1) -> Val] :
              mem' = Store(mem, header.load_address, payload, k)
        BY <2>1
    <2>3. header.image_bytes \in Nat
        BY <2>1, HeaderAssumption, HeaderLayout
    <2> QED
        BY <1>1, <2>1, <2>2, <2>3, ImageStoreFacts
<1>3. CASE ImageCrcFails
    <2>1. PICK header \in Headers :
            /\ header_is_valid(header)
            /\ \E payload \in [0 .. (header.image_bytes - 1) -> Val] :
                 mem' = Store(mem, header.load_address, payload,
                              header.image_bytes)
        BY <1>3 DEF ImageCrcFails
    <2>2. header.image_bytes \in 0 .. header.image_bytes
        BY <2>1, HeaderAssumption, HeaderLayout
    <2> QED
        BY <1>1, <2>1, <2>2, ImageStoreFacts
<1>4. CASE ImageComplete
    <2>1. PICK header \in Headers :
            /\ header_is_valid(header)
            /\ \E payload \in [0 .. (header.image_bytes - 1) -> Val] :
                 PreserveImage(header, Store(mem, header.load_address, payload,
                                             header.image_bytes))
        BY <1>4 DEF ImageComplete
    <2>2. PICK payload \in [0 .. (header.image_bytes - 1) -> Val] :
            PreserveImage(header, Store(mem, header.load_address, payload,
                                        header.image_bytes))
        BY <2>1
    <2>3. header \in ImageHeader
          /\ header.image_bytes \in 0 .. header.image_bytes
        BY <2>1, HeaderAssumption, HeaderLayout
    <2> DEFINE m == Store(mem, header.load_address, payload, header.image_bytes)
    <2>4. m \in [Addr -> Val] /\ \A a \in Addr \ ImageWindow : m[a] = mem[a]
        BY <1>1, <2>1, <2>3, ImageStoreFacts
    <2>5. \A a \in Addr \ ImageWindow : mem'[a] = m[a]
        BY <2>1, <2>2, <2>3, <2>4, PreserveFacts
    <2> QED
        BY <2>4, <2>5
<1> QED
    BY <1>2, <1>3, <1>4

\* An IWAD that still matches its record survives every step, or the step
\* withdraws it.
LEMMA WadStep ==
    ASSUME IInv, [Next]_vars
    PROVE  WadIntact'
<1> USE DEF IInv
<1>1. wad_loaded => \A a \in LoadedWadCells : a \in Addr /\ WadBase <= a
    BY RegionBounds
<1>2. wad_loaded =>
        \A a \in LoadedWadCells : a \in Addr \ ImageWindow
    BY <1>1, LayoutAssumption DEF ImageWindow, Region, WadBase, Addr
<1>3. CASE UNCHANGED vars
    <2>1. ReceivingWad' => ~wad_loaded
        BY <1>3 DEF WadIntact, ReceivingWad, vars
    <2> QED
        BY <1>3, <2>1, WadFrame DEF vars
<1>4. CASE Reset \/ WadReceive \/ SdWadOpen \/ SparseTest \/ RandomTest
             \/ Qualification
    BY <1>4
    DEF WadIntact, Reset, WadReceive, SdWadOpen, SparseTest, RandomTest,
        Qualification, DestructiveTest
<1>5. CASE Calibrate \/ BootTimeout \/ ImageReceive \/ SdBoot \/ SdOpenFails
             \/ SdOpen \/ ImageHeaderFails \/ SdWadRefused \/ WadHeaderFails
             \/ LaunchRefused \/ ProgramReturn \/ ProgramTrap \/ ProgramSbrk
             \/ HeapReset
    <2>1. /\ mem' = mem /\ stray' = stray /\ UNCHANGED wad_vars
          /\ ReceivingWad' => ReceivingWad
        BY <1>5
        DEF ReceivingWad, Calibrate, BootTimeout, ImageReceive, SdBoot,
            SdOpenFails, SdOpen, ImageHeaderFails, SdWadRefused,
            WadHeaderFails, LaunchRefused, ProgramReturn, ProgramTrap,
            ProgramSbrk, HeapReset
    <2>2. ReceivingWad' => ~wad_loaded
        BY <2>1 DEF WadIntact
    <2> QED
        BY <2>1, <2>2, WadFrame
<1>6. CASE WadPayloadFails \/ WadInvalid \/ SdWadInvalid
    BY <1>6
    DEF WadIntact, ReceivingWad, wad_vars, WadPayloadFails, WadInvalid,
        SdWadInvalid, WadRejected
<1>7. CASE WadComplete
    <2>1. PICK header \in WadHeaders :
            /\ wad_header_is_valid(header)
            /\ \E payload \in [0 .. (header.wad_bytes - 1) -> Val] :
                 WadAccepted(header, payload)
        BY <1>7 DEF WadComplete
    <2>2. /\ wad_header' = header /\ wad_loaded' = TRUE
          /\ PayloadIsIwad(WadContents(mem', header))
          /\ Crc(WadContents(mem', header)) = header.payload_crc32
        BY <2>1, HeaderAssumption, WadAcceptedFacts
    <2>3. ~ReceivingWad'
        BY <1>7 DEF WadComplete, ReceivingWad
    <2> QED
        BY <2>1, <2>2, <2>3 DEF WadIntact
<1>8. CASE SdWadComplete
    <2>1. PICK n \in CardSizes :
            \E payload \in [0 .. (n - 1) -> Val] :
              WadAccepted(CardHeader(n, Crc(payload)), payload)
        BY <1>8 DEF SdWadComplete
    <2>2. PICK payload \in [0 .. (n - 1) -> Val] :
            WadAccepted(CardHeader(n, Crc(payload)), payload)
        BY <2>1
    <2> DEFINE header == CardHeader(n, Crc(payload))
    <2>3. /\ header \in WadHeader /\ wad_header_is_valid(header)
          /\ header.wad_bytes = n
        BY CardHeaderFacts
    <2> HIDE DEF header
    <2>4. /\ wad_header' = header /\ wad_loaded' = TRUE
          /\ PayloadIsIwad(WadContents(mem', header))
          /\ Crc(WadContents(mem', header)) = header.payload_crc32
        BY <2>2, <2>3, WadAcceptedFacts DEF header
    <2>5. ~ReceivingWad'
        BY <1>8 DEF SdWadComplete, ReceivingWad
    <2> QED
        BY <2>3, <2>4, <2>5 DEF WadIntact
<1>9. CASE BootReady \/ WindowTest
    <2>1. wad_loaded => \A a \in LoadedWadCells : mem'[a] = mem[a]
        <3>1. PICK requested \in Nat :
                mem' = Scribble(mem, SequentialCells(requested))
            BY <1>9, TestAssumption DEF BootReady, WindowTest
        <3>2. \A a \in SequentialCells(requested) : a < ImageBase
            BY SequentialWindow
        <3>3. wad_loaded =>
                \A a \in LoadedWadCells : a \in Addr \ SequentialCells(requested)
            BY <1>1, <3>2, LayoutAssumption DEF Addr, WadBase
        <3> QED
            BY <3>1, <3>3, ScribbleFacts DEF TypeOK
    <2>2. UNCHANGED wad_vars /\ stray' = stray /\ ~ReceivingWad'
        BY <1>9 DEF ReceivingWad, BootReady, WindowTest
    <2>3. CASE wad_loaded
        BY <2>1, <2>2, <2>3, WadFrame
    <2>4. CASE ~wad_loaded
        BY <2>2, <2>4 DEF WadIntact, wad_vars
    <2> QED
        BY <2>3, <2>4
<1>10. CASE ImagePayloadFails \/ ImageCrcFails \/ ImageComplete \/ Launch
    <2>1. \A a \in Addr \ ImageWindow : mem'[a] = mem[a]
        BY <1>10, ImageStoresInWindow, LaunchFacts
    <2>2. UNCHANGED wad_vars /\ ~ReceivingWad'
        BY <1>10, LaunchFacts
        DEF ReceivingWad, ImagePayloadFails, ImageCrcFails, ImageComplete,
            PreserveImage, Launch
    <2>3. stray' = stray \/ stray' = stray \ ImageWindow
        BY <1>10
        DEF ImagePayloadFails, ImageCrcFails, ImageComplete, Launch
    <2>4. CASE wad_loaded
        <3>1. \A a \in LoadedWadCells : mem'[a] = mem[a]
            BY <1>2, <2>1, <2>4
        <3>2. WadContents(mem', wad_header) = WadContents(mem, wad_header)
            <4>1. /\ wad_header.load_address \in Nat
                  /\ wad_header.wad_bytes \in Nat
                BY LayoutAssumption DEF TypeOK, Uint, WadHeader
            <4> QED
                BY <3>1, <4>1, ContentsSame DEF LoadedWadCells, WadContents
        <3>3. stray' \cap LoadedWadCells = {} => stray \cap LoadedWadCells = {}
            BY <1>2, <2>3, <2>4
        <3>4. LoadedWadCells' = LoadedWadCells
            BY <2>2 DEF wad_vars, LoadedWadCells, Region
        <3>5. WadContents(mem, wad_header)' = WadContents(mem', wad_header)
            BY <2>2 DEF wad_vars, WadContents, Contents
        <3> QED
            BY <2>2, <2>4, <3>2, <3>3, <3>4, <3>5 DEF WadIntact, wad_vars
    <2>5. CASE ~wad_loaded
        BY <2>2, <2>5 DEF WadIntact, wad_vars
    <2> QED
        BY <2>4, <2>5
<1>11. CASE ProgramStore
    <2>1. UNCHANGED wad_vars /\ ~ReceivingWad' /\ stray \subseteq stray'
        BY <1>11 DEF ProgramStore, ReceivingWad
    <2>2. wad_loaded =>
            \A a \in LoadedWadCells : mem'[a] = mem[a] \/ a \in stray'
        <3>1. wad_loaded => \A a \in LoadedWadCells : a \notin ProgramCells
            BY <1>11, RegionBounds DEF ProgramStore, RestartImageSound
        <3> QED
            BY <1>1, <1>11, <3>1 DEF ProgramStore, TypeOK
    <2>3. CASE wad_loaded
        BY <2>1, <2>2, <2>3, WadFrame
    <2>4. CASE ~wad_loaded
        BY <2>1, <2>4 DEF WadIntact, wad_vars
    <2> QED
        BY <2>3, <2>4
<1>12. CASE ExecTest
    <2>1. wad_loaded => \A a \in LoadedWadCells : mem'[a] = mem[a]
        <3>1. wad_loaded =>
                \A a \in LoadedWadCells :
                  /\ a \notin Region(ImageBase, ExecPayloadBytes)
                  /\ a \notin Region(ImageLimit - ExecReservedBytes,
                                     ExecReservedBytes)
            BY <1>1, LayoutAssumption, HeapTestAssumption
            DEF Region, Addr, WadBase
        <3> QED
            BY <1>1, <1>12, <3>1, ScribbleFacts DEF ExecTest, TypeOK
    <2>2. UNCHANGED wad_vars /\ stray' = stray /\ ~ReceivingWad'
        BY <1>12 DEF ReceivingWad, ExecTest
    <2>3. CASE wad_loaded
        BY <2>1, <2>2, <2>3, WadFrame
    <2>4. CASE ~wad_loaded
        BY <2>2, <2>4 DEF WadIntact, wad_vars
    <2> QED
        BY <2>3, <2>4
<1>13. CASE HeapTest \/ SmokeTest
    <2>1. PICK n \in 1 .. (HeapLimit - HeapBase) : HeapAllocationTest(n)
        BY <1>13, HeapTestAssumption DEF HeapTest, SmokeTest
    <2>2. UNCHANGED wad_vars /\ stray' = stray /\ ~ReceivingWad'
        BY <2>1 DEF HeapAllocationTest, ReceivingWad
    <2>3. wad_loaded => \A a \in LoadedWadCells : mem'[a] = mem[a]
        <3>1. wad_loaded =>
                \A a \in LoadedWadCells : a \notin Region(HeapBase, n)
            BY <1>1, LayoutAssumption DEF Region, HeapBase, WadBase, Addr
        <3> QED
            BY <1>1, <2>1, <3>1, ScribbleFacts
            DEF HeapAllocationTest, HeapFill, TypeOK
    <2>4. CASE wad_loaded
        BY <2>2, <2>3, <2>4, WadFrame
    <2>5. CASE ~wad_loaded
        BY <2>2, <2>5 DEF WadIntact, wad_vars
    <2> QED
        BY <2>4, <2>5
<1> QED
    BY <1>3, <1>4, <1>5, <1>6, <1>7, <1>8, <1>9, <1>10, <1>11, <1>12, <1>13
    DEF Next

-----------------------------------------------------------------------------
(* Theorems.                                                               *)

\* The initial state satisfies the inductive invariant.
LEMMA InitIInv ==
    ASSUME Init
    PROVE  IInv
<1>1. TypeOK
    <2>1. 0 \in Uint /\ HeapBase \in HeapBase .. HeapLimit
        BY LayoutAssumption DEF Uint, HeapBase
    <2>2. ClearedHeader \in ImageHeader /\ ClearedWadHeader \in WadHeader
        BY <2>1, HeaderAssumption
        DEF ClearedHeader, ClearedWadHeader, ImageHeader, WadHeader
    <2>3. mem \in [Addr -> Val]
        BY HeapTestAssumption DEF Init
    <2> QED
        BY <2>1, <2>2, <2>3 DEF Init, TypeOK, PCs
<1>2. RestartImageSound
    BY DEF Init, RestartImageSound, ReceivingImage
<1>3. WadIntact
    BY DEF Init, WadIntact
<1> QED
    BY <1>1, <1>2, <1>3 DEF IInv

\* The inductive invariant holds in every reachable state.
THEOREM InvariantCorrect == Spec => []IInv
<1>1. Init => IInv
    BY InitIInv
<1>2. IInv /\ [Next]_vars => IInv'
    BY TypeStep, RestartStep, WadStep DEF IInv
<1> QED
    BY <1>1, <1>2, PTL DEF Spec

\* Every variable keeps its range; the heap break never leaves the heap.
THEOREM TypeCorrect == Spec => []TypeOK
<1>1. IInv => TypeOK
    BY DEF IInv
<1> QED
    BY <1>1, InvariantCorrect, PTL

\* An announced restart image is well placed and, unless the program itself
\* overwrote it, still has the checksum of its header.
THEOREM RestartCorrect == Spec => []RestartImageSound
<1>1. IInv => RestartImageSound
    BY DEF IInv
<1> QED
    BY <1>1, InvariantCorrect, PTL

\* An announced IWAD is in memory with the recorded checksum, unless the
\* program overwrote it.
THEOREM WadCorrect == Spec => []WadIntact
<1>1. IInv => WadIntact
    BY DEF IInv
<1> QED
    BY <1>1, InvariantCorrect, PTL

\* Only a launch gives control to the program.
LEMMA OnlyLaunchStartsProgram ==
    ASSUME [Next]_vars, pc # "running", pc' = "running"
    PROVE  Launch
BY DEF Next, vars, Reset, Calibrate, BootReady, BootTimeout, ImageReceive,
       SdBoot, SdOpenFails, SdOpen, ImageHeaderFails, ImagePayloadFails,
       ImageCrcFails, ImageComplete, PreserveImage, WadReceive, SdWadRefused,
       SdWadOpen, WadHeaderFails, WadPayloadFails, WadInvalid, WadRejected,
       WadComplete, SdWadInvalid, SdWadComplete, LaunchRefused, ProgramSbrk,
       ProgramStore, ProgramReturn, ProgramTrap, WindowTest, SparseTest,
       RandomTest, Qualification, DestructiveTest, ExecTest, HeapTest,
       SmokeTest, HeapAllocationTest, HeapFill, HeapReset

\* The program starts only from a verified image, a cleared bss, an empty heap
\* and an IWAD.
THEOREM LaunchVerifiedCorrect == Spec => LaunchVerified
<1> DEFINE A == pc # "running" /\ pc' = "running" =>
        /\ image_loaded /\ wad_loaded
        /\ ImageCrc(mem', loaded_header) = loaded_header.payload_crc32
        /\ loaded_header.entry_address \in
             Region(loaded_header.load_address, loaded_header.image_bytes)
        /\ \A a \in Region(loaded_header.bss_address,
                           loaded_header.bss_bytes) : mem'[a] = Zero
        /\ heap_current' = HeapBase
<1>1. IInv /\ [Next]_vars => A
    <2> SUFFICES ASSUME IInv, [Next]_vars, pc # "running", pc' = "running"
                 PROVE  A
        OBVIOUS
    <2>1. Launch
        BY OnlyLaunchStartsProgram
    <2>2. image_loaded /\ wad_loaded /\ heap_current' = HeapBase
        BY <2>1 DEF Launch
    <2>3. /\ ImageCrc(mem', loaded_header) = loaded_header.payload_crc32
          /\ \A a \in Region(loaded_header.bss_address,
                             loaded_header.bss_bytes) : mem'[a] = Zero
        BY <2>1, LaunchFacts
    <2>4. loaded_header.entry_address \in
            Region(loaded_header.load_address, loaded_header.image_bytes)
        <3>1. loaded_header \in ImageHeader /\ header_is_valid(loaded_header)
            BY <2>1, LaunchFacts
        <3>2. loaded_header.entry_address \in Nat
            BY <3>1, LayoutAssumption DEF ImageHeader, Uint
        <3> QED
            BY <3>1, <3>2, HeaderLayout, LayoutAssumption DEF Region
    <2> QED
        BY <2>2, <2>3, <2>4
<1>2. IInv /\ [Next]_vars => [A]_vars
    BY <1>1
<1> QED
    BY <1>2, InvariantCorrect, PTL DEF Spec, LaunchVerified

\* `j' restarts the game whenever image and IWAD are announced and the program
\* left the copy alone.
THEOREM RestartPreservedCorrect == Spec => RestartPreserved
<1>1. IInv => (Launch /\ stray \cap BackupCells = {} => pc' = "running")
    <2> SUFFICES ASSUME IInv, Launch, stray \cap BackupCells = {}
                 PROVE  pc' = "running"
        OBVIOUS
    <2>1. /\ Contents(mem', ImageBase, loaded_header.image_bytes)
               = Contents(mem, image_backup_address, loaded_header.image_bytes)
          /\ mem' = Restored(mem, loaded_header, image_backup_address)
          /\ image_loaded' = (ImageCrc(mem', loaded_header)
                                = loaded_header.payload_crc32)
          /\ pc' = IF image_loaded' THEN "running" ELSE "poll"
          /\ image_restart_ready
          /\ loaded_header \in ImageHeader /\ header_is_valid(loaded_header)
        BY LaunchFacts
    <2>2. loaded_header.load_address = ImageBase
        BY <2>1, HeaderLayout
    <2>3. Crc(Contents(mem, image_backup_address, loaded_header.image_bytes))
            = loaded_header.payload_crc32
        BY <2>1 DEF IInv, RestartImageSound
    <2> QED
        BY <2>1, <2>2, <2>3 DEF ImageCrc
<1>2. IInv => [Launch /\ stray \cap BackupCells = {} => pc' = "running"]_vars
    BY <1>1
<1> QED
    BY <1>2, InvariantCorrect, PTL DEF RestartPreserved

\* The commands that leave every cell of memory alone.
LEMMA QuietSteps ==
    ASSUME UNCHANGED vars \/ Reset \/ Calibrate \/ BootTimeout \/ ImageReceive
             \/ SdBoot \/ SdOpenFails \/ SdOpen \/ ImageHeaderFails
             \/ WadReceive \/ SdWadRefused \/ SdWadOpen \/ WadHeaderFails
             \/ LaunchRefused \/ ProgramReturn \/ ProgramTrap \/ ProgramSbrk
             \/ HeapReset
    PROVE  mem' = mem
BY DEF vars, Reset, Calibrate, BootTimeout, ImageReceive, SdBoot, SdOpenFails,
       SdOpen, ImageHeaderFails, WadReceive, SdWadRefused, SdWadOpen,
       WadHeaderFails, LaunchRefused, ProgramReturn, ProgramTrap, ProgramSbrk,
       HeapReset

\* A sequential test changes nothing above the diagnostic window.
LEMMA WindowFacts ==
    ASSUME TypeOK, BootReady \/ WindowTest
    PROVE  \A a \in Addr : a >= ImageBase => mem'[a] = mem[a]
<1>1. PICK requested \in Nat :
        mem' = Scribble(mem, SequentialCells(requested))
    BY TestAssumption DEF BootReady, WindowTest
<1>2. \A a \in Addr : a >= ImageBase => a \notin SequentialCells(requested)
    BY SequentialWindow, LayoutAssumption DEF Addr
<1> QED
    BY <1>1, <1>2, ScribbleFacts DEF TypeOK

\* No command of the prompt, load or boot step writes an allocated heap cell.
THEOREM HeapKeptCorrect == Spec => HeapKept
<1> DEFINE A == pc # "running" =>
        \A a \in Region(HeapBase, heap_current - HeapBase) : mem'[a] = mem[a]
<1>1. IInv /\ [Next]_vars => A
    <2> SUFFICES ASSUME IInv, [Next]_vars, pc # "running",
                        NEW a \in Region(HeapBase, heap_current - HeapBase)
                 PROVE  mem'[a] = mem[a]
        OBVIOUS
    <2> USE DEF IInv
    <2>1. /\ heap_current # HeapBase /\ a \in Addr
          /\ a \in Addr \ ImageWindow /\ a < WadBase /\ a >= ImageBase
        BY LayoutAssumption
        DEF TypeOK, Region, Addr, HeapBase, WadBase, ImageWindow
    <2>2. CASE UNCHANGED vars \/ Reset \/ Calibrate \/ BootTimeout
                 \/ ImageReceive \/ SdBoot \/ SdOpenFails \/ SdOpen
                 \/ ImageHeaderFails \/ WadReceive \/ SdWadRefused
                 \/ SdWadOpen \/ WadHeaderFails \/ LaunchRefused
                 \/ ProgramReturn \/ ProgramTrap \/ ProgramSbrk \/ HeapReset
        BY <2>2, QuietSteps
    <2>3. CASE BootReady \/ WindowTest
        BY <2>1, <2>3, WindowFacts
    <2>4. CASE ImagePayloadFails \/ ImageCrcFails \/ ImageComplete \/ Launch
        BY <2>1, <2>4, ImageStoresInWindow, LaunchFacts
    <2>5. CASE WadPayloadFails \/ WadInvalid \/ SdWadInvalid \/ WadComplete
                 \/ SdWadComplete
        BY <2>1, <2>5, WadStoresHigh
    <2>6. CASE SparseTest \/ RandomTest \/ Qualification \/ HeapTest
                 \/ SmokeTest
        BY <2>1, <2>6
        DEF SparseTest, RandomTest, Qualification, DestructiveTest,
            destructive_test_allowed, HeapTest, SmokeTest, HeapAllocationTest,
            HeapFill
    <2>7. CASE ExecTest
        <3>1. /\ a \notin Region(ImageBase, ExecPayloadBytes)
              /\ a \notin Region(ImageLimit - ExecReservedBytes,
                                 ExecReservedBytes)
            <4>1. a \in Int /\ a >= ImageLimit
                BY LayoutAssumption DEF TypeOK, Region, HeapBase
            <4> QED
                BY <4>1, LayoutAssumption, HeapTestAssumption DEF Region
        <3> QED
            BY <2>1, <2>7, <3>1, ScribbleFacts DEF ExecTest, TypeOK
    <2>8. CASE ProgramStore
        BY <2>8 DEF ProgramStore
    <2> QED
        BY <2>2, <2>3, <2>4, <2>5, <2>6, <2>7, <2>8 DEF Next
<1>2. IInv /\ [Next]_vars => [A]_vars
    BY <1>1
<1> QED
    BY <1>2, InvariantCorrect, PTL DEF Spec, HeapKept

\* A command that keeps an image or IWAD announced leaves its cells alone.
THEOREM LoadedUntouchedCorrect == Spec => LoadedUntouched
<1> DEFINE A == pc # "running" /\ pc' # "running" =>
        /\ (image_loaded /\ image_loaded') =>
             \A a \in BackupCells \cup Region(loaded_header.load_address,
                                              loaded_header.image_bytes) :
               mem'[a] = mem[a]
        /\ (wad_loaded /\ wad_loaded') =>
             \A a \in LoadedWadCells : mem'[a] = mem[a]
<1>1. ASSUME IInv, [Next]_vars, pc # "running", pc' # "running",
             image_loaded, image_loaded',
             NEW a \in BackupCells \cup Region(loaded_header.load_address,
                                               loaded_header.image_bytes)
      PROVE  mem'[a] = mem[a]
    <2> USE <1>1 DEF IInv
    <2>1. image_restart_ready /\ ~ReceivingImage
        BY DEF RestartImageSound
    <2>2. a \in Addr /\ ImageBase <= a /\ a < ImageLimit
        <3>1. CASE a \in BackupCells
            BY <2>1, <3>1, RegionBounds
        <3>2. CASE a \notin BackupCells
            <4>1. /\ loaded_header \in ImageHeader
                  /\ header_is_valid(loaded_header)
                BY <2>1 DEF TypeOK, RestartImageSound
            <4> QED
                BY <3>2, <4>1, HeaderLayout, LayoutAssumption DEF Region, Addr
        <3> QED
            BY <3>1, <3>2
    <2>3. CASE UNCHANGED vars \/ Reset \/ Calibrate \/ BootTimeout
                 \/ ImageReceive \/ SdBoot \/ SdOpenFails \/ SdOpen
                 \/ ImageHeaderFails \/ WadReceive \/ SdWadRefused
                 \/ SdWadOpen \/ WadHeaderFails \/ LaunchRefused
                 \/ ProgramReturn \/ ProgramTrap \/ ProgramSbrk \/ HeapReset
        BY <2>3, QuietSteps
    <2>4. CASE BootReady \/ WindowTest
        BY <2>2, <2>4, WindowFacts
    <2>5. CASE ImagePayloadFails \/ ImageCrcFails \/ ImageComplete
        BY <2>1, <2>5 DEF ImagePayloadFails, ImageCrcFails, ImageComplete
    <2>6. CASE Launch
        BY <2>6, LaunchFacts
    <2>7. CASE WadPayloadFails \/ WadInvalid \/ SdWadInvalid \/ WadComplete
                 \/ SdWadComplete
        BY <2>2, <2>7, WadStoresHigh, LayoutAssumption DEF WadBase, Addr
    <2>8. CASE SparseTest \/ RandomTest \/ Qualification \/ ExecTest
        BY <2>8
        DEF SparseTest, RandomTest, Qualification, DestructiveTest, ExecTest,
            image_invalidate
    <2>9. CASE HeapTest \/ SmokeTest
        <3>1. PICK n \in Nat : HeapAllocationTest(n)
            BY <2>9, HeapTestAssumption, LayoutAssumption
            DEF HeapTest, SmokeTest, HeapBase
        <3>2. a \notin Region(HeapBase, n)
            BY <2>2, LayoutAssumption DEF Region, HeapBase, Addr
        <3> QED
            BY <2>2, <3>1, <3>2, ScribbleFacts
            DEF HeapAllocationTest, HeapFill, TypeOK
    <2>10. CASE ProgramStore
        BY <2>10 DEF ProgramStore
    <2> QED
        BY <2>3, <2>4, <2>5, <2>6, <2>7, <2>8, <2>9, <2>10 DEF Next
<1>2. ASSUME IInv, [Next]_vars, pc # "running", pc' # "running",
             wad_loaded, wad_loaded', NEW a \in LoadedWadCells
      PROVE  mem'[a] = mem[a]
    <2> USE <1>2 DEF IInv
    <2>1. ~ReceivingWad
        BY DEF WadIntact
    <2>2. /\ a \in Addr /\ WadBase <= a
          /\ a \in Addr \ ImageWindow /\ a >= ImageBase
        <3>1. a \in Addr /\ WadBase <= a
            BY RegionBounds
        <3> QED
            BY <3>1, LayoutAssumption DEF ImageWindow, Region, WadBase, Addr
    <2>3. CASE UNCHANGED vars \/ Reset \/ Calibrate \/ BootTimeout
                 \/ ImageReceive \/ SdBoot \/ SdOpenFails \/ SdOpen
                 \/ ImageHeaderFails \/ WadReceive \/ SdWadRefused
                 \/ SdWadOpen \/ WadHeaderFails \/ LaunchRefused
                 \/ ProgramReturn \/ ProgramTrap \/ ProgramSbrk \/ HeapReset
        BY <2>3, QuietSteps
    <2>4. CASE BootReady \/ WindowTest
        BY <2>2, <2>4, WindowFacts
    <2>5. CASE ImagePayloadFails \/ ImageCrcFails \/ ImageComplete \/ Launch
        BY <2>2, <2>5, ImageStoresInWindow, LaunchFacts
    <2>6. CASE WadPayloadFails \/ WadInvalid \/ SdWadInvalid \/ WadComplete
                 \/ SdWadComplete
        BY <2>1, <2>6
        DEF ReceivingWad, WadPayloadFails, WadInvalid, SdWadInvalid,
            WadComplete, SdWadComplete
    <2>7. CASE SparseTest \/ RandomTest \/ Qualification
        BY <2>7
        DEF SparseTest, RandomTest, Qualification, DestructiveTest
    <2>8. CASE ExecTest
        <3>1. /\ a \notin Region(ImageBase, ExecPayloadBytes)
              /\ a \notin Region(ImageLimit - ExecReservedBytes,
                                 ExecReservedBytes)
            BY <2>2, LayoutAssumption, HeapTestAssumption
            DEF Region, Addr, WadBase
        <3> QED
            BY <2>2, <2>8, <3>1, ScribbleFacts DEF ExecTest, TypeOK
    <2>9. CASE HeapTest \/ SmokeTest
        <3>1. PICK n \in 1 .. (HeapLimit - HeapBase) : HeapAllocationTest(n)
            BY <2>9, HeapTestAssumption DEF HeapTest, SmokeTest
        <3>2. a \notin Region(HeapBase, n)
            BY <2>2, LayoutAssumption DEF Region, HeapBase, WadBase, Addr
        <3> QED
            BY <2>2, <3>1, <3>2, ScribbleFacts
            DEF HeapAllocationTest, HeapFill, TypeOK
    <2>10. CASE ProgramStore
        BY <2>10 DEF ProgramStore
    <2> QED
        BY <2>3, <2>4, <2>5, <2>6, <2>7, <2>8, <2>9, <2>10 DEF Next
<1>3. IInv /\ [Next]_vars => A
    BY <1>1, <1>2
<1>4. IInv /\ [Next]_vars => [A]_vars
    BY <1>3
<1> QED
    BY <1>4, InvariantCorrect, PTL DEF Spec, LoadedUntouched

-----------------------------------------------------------------------------
(* The protected cells of the 12F.                                         *)

----------------------------------------------------------------------------
(***************************************************************************)
(* Induction, for sets of numbers, and the chain of a file by its          *)
(* recursive definition.  The provers take no predicate as a parameter, so *)
(* the induction theorems of the library are replaced by a counting        *)
(* argument: a set with 0 and every successor below m, but without m,      *)
(* would fit into itself without 0.                                        *)
(***************************************************************************)
\* A set with 0 and every successor holds all the numbers.
LEMMA SetInduction ==
    ASSUME NEW S \in SUBSET Nat, 0 \in S, \A n \in S : n + 1 \in S
    PROVE  S = Nat
<1>1. SUFFICES ASSUME NEW m \in Nat, m \notin S PROVE FALSE
    OBVIOUS
<1> DEFINE T == S \cap (0 .. m)
           U == T \ {0}
           f == [n \in T |-> n + 1]
<1>2. IsFiniteSet(0 .. m)
    BY <1>1, FS_Interval
<1>3. T \subseteq 0 .. m /\ 0 \in T
    BY <1>1
<1>4. IsFiniteSet(T)
    BY <1>2, <1>3, FS_Subset
<1>5. IsFiniteSet(U) /\ Cardinality(U) = Cardinality(T) - 1
    BY <1>3, <1>4, FS_RemoveElement
<1>6. Cardinality(T) \in Nat
    BY <1>4, FS_CardinalityType
<1>7. f \in [T -> U]
    <2>1. ASSUME NEW n \in T PROVE n + 1 \in U
        BY <1>1, <2>1
    <2> QED BY <2>1
<1>8. \A x, y \in T : f[x] = f[y] => x = y
    OBVIOUS
<1> HIDE DEF T, U, f
<1>9. \E x, y \in T : x # y /\ f[x] = f[y]
    BY <1>4, <1>5, <1>6, <1>7, FS_PigeonHole
<1> QED BY <1>8, <1>9

\* h doubles from WordCells on up to its n-th place.
Doubling(h, n) ==
    /\ h = [i \in 0 .. n |-> h[i]]
    /\ h[0] = WordCells
    /\ \A i \in 1 .. n : h[i] = 2 * h[i - 1]

\* There is such a function for every place.
LEMMA DoublingExists == \A n \in Nat : \E h : Doubling(h, n)
<1> DEFINE S == {n \in Nat : \E h : Doubling(h, n)}
<1>1. 0 \in S
    <2> DEFINE h == [i \in 0 .. 0 |-> WordCells]
    <2>1. Doubling(h, 0)
        BY DEF Doubling
    <2> QED BY <2>1
<1>2. ASSUME NEW n \in S PROVE n + 1 \in S
    <2>1. PICK h : Doubling(h, n)
        OBVIOUS
    <2> DEFINE k == [i \in 0 .. (n + 1) |-> IF i <= n THEN h[i] ELSE 2 * h[n]]
    <2>2. k[0] = WordCells
        BY <2>1 DEF Doubling
    <2>3. ASSUME NEW i \in 1 .. (n + 1) PROVE k[i] = 2 * k[i - 1]
        <3>1. CASE i <= n
            <4>1. i \in 1 .. n /\ i - 1 \in 0 .. n /\ i \in 0 .. (n + 1)
                BY <3>1
            <4>2. h[i] = 2 * h[i - 1]
                BY <2>1, <4>1 DEF Doubling
            <4>3. k[i] = h[i] /\ k[i - 1] = h[i - 1]
                BY <4>1
            <4> QED BY <4>2, <4>3
        <3>2. CASE i = n + 1
            BY <3>2
        <3> QED BY <3>1, <3>2
    <2>4. k = [i \in 0 .. (n + 1) |-> k[i]]
        OBVIOUS
    <2> HIDE DEF k
    <2>5. Doubling(k, n + 1)
        BY <2>2, <2>3, <2>4 DEF Doubling
    <2> QED BY <2>5
<1>3. S = Nat
    <2>1. S \in SUBSET Nat
        OBVIOUS
    <2> HIDE DEF S
    <2> QED BY <1>1, <1>2, <2>1, SetInduction
<1> QED BY <1>3

\* Two of them agree as far as both go.
LEMMA DoublingsAgree ==
    ASSUME NEW h, NEW k, NEW m \in Nat, NEW n \in Nat,
           Doubling(h, m), Doubling(k, n), m <= n
    PROVE  h[m] = k[m]
<1> DEFINE S == {i \in Nat : i <= m => h[i] = k[i]}
<1>1. 0 \in S
    BY DEF Doubling
<1>2. ASSUME NEW i \in S PROVE i + 1 \in S
    <2>1. CASE i + 1 <= m
        <3>1. i + 1 \in 1 .. m /\ i + 1 \in 1 .. n /\ (i + 1) - 1 = i
            BY <2>1
        <3>2. h[i] = k[i]
            BY <2>1
        <3>3. h[i + 1] = 2 * h[(i + 1) - 1]
            BY <3>1 DEF Doubling
        <3>4. k[i + 1] = 2 * k[(i + 1) - 1]
            BY <3>1 DEF Doubling
        <3> QED BY <3>1, <3>2, <3>3, <3>4
    <2>2. CASE ~(i + 1 <= m)
        BY <2>2
    <2> QED BY <2>1, <2>2
<1>3. S = Nat
    <2>1. S \in SUBSET Nat
        OBVIOUS
    <2> HIDE DEF S
    <2> QED BY <1>1, <1>2, <2>1, SetInduction
<1> QED BY <1>3

\* Each tested address bit is twice the one before it.
LEMMA AddressBitDoubles ==
    /\ AddressBit[0] = WordCells
    /\ \A n \in Nat : AddressBit[n + 1] = 2 * AddressBit[n]
<1> DEFINE h(n) == CHOOSE p : Doubling(p, n)
           g == [n \in Nat |-> h(n)[n]]
           Def(c) == [point \in Nat |-> IF point = 0 THEN WordCells
                                        ELSE 2 * c[point - 1]]
<1>1. \A n \in Nat : Doubling(h(n), n)
    BY DoublingExists
<1> HIDE DEF h
<1>2. g[0] = WordCells
    BY <1>1 DEF Doubling
<1>3. ASSUME NEW n \in Nat, n # 0 PROVE g[n] = 2 * g[n - 1]
    <2>1. n - 1 \in Nat /\ n \in 1 .. n /\ n - 1 <= n
        BY <1>3
    <2>2. h(n)[n] = 2 * h(n)[n - 1]
        BY <1>1, <2>1 DEF Doubling
    <2>3. h(n - 1)[n - 1] = h(n)[n - 1]
        <3>1. Doubling(h(n - 1), n - 1) /\ Doubling(h(n), n)
            BY <1>1, <2>1
        <3> QED BY <2>1, <3>1, DoublingsAgree
    <2> QED BY <2>1, <2>2, <2>3
<1>4. g = Def(g)
    <2>1. ASSUME NEW n \in Nat
          PROVE  g[n] = IF n = 0 THEN WordCells ELSE 2 * g[n - 1]
        BY <1>2, <1>3
    <2>2. g = [n \in Nat |-> g[n]]
        OBVIOUS
    <2> HIDE DEF g
    <2> QED BY <2>1, <2>2
<1> HIDE DEF g
<1> DEFINE d == AddressBit
<1>5. d = CHOOSE c : c = Def(c)
    BY DEF AddressBit
<1>6. d = Def(d)
    BY <1>4, <1>5
<1> HIDE DEF d
<1>7. d[0] = WordCells
    BY <1>6
<1>8. ASSUME NEW n \in Nat PROVE d[n + 1] = 2 * d[n]
    <2>1. n + 1 \in Nat /\ n + 1 # 0 /\ (n + 1) - 1 = n
        OBVIOUS
    <2>2. Def(d)[n + 1] = 2 * d[(n + 1) - 1]
        BY <2>1
    <2> QED BY <1>6, <2>1, <2>2
<1> QED BY <1>7, <1>8 DEF d

\* The bits are numbers, and any later one is at least twice an earlier one.
LEMMA AddressBitsGrow ==
    /\ \A n \in Nat : AddressBit[n] \in Nat \ {0}
    /\ \A m, n \in Nat : m < n => 2 * AddressBit[m] <= AddressBit[n]
<1>1. \A n \in Nat : AddressBit[n] \in Nat \ {0}
    <2> DEFINE S == {n \in Nat : AddressBit[n] \in Nat \ {0}}
    <2>1. 0 \in S
        BY AddressBitDoubles, TestAssumption
    <2>2. ASSUME NEW n \in S PROVE n + 1 \in S
        <3>1. AddressBit[n + 1] = 2 * AddressBit[n]
            BY AddressBitDoubles
        <3> QED BY <3>1
    <2>3. S = Nat
        <3>1. S \in SUBSET Nat
            OBVIOUS
        <3> HIDE DEF S
        <3> QED BY <2>1, <2>2, <3>1, SetInduction
    <2> QED BY <2>3
<1>2. ASSUME NEW m \in Nat, NEW n \in Nat, m < n
      PROVE  2 * AddressBit[m] <= AddressBit[n]
    <2> DEFINE S == {i \in Nat : 2 * AddressBit[m] <= AddressBit[m + 1 + i]}
    <2>1. 0 \in S
        <3>1. AddressBit[m + 1] = 2 * AddressBit[m] /\ AddressBit[m] \in Nat
            BY <1>1, AddressBitDoubles
        <3>2. m + 1 + 0 = m + 1
            OBVIOUS
        <3> QED BY <3>1, <3>2
    <2>2. ASSUME NEW i \in S PROVE i + 1 \in S
        <3>1. m + 1 + i \in Nat /\ m + 1 + (i + 1) = (m + 1 + i) + 1
            OBVIOUS
        <3>2. /\ AddressBit[(m + 1 + i) + 1] = 2 * AddressBit[m + 1 + i]
              /\ AddressBit[m + 1 + i] \in Nat /\ AddressBit[m] \in Nat
            BY <1>1, <3>1, AddressBitDoubles
        <3>3. 2 * AddressBit[m] <= AddressBit[m + 1 + i]
            OBVIOUS
        <3> QED BY <3>1, <3>2, <3>3
    <2>3. S = Nat
        <3>1. S \in SUBSET Nat
            OBVIOUS
        <3> HIDE DEF S
        <3> QED BY <2>1, <2>2, <3>1, SetInduction
    <2>4. n - m - 1 \in Nat
        BY <1>2
    <2>6. n - m - 1 \in S
        BY <2>3, <2>4
    <2>5. m + 1 + (n - m - 1) = n
        OBVIOUS
    <2> QED BY <2>5, <2>6
<1> QED BY <1>1, <1>2

\* Flipping one address bit of the reference point does not come below the
\* protected cells.
LEMMA FlipStaysHigh ==
    ASSUME NEW b \in AddressBits, Protected # 0
    PROVE  /\ FlipBit(3 * Protected, b) \in Int
           /\ FlipBit(3 * Protected, b) >= Protected
<1>0. \A c \in AddressBits : \E i \in Nat : c = AddressBit[i]
    BY DEF AddressBits
<1>1. PICK i \in Nat : b = AddressBit[i]
    BY <1>0
<1>2. PICK k \in Nat : Protected = AddressBit[k]
    <2>1. Protected \in AddressBits
        BY ProtectedAssumption
    <2> QED BY <1>0, <2>1
<1>3. b \in Nat \ {0} /\ Protected \in Nat \ {0}
    BY <1>1, <1>2, AddressBitsGrow
<1>4. CASE b <= 2 * Protected
    BY <1>3, <1>4 DEF FlipBit
<1>5. CASE b > 2 * Protected
    <2>1. i > k + 1
        <3>1. CASE i < k
            <4>1. 2 * AddressBit[i] <= AddressBit[k]
                BY <3>1, AddressBitsGrow
            <4> QED BY <1>1, <1>2, <1>3, <1>5, <4>1
        <3>2. CASE i = k
            BY <1>1, <1>2, <1>3, <1>5, <3>2
        <3>3. CASE i = k + 1
            <4>1. AddressBit[i] = 2 * AddressBit[k]
                BY <3>3, AddressBitDoubles
            <4> QED BY <1>1, <1>2, <1>3, <1>5, <4>1
        <3> QED BY <3>1, <3>2, <3>3
    <2>2. 4 * Protected <= b
        <3>1. AddressBit[k + 1] = 2 * AddressBit[k]
            BY AddressBitDoubles
        <3>2. 2 * AddressBit[k + 1] <= AddressBit[i]
            BY <2>1, AddressBitsGrow
        <3> QED BY <1>1, <1>2, <1>3, <3>1, <3>2
    <2>3. 3 * Protected < b
        BY <1>3, <2>2
    <2>4. (3 * Protected) \div b = 0
        BY <1>3, <2>3
    <2>5. FlipBit(3 * Protected, b) = 3 * Protected + b
        BY <2>4 DEF FlipBit
    <2> QED BY <1>3, <2>5
<1> QED BY <1>3, <1>4, <1>5

\* No destructive test touches the protected cells.
LEMMA TestsStayHigh ==
    ASSUME Protected # 0
    PROVE  \A a \in SparseCells \cup RandomCells : a >= Protected
<1>0. /\ Protected \in Nat /\ BankBytes \in Nat /\ SdramBytes \in Nat
      /\ WordCells \in Nat \ {0} /\ RandomTestBytes \in Nat \ {0}
      /\ RandomTestBytes + Protected <= BankBytes
      /\ WordCells <= RandomTestBytes
      /\ 4 * BankBytes <= SdramBytes
    BY LayoutAssumption, TestAssumption DEF BankCount
<1>1. ASSUME NEW o \in SparseOffsets PROVE o \in Int /\ o >= Protected
    <2>1. sparse_reference_offset = 3 * Protected
        BY <1>0 DEF sparse_reference_offset
    <2>2. CASE o = sparse_reference_offset
        BY <1>0, <2>1, <2>2
    <2>3. CASE \E b \in AddressBits : o = FlipBit(sparse_reference_offset, b)
        BY <2>1, <2>3, FlipStaysHigh
    <2>4. CASE \E k \in 1 .. 3 : o = k * BankBytes - WordCells
        <3>1. PICK k \in 1 .. 3 : o = k * BankBytes - WordCells
            BY <2>4
        <3>2. k = 1 \/ k = 2 \/ k = 3
            OBVIOUS
        <3> QED BY <1>0, <3>1, <3>2
    <2>5. CASE o = 3 * BankBytes \/ o = SdramBytes - WordCells
        BY <1>0, <2>5
    <2> QED BY <2>2, <2>3, <2>4, <2>5 DEF SparseOffsets, BankCount
<1>2. ASSUME NEW a \in SparseCells PROVE a >= Protected
    <2>1. PICK o \in SparseOffsets : a \in Region(o, WordCells)
        BY DEF SparseCells
    <2> QED BY <1>0, <1>1, <2>1 DEF Region
<1>3. ASSUME NEW a \in RandomCells PROVE a >= Protected
    <2>1. PICK pass \in 0 .. 3 :
            a \in Region(pass * BankBytes + Protected, RandomTestBytes)
        BY DEF RandomCells, BankCount
    <2>2. pass * BankBytes \in Nat
        BY <1>0
    <2> QED BY <1>0, <2>1, <2>2 DEF Region
<1> QED BY <1>2, <1>3

\* No load, test or launch writes a cell the 12F monitor runs from.
THEOREM MonitorKeptCorrect == Spec => MonitorKept
<1> DEFINE A == pc # "running" =>
                  \A a \in Region(0, Protected) : mem'[a] = mem[a]
<1>1. IInv /\ [Next]_vars => A
    <2> SUFFICES ASSUME IInv, [Next]_vars, pc # "running",
                        NEW a \in Region(0, Protected)
                 PROVE  mem'[a] = mem[a]
        OBVIOUS
    <2> USE DEF IInv
    <2>1. /\ a \in Addr /\ a \in Nat /\ a < Protected /\ Protected # 0
          /\ a < ImageBase /\ a < HeapBase /\ a < WadBase
          /\ a \in Addr \ ImageWindow
        BY LayoutAssumption DEF Region, Addr, HeapBase, WadBase, ImageWindow
    <2>2. CASE UNCHANGED vars \/ Reset \/ Calibrate \/ BootTimeout
                 \/ ImageReceive \/ SdBoot \/ SdOpenFails \/ SdOpen
                 \/ ImageHeaderFails \/ WadReceive \/ SdWadRefused
                 \/ SdWadOpen \/ WadHeaderFails \/ LaunchRefused
                 \/ ProgramReturn \/ ProgramTrap \/ ProgramSbrk \/ HeapReset
        BY <2>2, QuietSteps
    <2>3. ASSUME NEW cells, mem' = Scribble(mem, cells),
                 \A c \in cells : c >= Protected
          PROVE  mem'[a] = mem[a]
        <3>1. a \notin cells
            BY <2>1, <2>3, LayoutAssumption
        <3> QED BY <2>1, <2>3, <3>1, ScribbleFacts DEF TypeOK
    <2>4. \A requested \in Nat : \A c \in SequentialCells(requested) :
            c >= Protected
        BY SequentialWindow
    <2>5. CASE BootReady \/ WindowTest
        <3>1. PICK requested \in Nat :
                mem' = Scribble(mem, SequentialCells(requested))
            BY <2>5, TestAssumption DEF BootReady, WindowTest
        <3> QED BY <2>3, <2>4, <3>1
    <2>6. CASE ImagePayloadFails \/ ImageCrcFails \/ ImageComplete \/ Launch
        BY <2>1, <2>6, ImageStoresInWindow, LaunchFacts
    <2>7. CASE WadPayloadFails \/ WadInvalid \/ SdWadInvalid \/ WadComplete
                 \/ SdWadComplete
        BY <2>1, <2>7, WadStoresHigh
    <2>8. CASE SparseTest \/ RandomTest \/ Qualification
        <3> DEFINE sequential == SequentialCells(FullTestBytes)
        <3>1. \A c \in sequential \cup SparseCells \cup RandomCells :
                c >= Protected
            BY <2>1, <2>4, TestsStayHigh, TestAssumption
        <3> HIDE DEF sequential
        <3>2. PICK cells \in SUBSET (sequential \cup SparseCells
                                       \cup RandomCells) :
                mem' = Scribble(mem, cells)
            BY <2>8
            DEF SparseTest, RandomTest, Qualification, DestructiveTest,
                sequential
        <3> QED BY <2>3, <3>1, <3>2
    <2>9. CASE ExecTest
        <3> DEFINE cells == Region(ImageBase, ExecPayloadBytes) \cup
                 Region(ImageLimit - ExecReservedBytes, ExecReservedBytes)
        <3>1. \A c \in cells : c >= Protected
            BY LayoutAssumption, HeapTestAssumption DEF Region
        <3>2. mem' = Scribble(mem, cells)
            BY <2>9 DEF ExecTest
        <3> HIDE DEF cells
        <3> QED BY <2>3, <3>1, <3>2
    <2>10. CASE HeapTest \/ SmokeTest
        <3>1. PICK n \in Nat : mem' = Scribble(mem, Region(HeapBase, n))
            BY <2>10, HeapTestAssumption, LayoutAssumption
            DEF HeapTest, SmokeTest, HeapAllocationTest, HeapFill, HeapBase
        <3>2. \A c \in Region(HeapBase, n) : c >= Protected
            BY LayoutAssumption DEF Region, HeapBase
        <3> QED BY <2>3, <3>1, <3>2
    <2>11. CASE ProgramStore
        BY <2>11 DEF ProgramStore
    <2> QED
        BY <2>2, <2>5, <2>6, <2>7, <2>8, <2>9, <2>10, <2>11 DEF Next
<1>2. IInv /\ [Next]_vars => [A]_vars
    BY <1>1
<1> QED
    BY <1>2, InvariantCorrect, PTL DEF Spec, MonitorKept


-----------------------------------------------------------------------------
(* Uploads.  What a run that began at a resting board finds in each of its *)
(* places.                                                                 *)

\* One byte is on its way to the board.
OnItsWay(byte) == \/ rx = <<>> /\ wire = <<byte>>
                  \/ rx = <<byte>> /\ wire = <<>>

NothingOnItsWay == rx = <<>> /\ wire = <<>>

\* The places of a run that goes as it should.
Asks ==
    /\ stage = "version" /\ job.kind = "wad" /\ board = "prompt"
    /\ \/ OnItsWay("v") /\ answers = <<>> /\ profile = FALSE
       \/ NothingOnItsWay /\ answers = <<Profile, Prompt>>
       \/ NothingOnItsWay /\ answers = <<Prompt>> /\ profile = TRUE

Commands ==
    /\ stage = "READY" /\ board = "prompt" /\ answers = <<>>
    /\ OnItsWay(CommandOf(job.kind))

Drains ==
    /\ stage = "READY" /\ board \in {"drain", "ready"} /\ kind = job.kind
    /\ NothingOnItsWay /\ answers = <<>>

OffersHeader ==
    /\ stage = "READY" /\ board = "header" /\ kind = job.kind
    /\ NothingOnItsWay /\ answers = <<Marker(job.kind, "READY")>>
    /\ buf = <<>>

SendsHeader ==
    /\ stage = "DATA" /\ board = "header" /\ kind = job.kind
    /\ answers = <<>> /\ Len(buf) < 2
    /\ buf \o (rx \o wire) = Header(job)

Summarizes ==
    /\ stage = "DATA" /\ board = "summary" /\ kind = job.kind
    /\ announced = job /\ NothingOnItsWay /\ answers = <<>>

OffersPayload ==
    /\ stage = "DATA" /\ board = "payload" /\ kind = job.kind
    /\ announced = job /\ NothingOnItsWay /\ buf = <<>>
    /\ answers = <<Marker(job.kind, "DATA")>>

SendsPayload ==
    /\ stage = "OK" /\ board = "payload" /\ kind = job.kind
    /\ announced = job /\ answers = <<>> /\ Len(buf) < Len(Payload(job))
    /\ buf \o (rx \o wire) = Payload(job)

Checks ==
    /\ stage = "OK" /\ board = "check" /\ kind = job.kind
    /\ announced = job /\ NothingOnItsWay /\ answers = <<>>
    /\ buf = Payload(job)

Reported ==
    /\ stage = "OK" /\ board = "prompt" /\ stored = job /\ NothingOnItsWay
    /\ answers = <<Marker(job.kind, "OK"), Prompt>>

CleanRun ==
    \/ Asks \/ Commands \/ Drains \/ OffersHeader \/ SendsHeader
    \/ Summarizes \/ OffersPayload \/ SendsPayload \/ Checks \/ Reported

\* Between two runs, with nothing left of the one before.
CleanOff == stage = "off" /\ board = "prompt" /\ NothingOnItsWay

Clean == CleanOff \/ CleanRun

\* A run that began while the board was still waiting for bytes of another
\* one: its first byte is taken for one of those, and it will hear neither
\* READY nor a memory profile.
LateRun ==
    /\ stage \in {"version", "READY"} /\ profile = FALSE
    /\ \/ /\ board \in {"header", "payload"} /\ answers = <<>>
          /\ \E byte \in Byte : OnItsWay(byte)
       \/ /\ board \in {"header", "summary", "payload", "check", "prompt"}
          /\ NothingOnItsWay
          /\ \A i \in 1 .. Len(answers) :
               /\ answers[i].text \notin {"READY", "profile"}
               /\ answers[i] = Prompt => board = "prompt"

UploadIInv ==
    /\ UploadTypeOK
    /\ faults = 0 => failed = 0 /\ Clean
    /\ failed = 1 => stage = "off" \/ CleanRun \/ LateRun
    /\ failed >= 2 => failed = 2 /\ Clean

\* Taking the first byte of one sequence to the end of another one.
LEMMA ByteMoves ==
    ASSUME NEW S, NEW s \in Seq(S), NEW t \in Seq(S), t # <<>>
    PROVE  /\ Head(t) \in S /\ Tail(t) \in Seq(S)
           /\ Append(s, Head(t)) \in Seq(S)
           /\ Len(Append(s, Head(t))) = Len(s) + 1
           /\ Append(s, Head(t)) \o Tail(t) = s \o t
<1>1. /\ Head(t) \in S /\ Tail(t) \in Seq(S) /\ Len(Tail(t)) = Len(t) - 1
      /\ \A i \in 1 .. Len(Tail(t)) : Tail(t)[i] = t[i + 1]
    BY HeadTailProperties
<1>2. Len(t) \in Nat \ {0} /\ Len(s) \in Nat
    BY EmptySeq, LenProperties
<1> DEFINE a == Append(s, Head(t))
<1>3. /\ a \in Seq(S) /\ Len(a) = Len(s) + 1
      /\ \A i \in 1 .. Len(a) : a[i] = IF i <= Len(s) THEN s[i] ELSE t[1]
    <2>1. Head(t) = t[1]
        BY <1>2
    <2> QED BY <1>1, <1>2, <2>1, AppendProperties
<1> HIDE DEF a
<1>4. /\ a \o Tail(t) \in Seq(S)
      /\ Len(a \o Tail(t)) = Len(a) + Len(Tail(t))
      /\ \A i \in 1 .. Len(a) + Len(Tail(t)) :
           (a \o Tail(t))[i] = IF i <= Len(a) THEN a[i]
                                              ELSE Tail(t)[i - Len(a)]
    BY <1>1, <1>3, ConcatProperties
<1>5. /\ s \o t \in Seq(S) /\ Len(s \o t) = Len(s) + Len(t)
      /\ \A i \in 1 .. Len(s) + Len(t) :
           (s \o t)[i] = IF i <= Len(s) THEN s[i] ELSE t[i - Len(s)]
    BY ConcatProperties
<1>6. ASSUME NEW i \in 1 .. Len(s \o t)
      PROVE  (a \o Tail(t))[i] = (s \o t)[i]
    <2>1. i \in 1 .. Len(s) + Len(t) /\ i \in 1 .. Len(a) + Len(Tail(t))
        BY <1>1, <1>2, <1>3, <1>5
    <2>2. CASE i <= Len(s)
        BY <1>2, <1>3, <1>4, <1>5, <2>1, <2>2
    <2>3. CASE i = Len(s) + 1
        BY <1>2, <1>3, <1>4, <1>5, <2>1, <2>3
    <2>4. CASE i > Len(s) + 1
        <3>1. i - Len(a) \in 1 .. Len(Tail(t)) /\ (i - Len(a)) + 1 = i - Len(s)
            BY <1>1, <1>2, <1>3, <2>1, <2>4
        <3>2. Tail(t)[i - Len(a)] = t[i - Len(s)]
            BY <1>1, <3>1
        <3> QED BY <1>2, <1>3, <1>4, <1>5, <2>1, <2>4, <3>2
    <2> QED BY <1>2, <2>1, <2>2, <2>3, <2>4
<1>7. Len(a \o Tail(t)) = Len(s \o t)
    BY <1>1, <1>2, <1>3, <1>4, <1>5
<1>8. a \o Tail(t) = s \o t
    BY <1>4, <1>5, <1>6, <1>7, SeqEqual
<1> QED BY <1>1, <1>3, <1>8 DEF a

\* One sequence and then another.  The provers reason about Joined by the lemma.
Joined(s, t) == s \o t

LEMMA JoinedInTurn ==
    ASSUME NEW S, NEW s \in Seq(S), NEW t \in Seq(S), NEW u \in Seq(S)
    PROVE  Joined(Joined(s, t), u) = Joined(s, Joined(t, u))
<1>1. (s \o t) \o u = s \o (t \o u)
    BY ConcatAssociative, SMTT(20)
<1> QED BY <1>1 DEF Joined

\* Taking a byte keeps the order with the sequences that wait behind it.
LEMMA ByteTaken ==
    ASSUME NEW S, NEW s \in Seq(S), NEW t \in Seq(S), NEW u \in Seq(S),
           t # <<>>
    PROVE  Joined(Append(s, Head(t)), Joined(Tail(t), u))
             = Joined(s, Joined(t, u))
<1> DEFINE one == Append(s, Head(t))
           rest == Tail(t)
<1>1. one \in Seq(S) /\ rest \in Seq(S) /\ Joined(one, rest) = Joined(s, t)
    BY ByteMoves DEF Joined
<1> HIDE DEF one, rest
<1>2. Joined(one, Joined(rest, u)) = Joined(Joined(one, rest), u)
    BY <1>1, JoinedInTurn
<1>3. Joined(Joined(s, t), u) = Joined(s, Joined(t, u))
    BY JoinedInTurn
<1> QED BY <1>1, <1>2, <1>3 DEF one, rest

\* What the two sides say is made of bytes and of markers.
LEMMA UploadWords ==
    /\ \A k \in Kind : CommandOf(k) \in {"l", "w"} /\ CommandOf(k) \in Byte
    /\ "v" \in Byte
    /\ \A j \in Jobs : /\ j.kind \in Kind
                       /\ Header(j) \in Seq(Byte) /\ Len(Header(j)) = 2
                       /\ Payload(j) \in Seq(Byte) /\ Payload(j) # <<>>
                       /\ Len(Payload(j)) \in Nat \ {0}
    /\ \A j, i \in Jobs : j.kind = i.kind /\ Header(j) = Header(i) => j = i
    /\ Prompt \in Answer /\ Profile \in Answer
    /\ \A k \in Kind : \A text \in {"READY", "DATA", "OK", "ERROR"} :
         Marker(k, text) \in Answer
<1>1. \A k \in Kind : CommandOf(k) \in {"l", "w"} /\ CommandOf(k) \in Byte
    BY UploadAssumption DEF Kind, CommandOf
<1>2. ASSUME NEW j \in Jobs
      PROVE  /\ j.kind \in Kind /\ j.crc \in Byte
             /\ Header(j) \in Seq(Byte) /\ Len(Header(j)) = 2
             /\ Header(j)[2] = j.crc
             /\ Payload(j) \in Seq(Byte) /\ Payload(j) # <<>>
             /\ Len(Payload(j)) \in Nat \ {0}
    <2>1. j.kind \in Kind /\ j.crc \in Byte
        BY UploadAssumption
    <2>2. Magic(j.kind) \in Byte
        BY UploadAssumption DEF Magic
    <2>3. Payload(j) \in Seq(Byte) /\ Payload(j) # <<>>
        BY UploadAssumption
    <2>4. Len(Payload(j)) \in Nat \ {0}
        BY <2>3, EmptySeq
    <2> QED BY <2>1, <2>2, <2>3, <2>4 DEF Header
<1>3. ASSUME NEW j \in Jobs, NEW i \in Jobs, j.kind = i.kind,
             Header(j) = Header(i)
      PROVE  j = i
    <2>1. j.crc = i.crc
        BY <1>2, <1>3
    <2>2. j \in [kind : Kind, crc : Byte] /\ i \in [kind : Kind, crc : Byte]
        BY UploadAssumption
    <2> QED BY <1>3, <2>1, <2>2
<1>4. Prompt \in Answer /\ Profile \in Answer
    BY DEF Prompt, Profile, Answer, Marker
<1>5. \A k \in Kind : \A text \in {"READY", "DATA", "OK", "ERROR"} :
         Marker(k, text) \in Answer
    BY DEF Answer, Marker
<1> QED BY <1>1, <1>2, <1>3, <1>4, <1>5, UploadAssumption

\* Parts of a sequence are sequences.
LEMMA PartsOfSequences ==
    ASSUME NEW S, NEW s \in Seq(S)
    PROVE  /\ \A p \in Prefixes(s) : p \in Seq(S)
           /\ \A p \in Suffixes(s) : p \in Seq(S)
<1>1. \A i \in 1 .. Len(s) : s[i] \in S
    BY ElementOfSeq
<1>2. ASSUME NEW n \in 0 .. Len(s) PROVE SubSeq(s, 1, n) \in Seq(S)
    <2>1. \A i \in 1 .. n : s[i] \in S
        BY <1>1
    <2> QED BY <2>1, SubSeqProperties
<1>3. ASSUME NEW n \in 1 .. (Len(s) + 1) PROVE SubSeq(s, n, Len(s)) \in Seq(S)
    <2>1. \A i \in n .. Len(s) : s[i] \in S
        BY <1>1
    <2>2. Len(s) \in Int /\ n \in Int
        BY LenProperties
    <2> QED BY <2>1, <2>2, SubSeqProperties
<1> QED BY <1>2, <1>3 DEF Prefixes, Suffixes

\* The script's variables.
ScriptOK ==
    /\ stage \in {"off", "version", "READY", "DATA", "OK"}
    /\ outcome \in {"none", "accepted", "failed", "killed"}
    /\ job \in Jobs \cup {None}
    /\ stage # "off" => job \in Jobs
    /\ profile \in BOOLEAN
    /\ failed \in 0 .. 3

\* The board's.
BoardOK ==
    /\ announced \in Jobs \cup {None}
    /\ board \in {"summary", "payload", "check"} => announced \in Jobs
    /\ kind \in Kind
    /\ board \in {"prompt", "drain", "ready", "header", "summary", "payload",
                  "check"}
    /\ buf \in Seq(Byte)

LinesOK ==
    /\ wire \in Seq(Byte) /\ rx \in Seq(Byte) /\ Len(rx) <= RxDepth
    /\ answers \in Seq(Answer)

LEMMA TypeParts ==
    /\ UploadTypeOK => /\ ScriptOK /\ BoardOK /\ LinesOK
                       /\ faults \in 0 .. MaxFaults
                       /\ own \in {"yes", "damaged", "no"}
    /\ (/\ ScriptOK' /\ BoardOK' /\ LinesOK' /\ faults' \in 0 .. MaxFaults
        /\ own' \in {"yes", "damaged", "no"})
       => UploadTypeOK'
BY DEF UploadTypeOK, ScriptOK, BoardOK, LinesOK

LEMMA UploadTypeStep ==
    ASSUME UploadTypeOK, [UploadNext]_uploadVars
    PROVE  UploadTypeOK'
<1> USE DEF script, receiver
<1>0. /\ ScriptOK /\ BoardOK /\ LinesOK /\ faults \in 0 .. MaxFaults
      /\ MaxFaults \in Nat /\ RxDepth \in Nat \ {0}
    BY TypeParts, UploadAssumption
<1>a. ASSUME Fault PROVE faults' \in 0 .. MaxFaults /\ failed' = 0
    BY <1>0, <1>a DEF Fault
<1>b. ASSUME NEW sent \in Seq(Byte), Begins(sent)
      PROVE  /\ stage' \in {"version", "READY"} /\ outcome' = "none"
             /\ job' \in Jobs /\ profile' = FALSE /\ wire' \in Seq(Byte)
    <2>1. job'.kind \in Kind
        BY <1>b, UploadWords DEF Begins
    <2>2. CommandOf(job'.kind) \in Byte /\ "v" \in Byte
        BY <2>1, UploadWords
    <2> QED BY <1>b, <2>2, AppendProperties DEF Begins
<1>c. own' \in {"yes", "damaged", "no"}
    <2>1. own \in {"yes", "damaged", "no"}
        BY TypeParts
    <2>2. own' \in {own, "yes", "damaged", "no"}
        <3>1. CASE Start \/ Hear \/ GiveUp \/ Arrive
            BY <3>1 DEF Start, Hear, GiveUp, Arrive
        <3>2. CASE \/ Command \/ drain_uart_rx \/ SayReady \/ ReadHeader
                   \/ SayData \/ ReadPayload \/ Check \/ ByteTimesOut
            BY <3>2
            DEF Command, drain_uart_rx, SayReady, ReadHeader, SayData,
                ReadPayload, Check, ByteTimesOut, Goes
        <3>3. CASE \/ HastyStart \/ Stall \/ Kill \/ Noise \/ MarkerLost
                   \/ BoardReset
            BY <3>3
            DEF HastyStart, Stall, Kill, Noise, MarkerLost, BoardReset,
                Interrupts
        <3>4. CASE UNCHANGED uploadVars
            BY <3>4 DEF uploadVars
        <3> QED BY <3>1, <3>2, <3>3, <3>4 DEF UploadNext
    <2> QED BY <2>1, <2>2
<1>1. CASE Start
    <2>1. <<>> \in Seq(Byte) /\ <<>> \in Seq(Answer)
        BY EmptySeq
    <2>2. /\ Begins(<<>>) /\ answers' = <<>>
          /\ UNCHANGED <<rx, receiver, faults, failed>>
        BY <1>1 DEF Start
    <2>3. /\ stage' \in {"version", "READY"} /\ outcome' = "none"
          /\ job' \in Jobs /\ profile' = FALSE /\ wire' \in Seq(Byte)
        BY <1>b, <2>1, <2>2
    <2>4. ScriptOK'
        BY <1>0, <2>2, <2>3 DEF ScriptOK
    <2>5. BoardOK' /\ LinesOK' /\ faults' = faults
        BY <1>0, <2>1, <2>2, <2>3 DEF BoardOK, LinesOK
    <2> QED BY <1>0, <2>4, <2>5, <1>c, TypeParts
<1>2. CASE Hear
    <2>1. /\ answers' = Tail(answers) /\ answers # <<>>
          /\ UNCHANGED <<job, rx, receiver, faults>>
        BY <1>2 DEF Hear
    <2>2. answers' \in Seq(Answer)
        BY <1>0, <2>1, HeadTailProperties DEF LinesOK
    <2>3. stage # "off" /\ job \in Jobs
        BY <1>0, <1>2
        DEF Hear, HearVersion, HearReady, HearData, HearResult, ScriptOK
    <2>4. /\ Header(job) \in Seq(Byte) /\ Payload(job) \in Seq(Byte)
          /\ <<CommandOf("wad")>> \in Seq(Byte)
        <3>1. CommandOf("wad") \in Byte
            BY UploadWords DEF Kind
        <3> QED BY <2>3, <3>1, UploadWords
    <2>5. \A bytes \in Seq(Byte) : wire \o bytes \in Seq(Byte)
        BY <1>0, ConcatProperties DEF LinesOK
    <2>6. wire' \in Seq(Byte)
        BY <1>0, <1>2, <2>4, <2>5
        DEF Hear, HearVersion, HearReady, HearData, HearResult, Waits, Writes,
            Fails, LinesOK
    <2>7. /\ stage' \in {"off", "version", "READY", "DATA", "OK"}
          /\ outcome' \in {"none", "accepted", "failed", "killed"}
          /\ failed' \in 0 .. 3
        BY <1>0, <1>2
        DEF Hear, HearVersion, HearReady, HearData, HearResult, Waits, Fails,
            ScriptOK
    <2>8. profile' \in BOOLEAN
        <3>1. CASE HearVersion
            <4>1. profile' = (profile \/ Next1 = Profile)
                BY <3>1 DEF HearVersion
            <4> QED BY <4>1
        <3>2. CASE HearReady \/ HearData \/ HearResult
            BY <1>0, <3>2 DEF HearReady, HearData, HearResult, ScriptOK
        <3> QED BY <1>2, <3>1, <3>2 DEF Hear
    <2>9. ScriptOK'
        BY <2>1, <2>3, <2>7, <2>8 DEF ScriptOK
    <2>10. BoardOK' /\ LinesOK'
        BY <1>0, <2>1, <2>2, <2>6 DEF BoardOK, LinesOK
    <2> QED BY <1>0, <2>1, <2>9, <2>10, <1>c, TypeParts
<1>3. CASE GiveUp
    <2>1. ScriptOK'
        BY <1>0, <1>3 DEF GiveUp, Fails, ScriptOK
    <2>2. BoardOK' /\ LinesOK' /\ faults' = faults
        BY <1>0, <1>3 DEF GiveUp, BoardOK, LinesOK
    <2> QED BY <1>0, <2>1, <2>2, <1>c, TypeParts
<1>4. CASE Arrive
    <2>1. /\ wire # <<>> /\ wire' = Tail(wire)
          /\ rx' = IF Len(rx) < RxDepth THEN Append(rx, Head(wire)) ELSE rx
          /\ UNCHANGED <<script, receiver, answers, faults>>
        BY <1>4 DEF Arrive
    <2>2. /\ Append(rx, Head(wire)) \in Seq(Byte)
          /\ Len(Append(rx, Head(wire))) = Len(rx) + 1
          /\ Tail(wire) \in Seq(Byte)
        BY <1>0, <2>1, ByteMoves DEF LinesOK
    <2>3. LinesOK'
        <3>1. Len(rx) \in Nat
            BY <1>0, LenProperties DEF LinesOK
        <3> QED BY <1>0, <2>1, <2>2, <3>1 DEF LinesOK
    <2>4. ScriptOK' /\ BoardOK'
        BY <1>0, <2>1 DEF ScriptOK, BoardOK
    <2> QED BY <1>0, <2>1, <2>3, <2>4, <1>c, TypeParts
<1>5. ASSUME UNCHANGED <<script, wire, faults>>, BoardOK', rx' \in Seq(Byte),
             Len(rx') <= RxDepth, answers' \in Seq(Answer)
      PROVE  UploadTypeOK'
    <2>1. ScriptOK' /\ LinesOK'
        BY <1>0, <1>5 DEF ScriptOK, LinesOK
    <2> QED BY <1>0, <1>5, <2>1, <1>c, TypeParts
<1>6. ASSUME rx # <<>> PROVE /\ Tail(rx) \in Seq(Byte)
                             /\ Len(Tail(rx)) <= RxDepth
                             /\ Append(buf, Head(rx)) \in Seq(Byte)
    <2>1. /\ Tail(rx) \in Seq(Byte) /\ Len(Tail(rx)) = Len(rx) - 1
          /\ Append(buf, Head(rx)) \in Seq(Byte)
        BY <1>0, <1>6, HeadTailProperties, ByteMoves DEF LinesOK, BoardOK
    <2>2. Len(rx) \in Nat /\ Len(rx) <= RxDepth
        BY <1>0, LenProperties DEF LinesOK
    <2> QED BY <1>0, <2>1, <2>2
<1>7. /\ \A text \in {"READY", "DATA", "OK", "ERROR"} :
           /\ answers \o <<Marker(kind, text)>> \in Seq(Answer)
           /\ answers \o <<Marker(kind, text), Prompt>> \in Seq(Answer)
      /\ answers \o <<Profile, Prompt>> \in Seq(Answer)
      /\ answers \o <<Prompt>> \in Seq(Answer)
    <2>1. Prompt \in Answer /\ Profile \in Answer
        BY UploadWords
    <2>2. \A text \in {"READY", "DATA", "OK", "ERROR"} :
            Marker(kind, text) \in Answer
        BY <1>0, UploadWords DEF BoardOK
    <2>3. /\ <<Profile, Prompt>> \in Seq(Answer) /\ <<Prompt>> \in Seq(Answer)
          /\ \A text \in {"READY", "DATA", "OK", "ERROR"} :
               /\ <<Marker(kind, text)>> \in Seq(Answer)
               /\ <<Marker(kind, text), Prompt>> \in Seq(Answer)
        BY <2>1, <2>2
    <2>4. \A s \in Seq(Answer) : answers \o s \in Seq(Answer)
        BY <1>0, ConcatProperties DEF LinesOK
    <2> QED BY <2>3, <2>4
<1>8. CASE Command
    <2>1. /\ rx # <<>> /\ rx' = Tail(rx)
          /\ UNCHANGED <<script, wire, faults, buf, announced>>
          /\ board' \in {"drain", "prompt"} /\ kind' \in Kind
          /\ answers' \in Seq(Answer)
        BY <1>0, <1>7, <1>8 DEF Command, Goes, Says, BoardOK, LinesOK
    <2>2. BoardOK'
        BY <1>0, <2>1 DEF BoardOK
    <2> QED BY <1>5, <1>6, <2>1, <2>2
<1>9. CASE drain_uart_rx \/ SayReady \/ SayData
    <2>1. /\ rx' \in Seq(Byte) /\ Len(rx') <= RxDepth /\ buf' \in Seq(Byte)
        <3>1. <<>> \in Seq(Byte) /\ Len(<<>>) = 0
            BY EmptySeq
        <3>2. rx \in Seq(Byte) /\ Len(rx) <= RxDepth /\ buf \in Seq(Byte)
            BY <1>0 DEF LinesOK, BoardOK
        <3>3. /\ rx' = rx \/ rx' = <<>>
              /\ buf' = buf \/ buf' = <<>>
            BY <1>9 DEF drain_uart_rx, SayReady, SayData
        <3>4. 0 <= RxDepth
            BY <1>0
        <3> QED BY <3>1, <3>2, <3>3, <3>4
    <2>2. /\ UNCHANGED <<script, wire, faults, kind, announced>>
          /\ answers' \in Seq(Answer)
        BY <1>0, <1>7, <1>9
        DEF drain_uart_rx, SayReady, SayData, Goes, Says, LinesOK
    <2>3. BoardOK'
        BY <1>0, <1>9, <2>1, <2>2
        DEF drain_uart_rx, SayReady, SayData, Goes, BoardOK
    <2> QED BY <1>5, <2>1, <2>2, <2>3
<1>10. CASE ReadHeader
    <2>1. /\ rx # <<>> /\ rx' = Tail(rx) /\ buf' = Append(buf, Head(rx))
          /\ UNCHANGED <<script, wire, faults, kind>>
        BY <1>10 DEF ReadHeader, Goes, Got
    <2>2. answers' \in Seq(Answer)
        BY <1>0, <1>7, <1>10 DEF ReadHeader, Reports, Says, LinesOK
    <2>3. /\ board' \in {"header", "summary", "prompt"}
          /\ board' = "summary" => announced' \in Jobs
          /\ announced' \in Jobs \cup {None}
        BY <1>0, <1>10 DEF ReadHeader, Goes, BoardOK
    <2>4. BoardOK'
        BY <1>0, <1>6, <2>1, <2>3 DEF BoardOK
    <2> QED BY <1>5, <1>6, <2>1, <2>2, <2>4
<1>11. CASE ReadPayload
    <2>1. /\ rx # <<>> /\ rx' = Tail(rx) /\ buf' = Append(buf, Head(rx))
          /\ board = "payload" /\ board' \in {"payload", "check"}
          /\ UNCHANGED <<script, wire, faults, kind, announced, answers>>
        BY <1>11 DEF ReadPayload, Goes, Got
    <2>2. BoardOK' /\ answers' \in Seq(Answer)
        BY <1>0, <1>6, <2>1 DEF BoardOK, LinesOK
    <2> QED BY <1>5, <1>6, <2>1, <2>2
<1>12. CASE Check \/ ByteTimesOut
    <2>1. /\ UNCHANGED <<script, wire, faults, rx, kind, buf, announced>>
          /\ board' = "prompt" /\ answers' \in Seq(Answer)
        BY <1>0, <1>7, <1>12
        DEF Check, ByteTimesOut, Goes, Reports, Says, LinesOK
    <2>2. BoardOK' /\ rx' \in Seq(Byte) /\ Len(rx') <= RxDepth
        BY <1>0, <2>1 DEF BoardOK, LinesOK
    <2> QED BY <1>5, <2>1, <2>2
<1>13. CASE HastyStart
    <2>1. PICK sent \in Prefixes(wire) : Begins(sent)
        BY <1>13 DEF HastyStart
    <2>2. sent \in Seq(Byte) /\ answers' \in Seq(Answer)
        BY <1>0, <1>13, <2>1, PartsOfSequences DEF HastyStart, LinesOK
    <2>3. /\ stage' \in {"version", "READY"} /\ outcome' = "none"
          /\ job' \in Jobs /\ profile' = FALSE /\ wire' \in Seq(Byte)
        BY <1>b, <2>1, <2>2
    <2>4. Fault /\ UNCHANGED <<rx, receiver>>
        BY <1>13 DEF HastyStart
    <2>5. ScriptOK'
        <3>1. failed' \in 0 .. 3
            BY <1>a, <2>4
        <3> QED BY <2>3, <3>1 DEF ScriptOK
    <2>6. BoardOK' /\ LinesOK'
        BY <1>0, <2>2, <2>3, <2>4 DEF BoardOK, LinesOK
    <2> QED BY <1>a, <2>4, <2>5, <2>6, <1>c, TypeParts
<1>14. CASE Stall
    <2>1. /\ Fault /\ board' = "prompt" /\ answers' \in Seq(Answer)
          /\ UNCHANGED <<stage, job, profile, outcome, wire, rx, kind, buf,
                         announced>>
        BY <1>7, <1>14 DEF Stall, Reports, Says
    <2>2. ScriptOK' /\ BoardOK' /\ LinesOK'
        BY <1>0, <1>a, <2>1 DEF ScriptOK, BoardOK, LinesOK
    <2> QED BY <1>a, <2>1, <2>2, <1>c, TypeParts
<1>15. CASE Kill
    <2>1. /\ Fault /\ stage' = "off" /\ outcome' = "killed"
          /\ wire' \in Seq(Byte)
          /\ UNCHANGED <<job, profile, rx, receiver, answers>>
        BY <1>0, <1>15, PartsOfSequences DEF Kill, LinesOK
    <2>2. ScriptOK' /\ BoardOK' /\ LinesOK'
        BY <1>0, <1>a, <2>1 DEF ScriptOK, BoardOK, LinesOK
    <2> QED BY <1>a, <2>1, <2>2, <1>c, TypeParts
<1>16. CASE Noise
    <2>1. /\ Fault /\ wire # <<>>
          /\ UNCHANGED <<stage, job, profile, outcome, rx, receiver, answers>>
        BY <1>16 DEF Noise
    <2>2. Tail(wire) \in Seq(Byte)
        BY <1>0, <2>1, HeadTailProperties DEF LinesOK
    <2>3. \A b \in Byte : <<b>> \o Tail(wire) \in Seq(Byte)
        BY <2>2, ConcatProperties
    <2>4. wire' \in Seq(Byte)
        BY <1>16, <2>2, <2>3 DEF Noise
    <2>5. ScriptOK' /\ BoardOK' /\ LinesOK'
        BY <1>0, <1>a, <2>1, <2>4 DEF ScriptOK, BoardOK, LinesOK
    <2> QED BY <1>a, <2>1, <2>5, <1>c, TypeParts
<1>17. CASE MarkerLost
    <2>1. /\ Fault /\ answers' \in Seq(Answer)
          /\ UNCHANGED <<stage, job, profile, outcome, wire, rx, receiver>>
        BY <1>0, <1>17, HeadTailProperties DEF MarkerLost, LinesOK
    <2>2. ScriptOK' /\ BoardOK' /\ LinesOK'
        BY <1>0, <1>a, <2>1 DEF ScriptOK, BoardOK, LinesOK
    <2> QED BY <1>a, <2>1, <2>2, <1>c, TypeParts
<1>18. CASE BoardReset
    <2>1. /\ Fault /\ board' = "prompt" /\ rx' = <<>> /\ buf' = <<>>
          /\ answers' \in Seq(Answer)
          /\ UNCHANGED <<stage, job, profile, outcome, wire, kind, announced>>
        BY <1>7, <1>18 DEF BoardReset, Says
    <2>2. <<>> \in Seq(Byte) /\ Len(<<>>) = 0
        BY EmptySeq
    <2>3. ScriptOK' /\ BoardOK' /\ LinesOK'
        BY <1>0, <1>a, <2>1, <2>2 DEF ScriptOK, BoardOK, LinesOK
    <2> QED BY <1>a, <2>1, <2>3, <1>c, TypeParts
<1>19. CASE UNCHANGED uploadVars
    <2>1. ScriptOK' /\ BoardOK' /\ LinesOK' /\ faults' = faults
        BY <1>0, <1>19 DEF uploadVars, ScriptOK, BoardOK, LinesOK
    <2> QED BY <1>0, <2>1, <1>c, TypeParts
<1> QED BY <1>1, <1>2, <1>3, <1>4, <1>8, <1>9, <1>10, <1>11, <1>12, <1>13,
           <1>14, <1>15, <1>16, <1>17, <1>18, <1>19 DEF UploadNext

\* The steps that are not faults.
RunStep ==
    \/ Start \/ Hear \/ GiveUp
    \/ Arrive \/ Command \/ drain_uart_rx \/ SayReady \/ ReadHeader
    \/ SayData \/ ReadPayload \/ Check \/ ByteTimesOut
    \/ UNCHANGED uploadVars

LEMMA FaultsCount ==
    ASSUME UploadTypeOK, [UploadNext]_uploadVars
    PROVE  \/ RunStep /\ faults' = faults
           \/ faults' = faults + 1 /\ failed' = 0
<1>1. CASE Fault
    BY <1>1 DEF Fault
<1>2. CASE ~Fault
    <2>1. RunStep
        BY <1>2 DEF RunStep, UploadNext, HastyStart, Stall, Kill, Noise,
                    MarkerLost, BoardReset
    <2>2. RunStep => faults' = faults
        BY DEF RunStep, uploadVars, script, receiver, Start, Hear, GiveUp,
               Arrive, Command, drain_uart_rx, SayReady, ReadHeader, SayData,
               ReadPayload, Check, ByteTimesOut, Goes
    <2> QED BY <2>1, <2>2
<1> QED BY <1>1, <1>2

\* With nothing on its way the line and the readers have nothing to do.
LEMMA NothingToRead ==
    ASSUME NothingOnItsWay
    PROVE  ~Arrive /\ ~Command /\ ~ReadHeader /\ ~ReadPayload
BY DEF NothingOnItsWay, Arrive, Command, ReadHeader, ReadPayload

\* A single byte arrives at a board that is reading.
LEMMA ByteArrives ==
    ASSUME UploadTypeOK, NEW byte, OnItsWay(byte), Arrive, Reading
    PROVE  OnItsWay(byte)'
<1>1. rx = <<>> /\ wire = <<byte>>
    BY DEF OnItsWay, Arrive
<1>2. Len(rx) < RxDepth
    BY <1>1, UploadAssumption
<1>3. rx' = <<byte>> /\ wire' = <<>>
    BY <1>1, <1>2 DEF Arrive
<1> QED BY <1>3 DEF OnItsWay

\* Bytes arrive in order at a board that is reading.
LEMMA BytesArrive ==
    ASSUME UploadTypeOK, Arrive, Reading
    PROVE  buf' = buf /\ buf' \o (rx' \o wire') = buf \o (rx \o wire)
<1>1. wire # <<>> /\ Len(rx) < RxDepth /\ buf' = buf
    BY DEF Arrive, receiver
<1>2. rx \in Seq(Byte) /\ wire \in Seq(Byte)
    BY DEF UploadTypeOK
<1>3. Append(rx, Head(wire)) \o Tail(wire) = rx \o wire
    BY <1>1, <1>2, ByteMoves
<1>4. rx' = Append(rx, Head(wire)) /\ wire' = Tail(wire)
    BY <1>1 DEF Arrive
<1> QED BY <1>1, <1>3, <1>4

\* Reading a byte keeps the order too.
LEMMA BytesRead ==
    ASSUME UploadTypeOK, ReadHeader \/ ReadPayload
    PROVE  /\ buf' = Got /\ buf' \in Seq(Byte) /\ rx' \in Seq(Byte)
           /\ Len(buf') = Len(buf) + 1 /\ wire' = wire
           /\ buf' \o (rx' \o wire') = buf \o (rx \o wire)
<1>1. rx # <<>> /\ rx' = Tail(rx) /\ buf' = Got /\ wire' = wire
    BY DEF ReadHeader, ReadPayload, Goes
<1>2. rx \in Seq(Byte) /\ wire \in Seq(Byte) /\ buf \in Seq(Byte)
    BY DEF UploadTypeOK
<1>3. /\ Append(buf, Head(rx)) \in Seq(Byte) /\ Tail(rx) \in Seq(Byte)
      /\ Len(Append(buf, Head(rx))) = Len(buf) + 1
    BY <1>1, <1>2, ByteMoves
<1>4. Append(buf, Head(rx)) \o (Tail(rx) \o wire) = buf \o (rx \o wire)
    <2>1. Joined(Append(buf, Head(rx)), Joined(Tail(rx), wire))
            = Joined(buf, Joined(rx, wire))
        BY <1>1, <1>2, ByteTaken
    <2> QED BY <2>1 DEF Joined
<1> QED BY <1>1, <1>3, <1>4 DEF Got

\* A sequence that is complete leaves nothing on its way.
LEMMA NothingLeft ==
    ASSUME NEW S, NEW s \in Seq(S), NEW t \in Seq(S), NEW u \in Seq(S)
    PROVE  /\ Len(s \o (t \o u)) = Len(s) + Len(t) + Len(u)
           /\ Len(s) >= Len(s \o (t \o u))
                => t = <<>> /\ u = <<>> /\ s = s \o (t \o u)
           /\ t = <<>> /\ u = <<>> => s \o (t \o u) = s
<1>1. /\ t \o u \in Seq(S) /\ Len(t \o u) = Len(t) + Len(u)
      /\ Len(s \o (t \o u)) = Len(s) + Len(t \o u)
    BY ConcatProperties
<1>2. Len(s) \in Nat /\ Len(t) \in Nat /\ Len(u) \in Nat
    BY LenProperties
<1>3. (t # <<>> => Len(t) # 0) /\ (u # <<>> => Len(u) # 0)
    BY EmptySeq
<1>4. t = <<>> /\ u = <<>> => s \o (t \o u) = s
    <2>1. <<>> \in Seq(S) /\ <<>> \o <<>> = <<>>
        BY EmptySeq, ConcatEmptySeq
    <2> QED BY <2>1, ConcatEmptySeq
<1> QED BY <1>1, <1>2, <1>3, <1>4

\* A run that begins at a board at rest begins well.
LEMMA CleanStart ==
    ASSUME UploadTypeOK, NothingOnItsWay, board = "prompt", Start
    PROVE  CleanRun' /\ failed' = failed
<1>1. /\ Begins(<<>>) /\ answers' = <<>>
      /\ UNCHANGED <<rx, receiver, faults, failed>>
    BY DEF Start
<1>2. board' = "prompt" /\ rx' = <<>> /\ profile' = FALSE
    BY <1>1 DEF receiver, NothingOnItsWay, Begins
<1>3. CASE stage' = "READY" /\ wire' = Append(<<>>, CommandOf(job'.kind))
    <2>1. wire' = <<CommandOf(job'.kind)>>
        BY <1>3
    <2>2. Commands'
        BY <1>1, <1>2, <1>3, <2>1 DEF Commands, OnItsWay
    <2> QED BY <1>1, <2>2 DEF CleanRun
<1>4. CASE job'.kind = "wad" /\ stage' = "version" /\ wire' = Append(<<>>, "v")
    <2>1. wire' = <<"v">>
        BY <1>4
    <2>2. Asks'
        BY <1>1, <1>2, <1>4, <2>1 DEF Asks, OnItsWay
    <2> QED BY <1>1, <2>2 DEF CleanRun
<1> QED BY <1>1, <1>3, <1>4 DEF Begins

LEMMA CleanOffStep ==
    ASSUME UploadTypeOK, CleanOff, RunStep, ~UNCHANGED uploadVars
    PROVE  Clean' /\ failed' = failed
<1>1. Start
    BY NothingToRead
    DEF CleanOff, RunStep, Hear, HearVersion, HearReady, HearData, HearResult,
        GiveUp, drain_uart_rx, SayReady, SayData, Check, ByteTimesOut,
        WaitsForByte
<1> QED BY <1>1, CleanStart DEF CleanOff, Clean

LEMMA AsksStep ==
    ASSUME UploadTypeOK, Asks, RunStep, ~UNCHANGED uploadVars
    PROVE  Clean' /\ failed' = failed
<1> USE DEF script, receiver
<1>0. Arrive \/ Command \/ Hear
    <2>1. stage = "version" /\ board = "prompt"
        BY DEF Asks
    <2>2. ~GiveUp
        BY DEF Asks, OnItsWay, GiveUp
    <2> QED BY <2>1, <2>2
            DEF RunStep, Start, Begins, drain_uart_rx, SayReady, ReadHeader,
                SayData, ReadPayload, Check, ByteTimesOut, WaitsForByte
<1>1. CASE OnItsWay("v") /\ answers = <<>> /\ profile = FALSE
    <2>1. CASE Arrive
        <3>1. OnItsWay("v")'
            BY <1>1, <2>1, ByteArrives DEF Asks, Reading
        <3>2. Asks' /\ failed' = failed
            BY <1>1, <2>1, <3>1 DEF Arrive, Asks
        <3> QED BY <3>2 DEF Clean, CleanRun
    <2>2. CASE Command
        <3>1. rx = <<"v">> /\ wire = <<>>
            BY <1>1, <2>2 DEF OnItsWay, Command
        <3>2. Head(rx) = "v" /\ Tail(rx) = <<>>
            BY <3>1
        <3>3. "v" # CommandOf("image") /\ "v" # CommandOf("wad")
            BY DEF CommandOf
        <3>4. /\ answers' = answers \o <<Profile, Prompt>> /\ rx' = <<>>
              /\ board' = "prompt" /\ UNCHANGED <<script, wire, faults>>
            BY <2>2, <3>2, <3>3 DEF Command, Goes, Says, Kind
        <3>5. answers' = <<Profile, Prompt>>
            BY <1>1, <3>4
        <3>6. Asks' /\ failed' = failed
            BY <3>1, <3>4, <3>5 DEF Asks, NothingOnItsWay
        <3> QED BY <3>6 DEF Clean, CleanRun
    <2>3. ~Hear
        BY <1>1 DEF Hear
    <2> QED BY <1>0, <2>1, <2>2, <2>3
<1>2. Profile # Prompt
    BY DEF Profile, Prompt, Marker
<1>3. CASE NothingOnItsWay /\ answers = <<Profile, Prompt>>
    <2>1. Hear
        BY <1>0, <1>3, NothingToRead
    <2>2. HearVersion /\ answers' = <<Prompt>> /\ Next1 = Profile
        BY <1>3, <2>1 DEF Hear, HearReady, HearData, HearResult, Asks, Next1
    <2>3. /\ profile' = TRUE
          /\ UNCHANGED <<stage, outcome, failed, wire, job, rx, receiver>>
        BY <1>2, <2>1, <2>2 DEF Hear, HearVersion, Waits
    <2>4. Asks'
        BY <1>3, <2>2, <2>3 DEF Asks, NothingOnItsWay
    <2> QED BY <2>3, <2>4 DEF Clean, CleanRun
<1>4. CASE NothingOnItsWay /\ answers = <<Prompt>> /\ profile = TRUE
    <2>1. Hear
        BY <1>0, <1>4, NothingToRead
    <2>2. HearVersion /\ answers' = <<>> /\ Next1 = Prompt
        BY <1>4, <2>1 DEF Hear, HearReady, HearData, HearResult, Asks, Next1
    <2>3. /\ stage' = "READY" /\ wire' = wire \o <<CommandOf("wad")>>
          /\ UNCHANGED <<outcome, failed, job, rx, receiver>>
        BY <1>4, <2>1, <2>2 DEF Hear, HearVersion, Writes
    <2>4. wire' = <<CommandOf("wad")>>
        BY <1>4, <2>3 DEF NothingOnItsWay
    <2>5. Commands'
        BY <1>4, <2>2, <2>3, <2>4
        DEF Asks, Commands, NothingOnItsWay, OnItsWay
    <2> QED BY <2>3, <2>5 DEF Clean, CleanRun
<1> QED BY <1>1, <1>3, <1>4 DEF Asks

LEMMA CommandsStep ==
    ASSUME UploadTypeOK, Commands, RunStep, ~UNCHANGED uploadVars
    PROVE  Clean' /\ failed' = failed
<1> USE DEF script, receiver
<1>0. Arrive \/ Command
    <2>1. stage = "READY" /\ board = "prompt" /\ answers = <<>>
        BY DEF Commands
    <2>2. ~GiveUp
        BY DEF Commands, OnItsWay, GiveUp
    <2> QED BY <2>1, <2>2
            DEF RunStep, Start, Begins, Hear, drain_uart_rx, SayReady,
                ReadHeader, SayData, ReadPayload, Check, ByteTimesOut,
                WaitsForByte
<1>1. CASE Arrive
    <2>1. OnItsWay(CommandOf(job.kind))'
        <3>1. OnItsWay(CommandOf(job.kind)) /\ Reading
            BY DEF Commands, Reading
        <3>2. rx' = <<CommandOf(job.kind)>> /\ wire' = <<>>
            <4>1. \E byte : byte = CommandOf(job.kind) /\ OnItsWay(byte)'
                BY <1>1, <3>1, ByteArrives
            <4>2. wire = <<CommandOf(job.kind)>> /\ rx = <<>>
                BY <1>1, <3>1 DEF OnItsWay, Arrive
            <4>3. Len(rx) < RxDepth
                BY <4>2, UploadAssumption
            <4> QED BY <1>1, <4>2, <4>3 DEF Arrive
        <3> QED BY <1>1, <3>2 DEF OnItsWay, Arrive
    <2>2. Commands' /\ failed' = failed
        BY <1>1, <2>1 DEF Commands, Arrive
    <2> QED BY <2>2 DEF Clean, CleanRun
<1>2. CASE Command
    <2>1. rx = <<CommandOf(job.kind)>> /\ wire = <<>>
        BY <1>2 DEF Commands, OnItsWay, Command
    <2>2. Head(rx) = CommandOf(job.kind) /\ Tail(rx) = <<>>
        BY <2>1
    <2>3. job \in Jobs /\ job.kind \in Kind
        BY UploadWords DEF UploadTypeOK, Commands
    <2>4. \A k \in Kind : CommandOf(job.kind) = CommandOf(k) => k = job.kind
        BY <2>3 DEF CommandOf, Kind
    <2>5. CommandOf(job.kind) \in {"l", "w"}
        BY <2>3, UploadWords
    <2>6. /\ kind' = job.kind /\ board' = "drain" /\ rx' = <<>>
          /\ UNCHANGED <<script, wire, faults, answers>>
        BY <1>2, <2>2, <2>3, <2>4, <2>5 DEF Command, Goes
    <2>7. Drains'
        BY <2>1, <2>6 DEF Commands, Drains, NothingOnItsWay
    <2> QED BY <2>6, <2>7 DEF Clean, CleanRun
<1> QED BY <1>0, <1>1, <1>2

LEMMA DrainsStep ==
    ASSUME UploadTypeOK, Drains, RunStep, ~UNCHANGED uploadVars
    PROVE  Clean' /\ failed' = failed
<1> USE DEF script, receiver
<1>0. drain_uart_rx \/ SayReady
    <2>1. /\ stage = "READY" /\ board \in {"drain", "ready"} /\ answers = <<>>
          /\ NothingOnItsWay
        BY DEF Drains
    <2> QED BY <2>1, NothingToRead
            DEF RunStep, Start, Begins, GiveUp, Hear, SayData, Check,
                ByteTimesOut, WaitsForByte
<1>1. CASE drain_uart_rx
    <2>1. Drains' /\ failed' = failed
        BY <1>1 DEF drain_uart_rx, Goes, Drains, NothingOnItsWay
    <2> QED BY <2>1 DEF Clean, CleanRun
<1>2. CASE SayReady
    <2>1. answers' = answers \o <<Marker(kind, "READY")>>
        BY <1>2 DEF SayReady, Says
    <2>2. answers' = <<Marker(job.kind, "READY")>>
        BY <2>1 DEF Drains
    <2>3. OffersHeader' /\ failed' = failed
        BY <1>2, <2>2
        DEF SayReady, Goes, Drains, OffersHeader, NothingOnItsWay
    <2> QED BY <2>3 DEF Clean, CleanRun
<1> QED BY <1>0, <1>1, <1>2

LEMMA OffersHeaderStep ==
    ASSUME UploadTypeOK, OffersHeader, RunStep, ~UNCHANGED uploadVars
    PROVE  Clean' /\ failed' = failed
<1> USE DEF script, receiver
<1>0. HearReady /\ Hear
    <2>1. /\ stage = "READY" /\ board = "header" /\ NothingOnItsWay
          /\ answers # <<>>
        BY DEF OffersHeader
    <2>2. ~ByteTimesOut
        BY <2>1 DEF ByteTimesOut, Quiet
    <2> QED BY <2>1, <2>2, NothingToRead
            DEF RunStep, Start, Begins, GiveUp, Hear, HearVersion, HearData,
                HearResult, drain_uart_rx, SayReady, SayData, Check
<1>1. job \in Jobs /\ Header(job) \in Seq(Byte) /\ Len(Header(job)) = 2
    BY UploadWords DEF UploadTypeOK, OffersHeader
<1>2. Finds("READY") /\ Tail(answers) = <<>>
    BY DEF OffersHeader, Finds, Next1
<1>3. /\ stage' = "DATA" /\ wire' = wire \o Header(job) /\ answers' = <<>>
      /\ UNCHANGED <<job, rx, receiver, faults, failed>>
    BY <1>0, <1>2 DEF HearReady, Hear, Writes
<1>4. wire' = Header(job)
    BY <1>1, <1>3, ConcatEmptySeq DEF OffersHeader, NothingOnItsWay
<1>5. buf' = <<>> /\ rx' = <<>>
    BY <1>3 DEF OffersHeader, NothingOnItsWay
<1>6. buf' \o (rx' \o wire') = Header(job)
    BY <1>1, <1>4, <1>5, ConcatEmptySeq
<1>7. Len(buf') < 2
    BY <1>5
<1>8. SendsHeader'
    BY <1>3, <1>6, <1>7 DEF OffersHeader, SendsHeader, Header
<1> QED BY <1>3, <1>8 DEF Clean, CleanRun

LEMMA SendsHeaderStep ==
    ASSUME UploadTypeOK, SendsHeader, RunStep, ~UNCHANGED uploadVars
    PROVE  Clean' /\ failed' = failed
<1> USE DEF script, receiver
<1>1. job \in Jobs /\ Header(job) \in Seq(Byte) /\ Len(Header(job)) = 2
    BY UploadWords DEF UploadTypeOK, SendsHeader
<1>2. rx \in Seq(Byte) /\ wire \in Seq(Byte) /\ buf \in Seq(Byte)
    BY DEF UploadTypeOK
<1>3. ~NothingOnItsWay
    <2>1. rx = <<>> /\ wire = <<>> => Header(job) = buf
        BY <1>2, NothingLeft DEF SendsHeader
    <2>2. Len(buf) < 2
        BY DEF SendsHeader
    <2>3. Header(job) # buf
        BY <1>1, <2>2
    <2> QED BY <2>1, <2>3 DEF NothingOnItsWay
<1>4. Arrive \/ ReadHeader
    <2>1. stage = "DATA" /\ board = "header" /\ answers = <<>>
        BY DEF SendsHeader
    <2>2. ~ByteTimesOut
        BY <1>3 DEF ByteTimesOut, WaitsForByte, Quiet, NothingOnItsWay
    <2> QED BY <2>1, <2>2
            DEF RunStep, Start, Begins, GiveUp, Hear, Command, drain_uart_rx,
                SayReady, SayData, ReadPayload, Check
<1>5. CASE Arrive
    <2>1. buf' = buf /\ buf' \o (rx' \o wire') = Header(job)
        BY <1>5, BytesArrive DEF SendsHeader, Reading
    <2>2. SendsHeader' /\ failed' = failed
        BY <1>5, <2>1 DEF SendsHeader, Arrive, Header
    <2> QED BY <2>2 DEF Clean, CleanRun
<1>6. CASE ReadHeader
    <2>1. /\ buf' = Got /\ buf' \in Seq(Byte) /\ rx' \in Seq(Byte)
          /\ Len(buf') = Len(buf) + 1 /\ wire' = wire
          /\ buf' \o (rx' \o wire') = Header(job)
        BY <1>6, BytesRead DEF SendsHeader
    <2>2. UNCHANGED <<script, wire, faults, kind, stored>>
        BY <1>6 DEF ReadHeader, Goes
    <2>3. CASE Len(Got) < 2
        <3>1. board' = "header" /\ answers' = answers
            <4>1. \A j \in Jobs : Len(Header(j)) = 2
                BY UploadWords
            <4>2. \A j \in Jobs : Got # Header(j)
                BY <2>3, <4>1
            <4> QED BY <1>6, <2>3, <4>2 DEF ReadHeader, Goes
        <3>2. SendsHeader'
            BY <2>1, <2>2, <2>3, <3>1 DEF SendsHeader, Header
        <3> QED BY <2>2, <3>2 DEF Clean, CleanRun
    <2>4. CASE ~(Len(Got) < 2)
        <3>1. Len(buf') >= Len(Header(job))
            BY <1>1, <1>2, <2>1, <2>4, LenProperties
        <3>2. rx' = <<>> /\ wire' = <<>> /\ buf' = Header(job)
            <4>1. wire' \in Seq(Byte)
                BY <1>2, <2>1
            <4>2. /\ rx' = <<>> /\ wire' = <<>>
                  /\ buf' = buf' \o (rx' \o wire')
                <5>1. Len(buf') >= Len(buf' \o (rx' \o wire'))
                    BY <2>1, <3>1
                <5> QED BY ONLY <2>1, <4>1, <5>1, NothingLeft
            <4> QED BY <2>1, <4>2
        <3>3. \A j \in Jobs : j.kind = kind /\ Got = Header(j) => j = job
            BY <1>1, <2>1, <3>2, UploadWords DEF SendsHeader
        <3>4. job.kind = kind /\ Got = Header(job)
            BY <2>1, <3>2 DEF SendsHeader
        <3>5. /\ announced' = job /\ board' = "summary" /\ answers' = answers
            BY <1>1, <1>6, <2>4, <3>3, <3>4 DEF ReadHeader, Goes
        <3>6. Summarizes'
            BY <2>2, <3>2, <3>5
            DEF SendsHeader, Summarizes, NothingOnItsWay
        <3> QED BY <2>2, <3>6 DEF Clean, CleanRun
    <2> QED BY <2>3, <2>4
<1> QED BY <1>4, <1>5, <1>6

LEMMA SummarizesStep ==
    ASSUME UploadTypeOK, Summarizes, RunStep, ~UNCHANGED uploadVars
    PROVE  Clean' /\ failed' = failed
<1> USE DEF script, receiver
<1>1. SayData
    <2>1. /\ stage = "DATA" /\ board = "summary" /\ answers = <<>>
          /\ NothingOnItsWay
        BY DEF Summarizes
    <2> QED BY <2>1, NothingToRead
            DEF RunStep, Start, Begins, GiveUp, Hear, drain_uart_rx, SayReady,
                Check, ByteTimesOut, WaitsForByte
<1>2. answers' = answers \o <<Marker(kind, "DATA")>>
    BY <1>1 DEF SayData, Says
<1>3. answers' = <<Marker(job.kind, "DATA")>>
    BY <1>2 DEF Summarizes
<1>4. OffersPayload' /\ failed' = failed
    BY <1>1, <1>3 DEF SayData, Goes, Summarizes, OffersPayload, NothingOnItsWay
<1> QED BY <1>4 DEF Clean, CleanRun

LEMMA OffersPayloadStep ==
    ASSUME UploadTypeOK, OffersPayload, RunStep, ~UNCHANGED uploadVars
    PROVE  Clean' /\ failed' = failed
<1> USE DEF script, receiver
<1>0. HearData /\ Hear
    <2>1. /\ stage = "DATA" /\ board = "payload" /\ NothingOnItsWay
          /\ answers # <<>>
        BY DEF OffersPayload
    <2>2. ~ByteTimesOut
        BY <2>1 DEF ByteTimesOut, Quiet
    <2> QED BY <2>1, <2>2, NothingToRead
            DEF RunStep, Start, Begins, GiveUp, Hear, HearVersion, HearReady,
                HearResult, drain_uart_rx, SayReady, SayData, Check
<1>1. /\ job \in Jobs /\ Payload(job) \in Seq(Byte)
      /\ Len(Payload(job)) \in Nat \ {0}
    BY UploadWords DEF UploadTypeOK, OffersPayload
<1>2. Finds("DATA") /\ ~Finds("ERROR") /\ Tail(answers) = <<>>
    BY DEF OffersPayload, Finds, Next1, Marker
<1>3. answers' = <<>> /\ UNCHANGED <<job, rx, receiver, faults>>
    BY <1>0, <1>2 DEF Hear
<1>4. stage' = "OK" /\ wire' = wire \o Payload(job) /\ failed' = failed
    BY <1>0, <1>2 DEF HearData, Writes
<1>5. wire' = Payload(job)
    BY <1>1, <1>4, ConcatEmptySeq DEF OffersPayload, NothingOnItsWay
<1>6. buf' = <<>> /\ rx' = <<>>
    BY <1>3 DEF OffersPayload, NothingOnItsWay
<1>7. buf' \o (rx' \o wire') = Payload(job')
    BY <1>1, <1>3, <1>5, <1>6, ConcatEmptySeq
<1>8. Len(buf') < Len(Payload(job'))
    BY <1>1, <1>3, <1>6
<1>9. SendsPayload'
    BY <1>3, <1>4, <1>7, <1>8 DEF OffersPayload, SendsPayload
<1> QED BY <1>4, <1>9 DEF Clean, CleanRun

LEMMA SendsPayloadStep ==
    ASSUME UploadTypeOK, SendsPayload, RunStep, ~UNCHANGED uploadVars
    PROVE  Clean' /\ failed' = failed
<1> USE DEF script, receiver
<1>1. /\ job \in Jobs /\ Payload(job) \in Seq(Byte)
      /\ Len(Payload(job)) \in Nat \ {0}
    BY UploadWords DEF UploadTypeOK, SendsPayload
<1>2. rx \in Seq(Byte) /\ wire \in Seq(Byte) /\ buf \in Seq(Byte)
    BY DEF UploadTypeOK
<1>3. ~NothingOnItsWay
    <2>1. rx = <<>> /\ wire = <<>> => Payload(job) = buf
        BY <1>2, NothingLeft DEF SendsPayload
    <2> QED BY <1>1, <2>1 DEF NothingOnItsWay, SendsPayload
<1>4. Arrive \/ ReadPayload
    <2>1. stage = "OK" /\ board = "payload" /\ answers = <<>>
        BY DEF SendsPayload
    <2>2. ~ByteTimesOut
        BY <1>3 DEF ByteTimesOut, WaitsForByte, Quiet, NothingOnItsWay
    <2> QED BY <2>1, <2>2
            DEF RunStep, Start, Begins, GiveUp, Hear, Command, drain_uart_rx,
                SayReady, SayData, ReadHeader, Check
<1>5. CASE Arrive
    <2>1. buf' = buf /\ buf' \o (rx' \o wire') = Payload(job)
        BY <1>5, BytesArrive DEF SendsPayload, Reading
    <2>2. UNCHANGED <<script, receiver, answers, faults>>
        BY <1>5 DEF Arrive
    <2>3. SendsPayload'
        BY <2>1, <2>2 DEF SendsPayload
    <2> QED BY <2>2, <2>3 DEF Clean, CleanRun
<1>6. CASE ReadPayload
    <2>1. /\ buf' = Got /\ buf' \in Seq(Byte) /\ rx' \in Seq(Byte)
          /\ Len(buf') = Len(buf) + 1 /\ wire' = wire
          /\ buf' \o (rx' \o wire') = Payload(job)
        BY <1>6, BytesRead DEF SendsPayload
    <2>2. UNCHANGED <<script, wire, faults, kind, announced, stored, answers>>
        BY <1>6 DEF ReadPayload, Goes
    <2>3. board' = IF Len(Got) < Len(Payload(announced)) THEN "payload"
                                                         ELSE "check"
        BY <1>6 DEF ReadPayload, Goes
    <2>4. CASE Len(Got) < Len(Payload(announced))
        <3>1. SendsPayload'
            BY <2>1, <2>2, <2>3, <2>4 DEF SendsPayload
        <3> QED BY <2>2, <3>1 DEF Clean, CleanRun
    <2>5. CASE ~(Len(Got) < Len(Payload(announced)))
        <3>1. Len(buf') >= Len(Payload(job))
            BY <1>1, <1>2, <2>1, <2>5, LenProperties DEF SendsPayload
        <3>2. rx' = <<>> /\ wire' = <<>> /\ buf' = Payload(job)
            <4>1. wire' \in Seq(Byte)
                BY <1>2, <2>1
            <4>2. /\ rx' = <<>> /\ wire' = <<>>
                  /\ buf' = buf' \o (rx' \o wire')
                <5>1. Len(buf') >= Len(buf' \o (rx' \o wire'))
                    BY <2>1, <3>1
                <5> QED BY ONLY <2>1, <4>1, <5>1, NothingLeft
            <4> QED BY <2>1, <4>2
        <3>3. Checks'
            BY <2>2, <2>3, <2>5, <3>2
            DEF SendsPayload, Checks, NothingOnItsWay
        <3> QED BY <2>2, <3>3 DEF Clean, CleanRun
    <2> QED BY <2>4, <2>5
<1> QED BY <1>4, <1>5, <1>6

LEMMA ChecksStep ==
    ASSUME UploadTypeOK, Checks, RunStep, ~UNCHANGED uploadVars
    PROVE  Clean' /\ failed' = failed
<1> USE DEF script, receiver
<1>1. Check
    <2>1. /\ stage = "OK" /\ board = "check" /\ answers = <<>>
          /\ NothingOnItsWay
        BY DEF Checks
    <2> QED BY <2>1, NothingToRead
            DEF RunStep, Start, Begins, GiveUp, Hear, drain_uart_rx, SayReady,
                SayData, ByteTimesOut, WaitsForByte
<1>2. buf = Payload(announced)
    BY DEF Checks
<1>3. /\ stored' = announced
      /\ answers' = answers \o <<Marker(kind, "OK"), Prompt>>
    BY <1>1, <1>2 DEF Check, ChecksumMatches, Reports, Says
<1>4. answers' = <<Marker(kind, "OK"), Prompt>>
    BY <1>3 DEF Checks
<1>5. board' = "prompt" /\ UNCHANGED <<script, wire, faults, rx, kind>>
    BY <1>1 DEF Check, Goes
<1>6. Reported'
    BY <1>3, <1>4, <1>5
    DEF Checks, Reported, NothingOnItsWay, Prompt
<1> QED BY <1>5, <1>6 DEF Clean, CleanRun

\* The script hears that its upload was accepted when it was.
LEMMA ReportedStep ==
    ASSUME UploadTypeOK, Reported, RunStep, ~UNCHANGED uploadVars
    PROVE  Clean' /\ failed' = failed
<1> USE DEF script, receiver
<1>0. HearResult /\ Hear
    <2>1. /\ stage = "OK" /\ board = "prompt" /\ NothingOnItsWay
          /\ answers # <<>>
        BY DEF Reported
    <2> QED BY <2>1, NothingToRead
            DEF RunStep, Start, Begins, GiveUp, Hear, HearVersion, HearReady,
                HearData, drain_uart_rx, SayReady, SayData, Check,
                ByteTimesOut, WaitsForByte
<1>1. Finds("OK") /\ ~Finds("ERROR")
    BY DEF Reported, Finds, Next1, Marker
<1>2. UNCHANGED <<job, rx, receiver, faults>>
    BY <1>0 DEF Hear
<1>3. stage' = "off" /\ UNCHANGED <<failed, wire>>
    BY <1>0, <1>1 DEF HearResult
<1>4. CleanOff'
    BY <1>2, <1>3 DEF Reported, CleanOff, NothingOnItsWay
<1> QED BY <1>3, <1>4 DEF Clean

\* Beside the script that fails no step counts a failed run.
LEMMA FailedCounts ==
    ASSUME UploadTypeOK, RunStep
    PROVE  \/ failed' = failed
           \/ /\ stage # "off" /\ stage' = "off"
              /\ failed' = IF failed = 3 THEN failed ELSE failed + 1
BY DEF RunStep, uploadVars, script, receiver, Start, Hear, HearVersion,
       HearReady, HearData, HearResult, Waits, Fails, GiveUp, Arrive, Command,
       drain_uart_rx, SayReady, ReadHeader, SayData, ReadPayload, Check,
       ByteTimesOut, Goes

\* Only a start lets the script run.
LEMMA OffStays ==
    ASSUME UploadTypeOK, stage = "off", RunStep
    PROVE  failed' = failed /\ (Start \/ stage' = "off")
BY DEF RunStep, uploadVars, script, receiver, Start, Hear, HearVersion,
       HearReady, HearData, HearResult, GiveUp, Arrive, Command,
       drain_uart_rx, SayReady, ReadHeader, SayData, ReadPayload, Check,
       ByteTimesOut, Goes

\* Two answers more, the second of them there only at the prompt.
Late(said, at) ==
    \A i \in 1 .. Len(said) : /\ said[i].text \notin {"READY", "profile"}
                              /\ said[i] = Prompt => at = "prompt"

LEMMA LateSays ==
    ASSUME NEW said \in Seq(Answer), NEW at, Late(said, at), NEW k \in Kind,
           NEW text \in {"DATA", "OK", "ERROR"}
    PROVE  /\ at # "prompt" => \A to : Late(said \o <<Marker(k, text)>>, to)
           /\ Late(said \o <<Marker(k, text), Prompt>>, "prompt")
<1>1. /\ Marker(k, text) \in Answer /\ Marker(k, text) # Prompt
      /\ Marker(k, text).text \notin {"READY", "profile"}
      /\ Prompt \in Answer /\ Prompt.text \notin {"READY", "profile"}
    BY UploadWords DEF Marker, Prompt
<1>2. ASSUME NEW more \in Seq(Answer), NEW to,
             \A i \in 1 .. Len(more) :
               /\ more[i].text \notin {"READY", "profile"}
               /\ more[i] = Prompt => to = "prompt",
             at # "prompt" \/ to = "prompt"
      PROVE  Late(said \o more, to)
    <2>1. Len(said) \in Nat /\ Len(more) \in Nat
        BY LenProperties
    <2>2. /\ Len(said \o more) = Len(said) + Len(more)
          /\ \A i \in 1 .. Len(said) + Len(more) :
               (said \o more)[i] = IF i <= Len(said) THEN said[i]
                                                     ELSE more[i - Len(said)]
        BY ConcatProperties
    <2>3. ASSUME NEW i \in 1 .. Len(said \o more)
          PROVE  /\ (said \o more)[i].text \notin {"READY", "profile"}
                 /\ (said \o more)[i] = Prompt => to = "prompt"
        <3>1. CASE i <= Len(said)
            <4>1. i \in 1 .. Len(said) /\ (said \o more)[i] = said[i]
                BY <2>1, <2>2, <3>1
            <4> QED BY <1>2, <4>1 DEF Late
        <3>2. CASE ~(i <= Len(said))
            <4>1. /\ i - Len(said) \in 1 .. Len(more)
                  /\ (said \o more)[i] = more[i - Len(said)]
                BY <2>1, <2>2, <3>2
            <4> QED BY <1>2, <4>1
        <3> QED BY <3>1, <3>2
    <2> QED BY <2>3 DEF Late
<1>3. ASSUME at # "prompt", NEW to
      PROVE  Late(said \o <<Marker(k, text)>>, to)
    <2>1. <<Marker(k, text)>> \in Seq(Answer)
        BY <1>1
    <2>2. \A i \in 1 .. Len(<<Marker(k, text)>>) :
            <<Marker(k, text)>>[i] = Marker(k, text)
        OBVIOUS
    <2> QED BY <1>1, <1>2, <1>3, <2>1, <2>2
<1>4. Late(said \o <<Marker(k, text), Prompt>>, "prompt")
    <2>1. <<Marker(k, text), Prompt>> \in Seq(Answer)
        BY <1>1
    <2>2. \A i \in 1 .. Len(<<Marker(k, text), Prompt>>) :
            <<Marker(k, text), Prompt>>[i] \in {Marker(k, text), Prompt}
        OBVIOUS
    <2> QED BY <1>1, <1>2, <2>1, <2>2
<1> QED BY <1>3, <1>4

\* A late run finds nothing it waits for, and leaves a board at rest.
LEMMA LateRunStep ==
    ASSUME UploadTypeOK, LateRun, RunStep, ~UNCHANGED uploadVars
    PROVE  \/ LateRun' /\ failed' = failed
           \/ CleanOff'
<1> USE DEF script, receiver
<1>0. /\ stage \in {"version", "READY"} /\ profile = FALSE
      /\ answers \in Seq(Answer) /\ kind \in Kind
    BY DEF LateRun, UploadTypeOK
<1>1. CASE /\ board \in {"header", "payload"} /\ answers = <<>>
           /\ \E byte \in Byte : OnItsWay(byte)
    <2>1. PICK byte \in Byte : OnItsWay(byte)
        BY <1>1
    <2>2. Arrive \/ ReadHeader \/ ReadPayload
        <3>1. wire # <<>> \/ rx # <<>>
            BY <2>1 DEF OnItsWay
        <3>2. ~Start /\ ~Hear /\ ~GiveUp /\ ~ByteTimesOut
            BY <1>0, <1>1, <3>1
            DEF Start, Begins, Hear, GiveUp, ByteTimesOut, WaitsForByte, Quiet
        <3>3. /\ ~Command /\ ~drain_uart_rx /\ ~SayReady /\ ~SayData
              /\ ~Check
            BY <1>1 DEF Command, drain_uart_rx, SayReady, SayData, Check
        <3> QED BY <3>2, <3>3 DEF RunStep
    <2>3. CASE Arrive
        <3>1. OnItsWay(byte)'
            BY <1>1, <2>1, <2>3, ByteArrives DEF Reading
        <3>2. UNCHANGED <<script, receiver, answers, faults>>
            BY <2>3 DEF Arrive
        <3>3. LateRun'
            BY <1>0, <1>1, <3>1, <3>2 DEF LateRun
        <3> QED BY <3>2, <3>3
    <2>4. CASE ReadHeader \/ ReadPayload
        <3>1. rx = <<byte>> /\ wire = <<>>
            BY <2>1, <2>4 DEF OnItsWay, ReadHeader, ReadPayload
        <3>2. rx' = Tail(rx) /\ UNCHANGED <<script, wire, faults>>
            BY <2>4 DEF ReadHeader, ReadPayload, Goes
        <3>3. NothingOnItsWay'
            BY <3>1, <3>2 DEF NothingOnItsWay
        <3>4. /\ board' \in {"header", "summary", "payload", "check", "prompt"}
              /\ \/ answers' = <<>>
                 \/ /\ answers' = answers \o <<Marker(kind, "ERROR"), Prompt>>
                    /\ board' = "prompt"
            BY <1>1, <2>4 DEF ReadHeader, ReadPayload, Goes, Reports, Says
        <3>5. Late(answers', board')
            <4>1. Late(<<>>, board')
                BY EmptySeq DEF Late
            <4>2. Late(<<>>, "prompt") /\ <<>> \in Seq(Answer)
                BY EmptySeq DEF Late
            <4>3. Late(<<>> \o <<Marker(kind, "ERROR"), Prompt>>, "prompt")
                BY <1>0, <4>2, LateSays
            <4> QED BY <1>1, <3>4, <4>1, <4>3
        <3>6. LateRun'
            BY <1>0, <3>2, <3>3, <3>4, <3>5 DEF LateRun, Late
        <3> QED BY <3>2, <3>6
    <2> QED BY <2>2, <2>3, <2>4
<1>2. CASE /\ board \in {"header", "summary", "payload", "check", "prompt"}
           /\ NothingOnItsWay /\ Late(answers, board)
    <2>1. Hear \/ GiveUp \/ SayData \/ Check \/ ByteTimesOut
        BY <1>0, <1>2, NothingToRead
        DEF RunStep, Start, Begins, drain_uart_rx, SayReady
    <2>2. CASE Hear
        <3>1. /\ answers # <<>> /\ answers' = Tail(answers)
              /\ HearVersion \/ HearReady
              /\ UNCHANGED <<job, rx, receiver, faults>>
            BY <1>0, <2>2 DEF Hear, HearData, HearResult
        <3>2. /\ Next1 = answers[1] /\ 1 \in 1 .. Len(answers)
              /\ Len(Tail(answers)) = Len(answers) - 1
              /\ \A i \in 1 .. Len(Tail(answers)) :
                   Tail(answers)[i] = answers[i + 1]
            BY <1>0, <3>1, EmptySeq, LenProperties, HeadTailProperties
            DEF Next1
        <3>3. /\ Next1.text \notin {"READY", "profile"}
              /\ Next1 = Prompt => board = "prompt"
            BY <1>2, <3>2 DEF Late
        <3>4. Next1 # Profile /\ ~Finds("READY")
            BY <3>3 DEF Profile, Marker, Finds
        <3>5. Late(answers', board')
            <4>1. Len(answers) \in Nat
                BY <1>0, LenProperties
            <4>2. \A i \in 1 .. Len(Tail(answers)) : i + 1 \in 1 .. Len(answers)
                BY <3>2, <4>1
            <4>3. \A i \in 1 .. Len(Tail(answers)) :
                    /\ Tail(answers)[i].text \notin {"READY", "profile"}
                    /\ Tail(answers)[i] = Prompt => board = "prompt"
                BY <1>2, <3>2, <4>2 DEF Late
            <4> QED BY <3>1, <4>3 DEF Late
        <3>6. CASE UNCHANGED <<stage, outcome, failed, wire>> /\ profile' = FALSE
            <4>1. LateRun'
                BY <1>0, <1>2, <3>1, <3>5, <3>6
                DEF LateRun, Late, NothingOnItsWay
            <4> QED BY <3>6, <4>1
        <3>7. CASE HearReady
            BY <1>0, <3>4, <3>6, <3>7 DEF HearReady, Waits
        <3>8. CASE HearVersion
            <4>1. profile' = FALSE
                <5>1. profile' = (profile \/ Next1 = Profile)
                    BY <3>8 DEF HearVersion
                <5> QED BY <1>0, <3>4, <5>1
            <4>2. CASE Next1 = Prompt
                <5>1. Fails /\ UNCHANGED wire
                    BY <1>0, <3>8, <4>2 DEF HearVersion
                <5>2. CleanOff'
                    BY <1>2, <3>1, <3>3, <4>2, <5>1
                    DEF CleanOff, Fails, NothingOnItsWay
                <5> QED BY <5>2
            <4>3. CASE Next1 # Prompt
                <5>1. Waits
                    BY <3>8, <4>3 DEF HearVersion
                <5> QED BY <3>6, <4>1, <5>1 DEF Waits
            <4> QED BY <4>2, <4>3
        <3> QED BY <3>1, <3>7, <3>8
    <2>3. CASE GiveUp
        <3>1. CleanOff'
            BY <1>2, <2>3 DEF GiveUp, Fails, CleanOff, NothingOnItsWay
        <3> QED BY <3>1
    <2>4. CASE SayData
        <3>1. /\ board = "summary" /\ board' = "payload"
              /\ answers' = answers \o <<Marker(kind, "DATA")>>
              /\ UNCHANGED <<script, wire, faults, rx>>
            BY <2>4 DEF SayData, Goes, Says
        <3>2. Late(answers', board')
            BY <1>0, <1>2, <3>1, LateSays
        <3>3. LateRun'
            BY <1>0, <1>2, <3>1, <3>2 DEF LateRun, Late, NothingOnItsWay
        <3> QED BY <3>1, <3>3
    <2>5. CASE Check \/ ByteTimesOut
        <3>1. PICK text \in {"OK", "ERROR"} :
                answers' = answers \o <<Marker(kind, text), Prompt>>
            BY <2>5 DEF Check, ByteTimesOut, Reports, Says
        <3>2. board' = "prompt" /\ UNCHANGED <<script, wire, faults, rx>>
            BY <2>5 DEF Check, ByteTimesOut, Goes
        <3>3. Late(answers', board')
            BY <1>0, <1>2, <3>1, <3>2, LateSays
        <3>4. LateRun'
            BY <1>0, <1>2, <3>2, <3>3 DEF LateRun, Late, NothingOnItsWay
        <3> QED BY <3>2, <3>4
    <2> QED BY <2>1, <2>2, <2>3, <2>4, <2>5
<1> QED BY <1>1, <1>2 DEF LateRun, Late

\* A start at a board that still waits for bytes is a late one.
LEMMA LateStart ==
    ASSUME UploadTypeOK, Start
    PROVE  (CleanRun \/ LateRun)' /\ failed' = failed
<1> USE DEF receiver
<1>1. /\ wire = <<>> /\ rx = <<>> /\ board \in {"prompt", "header", "payload"}
      /\ Begins(<<>>) /\ answers' = <<>>
      /\ UNCHANGED <<rx, receiver, faults, failed>>
    BY DEF Start
<1>2. CASE board = "prompt"
    BY <1>1, <1>2, CleanStart DEF NothingOnItsWay
<1>3. CASE board \in {"header", "payload"}
    <2>1. CommandOf(job'.kind) \in Byte /\ "v" \in Byte
        BY <1>1, UploadWords DEF Begins
    <2>2. PICK byte \in Byte : wire' = Append(<<>>, byte)
        BY <1>1, <2>1 DEF Begins
    <2>3. wire' = <<byte>> /\ rx' = <<>>
        BY <1>1, <2>2
    <2>4. stage' \in {"version", "READY"} /\ profile' = FALSE
        BY <1>1 DEF Begins
    <2>5. LateRun'
        BY <1>1, <1>3, <2>3, <2>4 DEF LateRun, OnItsWay
    <2> QED BY <1>1, <2>5
<1> QED BY <1>1, <1>2, <1>3

LEMMA CleanStep ==
    ASSUME UploadTypeOK, Clean, RunStep, ~UNCHANGED uploadVars
    PROVE  Clean' /\ failed' = failed
BY CleanOffStep, AsksStep, CommandsStep, DrainsStep, OffersHeaderStep,
   SendsHeaderStep, SummarizesStep, OffersPayloadStep, SendsPayloadStep,
   ChecksStep, ReportedStep DEF Clean, CleanRun

LEMMA UploadFirst ==
    ASSUME UploadInit
    PROVE  UploadIInv
<1>1. <<>> \in Seq(Byte) /\ <<>> \in Seq(Answer) /\ Len(<<>>) = 0
    BY EmptySeq
<1>2. UploadTypeOK
    <2>1. /\ stage = "off" /\ outcome = "none" /\ job = None /\ announced = None
          /\ profile = FALSE /\ kind = "image" /\ wire = <<>> /\ rx = <<>>
          /\ buf = <<>> /\ answers = <<>> /\ board = "prompt"
          /\ faults = 0 /\ failed = 0 /\ own = "yes"
        BY DEF UploadInit
    <2>2. 0 <= RxDepth /\ 0 \in 0 .. MaxFaults /\ 0 \in 0 .. 3
        BY UploadAssumption
    <2> QED BY <1>1, <2>1, <2>2 DEF UploadTypeOK, Kind
<1>3. CleanOff /\ failed = 0
    BY DEF UploadInit, CleanOff, NothingOnItsWay
<1> QED BY <1>2, <1>3 DEF UploadIInv, Clean

LEMMA UploadStep ==
    ASSUME UploadIInv, [UploadNext]_uploadVars
    PROVE  UploadIInv'
<1>1. UploadTypeOK /\ UploadTypeOK'
    BY UploadTypeStep DEF UploadIInv
<1>2. faults \in Nat /\ failed \in 0 .. 3 /\ failed' \in 0 .. 3
    BY <1>1, UploadAssumption DEF UploadTypeOK
<1>3. CASE UNCHANGED uploadVars
    <2>1. UNCHANGED <<stage, job, profile, outcome, failed, wire, rx, board,
                      kind, buf, announced, stored, answers, faults>>
        BY <1>3 DEF uploadVars, script, receiver
    <2>2. (Clean <=> Clean') /\ (CleanRun <=> CleanRun')
        BY <2>1
        DEF Clean, CleanOff, CleanRun, Asks, Commands, Drains, OffersHeader,
            SendsHeader, Summarizes, OffersPayload, SendsPayload, Checks,
            Reported, OnItsWay, NothingOnItsWay
    <2>3. LateRun <=> LateRun'
        BY <2>1 DEF LateRun, OnItsWay, NothingOnItsWay
    <2> QED BY <1>1, <2>1, <2>2, <2>3 DEF UploadIInv
<1>4. CASE faults' = faults + 1 /\ failed' = 0
    BY <1>1, <1>2, <1>4 DEF UploadIInv
<1>5. CASE RunStep /\ faults' = faults /\ ~UNCHANGED uploadVars
    <2>1. CASE Clean
        <3>1. Clean' /\ failed' = failed
            BY <1>1, <1>5, <2>1, CleanStep
        <3>2. stage' = "off" \/ CleanRun'
            BY <3>1 DEF Clean, CleanOff
        <3> QED BY <1>1, <1>5, <3>1, <3>2 DEF UploadIInv
    <2>2. CASE ~Clean
        <3>1. faults # 0 /\ failed \in {0, 1}
            BY <1>2, <2>2 DEF UploadIInv
        <3>2. \/ failed' = failed
              \/ stage # "off" /\ stage' = "off" /\ failed' = failed + 1
            BY <1>1, <1>5, <3>1, FailedCounts
        <3>3. CASE failed = 0
            BY <1>1, <1>5, <3>1, <3>2, <3>3 DEF UploadIInv
        <3>4. CASE failed = 1 /\ stage = "off"
            <4>1. failed' = failed /\ (Start \/ stage' = "off")
                BY <1>1, <1>5, <3>4, OffStays
            <4>2. stage' = "off" \/ CleanRun' \/ LateRun'
                BY <1>1, <4>1, LateStart
            <4> QED BY <1>1, <1>5, <3>1, <3>4, <4>1, <4>2 DEF UploadIInv
        <3>5. CASE failed = 1 /\ stage # "off"
            <4>1. LateRun
                BY <2>2, <3>5 DEF UploadIInv, Clean
            <4>2. (LateRun' /\ failed' = failed) \/ CleanOff'
                BY <1>1, <1>5, <4>1, LateRunStep
            <4>3. CASE LateRun' /\ failed' = failed
                BY <1>1, <1>5, <3>1, <3>5, <4>3 DEF UploadIInv
            <4>4. CASE CleanOff'
                <5>1. Clean' /\ stage' = "off" /\ failed' \in {1, 2}
                    BY <3>2, <3>5, <4>4 DEF Clean, CleanOff
                <5> QED BY <1>1, <1>5, <3>1, <5>1 DEF UploadIInv
            <4> QED BY <4>2, <4>3, <4>4
        <3> QED BY <3>1, <3>3, <3>4, <3>5
    <2> QED BY <2>1, <2>2
<1> QED BY <1>1, <1>3, <1>4, <1>5, FaultsCount

\* The types hold, and a run is where its first steps led it.
THEOREM UploadInvariant == UploadSpec => []UploadIInv
<1>1. UploadInit => UploadIInv
    BY UploadFirst
<1>2. UploadIInv /\ [UploadNext]_uploadVars => UploadIInv'
    BY UploadStep
<1> QED BY <1>1, <1>2, PTL DEF UploadSpec

\* A run without a fault is accepted: the script waits for the board's markers
\* and the board for the script's bytes, so that nothing is lost.  After the
\* last fault at most two runs fail: the first one for what the fault left
\* behind, the second one because the board took its first byte for one that it
\* still waited for; then the board is at its prompt.
THEOREM SoonAcceptedCorrect == UploadSpec => []SoonAccepted
<1>1. UploadIInv => SoonAccepted
    BY UploadAssumption DEF UploadIInv, UploadTypeOK, SoonAccepted
<1> QED BY <1>1, UploadInvariant, PTL

\* Without a fault the script says that an upload was accepted only when the
\* board has stored this very payload.
THEOREM FaultlessStored ==
    UploadSpec => [][faults = 0 /\ outcome' = "accepted"
                       /\ outcome # "accepted" => stored = job]_uploadVars
<1>1. ASSUME UploadIInv, [UploadNext]_uploadVars, faults = 0,
             outcome' = "accepted", outcome # "accepted"
      PROVE  stored = job
    <2>1. HearResult /\ Finds("OK") /\ answers # <<>>
        BY <1>1
        DEF UploadNext, uploadVars, script, receiver, Start, Begins, Hear,
            HearVersion, HearReady, HearData, HearResult, Waits, Fails,
            GiveUp, Arrive, Command, drain_uart_rx, SayReady, ReadHeader,
            SayData, ReadPayload, Check, ByteTimesOut, Goes, HastyStart,
            Stall, Kill, Noise, MarkerLost, BoardReset
    <2>2. Clean /\ stage = "OK"
        BY <1>1, <2>1 DEF UploadIInv, HearResult
    <2> QED BY <2>1, <2>2
            DEF Clean, CleanOff, CleanRun, Asks, Commands, Drains,
                OffersHeader, SendsHeader, Summarizes, OffersPayload,
                SendsPayload, Checks, Reported
<1> QED BY <1>1, UploadInvariant, PTL DEF UploadSpec

-----------------------------------------------------------------------------
(* What an accepted upload stored, after any number of stalls, kills, lost *)
(* or damaged bytes, lost markers and resets of the board.  A run begins   *)
(* with nothing on its way, so that as long as the line is its own every   *)
(* byte the board reads since is one of its own and every marker the       *)
(* script finds was said since.  Alone says which bytes those can be in a  *)
(* stage of the script, and what the markers that were said and not yet    *)
(* found say of the board.  Damaged: a board that reads a payload to its   *)
(* end has then nothing left to take for a command.                        *)

Magics == {Magic(k) : k \in Kind}

Unread == Len(rx) + Len(wire)

All(P) ==
    /\ \A i \in 1 .. Len(rx) : rx[i] \in P
    /\ \A i \in 1 .. Len(wire) : wire[i] \in P

Within(s, P) == \A i \in 1 .. Len(s) : s[i] \in P

Said(text) == \E i \in 1 .. Len(answers) : answers[i].text = text

\* What was said after READY came before its header.
ReadyIsLast ==
    \A i, j \in 1 .. Len(answers) :
        i < j /\ answers[i].text = "READY" => answers[j].text \notin {"DATA", "OK"}

VersionInv ==
    /\ Unread <= 1 /\ All({"v"}) /\ board \notin {"drain", "ready"}
    /\ ~Said("READY")
    /\ profile \/ Said("profile") => board = "prompt" /\ Unread = 0

ReadyInv ==
    /\ Unread <= 1 /\ All({"l", "w"})
    /\ board \in {"drain", "ready"} \/ Said("READY") => Unread = 0
    /\ Said("READY") => board = "prompt" \/ (board = "header" /\ buf = <<>>)
    /\ ReadyIsLast

Parts == {Magic(job.kind), job.crc}

\* The bytes of the header that were not lost.
OfHeader(have) ==
    /\ Len(have) + Unread <= 2
    /\ Within(have, Parts) /\ All(Parts)
    /\ Len(have) + Unread = 2 =>
        /\ \A i \in 1 .. Len(have) : have[i] = Header(job)[i]
        /\ \A i \in 1 .. Len(rx) : rx[i] = Header(job)[Len(have) + i]
        /\ \A i \in 1 .. Len(wire) :
              wire[i] = Header(job)[Len(have) + Len(rx) + i]

DataInv ==
    /\ ~Said("OK")
    /\ board = "header" => OfHeader(buf)
    /\ board = "prompt" => OfHeader(<<>>)
    /\ board \notin {"header", "prompt"} => Unread = 0
    /\ board # "check"
    /\ board = "summary" => announced = job
    /\ board = "payload" => announced = job /\ buf = <<>>
    /\ Said("DATA") => board \in {"payload", "prompt"} /\ Unread = 0

ResultInv ==
    /\ All(Byte \ Magics) /\ board # "summary"
    /\ board = "header" => Within(buf, Byte \ Magics)
    /\ board \in {"payload", "check"} => announced = job
    /\ board = "payload" => Len(buf) + Unread <= Len(Payload(job))
    /\ Said("OK") => stored = job

Alone ==
    /\ stage = "version" => VersionInv
    /\ stage = "READY" => ReadyInv
    /\ stage = "DATA" => DataInv
    /\ stage = "OK" => ResultInv

\* The payload is read to its end, whatever its bytes have become.
Damaged ==
    /\ board \in {"payload", "check", "prompt"}
    /\ board \in {"payload", "check"} => announced = job
    /\ board = "payload" => Len(buf) + Unread <= Len(Payload(job))
    /\ board \in {"check", "prompt"} => Unread = 0
    /\ Said("OK") => stored = job

OwnInv ==
    /\ own = "damaged" => stage \in {"OK", "off"}
    /\ Plain(job) => /\ own = "yes" => Alone
                     /\ own = "damaged" /\ stage = "OK" => Damaged

-----------------------------------------------------------------------------
LEMMA FirstByte ==
    ASSUME NEW S, NEW s \in Seq(S), s # <<>>
    PROVE  /\ Len(s) \in Nat /\ Len(s) >= 1 /\ Head(s) = s[1]
           /\ Tail(s) \in Seq(S) /\ Len(Tail(s)) = Len(s) - 1
           /\ \A i \in 1 .. Len(Tail(s)) : Tail(s)[i] = s[i + 1]
<1>1. Len(s) \in Nat /\ Len(s) # 0
    BY EmptySeq, LenProperties
<1> QED BY <1>1, HeadTailProperties

LEMMA LastByte ==
    ASSUME NEW S, NEW s \in Seq(S), NEW t \in Seq(S), t # <<>>
    PROVE  /\ Len(Append(s, Head(t))) = Len(s) + 1 /\ Len(s) \in Nat
           /\ \A i \in 1 .. Len(s) : Append(s, Head(t))[i] = s[i]
           /\ Append(s, Head(t))[Len(s) + 1] = t[1]
<1>1. Head(t) = t[1] /\ Head(t) \in S /\ Len(s) \in Nat
    BY FirstByte, HeadTailProperties, LenProperties
<1> QED BY <1>1, AppendProperties

LEMMA LineLengths ==
    ASSUME UploadTypeOK
    PROVE  /\ Len(rx) \in Nat /\ Len(wire) \in Nat /\ Len(buf) \in Nat
           /\ Unread \in Nat /\ Unread = Len(rx) + Len(wire)
           /\ Unread = 0 => rx = <<>> /\ wire = <<>>
           /\ rx \in Seq(Byte) /\ wire \in Seq(Byte) /\ buf \in Seq(Byte)
<1>1. rx \in Seq(Byte) /\ wire \in Seq(Byte) /\ buf \in Seq(Byte)
    BY DEF UploadTypeOK
<1>2. Len(rx) \in Nat /\ Len(wire) \in Nat /\ Len(buf) \in Nat
    BY <1>1, LenProperties
<1>3. (rx # <<>> => Len(rx) # 0) /\ (wire # <<>> => Len(wire) # 0)
    BY <1>1, EmptySeq
<1> QED BY <1>1, <1>2, <1>3 DEF Unread

\* A byte comes from the line, or is lost.
LEMMA LineMoves ==
    ASSUME UploadTypeOK, wire # <<>>, wire' = Tail(wire),
           rx' = rx \/ rx' = Append(rx, Head(wire))
    PROVE  /\ rx' = rx => Unread' = Unread - 1
           /\ rx' # rx => Unread' = Unread
           /\ Unread > 0
           /\ \A P : All(P) => All(P)'
<1>0. /\ rx \in Seq(Byte) /\ wire \in Seq(Byte)
      /\ Len(rx) \in Nat /\ Len(wire) \in Nat /\ Unread = Len(rx) + Len(wire)
    BY LineLengths
<1>1. /\ Len(wire) >= 1 /\ Len(wire') = Len(wire) - 1
      /\ \A i \in 1 .. Len(wire') : wire'[i] = wire[i + 1]
    BY <1>0, FirstByte
<1>2. ASSUME NEW P, All(P) PROVE \A i \in 1 .. Len(wire') : wire'[i] \in P
    BY <1>0, <1>1, <1>2 DEF All
<1>3. CASE rx' = rx
    <2>1. Unread' = Unread - 1
        BY <1>0, <1>1, <1>3 DEF Unread
    <2>2. \A P : All(P) => All(P)'
        BY <1>2, <1>3 DEF All
    <2> QED BY <1>0, <1>1, <1>3, <2>1, <2>2
<1>4. CASE rx' = Append(rx, Head(wire)) /\ rx' # rx
    <2>1. /\ Len(rx') = Len(rx) + 1
          /\ \A i \in 1 .. Len(rx) : rx'[i] = rx[i]
          /\ rx'[Len(rx) + 1] = wire[1]
        BY <1>0, <1>4, LastByte
    <2>2. Unread' = Unread
        BY <1>0, <1>1, <2>1 DEF Unread
    <2>3. ASSUME NEW P, All(P) PROVE \A i \in 1 .. Len(rx') : rx'[i] \in P
        <3>1. 1 \in 1 .. Len(wire) /\ wire[1] \in P
            BY <1>0, <1>1, <2>3 DEF All
        <3>2. \A i \in 1 .. Len(rx') : i \in 1 .. Len(rx) \/ i = Len(rx) + 1
            BY <1>0, <2>1
        <3> QED BY <2>1, <2>3, <3>1, <3>2 DEF All
    <2>4. \A P : All(P) => All(P)'
        BY <1>2, <2>3 DEF All
    <2> QED BY <1>0, <1>1, <1>4, <2>2, <2>4
<1> QED BY <1>3, <1>4

\* A byte is read.
LEMMA RxMoves ==
    ASSUME UploadTypeOK, rx # <<>>, rx' = Tail(rx), wire' = wire
    PROVE  /\ Unread' = Unread - 1 /\ Unread > 0
           /\ \A P : All(P) => All(P)' /\ Head(rx) \in P
<1>0. /\ rx \in Seq(Byte) /\ Len(rx) \in Nat /\ Len(wire) \in Nat
      /\ Unread = Len(rx) + Len(wire)
    BY LineLengths
<1>1. /\ Len(rx) >= 1 /\ Len(rx') = Len(rx) - 1 /\ Head(rx) = rx[1]
      /\ \A i \in 1 .. Len(rx') : rx'[i] = rx[i + 1]
    BY <1>0, FirstByte
<1>2. Unread' = Unread - 1
    BY <1>0, <1>1 DEF Unread
<1>3. ASSUME NEW P, All(P) PROVE All(P)' /\ Head(rx) \in P
    <2>1. 1 \in 1 .. Len(rx)
        BY <1>0, <1>1
    <2>2. \A i \in 1 .. Len(rx') : i + 1 \in 1 .. Len(rx)
        BY <1>0, <1>1
    <2> QED BY <1>1, <1>3, <2>1, <2>2 DEF All
<1> QED BY <1>0, <1>1, <1>2, <1>3

\* The receive FIFO is emptied.
LEMMA RxEmptied ==
    ASSUME UploadTypeOK, rx' = <<>>, wire' = wire
    PROVE  /\ Unread' = Len(wire) /\ Unread' <= Unread
           /\ \A P : All(P) => All(P)'
<1>1. Len(rx') = 0
    OBVIOUS
<1> QED BY <1>1, LineLengths DEF Unread, All

\* The markers that are said are added to those that wait, or the oldest goes.
LEMMA SaysMore ==
    ASSUME UploadTypeOK, NEW said \in Seq(Answer), Says(said)
    PROVE  /\ \A text : Said(text)' =>
                 Said(text) \/ \E i \in 1 .. Len(said) : said[i].text = text
           /\ /\ ReadyIsLast
              /\ \/ ~Said("READY") /\ \A i \in 1 .. Len(said) : said[i].text # "READY"
                 \/ \A i \in 1 .. Len(said) : said[i].text \notin {"DATA", "OK"}
              => ReadyIsLast'
<1>0. answers \in Seq(Answer)
    BY DEF UploadTypeOK
<1>1. Len(said) \in Nat /\ Len(answers) \in Nat
    BY <1>0, LenProperties
<1>2. /\ Len(answers') = Len(answers) + Len(said)
      /\ \A i \in 1 .. Len(answers) + Len(said) :
            answers'[i] = IF i <= Len(answers) THEN answers[i]
                                               ELSE said[i - Len(answers)]
    BY <1>0, ConcatProperties DEF Says
<1>3. \A i \in 1 .. Len(answers') :
        \/ i \in 1 .. Len(answers) /\ answers'[i] = answers[i]
        \/ /\ i > Len(answers)
           /\ i - Len(answers) \in 1 .. Len(said)
           /\ answers'[i] = said[i - Len(answers)]
    BY <1>1, <1>2
<1>4. \A text : Said(text)' =>
          Said(text) \/ \E i \in 1 .. Len(said) : said[i].text = text
    BY <1>3 DEF Said
<1>5. ASSUME ReadyIsLast,
             \/ ~Said("READY") /\ \A n \in 1 .. Len(said) : said[n].text # "READY"
             \/ \A n \in 1 .. Len(said) : said[n].text \notin {"DATA", "OK"},
             NEW i \in 1 .. Len(answers'), NEW j \in 1 .. Len(answers'),
             i < j, answers'[i].text = "READY"
      PROVE  answers'[j].text \notin {"DATA", "OK"}
    <2>1. CASE j \in 1 .. Len(answers) /\ answers'[j] = answers[j]
        <3>1. i \in 1 .. Len(answers) /\ answers'[i] = answers[i]
            BY <1>1, <1>3, <1>5, <2>1
        <3> QED BY <1>5, <2>1, <3>1 DEF ReadyIsLast
    <2>2. CASE j - Len(answers) \in 1 .. Len(said)
                 /\ answers'[j] = said[j - Len(answers)]
        <3>1. CASE ~Said("READY") /\ \A n \in 1 .. Len(said) : said[n].text # "READY"
            BY <1>3, <1>5, <3>1 DEF Said
        <3>2. CASE \A n \in 1 .. Len(said) : said[n].text \notin {"DATA", "OK"}
            BY <2>2, <3>2
        <3> QED BY <1>5, <3>1, <3>2
    <2> QED BY <1>3, <2>1, <2>2
<1> QED BY <1>4, <1>5 DEF ReadyIsLast

LEMMA OldestGone ==
    ASSUME UploadTypeOK, answers # <<>>, answers' = Tail(answers)
    PROVE  /\ \A text : Said(text)' => Said(text)
           /\ Said(Head(answers).text)
           /\ ReadyIsLast => ReadyIsLast'
           /\ ReadyIsLast /\ Head(answers).text = "READY" =>
                 ~Said("DATA")' /\ ~Said("OK")'
<1>1. answers \in Seq(Answer)
    BY DEF UploadTypeOK
<1>2. /\ Len(answers) \in Nat /\ Len(answers) >= 1 /\ Head(answers) = answers[1]
      /\ Len(answers') = Len(answers) - 1
      /\ \A i \in 1 .. Len(answers') : answers'[i] = answers[i + 1]
    BY <1>1, FirstByte
<1>3. \A i \in 1 .. Len(answers') : /\ i + 1 \in 1 .. Len(answers) /\ 1 < i + 1
                                    /\ answers'[i] = answers[i + 1]
    BY <1>2
<1>4. 1 \in 1 .. Len(answers)
    BY <1>2
<1>5. \A text : Said(text)' => Said(text)
    BY <1>3 DEF Said
<1>6. \A i, j \in 1 .. Len(answers') : i < j => i + 1 < j + 1
    BY <1>2
<1>7. ReadyIsLast => ReadyIsLast'
    BY <1>3, <1>6 DEF ReadyIsLast
<1>8. ReadyIsLast /\ Head(answers).text = "READY" => ~Said("DATA")' /\ ~Said("OK")'
    BY <1>2, <1>3, <1>4 DEF ReadyIsLast, Said
<1> QED BY <1>2, <1>4, <1>5, <1>7, <1>8 DEF Said

-----------------------------------------------------------------------------
\* A byte is lost on the line, or damaged.
Loses == Noise /\ wire' = Tail(wire) /\ UNCHANGED own
Damages ==
    /\ Noise
    /\ \E b \in Byte : wire' = <<b>> \o Tail(wire)
    /\ own' = IF own # "no" /\ stage = "OK" /\ board = "payload"
              THEN "damaged" ELSE "no"

\* The steps that the script takes no part in.
Side ==
    \/ Arrive \/ Command \/ drain_uart_rx \/ SayReady \/ ReadHeader
    \/ SayData \/ ReadPayload \/ Check \/ ByteTimesOut
    \/ Stall \/ Loses \/ MarkerLost \/ BoardReset

LEMMA SideScript ==
    ASSUME Side PROVE UNCHANGED <<stage, job, profile>>
BY DEF Side, Arrive, Command, drain_uart_rx, SayReady, ReadHeader, SayData,
    ReadPayload, Check, ByteTimesOut, Stall, Loses, Noise, MarkerLost,
    BoardReset, Goes, script

\* What the board has still to read gets less only.
LEMMA SideLine ==
    ASSUME UploadTypeOK, Side
    PROVE  /\ Unread' <= Unread
           /\ \A P : All(P) => All(P)'
<1>0. Unread \in Nat
    BY LineLengths
<1>1. CASE Arrive \/ Loses
    <2>1. /\ wire # <<>> /\ wire' = Tail(wire)
          /\ rx' = rx \/ rx' = Append(rx, Head(wire))
        BY <1>1 DEF Arrive, Loses, Noise
    <2> QED BY <1>0, <2>1, LineMoves
<1>2. CASE Command \/ ReadHeader \/ ReadPayload
    <2>1. rx # <<>> /\ rx' = Tail(rx) /\ wire' = wire
        BY <1>2 DEF Command, ReadHeader, ReadPayload, Goes
    <2> QED BY <1>0, <2>1, RxMoves
<1>3. CASE drain_uart_rx \/ BoardReset
    <2>1. rx' = <<>> /\ wire' = wire
        BY <1>3 DEF drain_uart_rx, BoardReset, Goes
    <2> QED BY <2>1, RxEmptied
<1>4. CASE SayReady \/ SayData \/ Check \/ ByteTimesOut \/ Stall \/ MarkerLost
    <2>1. rx' = rx /\ wire' = wire
        BY <1>4 DEF SayReady, SayData, Check, ByteTimesOut, Stall, MarkerLost, Goes
    <2> QED BY <1>0, <2>1 DEF Unread, All
<1> QED BY <1>1, <1>2, <1>3, <1>4 DEF Side

\* Who says what.
LEMMA SideSays ==
    ASSUME UploadTypeOK, Side
    PROVE  /\ \A text : Said(text)' =>
                \/ Said(text) \/ text \in {"prompt", "ERROR"}
                \/ text = "profile" /\ Command /\ Head(rx) = "v"
                \/ text = "READY" /\ SayReady
                \/ text = "DATA" /\ SayData
                \/ text = "OK" /\ Check /\ ChecksumMatches
           /\ ReadyIsLast /\ (Said("READY") => ~SayData /\ ~Check) => ReadyIsLast'
<1>0. kind \in Kind
    BY DEF UploadTypeOK
<1>1. CASE UNCHANGED answers
    BY <1>1 DEF Said, ReadyIsLast
<1>2. CASE MarkerLost
    <2>1. answers # <<>> /\ answers' = Tail(answers)
        BY <1>2 DEF MarkerLost
    <2> QED BY <2>1, OldestGone
<1>3. CASE Head(rx) = "v" /\ Command /\ Says(<<Profile, Prompt>>)
    <2> DEFINE said == <<Profile, Prompt>>
    <2>1. said \in Seq(Answer)
        BY UploadWords
    <2>2. \A i \in 1 .. Len(said) : said[i].text \in {"profile", "prompt"}
        BY DEF Profile, Prompt, Marker
    <2> QED BY <1>3, <2>1, <2>2, SaysMore
<1>4. CASE SayReady
    <2> DEFINE said == <<Marker(kind, "READY")>>
    <2>1. said \in Seq(Answer)
        BY <1>0, UploadWords
    <2>2. \A i \in 1 .. Len(said) : said[i].text = "READY"
        BY DEF Marker
    <2>3. Says(said)
        BY <1>4 DEF SayReady
    <2> HIDE DEF said
    <2> QED BY <1>4, <2>1, <2>2, <2>3, SaysMore
<1>5. CASE SayData
    <2> DEFINE said == <<Marker(kind, "DATA")>>
    <2>1. said \in Seq(Answer)
        BY <1>0, UploadWords
    <2>2. \A i \in 1 .. Len(said) : said[i].text = "DATA"
        BY DEF Marker
    <2>3. Says(said)
        BY <1>5 DEF SayData
    <2> HIDE DEF said
    <2> QED BY <1>5, <2>1, <2>2, <2>3, SaysMore
<1>6. CASE Check /\ ChecksumMatches /\ Reports("OK")
    <2> DEFINE said == <<Marker(kind, "OK"), Prompt>>
    <2>1. said \in Seq(Answer)
        BY <1>0, UploadWords
    <2>2. \A i \in 1 .. Len(said) : said[i].text \in {"OK", "prompt"}
        BY DEF Marker, Prompt
    <2>3. Says(said)
        BY <1>6 DEF Reports
    <2> HIDE DEF said
    <2> QED BY <1>6, <2>1, <2>2, <2>3, SaysMore
<1>7. CASE Reports("ERROR")
    <2> DEFINE said == <<Marker(kind, "ERROR"), Prompt>>
    <2>1. said \in Seq(Answer)
        BY <1>0, UploadWords
    <2>2. \A i \in 1 .. Len(said) : said[i].text \in {"ERROR", "prompt"}
        BY DEF Marker, Prompt
    <2>3. Says(said)
        BY <1>7 DEF Reports
    <2> HIDE DEF said
    <2> QED BY <2>1, <2>2, <2>3, SaysMore
<1>8. CASE BoardReset
    <2> DEFINE said == <<Prompt>>
    <2>1. said \in Seq(Answer)
        BY UploadWords
    <2>2. \A i \in 1 .. Len(said) : said[i].text = "prompt"
        BY DEF Prompt, Marker
    <2>3. Says(said)
        BY <1>8 DEF BoardReset
    <2> HIDE DEF said
    <2> QED BY <2>1, <2>2, <2>3, SaysMore
<1>9. \/ UNCHANGED answers \/ MarkerLost
      \/ (Head(rx) = "v" /\ Command /\ Says(<<Profile, Prompt>>))
      \/ SayReady \/ SayData \/ (Check /\ ChecksumMatches /\ Reports("OK"))
      \/ Reports("ERROR") \/ BoardReset
    BY DEF Side, Arrive, Command, drain_uart_rx, ReadHeader, ReadPayload, Check,
        ByteTimesOut, Stall, Loses, Noise
<1> QED BY <1>1, <1>2, <1>3, <1>4, <1>5, <1>6, <1>7, <1>8, <1>9

\* Where the board goes: it reads only what there is, and drains only after a
\* command to upload.
LEMMA SideBoard ==
    ASSUME UploadTypeOK, Side
    PROVE  \/ UNCHANGED <<board, buf, announced, stored>>
           \/ board' = "prompt" /\ UNCHANGED <<announced, stored>>
           \/ board' = "prompt" /\ Check /\ UNCHANGED announced
           \/ /\ Command /\ board' = "drain" /\ Head(rx) \in {"l", "w"}
              /\ UNCHANGED <<buf, announced, stored>>
           \/ drain_uart_rx /\ board' = "ready" /\ UNCHANGED <<buf, announced, stored>>
           \/ SayReady /\ board' = "header" /\ buf' = <<>>
              /\ UNCHANGED <<announced, stored>>
           \/ /\ ReadHeader /\ board' \in {"header", "summary"} /\ buf' = Got
              /\ UNCHANGED stored
           \/ /\ SayData /\ board' = "payload" /\ buf' = <<>>
              /\ UNCHANGED <<announced, stored>>
           \/ /\ ReadPayload /\ board' \in {"payload", "check"}
              /\ UNCHANGED <<announced, stored>>
<1>1. Head(rx) = CommandOf("image") \/ Head(rx) = CommandOf("wad")
      => Head(rx) \in {"l", "w"}
    BY DEF CommandOf
<1>2. CASE Arrive \/ Loses \/ MarkerLost
    BY <1>2 DEF Arrive, Loses, Noise, MarkerLost, receiver
<1>3. CASE Command
    BY <1>1, <1>3 DEF Command, Goes, Kind
<1>4. CASE drain_uart_rx \/ SayReady \/ SayData
    BY <1>4 DEF drain_uart_rx, SayReady, SayData, Goes
<1>5. CASE ReadHeader \/ ReadPayload
    BY <1>5 DEF ReadHeader, ReadPayload, Goes
<1>6. CASE Check \/ ByteTimesOut \/ Stall \/ BoardReset
    BY <1>6 DEF Check, ByteTimesOut, Stall, BoardReset, Goes
<1> QED BY <1>2, <1>3, <1>4, <1>5, <1>6 DEF Side

\* A step that reads takes a byte.
LEMMA ReadsByte ==
    ASSUME UploadTypeOK, Command \/ ReadHeader \/ ReadPayload
    PROVE  /\ Unread' = Unread - 1 /\ Unread > 0
           /\ rx # <<>> /\ rx' = Tail(rx) /\ wire' = wire
           /\ \A P : All(P) => Head(rx) \in P
<1>1. rx # <<>> /\ rx' = Tail(rx) /\ wire' = wire
    BY DEF Command, ReadHeader, ReadPayload, Goes
<1> QED BY <1>1, RxMoves

\* Where the board is when it does what it does.
LEMMA SideFrom ==
    /\ Command => board = "prompt"
    /\ drain_uart_rx => board = "drain"
    /\ SayReady => board = "ready"
    /\ ReadHeader => board = "header"
    /\ SayData => board = "summary"
    /\ ReadPayload => board = "payload"
    /\ Check => board = "check"
BY DEF Command, drain_uart_rx, SayReady, ReadHeader, SayData, ReadPayload, Check

LEMMA SideLengths ==
    ASSUME UploadTypeOK, Side PROVE Unread' \in Nat
<1>1. UploadTypeOK'
    BY UploadTypeStep DEF Side, UploadNext, Loses
<1>2. Len(rx)' \in Nat /\ Len(wire)' \in Nat
    BY <1>1, LenProperties DEF UploadTypeOK
<1> QED BY <1>2 DEF Unread

LEMMA SideStores ==
    ASSUME Side, ~Check PROVE stored' = stored
BY DEF Side, Arrive, Command, drain_uart_rx, SayReady, ReadHeader, SayData,
    ReadPayload, ByteTimesOut, Stall, Loses, Noise, MarkerLost, BoardReset,
    receiver

LEMMA VersionSide ==
    ASSUME UploadTypeOK, VersionInv, Side PROVE VersionInv'
<1>1. /\ Unread <= 1 /\ All({"v"}) /\ board \notin {"drain", "ready"}
      /\ ~Said("READY") /\ Unread \in Nat
      /\ profile \/ Said("profile") => board = "prompt" /\ Unread = 0
    BY LineLengths DEF VersionInv
<1>2. Unread' <= Unread /\ Unread' \in Nat /\ All({"v"})' /\ profile' = profile
    BY <1>1, SideLine, SideLengths, SideScript
<1>3. Command \/ ReadHeader \/ ReadPayload =>
          Unread' = Unread - 1 /\ Unread > 0 /\ Head(rx) = "v"
    BY <1>1, ReadsByte
<1>4. board' \notin {"drain", "ready"}
    BY <1>1, <1>3, SideBoard, SideFrom
<1>5. ~Said("READY")'
    BY <1>1, SideSays, SideFrom
<1>6. ASSUME profile' \/ Said("profile")' PROVE board' = "prompt" /\ Unread' = 0
    <2>1. CASE profile \/ Said("profile")
        <3>1. board = "prompt" /\ Unread = 0
            BY <1>1, <2>1
        <3> QED BY <1>2, <1>3, <3>1, SideBoard, SideFrom
    <2>2. CASE ~(profile \/ Said("profile"))
        <3>1. Command /\ Head(rx) = "v" /\ board = "prompt"
            BY <1>2, <1>6, <2>2, SideSays, SideFrom
        <3> QED BY <1>1, <1>2, <1>3, <3>1, SideBoard, SideFrom
    <2> QED BY <2>1, <2>2
<1> QED BY <1>1, <1>2, <1>4, <1>5, <1>6 DEF VersionInv

LEMMA ReadySide ==
    ASSUME UploadTypeOK, ReadyInv, Side PROVE ReadyInv'
<1>1. /\ Unread <= 1 /\ All({"l", "w"}) /\ Unread \in Nat
      /\ board \in {"drain", "ready"} \/ Said("READY") => Unread = 0
      /\ Said("READY") => board = "prompt" \/ (board = "header" /\ buf = <<>>)
      /\ ReadyIsLast
    BY LineLengths DEF ReadyInv
<1>2. Unread' <= Unread /\ Unread' \in Nat /\ All({"l", "w"})'
    BY <1>1, SideLine, SideLengths
<1>3. Command \/ ReadHeader \/ ReadPayload => Unread' = Unread - 1 /\ Unread > 0
    BY <1>1, ReadsByte
<1>4. board' \in {"drain", "ready"} => Unread' = 0
    <2>1. CASE board \in {"drain", "ready"}
        BY <1>1, <1>2, <2>1
    <2>2. CASE board \notin {"drain", "ready"}
        BY <1>1, <1>2, <1>3, <2>2, SideBoard, SideFrom
    <2> QED BY <2>1, <2>2
<1>5. ASSUME Said("READY")'
      PROVE  /\ Unread' = 0
             /\ board' = "prompt" \/ (board' = "header" /\ buf' = <<>>)
    <2>1. CASE Said("READY")
        <3>1. /\ Unread = 0
              /\ board = "prompt" \/ (board = "header" /\ buf = <<>>)
            BY <1>1, <2>1
        <3> QED BY <1>2, <1>3, <3>1, SideBoard, SideFrom
    <2>2. CASE ~Said("READY")
        <3>1. SayReady /\ board = "ready"
            BY <1>5, <2>2, SideSays, SideFrom
        <3>2. board' = "header" /\ buf' = <<>>
            BY <3>1 DEF SayReady, Goes
        <3> QED BY <1>1, <1>2, <3>1, <3>2
    <2> QED BY <2>1, <2>2
<1>6. Said("READY") => ~SayData /\ ~Check
    BY <1>1, SideFrom
<1>7. ReadyIsLast'
    BY <1>1, <1>6, SideSays
<1> QED BY <1>1, <1>2, <1>4, <1>5, <1>7 DEF ReadyInv

\* The board says OK only for what it stores.
LEMMA ResultSaid ==
    ASSUME UploadTypeOK, Side, Said("OK") => stored = job,
           board = "check" => announced = job
    PROVE  Said("OK")' => stored' = job
<1>1. CASE Check
    <2>1. announced = job
        BY <1>1, SideFrom
    <2>2. stored' = stored \/ stored' = job
        BY <1>1, <2>1 DEF Check, ChecksumMatches
    <2>3. ChecksumMatches => stored' = job
        BY <1>1, <2>1 DEF Check, ChecksumMatches
    <2> QED BY <2>2, <2>3, SideSays
<1>2. CASE ~Check
    <2>1. stored' = stored
        BY <1>2, SideStores
    <2>2. Said("OK")' => Said("OK")
        BY <1>2, SideSays
    <2> QED BY <2>1, <2>2
<1> QED BY <1>1, <1>2

\* The board gets nearer to the end of a payload, and at the end there is no
\* byte left.
LEMMA PayloadSide ==
    ASSUME UploadTypeOK, Side, board # "summary",
           board = "payload" => /\ announced = job
                                /\ Len(buf) + Unread <= Len(Payload(job))
    PROVE  /\ board' = "payload" => Len(buf') + Unread' <= Len(Payload(job))
           /\ ReadPayload /\ board' = "check" => Unread' = 0
<1>1. Unread' <= Unread /\ Unread \in Nat /\ Unread' \in Nat
    BY SideLine, SideLengths, LineLengths
<1>2. Len(buf) \in Nat
    BY LineLengths
<1>3. CASE ReadPayload
    <2>1. /\ board = "payload" /\ announced = job
          /\ Len(buf) + Unread <= Len(Payload(job))
        BY <1>3, SideFrom
    <2>2. Unread' = Unread - 1 /\ rx # <<>>
        BY <1>3, ReadsByte
    <2>3. Len(Got) = Len(buf) + 1
        BY <2>2, LineLengths, LastByte DEF Got
    <2>4. buf' = Got /\ (board' = "check" => ~(Len(Got) < Len(Payload(job))))
        BY <1>3, <2>1 DEF ReadPayload, Goes
    <2>5. Len(Payload(job)) \in Nat
        <3>1. job \in Jobs
            BY <2>1 DEF UploadTypeOK
        <3> QED BY <3>1, UploadAssumption, LenProperties
    <2> DEFINE l == Len(buf)
               m == Len(Payload(job))
               g == Len(Got)
    <2>6. /\ l \in Nat /\ m \in Nat /\ g = l + 1 /\ l + Unread <= m
          /\ board' = "check" => ~(g < m)
        BY <1>2, <2>1, <2>3, <2>4, <2>5
    <2>7. Len(buf') = g
        BY <2>4
    <2> HIDE DEF l, m, g
    <2>8. g + Unread' <= m /\ (board' = "check" => Unread' = 0)
        BY <1>1, <2>2, <2>6
    <2> QED BY <2>7, <2>8 DEF m
<1>4. CASE ~ReadPayload
    <2>1. board' = "payload" => board = "payload" /\ buf' = buf
        BY <1>4, SideBoard, SideFrom
    <2>2. ASSUME board' = "payload"
          PROVE  Len(buf') + Unread' <= Len(Payload(job))
        <3>1. job \in Jobs
            BY <2>1, <2>2 DEF UploadTypeOK
        <3>2. Len(Payload(job)) \in Nat
            BY <3>1, UploadAssumption, LenProperties
        <3> DEFINE l == Len(buf)
                   m == Len(Payload(job))
                   u == Unread
                   v == Unread'
        <3>3. l \in Nat /\ m \in Nat /\ l + u <= m /\ Len(buf') = l
            BY <1>2, <2>1, <2>2, <3>2
        <3>4. v <= u /\ u \in Nat /\ v \in Nat
            BY <1>1
        <3> HIDE DEF l, m, u, v
        <3>5. l + v <= m
            BY <3>3, <3>4
        <3> QED BY <3>3, <3>5 DEF m, v
    <2> QED BY <1>4, <2>2
<1> QED BY <1>3, <1>4

LEMMA ResultSide ==
    ASSUME UploadTypeOK, ResultInv, Side, stage = "OK" PROVE ResultInv'
<1> DEFINE P == Byte \ Magics
<1>1. /\ All(P) /\ board # "summary"
      /\ board = "header" => Within(buf, P)
      /\ board \in {"payload", "check"} => announced = job
      /\ board = "payload" => Len(buf) + Unread <= Len(Payload(job))
      /\ Said("OK") => stored = job
    BY DEF ResultInv
<1>2. All(P)' /\ job' = job
    BY <1>1, SideLine, SideScript
<1>3. ASSUME ReadHeader PROVE Within(Got, P) /\ board' # "summary"
    <2>1. Within(buf, P) /\ Head(rx) \in P /\ rx # <<>>
        BY <1>1, <1>3, SideFrom, ReadsByte
    <2>2. /\ Len(Got) = Len(buf) + 1 /\ Len(buf) \in Nat
          /\ \A i \in 1 .. Len(buf) : Got[i] = buf[i]
          /\ Got[Len(buf) + 1] = Head(rx)
        BY <2>1, LineLengths, LastByte, FirstByte DEF Got
    <2>3. \A i \in 1 .. Len(Got) : i \in 1 .. Len(buf) \/ i = Len(buf) + 1
        BY <2>2
    <2>4. Within(Got, P)
        BY <2>1, <2>2, <2>3 DEF Within
    <2>5. ASSUME NEW j \in Jobs, Got = Header(j) PROVE FALSE
        <3>1. Len(Got) = 2 /\ Got[1] = Magic(j.kind) /\ j.kind \in Kind
            BY <2>5, UploadWords DEF Header
        <3>2. 1 \in 1 .. Len(Got)
            BY <3>1
        <3>3. Magic(j.kind) \in P
            BY <2>4, <3>1, <3>2 DEF Within
        <3> QED BY <3>1, <3>3 DEF Magics
    <2>6. board' # "summary"
        BY <1>3, <2>5 DEF ReadHeader, Goes
    <2> QED BY <2>4, <2>6
<1>4. board' # "summary"
    BY <1>1, <1>3, SideBoard, SideFrom
<1>5. board' = "header" => Within(buf', P)
    BY <1>1, <1>3, SideBoard, SideFrom DEF Within
<1>6. board' \in {"payload", "check"} => announced' = job
    BY <1>1, <1>3, SideBoard, SideFrom
<1>7. Said("OK")' => stored' = job
    BY <1>1, ResultSaid
<1>8. board' = "payload" => Len(buf') + Unread' <= Len(Payload(job'))
    BY <1>1, <1>2, PayloadSide, SideFrom
<1> QED BY <1>2, <1>4, <1>5, <1>6, <1>7, <1>8 DEF ResultInv

\* A board that is not interrupted comes to the end of a damaged payload.
LEMMA DamagedSide ==
    ASSUME UploadTypeOK, Damaged, Side, ~Stall, ~BoardReset PROVE Damaged'
<1>1. /\ board \in {"payload", "check", "prompt"}
      /\ board \in {"payload", "check"} => announced = job
      /\ board = "payload" => Len(buf) + Unread <= Len(Payload(job))
      /\ board \in {"check", "prompt"} => Unread = 0
      /\ Said("OK") => stored = job
    BY DEF Damaged
<1>2. Unread' <= Unread /\ Unread' \in Nat /\ Unread \in Nat /\ job' = job
    BY SideLine, SideLengths, LineLengths, SideScript
<1>3. Command \/ ReadHeader \/ ReadPayload => Unread > 0
    BY ReadsByte
<1>4. board' = "payload" => Len(buf') + Unread' <= Len(Payload(job))
    BY <1>1, PayloadSide
<1>5. Said("OK")' => stored' = job
    BY <1>1, ResultSaid
<1>6. ~Command /\ ~ReadHeader /\ ~SayReady /\ ~SayData /\ ~drain_uart_rx
    BY <1>1, <1>3, SideFrom
<1>7. board' \in {"payload", "check", "prompt"}
    BY <1>1, <1>6, SideBoard
<1>8. board' \in {"payload", "check"} => announced' = job
    BY <1>1, <1>6, SideBoard, SideFrom
<1>9. ASSUME board' \in {"check", "prompt"} PROVE Unread' = 0
    <2>1. CASE board \in {"check", "prompt"}
        BY <1>1, <1>2, <2>1
    <2>2. CASE board = "payload"
        <3>1. CASE ReadPayload
            <4>1. board' = "check"
                BY <1>9, <3>1 DEF ReadPayload, Goes
            <4> QED BY <1>1, <3>1, <4>1, PayloadSide
        <3>2. CASE ~ReadPayload
            <4>1. ByteTimesOut
                BY <1>6, <1>9, <2>2, <3>2, SideFrom
                DEF Side, Arrive, Loses, Noise, MarkerLost, receiver
            <4>2. rx = <<>> /\ wire = <<>>
                BY <4>1 DEF ByteTimesOut, WaitsForByte, Quiet
            <4>3. Len(rx) = 0 /\ Len(wire) = 0
                BY <4>2
            <4> QED BY <1>2, <4>3, LineLengths
        <3> QED BY <3>1, <3>2
    <2> QED BY <1>1, <2>1, <2>2
<1> QED BY <1>2, <1>4, <1>5, <1>7, <1>8, <1>9 DEF Damaged

\* A damaged byte is one byte.
LEMMA DamageLine ==
    ASSUME UploadTypeOK, Damages
    PROVE  Unread' = Unread /\ UNCHANGED <<stage, job, receiver, answers>>
<1>1. PICK b \in Byte : wire' = <<b>> \o Tail(wire)
    BY DEF Damages
<1>2. wire # <<>> /\ UNCHANGED <<stage, job, rx, receiver, answers>>
    BY DEF Damages, Noise
<1>3. /\ Len(wire) \in Nat /\ Len(wire) >= 1 /\ Tail(wire) \in Seq(Byte)
      /\ Len(Tail(wire)) = Len(wire) - 1
    BY <1>2, FirstByte DEF UploadTypeOK
<1>4. Len(wire') = 1 + Len(Tail(wire))
    <2>1. <<b>> \in Seq(Byte) /\ Len(<<b>>) = 1
        OBVIOUS
    <2> QED BY <1>1, <1>3, <2>1, ConcatProperties
<1>5. Len(wire') = Len(wire)
    BY <1>3, <1>4
<1> QED BY <1>2, <1>5 DEF Unread

LEMMA DamageStep ==
    ASSUME UploadTypeOK, OwnInv, Damages PROVE OwnInv'
<1>1. Unread' = Unread /\ UNCHANGED <<stage, job, receiver, answers>>
    BY DamageLine
<1>2. own' = "damaged" => own # "no" /\ stage = "OK" /\ board = "payload"
    BY DEF Damages
<1>3. own' \in {"damaged", "no"}
    BY DEF Damages
<1> SUFFICES ASSUME Plain(job), own' = "damaged" PROVE Damaged'
    BY <1>1, <1>2, <1>3 DEF OwnInv, Plain
<1>4. own \in {"yes", "damaged"}
    BY <1>2 DEF UploadTypeOK
<1>5. /\ announced = job /\ Len(buf) + Unread <= Len(Payload(job))
      /\ Said("OK") => stored = job
    BY <1>2, <1>4 DEF OwnInv, Alone, ResultInv, Damaged
<1> QED BY <1>1, <1>2, <1>5 DEF Damaged, receiver, Said

-----------------------------------------------------------------------------
\* One byte of the header is not a header.
LEMMA FewBytes ==
    ASSUME Unread' \in Nat, Unread' <= 1, All(Parts)', job' = job
    PROVE  OfHeader(<<>>)'
<1>1. Len(<<>>) = 0
    OBVIOUS
<1>2. Within(<<>>, Parts)'
    BY <1>1 DEF Within
<1>3. \A u, n \in Nat : u <= 1 /\ n = 0 => n + u <= 2 /\ n + u # 2
    OBVIOUS
<1>4. Len(<<>>) + Unread' <= 2 /\ Len(<<>>) + Unread' # 2
    BY <1>1, <1>3
<1> QED BY <1>2, <1>4 DEF OfHeader

LEMMA HeaderMoves ==
    ASSUME UploadTypeOK, NEW have \in Seq(Byte), OfHeader(have), job' = job,
           \/ UNCHANGED <<rx, wire>>
           \/ /\ wire # <<>> /\ wire' = Tail(wire)
              /\ rx' = rx \/ rx' = Append(rx, Head(wire))
    PROVE  OfHeader(have)'
<1>0. /\ rx \in Seq(Byte) /\ wire \in Seq(Byte) /\ Len(have) \in Nat
      /\ Len(rx) \in Nat /\ Len(wire) \in Nat /\ Unread = Len(rx) + Len(wire)
    BY LineLengths, LenProperties
<1>1. /\ Len(have) + Unread <= 2
      /\ Within(have, Parts) /\ All(Parts)
      /\ Len(have) + Unread = 2 =>
        /\ \A i \in 1 .. Len(have) : have[i] = Header(job)[i]
        /\ \A i \in 1 .. Len(rx) : rx[i] = Header(job)[Len(have) + i]
        /\ \A i \in 1 .. Len(wire) :
              wire[i] = Header(job)[Len(have) + Len(rx) + i]
    BY DEF OfHeader
<1>2. CASE UNCHANGED <<rx, wire>>
    BY <1>2 DEF OfHeader, Unread, All, Within, Header, Parts
<1>3. CASE /\ wire # <<>> /\ wire' = Tail(wire)
           /\ rx' = rx \/ rx' = Append(rx, Head(wire))
    <2>1. /\ rx' = rx => Unread' = Unread - 1
          /\ rx' # rx => Unread' = Unread
          /\ All(Parts)' /\ Parts' = Parts
          /\ Within(have, Parts)'
        BY <1>1, <1>3, LineMoves DEF Within, Parts, All
    <2>2. /\ Len(wire) >= 1 /\ Len(wire') = Len(wire) - 1
          /\ \A i \in 1 .. Len(wire') : wire'[i] = wire[i + 1]
        BY <1>0, <1>3, FirstByte
    <2>3. Unread' <= Unread /\ Unread' \in Nat
        <3>1. Unread \in Nat /\ Unread > 0
            BY <1>0, <2>2
        <3> QED BY <2>1, <3>1
    <2>4. ASSUME Len(have) + Unread' = 2
          PROVE  /\ \A i \in 1 .. Len(have) : have[i] = Header(job)[i]
                 /\ \A i \in 1 .. Len(rx') : rx'[i] = Header(job)[Len(have) + i]
                 /\ \A i \in 1 .. Len(wire') :
                       wire'[i] = Header(job)[Len(have) + Len(rx') + i]
        <3>1. rx' = Append(rx, Head(wire)) /\ Len(have) + Unread = 2
            BY <1>0, <1>1, <1>3, <2>1, <2>3, <2>4
        <3>2. /\ Len(rx') = Len(rx) + 1
              /\ \A i \in 1 .. Len(rx) : rx'[i] = rx[i]
              /\ rx'[Len(rx) + 1] = wire[1]
            BY <1>0, <1>3, <3>1, LastByte
        <3>3. wire[1] = Header(job)[Len(have) + Len(rx) + 1]
            <4>1. 1 \in 1 .. Len(wire)
                BY <1>0, <2>2
            <4> QED BY <1>0, <1>1, <3>1, <4>1
        <3>4. ASSUME NEW i \in 1 .. Len(rx')
              PROVE  rx'[i] = Header(job)[Len(have) + i]
            <4>1. i \in 1 .. Len(rx) \/ i = Len(rx) + 1
                BY <1>0, <3>2
            <4>2. CASE i \in 1 .. Len(rx)
                BY <1>1, <3>1, <3>2, <4>2
            <4>3. CASE i = Len(rx) + 1
                <5>1. Len(have) + i = Len(have) + Len(rx) + 1
                    BY <1>0, <4>3
                <5> QED BY <3>2, <3>3, <4>3, <5>1
            <4> QED BY <4>1, <4>2, <4>3
        <3>5. ASSUME NEW i \in 1 .. Len(wire')
              PROVE  wire'[i] = Header(job)[Len(have) + Len(rx') + i]
            <4>1. /\ i + 1 \in 1 .. Len(wire)
                  /\ Len(have) + Len(rx) + (i + 1) = Len(have) + Len(rx') + i
                BY <1>0, <2>2, <3>2
            <4>2. wire[i + 1] = Header(job)[Len(have) + Len(rx) + (i + 1)]
                BY <1>1, <3>1, <4>1
            <4> QED BY <2>2, <4>1, <4>2
        <3> QED BY <1>1, <3>1, <3>4, <3>5
    <2>5. Len(have) + Unread' <= 2
        BY <1>0, <1>1, <2>3
    <2>6. Header(job)' = Header(job)
        BY DEF Header
    <2> QED BY <2>1, <2>4, <2>5, <2>6 DEF OfHeader
<1> QED BY <1>2, <1>3

LEMMA HeaderRead ==
    ASSUME UploadTypeOK, OfHeader(buf), job' = job, NEW have, have = Got,
           rx # <<>>, rx' = Tail(rx), wire' = wire
    PROVE  OfHeader(have)' /\ Len(have) = Len(buf) + 1 /\ Len(have) \in Nat
<1>0. /\ rx \in Seq(Byte) /\ wire \in Seq(Byte) /\ buf \in Seq(Byte)
      /\ Len(buf) \in Nat
      /\ Len(rx) \in Nat /\ Len(wire) \in Nat /\ Unread = Len(rx) + Len(wire)
    BY LineLengths
<1>1. /\ Len(buf) + Unread <= 2
      /\ Within(buf, Parts) /\ All(Parts)
      /\ Len(buf) + Unread = 2 =>
        /\ \A i \in 1 .. Len(buf) : buf[i] = Header(job)[i]
        /\ \A i \in 1 .. Len(rx) : rx[i] = Header(job)[Len(buf) + i]
        /\ \A i \in 1 .. Len(wire) :
              wire[i] = Header(job)[Len(buf) + Len(rx) + i]
    BY DEF OfHeader
<1>2. /\ Len(have) = Len(buf) + 1
      /\ \A i \in 1 .. Len(buf) : have[i] = buf[i]
      /\ have[Len(buf) + 1] = rx[1]
    BY <1>0, LastByte DEF Got
<1>3. /\ Unread' = Unread - 1 /\ Unread > 0
      /\ All(Parts)' /\ Parts' = Parts /\ Head(rx) \in Parts
    BY <1>1, RxMoves DEF Parts, All
<1>4. /\ Len(rx) >= 1 /\ Len(rx') = Len(rx) - 1 /\ Head(rx) = rx[1]
      /\ \A i \in 1 .. Len(rx') : rx'[i] = rx[i + 1]
    BY <1>0, FirstByte
<1>5. \A i \in 1 .. Len(have) : i \in 1 .. Len(buf) \/ i = Len(buf) + 1
    BY <1>0, <1>2
<1>6. Within(have, Parts)
    BY <1>1, <1>2, <1>3, <1>4, <1>5 DEF Within
<1>7. Within(have, Parts)'
    BY <1>3, <1>6 DEF Within
<1>8. Len(have) + Unread' = Len(buf) + Unread /\ Unread \in Nat
    BY <1>0, <1>2, <1>3
<1>9. ASSUME Len(have) + Unread' = 2
      PROVE  /\ \A i \in 1 .. Len(have) : have[i] = Header(job)[i]
             /\ \A i \in 1 .. Len(rx') : rx'[i] = Header(job)[Len(have) + i]
             /\ \A i \in 1 .. Len(wire') :
                   wire'[i] = Header(job)[Len(have) + Len(rx') + i]
    <2>1. Len(buf) + Unread = 2
        BY <1>8, <1>9
    <2>2. rx[1] = Header(job)[Len(buf) + 1]
        <3>1. 1 \in 1 .. Len(rx)
            BY <1>0, <1>4
        <3> QED BY <1>1, <2>1, <3>1
    <2>3. \A i \in 1 .. Len(have) : have[i] = Header(job)[i]
        BY <1>1, <1>2, <1>5, <2>1, <2>2
    <2>4. ASSUME NEW i \in 1 .. Len(rx')
          PROVE  rx'[i] = Header(job)[Len(have) + i]
        <3>1. i + 1 \in 1 .. Len(rx) /\ Len(buf) + (i + 1) = Len(have) + i
            BY <1>0, <1>2, <1>4
        <3>2. rx[i + 1] = Header(job)[Len(buf) + (i + 1)]
            BY <1>1, <2>1, <3>1
        <3> QED BY <1>4, <3>1, <3>2
    <2>5. ASSUME NEW i \in 1 .. Len(wire')
          PROVE  wire'[i] = Header(job)[Len(have) + Len(rx') + i]
        <3>1. /\ i \in 1 .. Len(wire)
              /\ Len(buf) + Len(rx) + i = Len(have) + Len(rx') + i
            BY <1>0, <1>2, <1>4
        <3> QED BY <1>1, <2>1, <3>1
    <2> QED BY <2>3, <2>4, <2>5
<1>10. Header(job)' = Header(job)
    BY DEF Header
<1>11. Len(have) + Unread' <= 2
    BY <1>1, <1>8
<1> QED BY <1>0, <1>2, <1>3, <1>7, <1>9, <1>10, <1>11 DEF OfHeader

LEMMA SameJob ==
    ASSUME NEW i \in Jobs, NEW j \in Jobs,
           Magic(i.kind) = Magic(j.kind), i.crc = j.crc
    PROVE  i = j
<1>1. i \in [kind : Kind, crc : Byte] /\ j \in [kind : Kind, crc : Byte]
    BY UploadAssumption
<1>2. i.kind \in {"image", "wad"} /\ j.kind \in {"image", "wad"}
    BY <1>1 DEF Kind
<1>3. \A m, n \in {"image", "wad"} : Magic(m) = Magic(n) => m = n
    BY DEF Magic
<1>4. i.kind = j.kind
    BY <1>2, <1>3
<1> QED BY <1>1, <1>4

LEMMA OneOfHeader ==
    ASSUME UploadTypeOK, NEW have \in Seq(Byte), OfHeader(have), have # <<>>,
           Side, job' = job
    PROVE  Unread' <= 1 /\ All(Parts)'
<1>1. All(Parts) /\ Len(have) + Unread <= 2 /\ Unread \in Nat /\ Unread' \in Nat
    BY LineLengths, SideLengths DEF OfHeader
<1>2. Len(have) \in Nat /\ Len(have) >= 1
    BY FirstByte
<1>3. Unread <= 1
    BY <1>1, <1>2
<1>4. Unread' <= Unread /\ All(Parts)'
    BY <1>1, SideLine DEF Parts, All
<1> QED BY <1>1, <1>3, <1>4

LEMMA DataSide ==
    ASSUME UploadTypeOK, DataInv, Side, stage = "DATA" PROVE DataInv'
<1>1. /\ ~Said("OK")
      /\ board = "header" => OfHeader(buf)
      /\ board = "prompt" => OfHeader(<<>>)
      /\ board \notin {"header", "prompt"} => Unread = 0
      /\ board # "check"
      /\ board = "summary" => announced = job
      /\ board = "payload" => announced = job /\ buf = <<>>
      /\ Said("DATA") => board \in {"payload", "prompt"} /\ Unread = 0
    BY DEF DataInv
<1>2. job' = job /\ job \in Jobs
    BY SideScript DEF UploadTypeOK
<1>3. Unread' <= Unread /\ Unread' \in Nat /\ Unread \in Nat
    BY SideLine, SideLengths, LineLengths
<1>4. Command \/ ReadHeader \/ ReadPayload =>
          /\ Unread' = Unread - 1 /\ Unread > 0
          /\ rx # <<>> /\ rx' = Tail(rx) /\ wire' = wire
    BY ReadsByte
<1>5. rx \in Seq(Byte) /\ wire \in Seq(Byte) /\ buf \in Seq(Byte)
      /\ <<>> \in Seq(Byte)
    BY LineLengths
<1>6. ~Said("OK")'
    BY <1>1, SideSays, SideFrom
<1>7. ASSUME Said("DATA")' PROVE board' \in {"payload", "prompt"} /\ Unread' = 0
    <2>1. CASE Said("DATA")
        <3>1. board \in {"payload", "prompt"} /\ Unread = 0
            BY <1>1, <2>1
        <3> QED BY <1>3, <1>4, <3>1, SideBoard, SideFrom
    <2>2. CASE ~Said("DATA")
        <3>1. SayData /\ board = "summary" /\ board' = "payload"
            BY <1>7, <2>2, SideSays, SideFrom DEF SayData, Goes
        <3> QED BY <1>1, <1>3, <3>1
    <2> QED BY <2>1, <2>2
<1>8. board' # "check" /\ ~ReadPayload /\ ~Check
    BY <1>1, <1>3, <1>4, SideBoard, SideFrom
\* What goes on with the line when the board does not read.
<1>9. ASSUME NEW have \in Seq(Byte), OfHeader(have),
             Arrive \/ Loses \/ MarkerLost \/ ByteTimesOut \/ Stall
      PROVE  OfHeader(have)'
    <2>1. \/ UNCHANGED <<rx, wire>>
          \/ /\ wire # <<>> /\ wire' = Tail(wire)
             /\ rx' = rx \/ rx' = Append(rx, Head(wire))
        BY <1>9 DEF Arrive, Loses, Noise, MarkerLost, ByteTimesOut, Stall, Goes
    <2> QED BY <1>2, <1>9, <2>1, HeaderMoves
<1>10. \A have \in Seq(Byte) : OfHeader(have) =>
          All(Parts)' /\ (have # <<>> \/ Unread' <= 1 => OfHeader(<<>>)')
    <2> SUFFICES ASSUME NEW have \in Seq(Byte), OfHeader(have)
                 PROVE  All(Parts)'
                        /\ (have # <<>> \/ Unread' <= 1 => OfHeader(<<>>)')
        OBVIOUS
    <2>1. All(Parts)'
        BY <1>2, SideLine DEF OfHeader, Parts, All
    <2>2. have # <<>> => Unread' <= 1
        BY <1>2, OneOfHeader
    <2> QED BY <1>2, <1>3, <2>1, <2>2, FewBytes
<1>11. Unread = 0 => All(Parts)' /\ OfHeader(<<>>)'
    <2>1. ASSUME Unread = 0 PROVE All(Parts)'
        <3>1. rx = <<>> /\ wire = <<>> /\ Len(rx) = 0 /\ Len(wire) = 0
            BY <2>1, LineLengths
        <3>2. All(Parts)
            BY <3>1 DEF All
        <3> QED BY <1>2, <3>2, SideLine DEF Parts, All
    <2> QED BY <1>2, <1>3, <2>1, FewBytes
<1>20. /\ board' = "header" => OfHeader(buf)'
       /\ board' = "prompt" => OfHeader(<<>>)'
       /\ board' \notin {"header", "prompt"} => Unread' = 0
       /\ board' = "summary" => announced' = job
       /\ board' = "payload" => announced' = job /\ buf' = <<>>
    <2>1. CASE Arrive \/ Loses \/ MarkerLost
        <3>1. UNCHANGED <<board, buf, announced>>
            BY <2>1 DEF Arrive, Loses, Noise, MarkerLost, receiver
        <3>2. board = "header" => OfHeader(buf)'
            <4>1. PICK have : have = buf
                OBVIOUS
            <4>2. board = "header" => OfHeader(have) /\ have \in Seq(Byte)
                BY <1>1, <1>5, <4>1
            <4>3. board = "header" => OfHeader(have)'
                BY <1>9, <2>1, <4>2
            <4> QED BY <3>1, <4>1, <4>3 DEF OfHeader, Within
        <3>3. board = "prompt" => OfHeader(<<>>)'
            BY <1>1, <1>5, <1>9, <2>1
        <3> QED BY <1>1, <1>3, <3>1, <3>2, <3>3
    <2>2. CASE Command
        <3>1. board = "prompt" /\ OfHeader(<<>>)
            BY <1>1, <2>2, SideFrom
        <3>2. Unread' = Unread - 1 /\ Unread <= 2 /\ Unread' <= 1
            <4>1. Len(<<>>) + Unread <= 2 /\ Len(<<>>) = 0
                BY <3>1 DEF OfHeader
            <4> QED BY <1>3, <1>4, <2>2, <4>1
        <3>3. OfHeader(<<>>)'
            BY <1>5, <1>10, <3>1, <3>2
        <3>4. board' # "header" /\ board' # "summary" /\ board' # "payload"
              /\ (board' = "prompt" \/ Head(rx) \in {"l", "w"})
            BY <2>2, <3>1, SideBoard, SideFrom
        <3>5. ASSUME Unread = 2 PROVE Head(rx) \notin {"l", "w"}
            <4>1. \A i \in 1 .. Len(rx) : rx[i] = Header(job)[Len(<<>>) + i]
                BY <3>1, <3>5 DEF OfHeader
            <4>2. 1 \in 1 .. Len(rx) /\ Head(rx) = rx[1] /\ Len(<<>>) + 1 = 1
                BY <1>4, <1>5, <2>2, FirstByte
            <4>3. Head(rx) = Magic(job.kind)
                BY <4>1, <4>2 DEF Header
            <4> QED BY <4>3 DEF Magic
        <3>6. board' # "prompt" => Unread' = 0
            BY <1>3, <1>4, <2>2, <3>2, <3>4, <3>5
        <3> QED BY <3>3, <3>4, <3>6
    <2>3. CASE drain_uart_rx
        <3>1. board = "drain" /\ board' = "ready"
            BY <2>3 DEF drain_uart_rx, Goes
        <3> QED BY <1>1, <1>3, <3>1
    <2>4. CASE SayReady
        <3>1. board = "ready" /\ board' = "header" /\ buf' = <<>>
            BY <2>4 DEF SayReady, Goes
        <3>2. OfHeader(<<>>)'
            BY <1>1, <1>11, <3>1
        <3> QED BY <3>1, <3>2 DEF OfHeader, Within
    <2>5. CASE ReadHeader
        <3>1. board = "header" /\ OfHeader(buf) /\ buf' = Got
            BY <1>1, <2>5 DEF ReadHeader
        <3>2. PICK have : have = Got
            OBVIOUS
        <3>3. OfHeader(have)' /\ Len(have) = Len(buf) + 1 /\ Len(have) \in Nat
            BY <1>2, <1>4, <2>5, <3>1, <3>2, HeaderRead
        <3>4. board' = "header" => OfHeader(buf)'
            BY <3>1, <3>2, <3>3 DEF OfHeader, Within
        <3>8. ASSUME Len(have) = 2
              PROVE  /\ Unread' = 0
                     /\ \A i \in 1 .. Len(have) : have[i] = Header(job')[i]
            <4>1. Len(have) + Unread' <= 2
                BY <3>3 DEF OfHeader
            <4>0. \A u \in Nat : 2 + u <= 2 => u = 0
                OBVIOUS
            <4>2. Unread' = 0
                <5>1. 2 + Unread' <= 2
                    BY <3>8, <4>1
                <5> QED BY <1>3, <4>0, <5>1
            <4>3. Len(have) + Unread' = 2
                BY <3>8, <4>2
            <4>4. \A i \in 1 .. Len(have) : have[i] = Header(job)'[i]
                BY <3>3, <4>3 DEF OfHeader
            <4> QED BY <4>2, <4>4 DEF Header
        <3>5. ASSUME board' = "summary" PROVE announced' = job /\ Unread' = 0
            <4>1. PICK j \in Jobs : Got = Header(j) /\ announced' = j
                BY <2>5, <3>5 DEF ReadHeader, Goes
            <4>2. j = job' /\ Unread' = 0
                <5>1. Len(have) = 2 /\ have[1] = Magic(j.kind) /\ have[2] = j.crc
                    BY <3>2, <4>1 DEF Header
                <5>2. 1 \in 1 .. Len(have) /\ 2 \in 1 .. Len(have)
                    BY <5>1
                <5>3. Unread' = 0
                    BY <3>8, <5>1
                <5>4. \A i \in 1 .. Len(have) : have[i] = Header(job')[i]
                    BY <3>8, <5>1
                <5>5. have[1] = Magic(job'.kind) /\ have[2] = job'.crc
                    BY <5>2, <5>4 DEF Header
                <5> QED BY <1>2, <5>1, <5>3, <5>5, SameJob
            <4> QED BY <1>2, <4>1, <4>2
        <3>6. board' = "prompt" => OfHeader(<<>>)'
            <4>1. ASSUME board' = "prompt" PROVE Unread' <= 1
                <5>1. Len(have) = 2
                    BY <2>5, <3>2, <4>1 DEF ReadHeader, Goes
                <5> QED BY <1>3, <3>3, <5>1 DEF OfHeader
            <4> QED BY <1>5, <1>10, <3>1, <4>1
        <3>7. board' \in {"header", "summary", "prompt"}
            BY <2>5 DEF ReadHeader, Goes
        <3> QED BY <3>4, <3>5, <3>6, <3>7
    <2>6. CASE SayData
        <3>1. /\ board = "summary" /\ board' = "payload" /\ buf' = <<>>
              /\ announced' = announced
            BY <2>6 DEF SayData, Goes
        <3> QED BY <1>1, <1>3, <3>1
    <2>7. CASE ByteTimesOut \/ Stall
        <3>1. board \in {"header", "payload"} /\ board' = "prompt"
            BY <2>7 DEF ByteTimesOut, Stall, WaitsForByte, Goes
        <3>2. OfHeader(<<>>)'
            <4>1. CASE board = "payload"
                BY <1>1, <1>11, <4>1
            <4>2. CASE board = "header" /\ buf # <<>>
                BY <1>1, <1>5, <1>10, <4>2
            <4>3. CASE board = "header" /\ buf = <<>>
                <5>1. OfHeader(<<>>)
                    BY <1>1, <4>3
                <5> QED BY <1>5, <1>9, <2>7, <5>1
            <4> QED BY <3>1, <4>1, <4>2, <4>3
        <3> QED BY <3>1, <3>2
    <2>8. CASE BoardReset
        <3>1. board' = "prompt" /\ rx' = <<>> /\ wire' = wire
            BY <2>8 DEF BoardReset
        <3>2. ASSUME NEW have \in Seq(Byte), OfHeader(have) PROVE OfHeader(<<>>)'
            <4>1. CASE Unread' <= 1
                BY <1>10, <3>2, <4>1
            <4>2. CASE Unread' > 1
                <5>1. Len(have) + Unread <= 2 /\ Len(have) \in Nat
                      /\ Unread = Len(rx) + Len(wire) /\ Len(rx) \in Nat
                      /\ Len(wire) \in Nat
                    BY <3>2, LineLengths, LenProperties DEF OfHeader
                <5>2. Unread' = Len(wire)
                    BY <3>1, RxEmptied
                <5>3. Len(rx) = 0 /\ Len(have) = 0
                    BY <4>2, <5>1, <5>2
                <5>4. rx = <<>> /\ have = <<>>
                    BY <1>5, <3>2, <5>3, EmptySeq
                <5>5. rx' = rx /\ OfHeader(<<>>)
                    BY <3>1, <3>2, <5>4
                <5> QED BY <1>2, <1>5, <3>1, <5>5, HeaderMoves
            <4> QED BY <1>3, <4>1, <4>2
        <3>3. OfHeader(<<>>)'
            BY <1>1, <1>5, <1>11, <3>2
        <3> QED BY <3>1, <3>3
    <2> QED BY <1>8, <2>1, <2>2, <2>3, <2>4, <2>5, <2>6, <2>7, <2>8 DEF Side
<1> QED BY <1>2, <1>6, <1>7, <1>8, <1>20 DEF DataInv

-----------------------------------------------------------------------------
\* What the script writes when nothing else is on its way.
LEMMA WritesAlone ==
    ASSUME UploadTypeOK, Unread = 0, NEW s \in Seq(Byte), Writes(s), rx' = rx
    PROVE  /\ rx' = <<>> /\ wire' = s /\ Unread' = Len(s)
           /\ \A P : Within(s, P) => All(P)'
<1>1. rx = <<>> /\ wire = <<>>
    BY LineLengths
<1>2. <<>> \o s = s
    OBVIOUS
<1>3. rx' = <<>> /\ wire' = s
    BY <1>1, <1>2 DEF Writes
<1>4. Len(rx') = 0 /\ Len(s) \in Nat
    BY <1>3, LenProperties
<1> QED BY <1>3, <1>4 DEF Unread, All, Within

LEMMA OwnStart ==
    ASSUME UploadTypeOK, Start PROVE Alone'
<1>1. /\ rx' = <<>> /\ answers' = <<>> /\ board' \in {"prompt", "header", "payload"}
      /\ Begins(<<>>)
    BY DEF Start, receiver
<1>2. /\ profile' = FALSE /\ job' \in Jobs
      /\ \/ stage' = "READY" /\ wire' = Append(<<>>, CommandOf(job'.kind))
         \/ stage' = "version" /\ wire' = Append(<<>>, "v")
    BY <1>1 DEF Begins
<1>3. Len(rx') = 0 /\ Len(answers') = 0
    BY <1>1
<1>4. \A text : ~Said(text)'
    BY <1>3 DEF Said
<1>5. ReadyIsLast'
    BY <1>3 DEF ReadyIsLast
<1>6. CASE stage' = "READY" /\ wire' = Append(<<>>, CommandOf(job'.kind))
    <2>1. CommandOf(job'.kind) \in {"l", "w"}
        BY DEF CommandOf
    <2>2. wire' = <<CommandOf(job'.kind)>>
        BY <1>6
    <2>3. Len(wire') = 1 /\ wire'[1] \in {"l", "w"}
        BY <2>1, <2>2
    <2>4. Unread' <= 1 /\ All({"l", "w"})'
        BY <1>3, <2>3 DEF Unread, All
    <2>5. ReadyInv'
        BY <1>1, <1>4, <1>5, <2>4 DEF ReadyInv
    <2> QED BY <1>6, <2>5 DEF Alone
<1>7. CASE stage' = "version" /\ wire' = Append(<<>>, "v")
    <2>1. wire' = <<"v">>
        BY <1>7
    <2>2. Len(wire') = 1 /\ wire'[1] = "v"
        BY <2>1
    <2>3. Unread' <= 1 /\ All({"v"})'
        BY <1>3, <2>2 DEF Unread, All
    <2>4. VersionInv'
        BY <1>1, <1>2, <1>4, <2>3 DEF VersionInv
    <2> QED BY <1>7, <2>4 DEF Alone
<1> QED BY <1>2, <1>6, <1>7

LEMMA OwnHear ==
    ASSUME UploadTypeOK, Alone, Hear,
           Plain(job)
    PROVE  Alone'
<1>1. /\ answers # <<>> /\ answers' = Tail(answers)
      /\ UNCHANGED <<job, rx, board, kind, buf, announced, stored>>
      /\ stage # "off"
    BY DEF Hear, receiver, HearVersion, HearReady, HearData, HearResult
<1>2. /\ \A text : Said(text)' => Said(text)
      /\ Said(Next1.text)
      /\ ReadyIsLast => ReadyIsLast'
      /\ ReadyIsLast /\ Next1.text = "READY" => ~Said("DATA")' /\ ~Said("OK")'
    BY <1>1, OldestGone DEF Next1
<1>3. \A text : Finds(text) => Said(text) /\ Next1.text = text
    BY <1>2 DEF Finds, Marker
<1>4. job \in Jobs /\ job' = job
    BY <1>1 DEF UploadTypeOK
<1>5. Unread \in Nat
    BY LineLengths
<1>6. wire' = wire => Unread' = Unread /\ \A P : All(P) => All(P)'
    BY <1>1 DEF Unread, All
<1>7. CASE HearVersion
    <2>1. VersionInv /\ stage = "version"
        BY <1>7 DEF Alone, HearVersion
    <2>2. CASE Next1 = Prompt /\ profile
        <3>1. stage' = "READY" /\ Writes(<<CommandOf("wad")>>)
            BY <1>7, <2>2 DEF HearVersion
        <3>2. Unread = 0 /\ board = "prompt" /\ ~Said("READY")
            BY <2>1, <2>2 DEF VersionInv
        <3>3. CommandOf("wad") = "w" /\ "wad" \in Kind
            BY DEF CommandOf, Kind
        <3>4. <<CommandOf("wad")>> \in Seq(Byte)
            BY <3>3, UploadAssumption
        <3>5. Len(<<"w">>) = 1 /\ Within(<<"w">>, {"l", "w"})
            BY DEF Within
        <3>6. Unread' = 1 /\ All({"l", "w"})'
            BY <1>1, <3>1, <3>2, <3>3, <3>4, <3>5, WritesAlone
        <3>7. ~Said("READY")'
            BY <1>2, <3>2
        <3>8. ReadyIsLast'
            BY <3>7 DEF ReadyIsLast, Said
        <3>9. ReadyInv'
            BY <1>1, <3>2, <3>6, <3>7, <3>8 DEF ReadyInv
        <3> QED BY <3>1, <3>9 DEF Alone
    <2>3. CASE Next1 = Prompt /\ ~profile
        BY <1>7, <2>3 DEF HearVersion, Fails, Alone
    <2>4. CASE Next1 # Prompt
        <3>1. /\ stage' = "version" /\ wire' = wire
              /\ profile' = (profile \/ Next1 = Profile)
            BY <1>7, <2>1, <2>4 DEF HearVersion, Waits
        <3>2. Next1 = Profile => Said("profile")
            BY <1>2 DEF Profile, Marker
        <3>3. profile' \/ Said("profile")' => profile \/ Said("profile")
            BY <1>2, <3>1, <3>2
        <3>4. VersionInv'
            BY <1>1, <1>2, <1>6, <2>1, <3>1, <3>3 DEF VersionInv
        <3> QED BY <3>1, <3>4 DEF Alone
    <2> QED BY <2>2, <2>3, <2>4
<1>8. CASE HearReady
    <2>1. ReadyInv /\ stage = "READY"
        BY <1>8 DEF Alone, HearReady
    <2>2. CASE Finds("READY")
        <3>1. stage' = "DATA" /\ Writes(Header(job))
            BY <1>8, <2>2 DEF HearReady
        <3>2. /\ Unread = 0
              /\ board = "prompt" \/ (board = "header" /\ buf = <<>>)
              /\ ~Said("DATA")' /\ ~Said("OK")'
            BY <1>2, <1>3, <2>1, <2>2 DEF ReadyInv
        <3>3. Header(job) \in Seq(Byte) /\ Len(Header(job)) = 2
            BY <1>4, UploadWords
        <3>4. Within(Header(job), Parts)
            BY DEF Within, Header, Parts
        <3>5. /\ rx' = <<>> /\ wire' = Header(job) /\ Unread' = 2
              /\ All(Parts)'
            <4>1. PICK P : P = Parts
                OBVIOUS
            <4>2. /\ rx' = <<>> /\ wire' = Header(job) /\ Unread' = 2
                  /\ All(P)'
                BY <1>1, <3>1, <3>2, <3>3, <3>4, <4>1, WritesAlone
            <4>3. Parts' = P
                BY <1>4, <4>1 DEF Parts
            <4> QED BY <4>2, <4>3 DEF All
        <3>6. OfHeader(<<>>)'
            <4>1. Len(<<>>) = 0 /\ Len(rx') = 0 /\ Len(wire') = 2
                BY <3>3, <3>5
            <4>2. Within(<<>>, Parts)'
                BY <4>1 DEF Within
            <4>3. \A i \in 1 .. Len(wire') :
                      wire'[i] = Header(job)'[Len(<<>>) + Len(rx') + i]
                BY <1>4, <3>5, <4>1 DEF Header
            <4>4. Len(<<>>) + Unread' <= 2
                BY <3>5, <4>1
            <4> QED BY <3>5, <4>1, <4>2, <4>3, <4>4 DEF OfHeader
        <3>7. board' = "header" => OfHeader(buf)'
            BY <1>1, <3>2, <3>6 DEF OfHeader, Within
        <3>8. DataInv'
            BY <1>1, <3>2, <3>6, <3>7 DEF DataInv
        <3> QED BY <3>1, <3>8 DEF Alone
    <2>3. CASE ~Finds("READY")
        <3>1. stage' = "READY" /\ wire' = wire
            BY <1>8, <2>1, <2>3 DEF HearReady, Waits
        <3>2. ReadyInv'
            BY <1>1, <1>2, <1>6, <2>1, <3>1 DEF ReadyInv
        <3> QED BY <3>1, <3>2 DEF Alone
    <2> QED BY <2>2, <2>3
<1>9. CASE HearData
    <2>1. DataInv /\ stage = "DATA"
        BY <1>9 DEF Alone, HearData
    <2>2. CASE Finds("DATA")
        <3>1. stage' = "OK" /\ Writes(Payload(job))
            BY <1>3, <1>9, <2>2 DEF HearData
        <3>2. /\ Unread = 0 /\ board \in {"payload", "prompt"}
              /\ board = "payload" => announced = job
              /\ ~Said("OK")
            BY <1>3, <2>1, <2>2 DEF DataInv
        <3>3. Payload(job) \in Seq(Byte)
            BY <1>4, UploadAssumption
        <3>4. Within(Payload(job), Byte \ Magics)
            <4>1. \A i \in 1 .. Len(Payload(job)) : Payload(job)[i] \in Byte
                BY <3>3, LenProperties
            <4>2. \A i \in 1 .. Len(Payload(job)) : Payload(job)[i] \notin Magics
                BY DEF Plain, Magics
            <4> QED BY <4>1, <4>2 DEF Within
        <3>5. All(Byte \ Magics)'
            BY <1>1, <3>1, <3>2, <3>3, <3>4, WritesAlone
        <3>6. board' = "payload" => Len(buf') + Unread' <= Len(Payload(job'))
            <4>1. Unread' = Len(Payload(job)) /\ Len(Payload(job)) \in Nat
                BY <1>1, <3>1, <3>2, <3>3, WritesAlone, LenProperties
            <4>2. board' = "payload" => buf' = <<>>
                BY <1>1, <2>1 DEF DataInv
            <4>3. Len(<<>>) = 0
                OBVIOUS
            <4> QED BY <1>4, <4>1, <4>2, <4>3
        <3>7. ResultInv'
            BY <1>1, <1>2, <3>2, <3>5, <3>6 DEF ResultInv
        <3> QED BY <3>1, <3>7 DEF Alone
    <2>3. CASE ~Finds("DATA") /\ Finds("ERROR")
        BY <1>9, <2>3 DEF HearData, Fails, Alone
    <2>4. CASE ~Finds("DATA") /\ ~Finds("ERROR")
        <3>1. stage' = "DATA" /\ wire' = wire
            BY <1>9, <2>1, <2>4 DEF HearData, Waits
        <3>2. ASSUME NEW have \in Seq(Byte), OfHeader(have) PROVE OfHeader(have)'
            BY <1>1, <1>4, <3>1, <3>2, HeaderMoves
        <3>3. board' = "header" => OfHeader(buf)'
            <4>1. PICK have : have = buf
                OBVIOUS
            <4>2. board = "header" => OfHeader(have) /\ have \in Seq(Byte)
                BY <2>1, <4>1, LineLengths DEF DataInv
            <4>3. board = "header" => OfHeader(have)'
                BY <3>2, <4>2
            <4> QED BY <1>1, <4>1, <4>3 DEF OfHeader, Within
        <3>4. board' = "prompt" => OfHeader(<<>>)'
            <4>1. <<>> \in Seq(Byte)
                OBVIOUS
            <4> QED BY <1>1, <2>1, <3>2, <4>1 DEF DataInv
        <3>5. DataInv'
            BY <1>1, <1>2, <1>6, <2>1, <3>1, <3>3, <3>4 DEF DataInv
        <3> QED BY <3>1, <3>5 DEF Alone
    <2> QED BY <2>2, <2>3, <2>4
<1>10. CASE HearResult
    <2>1. ResultInv /\ stage = "OK"
        BY <1>10 DEF Alone, HearResult
    <2>2. CASE Finds("OK") \/ Finds("ERROR")
        BY <1>10, <2>2 DEF HearResult, Fails, Alone
    <2>3. CASE ~Finds("OK") /\ ~Finds("ERROR")
        <3>1. stage' = "OK" /\ wire' = wire
            BY <1>10, <2>1, <2>3 DEF HearResult, Waits
        <3>2. ResultInv'
            BY <1>1, <1>2, <1>6, <2>1, <3>1 DEF ResultInv, Within
        <3> QED BY <3>1, <3>2 DEF Alone
    <2> QED BY <2>2, <2>3
<1> QED BY <1>7, <1>8, <1>9, <1>10 DEF Hear

LEMMA DamagedHear ==
    ASSUME UploadTypeOK, Hear, stage = "OK", stage' = "OK", Damaged
    PROVE  Damaged'
<1>1. /\ answers # <<>> /\ answers' = Tail(answers)
      /\ UNCHANGED <<job, rx, board, kind, buf, announced, stored>>
    BY DEF Hear, receiver
<1>2. wire' = wire
    BY DEF Hear, HearVersion, HearReady, HearData, HearResult, Waits, Fails
<1>3. Unread' = Unread /\ (Said("OK")' => Said("OK"))
    BY <1>1, <1>2, OldestGone DEF Unread
<1> QED BY <1>1, <1>3 DEF Damaged

LEMMA OwnStep ==
    ASSUME UploadTypeOK, OwnInv, [UploadNext]_uploadVars PROVE OwnInv'
<1>1. CASE Side
    <2>1. stage' = stage /\ job' = job
        BY <1>1, SideScript
    <2>2. /\ own' = "yes" => own = "yes"
          /\ own' = "damaged" => own = "damaged" /\ ~Stall /\ ~BoardReset
        BY <1>1 DEF Side, Arrive, Command, drain_uart_rx, SayReady, ReadHeader,
            SayData, ReadPayload, Check, ByteTimesOut, Stall, Loses,
            MarkerLost, BoardReset, Interrupts, Goes, script
    <2> SUFFICES ASSUME Plain(job)
                 PROVE  /\ own' = "yes" => Alone'
                        /\ own' = "damaged" /\ stage = "OK" => Damaged'
        BY <2>1, <2>2 DEF OwnInv, Plain
    <2>3. ASSUME own' = "yes" PROVE Alone'
        <3>0. Alone
            BY <2>2, <2>3 DEF OwnInv
        <3>1. stage = "version" => VersionInv'
            BY <1>1, <3>0, VersionSide DEF Alone
        <3>2. stage = "READY" => ReadyInv'
            BY <1>1, <3>0, ReadySide DEF Alone
        <3>3. stage = "DATA" => DataInv'
            BY <1>1, <3>0, DataSide DEF Alone
        <3>4. stage = "OK" => ResultInv'
            BY <1>1, <3>0, ResultSide DEF Alone
        <3> QED BY <2>1, <3>1, <3>2, <3>3, <3>4 DEF Alone
    <2>4. ASSUME own' = "damaged", stage = "OK" PROVE Damaged'
        BY <1>1, <2>2, <2>4, DamagedSide DEF OwnInv
    <2> QED BY <2>3, <2>4
<1>2. CASE Start
    <2>1. own' = "yes"
        BY <1>2 DEF Start
    <2> QED BY <1>2, <2>1, OwnStart DEF OwnInv
<1>3. CASE Hear
    <2>1. own' = own /\ job' = job
        BY <1>3 DEF Hear
    <2>4. own = "damaged" => stage = "OK" /\ stage' \in {"OK", "off"}
        <3>1. stage # "off"
            BY <1>3 DEF Hear, HearVersion, HearReady, HearData, HearResult
        <3>2. stage = "OK" => stage' \in {"OK", "off"}
            BY <1>3 DEF Hear, HearVersion, HearReady, HearData, HearResult,
                Waits, Fails
        <3> QED BY <3>1, <3>2 DEF OwnInv
    <2> SUFFICES ASSUME Plain(job)
                 PROVE  /\ own = "yes" => Alone'
                        /\ own = "damaged" /\ stage' = "OK" => Damaged'
        BY <2>1, <2>4 DEF OwnInv, Plain
    <2>2. own = "yes" => Alone'
        BY <1>3, OwnHear DEF OwnInv
    <2>3. ASSUME own = "damaged", stage' = "OK" PROVE Damaged'
        BY <1>3, <2>3, <2>4, DamagedHear DEF OwnInv
    <2> QED BY <2>2, <2>3
<1>4. CASE GiveUp \/ Kill
    <2>1. stage' = "off"
        BY <1>4 DEF GiveUp, Kill, Fails
    <2> QED BY <2>1 DEF OwnInv, Alone
<1>5. CASE HastyStart
    BY <1>5 DEF HastyStart, OwnInv
<1>6. CASE UNCHANGED uploadVars
    BY <1>6 DEF uploadVars, script, receiver, OwnInv, Alone, Damaged, Plain,
        VersionInv, ReadyInv, DataInv, ResultInv, OfHeader, Parts, Unread, All,
        Within, Said, ReadyIsLast, Header
<1>7. CASE Damages
    BY <1>7, DamageStep
<1>8. Noise => Loses \/ Damages
    BY DEF Noise, Loses, Damages
<1> QED BY <1>1, <1>2, <1>3, <1>4, <1>5, <1>6, <1>7, <1>8 DEF UploadNext, Side

\* Stalls, kills, lost bytes, lost markers and resets of the board, as many as
\* there may be, never make the script take another payload for its own, and a
\* payload that is damaged while the board reads it is not taken: it says
\* accepted only when the board has stored this very payload.  The conditions
\* are what the code relies on without a check: a run starts on a quiet line, no
\* byte comes as another one but in a payload that is then read to its end, and
\* no payload holds the magic of a header.
THEOREM AcceptedIsStoredCorrect == UploadSpec => AcceptedIsStored
<1>1. UploadInit => OwnInv
    BY DEF UploadInit, OwnInv, Alone
<1>2. ASSUME UploadIInv, OwnInv, [UploadNext]_uploadVars PROVE OwnInv'
    BY <1>2, OwnStep DEF UploadIInv
<1>3. ASSUME OwnInv, [UploadNext]_uploadVars, outcome' = "accepted",
             outcome # "accepted", own # "no", Plain(job), UploadIInv
      PROVE  stored = job
    <2>1. HearResult /\ Finds("OK") /\ answers # <<>>
        BY <1>3
        DEF UploadNext, uploadVars, script, receiver, Start, Begins, Hear,
            HearVersion, HearReady, HearData, HearResult, Waits, Fails,
            GiveUp, Arrive, Command, drain_uart_rx, SayReady, ReadHeader,
            SayData, ReadPayload, Check, ByteTimesOut, Goes, HastyStart,
            Stall, Kill, Noise, MarkerLost, BoardReset
    <2>2. own \in {"yes", "damaged"} /\ stage = "OK"
        BY <1>3, <2>1 DEF UploadIInv, UploadTypeOK, HearResult
    <2>3. Said("OK") => stored = job
        BY <1>3, <2>2 DEF OwnInv, Alone, ResultInv, Damaged
    <2>4. Said("OK")
        <3>1. answers \in Seq(Answer)
            BY <1>3 DEF UploadIInv, UploadTypeOK
        <3>2. 1 \in 1 .. Len(answers) /\ Head(answers) = answers[1]
            BY <2>1, <3>1, FirstByte
        <3> QED BY <2>1, <3>2 DEF Said, Finds, Next1, Marker
    <2> QED BY <2>3, <2>4
<1>4. UploadSpec => []OwnInv
    BY <1>1, <1>2, UploadInvariant, PTL DEF UploadSpec
<1> QED BY <1>3, <1>4, UploadInvariant, PTL DEF UploadSpec, AcceptedIsStored

-----------------------------------------------------------------------------
(* What is left to do until the script and the board are at rest.  A step  *)
(* that writes or says something has less left to do than it costs to      *)
(* deal with that.                                                         *)

BoardWork ==
    CASE board = "prompt"                       -> 0
      [] board \in {"header", "payload", "check"} -> 3
      [] board \in {"ready", "summary"}         -> 5
      [] board = "drain"                        -> 6

ScriptWork ==
    CASE stage = "off"     -> 0
      [] stage = "OK"      -> 1
      [] stage = "DATA"    -> 1 + 13 * Len(Payload(job))
      [] stage = "READY"   -> 27 + 13 * Len(Payload(job))
      [] stage = "version" -> 40 + 13 * Len(Payload(job))

Work ==
    BoardWork + ScriptWork + 13 * Len(wire) + 12 * Len(rx) + Len(answers)
        + 3 * (MaxFaults - faults)

LEMMA WorkType ==
    ASSUME UploadTypeOK
    PROVE  /\ BoardWork \in Nat /\ ScriptWork \in Nat /\ Len(wire) \in Nat
           /\ Len(rx) \in Nat /\ Len(answers) \in Nat
           /\ MaxFaults - faults \in Nat /\ Work \in Nat
<1>1. Len(wire) \in Nat /\ Len(rx) \in Nat /\ Len(answers) \in Nat
    BY LenProperties DEF UploadTypeOK
<1>2. MaxFaults - faults \in Nat
    BY UploadAssumption DEF UploadTypeOK
<1>3. BoardWork \in Nat
    BY DEF UploadTypeOK, BoardWork
<1>4. ScriptWork \in Nat
    <2>1. stage # "off" => Len(Payload(job)) \in Nat
        BY UploadWords DEF UploadTypeOK
    <2> QED BY <2>1 DEF UploadTypeOK, ScriptWork
<1>5. Work \in Nat
    BY <1>1, <1>2, <1>3, <1>4 DEF Work
<1> QED BY <1>1, <1>2, <1>3, <1>4, <1>5

\* The script hears a marker: what it goes on to write it has paid for.
LEMMA HearWork ==
    ASSUME UploadTypeOK, Hear PROVE Work' < Work
<1>1. /\ answers # <<>> /\ answers' = Tail(answers) /\ job' = job
      /\ UNCHANGED <<rx, board, faults>> /\ stage # "off" /\ job \in Jobs
    BY DEF Hear, receiver, HearVersion, HearReady, HearData, HearResult,
           UploadTypeOK
<1>2. Len(answers') = Len(answers) - 1 /\ Len(answers) \in Nat
    <2>1. answers \in Seq(Answer)
        BY DEF UploadTypeOK
    <2> QED BY <1>1, <2>1, FirstByte
<1>3. PICK n \in Nat : n = Len(Payload(job))
    BY <1>1, UploadWords
<1>4. /\ wire \in Seq(Byte) /\ Len(wire) \in Nat
      /\ \A s \in Seq(Byte) : Len(wire \o s) = Len(wire) + Len(s)
    BY ConcatProperties, LenProperties DEF UploadTypeOK
<1>5. /\ ScriptWork' \in Nat /\ Len(wire') \in Nat
      /\ ScriptWork' + 13 * Len(wire') <= ScriptWork + 13 * Len(wire)
    <2>1. /\ stage = "OK" => ScriptWork = 1
          /\ stage = "DATA" => ScriptWork = 1 + 13 * n
          /\ stage = "READY" => ScriptWork = 27 + 13 * n
          /\ stage = "version" => ScriptWork = 40 + 13 * n
        BY <1>3 DEF ScriptWork
    <2>2. /\ stage' = "off" => ScriptWork' = 0
          /\ stage' = "OK" => ScriptWork' = 1
          /\ stage' = "DATA" => ScriptWork' = 1 + 13 * n
          /\ stage' = "READY" => ScriptWork' = 27 + 13 * n
          /\ stage' = "version" => ScriptWork' = 40 + 13 * n
        BY <1>1, <1>3 DEF ScriptWork
    <2>3. CASE stage' = stage /\ wire' = wire
        BY <1>1, <1>3, <2>1, <2>2, <2>3 DEF UploadTypeOK
    <2>4. CASE stage' = "off" /\ wire' = wire
        BY <1>1, <1>3, <2>1, <2>2, <2>4 DEF UploadTypeOK
    <2>5. CASE stage = "version" /\ stage' = "READY" /\ Writes(<<CommandOf("wad")>>)
        <3>1. <<CommandOf("wad")>> \in Seq(Byte) /\ Len(<<CommandOf("wad")>>) = 1
            BY UploadWords DEF Kind
        <3>2. Len(wire') = Len(wire) + 1
            BY <1>4, <2>5, <3>1 DEF Writes
        <3> QED BY <1>3, <1>4, <2>1, <2>2, <2>5, <3>2
    <2>6. CASE stage = "READY" /\ stage' = "DATA" /\ Writes(Header(job))
        <3>1. Header(job) \in Seq(Byte) /\ Len(Header(job)) = 2
            BY <1>1, UploadWords
        <3>2. Len(wire') = Len(wire) + 2
            BY <1>4, <2>6, <3>1 DEF Writes
        <3> QED BY <1>3, <1>4, <2>1, <2>2, <2>6, <3>2
    <2>7. CASE stage = "DATA" /\ stage' = "OK" /\ Writes(Payload(job))
        <3>1. Payload(job) \in Seq(Byte)
            BY <1>1, UploadAssumption
        <3>2. Len(wire') = Len(wire) + n
            BY <1>3, <1>4, <2>7, <3>1 DEF Writes
        <3> QED BY <1>3, <1>4, <2>1, <2>2, <2>7, <3>2
    <2>8. CASE HearVersion
        BY <2>3, <2>4, <2>5, <2>8 DEF HearVersion, Waits, Fails
    <2>9. CASE HearReady
        BY <2>3, <2>6, <2>9 DEF HearReady, Waits
    <2>10. CASE HearData
        <3>1. ~(Finds("DATA") /\ Finds("ERROR"))
            BY DEF Finds, Marker
        <3> QED BY <2>3, <2>4, <2>7, <2>10, <3>1 DEF HearData, Waits, Fails
    <2>11. CASE HearResult
        BY <2>3, <2>4, <2>11 DEF HearResult, Waits, Fails
    <2> QED BY <2>8, <2>9, <2>10, <2>11 DEF Hear
<1>6. BoardWork' = BoardWork
    BY <1>1 DEF BoardWork
<1>7. PICK f \in Nat : f = MaxFaults - faults
    BY WorkType
<1>8. /\ Work = BoardWork + ScriptWork + 13 * Len(wire) + 12 * Len(rx)
                    + Len(answers) + 3 * f
      /\ Work' = BoardWork + ScriptWork' + 13 * Len(wire') + 12 * Len(rx)
                    + (Len(answers) - 1) + 3 * f
    BY <1>1, <1>2, <1>6, <1>7 DEF Work
<1>9. /\ BoardWork \in Nat /\ ScriptWork \in Nat /\ Len(wire) \in Nat
      /\ Len(rx) \in Nat /\ Len(rx') = Len(rx)
    BY <1>1, WorkType
<1>10. \A b, s, w, r, a, s2, w2 \in Nat :
           s2 + 13 * w2 <= s + 13 * w /\ a >= 1 =>
               b + s2 + 13 * w2 + 12 * r + (a - 1) + 3 * f
                   < b + s + 13 * w + 12 * r + a + 3 * f
    BY <1>7
<1>11. Len(answers) >= 1
    <2>1. answers \in Seq(Answer)
        BY DEF UploadTypeOK
    <2> QED BY <1>1, <2>1, FirstByte
<1>12. BoardWork + ScriptWork' + 13 * Len(wire') + 12 * Len(rx)
               + (Len(answers) - 1) + 3 * f
           < BoardWork + ScriptWork + 13 * Len(wire) + 12 * Len(rx)
               + Len(answers) + 3 * f
    <2>1. ScriptWork' \in Nat /\ Len(wire') \in Nat
        BY <1>5
    <2> QED BY Zenon, <1>2, <1>5, <1>9, <1>10, <1>11, <2>1
<1> QED BY Zenon, <1>8, <1>12

\* A step of the board or of the line.
LEMMA BoardStepWork ==
    ASSUME UploadTypeOK,
           \/ Arrive \/ Command \/ drain_uart_rx \/ SayReady \/ ReadHeader
           \/ SayData \/ ReadPayload \/ Check \/ ByteTimesOut
    PROVE  Work' < Work
<1>1. /\ BoardWork \in Nat /\ ScriptWork \in Nat /\ Len(wire) \in Nat
      /\ Len(rx) \in Nat /\ Len(answers) \in Nat /\ MaxFaults - faults \in Nat
    BY WorkType
<1>2. UNCHANGED <<stage, job, faults>>
    BY DEF Arrive, Command, drain_uart_rx, SayReady, ReadHeader, SayData,
        ReadPayload, Check, ByteTimesOut, Goes, script
<1>3. ScriptWork' = ScriptWork
    BY <1>2 DEF ScriptWork
<1>4. /\ board = "prompt" => BoardWork = 0
      /\ board \in {"header", "payload", "check"} => BoardWork = 3
      /\ board \in {"ready", "summary"} => BoardWork = 5
      /\ board = "drain" => BoardWork = 6
    BY DEF BoardWork
<1>5. /\ board' = "prompt" => BoardWork' = 0
      /\ board' \in {"header", "payload", "check"} => BoardWork' = 3
      /\ board' \in {"ready", "summary"} => BoardWork' = 5
      /\ board' = "drain" => BoardWork' = 6
    BY DEF BoardWork
<1>0. PICK f \in Nat : f = MaxFaults - faults
    BY WorkType
<1>20. /\ Work = BoardWork + ScriptWork + 13 * Len(wire) + 12 * Len(rx)
                    + Len(answers) + 3 * f
       /\ Work' = BoardWork' + ScriptWork + 13 * Len(wire') + 12 * Len(rx')
                    + Len(answers') + 3 * f
    BY <1>0, <1>2, <1>3 DEF Work
<1>6. answers' = answers => Len(answers') = Len(answers)
    OBVIOUS
<1>7. \A m \in Answer : Says(<<m>>) => Len(answers') = Len(answers) + 1
    BY ConcatProperties DEF Says, UploadTypeOK
<1>8. \A m, n \in Answer : Says(<<m, n>>) => Len(answers') = Len(answers) + 2
    BY ConcatProperties DEF Says, UploadTypeOK
<1>9. /\ \A text \in {"READY", "DATA", "OK", "ERROR"} : Marker(kind, text) \in Answer
      /\ Prompt \in Answer /\ Profile \in Answer
    BY UploadWords DEF UploadTypeOK
<1>10. \A text \in {"OK", "ERROR"} : Reports(text) => Len(answers') = Len(answers) + 2
    BY <1>8, <1>9 DEF Reports
<1>11. CASE Arrive
    <2>1. /\ wire # <<>> /\ wire' = Tail(wire)
          /\ rx' = rx \/ rx' = Append(rx, Head(wire))
          /\ board' = board /\ answers' = answers
        BY <1>11 DEF Arrive, receiver
    <2>2. Len(wire') = Len(wire) - 1
        BY <2>1, FirstByte DEF UploadTypeOK
    <2>3. Len(rx') \in {Len(rx), Len(rx) + 1}
        BY <2>1, LastByte DEF UploadTypeOK
    <2>4. BoardWork' = BoardWork
        BY <2>1 DEF BoardWork
    <2> QED BY <1>1, <1>2, <1>3, <1>6, <2>1, <2>2, <2>3, <2>4 DEF Work
<1>12. CASE Command \/ ReadHeader \/ ReadPayload
    <2>1. rx # <<>> /\ rx' = Tail(rx) /\ wire' = wire
        BY <1>12, ReadsByte
    <2>2. Len(rx') = Len(rx) - 1 /\ Len(wire') = Len(wire)
        BY <2>1, FirstByte DEF UploadTypeOK
    <2>6. \A b, b2, s, w, r, a, a2 \in Nat :
             b2 + a2 <= b + a + 6 =>
                 b2 + s + 13 * w + 12 * (r - 1) + a2 + 3 * f
                     < b + s + 13 * w + 12 * r + a + 3 * f
        BY <1>0
    <2>3. CASE Command
        <3>1. \/ board' = "drain" /\ answers' = answers
              \/ board' = "prompt" /\ Says(<<Profile, Prompt>>)
              \/ board' = "prompt" /\ answers' = answers
            BY <2>3 DEF Command, Goes
        <3>2. board = "prompt"
            BY <2>3 DEF Command
        <3>3. BoardWork' + Len(answers') <= BoardWork + Len(answers) + 6
              /\ BoardWork' \in Nat /\ Len(answers') \in Nat
            BY <1>1, <1>4, <1>5, <1>6, <1>8, <1>9, <3>1, <3>2
        <3> QED BY Zenon, <1>1, <1>20, <2>2, <2>6, <3>3
    <2>4. CASE ReadHeader
        <3>1. \/ board' \in {"header", "summary"} /\ answers' = answers
              \/ board' = "prompt" /\ Reports("ERROR")
            BY <2>4 DEF ReadHeader, Goes
        <3>2. board = "header"
            BY <2>4 DEF ReadHeader
        <3>3. BoardWork' + Len(answers') <= BoardWork + Len(answers) + 6
              /\ BoardWork' \in Nat /\ Len(answers') \in Nat
            BY <1>1, <1>4, <1>5, <1>6, <1>10, <3>1, <3>2
        <3> QED BY Zenon, <1>1, <1>20, <2>2, <2>6, <3>3
    <2>5. CASE ReadPayload
        <3>1. board' \in {"payload", "check"} /\ answers' = answers
              /\ board = "payload"
            BY <2>5 DEF ReadPayload, Goes
        <3>2. BoardWork' = BoardWork /\ BoardWork \in Nat
            BY <1>4, <1>5, <3>1
        <3> QED BY <1>1, <1>2, <1>3, <1>6, <2>2, <3>1, <3>2 DEF Work
    <2> QED BY <1>12, <2>3, <2>4, <2>5
<1>13. CASE drain_uart_rx
    <2>1. board = "drain" /\ board' = "ready" /\ rx' = <<>>
          /\ wire' = wire /\ answers' = answers
        BY <1>13 DEF drain_uart_rx, Goes
    <2>2. Len(rx') = 0 /\ BoardWork = 6 /\ BoardWork' = 5
        BY <1>4, <1>5, <2>1
    <2> QED BY <1>1, <1>2, <1>3, <1>6, <2>1, <2>2 DEF Work
<1>14. CASE SayReady \/ SayData
    <2>1. /\ board \in {"ready", "summary"} /\ board' \in {"header", "payload"}
          /\ wire' = wire /\ rx' = rx
          /\ Says(<<Marker(kind, "READY")>>) \/ Says(<<Marker(kind, "DATA")>>)
        BY <1>14 DEF SayReady, SayData, Goes
    <2>2. Len(answers') = Len(answers) + 1 /\ BoardWork = 5 /\ BoardWork' = 3
        BY <1>4, <1>5, <1>7, <1>9, <2>1
    <2> QED BY <1>1, <1>2, <1>3, <2>1, <2>2 DEF Work
<1>15. CASE Check \/ ByteTimesOut
    <2>1. /\ board \in {"header", "payload", "check"} /\ board' = "prompt"
          /\ wire' = wire /\ rx' = rx
          /\ Reports("OK") \/ Reports("ERROR")
        BY <1>15 DEF Check, ByteTimesOut, WaitsForByte, Goes
    <2>2. Len(answers') = Len(answers) + 2 /\ BoardWork = 3 /\ BoardWork' = 0
        BY <1>4, <1>5, <1>10, <2>1
    <2> QED BY <1>1, <1>2, <1>3, <2>1, <2>2 DEF Work
<1> QED BY <1>11, <1>12, <1>13, <1>14, <1>15

\* A fault is one less to come, and costs less than that.
LEMMA FaultWork ==
    ASSUME UploadTypeOK, Stall \/ Kill \/ Noise \/ MarkerLost \/ BoardReset
    PROVE  Work' < Work
<1>1. /\ BoardWork \in Nat /\ ScriptWork \in Nat /\ Len(wire) \in Nat
      /\ Len(rx) \in Nat /\ Len(answers) \in Nat
    BY WorkType
<1>2. /\ wire \in Seq(Byte) /\ answers \in Seq(Answer)
    BY DEF UploadTypeOK
<1>3. PICK f \in Nat : f = MaxFaults - faults
    BY WorkType
<1>4. MaxFaults - faults' = f - 1 /\ f - 1 \in Nat
    BY <1>3, UploadAssumption
    DEF UploadTypeOK, Stall, Kill, Noise, MarkerLost, BoardReset, Fault
<1>5. /\ Work = BoardWork + ScriptWork + 13 * Len(wire) + 12 * Len(rx)
                    + Len(answers) + 3 * f
      /\ Work' = BoardWork' + ScriptWork' + 13 * Len(wire') + 12 * Len(rx')
                    + Len(answers') + 3 * (f - 1)
    BY <1>3, <1>4 DEF Work
<1>6. \A b, s, w, r, a, b2, s2, w2, r2, a2 \in Nat :
          b2 <= b /\ s2 <= s /\ w2 <= w /\ r2 <= r /\ a2 <= a + 2 =>
              b2 + s2 + 13 * w2 + 12 * r2 + a2 + 3 * (f - 1)
                  < b + s + 13 * w + 12 * r + a + 3 * f
    BY <1>3
<1>7. /\ UNCHANGED <<stage, job>> => ScriptWork' = ScriptWork
      /\ stage' = "off" => ScriptWork' = 0
      /\ board' = board => BoardWork' = BoardWork
      /\ board' = "prompt" => BoardWork' = 0
    BY DEF ScriptWork, BoardWork
<1>8. /\ UNCHANGED <<stage, job>> \/ stage' = "off"
      /\ board' = board \/ board' = "prompt"
      /\ rx' = rx \/ rx' = <<>>
    BY DEF Stall, Kill, Noise, MarkerLost, BoardReset, receiver
<1>9. Len(wire') \in Nat /\ Len(wire') <= Len(wire)
    <2>1. CASE wire' = wire
        BY <1>1, <2>1
    <2>2. CASE Kill
        <3>1. PICK n \in 0 .. Len(wire) : wire' = SubSeq(wire, 1, n)
            BY <2>2 DEF Kill, Prefixes
        <3>2. Len(wire') = n
            BY <1>1, <1>2, <3>1, SubSeqProperties
        <3> QED BY <1>1, <3>2
    <2>3. CASE Noise
        <3>1. wire # <<>>
            BY <2>3 DEF Noise
        <3>2. Tail(wire) \in Seq(Byte) /\ Len(Tail(wire)) = Len(wire) - 1
              /\ Len(wire) >= 1
            BY <1>2, <3>1, FirstByte
        <3>3. CASE wire' = Tail(wire)
            BY <1>1, <3>2, <3>3
        <3>4. ASSUME NEW b \in Byte, wire' = <<b>> \o Tail(wire)
              PROVE  Len(wire') = Len(wire)
            <4>1. <<b>> \in Seq(Byte) /\ Len(<<b>>) = 1
                OBVIOUS
            <4>2. Len(wire') = Len(<<b>>) + Len(Tail(wire))
                BY <3>2, <3>4, <4>1, ConcatProperties
            <4> QED BY <1>1, <3>2, <4>1, <4>2
        <3>5. wire' = Tail(wire) \/ \E b \in Byte : wire' = <<b>> \o Tail(wire)
            BY <2>3 DEF Noise
        <3>6. CASE \E b \in Byte : wire' = <<b>> \o Tail(wire)
            <4>1. Len(wire') = Len(wire)
                BY <3>4, <3>6
            <4> QED BY <1>1, <4>1
        <3> QED BY <3>3, <3>5, <3>6
    <2> QED BY <2>1, <2>2, <2>3 DEF Stall, MarkerLost, BoardReset
<1>10. Len(answers') \in Nat /\ Len(answers') <= Len(answers) + 2
    <2>1. \A m \in Answer : Says(<<m>>) => Len(answers') = Len(answers) + 1
        BY <1>2, ConcatProperties DEF Says
    <2>2. \A m, n \in Answer : Says(<<m, n>>) => Len(answers') = Len(answers) + 2
        BY <1>2, ConcatProperties DEF Says
    <2>3. Marker(kind, "ERROR") \in Answer /\ Prompt \in Answer
        BY UploadWords DEF UploadTypeOK
    <2>4. CASE Stall
        <3>1. Reports("ERROR")
            BY <2>4 DEF Stall
        <3> QED BY <1>1, <2>2, <2>3, <3>1 DEF Reports
    <2>5. CASE BoardReset
        <3>1. Says(<<Prompt>>)
            BY <2>5 DEF BoardReset
        <3> QED BY <1>1, <2>1, <2>3, <3>1
    <2>6. CASE MarkerLost
        <3>1. answers # <<>> /\ answers' = Tail(answers)
            BY <2>6 DEF MarkerLost
        <3> QED BY <1>1, <1>2, <3>1, FirstByte
    <2>7. CASE Kill \/ Noise
        <3>1. answers' = answers
            BY <2>7 DEF Kill, Noise
        <3> QED BY <1>1, <3>1
    <2> QED BY <2>4, <2>5, <2>6, <2>7
<1>11. Len(rx') \in Nat /\ Len(rx') <= Len(rx)
    <2>1. Len(<<>>) = 0
        OBVIOUS
    <2> QED BY <1>1, <1>8, <2>1
<1>12. /\ BoardWork' \in Nat /\ BoardWork' <= BoardWork
       /\ ScriptWork' \in Nat /\ ScriptWork' <= ScriptWork
    BY <1>1, <1>7, <1>8
<1>13. BoardWork' + ScriptWork' + 13 * Len(wire') + 12 * Len(rx')
               + Len(answers') + 3 * (f - 1)
           < BoardWork + ScriptWork + 13 * Len(wire) + 12 * Len(rx)
               + Len(answers) + 3 * f
    BY Zenon, <1>1, <1>6, <1>9, <1>10, <1>11, <1>12
<1> QED BY Zenon, <1>5, <1>13

LEMMA GiveUpWork ==
    ASSUME UploadTypeOK, GiveUp PROVE Work' < Work
<1>1. /\ stage # "off" /\ stage' = "off"
      /\ UNCHANGED <<job, wire, rx, board, answers, faults>>
    BY DEF GiveUp, Fails, receiver
<1>2. ScriptWork >= 1
    <2>1. stage # "off" => Len(Payload(job)) \in Nat
        BY UploadWords DEF UploadTypeOK
    <2> QED BY <1>1, <2>1 DEF UploadTypeOK, ScriptWork
<1>3. ScriptWork' = 0 /\ BoardWork' = BoardWork
    BY <1>1 DEF ScriptWork, BoardWork
<1>4. PICK f \in Nat : f = MaxFaults - faults
    BY WorkType
<1>5. /\ Work = BoardWork + ScriptWork + 13 * Len(wire) + 12 * Len(rx)
                    + Len(answers) + 3 * f
      /\ Work' = BoardWork + 0 + 13 * Len(wire) + 12 * Len(rx)
                    + Len(answers) + 3 * f
    BY <1>1, <1>3, <1>4 DEF Work
<1>6. \A b, s, w, r, a \in Nat : s >= 1 =>
          b + 0 + 13 * w + 12 * r + a + 3 * f
              < b + s + 13 * w + 12 * r + a + 3 * f
    BY <1>4
<1> QED BY <1>2, <1>5, <1>6, WorkType

\* Both sides come to rest: from one start of the script to the next, what is
\* left to do is a number that every step makes smaller, whichever of the two
\* takes it and whatever is lost, killed or reset.  No exchange of markers and
\* bytes goes on for ever.
THEOREM UploadsWindDown ==
    UploadSpec => [][/\ Work \in Nat
                     /\ ~Start /\ ~HastyStart => Work' < Work]_uploadVars
<1>1. ASSUME UploadIInv, [UploadNext]_uploadVars
      PROVE  [/\ Work \in Nat
              /\ ~Start /\ ~HastyStart => Work' < Work]_uploadVars
    <2>1. UploadTypeOK
        BY <1>1 DEF UploadIInv
    <2>2. Work \in Nat
        BY <2>1, WorkType
    <2>3. CASE UploadNext /\ ~Start /\ ~HastyStart
        <3>1. Hear => Work' < Work
            BY <2>1, HearWork
        <3>2. GiveUp => Work' < Work
            BY <2>1, GiveUpWork
        <3>3. \/ Arrive \/ Command \/ drain_uart_rx \/ SayReady \/ ReadHeader
              \/ SayData \/ ReadPayload \/ Check \/ ByteTimesOut
              => Work' < Work
            BY <2>1, BoardStepWork
        <3>4. Stall \/ Kill \/ Noise \/ MarkerLost \/ BoardReset => Work' < Work
            BY <2>1, FaultWork
        <3> QED BY <2>2, <2>3, <3>1, <3>2, <3>3, <3>4 DEF UploadNext
    <2> QED BY <1>1, <2>2, <2>3
<1> QED BY <1>1, UploadInvariant, PTL DEF UploadSpec

=============================================================================
