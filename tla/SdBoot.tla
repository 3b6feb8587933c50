------------------------------- MODULE SdBoot -------------------------------
(***************************************************************************)
(* Booting from the micro-SD card: the driver (src/src/sd_spi.c), the      *)
(* reader of FAT16 and FAT32 with its cache of one sector                  *)
(* (src/src/fat_ro.c), and the commands `b` and `c` (src/src/sd_boot.c).   *)
(* What the loaders do with the bytes is in DoomMonitor; here they read    *)
(* and accept or refuse.                                                   *)
(*                                                                         *)
(* A sector is a record with a kind; a sector of another kind than the one *)
(* looked for is read as one that has nothing in it.  A card may be pulled *)
(* out, also in the middle of a block, and another one put in, at any      *)
(* time; a card that has just been put in does not answer before CMD0.     *)
(***************************************************************************)
EXTENDS Integers, Sequences

CONSTANTS
    Cards, NoCard,
    Disk,               \* Cards -> [v2, hc, blocks]
    SectorLen,          \* 512
    FatPerSector,       \* FAT entries in a sector: [{16, 32} -> {256, 128}]
    MinClusters,        \* 4085
    Fat32Clusters,      \* 65525
    Eoc,                \* [{16, 32} -> {0xfff8, 0x0ffffff8}]
    WordModulus,        \* 2^32
    InitTimeout, TokenTimeout,          \* milliseconds
    HeaderLen,          \* of an image
    Payloads,           \* the payload sizes a valid header may name
    MaxWad              \* the size of the IWAD region

ASSUME SdAssumption ==
    /\ NoCard \notin Cards
    /\ SectorLen \in Nat \ {0} /\ WordModulus \in Nat \ {0}
    /\ \A t \in {16, 32} : FatPerSector[t] \in Nat \ {0} /\ Eoc[t] \in Nat
    /\ MinClusters \in Nat /\ Fat32Clusters \in Nat
    /\ InitTimeout \in Nat \ {0} /\ TokenTimeout \in 1 .. InitTimeout
    /\ HeaderLen \in Nat \ {0} /\ Payloads \subseteq Nat \ {0} /\ MaxWad \in Nat

\* All bytes 0xff, as they are read when no card drives the line.
Blank == [kind |-> "blank"]

Word == 0 .. (WordModulus - 1)

\* The numbers of a sector are those its bytes spell, whatever they are; what
\* looks_like_boot_sector takes has a FAT or two.
IsSector(s) ==
    \/ s = Blank
    \/ s \in [kind : {"mbr"}, part : Word]
    \/ s \in [kind : {"boot"}, reserved : Word, fats : {1, 2},
              fatSectors : Word, rootSectors : Word, total : Word,
              spc : Word, rootCluster : Word]
    \/ /\ s \in [kind : {"fat"}, next : Seq(Nat)]
       /\ \A type \in {16, 32} : FatPerSector[type] <= Len(s.next)
    \/ s \in [kind : {"dir"},
              entries : Seq([name : STRING, cluster : Nat, size : Nat])]
    \/ /\ s \in [kind : {"data"}, data : Seq(Int)]
       /\ Len(s.data) = SectorLen

ASSUME DiskAssumption ==
    \A card \in Cards :
        /\ Disk[card].hc \in BOOLEAN /\ Disk[card].v2 \in BOOLEAN
        /\ DOMAIN Disk[card].blocks \subseteq Nat
        /\ \A a \in DOMAIN Disk[card].blocks : IsSector(Disk[card].blocks[a])

VARIABLES
    slot, mode,         \* the card in the slot, and what it is ready for
    cs,                 \* the chip-select line
    sd,                 \* sd_card, and version2 of hazard3_sd_init
    elapsed,            \* since the start of the wait the code is in, or 0
    fs, cache,          \* fat_fs
    mount_ok,           \* sd_mount_ok
    stage, io,          \* where the monitor is; where it is in a block
    got,                \* sd_directory_sector, used by `c`
    dir,                \* the place in the root directory
    name, file,         \* the file that is open
    want, out,          \* the read under way; what the loader has so far
    mounted, torn       \* history: the card initialized; a block cut off

cardVars == <<slot, mode>>
fsVars == <<fs, cache, mount_ok>>
fileVars == <<name, file, want, out>>
history == <<mounted, torn>>
sdVars == <<cardVars, cs, sd, elapsed, fsVars, stage, io, got, dir, fileVars,
          history>>

Min2(a, b) == IF a < b THEN a ELSE b

NoFs == [type |-> 0, part |-> 0]
NoFile == [first |-> 0, cur |-> 0, idx |-> 0, size |-> 0, pos |-> 0]

SdInit ==
    /\ slot \in Cards \cup {NoCard} /\ mode = "native"
    /\ cs = "high"
    /\ sd = [initialized |-> FALSE, hc |-> FALSE, v2 |-> FALSE]
    /\ elapsed = 0
    /\ fs = NoFs /\ cache = [valid |-> FALSE, lba |-> 0, sector |-> Blank]
    /\ mount_ok = FALSE
    /\ stage = "prompt" /\ io = "idle" /\ got = Blank
    /\ dir = [cluster |-> 0, sector |-> 0, guard |-> 0]
    /\ name = "IMG" /\ file = NoFile /\ want = 0 /\ out = <<>>
    /\ mounted = NoCard /\ torn = FALSE

----------------------------------------------------------------------------
(***************************************************************************)
(* The card.                                                               *)
(***************************************************************************)
Insert ==
    /\ slot = NoCard
    /\ slot' \in Cards
    /\ mode' = "native"
    /\ UNCHANGED <<cs, sd, elapsed, fsVars, stage, io, got, dir, fileVars,
                   history>>

Remove ==
    /\ slot # NoCard
    /\ slot' = NoCard /\ mode' = "native"
    /\ UNCHANGED <<cs, sd, elapsed, fsVars, stage, io, got, dir, fileVars,
                   history>>

Waiting == stage \in {"cmd0", "cmd55", "cmd41"} \/ io = "token"

Tick ==
    /\ Waiting
    /\ elapsed < InitTimeout
    /\ elapsed' = elapsed + 1
    /\ UNCHANGED <<cardVars, cs, sd, fsVars, stage, io, got, dir, fileVars,
                   history>>

\* The card answers in SPI mode.
Answers == slot # NoCard /\ mode # "native"

\* The block an argument of CMD17 names: a byte address unless the card has high
\* capacity.
Block(arg) == IF Disk[slot].hc THEN arg ELSE arg \div SectorLen

----------------------------------------------------------------------------
(***************************************************************************)
(* hazard3_sd_init, one command a step.  Each step leaves the card         *)
(* deselected, on its error path too.                                      *)
(***************************************************************************)
Goto(next) == stage' = next

Fail == stage' = "prompt" /\ io' = "idle"

Command ==
    /\ cs' = "high"
    /\ UNCHANGED <<fsVars, got, dir, fileVars, torn>>

Cmd0 ==
    /\ stage = "cmd0"
    /\ Command
    /\ \/ /\ slot # NoCard
          /\ mode' = "idle"
          /\ Goto("cmd8")
          /\ UNCHANGED io
       \/ /\ elapsed >= InitTimeout
          /\ Fail
          /\ UNCHANGED mode
    /\ elapsed' = 0
    /\ UNCHANGED <<slot, sd, mounted>>

Cmd8 ==
    /\ stage = "cmd8"
    /\ Command
    /\ IF Answers
       THEN /\ sd' = [sd EXCEPT !.v2 = Disk[slot].v2]
            /\ Goto("cmd55")
            /\ UNCHANGED io
       ELSE Fail /\ UNCHANGED sd
    /\ UNCHANGED <<cardVars, elapsed, mounted>>

Cmd55 ==
    /\ stage = "cmd55"
    /\ Command
    /\ IF Answers THEN Goto("cmd41") /\ UNCHANGED <<io, elapsed>>
       ELSE Fail /\ elapsed' = 0
    /\ UNCHANGED <<cardVars, sd, mounted>>

\* Fault: the wait for the card has no end.
Acmd41Patient ==
    /\ stage = "cmd41"
    /\ Command
    /\ \/ /\ Answers /\ (Disk[slot].hc => sd.v2)
          /\ mode' = "ready"
          /\ Goto("cmd58") /\ elapsed' = 0
          /\ UNCHANGED io
       \/ Goto("cmd55") /\ UNCHANGED <<mode, io, elapsed>>
    /\ UNCHANGED <<slot, sd, mounted>>

\* A card of high capacity gets ready only if the host says it can use it.
Acmd41 ==
    /\ stage = "cmd41"
    /\ Command
    /\ \/ /\ Answers /\ (Disk[slot].hc => sd.v2)
          /\ mode' = "ready"
          /\ Goto("cmd58") /\ elapsed' = 0
          /\ UNCHANGED io
       \/ /\ IF elapsed >= InitTimeout THEN Fail /\ elapsed' = 0
             ELSE Goto("cmd55") /\ UNCHANGED <<io, elapsed>>
          /\ UNCHANGED mode
    /\ UNCHANGED <<slot, sd, mounted>>

Cmd58 ==
    /\ stage = "cmd58"
    /\ Command
    /\ IF Answers
       THEN LET hc == sd.v2 /\ Disk[slot].hc
            IN  /\ sd' = [sd EXCEPT !.hc = hc, !.initialized = hc]
                /\ mounted' = IF hc THEN slot ELSE NoCard
                /\ Goto(IF hc THEN "ready" ELSE "cmd16")
                /\ UNCHANGED io
       ELSE Fail /\ UNCHANGED <<sd, mounted>>
    /\ UNCHANGED <<cardVars, elapsed>>

Cmd16 ==
    /\ stage = "cmd16"
    /\ Command
    /\ IF Answers
       THEN /\ sd' = [sd EXCEPT !.initialized = TRUE]
            /\ mounted' = slot
            /\ Goto("ready")
            /\ UNCHANGED io
       ELSE Fail /\ UNCHANGED <<sd, mounted>>
    /\ UNCHANGED <<cardVars, elapsed>>

----------------------------------------------------------------------------
(***************************************************************************)
(* Which sector the code needs next, in numbers of 32 bits.                *)
(***************************************************************************)
cluster_lba(f, c) == (f.data + (c - 2) * f.spc) % WordModulus

fat_lba(f, c) == (f.fat + c \div FatPerSector[f.type]) % WordModulus

DirLba ==
    ((IF fs.type = 16 THEN fs.root ELSE cluster_lba(fs, dir.cluster))
        + dir.sector) % WordModulus

ClusterLen(f) == f.spc * SectorLen

\* The sector of a place in a file whose cluster is c.
SectorOf(f, c, pos) ==
    (cluster_lba(f, c) + (pos % ClusterLen(f)) \div SectorLen) % WordModulus

Lba ==
    CASE stage = "mount"                   -> 0
      [] stage = "partition"               -> fs.part
      [] stage \in {"open", "list"}        -> DirLba
      [] stage \in {"openNext", "listNext"} -> fat_lba(fs, dir.cluster)
      [] stage = "seek"                    -> fat_lba(fs, file.cur)
      [] stage = "copy"                    -> SectorOf(fs, file.cur, file.pos)

Cached == stage \in {"mount", "partition", "open", "openNext", "seek", "copy"}
Listing == stage \in {"list", "listNext"}

\* read_sector finds the sector in the cache; `c` has a buffer of its own.
Hit == IF Cached THEN cache.valid /\ cache.lba = Lba ELSE io = "done"

Sector == IF Cached THEN cache.sector ELSE got

(***************************************************************************)
(* hazard3_sd_read_block.  Only a block that has come in is put in the     *)
(* buffer.                                                                 *)
(***************************************************************************)
Argument == IF sd.hc THEN Lba ELSE (Lba * SectorLen) % WordModulus

ReadCommand ==
    /\ Cached \/ Listing
    /\ io = "idle" /\ ~Hit
    /\ IF /\ sd.initialized
          /\ Answers /\ mode = "ready"
          /\ Block(Argument) \in DOMAIN Disk[slot].blocks
       THEN /\ io' = "token"
            /\ cs' = "low"
            /\ UNCHANGED stage
       ELSE Fail /\ cs' = "high"
    /\ UNCHANGED <<cardVars, sd, elapsed, fsVars, got, dir, fileVars, history>>

Arrives(sector) ==
    /\ IF Cached
       THEN /\ cache' = [valid |-> TRUE, lba |-> Lba, sector |-> sector]
            /\ io' = "idle"
            /\ UNCHANGED got
       ELSE /\ got' = sector
            /\ io' = "done"
            /\ UNCHANGED cache
    /\ cs' = "high" /\ elapsed' = 0
    /\ UNCHANGED <<sd, fs, mount_ok, stage, dir, fileVars, mounted>>

ReadBlock ==
    /\ io = "token"
    /\ Answers /\ mode = "ready"
    /\ Arrives(Disk[slot].blocks[Block(Argument)])
    /\ UNCHANGED <<cardVars, torn>>

\* The card is pulled out before the first byte of the block; no check tells.
ReadTorn ==
    /\ io = "token"
    /\ Answers /\ mode = "ready"
    /\ Arrives(Blank)
    /\ slot' = NoCard /\ mode' = "native"
    /\ torn' = TRUE

\* Fault: the card stays selected after a timeout.
ReadTimeoutSelected ==
    /\ io = "token"
    /\ elapsed >= TokenTimeout
    /\ Fail /\ elapsed' = 0
    /\ UNCHANGED <<cs, cardVars, sd, fsVars, got, dir, fileVars,
                   history>>

ReadTimeout ==
    /\ io = "token"
    /\ elapsed >= TokenTimeout
    /\ Fail /\ elapsed' = 0
    /\ cs' = "high"
    /\ UNCHANGED <<cardVars, sd, fsVars, got, dir, fileVars,
                   history>>

----------------------------------------------------------------------------
(***************************************************************************)
(* What the code does with the sector it has.                              *)
(***************************************************************************)
Uses ==
    /\ Hit
    /\ UNCHANGED <<cardVars, cs, sd, elapsed, cache, got, history>>

\* looks_like_boot_sector and parse_boot_sector
FirstData(b) ==
    (b.reserved + b.fats * b.fatSectors + b.rootSectors) % WordModulus

ClusterCount(b) == (b.total - FirstData(b)) \div b.spc

Geometry(b, part) ==
    LET count == ClusterCount(b)
        type == IF count < Fat32Clusters THEN 16 ELSE 32
    IN  [type |-> type, part |-> part,
         fat |-> (part + b.reserved) % WordModulus,
         data |-> (part + FirstData(b)) % WordModulus,
         spc |-> b.spc, count |-> count, rootSectors |-> b.rootSectors,
         root |-> IF type = 16
                  THEN (part + b.reserved + b.fats * b.fatSectors) % WordModulus
                  ELSE 0,
         rootCluster |-> IF type = 32 THEN b.rootCluster ELSE 0]

Supported(b) ==
    /\ b.spc > 0 /\ b.fatSectors > 0 /\ FirstData(b) < b.total
    /\ ClusterCount(b) >= MinClusters
    /\ ClusterCount(b) >= Fat32Clusters => b.rootCluster >= 2

\* The search starts at the beginning of the root directory.
DirStart(f) == [cluster |-> f.rootCluster, sector |-> 0, guard |-> 0]

\* A root directory of FAT16 may have no sectors at all.
NoRoot(f) == f.type = 16 /\ f.rootSectors = 0

Mounted(part) ==
    IF Supported(Sector)
    THEN /\ fs' = Geometry(Sector, part)
         /\ mount_ok' = TRUE
         /\ name' = "IMG"
         /\ dir' = DirStart(fs')
         /\ IF NoRoot(fs') THEN Fail ELSE Goto("open") /\ UNCHANGED io
    ELSE Fail /\ UNCHANGED <<fs, mount_ok, name, dir>>

\* Fault: the cache survives from one mount to the next.
CacheKept == cache' = cache

CacheAtMount == cache' = [valid |-> FALSE, lba |-> 0, sector |-> Blank]

StartMount ==
    /\ stage = "ready"
    /\ fs' = NoFs
    /\ CacheAtMount
    /\ file' = NoFile /\ want' = 0 /\ out' = <<>>
    /\ Goto("mount")
    /\ UNCHANGED <<cardVars, cs, sd, elapsed, mount_ok, io, got, dir, name,
                   history>>

Mount ==
    /\ stage = "mount"
    /\ Uses
    /\ CASE Sector.kind = "boot" -> Mounted(0)
         [] Sector.kind = "mbr" /\ Sector.part # 0 ->
              /\ fs' = [fs EXCEPT !.part = Sector.part]
              /\ Goto("partition")
              /\ UNCHANGED <<mount_ok, name, dir, io>>
         [] OTHER -> Fail /\ UNCHANGED <<fs, mount_ok, name, dir>>
    /\ UNCHANGED <<file, want, out>>

MountPartition ==
    /\ stage = "partition"
    /\ Uses
    /\ IF Sector.kind = "boot" THEN Mounted(fs.part)
       ELSE Fail /\ UNCHANGED <<fs, mount_ok, name, dir>>
    /\ UNCHANGED <<file, want, out>>

(***************************************************************************)
(* The walk through the root directory, for hazard3_fat_open_83 and for    *)
(* the listing of `c`: sector after sector, at the end of a cluster the    *)
(* FAT, and no more clusters than the volume has.                          *)
(***************************************************************************)
Entries(sector) == IF sector.kind = "dir" THEN sector.entries ELSE <<>>

\* A chain entry, or 0 where the chain ends or makes no sense.
NextOf(sector, type, c) ==
    LET v == IF sector.kind = "fat"
             THEN sector.next[(c % FatPerSector[type]) + 1] ELSE 0
    IN  IF v < 2 \/ v >= Eoc[type] THEN 0 ELSE v

LastOfDir == IF fs.type = 16 THEN dir.sector + 1 = fs.rootSectors
             ELSE dir.sector + 1 = fs.spc

\* The next sector; or the FAT (FAT32); or the directory is at its end.
DirNext(there, fat) ==
    IF ~LastOfDir
    THEN dir' = [dir EXCEPT !.sector = @ + 1] /\ Goto(there) /\ io' = "idle"
    ELSE /\ IF fs.type = 32 THEN Goto(fat) /\ io' = "idle" ELSE Fail
         /\ UNCHANGED dir

DirCluster(there) ==
    LET next == NextOf(Sector, fs.type, dir.cluster)
    IN  IF next # 0 /\ dir.guard < fs.count
        THEN /\ dir' = [cluster |-> next, sector |-> 0, guard |-> dir.guard + 1]
             /\ Goto(there) /\ io' = "idle"
        ELSE Fail /\ UNCHANGED dir

Names(s) == {s[i].name : i \in DOMAIN s}

\* The entries before the end mark.
Live(entries) ==
    IF "end" \in Names(entries)
    THEN SubSeq(entries, 1, (CHOOSE i \in DOMAIN entries :
                               /\ entries[i].name = "end"
                               /\ \A j \in 1 .. (i - 1) :
                                      entries[j].name # "end") - 1)
    ELSE entries

\* The first entry of that name.
Entry(entries, n) ==
    entries[CHOOSE i \in DOMAIN entries :
              /\ entries[i].name = n
              /\ \A j \in 1 .. (i - 1) : entries[j].name # n]

(***************************************************************************)
(* An open file.  The image loader reads a header and then a payload; the  *)
(* IWAD loader reads the file at once, if its size is allowed.             *)
(***************************************************************************)
Opened(entry) ==
    /\ file' = [first |-> entry.cluster, cur |-> entry.cluster, idx |-> 0,
                size |-> entry.size, pos |-> 0]
    /\ out' = <<>>
    /\ IF entry.size > 0 /\ entry.cluster < 2 THEN Fail /\ UNCHANGED want
       ELSE /\ want' = IF name = "IMG" THEN HeaderLen ELSE entry.size
            /\ IF name = "WAD" /\ entry.size \notin 1 .. MaxWad THEN Fail
               ELSE Goto("read") /\ UNCHANGED io

Open ==
    /\ stage = "open"
    /\ Uses
    /\ LET live == Live(Entries(Sector))
       IN  IF name \in Names(live)
           THEN Opened(Entry(live, name)) /\ UNCHANGED dir
           ELSE /\ IF live # Entries(Sector) THEN Fail /\ UNCHANGED dir
                   ELSE DirNext("open", "openNext")
                /\ UNCHANGED <<file, want, out>>
    /\ UNCHANGED <<fs, mount_ok, name>>

OpenNext ==
    /\ stage = "openNext"
    /\ Uses
    /\ DirCluster("open")
    /\ UNCHANGED <<fs, mount_ok, fileVars>>

\* hazard3_fat_read: the check of the size, then the loop.
Read ==
    /\ stage = "read"
    /\ IF want > file.size - file.pos THEN Fail
       ELSE /\ Goto(IF file.pos \div ClusterLen(fs) = file.idx THEN "copy"
                    ELSE "seek")
            /\ UNCHANGED io
    /\ UNCHANGED <<cardVars, cs, sd, elapsed, fsVars, got, dir, fileVars,
                   history>>

\* seek_current_cluster: files are read forward only.
Seek ==
    /\ stage = "seek"
    /\ Uses
    /\ LET next == NextOf(Sector, fs.type, file.cur)
       IN  IF next = 0 THEN Fail /\ UNCHANGED file
           ELSE /\ file' = [file EXCEPT !.cur = next, !.idx = @ + 1]
                /\ Goto("read") /\ UNCHANGED io
    /\ UNCHANGED <<fs, mount_ok, dir, name, want, out>>

SectorBytes(sector) == IF sector.kind = "data" THEN sector.data
                 ELSE [i \in 1 .. SectorLen |-> -1]

Copy ==
    /\ stage = "copy"
    /\ Uses
    /\ LET within == file.pos % SectorLen
           chunk == Min2(SectorLen - within, want)
       IN  /\ out' = out \o SubSeq(SectorBytes(Sector), within + 1, within + chunk)
           /\ file' = [file EXCEPT !.pos = @ + chunk]
           /\ want' = want - chunk
           /\ Goto(IF want' > 0 THEN "read" ELSE "loader") /\ UNCHANGED io
    /\ UNCHANGED <<fs, mount_ok, dir, name>>

\* What the loader has may be a header, whose payload it asks for, or all it
\* wants; it may refuse either.
Loader ==
    /\ stage = "loader"
    /\ \/ Fail /\ UNCHANGED <<dir, name, want>>
       \/ /\ name = "IMG" /\ Len(out) = HeaderLen
          /\ want' \in Payloads
          /\ Goto("read") /\ UNCHANGED <<io, dir, name>>
       \/ /\ name = "IMG" /\ Len(out) > HeaderLen
          /\ name' = "WAD"
          /\ dir' = DirStart(fs)
          /\ Goto("open") /\ UNCHANGED <<io, want>>
       \/ /\ name = "WAD"
          /\ Goto("launch") /\ UNCHANGED <<io, dir, name, want>>
    /\ UNCHANGED <<cardVars, cs, sd, elapsed, fsVars, got, file, out,
                   history>>

Launch ==
    /\ stage = "launch"
    /\ Goto("prompt")
    /\ UNCHANGED <<cardVars, cs, sd, elapsed, fsVars, io, got, dir,
                   fileVars, history>>

----------------------------------------------------------------------------
(***************************************************************************)
(* Commands: `b`, and `c` for what is mounted.                             *)
(***************************************************************************)
hazard3_sd_boot ==
    /\ stage = "prompt"
    /\ Goto("cmd0")
    /\ mount_ok' = FALSE
    /\ sd' = [initialized |-> FALSE, hc |-> FALSE, v2 |-> FALSE]
    /\ mounted' = NoCard /\ torn' = FALSE
    /\ UNCHANGED <<cardVars, cs, elapsed, fs, cache, io, got, dir, fileVars>>

print_status ==
    /\ stage = "prompt"
    /\ mount_ok /\ ~NoRoot(fs)
    /\ Goto("list")
    /\ dir' = DirStart(fs)
    /\ UNCHANGED <<cardVars, cs, sd, elapsed, fsVars, io, got, fileVars,
                   history>>

\* sd_list_directory_sector: the end mark ends the listing.
List ==
    /\ stage = "list"
    /\ Uses
    /\ IF Live(Entries(Sector)) # Entries(Sector) THEN Fail /\ UNCHANGED dir
       ELSE DirNext("list", "listNext")
    /\ UNCHANGED <<fs, mount_ok, fileVars>>

ListNext ==
    /\ stage = "listNext"
    /\ Uses
    /\ DirCluster("list")
    /\ UNCHANGED <<fs, mount_ok, fileVars>>

Monitor ==
    \/ Cmd0 \/ Cmd8 \/ Cmd55 \/ Acmd41 \/ Cmd58 \/ Cmd16
    \/ ReadCommand \/ ReadBlock \/ ReadTimeout
    \/ StartMount \/ Mount \/ MountPartition \/ Open \/ OpenNext
    \/ Read \/ Seek \/ Copy \/ Loader \/ Launch
    \/ List \/ ListNext

SdNext ==
    \/ Monitor
    \/ hazard3_sd_boot \/ print_status
    \/ ReadTorn
    \/ Insert \/ Remove \/ Tick

SdSpec == SdInit /\ [][SdNext]_sdVars

\* The monitor's thread runs and its clock advances.
SdFairSpec == SdSpec /\ WF_sdVars(Monitor) /\ WF_sdVars(Tick)

----------------------------------------------------------------------------
(***************************************************************************)
(* The file as the volume defines it, in numbers that do not wrap.         *)
(***************************************************************************)
Volume == Disk[mounted].blocks

VolumeStart == IF Volume[0].kind = "mbr" THEN Volume[0].part ELSE 0
BootSector == Volume[VolumeStart]

DataStart ==
    BootSector.reserved + BootSector.fats * BootSector.fatSectors
        + BootSector.rootSectors

\* Where its parts are.
Layout ==
    LET count == (BootSector.total - DataStart) \div BootSector.spc
    IN  [type |-> IF count < Fat32Clusters THEN 16 ELSE 32,
         fat |-> VolumeStart + BootSector.reserved,
         data |-> VolumeStart + DataStart,
         spc |-> BootSector.spc, count |-> count]

\* What a card can be asked for: 2^32 blocks, or as many bytes.
Reach == IF Disk[mounted].hc THEN WordModulus ELSE WordModulus \div SectorLen

\* The clusters of a volume.
Cluster(f) == 2 .. (f.count + 1)

\* A volume fits into itself and on its card.  The code checks only that the
\* clusters begin before the end, and that in 32 bits.
Sound ==
    /\ 0 \in DOMAIN Volume /\ VolumeStart \in DOMAIN Volume
    /\ BootSector.kind = "boot"
    /\ VolumeStart + BootSector.total <= Reach
    /\ DataStart < BootSector.total
    /\ (Layout.count + 1) \div FatPerSector[Layout.type] < BootSector.fatSectors

FatAt(f, c) == f.fat + c \div FatPerSector[f.type]

SectorAt(f, c, pos) ==
    f.data + (c - 2) * f.spc + (pos % ClusterLen(f)) \div SectorLen

\* The cluster after c, or 0.
After(blocks, f, c) ==
    IF c = 0 \/ FatAt(f, c) \notin DOMAIN blocks THEN 0
    ELSE NextOf(blocks[FatAt(f, c)], f.type, c)

Chain(blocks, f, first) ==
    LET c[n \in Nat] == IF n = 0 THEN first ELSE After(blocks, f, c[n - 1])
    IN  c

\* Byte i of the file whose first cluster this is.
IsByte(b, i, blocks, f, first) ==
    LET c == Chain(blocks, f, first)[(i - 1) \div ClusterLen(f)]
        at == SectorAt(f, c, i - 1)
    IN  /\ at \in DOMAIN blocks
        /\ b = SectorBytes(blocks[at])[((i - 1) % SectorLen) + 1]

\* The loader is given the file, byte by byte, as the card that was initialized
\* holds it: no sector is taken from the cache of an earlier mount or from a
\* card put in since, no cluster is skipped, a chain that ends too early gives
\* nothing, and no sum or product of 32 bits goes wrong, up to the last cluster
\* the volume can have.  Two things are not checked by the code and so not
\* promised: a block during which the card is pulled out, and what comes after
\* an entry of the FAT that names no cluster of the volume.  (It may wrap on a
\* card of standard capacity, and bytes of another sector come with success.)
Delivered ==
    mount_ok /\ ~torn /\ Sound =>
        /\ Len(out) = file.pos
        /\ \A i \in 1 .. Len(out) :
               LET c == Chain(Volume, Layout, file.first)
                   n == (i - 1) \div ClusterLen(Layout)
               IN  (\A k \in 0 .. (n - 1) : c[k] \in Cluster(Layout)) =>
                       /\ c[n] # 0
                       /\ c[n] \in Cluster(Layout) =>
                              IsByte(out[i], i, Volume, Layout, file.first)

\* The card is never left selected, whatever a command comes to: the next one
\* would talk in the middle of the transfer before.
CardReleased == cs = "low" => io = "token"

\* `b` and `c` come back to the prompt with any card, or none: no chain of
\* clusters and no card that never gets ready keeps the monitor.
CommandEnds == stage # "prompt" ~> stage = "prompt"
=============================================================================
