----------------------------- MODULE Ulx5mFlash -----------------------------
(***************************************************************************)
(* The experimental flash update of the ULX5M bootloader                   *)
(* (src/bootloader-serv/fw).  A host downloads a file in numbered DFU      *)
(* blocks (ulx5m_dfu_stream.c).  When it has armed the writer with the     *)
(* length and the CRC of the file (ulx5m_flash_hw_test.c), every block     *)
(* also goes to the programming state machine (ulx5m_flash_program.c),     *)
(* which erases, programs and reads back one page after the other through  *)
(* the flash driver (ulx5m_at25ql321.c), and a finish request reads the    *)
(* whole image back, piece by piece.                                       *)
(*                                                                         *)
(* The firmware is one thread that serves USB requests.  A request is      *)
(* handled at its SETUP packet and completed, when its data and status     *)
(* stages are over, by a callback: a new SETUP packet in between discards  *)
(* the callback, a reset of the bus restarts the stream, and the power may *)
(* fail at any time, also in the middle of an erase or of a page program.  *)
(***************************************************************************)
EXTENDS Integers, Sequences

CONSTANTS
    FlashBytes,     \* ULX5M_FLASH_BYTES
    SlotStart,      \* ULX5M_FLASH_CANDIDATE_START
    SlotBytes,      \* ULX5M_HW_MAX_BYTES, the size of the slot
    PageBytes,      \* ULX5M_FLASH_PAGE_BYTES
    EraseBytes,     \* ULX5M_FLASH_ERASE_BYTES
    BlockBytes,     \* ULX5M_STREAM_BLOCK_BYTES
    StreamMaxBytes, \* ULX5M_STREAM_MAX_BYTES
    Byte,           \* contents of a flash cell
    Erased,         \* 0xff
    Files,          \* files the host may send
    CrcVal,         \* checksums
    Crc(_)          \* the CRC-32 of a sequence of bytes

ASSUME GeometryAssumption ==
    /\ FlashBytes \in Nat /\ SlotStart \in Nat /\ SlotBytes \in Nat \ {0}
    /\ PageBytes \in Nat \ {0} /\ EraseBytes \in Nat \ {0}
    /\ BlockBytes \in Nat \ {0} /\ StreamMaxBytes \in Nat
    /\ SlotStart + SlotBytes <= FlashBytes

ASSUME DataAssumption ==
    /\ Erased \in Byte
    /\ Files \subseteq Seq(Byte)
    /\ Files # {}
    /\ Crc(<<>>) \in CrcVal
    /\ \A bytes \in Files : Crc(bytes) \in CrcVal

VARIABLES
    file,           \* the file the host is sending
    state, next_block, accepted,    \* stream.state, .next_block, and the bytes
                                    \* .used and .crc stand for
    xfer,           \* the control transfer whose callback is pending
    phase,          \* of the writer
    sink,           \* stream_flash_sink is set
    image_bytes, expected_crc,
    active, received, pending, next_page, next_sector,  \* program.*
    flash,          \* contents of the chip
    pc,             \* where a callback stands
    fed,            \* bytes of the block already fed to the program
    disturbed,      \* a cell of the slot changed by itself in this session
    readback,       \* the bytes readback_crc of the finish stands for
    late            \* history: a cell changed after its piece was read back

streamVars == <<state, next_block, accepted>>
programVars == <<active, received, pending, next_page, next_sector>>
writerVars == <<phase, sink, image_bytes, expected_crc>>
finalVars == <<readback, late>>
vars == <<file, streamVars, xfer, writerVars, programVars, flash, pc, fed,
          disturbed, finalVars>>

Addr == 0 .. (FlashBytes - 1)
Slot == SlotStart .. (SlotStart + SlotBytes - 1)
State == {"idle", "dnload_sync", "dnload_idle", "manifest_sync", "error"}
Phase == {"disarmed", "armed", "verified", "failed"}
PC == {"idle", "feed", "erase", "program", "verify", "readback"}

Smaller(m, n) == IF m < n THEN m ELSE n

\* The n-th block of the file, counted from 0; empty after its end.
BlockOf(n) ==
    SubSeq(file, n * BlockBytes + 1, Smaller((n + 1) * BlockBytes, Len(file)))

NoXfer == [kind |-> "none"]
Block(data) == [kind |-> "block", data |-> data]
Manifest == [kind |-> "manifest"]
Arm(length, crc) == [kind |-> "arm", length |-> length, crc |-> crc]
BadArm == [kind |-> "badarm"]
Finish == [kind |-> "finish"]

\* The bytes of the slot that hold an image of n bytes.
SlotContents(n) == [i \in 1 .. n |-> flash[SlotStart + i - 1]]

\* Fault: only the first page of the slot is looked at.
SlotErasedFirstPage ==
    \A a \in SlotStart .. (SlotStart + PageBytes - 1) : flash[a] = Erased

SlotErased == \A a \in Slot : flash[a] = Erased

Init ==
    /\ file \in Files
    /\ state = "idle" /\ next_block = 0 /\ accepted = <<>>
    /\ xfer = NoXfer
    /\ phase = "disarmed" /\ sink = FALSE
    /\ image_bytes = 0
    /\ expected_crc = Crc(<<>>)
    /\ active = FALSE /\ received = <<>> /\ pending = <<>>
    /\ next_page = SlotStart /\ next_sector = SlotStart
    /\ flash = [a \in Addr |-> Erased]
    /\ pc = "idle" /\ fed = 0
    /\ disturbed = FALSE
    /\ readback = <<>> /\ late = FALSE

----------------------------------------------------------------------------
(***************************************************************************)
(* ulx5m_flash_hw_test_reset and ulx5m_dfu_stream_reset.                   *)
(***************************************************************************)
WriterReset ==
    /\ sink' = FALSE
    /\ active' = FALSE
    /\ phase' = "disarmed"
    /\ image_bytes' = 0
    /\ expected_crc' = Crc(<<>>)
    /\ UNCHANGED <<received, pending, next_page, next_sector>>

StreamReset ==
    /\ WriterReset
    /\ state' = "idle" /\ next_block' = 0 /\ accepted' = <<>>

\* The host starts over, perhaps with another file.
RestartStream ==
    /\ StreamReset
    /\ xfer' = NoXfer
    /\ file' \in Files
    /\ UNCHANGED <<flash, pc, fed, disturbed, finalVars>>

(***************************************************************************)
(* ulx5m_dfu_stream_req.  A SETUP packet discards a pending callback.      *)
(***************************************************************************)
Setup(transfer) ==
    /\ pc = "idle"
    /\ xfer' = transfer
    /\ UNCHANGED <<file, writerVars, programVars, flash, pc, fed,
                   disturbed, finalVars>>

StreamFail ==
    /\ state' = "error"
    /\ UNCHANGED <<next_block, accepted>>

DownloadOpen == state \in {"idle", "dnload_idle"}

\* Fault: a block is taken whatever its number.
DnloadBlockAnyNumber(n) ==
    /\ DownloadOpen
    /\ Len(BlockOf(n)) > 0
    /\ Len(BlockOf(n)) <= StreamMaxBytes - Len(accepted)
    /\ Setup(Block(BlockOf(n)))
    /\ UNCHANGED streamVars

DnloadBlock(n) ==
    /\ DownloadOpen
    /\ n = next_block
    /\ Len(BlockOf(n)) > 0
    /\ Len(BlockOf(n)) <= StreamMaxBytes - Len(accepted)
    /\ Setup(Block(BlockOf(n)))
    /\ UNCHANGED streamVars

DnloadEnd(n) ==
    /\ DownloadOpen
    /\ n = next_block
    /\ BlockOf(n) = <<>>
    /\ accepted # <<>>
    /\ Setup(Manifest)
    /\ UNCHANGED streamVars

DnloadFails(n) ==
    /\ \/ ~DownloadOpen
       \/ n # next_block
       \/ BlockOf(n) = <<>> /\ accepted = <<>>
       \/ Len(BlockOf(n)) > StreamMaxBytes - Len(accepted)
    /\ Setup(NoXfer)
    /\ StreamFail

GetStatus ==
    /\ Setup(NoXfer)
    /\ state' = CASE state = "dnload_sync" -> "dnload_idle"
                  [] state = "manifest_sync" -> "error"
                  [] OTHER -> state
    /\ UNCHANGED <<next_block, accepted>>

\* Any request that is refused without changing the state, or only read.
OtherRequest ==
    /\ Setup(NoXfer)
    /\ UNCHANGED streamVars

ClrStatus ==
    /\ pc = "idle"
    /\ state = "error"
    /\ RestartStream

Abort ==
    /\ pc = "idle"
    /\ state \in {"idle", "dnload_sync", "dnload_idle"}
    /\ RestartStream

BusReset ==
    /\ pc = "idle"
    /\ RestartStream

(***************************************************************************)
(* ulx5m_flash_hw_test_req.                                                *)
(***************************************************************************)
ArmRequest ==
    /\ phase = "disarmed"
    /\ \E length \in 0 .. (SlotBytes + 1) : \E crc \in {Crc(file), Crc(<<>>)} :
           Setup(Arm(length, crc))
    /\ UNCHANGED streamVars

\* The magic bytes or the token are wrong.
BadArmRequest ==
    /\ phase = "disarmed"
    /\ Setup(BadArm)
    /\ UNCHANGED streamVars

FinishRequest ==
    /\ phase = "armed"
    /\ Len(received) = image_bytes
    /\ Setup(Finish)
    /\ UNCHANGED streamVars

----------------------------------------------------------------------------
(***************************************************************************)
(* The flash driver.  It accepts no address outside of the slot, and       *)
(* programs only cells it has found erased.  A command that fails, or is   *)
(* cut off, may have reached some of its cells.                            *)
(***************************************************************************)
Cells(address, n) == address .. (address + n - 1)

\* candidate_range
CandidateRange(address, n) ==
    /\ address >= SlotStart
    /\ n > 0 /\ n <= SlotBytes
    /\ address - SlotStart <= SlotBytes - n

CanErase ==
    /\ CandidateRange(next_page, EraseBytes)
    /\ next_page % EraseBytes = 0

EraseCells(cells) ==
    flash' = [a \in Addr |-> IF a \in cells THEN Erased ELSE flash[a]]

CanProgram ==
    /\ CandidateRange(next_page, Len(pending))
    /\ Len(pending) <= PageBytes - (next_page % PageBytes)
    /\ \A a \in Cells(next_page, Len(pending)) : flash[a] = Erased

ProgramCells(cells) ==
    flash' = [a \in Addr |-> IF a \in cells THEN pending[a - next_page + 1]
                                            ELSE flash[a]]

PageReadsBack ==
    \A i \in 1 .. Len(pending) : flash[next_page + i - 1] = pending[i]

(***************************************************************************)
(* ulx5m_flash_hw_test: arm_done and arm.  The slot must be erased from    *)
(* end to end, whatever the length of the image.                           *)
(***************************************************************************)
Complete(kind) == pc = "idle" /\ xfer.kind = kind /\ xfer' = NoXfer

\* Fault: the stream keeps its sink after a failure.
WriterFailsKeepsSink ==
    /\ phase' = "failed"
    /\ UNCHANGED <<sink, image_bytes, expected_crc>>

WriterFails ==
    /\ phase' = "failed"
    /\ sink' = FALSE
    /\ UNCHANGED <<image_bytes, expected_crc>>

\* ulx5m_flash_program_begin
ProgramBegin(size) ==
    /\ size > 0 /\ size <= SlotBytes
    /\ active' = TRUE
    /\ received' = <<>> /\ pending' = <<>>
    /\ next_page' = SlotStart /\ next_sector' = SlotStart

ArmDone ==
    /\ Complete("arm")
    /\ phase = "disarmed"
    /\ SlotErased
    /\ ProgramBegin(xfer.length)
    /\ image_bytes' = xfer.length
    /\ expected_crc' = xfer.crc
    /\ phase' = "armed"
    /\ sink' = TRUE
    /\ disturbed' = FALSE
    /\ UNCHANGED <<file, streamVars, flash, pc, fed, finalVars>>

\* Any condition of ArmDone may fail, and the chip may not answer.
ArmFails ==
    /\ Complete("arm") \/ Complete("badarm")
    /\ WriterFails
    /\ UNCHANGED <<file, streamVars, programVars, flash, pc, fed,
                   disturbed, finalVars>>

(***************************************************************************)
(* block_done and manifest_done of the stream, and the sink of the writer. *)
(***************************************************************************)
AcceptBlock ==
    /\ accepted' = accepted \o xfer.data
    /\ next_block' = next_block + 1
    /\ state' = "dnload_sync"

BlockDiscarded ==
    /\ ~sink
    /\ Complete("block")
    /\ AcceptBlock
    /\ UNCHANGED <<file, writerVars, programVars, flash, pc, fed,
                   disturbed, finalVars>>

FeedAccepts ==
    /\ phase = "armed"
    /\ active
    /\ Len(accepted) = Len(received)
    /\ Len(xfer.data) <= image_bytes - Len(received)

BlockFed ==
    /\ pc = "idle" /\ xfer.kind = "block"
    /\ sink
    /\ FeedAccepts
    /\ pc' = "feed"
    /\ fed' = 0
    /\ UNCHANGED <<file, streamVars, xfer, writerVars, programVars, flash,
                   disturbed, finalVars>>

BlockRefused ==
    /\ sink
    /\ Complete("block")
    /\ ~FeedAccepts
    /\ StreamFail
    /\ IF phase = "armed"
       THEN WriterFails /\ active' = FALSE
       ELSE UNCHANGED <<writerVars, active>>
    /\ UNCHANGED <<file, received, pending, next_page, next_sector, flash, pc,
                   fed, disturbed, finalVars>>

ManifestDone ==
    /\ Complete("manifest")
    /\ state' = "manifest_sync"
    /\ UNCHANGED <<file, next_block, accepted, writerVars, programVars, flash,
                   pc, fed, disturbed, finalVars>>

(***************************************************************************)
(* ulx5m_flash_program_feed: bytes up to the end of the page or the block. *)
(***************************************************************************)
FeedBytes ==
    /\ pc = "feed"
    /\ fed < Len(xfer.data)
    /\ LET n == Smaller(PageBytes - Len(pending), Len(xfer.data) - fed)
           bytes == SubSeq(xfer.data, fed + 1, fed + n)
       IN  /\ pending' = pending \o bytes
           /\ received' = received \o bytes
           /\ fed' = fed + n
           /\ pc' = IF Len(pending) + n = PageBytes THEN "erase" ELSE "feed"
    /\ UNCHANGED <<file, streamVars, xfer, writerVars, active, next_page,
                   next_sector, flash, disturbed, finalVars>>

FeedDone ==
    /\ pc = "feed"
    /\ fed = Len(xfer.data)
    /\ AcceptBlock
    /\ xfer' = NoXfer
    /\ pc' = "idle"
    /\ fed' = 0
    /\ UNCHANGED <<file, writerVars, programVars, flash, disturbed, finalVars>>

(***************************************************************************)
(* flush_page: erase the sector when the page is its first, program the    *)
(* page, read it back.                                                     *)
(***************************************************************************)
SkipErase ==
    /\ pc = "erase"
    /\ next_page # next_sector
    /\ pc' = "program"
    /\ UNCHANGED <<file, streamVars, xfer, writerVars, programVars, flash, fed,
                   disturbed, finalVars>>

EraseSector ==
    /\ pc = "erase"
    /\ next_page = next_sector
    /\ CanErase
    /\ EraseCells(Cells(next_page, EraseBytes))
    /\ next_sector' = next_sector + EraseBytes
    /\ pc' = "program"
    /\ UNCHANGED <<file, streamVars, xfer, writerVars, active, received,
                   pending, next_page, fed, disturbed, finalVars>>

ProgramPage ==
    /\ pc = "program"
    /\ CanProgram
    /\ ProgramCells(Cells(next_page, Len(pending)))
    /\ pc' = "verify"
    /\ UNCHANGED <<file, streamVars, xfer, writerVars, programVars, fed,
                   disturbed, finalVars>>

VerifyPage ==
    /\ pc = "verify"
    /\ PageReadsBack
    /\ next_page' = next_page + PageBytes
    /\ pending' = <<>>
    /\ pc' = IF xfer.kind = "block" THEN "feed" ELSE "readback"
    /\ UNCHANGED <<file, streamVars, xfer, writerVars, active, received,
                   next_sector, flash, fed, disturbed, finalVars>>

\* enable_write fails, because the chip stays busy or its latch stays clear:
\* the command is not sent.
NotEnabled == UNCHANGED flash

\* What a command that fails, or is cut off, leaves in the flash.
TornFlash ==
    \/ NotEnabled
    \/ /\ pc = "erase" /\ next_page = next_sector /\ CanErase
       /\ \E cells \in SUBSET Cells(next_page, EraseBytes) : EraseCells(cells)
    \/ /\ pc = "program" /\ CanProgram
       /\ \E cells \in SUBSET Cells(next_page, Len(pending)) :
              ProgramCells(cells)

EndReadback == readback' = <<>> /\ late' = FALSE

\* The driver reports a failure, or the page or the image does not read back.
CallbackFails ==
    /\ pc \in {"erase", "program", "verify", "readback"}
    /\ TornFlash
    /\ WriterFails
    /\ active' = FALSE
    /\ state' = IF xfer.kind = "block" THEN "error" ELSE state
    /\ xfer' = NoXfer
    /\ pc' = "idle"
    /\ fed' = 0
    /\ EndReadback
    /\ UNCHANGED <<file, next_block, accepted, received, pending, next_page,
                   next_sector, disturbed>>

(***************************************************************************)
(* finish_done and ulx5m_flash_program_finish.                             *)
(***************************************************************************)
FinishAccepts ==
    /\ phase = "armed"
    /\ active
    /\ Len(received) = image_bytes
    /\ Crc(received) = expected_crc

FinishDone ==
    /\ pc = "idle" /\ xfer.kind = "finish"
    /\ FinishAccepts
    /\ pc' = IF pending = <<>> THEN "readback" ELSE "erase"
    /\ UNCHANGED <<file, streamVars, xfer, writerVars, programVars, flash, fed,
                   disturbed, finalVars>>

FinishFails ==
    /\ Complete("finish")
    /\ ~FinishAccepts
    /\ WriterFails
    /\ active' = IF phase = "armed" /\ Len(received) = image_bytes
                 THEN FALSE ELSE active
    /\ UNCHANGED <<file, streamVars, received, pending, next_page, next_sector,
                   flash, pc, fed, disturbed, finalVars>>

\* The next piece of the image is read into the checksum.
ReadPiece ==
    /\ pc = "readback"
    /\ Len(readback) < image_bytes
    /\ LET n == Smaller(PageBytes, image_bytes - Len(readback))
       IN  readback' = readback
             \o SubSeq(SlotContents(image_bytes), Len(readback) + 1,
                       Len(readback) + n)
    /\ UNCHANGED <<file, streamVars, xfer, writerVars, programVars, flash, pc,
                   fed, disturbed, late>>

\* The writer reports the image as verified.
Verified ==
    /\ pc = "readback"
    /\ active' = FALSE
    /\ phase' = "verified"
    /\ sink' = FALSE
    /\ xfer' = NoXfer
    /\ pc' = "idle"
    /\ EndReadback
    /\ UNCHANGED <<file, streamVars, image_bytes, expected_crc, received,
                   pending, next_page, next_sector, flash, fed, disturbed>>

\* Fault: the pages, each read back once, are taken for the image.
ReadbackSkipped == Verified

Readback ==
    /\ Len(readback) = image_bytes
    /\ Crc(readback) = expected_crc
    /\ Verified

----------------------------------------------------------------------------
(***************************************************************************)
(* The surroundings: a cell of the slot changes by itself during a         *)
(* session, another tool erases the slot, the power fails.                 *)
(***************************************************************************)
Disturb ==
    /\ phase = "armed"
    /\ ~disturbed
    /\ \E a \in Slot, b \in Byte :
           /\ flash' = [flash EXCEPT ![a] = b]
           /\ late' = (late \/ a < SlotStart + Len(readback))
    /\ disturbed' = TRUE
    /\ UNCHANGED <<file, streamVars, xfer, writerVars, programVars, pc, fed,
                   readback>>

ToolErases ==
    /\ phase = "disarmed"
    /\ EraseCells(Slot)
    /\ UNCHANGED <<file, streamVars, xfer, writerVars, programVars, pc, fed,
                   disturbed, finalVars>>

PowerCut ==
    /\ TornFlash
    /\ file' \in Files
    /\ state' = "idle" /\ next_block' = 0 /\ accepted' = <<>>
    /\ xfer' = NoXfer
    /\ phase' = "disarmed" /\ sink' = FALSE
    /\ image_bytes' = 0 /\ expected_crc' = Crc(<<>>)
    /\ active' = FALSE /\ received' = <<>> /\ pending' = <<>>
    /\ next_page' = SlotStart /\ next_sector' = SlotStart
    /\ pc' = "idle" /\ fed' = 0
    /\ EndReadback
    /\ UNCHANGED disturbed

Blocks == 0 .. (Len(file) \div BlockBytes + 1)

Request ==
    \/ \E n \in Blocks : DnloadBlock(n) \/ DnloadEnd(n) \/ DnloadFails(n)
    \/ GetStatus \/ OtherRequest \/ ClrStatus \/ Abort
    \/ ArmRequest \/ BadArmRequest \/ FinishRequest

Completion ==
    \/ ArmDone \/ ArmFails
    \/ BlockDiscarded \/ BlockFed \/ BlockRefused \/ ManifestDone
    \/ FinishDone \/ FinishFails

Callback ==
    \/ FeedBytes \/ FeedDone
    \/ SkipErase \/ EraseSector \/ ProgramPage \/ VerifyPage
    \/ ReadPiece \/ Readback \/ CallbackFails

Next ==
    \/ Request
    \/ Completion
    \/ Callback
    \/ BusReset
    \/ Disturb
    \/ ToolErases
    \/ PowerCut

Spec == Init /\ [][Next]_vars

----------------------------------------------------------------------------
\* The first n bytes of a sequence.
Prefix(n, bytes) == SubSeq(bytes, 1, n)

\* Every variable has its type, and the program never runs past its image.
TypeOK ==
    /\ file \in Files
    /\ state \in State /\ next_block \in Nat /\ accepted \in Seq(Byte)
    /\ Len(accepted) <= StreamMaxBytes
    /\ xfer.kind \in {"none", "block", "manifest", "arm", "badarm", "finish"}
    /\ phase \in Phase
    /\ sink \in BOOLEAN /\ active \in BOOLEAN
    /\ image_bytes \in 0 .. SlotBytes
    /\ expected_crc \in CrcVal
    /\ received \in Seq(Byte) /\ pending \in Seq(Byte)
    /\ next_page \in Nat /\ next_sector \in Nat
    /\ flash \in [Addr -> Byte]
    /\ pc \in PC
    /\ fed \in Nat
    /\ disturbed \in BOOLEAN
    /\ readback \in Seq(Byte) /\ late \in BOOLEAN

\* The stream, the writer and the program agree on whether a session is on:
\* the sink is set and the program accepts bytes exactly when the writer is
\* armed, so no block reaches the flash after a failure, an abort or a reset.
SessionAgrees == (sink <=> phase = "armed") /\ (active <=> phase = "armed")

\* What the stream has accepted is the beginning of the host's file, whatever
\* blocks the host has repeated, skipped or sent without seeing their end, within
\* the limit of the stream, and an armed program that has bytes has the same ones.
AcceptedInOrder ==
    /\ Len(accepted) <= StreamMaxBytes
    /\ Len(accepted) <= Len(file) /\ accepted = Prefix(Len(accepted), file)
    /\ phase = "armed" /\ pc = "idle" => received \in {<<>>, accepted}

\* Between two requests of a session, and when it has been verified, the slot
\* holds the bytes of this session in its pages already written, and nothing
\* else: what an interrupted session left behind is never taken over.
Written == Len(received) - Len(pending)

SlotSession ==
    phase \in {"armed", "verified"} /\ pc = "idle" /\ ~disturbed =>
        \A i \in 1 .. SlotBytes :
            flash[SlotStart + i - 1] =
                IF i <= Written THEN received[i] ELSE Erased

\* The writer reports an image as verified only when the slot has the checksum
\* the host armed it with, also if a cell changed after its page had been
\* programmed and read back, up to the moment the final read-back, piece by
\* piece, has passed it; a change behind the read-back's back is not seen.
VerifiedReadBack ==
    [][phase # "verified" /\ phase' = "verified" /\ ~late =>
           /\ image_bytes > 0 /\ Len(received) = image_bytes
           /\ Crc(SlotContents(image_bytes)') = expected_crc]_vars
=============================================================================
