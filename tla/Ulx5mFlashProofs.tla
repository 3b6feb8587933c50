-------------------------- MODULE Ulx5mFlashProofs --------------------------
(***************************************************************************)
(* Proofs about Ulx5mFlash, for every geometry of the flash, every size of *)
(* a block and every set of files.                                         *)
(***************************************************************************)
EXTENDS Ulx5mFlash, TLAPS, SequenceTheorems

(***************************************************************************)
(* The inductive invariant.  Files and sequences are compared byte by      *)
(* byte.  Pages says where the bytes received and not yet written belong;  *)
(* SlotHolds is SlotSession for every place of a callback.                 *)
(***************************************************************************)
XferShape ==
    /\ xfer.kind = "block" =>
         /\ xfer.data \in Seq(Byte) /\ Len(xfer.data) > 0
         /\ Len(accepted) + Len(xfer.data) <= StreamMaxBytes
         /\ Len(accepted) + Len(xfer.data)
              = Smaller((next_block + 1) * BlockBytes, Len(file))
         /\ \A i \in 1 .. Len(xfer.data) :
              xfer.data[i] = file[Len(accepted) + i]
    /\ xfer.kind = "arm" => xfer.length \in Nat /\ xfer.crc \in CrcVal

XferPhase ==
    /\ xfer.kind \in {"arm", "badarm"} => phase = "disarmed"
    /\ xfer.kind = "finish" => phase = "armed" /\ Len(received) = image_bytes

Control ==
    /\ pc # "idle" => phase = "armed" /\ xfer.kind \in {"block", "finish"}
    /\ pc = "feed" => xfer.kind = "block"
    /\ pc = "readback" => xfer.kind = "finish"

StreamOrder ==
    /\ Len(accepted) = Smaller(next_block * BlockBytes, Len(file))
    /\ \A i \in 1 .. Len(accepted) : accepted[i] = file[i]

FeedOrder ==
    phase = "armed" =>
      /\ image_bytes > 0
      /\ Len(received) <= image_bytes
      /\ Len(received) <= Len(file)
      /\ \A i \in 1 .. Len(received) : received[i] = file[i]
      /\ pc = "idle" => Len(received) \in {0, Len(accepted)}
      /\ pc # "idle" /\ xfer.kind = "block" =>
           /\ Len(received) = Len(accepted) + fed
           /\ fed <= Len(xfer.data)
           /\ Len(accepted) + Len(xfer.data) <= image_bytes

Pages ==
    phase = "armed" =>
      /\ Len(pending) <= Len(received) /\ Len(pending) <= PageBytes
      /\ \A i \in 1 .. Len(pending) : pending[i] = received[Written + i]
      /\ pc # "readback" => next_page = SlotStart + Written
      /\ pc \in {"idle", "feed"} => Len(pending) < PageBytes
      /\ pc \in {"erase", "program", "verify"} /\ xfer.kind = "block" =>
           Len(pending) = PageBytes
      /\ pc = "readback" => Len(pending) = 0

Programmed == IF pc = "verify" THEN Len(received) ELSE Written

SlotHolds ==
    phase \in {"armed", "verified"} /\ ~disturbed =>
      \A i \in 1 .. SlotBytes :
        flash[SlotStart + i - 1] =
          IF i <= Programmed THEN received[i] ELSE Erased

\* What the final read-back has read is still there, unless a cell changed
\* behind it.
ReadOrder ==
    /\ pc # "readback" => readback = <<>> /\ ~late
    /\ Len(readback) <= image_bytes
    /\ ~late => \A i \in 1 .. Len(readback) :
                  readback[i] = flash[SlotStart + i - 1]

IInv ==
    /\ TypeOK /\ SessionAgrees
    /\ XferShape /\ XferPhase /\ Control
    /\ StreamOrder /\ FeedOrder /\ Pages /\ SlotHolds /\ ReadOrder

-----------------------------------------------------------------------------
(***************************************************************************)
(* Types and sequences.                                                    *)
(***************************************************************************)

\* What the assumptions and the type invariant say of numbers and sequences.
LEMMA Basics ==
    ASSUME TypeOK
    PROVE  /\ FlashBytes \in Nat /\ SlotStart \in Nat
           /\ SlotBytes \in Nat /\ SlotBytes > 0
           /\ PageBytes \in Nat /\ PageBytes > 0
           /\ EraseBytes \in Nat /\ EraseBytes > 0
           /\ BlockBytes \in Nat /\ BlockBytes > 0
           /\ StreamMaxBytes \in Nat
           /\ SlotStart + SlotBytes <= FlashBytes
           /\ file \in Seq(Byte) /\ Len(file) \in Nat
           /\ accepted \in Seq(Byte) /\ Len(accepted) \in Nat
           /\ received \in Seq(Byte) /\ Len(received) \in Nat
           /\ pending \in Seq(Byte) /\ Len(pending) \in Nat
           /\ next_block \in Nat /\ fed \in Nat
           /\ image_bytes \in 0 .. SlotBytes
           /\ next_page \in Nat /\ next_sector \in Nat
           /\ flash \in [Addr -> Byte]
           /\ Erased \in Byte
           /\ readback \in Seq(Byte) /\ Len(readback) \in Nat
<1>1. file \in Seq(Byte) /\ accepted \in Seq(Byte) /\ received \in Seq(Byte)
      /\ pending \in Seq(Byte) /\ readback \in Seq(Byte)
    BY DataAssumption DEF TypeOK
<1>2. /\ Len(file) \in Nat /\ Len(accepted) \in Nat /\ Len(received) \in Nat
      /\ Len(pending) \in Nat /\ Len(readback) \in Nat
    BY <1>1, LenProperties
<1> QED BY <1>1, <1>2, GeometryAssumption, DataAssumption DEF TypeOK

\* The block after those accepted continues the file where they end.
LEMMA BlockShape ==
    ASSUME TypeOK, StreamOrder
    PROVE  LET block == BlockOf(next_block) IN
           /\ block \in Seq(Byte)
           /\ Len(block) \in Nat
           /\ Len(block) > 0 =>
                /\ Len(accepted) + Len(block)
                     = Smaller((next_block + 1) * BlockBytes, Len(file))
                /\ \A i \in 1 .. Len(block) :
                     block[i] = file[Len(accepted) + i]
<1> DEFINE m == next_block * BlockBytes
           e == Smaller(m + BlockBytes, Len(file))
<1>1. /\ next_block \in Nat /\ BlockBytes \in Nat /\ BlockBytes > 0
      /\ file \in Seq(Byte) /\ Len(file) \in Nat
    BY Basics
<1>2. m \in Nat /\ (next_block + 1) * BlockBytes = m + BlockBytes
    BY <1>1
<1>3. BlockOf(next_block) = SubSeq(file, m + 1, e)
    BY <1>2 DEF BlockOf
<1> HIDE DEF m
<1>4. e \in Nat /\ e <= Len(file) /\ e <= m + BlockBytes
    BY <1>1, <1>2 DEF Smaller
<1>5. \A i \in (m + 1) .. e : file[i] \in Byte
    BY <1>1, <1>2, <1>4, ElementOfSeq
<1>6. /\ SubSeq(file, m + 1, e) \in Seq(Byte)
      /\ Len(SubSeq(file, m + 1, e)) = IF m + 1 <= e THEN e - (m + 1) + 1 ELSE 0
      /\ \A i \in 1 .. e - (m + 1) + 1 :
           SubSeq(file, m + 1, e)[i] = file[m + 1 + i - 1]
    BY <1>1, <1>2, <1>4, <1>5, SubSeqProperties
<1>7. CASE m + 1 <= e
    <2>1. Len(BlockOf(next_block)) = e - m
        BY <1>2, <1>3, <1>4, <1>6, <1>7
    <2>2. Len(accepted) = m
        BY <1>1, <1>2, <1>4, <1>7 DEF StreamOrder, Smaller, m
    <2>3. ASSUME NEW i \in 1 .. e - m
          PROVE  BlockOf(next_block)[i] = file[Len(accepted) + i]
        <3>1. i \in 1 .. e - (m + 1) + 1 /\ m + 1 + i - 1 = m + i
            BY <1>2, <1>4, <2>3
        <3>2. SubSeq(file, m + 1, e)[i] = file[m + 1 + i - 1]
            BY <1>6, <3>1
        <3> QED BY <1>3, <2>2, <3>1, <3>2
    <2>4. /\ Len(BlockOf(next_block)) \in Nat
          /\ Len(accepted) + Len(BlockOf(next_block)) = e
        BY <1>2, <1>4, <1>7, <2>1, <2>2
    <2>5. e = Smaller((next_block + 1) * BlockBytes, Len(file))
        BY <1>2
    <2>6. BlockOf(next_block) \in Seq(Byte)
        BY <1>3, <1>6
    <2> QED BY <2>1, <2>3, <2>4, <2>5, <2>6
<1>8. CASE ~(m + 1 <= e)
    BY <1>2, <1>3, <1>4, <1>6, <1>8
<1> QED BY <1>7, <1>8

\* Accepting the pending block continues the stream in the file's order.
LEMMA AcceptShape ==
    ASSUME TypeOK, XferShape, StreamOrder, xfer.kind = "block", AcceptBlock
    PROVE  /\ accepted' \in Seq(Byte)
           /\ next_block' = next_block + 1 /\ next_block' \in Nat
           /\ state' \in State
           /\ Len(accepted') = Len(accepted) + Len(xfer.data)
           /\ Len(accepted') <= StreamMaxBytes
           /\ Len(accepted') = Smaller(next_block' * BlockBytes, Len(file))
           /\ \A i \in 1 .. Len(accepted') : accepted'[i] = file[i]
<1>1. /\ xfer.data \in Seq(Byte) /\ Len(xfer.data) \in Nat
      /\ accepted \in Seq(Byte) /\ Len(accepted) \in Nat
    BY Basics, LenProperties DEF XferShape
<1>2. accepted' = accepted \o xfer.data
    BY DEF AcceptBlock
<1>3. /\ accepted' \in Seq(Byte)
      /\ Len(accepted') = Len(accepted) + Len(xfer.data)
      /\ \A i \in 1 .. Len(accepted) + Len(xfer.data) :
           accepted'[i] = IF i <= Len(accepted) THEN accepted[i]
                                                ELSE xfer.data[i - Len(accepted)]
    BY <1>1, <1>2, ConcatProperties
<1>4. \A i \in 1 .. Len(accepted') : accepted'[i] = file[i]
    <2>1. TAKE i \in 1 .. Len(accepted')
    <2>2. CASE i <= Len(accepted)
        BY <1>1, <1>3, <2>2 DEF StreamOrder
    <2>3. CASE ~(i <= Len(accepted))
        <3>1. i - Len(accepted) \in 1 .. Len(xfer.data)
            BY <1>1, <1>3, <2>3
        <3>2. xfer.data[i - Len(accepted)] = file[Len(accepted) + (i - Len(accepted))]
            BY <3>1 DEF XferShape
        <3> QED BY <1>1, <1>3, <2>3, <3>1, <3>2
    <2> QED BY <2>2, <2>3
<1>5. next_block' = next_block + 1 /\ next_block' \in Nat /\ state' \in State
    <2>1. next_block \in Nat
        BY Basics
    <2> QED BY <2>1 DEF AcceptBlock, State
<1> QED BY <1>3, <1>4, <1>5 DEF XferShape

\* The next bytes of the pending block go to the page and to the count.
LEMMA FeedShape ==
    ASSUME TypeOK, XferShape, Control, FeedOrder, Pages, FeedBytes
    PROVE  \E n \in Nat :
             /\ n > 0 /\ fed + n <= Len(xfer.data)
             /\ Len(pending) + n <= PageBytes
             /\ fed' = fed + n
             /\ received' \in Seq(Byte) /\ Len(received') = Len(received) + n
             /\ pending' \in Seq(Byte) /\ Len(pending') = Len(pending) + n
             /\ \A i \in 1 .. Len(received) : received'[i] = received[i]
             /\ \A i \in 1 .. n :
                  received'[Len(received) + i] = file[Len(received) + i]
             /\ \A i \in 1 .. Len(pending) : pending'[i] = pending[i]
             /\ \A i \in 1 .. n :
                  pending'[Len(pending) + i] = received'[Len(received) + i]
             /\ pc' = IF Len(pending) + n = PageBytes THEN "erase" ELSE "feed"
<1> DEFINE n == Smaller(PageBytes - Len(pending), Len(xfer.data) - fed)
           bytes == SubSeq(xfer.data, fed + 1, fed + n)
<1>1. pc = "feed" /\ fed < Len(xfer.data) /\ xfer.kind = "block" /\ phase = "armed"
    BY DEF FeedBytes, Control
<1>2. /\ xfer.data \in Seq(Byte) /\ Len(xfer.data) \in Nat
      /\ fed \in Nat /\ Len(received) \in Nat /\ Len(accepted) \in Nat
      /\ Len(pending) \in Nat /\ PageBytes \in Nat
      /\ received \in Seq(Byte) /\ pending \in Seq(Byte)
      /\ Len(pending) < PageBytes
      /\ Len(received) = Len(accepted) + fed
    BY <1>1, Basics, LenProperties DEF XferShape, Pages, FeedOrder
<1>3. /\ n \in Nat /\ n > 0 /\ fed + n <= Len(xfer.data)
      /\ Len(pending) + n <= PageBytes
    BY <1>1, <1>2 DEF Smaller
<1>4. /\ pending' = pending \o bytes
      /\ received' = received \o bytes
      /\ fed' = fed + n
      /\ pc' = IF Len(pending) + n = PageBytes THEN "erase" ELSE "feed"
    BY DEF FeedBytes
<1> HIDE DEF n
<1>5. \A i \in (fed + 1) .. (fed + n) : xfer.data[i] \in Byte
    BY <1>2, <1>3, ElementOfSeq
<1>6. /\ bytes \in Seq(Byte) /\ Len(bytes) = n
      /\ \A i \in 1 .. n : bytes[i] = xfer.data[fed + i]
    <2>1. /\ SubSeq(xfer.data, fed + 1, fed + n) \in Seq(Byte)
          /\ Len(SubSeq(xfer.data, fed + 1, fed + n)) =
               IF fed + 1 <= fed + n THEN (fed + n) - (fed + 1) + 1 ELSE 0
          /\ \A i \in 1 .. (fed + n) - (fed + 1) + 1 :
               SubSeq(xfer.data, fed + 1, fed + n)[i] = xfer.data[fed + 1 + i - 1]
        BY <1>2, <1>3, <1>5, SubSeqProperties
    <2>2. (fed + n) - (fed + 1) + 1 = n
        BY <1>2, <1>3
    <2>3. \A i \in 1 .. n : fed + 1 + i - 1 = fed + i
        BY <1>2, <1>3
    <2> QED BY <1>2, <1>3, <2>1, <2>2, <2>3
<1> HIDE DEF bytes
<1>7. /\ received' \in Seq(Byte) /\ Len(received') = Len(received) + n
      /\ \A i \in 1 .. Len(received) + n :
           received'[i] = IF i <= Len(received) THEN received[i]
                                                ELSE bytes[i - Len(received)]
    BY <1>2, <1>4, <1>6, ConcatProperties
<1>8. /\ pending' \in Seq(Byte) /\ Len(pending') = Len(pending) + n
      /\ \A i \in 1 .. Len(pending) + n :
           pending'[i] = IF i <= Len(pending) THEN pending[i]
                                              ELSE bytes[i - Len(pending)]
    BY <1>2, <1>4, <1>6, ConcatProperties
<1>9. \A i \in 1 .. n :
        /\ received'[Len(received) + i] = bytes[i]
        /\ pending'[Len(pending) + i] = bytes[i]
    <2>1. TAKE i \in 1 .. n
    <2>2. Len(received) + i \in 1 .. Len(received) + n
          /\ ~(Len(received) + i <= Len(received))
          /\ (Len(received) + i) - Len(received) = i
        BY <1>2, <1>3
    <2>3. Len(pending) + i \in 1 .. Len(pending) + n
          /\ ~(Len(pending) + i <= Len(pending))
          /\ (Len(pending) + i) - Len(pending) = i
        BY <1>2, <1>3
    <2> QED BY <1>7, <1>8, <2>2, <2>3
<1>10. \A i \in 1 .. n : bytes[i] = file[Len(received) + i]
    <2>1. TAKE i \in 1 .. n
    <2>2. fed + i \in 1 .. Len(xfer.data)
        BY <1>2, <1>3
    <2>3. xfer.data[fed + i] = file[Len(accepted) + (fed + i)]
        BY <1>1, <2>2 DEF XferShape
    <2>4. Len(accepted) + (fed + i) = Len(received) + i
        BY <1>2, <1>3
    <2> QED BY <1>6, <2>3, <2>4
<1>11. \A i \in 1 .. Len(received) : received'[i] = received[i]
    BY <1>2, <1>3, <1>7
<1>12. \A i \in 1 .. Len(pending) : pending'[i] = pending[i]
    BY <1>2, <1>3, <1>8
<1> QED BY <1>3, <1>4, <1>7, <1>8, <1>9, <1>10, <1>11, <1>12

-----------------------------------------------------------------------------
(***************************************************************************)
(* The steps of Next.  A request only leaves a callback, of the right      *)
(* shape, and perhaps another state of the stream.                         *)
(***************************************************************************)
SetupStep ==
    /\ pc = "idle"
    /\ xfer'.kind \in {"none", "block", "manifest", "arm", "badarm", "finish"}
    /\ state' \in State
    /\ XferShape' /\ XferPhase'
    /\ UNCHANGED <<file, next_block, accepted, writerVars, programVars, flash,
                   pc, fed, disturbed, finalVars>>

Restart == pc = "idle" /\ RestartStream

LEMMA RequestStep ==
    ASSUME TypeOK, XferShape, StreamOrder, Request
    PROVE  SetupStep \/ Restart
<1>1. CASE \E n \in Blocks : DnloadBlock(n)
    <2>1. PICK n \in Blocks : DnloadBlock(n)
        BY <1>1
    <2>2. /\ n = next_block /\ pc = "idle" /\ xfer' = Block(BlockOf(n))
          /\ Len(BlockOf(n)) > 0
          /\ Len(BlockOf(n)) <= StreamMaxBytes - Len(accepted)
          /\ UNCHANGED <<file, state, next_block, accepted, writerVars,
                         programVars, flash, pc, fed, disturbed, finalVars>>
        BY <2>1 DEF DnloadBlock, Setup, streamVars
    <2>3. xfer'.kind = "block" /\ xfer'.data = BlockOf(next_block)
        BY <2>2 DEF Block
    <2>4. XferShape'
        <3>1. /\ xfer'.data \in Seq(Byte)
              /\ Len(xfer'.data) \in Nat /\ Len(xfer'.data) > 0
              /\ Len(accepted) + Len(xfer'.data)
                   = Smaller((next_block + 1) * BlockBytes, Len(file))
              /\ \A i \in 1 .. Len(xfer'.data) :
                   xfer'.data[i] = file[Len(accepted) + i]
            BY <2>2, <2>3, BlockShape
        <3>2. Len(accepted) \in Nat /\ StreamMaxBytes \in Nat
            BY Basics
        <3>3. Len(accepted) + Len(xfer'.data) <= StreamMaxBytes
            BY <2>2, <2>3, <3>1, <3>2
        <3>4. UNCHANGED <<file, next_block, accepted>>
            BY <2>2
        <3>5. xfer'.kind # "arm"
            BY <2>3
        <3> QED BY <3>1, <3>3, <3>4, <3>5 DEF XferShape
    <2> QED BY <2>2, <2>3, <2>4 DEF SetupStep, XferPhase, TypeOK
<1>2. CASE \E n \in Blocks : DnloadEnd(n)
    BY <1>2 DEF DnloadEnd, Setup, streamVars, Manifest, SetupStep, XferShape, XferPhase,
       TypeOK, writerVars, programVars
<1>3. CASE \E n \in Blocks : DnloadFails(n)
    BY <1>3 DEF DnloadFails, Setup, StreamFail, NoXfer, SetupStep, XferShape, XferPhase,
       State
<1>4. CASE GetStatus
    BY <1>4 DEF GetStatus, Setup, NoXfer, SetupStep, XferShape, XferPhase,
       State, TypeOK
<1>5. CASE OtherRequest
    BY <1>5 DEF OtherRequest, Setup, streamVars, NoXfer, SetupStep, XferShape, XferPhase,
       TypeOK, writerVars, programVars
<1>6. CASE ArmRequest
    <2>1. PICK length \in 0 .. (SlotBytes + 1), crc \in {Crc(file), Crc(<<>>)} :
            Setup(Arm(length, crc))
        BY <1>6 DEF ArmRequest
    <2>2. crc \in CrcVal /\ length \in Nat
        <3>1. SlotBytes \in Nat
            BY Basics
        <3>2. Crc(file) \in CrcVal /\ Crc(<<>>) \in CrcVal
            BY DataAssumption DEF TypeOK
        <3> QED BY <2>1, <3>1, <3>2
    <2>3. /\ xfer'.kind = "arm" /\ xfer'.length = length /\ xfer'.crc = crc
          /\ pc = "idle" /\ UNCHANGED streamVars
          /\ UNCHANGED <<file, writerVars, programVars, flash, pc, fed, disturbed,
                         finalVars>>
        BY <1>6, <2>1 DEF ArmRequest, Setup, Arm
    <2> QED BY <1>6, <2>2, <2>3 DEF ArmRequest, SetupStep, XferShape, XferPhase,
            TypeOK, streamVars, writerVars
<1>7. CASE BadArmRequest
    BY <1>7 DEF BadArmRequest, Setup, streamVars, BadArm, SetupStep, XferShape, XferPhase,
       TypeOK, writerVars, programVars
<1>8. CASE FinishRequest
    BY <1>8 DEF FinishRequest, Setup, streamVars, Finish, SetupStep, XferShape, XferPhase,
       TypeOK, writerVars, programVars
<1>9. CASE ClrStatus \/ Abort
    BY <1>9 DEF ClrStatus, Abort, Restart
<1> QED BY <1>1, <1>2, <1>3, <1>4, <1>5, <1>6, <1>7, <1>8, <1>9 DEF Request

\* The steps of Next, each by itself.
LEMMA NextActions ==
    ASSUME TypeOK, XferShape, StreamOrder, Next
    PROVE  \/ SetupStep \/ Restart
           \/ ArmDone \/ ArmFails
           \/ BlockDiscarded \/ BlockFed \/ BlockRefused \/ ManifestDone
           \/ FinishDone \/ FinishFails
           \/ FeedBytes \/ FeedDone
           \/ SkipErase \/ EraseSector \/ ProgramPage \/ VerifyPage
           \/ ReadPiece \/ Readback \/ CallbackFails
           \/ Disturb \/ ToolErases \/ PowerCut
    BY RequestStep DEF Next, Completion, Callback, BusReset, Restart

\* Whatever a command reaches before it fails, a cell holds a byte.
LEMMA TornFlashType ==
    ASSUME TypeOK, TornFlash
    PROVE  flash' \in [Addr -> Byte]
<1>1. CASE flash' = flash
    BY <1>1, Basics
<1>2. ASSUME NEW cells, EraseCells(cells)
      PROVE  flash' \in [Addr -> Byte]
    BY <1>2, Basics DEF EraseCells
<1>3. ASSUME NEW cells \in SUBSET Cells(next_page, Len(pending)),
             ProgramCells(cells)
      PROVE  flash' \in [Addr -> Byte]
    <2>1. \A a \in cells : a - next_page + 1 \in 1 .. Len(pending)
        <3>1. next_page \in Nat /\ Len(pending) \in Nat
            BY Basics
        <3>2. \A a \in Cells(next_page, Len(pending)) :
                a - next_page + 1 \in 1 .. Len(pending)
            BY <3>1 DEF Cells
        <3> QED BY <3>2
    <2>2. \A a \in cells : pending[a - next_page + 1] \in Byte
        BY <2>1, Basics, ElementOfSeq
    <2> QED BY <1>3, <2>2, Basics DEF ProgramCells
<1> QED BY <1>1, <1>2, <1>3 DEF TornFlash, NotEnabled

-----------------------------------------------------------------------------
(***************************************************************************)
(* Each part of the invariant is preserved.                                *)
(***************************************************************************)
\* No other step than those of the final read-back touches what it has read.
LEMMA FinalKept ==
    ASSUME \/ SetupStep \/ Restart \/ ArmDone \/ ArmFails \/ BlockDiscarded
           \/ BlockFed \/ BlockRefused \/ ManifestDone \/ FinishDone \/ FinishFails
           \/ FeedBytes \/ FeedDone \/ SkipErase \/ EraseSector \/ ProgramPage
           \/ VerifyPage \/ ToolErases
    PROVE  UNCHANGED finalVars
<1>1. CASE SetupStep \/ Restart \/ ArmDone \/ ArmFails \/ BlockDiscarded
    BY <1>1 DEF SetupStep, Restart, RestartStream, ArmDone, ArmFails, BlockDiscarded
<1>2. CASE BlockFed \/ BlockRefused \/ ManifestDone \/ FinishDone \/ FinishFails
    BY <1>2 DEF BlockFed, BlockRefused, ManifestDone, FinishDone, FinishFails
<1>3. CASE \/ FeedBytes \/ FeedDone \/ SkipErase \/ EraseSector \/ ProgramPage
           \/ VerifyPage \/ ToolErases
    BY <1>3 DEF FeedBytes, FeedDone, SkipErase, EraseSector, ProgramPage,
       VerifyPage, ToolErases
<1> QED BY <1>1, <1>2, <1>3

\* A piece continues what has been read with the bytes the flash now holds.
LEMMA PieceShape ==
    ASSUME TypeOK, ReadPiece
    PROVE  \E n \in Nat :
             /\ n > 0 /\ Len(readback) + n <= image_bytes
             /\ readback' \in Seq(Byte) /\ Len(readback') = Len(readback) + n
             /\ \A i \in 1 .. Len(readback) : readback'[i] = readback[i]
             /\ \A i \in 1 .. n :
                  readback'[Len(readback) + i]
                    = flash[SlotStart + (Len(readback) + i) - 1]
<1> DEFINE n == Smaller(PageBytes, image_bytes - Len(readback))
           image == SlotContents(image_bytes)
           k == Len(readback)
           bytes == SubSeq(image, k + 1, k + n)
<1>1. /\ PageBytes \in Nat /\ PageBytes > 0 /\ SlotStart \in Nat
      /\ SlotBytes \in Nat /\ image_bytes \in Nat /\ image_bytes <= SlotBytes
      /\ SlotStart + SlotBytes <= FlashBytes /\ FlashBytes \in Nat
      /\ flash \in [Addr -> Byte]
      /\ readback \in Seq(Byte) /\ k \in Nat
    BY Basics
<1>2. k < image_bytes /\ readback' = readback \o bytes
    BY DEF ReadPiece
<1>3. n \in Nat /\ n > 0 /\ k + n <= image_bytes
    BY <1>1, <1>2 DEF Smaller
<1>4. \A i \in 1 .. image_bytes :
        /\ image[i] = flash[SlotStart + i - 1] /\ image[i] \in Byte
    <2>1. \A i \in 1 .. image_bytes : SlotStart + i - 1 \in Addr
        BY <1>1 DEF Addr
    <2> QED BY <1>1, <2>1 DEF SlotContents
<1>5. image \in Seq(Byte) /\ Len(image) = image_bytes
    <2>1. image \in [1 .. image_bytes -> Byte]
        BY <1>4 DEF SlotContents
    <2> QED BY <1>1, <2>1, SeqDef, LenProperties
<1> HIDE DEF n, image
<1>6. \A i \in (k + 1) .. (k + n) : image[i] \in Byte
    BY <1>1, <1>3, <1>4
<1>7. /\ bytes \in Seq(Byte) /\ Len(bytes) = n
      /\ \A i \in 1 .. n : bytes[i] = image[k + i]
    <2>1. /\ SubSeq(image, k + 1, k + n) \in Seq(Byte)
          /\ Len(SubSeq(image, k + 1, k + n)) =
               IF k + 1 <= k + n THEN (k + n) - (k + 1) + 1 ELSE 0
          /\ \A i \in 1 .. (k + n) - (k + 1) + 1 :
               SubSeq(image, k + 1, k + n)[i] = image[k + 1 + i - 1]
        BY <1>1, <1>3, <1>5, <1>6, SubSeqProperties
    <2>2. (k + n) - (k + 1) + 1 = n
        BY <1>1, <1>3
    <2>3. \A i \in 1 .. n : k + 1 + i - 1 = k + i
        BY <1>1, <1>3
    <2> QED BY <1>1, <1>3, <2>1, <2>2, <2>3
<1> HIDE DEF bytes
<1>8. /\ readback' \in Seq(Byte) /\ Len(readback') = k + n
      /\ \A i \in 1 .. k + n :
           readback'[i] = IF i <= k THEN readback[i] ELSE bytes[i - k]
    BY <1>1, <1>2, <1>7, ConcatProperties
<1>9. \A i \in 1 .. k : readback'[i] = readback[i]
    BY <1>1, <1>3, <1>8
<1>10. ASSUME NEW i \in 1 .. n
       PROVE  readback'[k + i] = flash[SlotStart + (k + i) - 1]
    <2>1. /\ k + i \in 1 .. k + n /\ ~(k + i <= k) /\ (k + i) - k = i
          /\ k + i \in 1 .. image_bytes
        BY <1>1, <1>3
    <2>2. readback'[k + i] = image[k + i]
        BY <1>7, <1>8, <2>1
    <2> QED BY <1>4, <2>1, <2>2
<1> QED BY <1>3, <1>8, <1>9, <1>10

\* What the final read-back has read are bytes.
LEMMA FinalType ==
    ASSUME IInv, Next
    PROVE  readback' \in Seq(Byte) /\ late' \in BOOLEAN
<1>0. TypeOK /\ XferShape /\ StreamOrder
    BY DEF IInv
<1>1. CASE \/ SetupStep \/ Restart \/ ArmDone \/ ArmFails \/ BlockDiscarded
           \/ BlockFed \/ BlockRefused \/ ManifestDone \/ FinishDone \/ FinishFails
           \/ FeedBytes \/ FeedDone \/ SkipErase \/ EraseSector \/ ProgramPage
           \/ VerifyPage \/ ToolErases
    <2>1. UNCHANGED finalVars
        BY <1>1, FinalKept
    <2> QED BY <1>0, <2>1 DEF finalVars, TypeOK
<1>2. CASE Readback \/ CallbackFails \/ PowerCut
    <2>1. readback' = <<>> /\ late' = FALSE
        BY <1>2 DEF Readback, Verified, CallbackFails, PowerCut, EndReadback
    <2> QED BY <2>1, EmptySeq
<1>3. CASE Disturb
    BY <1>0, <1>3 DEF Disturb, TypeOK
<1>4. CASE ReadPiece
    BY <1>0, <1>4, PieceShape DEF ReadPiece, TypeOK
<1> QED BY <1>0, NextActions, <1>1, <1>2, <1>3, <1>4

LEMMA TypeStep ==
    ASSUME IInv, Next
    PROVE  TypeOK'
<1>0. TypeOK /\ XferShape /\ Control /\ StreamOrder /\ FeedOrder /\ Pages
    BY DEF IInv
<1>f. readback' \in Seq(Byte) /\ late' \in BOOLEAN
    BY FinalType
<1>1. CASE SetupStep
    BY <1>0, <1>f, <1>1 DEF SetupStep, TypeOK, writerVars, programVars
<1>2. CASE Restart
    <2>1. xfer'.kind = "none" /\ file' \in Files
        BY <1>2 DEF Restart, RestartStream, NoXfer
    <2>2. state' \in State /\ next_block' = 0 /\ accepted' = <<>>
        BY <1>2 DEF Restart, RestartStream, StreamReset, State
    <2>3. phase' \in Phase /\ sink' = FALSE /\ active' = FALSE /\ image_bytes' = 0
          /\ expected_crc' = Crc(<<>>)
        BY <1>2 DEF Restart, RestartStream, StreamReset, WriterReset, Phase
    <2>4. UNCHANGED <<received, pending, next_page, next_sector, flash, pc, fed,
                      disturbed>>
        BY <1>2 DEF Restart, RestartStream, StreamReset, WriterReset
    <2>5. <<>> \in Seq(Byte) /\ Len(<<>>) = 0 /\ StreamMaxBytes \in Nat
          /\ SlotBytes \in Nat /\ Crc(<<>>) \in CrcVal
        BY <1>0, Basics, EmptySeq, DataAssumption
    <2>6. /\ next_block' \in Nat /\ accepted' \in Seq(Byte)
          /\ Len(accepted') <= StreamMaxBytes
          /\ image_bytes' \in 0 .. SlotBytes /\ expected_crc' \in CrcVal
        BY <2>2, <2>3, <2>5
    <2>7. sink' \in BOOLEAN /\ active' \in BOOLEAN
        BY <2>3
    <2> QED BY <1>0, <1>f, <2>1, <2>2, <2>3, <2>4, <2>6, <2>7 DEF TypeOK
<1>3. CASE ArmDone
    <2>1. xfer.length \in 1 .. SlotBytes /\ xfer.crc \in CrcVal
        <3>1. /\ xfer.kind = "arm" /\ xfer.length > 0
              /\ xfer.length <= SlotBytes
            BY <1>3 DEF ArmDone, ProgramBegin, Complete
        <3>2. xfer.length \in Nat /\ xfer.crc \in CrcVal
            BY <1>0, <3>1 DEF XferShape
        <3>3. SlotBytes \in Nat
            BY <1>0, Basics
        <3> QED BY <3>1, <3>2, <3>3
    <2>2. /\ xfer'.kind = "none" /\ phase' \in Phase
          /\ sink' = TRUE /\ active' = TRUE /\ disturbed' = FALSE
          /\ received' = <<>> /\ pending' = <<>>
          /\ next_page' = SlotStart /\ next_sector' = SlotStart
          /\ image_bytes' = xfer.length /\ expected_crc' = xfer.crc
          /\ UNCHANGED <<file, state, next_block, accepted, flash, pc, fed>>
        BY <1>3 DEF ArmDone, ProgramBegin, Complete, NoXfer, Phase, streamVars
    <2>3. <<>> \in Seq(Byte) /\ SlotStart \in Nat /\ SlotBytes \in Nat
        BY <1>0, Basics, EmptySeq
    <2>4. /\ received' \in Seq(Byte) /\ pending' \in Seq(Byte)
          /\ next_page' \in Nat /\ next_sector' \in Nat
          /\ image_bytes' \in 0 .. SlotBytes /\ expected_crc' \in CrcVal
        BY <2>1, <2>2, <2>3
    <2>5. sink' \in BOOLEAN /\ active' \in BOOLEAN /\ disturbed' \in BOOLEAN
        BY <2>2
    <2> QED BY <1>0, <1>f, <2>2, <2>4, <2>5 DEF TypeOK
<1>4. CASE ArmFails
    <2>1. /\ xfer'.kind = "none" /\ phase' \in Phase
          /\ UNCHANGED <<file, state, next_block, accepted, image_bytes,
                         expected_crc, active, received, pending, next_page,
                         next_sector, flash, pc, fed, disturbed>>
        BY <1>4 DEF ArmFails, WriterFails, Complete, NoXfer, Phase, streamVars,
           programVars
    <2>2. sink' \in BOOLEAN
        BY <1>4 DEF ArmFails, WriterFails
    <2> QED BY <1>0, <1>f, <2>1, <2>2 DEF TypeOK
<1>20. CASE FinishFails
    <2>1. /\ xfer'.kind = "none" /\ phase' \in Phase
          /\ UNCHANGED <<file, state, next_block, accepted, image_bytes,
                         expected_crc, received, pending, next_page, next_sector,
                         flash, pc, fed, disturbed>>
        BY <1>20 DEF FinishFails, WriterFails, Complete, NoXfer, Phase, streamVars
    <2>2. (active' = active \/ active' = FALSE) /\ sink' = FALSE
        BY <1>20 DEF FinishFails, WriterFails
    <2>3. active' \in BOOLEAN /\ sink' \in BOOLEAN
        BY <1>0, <2>2 DEF TypeOK
    <2> QED BY <1>0, <1>f, <2>1, <2>3 DEF TypeOK
<1>5. CASE BlockDiscarded
    <2>1. xfer.kind = "block" /\ AcceptBlock
        BY <1>5 DEF BlockDiscarded, Complete
    <2> QED BY <1>0, <1>f, <1>5, <2>1, AcceptShape
            DEF BlockDiscarded, Complete, NoXfer, TypeOK, writerVars, programVars
<1>6. CASE BlockFed \/ FinishDone
    BY <1>0, <1>f, <1>6 DEF BlockFed, FinishDone, TypeOK, PC, streamVars, writerVars,
       programVars
<1>7. CASE BlockRefused
    BY <1>0, <1>f, <1>7 DEF BlockRefused, StreamFail, WriterFails, Complete, NoXfer,
       TypeOK, State, Phase, writerVars
<1>8. CASE ManifestDone
    BY <1>0, <1>f, <1>8 DEF ManifestDone, Complete, NoXfer, TypeOK, State, writerVars,
       programVars
<1>9. CASE FeedBytes
    <2>1. /\ received' \in Seq(Byte) /\ pending' \in Seq(Byte) /\ fed' \in Nat
          /\ pc' \in PC
        <3>1. PICK n \in Nat :
                /\ fed' = fed + n
                /\ received' \in Seq(Byte) /\ pending' \in Seq(Byte)
                /\ pc' = IF Len(pending) + n = PageBytes THEN "erase" ELSE "feed"
            BY <1>0, <1>9, FeedShape
        <3>2. fed \in Nat
            BY <1>0, Basics
        <3> QED BY <3>1, <3>2 DEF PC
    <2> QED BY <1>0, <1>f, <1>9, <2>1 DEF FeedBytes, TypeOK, streamVars, writerVars
<1>10. CASE FeedDone
    <2>1. xfer.kind = "block" /\ AcceptBlock
        BY <1>0, <1>10 DEF FeedDone, Control
    <2> QED BY <1>0, <1>f, <1>10, <2>1, AcceptShape
            DEF FeedDone, NoXfer, TypeOK, PC, writerVars, programVars
<1>11. CASE SkipErase
    BY <1>0, <1>f, <1>11 DEF SkipErase, TypeOK, PC, streamVars, writerVars, programVars
<1>12. CASE EraseSector
    <2>1. flash' \in [Addr -> Byte] /\ next_sector' \in Nat
        <3>1. /\ next_sector \in Nat /\ EraseBytes \in Nat
              /\ flash \in [Addr -> Byte] /\ Erased \in Byte
            BY <1>0, Basics
        <3>2. /\ next_sector' = next_sector + EraseBytes
              /\ EraseCells(Cells(next_page, EraseBytes))
            BY <1>12 DEF EraseSector
        <3>3. flash' \in [Addr -> Byte]
            BY <3>1, <3>2 DEF EraseCells
        <3> QED BY <3>1, <3>2, <3>3
    <2> QED BY <1>0, <1>f, <1>12, <2>1 DEF EraseSector, TypeOK, PC, streamVars, writerVars
<1>13. CASE ProgramPage
    <2>1. TornFlash
        BY <1>13 DEF ProgramPage, TornFlash, NotEnabled
    <2>2. flash' \in [Addr -> Byte]
        BY <1>0, <2>1, TornFlashType
    <2> QED BY <1>0, <1>f, <1>13, <2>2
            DEF ProgramPage, TypeOK, PC, streamVars, writerVars, programVars
<1>14. CASE VerifyPage
    <2>1. next_page' \in Nat /\ pending' \in Seq(Byte)
        <3>1. next_page \in Nat /\ PageBytes \in Nat
            BY <1>0, Basics
        <3>2. next_page' = next_page + PageBytes /\ pending' = <<>>
            BY <1>14 DEF VerifyPage
        <3> QED BY <3>1, <3>2, EmptySeq
    <2> QED BY <1>0, <1>f, <1>14, <2>1 DEF VerifyPage, TypeOK, PC, streamVars, writerVars
<1>21. CASE ReadPiece
    BY <1>0, <1>f, <1>21 DEF ReadPiece, TypeOK, streamVars, writerVars, programVars
<1>15. CASE Readback
    BY <1>0, <1>f, <1>15 DEF Readback, Verified, NoXfer, TypeOK, PC, Phase, streamVars
<1>16. CASE CallbackFails
    BY <1>0, <1>f, <1>16, TornFlashType
    DEF CallbackFails, WriterFails, NoXfer, TypeOK, PC, Phase, State
<1>17. CASE Disturb
    <2>1. flash' \in [Addr -> Byte]
        BY <1>0, <1>17, Basics DEF Disturb, Slot, Addr
    <2> QED BY <1>0, <1>f, <1>17, <2>1 DEF Disturb, TypeOK, streamVars, writerVars,
            programVars
<1>18. CASE ToolErases
    <2>1. flash' \in [Addr -> Byte]
        BY <1>0, <1>18, Basics DEF ToolErases, EraseCells
    <2> QED BY <1>0, <1>f, <1>18, <2>1 DEF ToolErases, TypeOK, streamVars, writerVars,
            programVars
<1>19. CASE PowerCut
    <2>1. flash' \in [Addr -> Byte]
        BY <1>0, <1>19, TornFlashType DEF PowerCut
    <2>2. xfer'.kind = "none" /\ file' \in Files
        BY <1>19 DEF PowerCut, NoXfer
    <2>3. state' \in State /\ phase' \in Phase /\ pc' \in PC
        BY <1>19 DEF PowerCut, State, Phase, PC
    <2>4. /\ next_block' = 0 /\ accepted' = <<>> /\ sink' = FALSE
          /\ active' = FALSE /\ image_bytes' = 0 /\ expected_crc' = Crc(<<>>)
          /\ received' = <<>> /\ pending' = <<>> /\ next_page' = SlotStart
          /\ next_sector' = SlotStart /\ fed' = 0 /\ disturbed' = disturbed
        BY <1>19 DEF PowerCut
    <2>5. <<>> \in Seq(Byte) /\ Len(<<>>) = 0 /\ StreamMaxBytes \in Nat
          /\ SlotBytes \in Nat /\ SlotStart \in Nat /\ Crc(<<>>) \in CrcVal
        BY <1>0, Basics, EmptySeq, DataAssumption
    <2>6. /\ next_block' \in Nat /\ accepted' \in Seq(Byte)
          /\ Len(accepted') <= StreamMaxBytes
          /\ image_bytes' \in 0 .. SlotBytes /\ expected_crc' \in CrcVal
          /\ received' \in Seq(Byte) /\ pending' \in Seq(Byte)
          /\ next_page' \in Nat /\ next_sector' \in Nat /\ fed' \in Nat
        BY <2>4, <2>5
    <2>7. sink' \in BOOLEAN /\ active' \in BOOLEAN /\ disturbed' \in BOOLEAN
        BY <1>0, <2>4 DEF TypeOK
    <2> QED BY <1>f, <2>1, <2>2, <2>3, <2>6, <2>7 DEF TypeOK
<1> QED BY <1>0, NextActions, <1>1, <1>2, <1>3, <1>4, <1>5, <1>6, <1>7, <1>8,
           <1>9, <1>10, <1>11, <1>12, <1>13, <1>14, <1>15, <1>16, <1>17, <1>18,
           <1>19, <1>20, <1>21

\* Sink, program and writer go on and off together.
LEMMA SessionStep ==
    ASSUME IInv, Next
    PROVE  SessionAgrees'
<1>0. TypeOK /\ XferShape /\ XferPhase /\ Control /\ StreamOrder /\ SessionAgrees
    BY DEF IInv
<1>1. CASE \/ SetupStep \/ BlockDiscarded \/ BlockFed \/ ManifestDone \/ FinishDone
           \/ FeedBytes \/ FeedDone \/ SkipErase \/ EraseSector \/ ProgramPage
           \/ VerifyPage \/ ReadPiece \/ Disturb \/ ToolErases
    <2>1. sink' = sink /\ active' = active /\ phase' = phase
        BY <1>1 DEF SetupStep, BlockDiscarded, BlockFed, ManifestDone, FinishDone,
           FeedBytes, FeedDone, SkipErase, EraseSector, ProgramPage, VerifyPage,
           ReadPiece, Disturb, ToolErases, writerVars, programVars
    <2> QED BY <1>0, <2>1 DEF SessionAgrees
<1>2. CASE Restart \/ PowerCut
    BY <1>2 DEF Restart, RestartStream, StreamReset, WriterReset, PowerCut,
       SessionAgrees
<1>3. CASE ArmDone
    BY <1>3 DEF ArmDone, ProgramBegin, SessionAgrees
<1>4. CASE ArmFails
    <2>1. phase = "disarmed" /\ active' = active /\ sink' = FALSE /\ phase' = "failed"
        BY <1>0, <1>4 DEF ArmFails, Complete, XferPhase, WriterFails, programVars
    <2> QED BY <1>0, <2>1 DEF SessionAgrees
<1>5. CASE BlockRefused
    <2>1. phase = "armed"
        BY <1>0, <1>5 DEF BlockRefused, SessionAgrees
    <2> QED BY <1>5, <2>1 DEF BlockRefused, WriterFails, SessionAgrees
<1>6. CASE FinishFails
    <2>1. phase = "armed" /\ Len(received) = image_bytes
        BY <1>0, <1>6 DEF FinishFails, Complete, XferPhase
    <2> QED BY <1>6, <2>1 DEF FinishFails, WriterFails, SessionAgrees
<1>7. CASE Readback
    BY <1>7 DEF Readback, Verified, SessionAgrees
<1>8. CASE CallbackFails
    BY <1>8 DEF CallbackFails, WriterFails, SessionAgrees
<1> QED BY <1>0, NextActions, <1>1, <1>2, <1>3, <1>4, <1>5, <1>6, <1>7, <1>8

\* A pending callback is what its request left; a callback that runs belongs
\* to a writer that is armed.
LEMMA XferStep ==
    ASSUME IInv, Next
    PROVE  XferShape' /\ XferPhase' /\ Control'
<1>0. TypeOK /\ XferShape /\ XferPhase /\ Control /\ StreamOrder /\ SessionAgrees
    BY DEF IInv
<1>1. CASE SetupStep
    BY <1>1 DEF SetupStep, Control
<1>2. CASE \/ Restart \/ ArmDone \/ ArmFails \/ BlockDiscarded \/ BlockRefused
           \/ ManifestDone \/ FinishFails \/ FeedDone \/ Readback \/ CallbackFails
           \/ PowerCut
    <2>1. xfer' = NoXfer /\ pc' = "idle"
        <3>1. CASE Restart
            BY <3>1 DEF Restart, RestartStream
        <3>2. CASE ArmDone \/ ArmFails \/ BlockDiscarded
            BY <3>2 DEF ArmDone, ProgramBegin, ArmFails, BlockDiscarded, Complete
        <3>3. CASE BlockRefused \/ ManifestDone \/ FinishFails
            BY <3>3 DEF BlockRefused, ManifestDone, FinishFails, Complete
        <3>4. CASE FeedDone \/ Readback \/ CallbackFails \/ PowerCut
            BY <3>4 DEF FeedDone, Readback, Verified, CallbackFails, PowerCut
        <3> QED BY <1>2, <3>1, <3>2, <3>3, <3>4
    <2> QED BY <2>1 DEF NoXfer, XferShape, XferPhase, Control
<1>3. CASE \/ BlockFed \/ FinishDone \/ SkipErase \/ EraseSector \/ ProgramPage
           \/ VerifyPage \/ ReadPiece \/ Disturb \/ ToolErases
    <2>1. UNCHANGED <<file, accepted, next_block, xfer, phase, received, image_bytes>>
        BY <1>3 DEF BlockFed, FinishDone, SkipErase, EraseSector, ProgramPage,
           VerifyPage, ReadPiece, Disturb, ToolErases, streamVars, writerVars, programVars
    <2>2. XferShape' /\ XferPhase'
        BY <1>0, <2>1 DEF XferShape, XferPhase
    <2>3. CASE BlockFed
        BY <2>1, <2>2, <2>3 DEF BlockFed, FeedAccepts, Control
    <2>4. CASE FinishDone
        BY <2>1, <2>2, <2>4 DEF FinishDone, FinishAccepts, Control
    <2>5. CASE SkipErase \/ EraseSector \/ ProgramPage
        BY <1>0, <2>1, <2>2, <2>5 DEF SkipErase, EraseSector, ProgramPage, Control
    <2>6. CASE VerifyPage
        BY <1>0, <2>1, <2>2, <2>6 DEF VerifyPage, Control
    <2>7. CASE Disturb \/ ReadPiece \/ ToolErases
        BY <1>0, <2>1, <2>2, <2>7 DEF Disturb, ReadPiece, ToolErases, Control
    <2> QED BY <1>3, <2>2, <2>3, <2>4, <2>5, <2>6, <2>7
<1>4. CASE FeedBytes
    <2>1. UNCHANGED <<file, accepted, next_block, xfer, phase>>
        BY <1>4 DEF FeedBytes, streamVars, writerVars
    <2>2. pc = "feed" /\ pc' \in {"erase", "feed"}
        BY <1>4 DEF FeedBytes
    <2> QED BY <1>0, <2>1, <2>2 DEF XferShape, XferPhase, Control
<1> QED BY <1>0, NextActions, <1>1, <1>2, <1>3, <1>4

\* The stream holds the beginning of the file, up to a block's end.
LEMMA StreamStep ==
    ASSUME IInv, Next
    PROVE  StreamOrder'
<1>0. TypeOK /\ XferShape /\ XferPhase /\ Control /\ StreamOrder
    BY DEF IInv
<1>1. CASE BlockDiscarded \/ FeedDone
    <2>1. xfer.kind = "block" /\ AcceptBlock /\ file' = file
        BY <1>0, <1>1 DEF BlockDiscarded, FeedDone, Complete, Control
    <2> QED BY <1>0, <2>1, AcceptShape DEF StreamOrder
<1>2. CASE Restart \/ PowerCut
    <2>1. next_block' = 0 /\ accepted' = <<>> /\ file' \in Files
        BY <1>2 DEF Restart, RestartStream, StreamReset, PowerCut
    <2>2. Len(file') \in Nat /\ BlockBytes \in Nat /\ Len(<<>>) = 0
        BY <1>0, <2>1, Basics, DataAssumption, LenProperties, EmptySeq
    <2> QED BY <2>1, <2>2 DEF StreamOrder, Smaller
<1>3. CASE \/ SetupStep \/ ArmDone \/ ArmFails \/ BlockFed \/ BlockRefused
           \/ ManifestDone \/ FinishDone \/ FinishFails \/ FeedBytes \/ SkipErase
           \/ EraseSector \/ ProgramPage \/ VerifyPage \/ ReadPiece \/ Readback
           \/ CallbackFails \/ Disturb \/ ToolErases
    <2>1. UNCHANGED <<file, accepted, next_block>>
        BY <1>3 DEF SetupStep, ArmDone, ProgramBegin, ArmFails, BlockFed, BlockRefused,
           StreamFail, ManifestDone, FinishDone, FinishFails, FeedBytes,
           SkipErase, EraseSector, ProgramPage, VerifyPage, ReadPiece, Readback, Verified,
           CallbackFails, Disturb, ToolErases, streamVars
    <2> QED BY <1>0, <2>1 DEF StreamOrder
<1> QED BY <1>0, NextActions, <1>1, <1>2, <1>3

\* An armed writer has received the beginning of the file, or nothing.
LEMMA FeedStep ==
    ASSUME IInv, Next
    PROVE  FeedOrder'
<1>0. /\ TypeOK /\ XferShape /\ XferPhase /\ Control /\ StreamOrder
      /\ SessionAgrees /\ FeedOrder /\ Pages
    BY DEF IInv
<1>1. CASE \/ Restart \/ ArmFails \/ BlockRefused \/ FinishFails \/ Readback
           \/ CallbackFails \/ PowerCut
    <2>1. phase' # "armed"
        <3>1. CASE BlockRefused
            BY <3>1 DEF BlockRefused, WriterFails, writerVars
        <3>2. CASE Restart \/ PowerCut
            BY <3>2 DEF Restart, RestartStream, StreamReset, WriterReset, PowerCut
        <3>3. CASE ArmFails \/ FinishFails \/ CallbackFails \/ Readback
            BY <3>3 DEF ArmFails, FinishFails, CallbackFails, Readback, Verified, WriterFails
        <3> QED BY <1>1, <3>1, <3>2, <3>3
    <2> QED BY <2>1 DEF FeedOrder
<1>2. CASE SetupStep \/ ManifestDone
    <2>1. /\ pc = "idle" /\ pc' = "idle"
          /\ UNCHANGED <<file, accepted, phase, image_bytes, received>>
        BY <1>2 DEF SetupStep, ManifestDone, Complete, writerVars, programVars
    <2> QED BY <1>0, <2>1 DEF FeedOrder
<1>3. CASE ArmDone
    <2>1. /\ image_bytes' = xfer.length /\ xfer.length > 0 /\ xfer.length \in Nat
          /\ received' = <<>> /\ pc' = "idle" /\ file' = file
        BY <1>0, <1>3 DEF ArmDone, ProgramBegin, Complete, XferShape
    <2>2. Len(<<>>) = 0 /\ Len(file) \in Nat
        BY <1>0, Basics, EmptySeq
    <2> QED BY <2>1, <2>2 DEF FeedOrder
<1>4. CASE BlockDiscarded
    <2>1. phase # "armed" /\ phase' = phase
        BY <1>0, <1>4 DEF BlockDiscarded, SessionAgrees, writerVars
    <2> QED BY <2>1 DEF FeedOrder
<1>5. CASE BlockFed
    <2>1. /\ pc = "idle" /\ xfer.kind = "block" /\ fed' = 0 /\ phase = "armed"
          /\ Len(accepted) = Len(received)
          /\ Len(xfer.data) <= image_bytes - Len(received)
          /\ UNCHANGED <<file, accepted, xfer, phase, image_bytes, received>>
        BY <1>5 DEF BlockFed, FeedAccepts, streamVars, writerVars, programVars
    <2>2. Len(xfer.data) \in Nat /\ Len(received) \in Nat /\ image_bytes \in Nat
        <3>1. xfer.data \in Seq(Byte)
            BY <1>0, <2>1 DEF XferShape
        <3>2. Len(xfer.data) \in Nat
            BY <3>1, LenProperties
        <3>3. Len(received) \in Nat /\ image_bytes \in Nat
            BY <1>0, Basics
        <3> QED BY <3>2, <3>3
    <2>3. /\ Len(received) = Len(accepted) + 0 /\ 0 <= Len(xfer.data)
          /\ Len(accepted) + Len(xfer.data) <= image_bytes
        BY <2>1, <2>2
    <2>4. pc' = "feed"
        BY <1>5 DEF BlockFed
    <2> QED BY <1>0, <2>1, <2>3, <2>4 DEF FeedOrder
<1>6. CASE FinishDone
    <2>1. /\ xfer.kind = "finish" /\ pc = "idle" /\ pc' # "idle"
          /\ UNCHANGED <<file, accepted, xfer, phase, image_bytes, received>>
        BY <1>6 DEF FinishDone, streamVars, writerVars, programVars
    <2> QED BY <1>0, <2>1 DEF FeedOrder
<1>7. CASE FeedBytes
    <2>1. /\ pc = "feed" /\ xfer.kind = "block" /\ phase = "armed"
          /\ UNCHANGED <<file, accepted, xfer, phase, image_bytes>>
        BY <1>0, <1>7 DEF FeedBytes, Control, streamVars, writerVars
    <2>2. PICK n \in Nat :
            /\ n > 0 /\ fed + n <= Len(xfer.data)
            /\ fed' = fed + n
            /\ Len(received') = Len(received) + n
            /\ \A i \in 1 .. Len(received) : received'[i] = received[i]
            /\ \A i \in 1 .. n :
                 received'[Len(received) + i] = file[Len(received) + i]
            /\ pc' = IF Len(pending) + n = PageBytes THEN "erase" ELSE "feed"
        BY <1>0, <1>7, FeedShape
    <2>3. /\ Len(received) \in Nat /\ Len(accepted) \in Nat /\ fed \in Nat
          /\ Len(xfer.data) \in Nat /\ image_bytes \in Nat /\ Len(file) \in Nat
          /\ next_block \in Nat /\ BlockBytes \in Nat
        <3>1. xfer.data \in Seq(Byte)
            BY <1>0, <2>1 DEF XferShape
        <3>2. Len(xfer.data) \in Nat
            BY <3>1, LenProperties
        <3>3. image_bytes \in Nat
            BY <1>0, Basics
        <3> QED BY <1>0, <3>2, <3>3, Basics
    <2>4. /\ image_bytes > 0 /\ Len(received) = Len(accepted) + fed
          /\ Len(accepted) + Len(xfer.data) <= image_bytes
          /\ \A i \in 1 .. Len(received) : received[i] = file[i]
        BY <1>0, <2>1 DEF FeedOrder
    <2>5. Len(accepted) + Len(xfer.data) <= Len(file)
        <3>1. (next_block + 1) * BlockBytes \in Nat
            BY <2>3
        <3>2. Len(accepted) + Len(xfer.data)
                = Smaller((next_block + 1) * BlockBytes, Len(file))
            BY <1>0, <2>1 DEF XferShape
        <3> QED BY <2>3, <3>1, <3>2 DEF Smaller
    <2>6. Len(received') <= image_bytes /\ Len(received') <= Len(file)
          /\ Len(received') = Len(accepted) + fed'
        BY <2>2, <2>3, <2>4, <2>5
    <2>7. \A i \in 1 .. Len(received') : received'[i] = file[i]
        <3>1. TAKE i \in 1 .. Len(received')
        <3>2. CASE i <= Len(received)
            <4>1. i \in 1 .. Len(received)
                BY <2>2, <2>3, <3>2
            <4> QED BY <2>2, <2>4, <4>1
        <3>3. CASE ~(i <= Len(received))
            <4>1. i - Len(received) \in 1 .. n
                  /\ Len(received) + (i - Len(received)) = i
                BY <2>2, <2>3, <3>3
            <4> QED BY <2>2, <4>1
        <3> QED BY <3>2, <3>3
    <2> QED BY <2>1, <2>2, <2>4, <2>6, <2>7 DEF FeedOrder
<1>8. CASE FeedDone
    <2>1. /\ pc = "feed" /\ xfer.kind = "block" /\ phase = "armed"
          /\ fed = Len(xfer.data) /\ pc' = "idle" /\ AcceptBlock
          /\ UNCHANGED <<file, phase, image_bytes, received>>
        BY <1>0, <1>8 DEF FeedDone, Control, writerVars, programVars
    <2>2. Len(accepted') = Len(accepted) + Len(xfer.data)
        BY <1>0, <2>1, AcceptShape
    <2> QED BY <1>0, <2>1, <2>2 DEF FeedOrder
<1>9. CASE \/ SkipErase \/ EraseSector \/ ProgramPage \/ VerifyPage
    <2>1. /\ UNCHANGED <<file, accepted, xfer, phase, image_bytes, received, fed>>
          /\ pc # "idle"
        BY <1>9 DEF SkipErase, EraseSector, ProgramPage, VerifyPage,
           streamVars, writerVars, programVars
    <2>2. pc' # "idle"
        BY <1>9 DEF SkipErase, EraseSector, ProgramPage, VerifyPage
    <2> QED BY <1>0, <2>1, <2>2 DEF FeedOrder
<1>10. CASE Disturb \/ ReadPiece \/ ToolErases
    <2>1. UNCHANGED <<file, accepted, xfer, phase, image_bytes, received, fed, pc>>
        BY <1>10 DEF Disturb, ReadPiece, ToolErases, streamVars, writerVars, programVars
    <2> QED BY <1>0, <2>1 DEF FeedOrder
<1> QED BY <1>0, NextActions, <1>1, <1>2, <1>3, <1>4, <1>5, <1>6, <1>7, <1>8,
           <1>9, <1>10

\* The page under way holds the last bytes received, and its place is the one
\* after the bytes written.
LEMMA PagesStep ==
    ASSUME IInv, Next
    PROVE  Pages'
<1>0. /\ TypeOK /\ XferShape /\ XferPhase /\ Control /\ StreamOrder
      /\ SessionAgrees /\ FeedOrder /\ Pages
    BY DEF IInv
<1>b. /\ Len(received) \in Nat /\ Len(pending) \in Nat /\ PageBytes \in Nat
      /\ PageBytes > 0 /\ SlotStart \in Nat /\ Len(<<>>) = 0
    BY <1>0, Basics, EmptySeq
<1>1. CASE \/ Restart \/ ArmFails \/ BlockRefused \/ FinishFails \/ Readback
           \/ CallbackFails \/ PowerCut
    <2>1. phase' # "armed"
        <3>1. CASE BlockRefused
            BY <3>1 DEF BlockRefused, WriterFails, writerVars
        <3>2. CASE Restart \/ PowerCut
            BY <3>2 DEF Restart, RestartStream, StreamReset, WriterReset, PowerCut
        <3>3. CASE ArmFails \/ FinishFails \/ CallbackFails \/ Readback
            BY <3>3 DEF ArmFails, FinishFails, CallbackFails, Readback, Verified, WriterFails
        <3> QED BY <1>1, <3>1, <3>2, <3>3
    <2> QED BY <2>1 DEF Pages
<1>2. CASE SetupStep \/ ManifestDone \/ BlockDiscarded
    <2>1. /\ pc = "idle" /\ pc' = "idle"
          /\ UNCHANGED <<phase, received, pending, next_page>>
        BY <1>2 DEF SetupStep, ManifestDone, BlockDiscarded, Complete, writerVars,
           programVars
    <2> QED BY <1>0, <2>1 DEF Pages, Written
<1>3. CASE ArmDone
    <2>1. /\ received' = <<>> /\ pending' = <<>> /\ next_page' = SlotStart
          /\ pc' = "idle"
        BY <1>3 DEF ArmDone, ProgramBegin, Complete
    <2> QED BY <1>b, <2>1 DEF Pages, Written
<1>4. CASE BlockFed
    <2>1. /\ pc = "idle" /\ pc' = "feed"
          /\ UNCHANGED <<phase, received, pending, next_page>>
        BY <1>4 DEF BlockFed, writerVars, programVars
    <2> QED BY <1>0, <2>1 DEF Pages, Written
<1>5. CASE FinishDone
    <2>1. /\ pc = "idle" /\ xfer.kind = "finish" /\ xfer' = xfer
          /\ pc' = IF pending = <<>> THEN "readback" ELSE "erase"
          /\ UNCHANGED <<phase, received, pending, next_page>>
        BY <1>5 DEF FinishDone, writerVars, programVars
    <2> QED BY <1>0, <1>b, <2>1 DEF Pages, Written
<1>6. CASE FeedBytes
    <2>1. /\ pc = "feed" /\ xfer.kind = "block" /\ phase = "armed"
          /\ UNCHANGED <<xfer, phase, next_page>>
        BY <1>0, <1>6 DEF FeedBytes, Control, writerVars
    <2>2. PICK n \in Nat :
            /\ n > 0
            /\ Len(pending) + n <= PageBytes
            /\ Len(received') = Len(received) + n
            /\ Len(pending') = Len(pending) + n
            /\ \A i \in 1 .. Len(received) : received'[i] = received[i]
            /\ \A i \in 1 .. Len(pending) : pending'[i] = pending[i]
            /\ \A i \in 1 .. n :
                 pending'[Len(pending) + i] = received'[Len(received) + i]
            /\ pc' = IF Len(pending) + n = PageBytes THEN "erase" ELSE "feed"
        BY <1>0, <1>6, FeedShape
    <2>3. Written' = Written /\ Written \in Nat /\ Len(received) = Written + Len(pending)
        BY <1>0, <1>b, <2>1, <2>2 DEF Written, Pages
    <2>4. \A i \in 1 .. Len(pending') : pending'[i] = received'[Written' + i]
        <3>1. TAKE i \in 1 .. Len(pending')
        <3>2. CASE i <= Len(pending)
            <4>1. i \in 1 .. Len(pending) /\ Written + i \in 1 .. Len(received)
                BY <1>b, <2>2, <2>3, <3>2
            <4>2. pending[i] = received[Written + i]
                BY <1>0, <2>1, <4>1 DEF Pages
            <4> QED BY <2>2, <2>3, <4>1, <4>2
        <3>3. CASE ~(i <= Len(pending))
            <4>1. /\ i - Len(pending) \in 1 .. n
                  /\ Len(pending) + (i - Len(pending)) = i
                  /\ Len(received) + (i - Len(pending)) = Written + i
                BY <1>b, <2>2, <2>3, <3>3
            <4> QED BY <2>2, <2>3, <4>1
        <3> QED BY <3>2, <3>3
    <2>5. next_page' = SlotStart + Written'
        BY <1>0, <2>1, <2>3 DEF Pages
    <2>6. Len(pending') \in Nat /\ Len(received') = Written' + Len(pending')
        BY <1>b, <2>2, <2>3
    <2>7. Len(pending') <= Len(received') /\ Len(pending') <= PageBytes
        BY <2>2, <2>3, <2>6
    <2>8. /\ pc' \in {"erase", "feed"}
          /\ pc' = "feed" => Len(pending') < PageBytes
          /\ pc' = "erase" => Len(pending') = PageBytes
        BY <1>b, <2>2, <2>6
    <2> QED BY <2>4, <2>5, <2>7, <2>8 DEF Pages
<1>7. CASE FeedDone
    <2>1. /\ pc = "feed" /\ pc' = "idle"
          /\ UNCHANGED <<phase, received, pending, next_page>>
        BY <1>7 DEF FeedDone, writerVars, programVars
    <2> QED BY <1>0, <2>1 DEF Pages, Written
<1>8. CASE \/ SkipErase \/ EraseSector \/ ProgramPage
    <2>1. /\ pc \in {"erase", "program"} /\ pc' \in {"program", "verify"}
          /\ UNCHANGED <<xfer, phase, received, pending, next_page>>
        BY <1>8 DEF SkipErase, EraseSector, ProgramPage, writerVars, programVars
    <2> QED BY <1>0, <2>1 DEF Pages, Written
<1>9. CASE VerifyPage
    <2>1. /\ pc = "verify" /\ pending' = <<>> /\ next_page' = next_page + PageBytes
          /\ pc' = IF xfer.kind = "block" THEN "feed" ELSE "readback"
          /\ UNCHANGED <<xfer, phase, received>>
        BY <1>9 DEF VerifyPage, writerVars
    <2>2. Written' = Len(received)
        BY <1>b, <2>1 DEF Written
    <2>3. phase = "armed" => next_page = SlotStart + Written
        BY <1>0, <2>1 DEF Pages
    <2>4. phase = "armed" /\ xfer.kind = "block" =>
            next_page' = SlotStart + Written'
        <3>1. phase = "armed" /\ xfer.kind = "block" => Len(pending) = PageBytes
            BY <1>0, <2>1 DEF Pages
        <3>2. Written = Len(received) - Len(pending)
            BY DEF Written
        <3> QED BY <1>b, <2>1, <2>2, <2>3, <3>1, <3>2
    <2>5. pc' # "readback" => xfer.kind = "block"
        BY <2>1
    <2>6. Len(pending') = 0 /\ Len(received') = Len(received)
        BY <1>b, <2>1
    <2>7. 1 .. Len(pending') = {}
        BY <2>6
    <2>8. pc' \in {"feed", "readback"}
        BY <2>1
    <2>9. phase' = "armed" /\ pc' # "readback" =>
            next_page' = SlotStart + Written'
        BY <2>1, <2>4, <2>5
    <2> QED BY <1>b, <2>6, <2>7, <2>8, <2>9 DEF Pages
<1>10. CASE Disturb \/ ReadPiece \/ ToolErases
    <2>1. UNCHANGED <<xfer, phase, received, pending, next_page, pc>>
        BY <1>10 DEF Disturb, ReadPiece, ToolErases, writerVars, programVars
    <2> QED BY <1>0, <2>1 DEF Pages, Written
<1> QED BY <1>0, NextActions, <1>1, <1>2, <1>3, <1>4, <1>5, <1>6, <1>7, <1>8,
           <1>9, <1>10

\* A cell of the slot is a cell of the chip.
LEMMA SlotCells ==
    ASSUME TypeOK, NEW i \in 1 .. SlotBytes
    PROVE  SlotStart + i - 1 \in Addr /\ SlotStart + i - 1 \in Slot
<1>1. /\ FlashBytes \in Nat /\ SlotStart \in Nat /\ SlotBytes \in Nat
      /\ SlotStart + SlotBytes <= FlashBytes
    BY Basics
<1>2. SlotStart + i - 1 \in Int
      /\ SlotStart <= SlotStart + i - 1
      /\ SlotStart + i - 1 <= SlotStart + SlotBytes - 1
    BY <1>1
<1> QED BY <1>1, <1>2 DEF Addr, Slot

\* What the slot holds follows the bytes written: a sector is erased only from
\* the page under way on, and a program of a page adds the bytes of the page.
LEMMA SlotStep ==
    ASSUME IInv, Next
    PROVE  SlotHolds'
<1>0. /\ TypeOK /\ XferShape /\ XferPhase /\ Control /\ StreamOrder
      /\ SessionAgrees /\ FeedOrder /\ Pages /\ SlotHolds
    BY DEF IInv
<1>b. /\ Len(received) \in Nat /\ Len(pending) \in Nat /\ PageBytes \in Nat
      /\ PageBytes > 0 /\ SlotStart \in Nat /\ SlotBytes \in Nat /\ Len(<<>>) = 0
    BY <1>0, Basics, EmptySeq
<1>1. CASE \/ Restart \/ ArmFails \/ BlockRefused \/ FinishFails
           \/ CallbackFails \/ PowerCut \/ ToolErases
    <2>1. phase' \notin {"armed", "verified"}
        <3>1. CASE BlockRefused
            BY <1>0, <3>1 DEF BlockRefused, WriterFails, writerVars, SessionAgrees
        <3>2. CASE Restart \/ PowerCut \/ ToolErases
            BY <3>2 DEF Restart, RestartStream, StreamReset, WriterReset, PowerCut,
               ToolErases, writerVars
        <3>3. CASE ArmFails \/ FinishFails \/ CallbackFails
            BY <3>3 DEF ArmFails, FinishFails, CallbackFails, WriterFails
        <3> QED BY <1>1, <3>1, <3>2, <3>3
    <2> QED BY <2>1 DEF SlotHolds
<1>2. CASE \/ SetupStep \/ ManifestDone \/ BlockDiscarded \/ BlockFed
           \/ FinishDone \/ FeedDone \/ SkipErase \/ ReadPiece
    <2>1. /\ pc # "verify" /\ pc' # "verify"
          /\ UNCHANGED <<phase, disturbed, received, pending, flash>>
        BY <1>2 DEF SetupStep, ManifestDone, BlockDiscarded, BlockFed, FinishDone,
           FeedDone, SkipErase, ReadPiece, Complete, writerVars, programVars
    <2> QED BY <1>0, <2>1 DEF SlotHolds, Programmed, Written
<1>3. CASE ArmDone
    <2>1. /\ received' = <<>> /\ pending' = <<>> /\ pc' = "idle"
          /\ flash' = flash /\ SlotErased
        BY <1>3 DEF ArmDone, ProgramBegin, Complete
    <2>2. Programmed' = 0
        BY <1>b, <2>1 DEF Programmed, Written
    <2>3. \A i \in 1 .. SlotBytes : flash'[SlotStart + i - 1] = Erased
        BY <1>0, <2>1, SlotCells DEF SlotErased
    <2> QED BY <2>2, <2>3 DEF SlotHolds
<1>4. CASE FeedBytes
    <2>1. /\ pc = "feed" /\ UNCHANGED <<phase, disturbed, flash>>
        BY <1>4 DEF FeedBytes, writerVars
    <2>2. PICK n \in Nat :
            /\ Len(received') = Len(received) + n
            /\ Len(pending') = Len(pending) + n
            /\ \A i \in 1 .. Len(received) : received'[i] = received[i]
            /\ pc' = IF Len(pending) + n = PageBytes THEN "erase" ELSE "feed"
        BY <1>0, <1>4, FeedShape
    <2>3. Programmed = Written /\ Written' = Written /\ Programmed' = Programmed
        BY <1>b, <2>1, <2>2 DEF Programmed, Written
    <2>4. Written \in Int /\ Written <= Len(received)
        BY <1>b DEF Written
    <2>5. ASSUME NEW i \in 1 .. SlotBytes, i <= Programmed'
          PROVE  received'[i] = received[i]
        <3>1. i \in 1 .. Len(received)
            BY <1>b, <2>3, <2>4, <2>5
        <3> QED BY <2>2, <3>1
    <2> QED BY <1>0, <2>1, <2>3, <2>5 DEF SlotHolds
<1>5. CASE EraseSector
    <2>1. /\ pc = "erase" /\ pc' = "program" /\ phase = "armed"
          /\ xfer.kind \in {"block", "finish"}
          /\ EraseCells(Cells(next_page, EraseBytes))
          /\ UNCHANGED <<phase, disturbed, received, pending>>
        BY <1>0, <1>5 DEF EraseSector, Control, writerVars
    <2>2. /\ Programmed = Written /\ Programmed' = Written
          /\ next_page = SlotStart + Written
        BY <1>0, <2>1 DEF Programmed, Written, Pages
    <2>3. Written \in Nat
        BY <1>0, <1>b, <2>1 DEF Pages, Written
    <2>4. \A i \in 1 .. SlotBytes :
            flash'[SlotStart + i - 1] =
              IF SlotStart + i - 1 \in Cells(next_page, EraseBytes)
              THEN Erased ELSE flash[SlotStart + i - 1]
        BY <1>0, <2>1, SlotCells DEF EraseCells
    <2>5. \A i \in 1 .. SlotBytes :
            SlotStart + i - 1 \in Cells(next_page, EraseBytes) =>
              ~(i <= Written)
        BY <1>b, <2>2, <2>3 DEF Cells
    <2> QED BY <1>0, <2>1, <2>2, <2>4, <2>5 DEF SlotHolds
<1>6. CASE ProgramPage
    <2>1. /\ pc = "program" /\ pc' = "verify" /\ phase = "armed"
          /\ ProgramCells(Cells(next_page, Len(pending)))
          /\ UNCHANGED <<phase, disturbed, received, pending>>
        BY <1>0, <1>6 DEF ProgramPage, Control, writerVars, programVars
    <2>2. /\ Programmed = Written /\ Programmed' = Len(received)
          /\ next_page = SlotStart + Written
        BY <1>0, <2>1 DEF Programmed, Written, Pages
    <2>3. Written \in Nat /\ Len(received) = Written + Len(pending)
        BY <1>0, <1>b, <2>1 DEF Pages, Written
    <2>4. ASSUME NEW i \in 1 .. SlotBytes, ~disturbed
          PROVE  flash'[SlotStart + i - 1] =
                   IF i <= Len(received) THEN received[i] ELSE Erased
        <3>1. flash'[SlotStart + i - 1] =
                IF SlotStart + i - 1 \in Cells(next_page, Len(pending))
                THEN pending[(SlotStart + i - 1) - next_page + 1]
                ELSE flash[SlotStart + i - 1]
            BY <1>0, <2>1, SlotCells DEF ProgramCells
        <3>2. SlotStart + i - 1 \in Cells(next_page, Len(pending))
                <=> Written < i /\ i <= Len(received)
            BY <1>b, <2>2, <2>3 DEF Cells
        <3>3. flash[SlotStart + i - 1] =
                IF i <= Written THEN received[i] ELSE Erased
            BY <1>0, <2>1, <2>2, <2>4 DEF SlotHolds
        <3>4. CASE Written < i /\ i <= Len(received)
            <4>1. /\ (SlotStart + i - 1) - next_page + 1 = i - Written
                  /\ i - Written \in 1 .. Len(pending)
                  /\ Written + (i - Written) = i
                BY <1>b, <2>2, <2>3, <3>4
            <4>2. pending[i - Written] = received[Written + (i - Written)]
                BY <1>0, <2>1, <4>1 DEF Pages
            <4> QED BY <3>1, <3>2, <3>4, <4>1, <4>2
        <3>5. CASE ~(Written < i /\ i <= Len(received))
            BY <1>b, <2>3, <3>1, <3>2, <3>3, <3>5
        <3> QED BY <3>4, <3>5
    <2> QED BY <2>1, <2>2, <2>4 DEF SlotHolds
<1>7. CASE VerifyPage
    <2>1. /\ pc = "verify" /\ pc' # "verify" /\ pending' = <<>>
          /\ UNCHANGED <<phase, disturbed, received, flash>>
        BY <1>7 DEF VerifyPage, writerVars
    <2>2. Programmed = Len(received) /\ Programmed' = Len(received)
        BY <1>b, <2>1 DEF Programmed, Written
    <2> QED BY <1>0, <2>1, <2>2 DEF SlotHolds
<1>8. CASE Readback
    <2>1. /\ pc = "readback" /\ pc' = "idle" /\ phase = "armed"
          /\ UNCHANGED <<disturbed, received, pending, flash>>
        BY <1>0, <1>8 DEF Readback, Verified, Control
    <2>2. Programmed' = Programmed
        BY <2>1 DEF Programmed, Written
    <2> QED BY <1>0, <2>1, <2>2 DEF SlotHolds
<1>9. CASE Disturb
    BY <1>9 DEF Disturb, SlotHolds
<1> QED BY <1>0, NextActions, <1>1, <1>2, <1>3, <1>4, <1>5, <1>6, <1>7, <1>8,
           <1>9

\* The final read-back holds what the cells it has passed still hold.
LEMMA ReadStep ==
    ASSUME IInv, Next
    PROVE  ReadOrder'
<1>0. TypeOK /\ XferShape /\ Control /\ StreamOrder /\ ReadOrder
    BY DEF IInv
<1>b. /\ SlotStart \in Nat /\ image_bytes \in Nat /\ Len(readback) \in Nat
      /\ Len(<<>>) = 0 /\ flash \in [Addr -> Byte]
    BY <1>0, Basics, EmptySeq
<1>i. image_bytes' \in Nat
    <2>1. image_bytes' \in 0 .. SlotBytes
        BY TypeStep DEF TypeOK
    <2> QED BY <2>1, GeometryAssumption
<1>1. CASE \/ SetupStep \/ Restart \/ ArmDone \/ ArmFails \/ BlockDiscarded
           \/ BlockFed \/ BlockRefused \/ ManifestDone \/ FinishDone \/ FinishFails
           \/ FeedBytes \/ FeedDone \/ SkipErase \/ EraseSector \/ ProgramPage
           \/ VerifyPage \/ ToolErases
    <2>1. readback' = readback /\ late' = late
        BY <1>1, FinalKept DEF finalVars
    <2>2. pc # "readback"
        <3>1. CASE \/ SetupStep \/ Restart \/ ArmDone \/ ArmFails
                   \/ BlockDiscarded \/ BlockFed \/ BlockRefused \/ ManifestDone
                   \/ FinishDone \/ FinishFails
            BY <3>1 DEF SetupStep, Restart, ArmDone, ArmFails, BlockDiscarded,
               BlockFed, BlockRefused, ManifestDone, FinishDone, FinishFails, Complete
        <3>2. CASE \/ FeedBytes \/ FeedDone \/ SkipErase \/ EraseSector
                   \/ ProgramPage \/ VerifyPage
            BY <3>2 DEF FeedBytes, FeedDone, SkipErase, EraseSector, ProgramPage,
               VerifyPage
        <3>3. CASE ToolErases
            BY <1>0, <3>3 DEF ToolErases, Control
        <3> QED BY <1>1, <3>1, <3>2, <3>3
    <2>3. readback' = <<>> /\ ~late'
        BY <1>0, <2>1, <2>2 DEF ReadOrder
    <2> QED BY <1>b, <1>i, <2>3 DEF ReadOrder
<1>2. CASE Readback \/ CallbackFails \/ PowerCut
    <2>1. readback' = <<>> /\ ~late'
        BY <1>2 DEF Readback, Verified, CallbackFails, PowerCut, EndReadback
    <2> QED BY <1>b, <1>i, <2>1 DEF ReadOrder
<1>3. CASE Disturb
    <2>1. PICK a \in Slot, b \in Byte :
            /\ flash' = [flash EXCEPT ![a] = b]
            /\ late' = (late \/ a < SlotStart + Len(readback))
        BY <1>3 DEF Disturb
    <2>2. readback' = readback /\ pc' = pc /\ image_bytes' = image_bytes
        BY <1>3 DEF Disturb, writerVars
    <2>3. CASE pc # "readback"
        <3>1. readback = <<>> /\ ~late /\ a \in Int /\ a >= SlotStart
            BY <1>0, <1>b, <2>3, GeometryAssumption DEF ReadOrder, Slot
        <3>2. ~(a < SlotStart + Len(readback))
            BY <1>b, <3>1
        <3>3. ~late'
            BY <2>1, <3>1, <3>2
        <3> QED BY <1>b, <2>2, <3>1, <3>3 DEF ReadOrder
    <2>4. CASE pc = "readback"
        <3>1. ASSUME ~late', NEW i \in 1 .. Len(readback)
              PROVE  readback[i] = flash'[SlotStart + i - 1]
            <4>1. ~late /\ ~(a < SlotStart + Len(readback))
                BY <2>1, <3>1
            <4>2. a \in Int
                BY GeometryAssumption DEF Slot
            <4>3. SlotStart + i - 1 # a
                BY <1>b, <4>1, <4>2
            <4>4. readback[i] = flash[SlotStart + i - 1]
                BY <1>0, <4>1 DEF ReadOrder
            <4> QED BY <1>b, <2>1, <4>3, <4>4
        <3> QED BY <1>0, <2>2, <2>4, <3>1 DEF ReadOrder
    <2> QED BY <2>3, <2>4
<1>4. CASE ReadPiece
    <2>1. PICK n \in Nat :
             /\ n > 0 /\ Len(readback) + n <= image_bytes
             /\ Len(readback') = Len(readback) + n
             /\ \A i \in 1 .. Len(readback) : readback'[i] = readback[i]
             /\ \A i \in 1 .. n :
                  readback'[Len(readback) + i]
                    = flash[SlotStart + (Len(readback) + i) - 1]
        BY <1>0, <1>4, PieceShape
    <2>2. /\ pc = "readback" /\ pc' = pc
          /\ UNCHANGED <<image_bytes, flash, late>>
        BY <1>4 DEF ReadPiece, writerVars
    <2>3. ASSUME ~late, NEW i \in 1 .. Len(readback')
          PROVE  readback'[i] = flash[SlotStart + i - 1]
        <3>1. CASE i <= Len(readback)
            <4>1. i \in 1 .. Len(readback)
                BY <1>b, <2>1, <3>1
            <4> QED BY <1>0, <2>1, <2>3, <4>1 DEF ReadOrder
        <3>2. CASE ~(i <= Len(readback))
            <4>1. i - Len(readback) \in 1 .. n
                  /\ Len(readback) + (i - Len(readback)) = i
                BY <1>b, <2>1, <3>2
            <4> QED BY <2>1, <4>1
        <3> QED BY <3>1, <3>2
    <2> QED BY <2>1, <2>2, <2>3 DEF ReadOrder
<1> QED BY <1>0, NextActions, <1>1, <1>2, <1>3, <1>4

-----------------------------------------------------------------------------
(***************************************************************************)
(* The invariant.                                                          *)
(***************************************************************************)

\* Nothing has been sent and the slot is erased.
LEMMA InitInvariant == Init => IInv
<1> SUFFICES ASSUME Init PROVE IInv
    OBVIOUS
<1>1. /\ <<>> \in Seq(Byte) /\ Len(<<>>) = 0
      /\ SlotStart \in Nat /\ SlotBytes \in Nat /\ StreamMaxBytes \in Nat
      /\ BlockBytes \in Nat
      /\ Erased \in Byte /\ Crc(<<>>) \in CrcVal
    BY EmptySeq, GeometryAssumption, DataAssumption
<1>2. TypeOK
    <2>1. /\ file \in Files /\ state \in State /\ next_block \in Nat
          /\ accepted \in Seq(Byte) /\ Len(accepted) <= StreamMaxBytes
          /\ phase \in Phase /\ pc \in PC /\ fed \in Nat
          /\ image_bytes \in 0 .. SlotBytes /\ expected_crc \in CrcVal
          /\ received \in Seq(Byte) /\ pending \in Seq(Byte)
          /\ next_page \in Nat /\ next_sector \in Nat
        BY <1>1 DEF Init, State, Phase, PC
    <2>2. xfer.kind = "none"
        BY DEF Init, NoXfer
    <2>3. sink \in BOOLEAN /\ active \in BOOLEAN /\ disturbed \in BOOLEAN
        BY DEF Init
    <2>4. flash \in [Addr -> Byte]
        BY <1>1 DEF Init
    <2>5. readback \in Seq(Byte) /\ late \in BOOLEAN
        BY <1>1 DEF Init
    <2> QED BY <2>1, <2>2, <2>3, <2>4, <2>5 DEF TypeOK
<1>3. SessionAgrees
    BY DEF Init, SessionAgrees
<1>4. XferShape /\ XferPhase /\ Control
    BY DEF Init, NoXfer, XferShape, XferPhase, Control
<1>5. StreamOrder
    <2>1. next_block * BlockBytes = 0 /\ Len(file) \in Nat /\ Len(file) >= 0
        BY <1>1, <1>2, Basics DEF Init
    <2> QED BY <1>1, <2>1 DEF Init, StreamOrder, Smaller
<1>6. FeedOrder /\ Pages /\ SlotHolds
    BY DEF Init, FeedOrder, Pages, SlotHolds
<1>7. ReadOrder
    BY <1>1 DEF Init, ReadOrder
<1> QED BY <1>2, <1>3, <1>4, <1>5, <1>6, <1>7 DEF IInv

\* Every step keeps the invariant, and so does a step that changes nothing.
LEMMA InvariantStep == IInv /\ [Next]_vars => IInv'
<1>1. ASSUME IInv, Next PROVE IInv'
    BY <1>1, TypeStep, SessionStep, XferStep, StreamStep, FeedStep, PagesStep,
       SlotStep, ReadStep DEF IInv
<1>2. ASSUME IInv, UNCHANGED vars PROVE IInv'
    <2>1. TypeOK'
        BY <1>2 DEF IInv, TypeOK, vars, streamVars, writerVars, programVars, finalVars
    <2>2. SessionAgrees' /\ XferShape' /\ XferPhase' /\ Control' /\ StreamOrder'
        BY <1>2 DEF IInv, SessionAgrees, XferShape, XferPhase, Control,
           StreamOrder, vars, streamVars, writerVars, programVars
    <2>3. FeedOrder' /\ Pages' /\ SlotHolds'
        BY <1>2 DEF IInv, FeedOrder, Pages, SlotHolds, Programmed, Written,
           vars, streamVars, writerVars, programVars
    <2>4. ReadOrder'
        BY <1>2 DEF IInv, ReadOrder, vars, writerVars, finalVars
    <2> QED BY <2>1, <2>2, <2>3, <2>4 DEF IInv
<1> QED BY <1>1, <1>2

\* The invariant holds in every state of the update.
THEOREM FlashInvariant == Spec => []IInv
<1>1. IInv /\ [][Next]_vars => []IInv
    BY InvariantStep, PTL
<1> QED BY InitInvariant, <1>1, PTL DEF Spec

-----------------------------------------------------------------------------
(***************************************************************************)
(* What follows from it.                                                   *)
(***************************************************************************)

\* The length of an armed image and of the stream stay inside their limits.
THEOREM TypeCorrect == Spec => []TypeOK
<1>1. IInv => TypeOK
    BY DEF IInv
<1> QED BY <1>1, FlashInvariant, PTL

\* The stream has a sink, and the program is active, exactly in a session.
THEOREM SessionCorrect == Spec => []SessionAgrees
<1>1. IInv => SessionAgrees
    BY DEF IInv
<1> QED BY <1>1, FlashInvariant, PTL

\* The stream and the program hold the beginning of the file.
THEOREM AcceptedInOrderCorrect == Spec => []AcceptedInOrder
<1>1. IInv => AcceptedInOrder
    <2> SUFFICES ASSUME IInv PROVE AcceptedInOrder
        OBVIOUS
    <2>1. TypeOK /\ StreamOrder /\ FeedOrder
        BY DEF IInv
    <2>2. /\ file \in Seq(Byte) /\ Len(file) \in Nat
          /\ accepted \in Seq(Byte) /\ Len(accepted) \in Nat
          /\ received \in Seq(Byte)
          /\ next_block \in Nat /\ BlockBytes \in Nat
        BY <2>1, Basics
    <2>3. Len(accepted) <= Len(file)
        <3>1. next_block * BlockBytes \in Nat
            BY <2>2
        <3>2. Len(accepted) = Smaller(next_block * BlockBytes, Len(file))
            BY <2>1 DEF StreamOrder
        <3> QED BY <2>2, <3>1, <3>2 DEF Smaller
    <2>4. accepted = Prefix(Len(accepted), file)
        <3>1. \A i \in 1 .. Len(accepted) : file[i] \in Byte
            BY <2>2, <2>3, ElementOfSeq
        <3>2. /\ Prefix(Len(accepted), file) \in Seq(Byte)
              /\ Len(Prefix(Len(accepted), file)) = Len(accepted)
              /\ \A i \in 1 .. Len(accepted) :
                   Prefix(Len(accepted), file)[i] = file[i]
            <4>1. /\ SubSeq(file, 1, Len(accepted)) \in Seq(Byte)
                  /\ Len(SubSeq(file, 1, Len(accepted)))
                       = IF 1 <= Len(accepted) THEN Len(accepted) - 1 + 1 ELSE 0
                  /\ \A i \in 1 .. Len(accepted) - 1 + 1 :
                       SubSeq(file, 1, Len(accepted))[i] = file[1 + i - 1]
                BY <2>2, <3>1, SubSeqProperties
            <4>2. Len(accepted) - 1 + 1 = Len(accepted)
                  /\ \A i \in 1 .. Len(accepted) : 1 + i - 1 = i
                BY <2>2
            <4>3. Len(SubSeq(file, 1, Len(accepted))) = Len(accepted)
                BY <2>2, <4>1
            <4> QED BY <4>1, <4>2, <4>3 DEF Prefix
        <3>3. \A i \in 1 .. Len(accepted) :
                accepted[i] = Prefix(Len(accepted), file)[i]
            BY <2>1, <3>2 DEF StreamOrder
        <3> QED BY <2>2, <3>2, <3>3, SeqEqual
    <2>5. ASSUME phase = "armed", pc = "idle"
          PROVE  received \in {<<>>, accepted}
        <3>1. Len(received) \in {0, Len(accepted)}
              /\ \A i \in 1 .. Len(received) : received[i] = file[i]
            BY <2>1, <2>5 DEF FeedOrder
        <3>2. CASE Len(received) = 0
            BY <2>2, <3>2, EmptySeq
        <3>3. CASE Len(received) = Len(accepted)
            <4>1. \A i \in 1 .. Len(received) : received[i] = accepted[i]
                BY <2>1, <3>1, <3>3 DEF StreamOrder
            <4>2. received = accepted
                BY <2>2, <3>3, <4>1, SeqEqual
            <4> QED BY <4>2
        <3> QED BY <3>1, <3>2, <3>3
    <2>6. Len(accepted) <= StreamMaxBytes
        BY <2>1 DEF TypeOK
    <2> QED BY <2>3, <2>4, <2>5, <2>6 DEF AcceptedInOrder
<1> QED BY <1>1, FlashInvariant, PTL

\* Between two requests, the slot holds the bytes this session has written.
THEOREM SlotSessionCorrect == Spec => []SlotSession
<1>1. IInv => SlotSession
    BY DEF IInv, SlotHolds, SlotSession, Programmed
<1> QED BY <1>1, FlashInvariant, PTL

\* An image is verified only when the slot still has the checksum of the
\* session, unless a cell changed behind the final read-back.
THEOREM VerifiedReadBackCorrect == Spec => VerifiedReadBack
<1>1. IInv /\ [Next]_vars
        => [phase # "verified" /\ phase' = "verified" /\ ~late =>
              /\ image_bytes > 0 /\ Len(received) = image_bytes
              /\ Crc(SlotContents(image_bytes)') = expected_crc]_vars
    <2> SUFFICES ASSUME IInv, Next, phase # "verified", phase' = "verified",
                        ~late
                 PROVE  /\ image_bytes > 0 /\ Len(received) = image_bytes
                        /\ Crc(SlotContents(image_bytes)') = expected_crc
        OBVIOUS
    <2>1. TypeOK /\ XferShape /\ StreamOrder /\ SessionAgrees /\ Control
          /\ XferPhase /\ FeedOrder /\ ReadOrder
        BY DEF IInv
    <2>2. Readback
        <3>1. CASE \/ SetupStep \/ BlockDiscarded \/ BlockFed \/ ManifestDone
                   \/ FinishDone \/ FeedBytes \/ FeedDone \/ SkipErase
                   \/ EraseSector \/ ProgramPage \/ VerifyPage \/ ReadPiece
                   \/ Disturb \/ ToolErases
            <4>1. phase' = phase
                BY <3>1 DEF SetupStep, BlockDiscarded, BlockFed, ManifestDone,
                   FinishDone, FeedBytes, FeedDone, SkipErase, EraseSector,
                   ProgramPage, VerifyPage, ReadPiece, Disturb, ToolErases, writerVars
            <4> QED BY <4>1
        <3>2. CASE \/ Restart \/ ArmDone \/ ArmFails \/ FinishFails
                   \/ CallbackFails \/ PowerCut
            BY <3>2 DEF Restart, RestartStream, StreamReset, WriterReset, ArmDone,
                ProgramBegin,
               ArmFails, FinishFails, CallbackFails, PowerCut, WriterFails
        <3>3. CASE BlockRefused
            BY <2>1, <3>3 DEF BlockRefused, WriterFails, writerVars, SessionAgrees
        <3> QED BY <2>1, NextActions, <3>1, <3>2, <3>3
    <2>3. /\ phase = "armed" /\ xfer.kind = "finish"
          /\ Len(readback) = image_bytes /\ Crc(readback) = expected_crc
          /\ UNCHANGED <<flash, image_bytes>>
        BY <2>1, <2>2 DEF Readback, Verified, Control
    <2>4. image_bytes > 0 /\ Len(received) = image_bytes
        BY <2>1, <2>3 DEF FeedOrder, XferPhase
    <2>5. SlotContents(image_bytes)' = SlotContents(image_bytes)
        BY <2>3 DEF SlotContents
    <2>6. SlotContents(image_bytes) = readback
        <3>1. readback \in Seq(Byte) /\ image_bytes \in Nat
            BY <2>1, Basics
        <3>2. readback = [i \in 1 .. Len(readback) |-> readback[i]]
            BY <3>1, LenProperties
        <3>3. \A i \in 1 .. image_bytes : readback[i] = flash[SlotStart + i - 1]
            BY <2>1, <2>3 DEF ReadOrder
        <3> QED BY <2>3, <3>2, <3>3 DEF SlotContents
    <2> QED BY <2>3, <2>4, <2>5, <2>6
<1> QED BY <1>1, FlashInvariant, PTL DEF Spec, VerifiedReadBack
=============================================================================
