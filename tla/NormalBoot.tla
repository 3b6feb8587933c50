----------------------------- MODULE NormalBoot -----------------------------
(***************************************************************************)
(* Normal mode of the ULX5M bootloader (src/bootloader-serv): the firmware *)
(* that looks at the image in flash (fw/ulx5m_normal_image.c,              *)
(* fw/ulx5m_native_v41_image.c) and hands the FPGA over to it, and the     *)
(* logic it does that with.  One build streams a wrapped image, byte by    *)
(* byte, into the configuration port (fw/ulx5m_normal_boot.c,              *)
(* rtl/ulx5m_cfg_stream_wb.v); the other checks a native image and asks    *)
(* for a reconfiguration from flash (fw/ulx5m_spi_active_boot.c,           *)
(* rtl/ulx5m_spi_active_reboot_wb.v).                                      *)
(*                                                                         *)
(* Flash is read twice by the first build.  A read may fail, and what it   *)
(* returns may have changed since the last one.  Firmware and logic run    *)
(* side by side; a poll loop of the firmware may run out at any time.      *)
(***************************************************************************)
EXTENDS Integers, Sequences

CONSTANTS
    Cell,           \* the values of a byte
    Erased,         \* 0xff
    FlashBytes, PageBytes, EraseBytes,
    Slot,           \* ULX5M_NORMAL_BOOT_SLOT
    MaxBytes,       \* ULX5M_NORMAL_BOOT_MAX_BYTES, MAX_STREAM
    Headers,        \* what the header of a wrapped image may be
    Flashes,        \* what the bytes of flash may be at first
    MaxDisturbs,    \* bound on the bytes that change behind the firmware
    Sync,           \* the first bytes of a configuration stream
    Crc(_),
    Native, NativeBytes, NativeCrc      \* ULX5M_V41_NATIVE_...

Addr == 0 .. (FlashBytes - 1)

ASSUME BootAssumption ==
    /\ FlashBytes \in Nat /\ PageBytes \in Nat \ {0} /\ EraseBytes \in Nat \ {0}
    /\ EraseBytes % PageBytes = 0
    /\ Slot \in Nat /\ MaxBytes \in Nat /\ Slot < FlashBytes
    /\ Native \in Nat /\ NativeBytes \in 1 .. EraseBytes
    /\ Native + EraseBytes <= FlashBytes
    /\ Flashes \subseteq [Addr -> Cell] /\ MaxDisturbs \in Nat
    /\ Erased \in Cell /\ Sync \in Seq(Cell) /\ Len(Sync) <= NativeBytes
    /\ \A h \in Headers : h.offset \in Nat /\ h.length \in Nat

VARIABLES
    build,          \* ULX5M_NATIVE_SPI_SECONDARY or not
    authorize,      \* ULX5M_CFG_HANDOFF_AUTHORIZED
    capable,        \* ULX5M_ENABLE_CFG_STREAM, of the logic
    header, flash,  \* the header at the slot, and the bytes
    disturbs,       \* how many of them have changed
    settled,        \* chip select has been high long enough
    pc,
    info,           \* the header that was read
    pos,            \* how much of a pass is done
    first, second,  \* the bytes of both passes, of which the code has the CRC
    chunk,          \* read in the second pass and not sent yet
    invalid,        \* of ulx5m_v41_native_probe
    result,
    port,           \* ulx5m_cfg_stream_wb
    accepted,       \* the bytes the configuration controller has taken
    gate            \* ulx5m_spi_active_reboot_wb

env == <<build, authorize, capable>>
memory == <<header, flash, disturbs>>
passes == <<info, pos, first, second, chunk, invalid>>
vars == <<env, memory, settled, pc, passes, result, port, accepted, gate>>

NoInfo == [offset |-> 0, length |-> 0, crc |-> Crc(<<>>)]

NoImage == [magic |-> FALSE, good |-> FALSE, offset |-> 0, length |-> 0,
            crc |-> Crc(<<>>)]

Init ==
    /\ build \in {"stream", "native"}
    /\ authorize \in BOOLEAN /\ capable \in BOOLEAN
    /\ header \in Headers /\ flash \in Flashes /\ disturbs = 0
    /\ build = "native" => header = NoImage     \* it is not read
    /\ settled = FALSE
    /\ pc = IF build = "stream" THEN "header" ELSE "native"
    /\ info = NoInfo /\ pos = 0
    /\ first = <<>> /\ second = <<>> /\ chunk = <<>> /\ invalid = FALSE
    /\ result = "none"
    /\ port = [state |-> "IDLE", expected |-> 0, sent |-> 0, en |-> FALSE,
               data |-> Erased]
    /\ accepted = <<>>
    /\ gate = [armed |-> FALSE, fired |-> FALSE, error |-> FALSE,
               pending |-> FALSE, recfg |-> FALSE]

----------------------------------------------------------------------------
(***************************************************************************)
(* The configuration port.  Any write it does not expect is an error.      *)
(***************************************************************************)
Closed(p) == [p EXCEPT !.state = "ERROR", !.en = FALSE]

PortReady == port.state = "READY" /\ settled

WriteExpected(n) ==
    port' = IF port.state = "IDLE" /\ n \in 1 .. MaxBytes
            THEN [port EXCEPT !.expected = n] ELSE Closed(port)

WriteArm(p) ==
    IF p.state = "IDLE" /\ capable /\ p.expected # 0 /\ settled
    THEN [p EXCEPT !.state = "LEAD", !.sent = 0, !.en = TRUE]
    ELSE Closed(p)

WriteData(byte) ==
    port' = IF PortReady /\ port.sent < port.expected
            THEN [port EXCEPT !.state = "PULSE", !.data = byte, !.sent = @ + 1]
            ELSE Closed(port)

WriteFinish ==
    port' = IF PortReady /\ port.sent = port.expected
            THEN [port EXCEPT !.state = "TAIL"] ELSE Closed(port)

WriteAbort == port' = Closed(port)

PortStep ==
    /\ \/ /\ port.state = "LEAD"
          /\ port' = [port EXCEPT !.state = "READY"]
          /\ UNCHANGED accepted
       \/ /\ port.state = "PULSE"
          /\ port' = [port EXCEPT !.state = "GAP"]
          /\ accepted' = Append(accepted, port.data)
       \/ /\ port.state = "GAP"
          /\ port' = [port EXCEPT !.state = "READY"]
          /\ UNCHANGED accepted
       \/ /\ port.state = "TAIL"
          /\ port' = [port EXCEPT !.state = "DONE", !.en = FALSE]
          /\ UNCHANGED accepted
    /\ UNCHANGED <<env, memory, settled, pc, passes, result, gate>>

(***************************************************************************)
(* The reconfiguration gate: two keys, each of them only while chip select *)
(* is quiet, and then one cycle between the release of the pads and RECFG. *)
(***************************************************************************)
WriteGateArm ==
    gate' = IF gate.fired THEN gate
            ELSE IF settled /\ ~gate.error THEN [gate EXCEPT !.armed = TRUE]
            ELSE [gate EXCEPT !.armed = FALSE, !.error = TRUE]

WriteGateBoot ==
    gate' = IF gate.fired THEN gate
            ELSE IF gate.armed /\ settled /\ ~gate.error
            THEN [gate EXCEPT !.pending = TRUE, !.fired = TRUE, !.armed = FALSE]
            ELSE [gate EXCEPT !.armed = FALSE, !.error = TRUE]

GateStep ==
    /\ gate.pending
    /\ gate' = [gate EXCEPT !.pending = FALSE, !.recfg = TRUE]
    /\ UNCHANGED <<env, memory, settled, pc, passes, result, port, accepted>>

Settle ==
    /\ ~settled
    /\ settled' = TRUE
    /\ UNCHANGED <<env, memory, pc, passes, result, port, accepted, gate>>

\* What flash returns changes behind the firmware's back.
Disturb ==
    /\ pc \in {"header", "first", "second", "native"}
    /\ disturbs < MaxDisturbs
    /\ disturbs' = disturbs + 1
    /\ \E a \in Addr, c \in Cell :
           /\ c # flash[a]
           /\ flash' = [flash EXCEPT ![a] = c]
    /\ UNCHANGED <<env, header, settled, pc, passes, result, port, accepted,
                   gate>>

----------------------------------------------------------------------------
(***************************************************************************)
(* Firmware.  A read selects the flash: the port gives up a byte that is   *)
(* on its way then, and the gate is disarmed.                              *)
(***************************************************************************)
Reads ==
    /\ settled' = FALSE
    /\ port' = IF port.state = "PULSE" THEN Closed(port) ELSE port
    /\ gate' = [gate EXCEPT !.error = @ \/ gate.armed, !.armed = FALSE]
    /\ UNCHANGED <<env, memory, accepted>>

Keeps == UNCHANGED <<env, memory, settled, port, accepted, gate>>

Halt(r) == pc' = "halt" /\ result' = r

Smaller(a, b) == IF a < b THEN a ELSE b

Bytes(a, n) == [i \in 1 .. n |-> flash[a + i - 1]]

\* ulx5m_normal_image_probe, the header.
HeaderInRange(h) ==
    /\ h.offset >= PageBytes /\ h.offset % PageBytes = 0 /\ h.length # 0
    /\ h.offset <= FlashBytes - Slot
    /\ h.length <= FlashBytes - Slot - h.offset

ReadHeader ==
    /\ pc = "header"
    /\ Reads
    /\ \/ Halt("INVALID") /\ UNCHANGED passes
       \/ /\ ~header.magic
          /\ Halt("NO_IMAGE") /\ UNCHANGED passes
       \/ /\ header.magic /\ ~(header.good /\ HeaderInRange(header))
          /\ Halt("INVALID") /\ UNCHANGED passes
       \/ /\ header.magic /\ header.good /\ HeaderInRange(header)
          /\ info' = [offset |-> header.offset, length |-> header.length,
                      crc |-> header.crc]
          /\ pc' = "first"
          /\ UNCHANGED <<pos, first, second, chunk, invalid, result>>

Payload == Slot + info.offset

PageSize == Smaller(info.length - pos, PageBytes)

HasSync(page) == Len(page) >= Len(Sync) /\ SubSeq(page, 1, Len(Sync)) = Sync

\* The first pass, a page at a time.
ReadFirst ==
    /\ pc = "first"
    /\ pos < info.length
    /\ Reads
    /\ LET page == Bytes(Payload + pos, PageSize)
       IN  \/ Halt("INVALID") /\ UNCHANGED passes
           \/ /\ pos = 0 /\ ~HasSync(page)
              /\ Halt("INVALID") /\ UNCHANGED passes
           \/ /\ pos = 0 => HasSync(page)
              /\ first' = first \o page
              /\ pos' = pos + PageSize
              /\ UNCHANGED <<pc, info, second, chunk, invalid, result>>

\* ulx5m_normal_boot_run, between the passes.
Acceptable ==
    /\ Crc(first) = info.crc
    /\ info.length <= MaxBytes
    /\ Payload = Slot + PageBytes

Decide ==
    /\ pc = "first"
    /\ pos = info.length
    /\ \/ ~Acceptable /\ Halt("INVALID")
       \/ Acceptable /\ ~authorize /\ Halt("VALID_BLOCKED")
       \/ Acceptable /\ authorize /\ pc' = "prepare" /\ UNCHANGED result
    /\ pos' = 0
    /\ UNCHANGED <<info, first, second, chunk, invalid>>
    /\ Keeps

\* Every failure from here on is an abort.
Abort ==
    /\ WriteAbort
    /\ Halt("STREAM_ERROR")

\* cfg_wait: the port is ready, or has an error, or the polls run out.
CanWait == port.state # "ERROR" /\ PortReady

GivesUp(place) ==
    /\ pc = place
    /\ Abort
    /\ UNCHANGED <<env, memory, settled, passes, accepted, gate>>

NotCapable ==
    /\ ~capable
    /\ GivesUp("prepare")

Prepare ==
    /\ pc = "prepare"
    /\ capable
    /\ WriteExpected(info.length)
    /\ pc' = "arm"
    /\ UNCHANGED <<env, memory, settled, passes, result, accepted, gate>>

Arm ==
    /\ pc = "arm"
    /\ port' = WriteArm(port)
    /\ pc' = "armed"
    /\ UNCHANGED <<env, memory, settled, passes, result, accepted, gate>>

Armed ==
    /\ pc = "armed"
    /\ CanWait
    /\ pc' = "second"
    /\ UNCHANGED <<passes, result>>
    /\ Keeps

\* Fault: a failed read of the second pass is reported, but not aborted.
ReadSecondForgets ==
    /\ pc = "second"
    /\ chunk = <<>> /\ pos < info.length
    /\ Reads
    /\ \/ Halt("STREAM_ERROR") /\ UNCHANGED passes
       \/ /\ chunk' = Bytes(Payload + pos, PageSize)
          /\ second' = second \o chunk'
          /\ pos' = pos + PageSize
          /\ UNCHANGED <<pc, info, first, invalid, result>>

ReadSecond ==
    /\ pc = "second"
    /\ chunk = <<>> /\ pos < info.length
    /\ \/ /\ Abort
          /\ settled' = FALSE
          /\ UNCHANGED <<env, memory, passes, accepted, gate>>
       \/ /\ Reads
          /\ chunk' = Bytes(Payload + pos, PageSize)
          /\ second' = second \o chunk'
          /\ pos' = pos + PageSize
          /\ UNCHANGED <<pc, info, first, invalid, result>>

Send ==
    /\ pc = "second"
    /\ chunk # <<>>
    /\ CanWait
    /\ WriteData(Head(chunk))
    /\ chunk' = Tail(chunk)
    /\ UNCHANGED <<env, memory, settled, pc, info, pos, first, second, invalid,
                   result, accepted, gate>>

SendFails ==
    /\ chunk # <<>>
    /\ GivesUp("second")

\* Fault: the second pass is not checked.
RecheckMissing ==
    /\ pc = "second"
    /\ chunk = <<>> /\ pos = info.length
    /\ pc' = "finish" /\ UNCHANGED <<result, port>>
    /\ UNCHANGED <<env, memory, settled, passes, accepted, gate>>

\* The checksum of the second pass, before FINISH.
Recheck ==
    /\ pc = "second"
    /\ chunk = <<>> /\ pos = info.length
    /\ IF Crc(second) = info.crc THEN pc' = "finish" /\ UNCHANGED <<result, port>>
       ELSE Abort
    /\ UNCHANGED <<env, memory, settled, passes, accepted, gate>>

Finish ==
    /\ pc = "finish"
    /\ CanWait
    /\ WriteFinish
    /\ pc' = "finished"
    /\ UNCHANGED <<env, memory, settled, passes, result, accepted, gate>>

Finished ==
    /\ pc = "finished"
    /\ port.state = "DONE"
    /\ Halt("STREAM_COMPLETE")
    /\ UNCHANGED passes
    /\ Keeps

PollsRunOut == \E place \in {"armed", "finish", "finished"} : GivesUp(place)

----------------------------------------------------------------------------
(***************************************************************************)
(* ulx5m_v41_native_probe: the whole sector, to its erased end, and the    *)
(* request for a reconfiguration.                                          *)
(***************************************************************************)
PageIsBad(page) ==
    \E i \in DOMAIN page :
        LET at == pos + i - 1
        IN  \/ at < Len(Sync) /\ page[i] # Sync[at + 1]
            \/ at >= NativeBytes /\ page[i] # Erased

\* Fault: only the last page decides.
ReadNativeLast ==
    /\ pc = "native"
    /\ pos < EraseBytes
    /\ Reads
    /\ LET page == Bytes(Native + pos, PageBytes)
       IN  \/ Halt("INVALID") /\ UNCHANGED passes
           \/ /\ first' = first \o page
              /\ pos' = pos + PageBytes
              /\ invalid' = PageIsBad(page)
              /\ UNCHANGED <<pc, info, second, chunk, result>>

ReadNative ==
    /\ pc = "native"
    /\ pos < EraseBytes
    /\ Reads
    /\ LET page == Bytes(Native + pos, PageBytes)
       IN  \/ Halt("INVALID") /\ UNCHANGED passes
           \/ /\ first' = first \o page
              /\ pos' = pos + PageBytes
              /\ invalid' = (invalid \/ PageIsBad(page))
              /\ UNCHANGED <<pc, info, second, chunk, result>>

NativeDecide ==
    /\ pc = "native"
    /\ pos = EraseBytes
    /\ IF Crc(SubSeq(first, 1, NativeBytes)) = NativeCrc /\ ~invalid
       THEN pc' = "qualify" /\ UNCHANGED result
       ELSE Halt("INVALID")
    /\ UNCHANGED passes
    /\ Keeps

\* The gate is ready; or it never is.
Qualified ==
    /\ pc = "qualify"
    /\ settled /\ ~gate.error
    /\ pc' = "armGate"
    /\ UNCHANGED <<passes, result>>
    /\ Keeps

NeverQualified ==
    /\ pc = "qualify"
    /\ Halt("GATE_ERROR")
    /\ UNCHANGED passes
    /\ Keeps

ArmGate ==
    /\ pc = "armGate"
    /\ WriteGateArm
    /\ pc' = "armedGate"
    /\ UNCHANGED <<env, memory, settled, passes, result, port, accepted>>

\* ULX5M_SPI_ACTIVE_BOOT_VALUE, if the first key was taken.
Execute ==
    /\ pc = "armedGate"
    /\ IF gate.armed /\ ~gate.error
       THEN /\ WriteGateBoot
            /\ pc' = "executed" /\ UNCHANGED result
       ELSE Halt("GATE_ERROR") /\ UNCHANGED gate
    /\ UNCHANGED <<env, memory, settled, passes, port, accepted>>

Executed ==
    /\ pc = "executed"
    /\ Halt(IF gate.fired /\ ~gate.error THEN "REQUESTED" ELSE "GATE_ERROR")
    /\ UNCHANGED passes
    /\ Keeps

Firmware ==
    \/ ReadHeader \/ ReadFirst \/ Decide
    \/ NotCapable \/ Prepare \/ Arm \/ Armed
    \/ ReadSecond \/ Send \/ SendFails \/ Recheck
    \/ Finish \/ Finished \/ PollsRunOut
    \/ ReadNative \/ NativeDecide \/ Qualified \/ NeverQualified
    \/ ArmGate \/ Execute \/ Executed

Logic == PortStep \/ GateStep \/ Settle

Next == Firmware \/ Logic \/ Disturb

Spec == Init /\ [][Next]_vars

----------------------------------------------------------------------------
PortState == {"IDLE", "LEAD", "READY", "PULSE", "GAP", "TAIL", "DONE", "ERROR"}

TypeOK ==
    /\ build \in {"stream", "native"}
    /\ authorize \in BOOLEAN /\ capable \in BOOLEAN
    /\ header \in Headers \cup {NoImage} /\ flash \in [Addr -> Cell]
    /\ settled \in BOOLEAN /\ invalid \in BOOLEAN
    /\ pos \in Nat
    /\ info.offset \in Nat /\ info.length \in Nat
    /\ first \in Seq(Cell) /\ second \in Seq(Cell) /\ chunk \in Seq(Cell)
    /\ port.state \in PortState /\ port.en \in BOOLEAN /\ port.data \in Cell
    /\ port.sent \in Nat /\ port.expected \in Nat
    /\ accepted \in Seq(Cell)

\* The controller is told that the stream is complete only if the bytes it has
\* taken are those of the second pass, as many as the header says and with its
\* checksum, after a first pass with the same checksum, in a build that is
\* authorized: whatever flash returned in between and wherever it failed.
DoneVerified ==
    port.state \in {"TAIL", "DONE"} =>
        /\ authorize /\ Acceptable
        /\ Len(accepted) = info.length
        /\ Crc(accepted) = info.crc

\* However the attempt ends, the port is not left open: without a complete
\* stream the configuration controller is disabled again.
FailClosed == pc = "halt" /\ result # "STREAM_COMPLETE" => ~port.en

\* The FPGA reconfigures itself from flash only after the whole native sector
\* was read and found to be the image and then nothing but erased bytes.
ReconfiguredVerified ==
    gate.recfg =>
        /\ Len(first) = EraseBytes
        /\ Crc(SubSeq(first, 1, NativeBytes)) = NativeCrc
        /\ SubSeq(first, 1, Len(Sync)) = Sync
        /\ \A i \in (NativeBytes + 1) .. EraseBytes : first[i] = Erased
=============================================================================
