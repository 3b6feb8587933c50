------------------------------- MODULE UsbDfu -------------------------------
(***************************************************************************)
(* The DFU engine of the ECP5 bootloader (src/bootloader-serv/fw/usb_dfu.c *)
(* with the flash commands of spi.c).  A download request fills one of two *)
(* buffers; the main loop calls _dfu_tick, which compares the oldest       *)
(* buffer with the flash, erases and programs until they are equal, one    *)
(* flash command per tick, and then frees the buffer.  The chip works      *)
(* while the main loop serves the next request.  The loop ticks in         *)
(* usb_poll (usb.c), behind the returns for a bus that is suspended or     *)
(* held in reset.                                                          *)
(*                                                                         *)
(* Before that, main (fw_dfu.c) decides about the bootloader's own part of *)
(* the flash: unless START is held its alternate setting is taken out of   *)
(* the descriptor, and two registers of the chip protect it, also from the *)
(* application that may be started instead.                                *)
(*                                                                         *)
(* Surroundings.  The host is one that keeps to the class specification,   *)
(* as dfu-util does: full blocks but for the last, GETSTATUS after each    *)
(* block until the device is no longer busy, an empty block at the end.    *)
(* It may stop at any point, and it starts a session, with SET_INTERFACE,  *)
(* when the device has flushed the last one (the engine does not check     *)
(* any of this).  The acknowledge of a block may be lost.  A flash command *)
(* may have no effect, and the power may fail.  What an application writes *)
(* is followed in the bootloader's part only.                              *)
(***************************************************************************)
EXTENDS Integers, Sequences

CONSTANTS
    BlockLen,       \* 4096: a block, a buffer and a sector
    PageLen,        \* 256
    FlashLen,
    Zones,          \* dfu_zones: alternate setting -> [start, end], of
                    \* whole sectors (all but the clock chip, setting 6)
    Boot,           \* the alternate setting of the bootloader's own zone (5)
    Retries,        \* PROG_RETRY
    Files,          \* what the host may send, by blocks
    Missing         \* the registers of the chip a write to which may have no
                    \* effect: some of "bits", "scheme"

(***************************************************************************)
(* A cell of the flash stands for the bits of a byte that are equal: 1 is  *)
(* erased, and programming can only make it 0.                             *)
(***************************************************************************)
Cell == {0, 1}
Addr == 0 .. (FlashLen - 1)
Alts == DOMAIN Zones

ASSUME DfuAssumption ==
    /\ BlockLen \in Nat \ {0} /\ PageLen \in Nat \ {0} /\ FlashLen \in Nat
    /\ BlockLen % PageLen = 0
    /\ Retries \in Nat \ {0}
    /\ -1 \notin Alts
    /\ \A a \in Alts : /\ Zones[a].start \in Nat /\ Zones[a].end \in Nat
                       /\ Zones[a].start <= Zones[a].end
                       /\ Zones[a].end <= FlashLen
                       /\ (Zones[a].end - Zones[a].start) % BlockLen = 0
    /\ Boot \in Alts
    /\ \A a \in Alts \ {Boot} : Zones[Boot].end <= Zones[a].start
    /\ Files \subseteq Seq(Seq(Cell))
    /\ \A f \in Files : \A i \in 1 .. Len(f) :
           IF i < Len(f) THEN Len(f[i]) = BlockLen
           ELSE Len(f[i]) \in 1 .. BlockLen

VARIABLES
    state,          \* g_dfu.state
    alt,            \* g_dfu.alt; -1 before SET_INTERFACE
    used, wr, rd, buf,                              \* g_dfu.buf
    addr_recv, addr_read, addr_prog, addr_end,      \* g_dfu.flash
    op, op_ofs, should, prog_retry,
    xfer,           \* the request whose stages are not over
    draining,       \* GETSTATUS waits for the buffers in its own loop
    flash, busy,    \* the chip
    known,          \* its manufacturer is one of the two that are handled
    bits, scheme,   \* its registers: protect Boot's zone; how that is meant
    stage,          \* main, up to the loop
    exposed,        \* START was held: Boot is in the descriptor
    quiet,          \* the bus is suspended, held in reset or unplugged
    \* the host
    host, file, sent,
    \* history
    accepted,       \* blocks of this session whose completion has run
    lost,           \* an acknowledge of this session was lost
    guarded         \* START was not held when the bootloader last started,
                    \* and all that it wrote to the registers had an effect

addrVars == <<addr_recv, addr_read, addr_prog, addr_end>>
opVars == <<op, op_ofs, should, prog_retry>>
bufVars == <<used, wr, rd, buf>>
chipVars == <<flash, busy>>
lockVars == <<known, bits, scheme>>
bootVars == <<lockVars, stage, exposed, quiet, guarded>>
hostVars == <<host, file, sent>>
history == <<accepted, lost>>
engineVars == <<state, alt, bufVars, addrVars, opVars, xfer, draining, flash,
                hostVars, history>>
vars == <<state, alt, bufVars, addrVars, opVars, xfer, draining, chipVars,
          bootVars, hostVars, history>>

State == {"appDETACH", "dfuIDLE", "dfuDNLOAD_SYNC", "dfuDNLOAD_IDLE",
          "dfuMANIFEST_SYNC", "dfuERROR"}
Op == {"IDLE", "ERASE", "PROGRAM"}
Xfer == {"none", "data", "status"}
Stage == {"start", "bits", "scheme", "choose", "dfu", "app"}
Guarded == {"no", "closing", "yes"}
Host == {"idle", "ready", "sending", "polling", "done"}

Smaller(a, b) == IF a < b THEN a ELSE b

\* A block in its buffer: the end is filled with 0xff.
Padded(block) ==
    [i \in 1 .. BlockLen |-> IF i <= Len(block) THEN block[i] ELSE 1]

Blank == [i \in 1 .. BlockLen |-> 0]

FlashAt(a) == [i \in 1 .. BlockLen |-> flash[a + i - 1]]

\* usb_dfu_init: the bootloader has just started.
InitDfu ==
    /\ state = "appDETACH" /\ alt = -1
    /\ used = 0 /\ wr = 0 /\ rd = 0 /\ buf = [b \in {0, 1} |-> Blank]
    /\ addr_recv = 0 /\ addr_read = 0 /\ addr_prog = 0 /\ addr_end = 0
    /\ op = "IDLE" /\ op_ofs = 0 /\ should = 0 /\ prog_retry = Retries
    /\ xfer = "none" /\ draining = FALSE
    /\ host = "idle" /\ file = <<>> /\ sent = 0
    /\ accepted = <<>> /\ lost = FALSE

Init ==
    /\ InitDfu
    /\ flash \in {[a \in Addr |-> c] : c \in Cell}
    /\ busy = FALSE
    /\ known \in BOOLEAN /\ bits = FALSE /\ scheme = FALSE
    /\ stage = "start" /\ exposed = FALSE /\ quiet = FALSE /\ guarded = "no"

\* The bootloader ends: only the flash chip keeps its contents.
Restart ==
    /\ state' = "appDETACH" /\ alt' = -1
    /\ used' = 0 /\ wr' = 0 /\ rd' = 0 /\ buf' = [b \in {0, 1} |-> Blank]
    /\ addr_recv' = 0 /\ addr_read' = 0 /\ addr_prog' = 0 /\ addr_end' = 0
    /\ op' = "IDLE" /\ op_ofs' = 0 /\ should' = 0 /\ prog_retry' = Retries
    /\ xfer' = "none" /\ draining' = FALSE
    /\ host' = "idle" /\ file' = <<>> /\ sent' = 0
    /\ accepted' = <<>> /\ lost' = FALSE
    /\ exposed' = FALSE /\ quiet' = FALSE
    /\ guarded' = IF guarded = "closing" THEN "no" ELSE guarded
    /\ UNCHANGED lockVars

\* The FPGA is configured for the application.
reboot_now ==
    /\ Restart
    /\ stage' = "app"

----------------------------------------------------------------------------
(***************************************************************************)
(* spi_xfer_verify: a cell that is 0 and should be 1 asks for an erase;    *)
(* bit 0 of the answer is "erase", bit 1 "write".                          *)
(***************************************************************************)
flash_verify(data, a) ==
    IF \E i \in 1 .. BlockLen : data[i] = 1 /\ flash[a + i - 1] = 0
    THEN IF \E i \in 1 .. BlockLen : data[i] = 0 THEN 3 ELSE 1
    ELSE IF data = FlashAt(a) THEN 0 ELSE 2

\* The bootloader's part keeps its contents while both registers are set.
BootZone == {a \in Addr : Zones[Boot].start <= a /\ a < Zones[Boot].end}

Locked == bits /\ scheme

Written(cells) ==
    [a \in Addr |-> IF a \in DOMAIN cells /\ ~(Locked /\ a \in BootZone)
                    THEN cells[a] ELSE flash[a]]

\* A command works, or has no effect; either way the chip is busy for a while.
Command(cells) ==
    /\ busy' = TRUE
    /\ flash' \in {flash, Written(cells)}

flash_sector_erase(a) == Command([c \in a .. (a + BlockLen - 1) |-> 1])

flash_page_program(data, a, ofs, n) ==
    Command([c \in (a + ofs) .. (a + ofs + n - 1) |->
                 IF data[c - a + 1] = 1 THEN flash[c] ELSE 0])

FlashReady ==
    /\ busy
    /\ busy' = FALSE
    /\ UNCHANGED <<state, alt, bufVars, addrVars, opVars, xfer, draining,
                   flash, hostVars, history, bootVars>>

(***************************************************************************)
(* _dfu_tick.  A new operation starts at once; the next steps wait for the *)
(* chip.  usb_poll does not come to the tick while the bus is quiet; the   *)
(* loop of GETSTATUS that drains the buffers does not look at the bus.     *)
(***************************************************************************)
TickReached == ~quiet \/ draining

TickRuns ==
    /\ TickReached
    /\ IF op = "IDLE" THEN used > 0 ELSE ~busy

Tick ==
    /\ TickRuns
    /\ UNCHANGED <<state, alt, wr, buf, addr_recv, addr_read, addr_end, xfer,
                   draining, hostVars, history, bootVars>>

TickGivesUp ==
    /\ TickRuns
    /\ prog_retry = 0
    /\ reboot_now
    /\ UNCHANGED chipVars

Verified == flash_verify(buf[rd], addr_prog)

\* Fault: an erase is not counted as an attempt.
TickErasesUncounted ==
    /\ Tick
    /\ prog_retry > 0
    /\ op \in {"IDLE", "ERASE"}
    /\ Verified \in {1, 3}
    /\ should' = Verified
    /\ op' = "ERASE" /\ op_ofs' = 0
    /\ flash_sector_erase(addr_prog)
    /\ UNCHANGED <<used, rd, addr_prog, prog_retry>>

TickErases ==
    /\ Tick
    /\ prog_retry > 0
    /\ op \in {"IDLE", "ERASE"}
    /\ Verified \in {1, 3}
    /\ should' = Verified
    /\ op' = "ERASE" /\ op_ofs' = 0
    /\ prog_retry' = prog_retry - 1
    /\ flash_sector_erase(addr_prog)
    /\ UNCHANGED <<used, rd, addr_prog>>

\* The sector is as it should be: on to the next one.
TickAdvances ==
    /\ Tick
    /\ prog_retry > 0
    /\ op \in {"IDLE", "ERASE"}
    /\ Verified = 0
    /\ should' = 0
    /\ prog_retry' = Retries
    /\ addr_prog' = addr_prog + BlockLen
    /\ rd' = 1 - rd
    /\ used' = used - 1
    /\ op' = "IDLE" /\ op_ofs' = 0
    /\ UNCHANGED chipVars

ProgramPage(ofs) ==
    LET n == Smaller(BlockLen - ofs, PageLen - ((addr_prog + ofs) % PageLen))
    IN  /\ flash_page_program(buf[rd], addr_prog, ofs, n)
        /\ op_ofs' = ofs + n

TickStartsProgram ==
    /\ Tick
    /\ prog_retry > 0
    /\ op \in {"IDLE", "ERASE"}
    /\ Verified = 2
    /\ should' = 2
    /\ op' = "PROGRAM"
    /\ ProgramPage(0)
    /\ UNCHANGED <<used, rd, addr_prog, prog_retry>>

TickPrograms ==
    /\ Tick
    /\ prog_retry > 0
    /\ op = "PROGRAM"
    /\ op_ofs < BlockLen
    /\ ProgramPage(op_ofs)
    /\ UNCHANGED <<used, rd, addr_prog, op, should, prog_retry>>

\* Fault: a sector that has been programmed is taken to be right.
TickTrustsProgram ==
    /\ Tick
    /\ prog_retry > 0
    /\ op = "PROGRAM"
    /\ op_ofs = BlockLen
    /\ addr_prog' = addr_prog + BlockLen
    /\ rd' = 1 - rd
    /\ used' = used - 1
    /\ op' = "IDLE" /\ op_ofs' = 0
    /\ UNCHANGED <<should, prog_retry, chipVars>>

\* All pages are programmed: go back and verify.
TickProgrammed ==
    /\ Tick
    /\ prog_retry > 0
    /\ op = "PROGRAM"
    /\ op_ofs = BlockLen
    /\ prog_retry' = prog_retry - 1
    /\ op' = "IDLE" /\ op_ofs' = 0
    /\ UNCHANGED <<used, rd, addr_prog, should, chipVars>>

AnyTick ==
    \/ TickGivesUp \/ TickErases \/ TickAdvances
    \/ TickStartsProgram \/ TickPrograms \/ TickProgrammed

----------------------------------------------------------------------------
(***************************************************************************)
(* Requests.  SET_CONFIGURATION makes the engine idle; SET_INTERFACE       *)
(* chooses a zone.  What has arrived when the bus goes quiet is looked at  *)
(* when it is active again.                                                *)
(***************************************************************************)
Served == stage = "dfu" /\ ~draining /\ ~quiet

SetConfiguration ==
    /\ Served
    /\ state = "appDETACH"
    /\ state' = "dfuIDLE"
    /\ UNCHANGED <<alt, bufVars, addrVars, opVars, xfer, draining, chipVars,
                   bootVars, hostVars, history>>

\* usb_desc_find_intf finds what the length of the descriptor covers.
Offered == IF exposed THEN Alts ELSE Alts \ {Boot}

set_intf(a) ==
    /\ state' = "dfuIDLE"
    /\ alt' = a
    /\ addr_recv' = Zones[a].start
    /\ addr_read' = Zones[a].start
    /\ addr_prog' = Zones[a].start
    /\ addr_end' = Zones[a].end

StartSession ==
    /\ Served
    /\ state # "appDETACH"
    /\ host \in {"idle", "done"}
    /\ used = 0
    /\ xfer' = "none"
    /\ \E a \in Offered : set_intf(a)
    /\ file' \in Files
    /\ host' = "ready"
    /\ sent' = 0
    /\ accepted' = <<>> /\ lost' = FALSE
    /\ UNCHANGED <<bufVars, opVars, draining, chipVars, bootVars>>

\* The host stops, and leaves the device as it is.
StopSession ==
    /\ Served
    /\ host \in {"ready", "sending", "polling"}
    /\ host' = "idle"
    /\ xfer' = "none"
    /\ UNCHANGED <<state, alt, bufVars, addrVars, opVars, draining, chipVars,
                   bootVars, file, sent, history>>

Fails ==
    /\ state' = "dfuERROR"
    /\ host' = "idle"

(***************************************************************************)
(* DNLOAD: the limit is checked and the end of the buffer filled at the    *)
(* SETUP packet, the data follow, and the completion counts the buffer.    *)
(***************************************************************************)
DnloadAllowed == state \in {"dfuIDLE", "dfuDNLOAD_SYNC", "dfuDNLOAD_IDLE"}

NextBlock == file[sent + 1]

ZoneOverrun == addr_recv + Len(NextBlock) > addr_end

Dnload ==
    /\ Served
    /\ host = "ready" /\ sent < Len(file)
    /\ IF DnloadAllowed
       THEN addr_recv' = addr_recv + Len(NextBlock)
       ELSE UNCHANGED addr_recv
    /\ IF DnloadAllowed /\ ~ZoneOverrun
       THEN /\ buf' = [buf EXCEPT ![wr] =
                         [i \in 1 .. BlockLen |->
                              IF i <= Len(NextBlock) THEN @[i] ELSE 1]]
            /\ xfer' = "data"
            /\ host' = "sending"
            /\ UNCHANGED state
       ELSE Fails /\ xfer' = "none" /\ UNCHANGED buf
    /\ UNCHANGED <<alt, used, wr, rd, addr_read, addr_prog, addr_end, opVars,
                   draining, chipVars, bootVars, file, sent, history>>

DnloadData ==
    /\ Served
    /\ xfer = "data"
    /\ buf' = [buf EXCEPT ![wr] =
                 [i \in 1 .. BlockLen |->
                      IF i <= Len(NextBlock) THEN NextBlock[i] ELSE @[i]]]
    /\ xfer' = "status"
    /\ UNCHANGED <<state, alt, used, wr, rd, addrVars, opVars, draining,
                   chipVars, bootVars, hostVars, history>>

HostSent ==
    /\ xfer = "status"
    /\ xfer' = "none"
    /\ host' = "polling"
    /\ sent' = sent + 1
    /\ UNCHANGED <<alt, rd, addrVars, opVars, draining, chipVars, bootVars,
                   file>>

\* _dfu_dnload_done_cb
DnloadDone ==
    /\ Served
    /\ HostSent
    /\ wr' = 1 - wr
    /\ used' = used + 1
    /\ state' = "dfuDNLOAD_SYNC"
    /\ accepted' = Append(accepted, Padded(NextBlock))
    /\ UNCHANGED <<buf, lost>>

\* The host has seen the end of the transfer, the device has not.
DnloadAckLost ==
    /\ Served
    /\ HostSent
    /\ lost' = TRUE
    /\ UNCHANGED <<state, used, wr, buf, accepted>>

\* A download of no bytes ends the file.
DnloadEnd ==
    /\ Served
    /\ host = "ready" /\ sent = Len(file)
    /\ IF DnloadAllowed
       THEN state' = "dfuMANIFEST_SYNC" /\ host' = "polling"
       ELSE Fails
    /\ UNCHANGED <<alt, bufVars, addrVars, opVars, xfer, draining, chipVars,
                   bootVars, file, sent, history>>

(***************************************************************************)
(* GETSTATUS: busy while both buffers are in use; at the end of the file   *)
(* it answers when the last buffer is flushed.                             *)
(***************************************************************************)
\* Fault: the device is never busy.
BuffersBusyNever == FALSE

BuffersBusy == used >= 2

GetStatusBlock ==
    /\ Served
    /\ host = "polling" /\ state # "dfuMANIFEST_SYNC"
    /\ state' = IF state = "dfuDNLOAD_SYNC" /\ ~BuffersBusy
                THEN "dfuDNLOAD_IDLE" ELSE state
    /\ host' = IF state' = "dfuDNLOAD_SYNC" THEN "polling" ELSE "ready"
    /\ UNCHANGED <<alt, bufVars, addrVars, opVars, xfer, draining, chipVars,
                   bootVars, file, sent, history>>

GetStatusManifest ==
    /\ Served
    /\ host = "polling" /\ state = "dfuMANIFEST_SYNC"
    /\ state' = "dfuIDLE"
    /\ draining' = TRUE
    /\ UNCHANGED <<alt, bufVars, addrVars, opVars, xfer, chipVars, bootVars,
                   hostVars, history>>

Drained ==
    /\ draining
    /\ used = 0
    /\ draining' = FALSE
    /\ host' = "done"
    /\ UNCHANGED <<state, alt, bufVars, addrVars, opVars, xfer, chipVars,
                   bootVars, file, sent, history>>

\* The next session clears an error, or aborts what the last one left.
ClrStatus ==
    /\ Served
    /\ host = "idle" /\ state = "dfuERROR"
    /\ state' = "dfuIDLE"
    /\ UNCHANGED <<alt, bufVars, addrVars, opVars, xfer, draining, chipVars,
                   bootVars, hostVars, history>>

Abort ==
    /\ Served
    /\ host = "idle"
    /\ state \in {"dfuDNLOAD_SYNC", "dfuDNLOAD_IDLE", "dfuMANIFEST_SYNC"}
    /\ state' = "dfuIDLE"
    /\ UNCHANGED <<alt, bufVars, addrVars, opVars, xfer, draining, chipVars,
                   bootVars, hostVars, history>>

\* UPLOAD reads the flash into the first buffer, up to the end of the zone.
Upload ==
    /\ Served
    /\ host \in {"idle", "done"} /\ used = 0 /\ op = "IDLE"
    /\ state = "dfuIDLE"
    /\ LET n == Smaller(BlockLen, addr_end - addr_read)
       IN  /\ buf' = [buf EXCEPT ![0] =
                        [i \in 1 .. BlockLen |->
                             IF i <= n THEN flash[addr_read + i - 1] ELSE @[i]]]
           /\ addr_read' = addr_read + n
    /\ UNCHANGED <<state, alt, used, wr, rd, addr_recv, addr_prog, addr_end,
                   opVars, xfer, draining, chipVars, bootVars, hostVars,
                   history>>

\* DETACH and a bus reset end the bootloader; the first reset does not.  A
\* reset is acted on when its line is released, also after a suspension.
Leave ==
    /\ stage = "dfu" /\ ~draining
    /\ state # "appDETACH"
    /\ reboot_now
    /\ UNCHANGED chipVars

\* A bus that goes quiet is followed while a buffer is in use: with none, it
\* only delays the next request.
BusQuiet ==
    /\ stage = "dfu" /\ ~quiet
    /\ used > 0
    /\ quiet' = TRUE
    /\ UNCHANGED <<engineVars, busy, lockVars, stage, exposed, guarded>>

\* The end of a suspension, and of a reset that does not end the bootloader.
BusResumes ==
    /\ quiet
    /\ quiet' = FALSE
    /\ UNCHANGED <<engineVars, busy, lockVars, stage, exposed, guarded>>

\* The bootloader starts with the power, or with a reset.
PowerCut ==
    /\ Restart
    /\ stage' = "start"
    /\ busy' = FALSE
    /\ UNCHANGED flash

----------------------------------------------------------------------------
(***************************************************************************)
(* main, up to the loop.  The chip is reset and asked for its manufacturer *)
(* and START is read; a register is written only if it is not yet as it    *)
(* should be, and is not read back; SELECT, or a mark that the application *)
(* has left in memory, asks for the DFU engine.                            *)
(***************************************************************************)
flash_reset == busy' = FALSE

Start ==
    /\ stage = "start"
    /\ flash_reset
    /\ \E held \in BOOLEAN :
           /\ exposed' = held
           /\ guarded' = IF held THEN "no"
                         ELSE IF known /\ guarded = "no" THEN "closing"
                         ELSE guarded
    /\ stage' = IF known THEN "bits" ELSE "choose"
    /\ UNCHANGED <<engineVars, lockVars, quiet>>

SetBits ==
    /\ stage = "bits"
    /\ \/ bits' = ~exposed
       \/ "bits" \in Missing /\ bits' = bits
    /\ guarded' = IF bits' = exposed THEN "no" ELSE guarded
    /\ stage' = "scheme"
    /\ UNCHANGED <<engineVars, busy, known, scheme, exposed, quiet>>

Closed == guarded' = IF guarded = "closing" THEN "yes" ELSE guarded

\* Fault: the second register is taken to be right as the chip comes.
SetSchemeNever == scheme' = scheme /\ Closed

SetScheme ==
    \/ scheme' = TRUE /\ Closed
    \/ "scheme" \in Missing /\ ~scheme /\ scheme' = scheme /\ guarded' = "no"

ProtectDone ==
    /\ stage = "scheme"
    /\ SetScheme
    /\ stage' = "choose"
    /\ UNCHANGED <<engineVars, busy, known, bits, exposed, quiet>>

EnterDfu ==
    /\ stage = "choose"
    /\ stage' = "dfu"
    /\ UNCHANGED <<engineVars, busy, lockVars, exposed, quiet, guarded>>

EnterApp ==
    /\ stage = "choose"
    /\ stage' = "app"
    /\ UNCHANGED <<engineVars, busy, lockVars, exposed, quiet, guarded>>

\* An application goes astray.
AppWrites ==
    /\ stage = "app"
    /\ flash' = Written([a \in BootZone |-> 0])
    /\ UNCHANGED <<state, alt, bufVars, addrVars, opVars, xfer, draining, busy,
                   bootVars, hostVars, history>>

Main ==
    \/ Start \/ SetBits \/ ProtectDone \/ EnterDfu \/ EnterApp \/ AppWrites

Request ==
    \/ SetConfiguration \/ StartSession \/ StopSession
    \/ Dnload \/ DnloadData \/ DnloadDone \/ DnloadAckLost \/ DnloadEnd
    \/ GetStatusBlock \/ GetStatusManifest \/ Drained
    \/ ClrStatus \/ Abort \/ Upload \/ Leave

Next ==
    \/ AnyTick
    \/ Request
    \/ Main
    \/ BusQuiet
    \/ BusResumes
    \/ FlashReady
    \/ PowerCut

Spec == Init /\ [][Next]_vars

\* The main loop, and the loop that drains, go round for ever: a tick that is
\* reached runs.  A flash command comes to its end.  Nothing is asked of the host
\* and of the bus, which may stay quiet for ever.
FairSpec == Spec /\ WF_vars(AnyTick) /\ WF_vars(FlashReady) /\ WF_vars(Drained)

----------------------------------------------------------------------------
\* Every variable has its type.
TypeOK ==
    /\ state \in State /\ alt \in Alts \cup {-1}
    /\ used \in 0 .. 2 /\ wr \in {0, 1} /\ rd \in {0, 1}
    /\ buf \in [{0, 1} -> [1 .. BlockLen -> Cell]]
    /\ op \in Op /\ op_ofs \in 0 .. BlockLen
    /\ should \in 0 .. 3 /\ prog_retry \in 0 .. Retries
    /\ xfer \in Xfer /\ draining \in BOOLEAN
    /\ flash \in [Addr -> Cell] /\ busy \in BOOLEAN
    /\ host \in Host
    /\ known \in BOOLEAN /\ bits \in BOOLEAN /\ scheme \in BOOLEAN
    /\ stage \in Stage /\ exposed \in BOOLEAN /\ quiet \in BOOLEAN
    /\ guarded \in Guarded

\* The flash and the two buffers together hold the accepted blocks of the
\* session, each once and in order: what is before addr_prog has been read back,
\* the rest is still in the buffers, whatever the chip has failed to do.  A
\* block is received into a free buffer, and what is held has room in the zone.
StreamInOrder ==
    alt # -1 /\ host # "idle" =>
        LET flushed == Len(accepted) - used
        IN  /\ addr_prog = Zones[alt].start + flushed * BlockLen
            /\ \A i \in 1 .. flushed :
                   FlashAt(Zones[alt].start + (i - 1) * BlockLen) = accepted[i]
            /\ \A i \in 1 .. used :
                   buf[(rd + i - 1) % 2] = accepted[flushed + i]
            /\ xfer # "none" => used < 2
            /\ used > 0 => addr_prog + used * BlockLen <= addr_end

\* A host that is told the download is complete finds its file in the zone, as
\* long as no acknowledge was lost: the number of a block is not looked at, so a
\* block whose completion is lost is missing without notice.
ManifestVerified ==
    host = "done" /\ ~lost =>
        \A i \in 1 .. Len(file) :
            FlashAt(Zones[alt].start + (i - 1) * BlockLen) = Padded(file[i])

\* Neither the bootloader nor an application changes the bootloader's own part of
\* the flash, unless the user asked for it by holding START, for as long as the
\* registers took what was written to them; and where they did not, or the chip is
\* one of those left alone, the engine itself still does not.
BootloaderKept ==
    [][ guarded = "yes" \/ (stage = "dfu" /\ ~exposed) =>
            \A a \in BootZone : flash'[a] = flash[a] ]_vars

\* No buffer waits for ever: it is flushed, or the attempts are used up and the
\* device restarts, unless the tick is out of reach because the bus goes quiet
\* before that.  While the bus is quiet nothing is flushed, however long it lasts;
\* from the moment it is active again the promise holds anew.
Flushed == used > 0 ~> (used = 0 \/ ~TickReached)
=============================================================================
