# A TLA+ model of Hazard3-Doom

Hazard3-Doom is a resident monitor for RISC-V systems on ULX FPGA boards
(`src/src`), the loaders and the port of Doom it starts (`src/doom`), a USB
bootloader that updates the boards (`src/bootloader-serv`), and the tools on the
host. The programs have no operating system and no second chance: what a
command leaves in memory or in flash is what the next one finds. This project
models the parts whose correctness depends on the order of things, checks them
with TLC on small instances, and proves the most important properties with TLAPS
for every size.

Paths below are relative to the repository, written `src/...`.

## Inventory

### Resident monitor (`src/src/main.c` and the loaders in `src/doom`)

| part | state | operations | talks to |
| --- | --- | --- | --- |
| prompt, boot (`main.c`, `start.S`) | none of its own; where the thread is | one-letter commands, quick memory test, SD boot on native SDR builds | every part below |
| external memory | 32 or 64 MiB: diagnostic window, image, heap, IWAD, video | loads and stores | everything |
| memory tests (`main.c`) | counters | `m` sequential, `a` sparse, `r` random, `q` all | memory, the flags of both loaders |
| heap (`main.c`) | `sdram_heap_current` | `_sbrk`, alloc, reset; tests `k`, `d` | tests, program, launch |
| image loader (`doom_image_loader.c`) | `image_loaded`, `image_restart_ready`, backup address, header | receive, load from card, back up, restore, launch, invalidate | memory, UART, card, heap, capture |
| IWAD loader (`doom_wad_loader.c`) | `wad_loaded`, header | receive, load from card, invalidate | memory, UART, card |
| execution and smoke tests (`sdram_exec_test.c`, `doom_port_smoke.c`) | results | `x`, `d` | image region, heap |
| console input capture (`main.c`) | ring of 64 bytes, head, tail, enabled | timer handler fills, `uart_getc_nonblocking` takes, begin, end | UART, launched program |
| timer (`main.c`) | `system_ticks`, compare register | 10 ms interrupt | capture, LEDs |
| SD boot, FAT reader, SD driver (`sd_boot.c`, `fat_ro.c`, `sd_spi.c`) | card, file system, counters | mount, open, read, boot | loaders |
| screen-snip cache (`main.c`) | header and frame in video memory | capture, publish, send | video |
| SAO driver and console (`hazard3_sao.c`, `sao_console.c`) | command under way, line editor | start, address, byte, read, stop, recover; `sao` and `i2c` | I2C bridge, shared with an ESP32 |
| I2CDriver screen (`i2cdriver_hdmi.c`) | mode, operands, bus rate, front buffer | keys, probe, read, write, present | SAO driver, display |
| Doom port (`doomgeneric_hazard3.c`, `doom_image_main.c`) | key under way, escape sequence, buffers, palette banks | `DG_Init`, `DG_DrawFrame`, `DG_GetKey`, the loop | capture, timer, display |

One thread runs each command to its end; the only concurrency is the timer
interrupt, the devices and the other master of the I2C bus. The hard behaviours
are sequences of commands (each of them may destroy what another one relies on),
failures in the middle of a load, resets that clear the monitor's variables but
not external memory, a launched program that may store anywhere, and the ring
shared with the handler.

Correct means: what is announced as loaded is in memory and intact; nothing
unverified is started; an active heap, a loaded image and, on the 12F whose monitor
runs from the same memory, the monitor itself survive every command that does
not say otherwise; no console byte is repeated, reordered, taken from before the
launch or kept for ever; what is read from a card is the file; a key that goes
down comes up; the display shows whole frames; the I2C bus is left after every call.

### Bootloader (`src/bootloader-serv/fw`)

| part | state | operations | talks to |
| --- | --- | --- | --- |
| control endpoint (`usb_ctrl_ep0.c`) | stage of the transfer, callback | SETUP, data, status | request handlers |
| DFU block stream (`ulx5m_dfu_stream.c`) | DFU state, next block, bytes and CRC | download, status, clear, abort, reset | flash sink |
| flash writer (`ulx5m_flash_hw_test.c`) | phase, length, CRC, error | arm, feed, finish, reset | stream, page program |
| page program (`ulx5m_flash_program.c`) | received, pending page, addresses, CRC | begin, feed, flush, finish | driver |
| flash driver (`ulx5m_at25ql321.c`) | none; the chip | identify, erase, program, read | SPI |
| ECP5 DFU engine (`usb_dfu.c`) | two buffers, flash operation, address | download, tick, vendor requests | SPI flash |
| boot selection (`ulx5m_normal_boot.c` and the image checks) | candidate, decision | validate, stream, reboot | flash, configuration port |
| USB core, standard requests | address, configuration, drivers | attach, reset, requests | all |

The firmware is one loop that polls USB. The hard behaviours are hosts that
repeat or skip blocks, a SETUP packet that discards a completion, aborts and bus
resets in any state, devices that fail, and power that is cut inside an erase or
a page program. Correct means: the stream holds the host's file once and in
order, two sessions never mix in the slot, nothing outside of the slot changes,
"verified" is said only of what the slot then holds, a control transfer never
mixes with another, and the FPGA is handed over only to an image that was
checked as a whole.

### The rest

Upload tools (modelled with the receivers), web tool, Verilog (the parts the
firmware hands over to), the earlier bootloader, ESP32 examples (the bus client),
benchmarks, scripts, documentation. `PROJECT.json` lists each with the reason it
is or is not modelled.

## Modules

| module | models | kind |
| --- | --- | --- |
| `Sdram` | memory map, copies and clears, `uint32_t` sums, the cells each test writes | operators |
| `DoomMonitor` | the monitor as the owner of external memory: boot, prompt, both loaders, heap, tests, launch, program, reset | component |
| `MCDoomMonitor` | a memory of 32 cells, 16 of them below the video reserve | instance |
| `DoomMonitorProofs` | theorems about `DoomMonitor`, and about the uploads that feed it | proofs |
| `CaptureFifo` | a bounded queue that counts what it accepts and refuses | abstract specification |
| `UartCapture` | the capture ring, its handler and its reader, access by access | component |
| `MCUartCapture` | small rings | instance |
| `UartCaptureProofs` | theorems, and that the ring implements the queue | proofs |
| `Ulx5mFlash` | DFU stream, flash writer, page program and driver composed, with host, device failures and power cuts | component |
| `MCUlx5mFlash` | a flash of 16 cells | instance |
| `Ulx5mFlashProofs` | theorems about `Ulx5mFlash` | proofs |
| `UsbControl` | control endpoint, USB core, transaction engine, host | component |
| `MCUsbControl` | packets of two units, ten requests | instance |
| `UsbControlProofs` | theorems about `UsbControl` | proofs |
| `UsbDfu` | the double-buffered DFU engine of the ECP5 boards, its flash and its host | component |
| `MCUsbDfu` | sectors of two cells, two zones | instance |
| `UsbDfuProofs` | theorems about `UsbDfu` | proofs |
| `SdBoot` | SD driver, FAT reader, commands `b` and `c` | component |
| `MCSdBoot` | four cards | instance |
| `Upload` | both upload scripts against both receivers, byte by byte | component |
| `MCUpload` | two images and an IWAD | instance |
| `NormalBoot` | the firmware and the logic that hand the FPGA over to the image in flash | component |
| `MCNormalBoot` | a flash of twelve bytes, seven headers | instance |
| `BootProofs` | theorems about `NormalBoot` and `SdBoot`, the two ways to a program | proofs |
| `DoomInput` | keyboard input of the Doom image and its loop | component |
| `MCDoomInput` | six strokes, a clock of eight | instance |
| `HdmiVideo` | display, its three users, screen-snip cache | component |
| `MCHdmiVideo` | two palettes, four frames | instance |
| `DoomProofs` | theorems about `DoomInput` and `HdmiVideo` | proofs |
| `SaoBus` | I2C bridge, Hazard3's driver, proxy and ESP32 client | component |
| `I2cDriver` | the console commands and the I2CDriver screen, composed with `SaoBus` | composition |
| `MCI2cDriver` | two registers, three addresses | instance |
| `I2cDriverProofs` | theorems about `I2cDriver` with `SaoBus` | proofs |

Compositions. `Ulx5mFlash` joins stream, writer, page program and chip;
`UsbControl` explains what it takes of the control endpoint (a callback runs
after the status stage, or never). `Upload` and `SdBoot` are the two ways bytes
reach the loaders of `DoomMonitor`, in which a transfer is one outcome.
`UartCapture` is the ring from which `DoomInput` reads. `I2cDriver` extends
`SaoBus`; its screen is one of the clients of `HdmiVideo`.

### `DoomMonitor`

`mem` is external memory below the video reserve, a function from cells to
values; the cached and the uncached address of a cell are one. The flags carry
the names of the C variables. `pc` says what the one thread is in the middle
of. A command is one action, except where flags change first and a failure may
come later: an upload clears its flags when it starts (`ImageReceive`,
`WadReceive`, `SdOpen`, `SdWadOpen`) and then fails or completes, and a reset
may come in between. `ImageComplete` is the whole tail of the loader: payload in
memory, checksum, backup copy, its checksum, restore, final checksum, flags.

Abstractions. A cell stands for a 32-bit word or a page as the constants want; a
checksum is a constant operator `Crc`, of which the proofs use only that its
results are checksums, so what is proved holds also where two contents collide.
Prompt texts, counters and timings are left out. `ProgramStore` lets the
launched program store to any cell of `StoreCells`; the history variable `stray`
records what it overwrote of things that were not its own, because that is the
one case the monitor does not promise to survive undamaged. External memory has
no defects, so memory tests write and never fail, and the only failing checksums
are those of a wrong payload and of what the program overwrote.

The sparse test flips one bit of an address after the other (`AddressBit`, the
shift of `src/src/main.c`) in a reference offset above the protected memory.
`ProtectedAssumption` says that this memory ends at such a bit, as on the 12F
(`SDRAM_12F_MONITOR_PROTECTED_BYTES`, 256 KiB of 32 MiB, the monitor's share in
`src/doom/hazard3_video.h:203-206`), or is empty.

### `UartCapture`

A byte is its position on the line. The handler runs to its end before the
foreground continues, as the interrupt does on this single core, but bytes
arrive between any two steps, and the handler may start between any two
accesses of `uart_getc_nonblocking` and of `capture_begin`. `Captured` is the
refinement mapping: the slots from tail to head. The receive FIFO is external;
when it is full a byte is lost, as in the hardware, and reading it when
it is empty returns a stale byte, written 0. A byte number is bounded by
`MaxBytes`.

### `Ulx5mFlash`

`accepted` stands for the count and the running CRC of the stream, `received`
for those of the page program: a sequence instead of its checksum, so that the
order of the bytes can be told. A request is handled at SETUP (`DnloadBlock`,
`ArmRequest`, ...), which leaves a callback in `xfer`; the callback runs later
(`BlockFed`, `ArmDone`, ...) or is discarded by another SETUP. A callback that
reaches the flash is a sequence of steps (`pc`), each of which may fail or be
cut off with any subset of its cells done (`TornFlash`). After an error the host
may clear the status and start over; the writer is disarmed then. `Disturb`
changes one cell behind the firmware's back, between any two steps, and
`ToolErases` is an external tool that erases the slot before a session. The
block number is 16 bits in the code and has no bound here: the limit of the
stream is reached after 32768 full blocks; short blocks in the middle of a file
are not sent by the hosts this serves.

At the end the slot is read back a page at a time (`ReadPiece`,
`src/bootloader-serv/fw/ulx5m_flash_program.c:162-175`), and `readback` is what
`readback_crc` stands for; flash may change between two pieces. A change ahead of
the pieces is read and found. One behind them is not: the firmware has no way to
see it, so `VerifiedReadBack` speaks of the whole slot, but only if no cell that
had been read changed meanwhile (history `late`). It also ends with the moment
of the report.

### `UsbControl`

Firmware and engine share three buffer descriptors. `usb_poll` and the packet
machine are a sequence of steps (`pc`): reset, suspend and SOF; the event gate;
reading the descriptors; acting on what was read. The engine answers the host
between any two of them (`SetupTransaction`, `InTransaction`, `OutTransaction`,
`StallTransaction`), and each of its packets may be lost. What the firmware saw
is kept in `seen` and may be stale when it acts (`NotActed`). A request is its
kind, length and value; data are numbered units. `serv` chooses the build that
returns from `usb_poll` without an event or goes on.

Known limits of the code, named by the property: when the acknowledge of a last
packet that is full is lost, the device has no buffer for the status packet
(`LastAckLost`); when that of a new address is lost, the device stays at the
old one while the host has moved (`AddressAckLost`). In both the host must give up.
A bus reset keeps configuration and alternate setting. `GET_STATUS` of an
interface and `GET_INTERFACE` are modelled as in the ULX5M build; the `#else`
branches of `src/bootloader-serv/fw/usb_ctrl_std.c:44-48` and `:240-247` differ.

### `UsbDfu`

`buf`, `wr`, `rd`, `used` and the flash operation are those of `g_dfu`. One
action per tick of `_dfu_tick` (`TickAdvances`, `TickErases`, ...), one per
request. The chip is busy after a command and may do nothing (`busy`,
`FlashReady`); a power cut keeps the flash. A cell is a group of equal bits, so
programming can only clear it. `accepted` is the history of the blocks
whose transfer completed.

`usb_poll` returns before the tick while the bus is suspended or held in reset
(`src/bootloader-serv/fw/usb.c:409-432`); `quiet` says that it does, and
`TickReached` that the tick is reached: on an active bus, or in the loop of
`dfuMANIFEST-SYNC` that ticks by itself (`draining`). A bus may go quiet at any
time and stay so for ever (`BusQuiet`, `BusResumes`); it matters with a buffer
in use, and is followed then. `Flushed` promises a flush only for as long as the
bus is active: a buffer that waits while the bus goes quiet keeps waiting.

The engine leaves order to the host: it does not look at block numbers (a block
whose completion was lost is missing without notice, `lost`), accepts a block in
`dfuDNLOAD-SYNC`, and does not wait for its buffers on `SET_INTERFACE` or after
an abort. The host of the model is the disciplined one the class specification
asks for. The last retry reboots without another comparison.
`stage` follows `main` (`fw_dfu.c`) until its loop runs, or an application does:
`exposed` says that START was held and the bootloader's own setting is in the
descriptor, `bits` and `scheme` are the two registers that protect its part of
the flash, each written once and not read back. A write to those named in
`Missing` may have no effect, a chip of another manufacturer (`known`) is left
alone, and an application clears any cell of that part that is not
protected (`AppWrites`). The history `guarded` remembers whether
START was up and both writes took.

The engine is the same file in `src/bootloader/fw`. The zones of the model are
whole sectors; the clock chip, setting 6 (`usb_dfu.c:171`, 256 bytes), is not one
and is outside of the model.

### `SdBoot`

A card is a set of sectors by address; a sector is a record of its kind with any
numbers in it (`IsSector`, `DiskAssumption`). `stage` says where the monitor is,
`io` what the driver is in the middle of, `cs` the chip-select line, `cache` the one
sector of `fat_ro.c`; reading a sector that is not cached is the driver's steps
(`ReadTimeout`, ...) and then the step that needed it goes on.
`Insert` and `Remove` happen at any time, also inside of a block (`ReadTorn`,
history `torn`). `Chain` is the reference definition of a file's clusters, which
the reader, working by seeks and pieces, must agree with.

Numbers are those of 32 bits: the sums of the boot sector (`FirstData`,
`Geometry`; `src/src/fat_ro.c:99-133`), the sector of a cluster, and the byte
address a card of standard capacity is given (`Argument`,
`src/src/sd_spi.c:237`) are computed modulo `WordModulus`. The reference
definitions are not: `Layout`, `FatAt`, `SectorAt` and `IsByte` say where the
file is. The code refuses an entry of the FAT only if it is 0, 1 or an end mark
(`src/src/fat_ro.c:167`). An entry beyond the volume is followed, and the address
that belongs to it may wrap and name a sector that exists: bytes that are not the
file's come with success. Likewise a boot sector whose sizes exceed the
card. So `Delivered` claims what the code gives: on a volume that fits into
itself and its card (`Sound`), every byte delivered is the file's up to the first
entry that names no cluster of the volume, and no byte is delivered past
a chain that ends. What comes after such an entry is not promised; in the
run card "b" has one, its address wraps, and without that condition
`Delivered` is violated. The loaders' checksums are what stands behind it.

A FAT16 volume may name no sectors for its root directory: the loops over it read
nothing then (`NoRoot`), and the command fails without another block.

The driver does not check the CRC of a block, so a torn block is
delivered as it is: the loaders' checksums catch it, and `Delivered` excepts it.
The prompt's help (`src/src/main.c:344`) names `DOOM1.WAD`; the code
opens `DOOM.WAD` (`src/src/sd_boot.c:235`).

### `Upload`

The script's `stage` is the marker it waits for; `wire` holds the bytes under way,
`answers` the markers, `rx` is the receive FIFO of the UART. `board` follows
`doom_image_loader_receive` and its IWAD twin: drain, `READY`, header, summary,
`DATA`, payload, checksum. While the board prints, bytes that overrun `rx` are
lost. The faults are bounded together by `MaxFaults`: a lost or damaged byte, a
lost marker, a stall, a kill, a reset, and a second run started while bytes or
markers of the first are still on their way (`HastyStart`).

The board waits 5 s for a byte (`LOADER_BYTE_TIMEOUT_MS`), the scripts 10 s and
more for a marker, so the script gives up later (`GiveUp` waits for a quiet
board); the version query of the IWAD script has 5 s too, and is assumed to be
tried again later. `SoonAccepted` counts the runs that fail after the last
fault: the first one for what the fault left behind, and a second one when the
next run's command byte is taken for a byte of the payload the board still waits
for. Two is reached, and it is the most.

`AcceptedIsStored` is another matter, because a marker does not say which run it
answers. It holds under three conditions, which the code relies on and neither
side checks. The history `own` follows two of them: the run began on a quiet line
(`HastyStart` ends that), and a byte came as another one, if ever, only in the
payload that the board was reading, and read to its end (`Noise`, `Interrupts`);
`Plain` is the third, no magic of a header inside of a payload. Bytes and
markers that are lost, stalls, kills and resets need no condition, nor does a
damaged payload, which the checksum catches. Without the condition on
`own` TLC finds with three faults that a payload is reported as stored
that is not; without `Plain` one fault is enough, a reset in the middle of a
payload that contains a whole upload, as that of image "w" does.

A header has no checksum of its own: a damaged entry or bss word is only
range-checked. Payload bytes left over after a stall are prompt commands; those
modelled here are `l`, `w` and `v`. `--launch` is not modelled, external memory
is ready, and markers that come in one chunk are taken one at a time.

### `NormalBoot`

`build` chooses between streaming and reconfiguring from flash. Firmware (`pc`)
and logic (`port`, `gate`) take turns; any poll loop may run out. `first` and
`second` are what the two passes have read, `accepted` what the configuration
controller has taken. `Disturb` changes a byte of flash behind the firmware.

### `DoomInput`

`in` holds the static variables of `doomgeneric_hazard3.c`; one action is one
call of `DG_GetKey` with its loop over the ring (`Result`, a fold over the
characters). `held` and `age` are what Doom was told and for how long. Time is a
counter modulo `TimeMod`, and a frame takes up to `MaxFrame`. The code tests the
deadline of an escape sequence before it reads what has arrived:
`EscapeMeant`, the claim of the comment at
`src/doom/doomgeneric_hazard3.c:724-726`, does not hold (run `doom_input_arrow`:
the user presses only an arrow key, its last character is in the ring, and
Escape is reported).

A Ctrl-X that arrives as the character after `ESC [` or `ESC O` ends that
sequence and is dropped with it (`src/doom/doomgeneric_hazard3.c:667-687`).
`src/README.md:525` makes no such exception; `CtrlXExits` makes it, by `Heard`,
which says of each character in the ring whether the decoder will take it for
itself. A player who presses the key again is heard.

### `HdmiVideo`

`hw` is the display's registers, `bank` the two banks of block RAM, `sdram` the
staging buffers, `palette` the two palette banks, `snip` the cache. A client
takes its steps in the order of its C function (`step`, by the help of `GoOn`),
and the display copies and swaps between any two. A picture has two halves, each
of which remembers its frame.

Assumed of the display: a presentation ends in time or never (the code waits a
second for something that takes a sixtieth); a new presentation is not requested
while one is pending; the count moves early or at the swap; a reset clears the
registers and keeps the memory. When Doom hands over to the I2CDriver screen or
back, the palette of the picture still shown may be overwritten by the first
frame of the next client. The line buffer of the 12F is not modelled.

### `SaoBus` and `I2cDriver`

`drv` is the driver: a call is a script of commands (`Script`), and each command
is issued, waited for and judged (`sao_command`), with the early returns and the
`STOP` the code adds after a failure. `bus` is the bridge and the device, `proxy`
the hardware that grants the bus, `esp` the client on the ESP32 with its serial
line. `I2cDriver` adds the console's commands and the keys, modes and bus
rate of the screen.

Assumed of the bridge: an accepted command clears the flags of the one before
(`src/docs/reference/apb-peripherals.rst:329-330` calls them sticky until they
are written; the driver never writes them), a `START` that times out has not
taken the bus, and a `STOP` leaves it whatever happens. An answer to the ESP32
names neither its register nor its request, and the client never flushes its
line; `EspValueTrue` holds because the client stops, or leaves a read out, after
a call that failed, and because of the order of its plan: the answers of two
reads are kept apart by the requests between them. That is so for any number of
faults as long as the client has restarted at most once (history `restarts`).
The protocol itself gives no such promise: over two restarts requests of three
runs pile up, and after twelve faults the client of the model takes the position
for the LED.

## Runs

| run | instance | states | checks |
| --- | --- | --- | --- |
| `monitor` | 16 cells in the order of the map: 1 protected, window of 4, image of 6, heap of 4, IWAD of 2; four image headers, two IWAD headers, three sizes on the card | 584348 | `RestartImageSound`, `WadIntact`, `LaunchVerified`, `RestartPreserved`, `LoadedUntouched`, `HeapKept`, `MonitorKept` |
| `capture` | ring of 4, receive FIFO of 2, 6 bytes on the line | 78312 | `NoEmptyRead`, `CaptureFresh`, `InOrder`, `RingIsFifo`, `NoByteStuck` |
| `flash` | slot of 2 sectors of 2 pages of 2 cells in a flash of 16; blocks of 3; two files | 83042 | `SessionAgrees`, `AcceptedInOrder`, `SlotSession`, `VerifiedReadBack` |
| `usb_control` | packets of 2, ten requests, two transfers | 337454 | `AddressAssigned`, `WritesDelivered`, `ReadExact`, `TransferEnds` |
| `usb_dfu` | sectors of 2, pages of 1, a flash of 8, zones of 3 sectors and of 1 (the bootloader's), four retries, a file of three blocks, a bus that goes quiet, both registers may miss a write | 1113385 | `StreamInOrder`, `ManifestVerified`, `Flushed`, `BootloaderKept` |
| `sd_boot` | sectors of 2 bytes, numbers below 64; FAT16 in a partition, FAT32 with a circular root and an entry outside the volume whose address wraps, FAT16 with a bad cluster, FAT16 without a root directory | 631367 | `Delivered`, `CardReleased`, `CommandEnds` |
| `upload` | payloads of 2 and one of 5 that contains an upload, receive FIFO of 1, three faults | 1964471 | `SoonAccepted`, `AcceptedIsStored`, `BothEnd` |
| `normal_boot` | pages of 2, sector of 6, seven headers, two changed bytes | 126517 | `DoneVerified`, `FailClosed`, `ReconfiguredVerified` |
| `doom_input` | clock of 8, hold 2, escape 1, frames of up to 2, two strokes | 241836 | `KeysPaired`, `CtrlXExits` |
| `doom_input_arrow` | the same, one stroke, an arrow key | 148 | `EscapeMeant`, violated |
| `video` | two palettes, four frames, one reset | 919090 | `FrameWhole`, `SnipWhole` |
| `i2cdriver` | two registers, three addresses, one fault | 3933210 | `BusReleased`, `ResultTrue`, `EspValueTrue` |

Why the bounds are enough. `monitor`: two of its headers leave room for a backup
copy (with different sizes, so that one load follows another of another size),
one does not, one has a bss length whose 32-bit sum wraps; both payload
checksums match or do not; the IWAD region holds an IWAD, a truncated one and a
file too large; every region has a cell the program may spoil. The values 0 and
1 tell zeroed, loaded and scribbled cells apart. `capture`: six bytes fill the
ring (which holds three), refuse a byte, wrap both indices and span two
captures. `flash`: a block completes two pages, one or none; one file needs both
sectors and a partial last page; the other exceeds the limit of the stream, so
its last block is refused. `usb_control`: reads end with a short packet, with a
full one and before the host expects it; writes take two packets or do not fit;
one transfer interrupts the other. `usb_dfu`: both buffers fill, a sector needs
an erase, only a program or nothing, a zone ends; the bus goes quiet at any
moment; power fails between the two registers, and an application meets each of
their values. `sd_boot`: chains cross sectors of the FAT, a cluster has two
sectors, a directory continues, a directory has no sectors, an entry leads out
of the volume and back by a wrapped address. `upload`: a payload exceeds the
FIFO and contains a command; three faults follow each other, as the
counterexamples above need; less room than the two bytes of the UART is the
harder case for both sides. `normal_boot`: partial pages, images too long for
port or flash. `doom_input`: two strokes overlap in the ring, and a frame is
longer than the escape deadline. `video`: each client draws into both banks and
finds those of another one. `i2cdriver`: both masters use the pointer of the
same device.

Fairness. `capture`: the timer interrupt recurs (weak fairness of
`TimerFires`) and its handler ends (weak fairness of `Isr`). The foreground
polls for ever, in the prompt and in Doom. The handler pre-empts it again and
again, which disables its steps; because the handler takes far less than its
10 ms period they are enabled again each time, hence strong fairness of
`GetcCapture` and `GetcStep`. Nothing is assumed of `CaptureBegin`,
`CaptureEnd`, `Reset` or of the line.

`usb_control`: the main loop polls (weak, `Poll`), a bus reset ends, and of the
packets that host and device repeat not every one is lost (strong,
`GoodTransaction`). `usb_dfu`: the main loop goes round, so a tick that stays in
reach runs, a flash command comes to its end, and so does the loop that drains
the buffers (weak); nothing of the host, and nothing of the bus: that it becomes
active again is not assumed. `sd_boot`: the monitor's thread and its clock go on
(weak); nothing of the card. `upload`: the board's thread, the line and both
clocks go on (weak); nothing of the user or the faults. `doom_input`: time, the
line, `DG_GetKey` and the loop go on (weak). The other runs check safety only.

Deadlock is checked in every run but six: `upload`, `doom_input`,
`doom_input_arrow`, `normal_boot`, `video` and `i2cdriver`, in which the bounds
on strokes, faults and frames, or the end of the boot and of the game, stop the
system.

Each property of each run has a mutant in `PROJECT.json`: a plausible fault in
one definition, written beside it in the module as `...` followed by the fault,
which the property finds.

## Proofs

Every theorem is about all values of the constants that satisfy the named
assumptions; TLC evaluates the same assumptions on the instances above. In each
component the argument is one inductive invariant `IInv`, shown to hold
initially and to survive every action; what a reader wants to know then follows
from it.

`DoomMonitorProofs` (`LayoutAssumption`, `TestAssumption`, `CellAssumption`,
`HeaderAssumption`, `HeapTestAssumption`, `ProtectedAssumption`). `IInv` is
`TypeOK`, `RestartImageSound` and `WadIntact`; it needs no strengthening.
`TypeOK` is used for the arithmetic of regions, which wraps at 32 bits in the
loader; `RestartImageSound` survives a command because the backup lies outside
of what the program and the heap may touch and outside of the cells a test
writes, or because the command has withdrawn the flag before it writes.
`LaunchVerified`, `RestartPreserved`, `HeapKept`, `LoadedUntouched` and
`MonitorKept` are action properties, each shown action by action from `IInv`.
`Crc` is an opaque operator there.

`MonitorKept` is about the cells each test writes, for every memory whose protected
part ends at an address bit. The bits double (`AddressBitDoubles`), so a larger
one is a multiple of twice a smaller one (`AddressBitsGrow`), and flipping one
of them in three times the protected size cannot bring the offset below it
(`FlipStaysHigh`, `TestsStayHigh`). `AddressBit` is a recursive function; that
its equation has a solution at all is shown there by the pigeonhole principle,
since the library's induction cannot be used (see below).

The same module proves `SoonAcceptedCorrect` of `Upload` (`UploadAssumption`),
for any number of faults. A run that starts at a resting board is in one of ten
places (`Asks`, `Commands`, ..., `Reported`), in each of which everything that
is on its way between the two sides is known and every step leads to the same or
the next place (`AsksStep`, ..., `ReportedStep`, together `CleanStep`); no step
of them loses a byte, and none counts a failure. A run that starts while the
board waits for bytes of another one (`LateRun`) hears neither `READY` nor a
memory profile, so it ends by giving up with the board at rest (`LateRunStep`).
`UploadIInv` says which of these a run is after none, one and two failures.

`AcceptedIsStored` holds of an undisturbed script whatever its run is
(`FaultlessStored`), and, with its conditions, for any number of faults
(`AcceptedIsStoredCorrect`). The invariant `OwnInv` says for each stage of the
script what may be on its way: no marker of another run, and an image or `OK`
only of the session whose header this run has sent (`VersionInv`, `ReadyInv`,
`DataInv`, `ResultInv`). The magic words are what keeps the board from taking
the middle of a payload for a header of its own; a damaged payload is read to
its end by a board that then finds its checksum wrong (`Damaged`).
`UploadsWindDown` is the core of `BothEnd`: the number `Work`, a weighted sum of
what board and script have still to do, of the bytes and markers under way and
of the faults to come, which every step but the start of a run makes smaller.

`UartCaptureProofs` (`CaptureBytesAssumption`, `RxDepthAssumption`,
`MaxBytesAssumption`). `IInv` is `TypeOK`, `NoEmptyRead`, `Control` (what the
reader holds in its registers agrees with the ring, whatever the handler did
since), `RxOrder` and `RingOrder` (bytes in the UART and in the ring ascend and
are newer than what has been returned). From it: `CaptureFreshCorrect`,
`InOrderCorrect` and `RingRefinesFifo`, the step simulation in which storing,
refusing, taking and clearing are the steps of `CaptureFifo` and everything else
stutters. The two indices and the wrap of the mask are turned into a sequence by
`RingShape`, `StoreAppends` and `AdvanceTakesFirst`. `LineMovesOn` is the core
of `NoByteStuck`: a byte that waits is moved from the UART to the ring without
loss, nothing gets ahead of it, and whoever takes a byte takes the oldest.

`Ulx5mFlashProofs` (`GeometryAssumption`, `DataAssumption`). `IInv` is `TypeOK`,
`SessionAgrees` and eight parts that none of the checked properties states:
`XferShape` and `XferPhase` (a pending callback carries the block that follows
what is accepted, an arm or finish callback meets the phase it was accepted in),
`Control` (inside a callback the writer is armed), `StreamOrder` and `FeedOrder`
(the accepted and the received bytes are the file's, byte by byte, also in the
middle of a block), `Pages` (the page under way is the end of what was received
and its address the one after what was written) and `SlotHolds` (`SlotSession`
inside of callbacks). Erasing a sector keeps `SlotHolds` because it starts at
the page under way; the arithmetic of a page and a sector is only that, so page,
sector and block sizes need not divide each other.

`TypeCorrect`, `SessionCorrect`, `AcceptedInOrderCorrect`, `SlotSessionCorrect`
and `VerifiedReadBackCorrect` follow. For the last one, `ReadOrder`: the pieces
read so far are the beginning of the slot as it still is, unless `late`.

`UsbControlProofs` (`UsbAssumption`). `IInv` says why it does no harm that the
firmware acts on descriptors it looked at some steps before: `SeenTrue`, the
engine leaves alone what it has answered, and answers nothing while a SETUP
packet waits (`Waits`). `Shapes` (`IdleShape`, `SendShape`, `StoreShape`,
`Stalls`) are the contents of the three descriptors in each state of the
endpoint. `Link` is how far host and device can be apart: the data toggles say
on which side the last packet is, so the data of both differ by that packet or
not at all. `Before` says that nothing of a write is delivered or acknowledged
when its SETUP packet comes again. From these follow `AddressAssignedCorrect`,
`ReadExactCorrect` and `WritesDeliveredCorrect`, for every packet length, set of
requests and number of transfers, and for both builds. `ControlTypeCorrect` adds
to it that no packet is longer than its buffer and no transfer runs past its
length (`Fits`).

`BootProofs`, the image in flash (`BootAssumption`). `FailClosedCorrect` follows
from where the firmware can be while the port is open. `DoneVerifiedCorrect`
rests on `BootInv`: as long as the port has no error, what the controller has
taken, the byte on its way and the bytes still to be sent are together what the
second pass has read (`Carried`), and `FINISH` is written only after the whole
of it had the checksum of the header (`Checked`). `ReconfiguredVerifiedCorrect`
rests on `NativeInv`: what was read so far is sound unless `invalid` is set, and
the gate is touched only by a firmware that has read the whole sector; that the
last page ends with the sector is the arithmetic of `Multiple` and
`PageInSector`. `NormalTypeCorrect` gives the types.

`BootProofs`, the card (`SdAssumption`, `DiskAssumption`). A command that fails
returns to the prompt without looking at chip-select, so `CardReleasedCorrect`
needs to know where the code is while a block is under way (`BlockUnderWay`).
`DeliveredCorrect` says of every disk, also one whose file system is nonsense,
that the loaders are given the beginning of the file, as far as `Delivered`
claims it: where the volume is sound and the chain stays inside it. The
invariant is about the code's own numbers, wrapped (`Seen`, `SeenAround`);
`SoundFacts`, `SameLayout`, `SameChain` and `SameData` then show that on a sound
volume none of these sums and products wraps, so that what the code saw is what
is there. `SdInv` is about cards that come and go: one that answers is the one
that was initialized (`CardTrue`), because another one answers only after
`cmd0`; hence what is kept of the volume (`FsTrue`) and of the last sector
(`CacheTrue`, with the exception of a torn block) is so. `AtPlace` says that the
reader's cluster is the one of the reference `Chain` at its index, `Content`
that what it has delivered so far is the beginning of the file; a piece that is
added continues it (`BeginningGrows`, `SamePlaceInFile`), with the arithmetic of
sectors and clusters in lemmas of their own. `Chain` is a recursive function;
`ChainRecursion` shows that its equation holds, from paths of any length
(`PathExists`, `PathsAgree`), by an induction over sets (`SetInduction`,
`LeastNumber`).

`CommandWindsDown` is the core of `CommandEnds`. `Rank` has six components in
lexicographic order: the phase of the command, the clusters or bytes it may
still take, the sectors of the directory or clusters of the chain before the
next one, whether this one has been looked at, what is missing of the block, and
the time left. Every step of the monitor, every tick and a block torn off lower
it; only asking the card again with `ACMD41`, while the clock runs, leaves it as
it is; putting a card in or taking it out does not raise it. `WindInv` adds to
`SdInv` what keeps the six in the natural numbers: a walk stays inside its
directory and takes no more clusters than the volume has, however its chains run
(`WalkBounded`), a reader is never ahead of its position and reads only what is
wanted (`ReadBounded`). A root directory without sectors is the one case in
which a walk may not begin (`VolumeCounted`); it came up in this proof.

`UsbDfuProofs` (`DfuAssumption`). `IInv` is six parts, none of which a run
states: `Buffers` (one of two buffers is in use exactly while `wr` and `rd`
differ), `Stages` (the host's turn and the device's state agree, and whenever
the host may send a buffer is free: it left `dfuDNLOAD-SYNC` only by a GETSTATUS
that said so), `Arriving` (how far the zone is used up, and what of a block has
come in), `Kept` (`addr_prog` and the buffers are the end of the accepted
blocks), `Flashed` (the rest has been read back) and `Told` (without a lost
acknowledge the accepted blocks are the file's). `Flashed` survives every
command of the chip because erasing and programming start at `addr_prog`, behind
all that has been read back. A last block that is short has room for a whole
sector because zones are whole sectors (`RoomForBlock`). `StreamInOrderCorrect`
and `ManifestVerifiedCorrect` follow, however often a command of the chip has no
effect.

`BootloaderKeptCorrect` follows from `Held`: a zone that is being written is one
the descriptor offers and lies behind the bootloader's (`Chosen`), and a
bootloader that was `guarded` has both registers set when an application can run
(`Guarding`); START held, a register that missed its write or a chip left alone
each end that promise until the next start, but never the engine's own.

`TypeCorrect` gives the types of the whole device and its host: UPLOAD reads
inside of the zone, and a page never goes beyond its buffer. `FlushWindsDown` is
the core of `Flushed`: while a device with blocks to flush is left alone, each
tick flushes a buffer, uses up one of the attempts, or programs a further page
of this attempt, and nothing gives one back.

`DoomProofs`, the keys (`InputAssumption`). `IInv` says that a release is
pending exactly while Doom holds that key (`PlanIsTold`) and that it falls due
as much later as the key is too young, counted on the clock that wraps (`Due`).
The assumption that hold time and frame fit twice into the clock is the one the
signed difference needs. `CtrlXKept` is the safety in `CtrlXExits`: a Ctrl-X the
decoder will not take for itself is read, put off or still in the ring until
Doom has returned (`ReadsOne`: what a single character may do to the variables
that decide about it). `InputTypeCorrect` and `VideoTypeCorrect` give the types
of both modules.

`DoomProofs`, the display (`VideoAssumption`). Nobody writes what is shown:
`VideoInv` says which steps of the three clients are taken with no presentation
pending (`Waited`), and that the bank or buffer a client takes next is not the
shown one, whichever way it keeps count (`Backs`). `Coming` is what a
presentation will show that is still pending, `Written` and `Uploaded` how far a
picture and its palette have got, `Saved` how far a save of the snip cache has,
and which of its magic words a reset can find. `FrameWholeCorrect` and
`SnipWholeCorrect` follow, for every set of palettes, every width of the count
and both builds. While this proof was written an arm of `Plan` was found to
overlap another one, so that TLC took the first of them and the definition did
not say which; the conditions are now exclusive.

`I2cDriverProofs` (`SaoAssumption`). `IInv` follows a call through its commands:
what is left of it ends with `STOP` (`ScriptLeft`), only its first `START` takes
the bus (`Held`), and a last command that ended or was rejected has left it;
this gives `BusReleasedCorrect`. `ResultTrueCorrect` needs what a call has done
by the commands that are left of it (`Reached`: the turn of the device, the
register pointer and what the device took), as long as everything went well
(`Course`). `Reached` holds between two commands because the proxy is not
granted the bus from `START` to `STOP` (`Granted`), and across a command by one
case for each command of each call.

`EspValueTrueCorrect` rests on `EInv`. Requests and answers on the line, and the
one the proxy works on, are one sequence of tags, oldest first (`At`); frames
that are lost take tags out of it, damaged ones make them `other`, and the order
stays (`Shrinks`). `Apart` says for each step of the client's plan, before the
first and after one restart, which tags cannot be in that sequence, or only
last: before the LED is read, no position is left that could be taken for it.
TLC checks `Apart` of proxy and client alone for five faults completely, and for
nine as far as it gets. `BusTypeCorrect` gives the types of both masters, the
bridge, the device and the screen; that only values get into registers is part
of it (`DeviceTyped`).

## Only model-checked

The liveness properties `NoByteStuck`, `TransferEnds`, `Flushed`, `CommandEnds`,
`BothEnd` and `CtrlXExits` stay with TLC: the prover decides neither fairness
nor ENABLED. What each of them rests on without fairness is a theorem: a measure
that every step lowers (`CommandWindsDown`, `UploadsWindDown`,
`FlushWindsDown`), or the safety that nothing is lost on the way (`LineMovesOn`,
`CtrlXKept`). `TransferEnds` has no such theorem: host and device repeat
themselves until a transaction comes through, so only the strong fairness of
good transactions makes it end. That the step which lowers a measure can be
taken is checked by TLC alone, and so is that a retry of the engine comes
(`Flushed`).

Every other property of every passing run is a theorem.

The library's induction theorems take an operator as a parameter, which the
provers cannot instantiate. Two recursive functions are reasoned about
nevertheless (`AddressBit`, `Chain`), by induction over a set that is written
out; properties of data that would need more than that, such as what a checksum
detects, are not stated.

## Not modelled

What the memory tests detect, and an IWAD whose bytes went wrong on the way into
memory, since the memory of the models has no defects. Drawing, text output,
counters, line editing at the console (a line that is too long leaves its
remainder to the prompt, `src/src/sao_console.c:430-435`). The 64-bit timer: it
is read until both high words agree and written high word first, a dozen
lines whose argument is a comment. An unexpected trap halts until a reset, and
bytes that overrun the UART between two timer ticks are lost without a count;
nothing is promised of either. The vendor requests of the DFU engine, the
autonomous boot builds, the parts of the bootloader that are built for host
tests only, and the Verilog beyond what the firmware hands over to. The web
tool, which repeats the protocol of the scripts in the browser. `components` in
`PROJECT.json` says of each part what is left out.

## Plan

The components of the first plan are modelled: `DoomMonitor`, `UartCapture`,
`Ulx5mFlash`, `UsbControl`, `UsbDfu`, `SdBoot`, `Upload`, `NormalBoot`,
`DoomInput`, `HdmiVideo`, `SaoBus` with `I2cDriver`. What would be worth adding,
in this order:

1. `Ulx5mFlash` on top of `UsbControl` instead of on its outcome.
2. The 64-bit timer in two words: never early, for every word width.
3. The vendor requests of the DFU engine while a buffer is being flushed.
4. The composition of `SdBoot` and `Upload` with `DoomMonitor`, whose transfers are one
   outcome now: a refinement in which each loader's steps are one `ImageComplete`.
