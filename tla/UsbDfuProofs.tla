---------------------------- MODULE UsbDfuProofs ----------------------------
(***************************************************************************)
(* The download engine keeps the blocks in order and tells the truth, for  *)
(* every size of block, page and flash, every set of zones and files, and  *)
(* every number of retries.                                                *)
(*                                                                         *)
(* Buffers says which of the two buffers is written and which is flushed;  *)
(* Stages, where host and device are in a session and that a block is sent *)
(* only when a buffer is free; Arriving, how far the zone is used up and   *)
(* what has been received of a block; Kept, that addr_prog and the buffers *)
(* are the end of the accepted blocks; Flashed, that the rest has been     *)
(* read back; Told, that without a lost acknowledge the accepted blocks    *)
(* are the file's.                                                         *)
(*                                                                         *)
(* BootloaderKept rests on Chosen, the zone that is written is one that    *)
(* the descriptor offers, and Guarding, what the registers of the chip     *)
(* hold at each place of main.                                             *)
(*                                                                         *)
(* TypeCorrect gives the types of the whole state.  FlushWindsDown is the  *)
(* core of Flushed: while a device with blocks to flush is left alone,     *)
(* nothing it does sets back the work it has to do.                        *)
(***************************************************************************)
EXTENDS UsbDfu, SequenceTheorems, TLAPS

Buffers ==
    /\ used \in 0 .. 2 /\ wr \in {0, 1} /\ rd \in {0, 1}
    /\ used = 1 <=> wr # rd
    /\ DOMAIN buf = {0, 1} /\ addr_prog \in Nat
    /\ op \in Op /\ op_ofs \in Nat
    /\ op # "IDLE" => used > 0

Session == host # "idle"

Stages ==
    /\ host \in Host /\ state \in State
    /\ draining => host = "polling" /\ sent = Len(file)
    /\ Session =>
        /\ alt \in Alts /\ addr_end = Zones[alt].end
        /\ file \in Files /\ sent \in 0 .. Len(file)
        /\ state \notin {"appDETACH", "dfuERROR"}
        /\ host = "sending" => sent < Len(file)
        /\ host \in {"ready", "sending"} =>
               used < 2 /\ state \in {"dfuIDLE", "dfuDNLOAD_IDLE"}
        /\ host = "polling" =>
               /\ state # "dfuDNLOAD_SYNC" => used < 2
               /\ state = "dfuMANIFEST_SYNC" => sent = Len(file)
        /\ host = "done" => used = 0 /\ sent = Len(file)

Coming == file[sent + 1]

Arriving ==
    /\ xfer \in Xfer
    /\ xfer = "none" <=> host # "sending"
    /\ Session =>
        /\ xfer = "none" /\ sent < Len(file) =>
               addr_recv = Zones[alt].start + sent * BlockLen
        /\ xfer # "none" =>
               /\ addr_recv = Zones[alt].start + sent * BlockLen + Len(Coming)
               /\ addr_recv <= addr_end
        /\ xfer = "data" =>
               \A i \in 1 .. BlockLen : i > Len(Coming) => buf[wr][i] = 1
        /\ xfer = "status" => buf[wr] = Padded(Coming)

Count == Len(accepted)

Kept ==
    Session =>
        /\ accepted \in Seq([1 .. BlockLen -> Cell])
        /\ used <= Count /\ Count <= sent
        /\ addr_prog = Zones[alt].start + (Count - used) * BlockLen
        /\ used >= 1 => buf[rd] = accepted[Count - used + 1]
        /\ used = 2 => buf[1 - rd] = accepted[Count]
        /\ Count > 0 => Zones[alt].start + Count * BlockLen <= addr_end

Flashed ==
    Session =>
        \A i \in 1 .. (Count - used) :
            FlashAt(Zones[alt].start + (i - 1) * BlockLen) = accepted[i]

Told ==
    Session /\ ~lost =>
        /\ Count = sent
        /\ \A i \in 1 .. sent : accepted[i] = Padded(file[i])

IInv == Buffers /\ Stages /\ Arriving /\ Kept /\ Flashed /\ Told

(***************************************************************************)
(* What main has decided.  Chosen: a zone is chosen, and flushed to, only  *)
(* by the engine, only when it is in the descriptor, and never before its  *)
(* start.  Guarding: the two registers are set when START was not held and *)
(* nothing went wrong, and stay so through every restart.                  *)
(***************************************************************************)
Chosen ==
    /\ used > 0 => alt # -1
    /\ alt # -1 => /\ alt \in Offered /\ stage = "dfu"
                   /\ Zones[alt].start <= addr_prog

Guarding ==
    /\ stage = "start" => ~exposed
    /\ guarded = "yes" => Locked /\ ~exposed
    /\ guarded = "closing" => ~exposed /\ stage \in {"bits", "scheme"}
    /\ guarded = "closing" /\ stage = "scheme" => bits
    /\ bits \in BOOLEAN /\ scheme \in BOOLEAN /\ exposed \in BOOLEAN
    /\ guarded \in Guarded

Held == Chosen /\ Guarding

----------------------------------------------------------------------------
LEMMA OneMore == ASSUME NEW n \in Int, NEW b \in Int PROVE (n + 1) * b = n * b + b
OBVIOUS

LEMMA NotLess ==
    ASSUME NEW m \in Nat, NEW n \in Nat, NEW b \in Nat, m <= n PROVE m * b <= n * b
OBVIOUS

LEMMA Whole ==
    ASSUME NEW p \in Nat \ {0}, NEW x \in Nat, x % p = 0
    PROVE  \E k \in Nat : x = k * p
<1> DEFINE k == x \div p
<1>1. k \in Nat /\ x = k * p + (x % p)
    OBVIOUS
<1> QED BY <1>1

LEMMA Sizes ==
    BlockLen \in Nat \ {0} /\ PageLen \in Nat \ {0} /\ FlashLen \in Nat
    /\ Retries \in Nat \ {0}
BY DfuAssumption

LEMMA ZoneSizes ==
    ASSUME NEW a \in Alts
    PROVE  /\ Zones[a].start \in Nat /\ Zones[a].end \in Nat
           /\ Zones[a].start <= Zones[a].end /\ Zones[a].end <= FlashLen
           /\ (Zones[a].end - Zones[a].start) % BlockLen = 0
           /\ a # -1
BY DfuAssumption

\* A zone has room for a whole block where it has room for the beginning of one.
LEMMA RoomForBlock ==
    ASSUME NEW a \in Alts, NEW n \in Nat, NEW l \in 1 .. BlockLen,
           Zones[a].start + n * BlockLen + l <= Zones[a].end
    PROVE  Zones[a].start + (n + 1) * BlockLen <= Zones[a].end
<1>1. BlockLen \in Nat \ {0} /\ Zones[a].start \in Nat /\ Zones[a].end \in Nat
      /\ Zones[a].end - Zones[a].start \in Nat
    BY Sizes, ZoneSizes
<1>2. PICK k \in Nat : Zones[a].end - Zones[a].start = k * BlockLen
    BY <1>1, Whole, ZoneSizes
<1>3. n * BlockLen < k * BlockLen
    BY <1>1, <1>2
<1>4. n < k
    BY <1>1, <1>3
<1>5. (n + 1) * BlockLen <= k * BlockLen
    BY <1>1, <1>4, NotLess
<1>6. (n + 1) * BlockLen \in Nat /\ k * BlockLen \in Nat
    BY <1>1
<1> QED BY <1>1, <1>2, <1>5, <1>6

\* Writing at addr_prog and behind it keeps what has been read back.
LEMMA FlashedFrame ==
    ASSUME Buffers, Stages, Kept, Flashed, UNCHANGED <<alt, used, accepted>>, Session' => Session,
           Session => \A x \in Addr : x < addr_prog => flash'[x] = flash[x]
    PROVE  Flashed'
<1> SUFFICES ASSUME Session, NEW i \in 1 .. (Count - used)
             PROVE  FlashAt(Zones[alt].start + (i - 1) * BlockLen)' = accepted[i]
    BY DEF Flashed, Count
<1>1. /\ Count \in Nat /\ used \in Nat /\ Count - used \in Nat /\ i \in Nat
      /\ BlockLen \in Nat /\ alt \in Alts
      /\ Zones[alt].start \in Nat /\ Zones[alt].end \in Nat
      /\ Zones[alt].end <= FlashLen /\ FlashLen \in Nat
      /\ addr_end = Zones[alt].end
    <2>1. accepted \in Seq([1 .. BlockLen -> Cell]) /\ used <= Count
        BY DEF Kept
    <2>2. Count \in Nat
        BY <2>1 DEF Count
    <2>3. alt \in Alts /\ addr_end = Zones[alt].end /\ used \in Nat
        BY DEF Stages, Buffers
    <2> QED BY <2>1, <2>2, <2>3, Sizes, ZoneSizes
<1> DEFINE a == Zones[alt].start + (i - 1) * BlockLen
<1>2. a \in Nat /\ a + BlockLen <= addr_prog
    <2>1. i * BlockLen = (i - 1) * BlockLen + BlockLen
        BY <1>1
    <2>2. i * BlockLen <= (Count - used) * BlockLen
        BY <1>1, NotLess
    <2>3. (i - 1) * BlockLen \in Nat /\ i * BlockLen \in Nat
          /\ (Count - used) * BlockLen \in Nat
        BY <1>1
    <2>4. addr_prog = Zones[alt].start + (Count - used) * BlockLen
        BY DEF Kept
    <2> QED BY <1>1, <2>1, <2>2, <2>3, <2>4
<1>3. addr_prog <= FlashLen
    <2>1. (Count - used) * BlockLen <= Count * BlockLen
        BY <1>1, NotLess
    <2>2. Zones[alt].start + Count * BlockLen <= addr_end
        BY <1>1 DEF Kept
    <2>3. addr_prog = Zones[alt].start + (Count - used) * BlockLen
        BY DEF Kept
    <2>4. (Count - used) * BlockLen \in Nat /\ Count * BlockLen \in Nat
        BY <1>1
    <2> QED BY <1>1, <2>1, <2>2, <2>3, <2>4
<1> HIDE DEF a
<1>4. \A j \in 1 .. BlockLen : flash'[a + j - 1] = flash[a + j - 1]
    <2> SUFFICES ASSUME NEW j \in 1 .. BlockLen PROVE flash'[a + j - 1] = flash[a + j - 1]
        OBVIOUS
    <2>1. addr_prog \in Int
        BY <1>1 DEF Kept
    <2>2. a + j - 1 \in Addr /\ a + j - 1 < addr_prog
        BY <1>1, <1>2, <1>3, <2>1 DEF Addr
    <2> QED BY <2>2
<1>5. FlashAt(a)' = FlashAt(a)
    BY <1>4 DEF FlashAt, a
<1>6. FlashAt(a) = accepted[i]
    BY DEF Flashed, a
<1> QED BY <1>5, <1>6 DEF a

----------------------------------------------------------------------------
\* The steps by which a session ends, or that belong to none.
LEMMA IdleStep ==
    ASSUME Buffers', host' = "idle", state' \in State, ~draining', xfer' = "none"
    PROVE  IInv'
BY DEF IInv, Stages, Arriving, Kept, Flashed, Told, Session, Host, Xfer

LEMMA RestartStep == ASSUME Restart PROVE IInv'
<1>1. Buffers'
    BY DEF Restart, Buffers, Op
<1> QED BY <1>1, IdleStep DEF Restart, State

LEMMA InitIInv == Init => IInv
<1> SUFFICES ASSUME Init PROVE IInv
    OBVIOUS
<1>1. Buffers
    BY DEF Init, InitDfu, Buffers, Op
<1>2. host = "idle" /\ state = "appDETACH" /\ draining = FALSE /\ xfer = "none"
    BY DEF Init, InitDfu
<1> QED BY <1>1, <1>2
        DEF IInv, Stages, Arriving, Kept, Flashed, Told, Session, Host, Xfer, State

\* The steps of the chip and of the tick that leave the buffers as they are.
LEMMA ChipStep ==
    ASSUME IInv,
           UNCHANGED <<state, alt, bufVars, addrVars, xfer, draining, hostVars,
                       history>>,
           op' \in Op, op_ofs' \in Nat, op' # "IDLE" => used > 0,
           Session => \A x \in Addr : x < addr_prog => flash'[x] = flash[x]
    PROVE  IInv'
<1>1. /\ state' = state /\ alt' = alt /\ used' = used /\ wr' = wr /\ rd' = rd
      /\ buf' = buf /\ addr_recv' = addr_recv /\ addr_prog' = addr_prog
      /\ addr_end' = addr_end /\ xfer' = xfer /\ draining' = draining
      /\ host' = host /\ file' = file /\ sent' = sent /\ accepted' = accepted
      /\ lost' = lost
    BY DEF bufVars, addrVars, hostVars, history
<1>2. Buffers'
    BY <1>1 DEF IInv, Buffers
<1>3. Stages'
    BY <1>1 DEF IInv, Stages, Session
<1>4. Arriving'
    BY <1>1 DEF IInv, Arriving, Session, Coming
<1>5. Kept'
    BY <1>1 DEF IInv, Kept, Session, Count
<1>6. Flashed'
    BY <1>1, FlashedFrame DEF IInv, Session
<1>7. Told'
    BY <1>1 DEF IInv, Told, Session, Count
<1> QED BY <1>2, <1>3, <1>4, <1>5, <1>6, <1>7 DEF IInv

\* A command that works on cells from addr_prog on.
LEMMA CommandFrame ==
    ASSUME NEW cells, Command(cells), addr_prog \in Nat,
           \A c \in DOMAIN cells : c \in Int /\ c >= addr_prog
    PROVE  \A x \in Addr : x < addr_prog => flash'[x] = flash[x]
<1>1. ASSUME NEW x \in Addr, x < addr_prog PROVE x \notin DOMAIN cells
    BY <1>1, Sizes DEF Addr
<1>2. Written(cells) \in [Addr -> UNION {{cells[a], flash[a]} : a \in Addr}]
      /\ \A x \in Addr : x < addr_prog => Written(cells)[x] = flash[x]
    BY <1>1 DEF Written
<1> QED BY <1>2 DEF Command

LEMMA TickErasesStep == ASSUME IInv, TickErases PROVE IInv'
<1>1. used > 0
    BY DEF TickErases, Tick, TickRuns, IInv, Buffers
<1>2. addr_prog \in Nat
    BY DEF IInv, Buffers
<1> DEFINE cells == [c \in addr_prog .. (addr_prog + BlockLen - 1) |-> 1]
<1>3. Command(cells)
    BY DEF TickErases, flash_sector_erase
<1>4. \A c \in DOMAIN cells : c \in Int /\ c >= addr_prog
    BY <1>2, Sizes
<1>5. \A x \in Addr : x < addr_prog => flash'[x] = flash[x]
    BY <1>2, <1>3, <1>4, CommandFrame
<1>6. UNCHANGED <<state, alt, bufVars, addrVars, xfer, draining, hostVars, history>>
    BY DEF TickErases, Tick, bufVars, addrVars
<1>7. op' \in Op /\ op_ofs' \in Nat
    BY DEF TickErases, Op
<1> QED BY <1>1, <1>5, <1>6, <1>7, ChipStep

\* A page is programmed at addr_prog or behind it, and is not empty.
LEMMA PageFrame ==
    ASSUME addr_prog \in Nat, NEW ofs \in Nat, ProgramPage(ofs), ofs < BlockLen
    PROVE  /\ op_ofs' \in Nat
           /\ \A x \in Addr : x < addr_prog => flash'[x] = flash[x]
<1> DEFINE p == (addr_prog + ofs) % PageLen
           n == Smaller(BlockLen - ofs, PageLen - p)
           cells == [c \in (addr_prog + ofs) .. (addr_prog + ofs + n - 1) |->
                         IF buf[rd][c - addr_prog + 1] = 1 THEN flash[c] ELSE 0]
<1>1. p \in 0 .. (PageLen - 1)
    BY Sizes
<1>2. Command(cells) /\ op_ofs' = ofs + n
    BY DEF ProgramPage, flash_page_program
<1> HIDE DEF p
<1>3. n \in Nat
    BY <1>1, Sizes DEF Smaller
<1> HIDE DEF n
<1>4. \A c \in DOMAIN cells : c \in Int /\ c >= addr_prog
    BY <1>3
<1> HIDE DEF cells
<1> QED BY <1>2, <1>3, <1>4, CommandFrame

LEMMA TickStartsProgramStep == ASSUME IInv, TickStartsProgram PROVE IInv'
<1>1. used > 0
    BY DEF TickStartsProgram, Tick, TickRuns, IInv, Buffers
<1>2. addr_prog \in Nat /\ 0 < BlockLen
    BY Sizes DEF IInv, Buffers
<1>3. ProgramPage(0) /\ op' \in Op
    BY DEF TickStartsProgram, Op
<1>4. op_ofs' \in Nat /\ \A x \in Addr : x < addr_prog => flash'[x] = flash[x]
    BY <1>2, <1>3, PageFrame
<1>5. UNCHANGED <<state, alt, bufVars, addrVars, xfer, draining, hostVars, history>>
    BY DEF TickStartsProgram, Tick, bufVars, addrVars
<1> QED BY <1>1, <1>3, <1>4, <1>5, ChipStep

LEMMA TickProgramsStep == ASSUME IInv, TickPrograms PROVE IInv'
<1>1. used > 0 /\ addr_prog \in Nat /\ op_ofs \in Nat
    BY DEF TickPrograms, IInv, Buffers
<1>2. ProgramPage(op_ofs) /\ op_ofs < BlockLen /\ op' \in Op
    BY DEF TickPrograms, Op
<1>3. op_ofs' \in Nat /\ \A x \in Addr : x < addr_prog => flash'[x] = flash[x]
    BY <1>1, <1>2, PageFrame
<1>4. UNCHANGED <<state, alt, bufVars, addrVars, xfer, draining, hostVars, history>>
    BY DEF TickPrograms, Tick, bufVars, addrVars
<1> QED BY <1>1, <1>2, <1>3, <1>4, ChipStep

LEMMA TickProgrammedStep == ASSUME IInv, TickProgrammed PROVE IInv'
<1>1. op' = "IDLE" /\ op_ofs' = 0 /\ flash' = flash
    BY DEF TickProgrammed, chipVars
<1>2. UNCHANGED <<state, alt, bufVars, addrVars, xfer, draining, hostVars, history>>
    BY DEF TickProgrammed, Tick, bufVars, addrVars
<1> QED BY <1>1, <1>2, ChipStep DEF Op

LEMMA FlashReadyStep == ASSUME IInv, FlashReady PROVE IInv'
<1>1. op' = op /\ op_ofs' = op_ofs /\ flash' = flash
    BY DEF FlashReady, opVars
<1>2. UNCHANGED <<state, alt, bufVars, addrVars, xfer, draining, hostVars, history>>
    BY DEF FlashReady
<1>3. op \in Op /\ op_ofs \in Nat /\ (op # "IDLE" => used > 0)
    BY DEF IInv, Buffers
<1> QED BY <1>1, <1>2, <1>3, ChipStep

\* A sector that has been read back leaves its buffer and joins the flash.
LEMMA TickAdvancesStep == ASSUME IInv, TickAdvances PROVE IInv'
<1>1. /\ used > 0 /\ used \in 0 .. 2 /\ rd \in {0, 1} /\ wr \in {0, 1}
      /\ used = 1 <=> wr # rd
      /\ DOMAIN buf = {0, 1} /\ addr_prog \in Nat /\ BlockLen \in Nat
    BY Sizes DEF TickAdvances, Tick, TickRuns, IInv, Buffers
<1>2. /\ rd' = 1 - rd /\ used' = used - 1 /\ addr_prog' = addr_prog + BlockLen
      /\ op' = "IDLE" /\ op_ofs' = 0 /\ flash' = flash
      /\ state' = state /\ alt' = alt /\ wr' = wr /\ buf' = buf
      /\ addr_recv' = addr_recv /\ addr_end' = addr_end /\ xfer' = xfer
      /\ draining' = draining /\ host' = host /\ file' = file /\ sent' = sent
      /\ accepted' = accepted /\ lost' = lost
    BY DEF TickAdvances, Tick, chipVars, hostVars, history
<1>3. buf[rd] = FlashAt(addr_prog)
    BY DEF TickAdvances, Verified, flash_verify
<1>4. Buffers'
    BY <1>1, <1>2 DEF Buffers, Op
<1>5. Stages'
    BY <1>1, <1>2 DEF IInv, Stages, Session
<1>6. Arriving'
    BY <1>2 DEF IInv, Arriving, Session, Coming
<1>7. Told'
    BY <1>2 DEF IInv, Told, Session, Count
<1>8. CASE Session
    <2>1. /\ accepted \in Seq([1 .. BlockLen -> Cell]) /\ Count \in Nat
          /\ used <= Count /\ Count <= sent /\ alt \in Alts
          /\ Zones[alt].start \in Nat
          /\ addr_prog = Zones[alt].start + (Count - used) * BlockLen
        BY <1>8, ZoneSizes DEF IInv, Kept, Stages, Count
    <2>2. Count' = Count
        BY <1>2 DEF Count
    <2>3. (Count - used + 1) * BlockLen = (Count - used) * BlockLen + BlockLen
        <3>1. Count - used \in Int /\ BlockLen \in Int
            BY <1>1, <2>1
        <3> QED BY <3>1, OneMore
    <2>4. Count - used' = Count - used + 1
        BY <1>1, <1>2, <2>1
    <2>5. addr_prog' = Zones[alt].start + (Count - used + 1) * BlockLen
        <3>1. (Count - used) * BlockLen \in Nat
            BY <1>1, <2>1
        <3> QED BY <1>1, <1>2, <2>1, <2>3, <3>1
    <2>6. used' >= 1 => buf'[rd'] = accepted[Count - used' + 1]
        <3> SUFFICES ASSUME used' >= 1 PROVE buf'[rd'] = accepted[Count - used' + 1]
            OBVIOUS
        <3>1. used = 2 /\ Count - used' + 1 = Count
            BY <1>1, <1>2, <2>1
        <3> QED BY <3>1, <1>2, <1>8 DEF IInv, Kept
    <2>7. Kept'
        <3>1. used' # 2 /\ used' <= Count
            <4>1. Count \in Nat /\ used <= Count /\ used \in 0 .. 2
                BY <1>1, <2>1
            <4> QED BY <1>2, <4>1
        <3>2. Count > 0 => Zones[alt].start + Count * BlockLen <= addr_end
            BY <1>8 DEF IInv, Kept
        <3> QED BY <1>2, <2>1, <2>2, <2>4, <2>5, <2>6, <3>1, <3>2 DEF Kept
    <2>8. Flashed'
        <3> SUFFICES ASSUME NEW i \in 1 .. (Count - used + 1)
                     PROVE  FlashAt(Zones[alt].start + (i - 1) * BlockLen) = accepted[i]
            BY <1>2, <2>2, <2>4 DEF Flashed, FlashAt
        <3>1. CASE i \in 1 .. (Count - used)
            BY <1>8, <3>1 DEF IInv, Flashed
        <3>2. CASE i = Count - used + 1
            <4>1. i - 1 = Count - used
                BY <1>1, <2>1, <3>2
            <4>2. buf[rd] = accepted[i]
                BY <1>1, <1>8, <3>2 DEF IInv, Kept
            <4> QED BY <1>3, <2>1, <4>1, <4>2
        <3> QED BY <1>1, <2>1, <3>1, <3>2
    <2> QED BY <1>4, <1>5, <1>6, <1>7, <2>7, <2>8 DEF IInv
<1>9. CASE ~Session
    <2>1. ~Session'
        BY <1>2, <1>9 DEF Session
    <2> QED BY <1>4, <1>5, <1>6, <1>7, <2>1 DEF IInv, Kept, Flashed
<1> QED BY <1>8, <1>9

----------------------------------------------------------------------------
\* The blocks of a file that is being sent.
LEMMA FileBlocks ==
    ASSUME NEW f \in Files
    PROVE  /\ f \in Seq(Seq(Cell)) /\ Len(f) \in Nat
           /\ \A i \in 1 .. Len(f) :
                 /\ f[i] \in Seq(Cell) /\ Len(f[i]) \in 1 .. BlockLen
                 /\ i < Len(f) => Len(f[i]) = BlockLen
                 /\ Padded(f[i]) \in [1 .. BlockLen -> Cell]
<1>1. f \in Seq(Seq(Cell)) /\ Len(f) \in Nat
    BY DfuAssumption
<1>2. ASSUME NEW i \in 1 .. Len(f)
      PROVE  f[i] \in Seq(Cell)
    BY <1>1
<1>3. ASSUME NEW i \in 1 .. Len(f)
      PROVE  Len(f[i]) \in 1 .. BlockLen /\ (i < Len(f) => Len(f[i]) = BlockLen)
    BY Sizes, DfuAssumption
<1>4. ASSUME NEW b \in Seq(Cell)
      PROVE  Padded(b) \in [1 .. BlockLen -> Cell]
    BY Sizes DEF Padded, Cell
<1> QED BY <1>1, <1>2, <1>3, <1>4

LEMMA StartSessionStep == ASSUME IInv, StartSession PROVE IInv'
<1>1. PICK a \in Alts : set_intf(a)
    BY DfuAssumption DEF StartSession, Offered
<1>2. /\ used' = 0 /\ wr' = wr /\ rd' = rd /\ buf' = buf /\ op' = op
      /\ op_ofs' = op_ofs /\ used = 0 /\ draining' = draining /\ ~draining
      /\ xfer' = "none" /\ host' = "ready" /\ sent' = 0 /\ accepted' = <<>>
      /\ lost' = FALSE /\ file' \in Files
      /\ state' = "dfuIDLE" /\ alt' = a /\ addr_recv' = Zones[a].start
      /\ addr_prog' = Zones[a].start /\ addr_end' = Zones[a].end
    BY <1>1 DEF StartSession, Served, set_intf, bufVars, opVars
<1>3. Zones[a].start \in Nat /\ Zones[a].start + 0 * BlockLen = Zones[a].start
      /\ BlockLen \in Nat
    BY ZoneSizes, Sizes
<1>4. Len(file') \in Nat
    BY <1>2, FileBlocks
<1>5. Buffers'
    BY <1>2, <1>3 DEF IInv, Buffers
<1>6. Stages'
    BY <1>1, <1>2, <1>4 DEF Stages, Session, Host, State
<1>7. Arriving'
    BY <1>2, <1>3 DEF Arriving, Session, Xfer
<1>8. Count' = 0
    BY <1>2 DEF Count
<1>9. Kept' /\ Flashed' /\ Told'
    BY <1>2, <1>3, <1>8 DEF Kept, Flashed, Told, Session
<1> QED BY <1>5, <1>6, <1>7, <1>9 DEF IInv

\* Requests that leave buffers, zone, chip and history as they are.
LEMMA QuietStep ==
    ASSUME IInv, UNCHANGED <<alt, bufVars, addrVars, opVars, chipVars, file, sent,
                             history>>,
           Session, Stages', xfer' = xfer, host # "sending", host' # "sending"
    PROVE  IInv'
<1>1. /\ alt' = alt /\ used' = used /\ wr' = wr /\ rd' = rd
      /\ buf' = buf /\ addr_recv' = addr_recv /\ addr_prog' = addr_prog
      /\ addr_end' = addr_end /\ op' = op /\ op_ofs' = op_ofs /\ flash' = flash
      /\ file' = file /\ sent' = sent /\ accepted' = accepted /\ lost' = lost
    BY DEF bufVars, addrVars, opVars, chipVars, history
<1>2. Buffers'
    BY <1>1 DEF IInv, Buffers
<1>3. Arriving'
    BY <1>1 DEF IInv, Arriving, Session, Coming
<1>4. Kept'
    BY <1>1 DEF IInv, Kept, Session, Count
<1>5. Flashed'
    BY <1>1, FlashedFrame DEF IInv, Session
<1>6. Told'
    BY <1>1 DEF IInv, Told, Session, Count
<1> QED BY <1>2, <1>3, <1>4, <1>5, <1>6 DEF IInv

----------------------------------------------------------------------------
\* Requests outside a session, or that end one.
LEMMA Outside ==
    ASSUME IInv, host = "idle"
    PROVE  ~draining /\ xfer = "none" /\ state \in State
BY DEF IInv, Stages, Arriving

LEMMA SetConfigurationStep == ASSUME IInv, SetConfiguration PROVE IInv'
<1>1. host = "idle"
    BY DEF SetConfiguration, IInv, Stages, Session
<1>2. ~draining /\ xfer = "none"
    BY <1>1, Outside
<1>3. Buffers'
    BY DEF SetConfiguration, IInv, Buffers, bufVars, addrVars, opVars
<1>4. host' = "idle" /\ ~draining' /\ xfer' = "none" /\ state' \in State
    BY <1>1, <1>2 DEF SetConfiguration, hostVars, State
<1> QED BY <1>3, <1>4, IdleStep

LEMMA ClrStatusStep == ASSUME IInv, ClrStatus PROVE IInv'
<1>1. host = "idle"
    BY DEF ClrStatus
<1>2. ~draining /\ xfer = "none"
    BY <1>1, Outside
<1>3. Buffers'
    BY DEF ClrStatus, IInv, Buffers, bufVars, addrVars, opVars
<1>4. host' = "idle" /\ ~draining' /\ xfer' = "none" /\ state' \in State
    BY <1>1, <1>2 DEF ClrStatus, hostVars, State
<1> QED BY <1>3, <1>4, IdleStep

LEMMA AbortStep == ASSUME IInv, Abort PROVE IInv'
<1>1. host = "idle"
    BY DEF Abort
<1>2. ~draining /\ xfer = "none"
    BY <1>1, Outside
<1>3. Buffers'
    BY DEF Abort, IInv, Buffers, bufVars, addrVars, opVars
<1>4. host' = "idle" /\ ~draining' /\ xfer' = "none" /\ state' \in State
    BY <1>1, <1>2 DEF Abort, hostVars, State
<1> QED BY <1>3, <1>4, IdleStep

LEMMA StopSessionStep == ASSUME IInv, StopSession PROVE IInv'
<1>1. Buffers'
    BY DEF StopSession, IInv, Buffers, bufVars, addrVars, opVars
<1>2. host' = "idle" /\ xfer' = "none" /\ state' = state /\ draining' = draining
    BY DEF StopSession
<1>3. ~draining
    BY DEF StopSession, Served
<1>4. state \in State
    BY DEF IInv, Stages
<1> QED BY <1>1, <1>2, <1>3, <1>4, IdleStep

----------------------------------------------------------------------------
\* Requests by which a session goes on without data.
LEMMA DnloadEndStep == ASSUME IInv, DnloadEnd PROVE IInv'
<1>1. host = "ready" /\ sent = Len(file) /\ ~draining
    BY DEF DnloadEnd, Served
<1>2. Session /\ DnloadAllowed /\ used < 2
    BY <1>1 DEF IInv, Stages, Session, DnloadAllowed
<1>3. /\ state' = "dfuMANIFEST_SYNC" /\ host' = "polling" /\ draining' = draining
      /\ UNCHANGED <<alt, bufVars, addrVars, opVars, xfer, chipVars, file, sent, history>>
    BY <1>2 DEF DnloadEnd
<1>4. Stages'
    BY <1>1, <1>2, <1>3 DEF IInv, Stages, Session, Host, State, bufVars, addrVars
<1> QED BY <1>1, <1>2, <1>3, <1>4, QuietStep

LEMMA GetStatusBlockStep == ASSUME IInv, GetStatusBlock PROVE IInv'
<1>1. /\ host = "polling" /\ ~draining /\ state # "dfuMANIFEST_SYNC"
      /\ host' \in {"polling", "ready"} /\ draining' = draining
      /\ UNCHANGED <<alt, bufVars, addrVars, opVars, xfer, chipVars, file, sent, history>>
    BY DEF GetStatusBlock, Served
<1>2. Session /\ Session' /\ used \in 0 .. 2
    BY <1>1 DEF IInv, Buffers, Session
<1>3. CASE state = "dfuDNLOAD_SYNC" /\ ~BuffersBusy
    <2>1. state' = "dfuDNLOAD_IDLE" /\ host' = "ready" /\ used < 2
        BY <1>2, <1>3 DEF GetStatusBlock, BuffersBusy
    <2>2. Stages'
        BY <1>1, <1>2, <2>1 DEF IInv, Stages, Session, Host, State, bufVars, addrVars
    <2> QED BY <1>1, <1>2, <2>2, QuietStep
<1>4. CASE state = "dfuDNLOAD_SYNC" /\ BuffersBusy
    <2>1. state' = state /\ host' = "polling"
        BY <1>4 DEF GetStatusBlock
    <2>2. Stages'
        BY <1>1, <1>2, <2>1 DEF IInv, Stages, Session, Host, State, bufVars, addrVars
    <2> QED BY <1>1, <1>2, <2>2, QuietStep
<1>5. CASE state # "dfuDNLOAD_SYNC"
    <2>1. state' = state /\ host' = "ready"
        BY <1>5 DEF GetStatusBlock
    <2>2. state \in {"dfuIDLE", "dfuDNLOAD_IDLE"} /\ used < 2
        BY <1>1, <1>2, <1>5 DEF IInv, Stages, State
    <2>3. Stages'
        BY <1>1, <1>2, <2>1, <2>2 DEF IInv, Stages, Session, Host, State, bufVars, addrVars
    <2> QED BY <1>1, <1>2, <2>3, QuietStep
<1> QED BY <1>3, <1>4, <1>5

LEMMA GetStatusManifestStep == ASSUME IInv, GetStatusManifest PROVE IInv'
<1>1. /\ host = "polling" /\ state = "dfuMANIFEST_SYNC" /\ state' = "dfuIDLE"
      /\ host' = host /\ draining' = TRUE
      /\ UNCHANGED <<alt, bufVars, addrVars, opVars, xfer, chipVars, file, sent, history>>
    BY DEF GetStatusManifest, hostVars
<1>2. Session /\ sent = Len(file) /\ used < 2
    BY <1>1 DEF IInv, Stages, Session
<1>3. Stages'
    BY <1>1, <1>2 DEF IInv, Stages, Session, Host, State, bufVars, addrVars
<1> QED BY <1>1, <1>2, <1>3, QuietStep

LEMMA DrainedStep == ASSUME IInv, Drained PROVE IInv'
<1>1. /\ draining /\ used = 0 /\ host' = "done" /\ state' = state
      /\ UNCHANGED <<alt, bufVars, addrVars, opVars, xfer, chipVars, file, sent, history>>
    BY DEF Drained
<1>2. ~draining'
    BY DEF Drained
<1>3. host = "polling" /\ Session /\ sent = Len(file)
    BY <1>1 DEF IInv, Stages, Session
<1>4. Stages'
    BY <1>1, <1>2, <1>3 DEF IInv, Stages, Session, Host, State, bufVars, addrVars
<1> QED BY <1>1, <1>3, <1>4, QuietStep

----------------------------------------------------------------------------
\* Steps that write a buffer that does not hold an accepted block.
LEMMA BufferStep ==
    ASSUME IInv, Session, used < 2,
           UNCHANGED <<alt, used, wr, rd, addr_prog, addr_end, opVars, chipVars,
                       file, sent, history>>,
           DOMAIN buf' = {0, 1}, used = 1 => buf'[rd] = buf[rd],
           Stages', Arriving', Session'
    PROVE  IInv'
<1>1. /\ op' = op /\ op_ofs' = op_ofs /\ flash' = flash
      /\ accepted' = accepted /\ lost' = lost
    BY DEF opVars, chipVars, history
<1>2. used \in {0, 1}
    BY DEF IInv, Buffers
<1>3. Buffers'
    BY <1>1 DEF IInv, Buffers
<1>4. Kept'
    BY <1>1, <1>2 DEF IInv, Kept, Session, Count
<1>5. Flashed'
    BY <1>1, FlashedFrame DEF IInv, Session
<1>6. Told'
    BY <1>1 DEF IInv, Told, Session, Count
<1> QED BY <1>3, <1>4, <1>5, <1>6 DEF IInv

LEMMA UploadStep == ASSUME IInv, Upload PROVE IInv'
<1>1. /\ host \in {"idle", "done"} /\ used = 0 /\ ~draining
      /\ draining' = draining /\ state' = state /\ xfer' = xfer /\ host' = host
      /\ addr_recv' = addr_recv
      /\ UNCHANGED <<alt, used, wr, rd, addr_prog, addr_end, opVars, chipVars,
                     file, sent, history>>
    BY DEF Upload, Served, hostVars
<1>2. DOMAIN buf' = {0, 1}
    BY DEF Upload, IInv, Buffers
<1>3. CASE host = "idle"
    <2>1. Buffers'
        BY <1>1, <1>2 DEF IInv, Buffers, opVars
    <2>2. xfer = "none" /\ state \in State
        BY <1>3, Outside
    <2> QED BY <1>1, <1>3, <2>1, <2>2, IdleStep
<1>4. CASE host = "done"
    <2>1. Session /\ Session' /\ xfer = "none"
        BY <1>1, <1>4 DEF Session, IInv, Arriving
    <2>2. Stages'
        BY <1>1, <2>1 DEF IInv, Stages, Session
    <2>3. Arriving'
        BY <1>1, <2>1 DEF IInv, Arriving, Session
    <2> QED BY <1>1, <1>2, <2>1, <2>2, <2>3, BufferStep
<1> QED BY <1>1, <1>3, <1>4

LEMMA DnloadStep == ASSUME IInv, Dnload PROVE IInv'
<1>1. /\ host = "ready" /\ ~draining /\ draining' = draining
      /\ alt' = alt /\ addr_end' = addr_end /\ used' = used /\ wr' = wr
      /\ file' = file /\ sent' = sent /\ sent < Len(file)
      /\ UNCHANGED <<alt, used, wr, rd, addr_prog, addr_end, opVars, chipVars,
                     file, sent, history>>
    BY DEF Dnload, Served
<1>2. /\ Session /\ DnloadAllowed /\ used < 2 /\ xfer = "none"
      /\ state \in {"dfuIDLE", "dfuDNLOAD_IDLE"}
    BY <1>1 DEF IInv, Stages, Arriving, Session, DnloadAllowed
<1>3. /\ addr_recv = Zones[alt].start + sent * BlockLen
      /\ addr_recv' = addr_recv + Len(Coming)
    BY <1>1, <1>2 DEF IInv, Arriving, Dnload, NextBlock, Coming
<1>4. CASE ~ZoneOverrun
    <2>1. /\ xfer' = "data" /\ host' = "sending" /\ state' = state
          /\ buf' = [buf EXCEPT ![wr] =
                        [i \in 1 .. BlockLen |->
                             IF i <= Len(Coming) THEN @[i] ELSE 1]]
        BY <1>2, <1>4 DEF Dnload, NextBlock, Coming
    <2>2. /\ wr \in {0, 1} /\ rd \in {0, 1} /\ (used = 1 => wr # rd)
          /\ DOMAIN buf = {0, 1}
        BY DEF IInv, Buffers
    <2>3. DOMAIN buf' = {0, 1} /\ (used = 1 => buf'[rd] = buf[rd])
        BY <2>1, <2>2
    <2>4. buf'[wr] = [i \in 1 .. BlockLen |->
                          IF i <= Len(Coming) THEN buf[wr][i] ELSE 1]
        BY <2>1, <2>2
    <2>5. Stages' /\ Session'
        BY <1>1, <1>2, <2>1 DEF IInv, Stages, Session, Host, State
    <2>6. Len(Coming) \in Nat
        <3>1. file \in Files /\ sent \in Nat /\ sent + 1 \in 1 .. Len(file)
            BY <1>1, <1>2, FileBlocks DEF IInv, Stages
        <3> QED BY <3>1, FileBlocks DEF Coming
    <2>7. addr_recv' <= addr_end
        <3>1. alt \in Alts /\ addr_end = Zones[alt].end /\ sent \in Nat
            BY <1>2, FileBlocks DEF IInv, Stages
        <3>2. /\ Zones[alt].start \in Nat /\ Zones[alt].end \in Nat
              /\ BlockLen \in Nat
            BY <3>1, ZoneSizes, Sizes
        <3>3. sent * BlockLen \in Nat
            BY <3>1, <3>2
        <3>4. addr_recv \in Nat /\ addr_end \in Nat
            BY <1>3, <3>1, <3>2, <3>3
        <3>5. ~(addr_recv + Len(Coming) > addr_end)
            BY <1>4 DEF ZoneOverrun, NextBlock, Coming
        <3> QED BY <1>3, <2>6, <3>4, <3>5
    <2>8. \A i \in 1 .. BlockLen : i > Len(Coming) => buf'[wr][i] = 1
        BY <2>4, <2>6, Sizes
    <2>9. Coming' = Coming
        BY <1>1 DEF Coming
    <2>10. Arriving'
        BY <1>1, <1>3, <2>1, <2>7, <2>8, <2>9 DEF Arriving, Xfer
    <2> QED BY <1>1, <1>2, <2>3, <2>5, <2>10, BufferStep
<1>5. CASE ZoneOverrun
    <2>1. state' = "dfuERROR" /\ host' = "idle" /\ xfer' = "none" /\ buf' = buf
        BY <1>5 DEF Dnload, Fails
    <2>2. Buffers'
        BY <1>1, <2>1 DEF IInv, Buffers, opVars
    <2> QED BY <1>1, <2>1, <2>2, IdleStep DEF State
<1> QED BY <1>4, <1>5

LEMMA DnloadDataStep == ASSUME IInv, DnloadData PROVE IInv'
<1>1. /\ xfer = "data" /\ xfer' = "status" /\ ~draining /\ draining' = draining
      /\ state' = state /\ host' = host /\ addr_recv' = addr_recv
      /\ alt' = alt /\ addr_end' = addr_end /\ used' = used /\ wr' = wr
      /\ file' = file /\ sent' = sent
      /\ UNCHANGED <<alt, used, wr, rd, addr_prog, addr_end, opVars, chipVars,
                     file, sent, history>>
      /\ buf' = [buf EXCEPT ![wr] =
                    [i \in 1 .. BlockLen |->
                         IF i <= Len(Coming) THEN Coming[i] ELSE @[i]]]
    BY DEF DnloadData, Served, addrVars, hostVars, NextBlock, Coming
<1>2. host = "sending" /\ Session /\ Session' /\ used < 2
    BY <1>1 DEF IInv, Arriving, Stages, Session
<1>3. /\ wr \in {0, 1} /\ rd \in {0, 1} /\ (used = 1 => wr # rd)
      /\ DOMAIN buf = {0, 1}
    BY DEF IInv, Buffers
<1>4. DOMAIN buf' = {0, 1} /\ (used = 1 => buf'[rd] = buf[rd])
    BY <1>1, <1>3
<1>5. buf'[wr] = [i \in 1 .. BlockLen |->
                      IF i <= Len(Coming) THEN Coming[i] ELSE buf[wr][i]]
    BY <1>1, <1>3
<1>6. Len(Coming) \in Nat
    <2>1. file \in Files /\ sent \in Nat /\ sent + 1 \in 1 .. Len(file)
        BY <1>2, FileBlocks DEF IInv, Stages
    <2> QED BY <2>1, FileBlocks DEF Coming
<1>7. \A i \in 1 .. BlockLen : i > Len(Coming) => buf[wr][i] = 1
    BY <1>1, <1>2 DEF IInv, Arriving
<1>8. \A i \in 1 .. BlockLen : ~(i <= Len(Coming)) => buf[wr][i] = 1
    BY <1>6, <1>7, Sizes
<1>9. buf'[wr] = Padded(Coming)
    BY <1>5, <1>8 DEF Padded
<1>10. Coming' = Coming
    BY <1>1 DEF Coming
<1>11. /\ addr_recv = Zones[alt].start + sent * BlockLen + Len(Coming)
       /\ addr_recv <= addr_end
    BY <1>1, <1>2 DEF IInv, Arriving
<1>12. Padded(Coming)' = Padded(Coming)
    BY <1>10 DEF Padded
<1>13. Arriving'
    BY <1>1, <1>2, <1>9, <1>10, <1>11, <1>12 DEF Arriving, Xfer
<1>14. Stages'
    BY <1>1, <1>2 DEF IInv, Stages, Session
<1> QED BY <1>1, <1>2, <1>4, <1>13, <1>14, BufferStep

----------------------------------------------------------------------------
\* The two ends of a transfer: a block has come in whole, and its room is whole.
LEMMA Arrived ==
    ASSUME IInv, xfer = "status"
    PROVE  /\ host = "sending" /\ Session /\ used \in {0, 1}
           /\ state \in {"dfuIDLE", "dfuDNLOAD_IDLE"}
           /\ buf[wr] = Padded(Coming) /\ alt \in Alts /\ addr_end = Zones[alt].end
           /\ file \in Files /\ sent \in Nat /\ Len(file) \in Nat
           /\ sent < Len(file)
           /\ Coming = file[sent + 1] /\ Len(Coming) \in 1 .. BlockLen
           /\ sent + 1 < Len(file) => Len(Coming) = BlockLen
           /\ Padded(Coming) \in [1 .. BlockLen -> Cell]
           /\ addr_recv = Zones[alt].start + sent * BlockLen + Len(Coming)
           /\ addr_recv <= addr_end
<1>1. host = "sending" /\ Session
    BY DEF IInv, Arriving, Session
<1>2. /\ used \in {0, 1} /\ state \in {"dfuIDLE", "dfuDNLOAD_IDLE"}
      /\ alt \in Alts /\ addr_end = Zones[alt].end /\ file \in Files
      /\ sent \in 0 .. Len(file) /\ sent < Len(file)
    BY <1>1 DEF IInv, Stages, Buffers
<1>3. Len(file) \in Nat
    BY <1>2, FileBlocks
<1>4. sent \in Nat /\ sent + 1 \in 1 .. Len(file)
    BY <1>2, <1>3
<1>5. /\ buf[wr] = Padded(Coming)
      /\ addr_recv = Zones[alt].start + sent * BlockLen + Len(Coming)
      /\ addr_recv <= addr_end
    BY <1>1 DEF IInv, Arriving
<1>6. /\ Len(Coming) \in 1 .. BlockLen
      /\ sent + 1 < Len(file) => Len(Coming) = BlockLen
      /\ Padded(Coming) \in [1 .. BlockLen -> Cell]
    BY <1>2, <1>4, FileBlocks DEF Coming
<1> QED BY <1>1, <1>2, <1>3, <1>4, <1>5, <1>6 DEF Coming

LEMMA SentArriving == ASSUME IInv, HostSent PROVE Arriving' /\ Session'
<1>1. xfer = "status"
    BY DEF HostSent
<1>2. /\ xfer' = "none" /\ host' = "polling" /\ sent' = sent + 1
      /\ alt' = alt /\ addr_recv' = addr_recv /\ file' = file
    BY DEF HostSent, addrVars
<1>3. sent' < Len(file) => addr_recv = Zones[alt].start + sent' * BlockLen
    <2>1. /\ alt \in Alts /\ sent \in Nat
          /\ addr_recv = Zones[alt].start + sent * BlockLen + Len(Coming)
          /\ sent + 1 < Len(file) => Len(Coming) = BlockLen
        BY <1>1, Arrived
    <2>2. Zones[alt].start \in Nat /\ BlockLen \in Nat
        BY <2>1, ZoneSizes, Sizes
    <2>3. (sent + 1) * BlockLen = sent * BlockLen + BlockLen
        BY <2>1, <2>2, OneMore
    <2>4. sent * BlockLen \in Nat
        BY <2>1, <2>2
    <2> QED BY <1>2, <2>1, <2>2, <2>3, <2>4
<1>4. Session'
    BY <1>2 DEF Session
<1>5. Arriving'
    BY <1>2, <1>3 DEF Arriving, Xfer
<1> QED BY <1>4, <1>5

LEMMA DnloadAckLostStep == ASSUME IInv, DnloadAckLost PROVE IInv'
<1>1. /\ xfer = "status" /\ ~draining /\ draining' = draining
      /\ host' = "polling" /\ sent' = sent + 1 /\ lost' = TRUE
      /\ alt' = alt /\ used' = used /\ wr' = wr /\ rd' = rd /\ buf' = buf
      /\ addr_prog' = addr_prog /\ addr_end' = addr_end /\ op' = op
      /\ op_ofs' = op_ofs /\ flash' = flash /\ file' = file /\ state' = state
      /\ accepted' = accepted
    BY DEF DnloadAckLost, Served, HostSent, addrVars, opVars, chipVars
<1>2. Arriving' /\ Session'
    BY SentArriving DEF DnloadAckLost
<1>3. /\ Session /\ used \in {0, 1} /\ state \in {"dfuIDLE", "dfuDNLOAD_IDLE"}
      /\ alt \in Alts /\ addr_end = Zones[alt].end /\ file \in Files
      /\ sent \in Nat /\ Len(file) \in Nat /\ sent < Len(file)
    BY <1>1, Arrived
<1>4. Buffers'
    BY <1>1 DEF IInv, Buffers
<1>5. Stages'
    BY <1>1, <1>3 DEF Stages, Session, Host, State
<1>6. Kept'
    <2>1. Count \in Nat
        BY <1>3 DEF IInv, Kept, Count
    <2>2. Count <= sent'
        BY <1>1, <1>3, <2>1 DEF IInv, Kept
    <2> QED BY <1>1, <1>3, <2>2 DEF IInv, Kept, Count
<1>7. Flashed'
    BY <1>1, <1>3, FlashedFrame DEF IInv
<1>8. Told'
    BY <1>1 DEF Told
<1> QED BY <1>2, <1>4, <1>5, <1>6, <1>7, <1>8 DEF IInv

LEMMA DnloadDoneStep == ASSUME IInv, DnloadDone PROVE IInv'
<1>1. /\ xfer = "status" /\ ~draining /\ draining' = draining
      /\ host' = "polling" /\ sent' = sent + 1 /\ lost' = lost
      /\ alt' = alt /\ used' = used + 1 /\ wr' = 1 - wr /\ rd' = rd
      /\ buf' = buf /\ addr_prog' = addr_prog /\ addr_end' = addr_end
      /\ op' = op /\ op_ofs' = op_ofs /\ flash' = flash /\ file' = file
      /\ state' = "dfuDNLOAD_SYNC"
      /\ accepted' = Append(accepted, Padded(Coming))
    BY DEF DnloadDone, Served, HostSent, addrVars, opVars, chipVars, NextBlock, Coming
<1>2. Arriving' /\ Session'
    BY SentArriving DEF DnloadDone
<1>3. /\ Session /\ used \in {0, 1} /\ buf[wr] = Padded(Coming)
      /\ alt \in Alts /\ addr_end = Zones[alt].end /\ file \in Files
      /\ sent \in Nat /\ Len(file) \in Nat /\ sent < Len(file)
      /\ Len(Coming) \in 1 .. BlockLen
      /\ Padded(Coming) \in [1 .. BlockLen -> Cell]
      /\ addr_recv = Zones[alt].start + sent * BlockLen + Len(Coming)
      /\ addr_recv <= addr_end
    BY <1>1, Arrived
<1>4. /\ wr \in {0, 1} /\ rd \in {0, 1} /\ (used = 1 <=> wr # rd)
    BY DEF IInv, Buffers
<1>5. Buffers'
    BY <1>1, <1>3, <1>4 DEF IInv, Buffers
<1>6. Stages'
    BY <1>1, <1>3 DEF Stages, Session, Host, State
<1>7. /\ accepted \in Seq([1 .. BlockLen -> Cell]) /\ Count \in Nat
      /\ used <= Count /\ Count <= sent
      /\ addr_prog = Zones[alt].start + (Count - used) * BlockLen
      /\ used >= 1 => buf[rd] = accepted[Count - used + 1]
    BY <1>3 DEF IInv, Kept, Count
<1>8. /\ accepted' \in Seq([1 .. BlockLen -> Cell]) /\ Count' = Count + 1
      /\ accepted'[Count + 1] = Padded(Coming)
      /\ \A i \in 1 .. Count : accepted'[i] = accepted[i]
    BY <1>1, <1>3, <1>7 DEF Count
<1>9. Count' - used' = Count - used /\ Count - used \in Nat
    BY SMTT(30), <1>1, <1>3, <1>7, <1>8
<1>10. Zones[alt].start + Count' * BlockLen <= addr_end
    <2>1. Zones[alt].start + sent * BlockLen + Len(Coming) <= Zones[alt].end
        BY <1>3
    <2>2. Zones[alt].start + (sent + 1) * BlockLen <= Zones[alt].end
        BY <1>3, <2>1, RoomForBlock
    <2>3. (Count + 1) * BlockLen <= (sent + 1) * BlockLen
        BY <1>3, <1>7, Sizes, NotLess
    <2>4. /\ (Count + 1) * BlockLen \in Nat /\ (sent + 1) * BlockLen \in Nat
          /\ Zones[alt].start \in Nat /\ Zones[alt].end \in Nat
        BY <1>3, <1>7, Sizes, ZoneSizes
    <2> QED BY SMTT(30), <1>3, <1>8, <2>2, <2>3, <2>4
<1>11. buf[rd] = accepted'[Count - used + 1]
    <2>1. CASE used = 0
        <3>1. rd = wr /\ Count - used + 1 = Count + 1
            BY <1>4, <1>7, <2>1
        <3> QED BY <1>3, <1>8, <3>1
    <2>2. CASE used = 1
        <3>1. Count - used + 1 \in 1 .. Count
            BY <1>7, <2>2
        <3> QED BY <1>7, <1>8, <2>2, <3>1
    <2> QED BY <1>3, <2>1, <2>2
<1>12. used' = 2 => buf'[1 - rd'] = accepted'[Count']
    <2> SUFFICES ASSUME used' = 2 PROVE buf'[1 - rd'] = accepted'[Count']
        OBVIOUS
    <2>1. used = 1
        BY <1>1, <1>3
    <2>2. 1 - rd = wr
        BY <1>4, <2>1
    <2> QED BY <1>1, <1>3, <1>8, <2>2
<1>13. Kept'
    <2>1. used' <= Count' /\ Count' <= sent'
        BY <1>1, <1>3, <1>7, <1>8
    <2>2. buf'[rd'] = accepted'[Count' - used' + 1]
        BY <1>1, <1>9, <1>11
    <2>3. addr_prog' = Zones[alt'].start + (Count' - used') * BlockLen
        BY <1>1, <1>7, <1>9
    <2>4. Zones[alt'].start + Count' * BlockLen <= addr_end'
        BY <1>1, <1>10
    <2> QED BY <1>8, <1>12, <2>1, <2>2, <2>3, <2>4 DEF Kept
<1>14. Flashed'
    <2> SUFFICES ASSUME NEW i \in 1 .. (Count - used)
                 PROVE  FlashAt(Zones[alt].start + (i - 1) * BlockLen) = accepted'[i]
        BY <1>1, <1>9 DEF Flashed, FlashAt
    <2>1. i \in 1 .. Count
        BY <1>3, <1>7
    <2> QED BY <1>3, <1>8, <2>1 DEF IInv, Flashed
<1>15. ASSUME ~lost
       PROVE  /\ Count' = sent'
              /\ \A i \in 1 .. sent' : accepted'[i] = Padded(file[i])
    <2>1. Count = sent /\ \A i \in 1 .. sent : accepted[i] = Padded(file[i])
        BY <1>3, <1>15 DEF IInv, Told
    <2>2. Count' = sent'
        BY <1>1, <1>8, <2>1
    <2>3. ASSUME NEW i \in 1 .. (sent + 1) PROVE accepted'[i] = Padded(file[i])
        <3>1. CASE i \in 1 .. sent
            BY <1>8, <2>1, <3>1
        <3>2. CASE i = sent + 1
            BY <1>8, <2>1, <3>2 DEF Coming
        <3> QED BY <1>3, <3>1, <3>2
    <2> QED BY <1>1, <2>2, <2>3
<1>16. Told'
    <2>1. lost' = lost /\ file' = file
        BY <1>1
    <2> QED BY <1>15, <2>1 DEF Told
<1> QED BY <1>2, <1>5, <1>6, <1>13, <1>14, <1>16 DEF IInv

----------------------------------------------------------------------------
\* What main has decided holds through every step.
LEMMA InitHeld == Init => Held
BY DEF Init, InitDfu, Held, Chosen, Guarding, Guarded

LEMMA RestartHeld == ASSUME Held, Restart PROVE Held'
<1>1. used' = 0 /\ alt' = -1 /\ exposed' = FALSE
      /\ bits' = bits /\ scheme' = scheme
      /\ guarded' = IF guarded = "closing" THEN "no" ELSE guarded
    BY DEF Restart, lockVars
<1>2. Chosen'
    BY <1>1 DEF Chosen
<1>3. Guarding'
    BY <1>1 DEF Held, Guarding, Guarded, Locked
<1> QED BY <1>2, <1>3 DEF Held

LEMMA MainHeld == ASSUME Held, Main PROVE Held'
<1>1. UNCHANGED <<alt, used, addr_prog>> /\ stage # "dfu"
    BY DEF Main, Start, SetBits, ProtectDone, EnterDfu, EnterApp, AppWrites,
           engineVars, bufVars, addrVars
<1>2. Chosen'
    BY <1>1 DEF Held, Chosen
<1>3. Guarding'
    <2>1. CASE Start
        <3>1. /\ UNCHANGED <<bits, scheme>> /\ stage' \in {"bits", "choose"}
              /\ exposed' \in BOOLEAN
              /\ guarded' = IF exposed' THEN "no"
                            ELSE IF known /\ guarded = "no" THEN "closing" ELSE guarded
              /\ known => stage' = "bits"
              /\ stage = "start"
            BY <2>1 DEF Start, lockVars
        <3> QED BY <3>1 DEF Held, Guarding, Guarded, Locked
    <2>2. CASE SetBits
        <3>1. /\ stage = "bits" /\ stage' = "scheme"
              /\ UNCHANGED <<scheme, exposed>>
              /\ bits' \in {bits, ~exposed}
              /\ guarded' = IF bits' = exposed THEN "no" ELSE guarded
            BY <2>2 DEF SetBits
        <3> QED BY <3>1 DEF Held, Guarding, Guarded, Locked
    <2>3. CASE ProtectDone
        <3>1. /\ stage = "scheme" /\ stage' = "choose" /\ UNCHANGED <<bits, exposed>>
              /\ \/ scheme' = TRUE /\ Closed
                 \/ ~scheme /\ scheme' = scheme /\ guarded' = "no"
            BY <2>3 DEF ProtectDone, SetScheme
        <3>2. CASE scheme' = TRUE /\ Closed
            <4>1. guarded' = "yes" => guarded \in {"closing", "yes"}
                BY <3>2 DEF Closed
            <4>2. guarded \in {"closing", "yes"} => bits /\ ~exposed
                <5>1. guarded = "yes" => bits /\ ~exposed
                    BY DEF Held, Guarding, Locked
                <5>2. guarded = "closing" /\ stage = "scheme" => bits /\ ~exposed
                    BY DEF Held, Guarding
                <5> QED BY <3>1, <5>1, <5>2
            <4>3. guarded' # "closing" /\ guarded' \in Guarded
                BY <3>2 DEF Closed, Held, Guarding, Guarded
            <4>4. /\ guarded' = "yes" => bits' /\ scheme' /\ ~exposed'
                  /\ bits' \in BOOLEAN /\ scheme' \in BOOLEAN /\ exposed' \in BOOLEAN
                BY <3>1, <3>2, <4>1, <4>2 DEF Held, Guarding
            <4> QED BY <3>1, <4>3, <4>4 DEF Guarding, Locked
        <3>3. CASE scheme' = scheme /\ guarded' = "no"
            BY <3>1, <3>3 DEF Held, Guarding, Guarded, Locked
        <3> QED BY <3>1, <3>2, <3>3
    <2>4. CASE EnterDfu \/ EnterApp \/ AppWrites
        <3>1. /\ UNCHANGED <<bits, scheme, exposed, guarded>>
              /\ stage \in {"choose", "app"} /\ stage' \in {"dfu", "app"}
            BY <2>4 DEF EnterDfu, EnterApp, AppWrites, lockVars, bootVars
        <3> QED BY <3>1 DEF Held, Guarding, Guarded, Locked
    <2> QED BY <2>1, <2>2, <2>3, <2>4 DEF Main
<1> QED BY <1>2, <1>3 DEF Held

\* The steps of the engine: main has ended, and the zone is chosen by StartSession only.
LEMMA EngineHeld ==
    ASSUME IInv, Held, UNCHANGED bootVars,
           alt' = alt, addr_prog' \in Int, addr_prog <= addr_prog',
           used' > 0 => used > 0 \/ alt # -1
    PROVE  Held'
<1>1. UNCHANGED <<bits, scheme, stage, exposed, guarded>>
    BY DEF bootVars, lockVars
<1>2. Guarding'
    BY <1>1 DEF Held, Guarding, Locked
<1>3. addr_prog \in Int /\ \A a \in Alts : Zones[a].start \in Int
    BY ZoneSizes DEF IInv, Buffers
<1>4. Offered' = Offered /\ Offered \subseteq Alts
    BY <1>1, DfuAssumption DEF Offered
<1>5. Chosen'
    <2>1. used' > 0 => alt' # -1
        BY DEF Held, Chosen
    <2>2. ASSUME alt # -1
          PROVE  alt \in Offered /\ stage = "dfu" /\ Zones[alt].start <= addr_prog'
        BY <1>3, <1>4, <2>2 DEF Held, Chosen
    <2> QED BY <1>1, <1>4, <2>1, <2>2 DEF Chosen
<1> QED BY <1>2, <1>5 DEF Held

LEMMA StartSessionHeld == ASSUME IInv, Held, StartSession PROVE Held'
<1>1. PICK a \in Offered : set_intf(a)
    BY DEF StartSession
<1>2. /\ used = 0 /\ used' = used /\ alt' = a /\ addr_prog' = Zones[a].start
      /\ UNCHANGED bootVars /\ stage = "dfu"
    BY <1>1 DEF StartSession, Served, set_intf, bufVars
<1>3. UNCHANGED <<bits, scheme, stage, exposed, guarded>>
    BY <1>2 DEF bootVars, lockVars
<1>4. Guarding'
    BY <1>3 DEF Held, Guarding, Locked
<1>5. Offered' = Offered /\ a \in Alts
    BY <1>3, DfuAssumption DEF Offered
<1>6. Zones[a].start \in Int
    BY <1>5, ZoneSizes
<1>7. Chosen'
    BY <1>1, <1>2, <1>3, <1>5, <1>6 DEF Chosen
<1> QED BY <1>4, <1>7 DEF Held

\* The bus goes quiet, or becomes active again.
Bus == BusQuiet \/ BusResumes

LEMMA BusKeeps ==
    ASSUME Bus
    PROVE  UNCHANGED <<engineVars, busy, lockVars, stage, exposed, guarded>>
BY DEF Bus, BusQuiet, BusResumes

LEMMA BusHeld == ASSUME Held, Bus PROVE Held'
<1>1. UNCHANGED <<alt, used, addr_prog, bits, scheme, known, stage, exposed, guarded>>
    BY BusKeeps DEF engineVars, bufVars, addrVars, lockVars
<1>2. Guarding'
    BY <1>1 DEF Held, Guarding, Locked
<1>3. Chosen'
    BY <1>1 DEF Held, Chosen, Offered
<1> QED BY <1>2, <1>3 DEF Held

LEMMA NextHeld == IInv /\ Held /\ [Next]_vars => Held'
<1> SUFFICES ASSUME IInv, Held, [Next]_vars PROVE Held'
    OBVIOUS
<1>1. addr_prog \in Nat /\ BlockLen \in Nat /\ used \in 0 .. 2
    BY Sizes DEF IInv, Buffers
<1>2. CASE AnyTick
    <2>1. CASE TickGivesUp
        BY <2>1, RestartHeld DEF TickGivesUp, reboot_now
    <2>2. CASE TickAdvances
        <3>1. UNCHANGED bootVars /\ alt' = alt /\ addr_prog' = addr_prog + BlockLen
              /\ used' = used - 1
            BY <2>2 DEF TickAdvances, Tick
        <3>2. addr_prog' \in Int /\ addr_prog <= addr_prog' /\ (used' > 0 => used > 0)
            BY <1>1, <3>1
        <3> QED BY <3>1, <3>2, EngineHeld
    <2>3. CASE TickErases \/ TickStartsProgram \/ TickPrograms \/ TickProgrammed
        <3>1. UNCHANGED <<bootVars, alt, addr_prog, used>>
            BY <2>3 DEF TickErases, TickStartsProgram, TickPrograms, TickProgrammed, Tick
        <3> QED BY <1>1, <3>1, EngineHeld
    <2> QED BY <1>2, <2>1, <2>2, <2>3 DEF AnyTick
<1>3. CASE StartSession
    BY <1>3, StartSessionHeld
<1>4. CASE DnloadDone
    <2>1. UNCHANGED <<bootVars, alt, addr_prog>> /\ xfer = "status"
        BY <1>4 DEF DnloadDone, HostSent, addrVars
    <2>2. alt \in Alts
        BY <2>1, Arrived
    <2>3. alt # -1
        BY <2>2, DfuAssumption
    <2> QED BY <1>1, <2>1, <2>3, EngineHeld
<1>5. CASE \/ SetConfiguration \/ StopSession \/ Dnload \/ DnloadData
           \/ DnloadAckLost \/ DnloadEnd
    <2>1. UNCHANGED <<bootVars, alt, addr_prog, used>>
        BY <1>5 DEF SetConfiguration, StopSession, Dnload, DnloadData, DnloadAckLost,
                    DnloadEnd, HostSent, addrVars, bufVars
    <2> QED BY <1>1, <2>1, EngineHeld
<1>6. CASE \/ GetStatusBlock \/ GetStatusManifest \/ Drained \/ ClrStatus \/ Abort
           \/ Upload \/ FlashReady
    <2>1. UNCHANGED <<bootVars, alt, addr_prog, used>>
        BY <1>6 DEF GetStatusBlock, GetStatusManifest, Drained, ClrStatus, Abort,
                    Upload, FlashReady, addrVars, bufVars
    <2> QED BY <1>1, <2>1, EngineHeld
<1>7. CASE Leave \/ PowerCut
    BY <1>7, RestartHeld DEF Leave, PowerCut, reboot_now
<1>8. CASE Main
    BY <1>8, MainHeld
<1>9. CASE UNCHANGED vars
    <2>1. UNCHANGED <<bootVars, alt, addr_prog, used>>
        BY <1>9 DEF vars, addrVars, bufVars
    <2> QED BY <1>1, <2>1, EngineHeld
<1>10. CASE Bus
    BY <1>10, BusHeld
<1> QED BY <1>2, <1>3, <1>4, <1>5, <1>6, <1>7, <1>8, <1>9, <1>10
        DEF Next, Request, Bus

----------------------------------------------------------------------------
LEMMA StutterStep == ASSUME IInv, UNCHANGED vars PROVE IInv'
<1>1. UNCHANGED <<state, alt, bufVars, addrVars, xfer, draining, hostVars, history>>
      /\ op' = op /\ op_ofs' = op_ofs /\ flash' = flash
    BY DEF vars, opVars, chipVars
<1>2. op \in Op /\ op_ofs \in Nat /\ (op # "IDLE" => used > 0)
    BY DEF IInv, Buffers
<1> QED BY <1>1, <1>2, ChipStep

LEMMA MainStep == ASSUME IInv, Held, Main PROVE IInv'
<1>1. CASE Start \/ SetBits \/ ProtectDone \/ EnterDfu \/ EnterApp
    <2>1. UNCHANGED engineVars
        BY <1>1 DEF Start, SetBits, ProtectDone, EnterDfu, EnterApp
    <2>2. UNCHANGED <<state, alt, bufVars, addrVars, xfer, draining, hostVars, history>>
          /\ op' = op /\ op_ofs' = op_ofs /\ flash' = flash
        BY <2>1 DEF engineVars, opVars
    <2>3. op \in Op /\ op_ofs \in Nat /\ (op # "IDLE" => used > 0)
        BY DEF IInv, Buffers
    <2> QED BY <2>2, <2>3, ChipStep
<1>2. CASE AppWrites
    <2>1. UNCHANGED <<state, alt, bufVars, addrVars, xfer, draining, hostVars, history>>
          /\ op' = op /\ op_ofs' = op_ofs
        BY <1>2 DEF AppWrites, opVars
    <2>2. op \in Op /\ op_ofs \in Nat /\ (op # "IDLE" => used > 0)
        BY DEF IInv, Buffers
    <2>3. ~Session
        <3>1. alt = -1
            BY <1>2 DEF AppWrites, Held, Chosen
        <3>2. Session => alt \in Alts
            BY DEF IInv, Stages
        <3>3. -1 \notin Alts
            BY DfuAssumption
        <3> QED BY <3>1, <3>2, <3>3
    <2> QED BY <2>1, <2>2, <2>3, ChipStep
<1> QED BY <1>1, <1>2 DEF Main

LEMMA BusStep == ASSUME IInv, Bus PROVE IInv'
<1>1. UNCHANGED <<state, alt, bufVars, addrVars, xfer, draining, hostVars, history>>
      /\ op' = op /\ op_ofs' = op_ofs /\ flash' = flash
    BY BusKeeps DEF engineVars, opVars
<1>2. op \in Op /\ op_ofs \in Nat /\ (op # "IDLE" => used > 0)
    BY DEF IInv, Buffers
<1> QED BY <1>1, <1>2, ChipStep

LEMMA NextIInv == IInv /\ Held /\ [Next]_vars => IInv'
<1> SUFFICES ASSUME IInv, Held, [Next]_vars PROVE IInv'
    OBVIOUS
<1>1. CASE AnyTick
    <2>1. CASE TickGivesUp
        BY <2>1, RestartStep DEF TickGivesUp, reboot_now
    <2>2. CASE TickErases
        BY <2>2, TickErasesStep
    <2>3. CASE TickAdvances
        BY <2>3, TickAdvancesStep
    <2>4. CASE TickStartsProgram
        BY <2>4, TickStartsProgramStep
    <2>5. CASE TickPrograms
        BY <2>5, TickProgramsStep
    <2>6. CASE TickProgrammed
        BY <2>6, TickProgrammedStep
    <2> QED BY <1>1, <2>1, <2>2, <2>3, <2>4, <2>5, <2>6 DEF AnyTick
<1>2. CASE SetConfiguration \/ StartSession \/ StopSession
    BY <1>2, SetConfigurationStep, StartSessionStep, StopSessionStep
<1>3. CASE Dnload \/ DnloadData \/ DnloadDone \/ DnloadAckLost \/ DnloadEnd
    BY <1>3, DnloadStep, DnloadDataStep, DnloadDoneStep, DnloadAckLostStep,
       DnloadEndStep
<1>4. CASE GetStatusBlock \/ GetStatusManifest \/ Drained
    BY <1>4, GetStatusBlockStep, GetStatusManifestStep, DrainedStep
<1>5. CASE ClrStatus \/ Abort \/ Upload
    BY <1>5, ClrStatusStep, AbortStep, UploadStep
<1>6. CASE Leave \/ PowerCut
    BY <1>6, RestartStep DEF Leave, PowerCut, reboot_now
<1>7. CASE FlashReady
    BY <1>7, FlashReadyStep
<1>8. CASE UNCHANGED vars
    BY <1>8, StutterStep
<1>9. CASE Main
    BY <1>9, MainStep
<1>10. CASE Bus
    BY <1>10, BusStep
<1> QED BY <1>1, <1>2, <1>3, <1>4, <1>5, <1>6, <1>7, <1>8, <1>9, <1>10
        DEF Next, Request, Bus

LEMMA SpecIInv == Spec => []IInv
<1>1. Init => IInv /\ Held
    BY InitIInv, InitHeld
<1>2. IInv /\ Held /\ [Next]_vars => (IInv /\ Held)'
    BY NextIInv, NextHeld
<1> QED BY <1>1, <1>2, PTL DEF Spec

LEMMA IInvStream == IInv => StreamInOrder
<1> SUFFICES ASSUME IInv, Session PROVE StreamInOrder
    BY DEF StreamInOrder, Session
<1>1. /\ used \in 0 .. 2 /\ rd \in {0, 1} /\ alt \in Alts
      /\ addr_end = Zones[alt].end
      /\ accepted \in Seq([1 .. BlockLen -> Cell]) /\ Count \in Nat
      /\ used <= Count
      /\ addr_prog = Zones[alt].start + (Count - used) * BlockLen
      /\ used >= 1 => buf[rd] = accepted[Count - used + 1]
      /\ used = 2 => buf[1 - rd] = accepted[Count]
      /\ Count > 0 => Zones[alt].start + Count * BlockLen <= addr_end
    BY DEF IInv, Buffers, Stages, Kept, Count
<1>2. \A i \in 1 .. (Count - used) :
          FlashAt(Zones[alt].start + (i - 1) * BlockLen) = accepted[i]
    BY DEF IInv, Flashed
<1>3. ASSUME NEW i \in 1 .. used
      PROVE  buf[(rd + i - 1) % 2] = accepted[Count - used + i]
    <2>1. CASE i = 1
        <3>1. (rd + i - 1) % 2 = rd
            <4>1. CASE rd = 0
                BY <2>1, <4>1
            <4>2. CASE rd = 1
                BY <2>1, <4>2
            <4> QED BY <1>1, <4>1, <4>2
        <3>2. used >= 1 /\ Count - used + i = Count - used + 1
            BY <1>1, <2>1
        <3> QED BY <1>1, <3>1, <3>2
    <2>2. CASE i = 2
        <3>1. (rd + i - 1) % 2 = 1 - rd
            <4>1. CASE rd = 0
                BY <2>2, <4>1
            <4>2. CASE rd = 1
                BY <2>2, <4>2
            <4> QED BY <1>1, <4>1, <4>2
        <3>2. used = 2 /\ Count - used + i = Count
            BY <1>1, <2>2
        <3> QED BY <1>1, <3>1, <3>2
    <2> QED BY <1>1, <2>1, <2>2
<1>4. xfer # "none" => used < 2
    BY DEF IInv, Stages, Arriving
<1>5. used > 0 => addr_prog + used * BlockLen <= addr_end
    <2> SUFFICES ASSUME used > 0 PROVE addr_prog + used * BlockLen <= addr_end
        OBVIOUS
    <2>1. /\ Zones[alt].start \in Nat /\ Zones[alt].end \in Nat
          /\ BlockLen \in Nat
        BY <1>1, ZoneSizes, Sizes
    <2>2. (Count - used) * BlockLen + used * BlockLen = Count * BlockLen
        BY <1>1, <2>1
    <2>3. /\ (Count - used) * BlockLen \in Nat /\ used * BlockLen \in Nat
          /\ Count * BlockLen \in Nat
        BY <1>1, <2>1
    <2>4. Zones[alt].start + Count * BlockLen <= addr_end
        BY <1>1
    <2>5. addr_prog = Zones[alt].start + (Count - used) * BlockLen
        BY <1>1
    <2>6. addr_prog + used * BlockLen = Zones[alt].start + Count * BlockLen
        BY <2>1, <2>2, <2>3, <2>5
    <2> QED BY <2>4, <2>6
<1> QED BY <1>1, <1>2, <1>3, <1>4, <1>5 DEF StreamInOrder, Count

\* At every moment of a session the flash up to addr_prog and the buffers hold
\* the accepted blocks, each once and in order, and a block is received only
\* into a free buffer (_dfu_ctrl_req, _dfu_dnload_done_cb, _dfu_tick).
THEOREM StreamInOrderCorrect == Spec => []StreamInOrder
BY SpecIInv, IInvStream, PTL

LEMMA IInvManifest == IInv => ManifestVerified
<1> SUFFICES ASSUME IInv, host = "done", ~lost, NEW i \in 1 .. Len(file)
             PROVE  FlashAt(Zones[alt].start + (i - 1) * BlockLen) = Padded(file[i])
    BY DEF ManifestVerified
<1>1. Session
    BY DEF Session
<1>2. used = 0 /\ sent = Len(file)
    BY <1>1 DEF IInv, Stages
<1>3. Count = sent /\ \A j \in 1 .. sent : accepted[j] = Padded(file[j])
    BY <1>1 DEF IInv, Told
<1>4. Count \in Nat
    BY <1>1 DEF IInv, Kept, Count
<1>5. i \in 1 .. (Count - used) /\ i \in 1 .. sent
    BY <1>2, <1>3, <1>4
<1>6. FlashAt(Zones[alt].start + (i - 1) * BlockLen) = accepted[i]
    BY <1>1, <1>5 DEF IInv, Flashed
<1> QED BY <1>3, <1>5, <1>6

\* A host that is told that its download is complete finds the file in the zone,
\* if no acknowledge was lost on the way (GETSTATUS in _dfu_ctrl_req waits for
\* the buffers, and _dfu_tick frees a buffer only when it has read it back).
THEOREM ManifestVerifiedCorrect == Spec => []ManifestVerified
BY SpecIInv, IInvManifest, PTL
----------------------------------------------------------------------------
BootCells == \A a \in BootZone : flash'[a] = flash[a]

\* Neither register lets a command through, and the engine works behind the zone.
LEMMA CommandKeeps ==
    ASSUME NEW cells, Command(cells),
           Locked \/ \A c \in DOMAIN cells : c \notin BootZone
    PROVE  BootCells
<1>1. ASSUME NEW a \in BootZone PROVE Written(cells)[a] = flash[a]
    BY DEF Written, BootZone
<1> QED BY <1>1 DEF Command, BootCells

LEMMA BehindZone ==
    ASSUME Held, IInv, used > 0, ~exposed, NEW c \in Int, c >= addr_prog
    PROVE  c \notin BootZone
<1>1. alt \in Alts \ {Boot} /\ Zones[alt].start <= addr_prog
    BY DEF Held, Chosen, Offered
<1>2. Zones[Boot].end <= Zones[alt].start
    BY <1>1, DfuAssumption
<1>3. Zones[Boot].end \in Nat /\ Zones[alt].start \in Nat /\ addr_prog \in Nat
    BY <1>1, ZoneSizes, DfuAssumption DEF IInv, Buffers
<1> QED BY <1>1, <1>2, <1>3 DEF BootZone, Addr

LEMMA ErasesKeeps ==
    ASSUME Held, IInv, TickErases, Locked \/ ~exposed PROVE BootCells
<1>1. used > 0 /\ addr_prog \in Nat
    BY DEF TickErases, Tick, TickRuns, IInv, Buffers
<1> DEFINE cells == [c \in addr_prog .. (addr_prog + BlockLen - 1) |-> 1]
<1>2. Command(cells)
    BY DEF TickErases, flash_sector_erase
<1>3. \A c \in DOMAIN cells : c \in Int /\ c >= addr_prog
    BY <1>1, Sizes
<1> HIDE DEF cells
<1>4. CASE Locked
    BY <1>2, <1>4, CommandKeeps
<1>5. CASE ~exposed
    <2>1. \A c \in DOMAIN cells : c \notin BootZone
        BY <1>1, <1>3, <1>5, BehindZone
    <2> QED BY <1>2, <2>1, CommandKeeps
<1> QED BY <1>4, <1>5

LEMMA PageKeeps ==
    ASSUME Held, IInv, used > 0, NEW ofs \in Nat, ofs < BlockLen, ProgramPage(ofs),
           Locked \/ ~exposed
    PROVE  BootCells
<1> DEFINE p == (addr_prog + ofs) % PageLen
           n == Smaller(BlockLen - ofs, PageLen - p)
           cells == [c \in (addr_prog + ofs) .. (addr_prog + ofs + n - 1) |->
                         IF buf[rd][c - addr_prog + 1] = 1 THEN flash[c] ELSE 0]
<1>1. p \in 0 .. (PageLen - 1) /\ addr_prog \in Nat
    BY Sizes DEF IInv, Buffers
<1>2. Command(cells)
    BY DEF ProgramPage, flash_page_program
<1> HIDE DEF p
<1>3. n \in Nat
    BY <1>1, Sizes DEF Smaller
<1> HIDE DEF n
<1>4. \A c \in DOMAIN cells : c \in Int /\ c >= addr_prog
    BY <1>1, <1>3
<1> HIDE DEF cells
<1>5. CASE Locked
    BY <1>2, <1>5, CommandKeeps
<1>6. CASE ~exposed
    <2>1. \A c \in DOMAIN cells : c \notin BootZone
        BY <1>4, <1>6, BehindZone
    <2> QED BY <1>2, <2>1, CommandKeeps
<1> QED BY <1>5, <1>6

LEMMA StepKeeps ==
    ASSUME Held, IInv, [Next]_vars, guarded = "yes" \/ (stage = "dfu" /\ ~exposed)
    PROVE  BootCells
<1>1. Locked \/ ~exposed
    BY DEF Held, Guarding
<1>2. used \in 0 .. 2 /\ op_ofs \in Nat /\ (op # "IDLE" => used > 0) /\ 0 < BlockLen
    BY Sizes DEF IInv, Buffers
<1>3. CASE TickErases
    BY <1>1, <1>3, ErasesKeeps
<1>4. CASE TickStartsProgram
    <2>1. used > 0 /\ ProgramPage(0)
        BY <1>2, <1>4 DEF TickStartsProgram, Tick, TickRuns
    <2> QED BY <1>1, <1>2, <2>1, PageKeeps
<1>5. CASE TickPrograms
    <2>1. used > 0 /\ ProgramPage(op_ofs) /\ op_ofs < BlockLen
        BY <1>2, <1>5 DEF TickPrograms
    <2> QED BY <1>1, <1>2, <2>1, PageKeeps
<1>6. CASE AppWrites
    <2>1. Locked
        BY <1>6 DEF AppWrites, Held, Guarding
    <2>2. flash' = Written([a \in BootZone |-> 0])
        BY <1>6 DEF AppWrites
    <2>3. ASSUME NEW a \in BootZone PROVE Written([b \in BootZone |-> 0])[a] = flash[a]
        BY <2>1 DEF Written, BootZone
    <2> QED BY <2>2, <2>3 DEF BootCells
<1>7. CASE TickGivesUp \/ TickAdvances \/ TickProgrammed \/ Leave \/ PowerCut
    <2>1. UNCHANGED flash
        BY <1>7 DEF TickGivesUp, TickAdvances, TickProgrammed, Leave, PowerCut, chipVars
    <2> QED BY <2>1 DEF BootCells
<1>8. CASE \/ SetConfiguration \/ StartSession \/ StopSession \/ Dnload \/ DnloadData
           \/ DnloadDone \/ DnloadAckLost \/ DnloadEnd
    <2>1. UNCHANGED flash
        BY <1>8 DEF SetConfiguration, StartSession, StopSession, Dnload, DnloadData,
                    DnloadDone, DnloadAckLost, DnloadEnd, HostSent, chipVars
    <2> QED BY <2>1 DEF BootCells
<1>9. CASE \/ GetStatusBlock \/ GetStatusManifest \/ Drained \/ ClrStatus \/ Abort
           \/ Upload \/ FlashReady
    <2>1. UNCHANGED flash
        BY <1>9 DEF GetStatusBlock, GetStatusManifest, Drained, ClrStatus, Abort,
                    Upload, FlashReady, chipVars
    <2> QED BY <2>1 DEF BootCells
<1>10. CASE Start \/ SetBits \/ ProtectDone \/ EnterDfu \/ EnterApp \/ Bus
    <2>1. UNCHANGED flash
        BY <1>10, BusKeeps
           DEF Start, SetBits, ProtectDone, EnterDfu, EnterApp, engineVars
    <2> QED BY <2>1 DEF BootCells
<1>11. CASE UNCHANGED vars
    BY <1>11 DEF vars, chipVars, BootCells
<1> QED BY <1>3, <1>4, <1>5, <1>6, <1>7, <1>8, <1>9, <1>10, <1>11
        DEF Next, Request, Main, AnyTick, Bus

\* Unless START was held the bootloader's own part of the flash stays as it is:
\* whatever an application writes, through every restart, once both registers took
\* what was written to them, and whatever the engine is sent in any case.
THEOREM BootloaderKeptCorrect == Spec => BootloaderKept
<1>1. IInv /\ Held /\ [Next]_vars =>
      [guarded = "yes" \/ (stage = "dfu" /\ ~exposed) =>
           \A a \in BootZone : flash'[a] = flash[a]]_vars
    BY StepKeeps DEF BootCells
<1>2. Init => IInv /\ Held
    BY InitIInv, InitHeld
<1>3. IInv /\ Held /\ [Next]_vars => (IInv /\ Held)'
    BY NextIInv, NextHeld
<1> QED BY <1>1, <1>2, <1>3, PTL DEF Spec, BootloaderKept

-----------------------------------------------------------------------------
(* Types, and what flushing comes to.                                      *)

\* UPLOAD reads inside of the zone.
Reads == addr_end \in 0 .. FlashLen /\ addr_read \in 0 .. addr_end

Types == TypeOK /\ Reads

LEMMA InitTypes == Init => Types
<1> SUFFICES ASSUME Init PROVE Types
    OBVIOUS
<1>1. Blank \in [1 .. BlockLen -> Cell]
    BY DEF Blank, Cell
<1>2. buf \in [{0, 1} -> [1 .. BlockLen -> Cell]]
    BY <1>1 DEF Init, InitDfu
<1>3. flash \in [Addr -> Cell]
    BY DEF Init, Cell
<1>4. /\ addr_end = 0 /\ addr_read = 0 /\ op_ofs = 0 /\ prog_retry = Retries
      /\ used = 0 /\ wr = 0 /\ rd = 0 /\ should = 0 /\ alt = -1
    BY DEF Init, InitDfu
<1>5. Reads /\ op_ofs \in 0 .. BlockLen /\ prog_retry \in 0 .. Retries
    BY <1>4, Sizes DEF Reads
<1>6. used \in 0 .. 2 /\ wr \in {0, 1} /\ rd \in {0, 1} /\ should \in 0 .. 3
    BY <1>4
<1>7. /\ state \in State /\ op \in Op /\ xfer \in Xfer /\ host \in Host
      /\ stage \in Stage /\ guarded \in Guarded
    BY DEF Init, InitDfu, State, Op, Xfer, Host, Stage, Guarded
<1>8. /\ draining \in BOOLEAN /\ busy \in BOOLEAN /\ known \in BOOLEAN
      /\ bits \in BOOLEAN /\ scheme \in BOOLEAN /\ exposed \in BOOLEAN
      /\ quiet \in BOOLEAN
    BY DEF Init, InitDfu
<1> QED BY <1>2, <1>3, <1>4, <1>5, <1>6, <1>7, <1>8 DEF Types, TypeOK

LEMMA RestartTypes ==
    ASSUME Types, Restart, flash' = flash, stage' \in Stage, busy' \in BOOLEAN
    PROVE  Types'
<1>1. Blank \in [1 .. BlockLen -> Cell]
    BY DEF Blank, Cell
<1>2. buf' \in [{0, 1} -> [1 .. BlockLen -> Cell]]
    BY <1>1 DEF Restart
<1>4. /\ addr_end' = 0 /\ addr_read' = 0 /\ op_ofs' = 0 /\ prog_retry' = Retries
      /\ used' = 0 /\ wr' = 0 /\ rd' = 0 /\ should' = 0 /\ alt' = -1
    BY DEF Restart
<1>5. Reads' /\ op_ofs' \in 0 .. BlockLen /\ prog_retry' \in 0 .. Retries
    BY <1>4, Sizes DEF Reads
<1>6. used' \in 0 .. 2 /\ wr' \in {0, 1} /\ rd' \in {0, 1} /\ should' \in 0 .. 3
    BY <1>4
<1>7. /\ state' \in State /\ op' \in Op /\ xfer' \in Xfer /\ host' \in Host
      /\ guarded' \in Guarded
    BY DEF Restart, State, Op, Xfer, Host, Guarded, Types, TypeOK
<1>8. /\ draining' \in BOOLEAN /\ known' \in BOOLEAN
      /\ bits' \in BOOLEAN /\ scheme' \in BOOLEAN /\ exposed' \in BOOLEAN
      /\ quiet' \in BOOLEAN
    BY DEF Restart, lockVars, Types, TypeOK
<1>9. flash' \in [Addr -> Cell]
    BY DEF Types, TypeOK
<1> QED BY <1>2, <1>4, <1>5, <1>6, <1>7, <1>8, <1>9 DEF Types, TypeOK

LEMMA CommandTypes ==
    ASSUME Types, NEW cells, Command(cells),
           \A a \in Addr : a \in DOMAIN cells => cells[a] \in Cell
    PROVE  flash' \in [Addr -> Cell] /\ busy' \in BOOLEAN
<1>1. \A a \in Addr : Written(cells)[a] \in Cell
    BY DEF Written, Types, TypeOK
<1>2. Written(cells) \in [Addr -> Cell]
    BY <1>1 DEF Written
<1> QED BY <1>2 DEF Command, Types, TypeOK

LEMMA PageSize ==
    ASSUME NEW ofs \in Nat, ofs < BlockLen, addr_prog \in Nat,
           NEW n, n = Smaller(BlockLen - ofs, PageLen - ((addr_prog + ofs) % PageLen))
    PROVE  n \in Nat \ {0} /\ ofs + n <= BlockLen
<1>1. (addr_prog + ofs) % PageLen \in 0 .. (PageLen - 1)
    BY Sizes
<1> QED BY <1>1, Sizes DEF Smaller

LEMMA PageTypes ==
    ASSUME Types, addr_prog \in Nat, NEW ofs \in Nat, ofs < BlockLen,
           ProgramPage(ofs)
    PROVE  /\ flash' \in [Addr -> Cell] /\ busy' \in BOOLEAN
           /\ op_ofs' \in 0 .. BlockLen /\ op_ofs' > ofs
<1>1. PICK n : n = Smaller(BlockLen - ofs, PageLen - ((addr_prog + ofs) % PageLen))
    OBVIOUS
<1>2. n \in Nat \ {0} /\ ofs + n <= BlockLen
    BY <1>1, PageSize
<1>3. op_ofs' = ofs + n
    BY <1>1 DEF ProgramPage
<1>4. flash_page_program(buf[rd], addr_prog, ofs, n)
    BY <1>1 DEF ProgramPage
<1>5. PICK cells :
        /\ cells = [c \in (addr_prog + ofs) .. (addr_prog + ofs + n - 1) |->
                       IF buf[rd][c - addr_prog + 1] = 1 THEN flash[c] ELSE 0]
        /\ Command(cells)
    BY <1>4 DEF flash_page_program
<1>6. \A a \in Addr : a \in DOMAIN cells => cells[a] \in Cell
    BY <1>5 DEF Types, TypeOK, Cell
<1>7. flash' \in [Addr -> Cell] /\ busy' \in BOOLEAN
    BY <1>5, <1>6, CommandTypes
<1> QED BY <1>2, <1>3, <1>7, Sizes

LEMMA TickTypes == ASSUME IInv, Types, AnyTick PROVE Types'
<1>0. addr_prog \in Nat /\ used \in 0 .. 2 /\ rd \in {0, 1}
    BY DEF IInv, Buffers
<1>1. CASE TickGivesUp
    BY <1>1, RestartTypes
    DEF TickGivesUp, reboot_now, chipVars, Stage, Types, TypeOK
<1>2. CASE TickErases
    <2>1. PICK cells :
            /\ cells = [c \in addr_prog .. (addr_prog + BlockLen - 1) |-> 1]
            /\ Command(cells)
        BY <1>2 DEF TickErases, flash_sector_erase
    <2>2. flash' \in [Addr -> Cell] /\ busy' \in BOOLEAN
        BY <2>1, CommandTypes DEF Cell
    <2>3. Verified \in 0 .. 3
        BY DEF Verified, flash_verify
    <2>4. prog_retry' \in 0 .. Retries
        BY <1>2, Sizes DEF TickErases, Types, TypeOK
    <2> QED BY <1>2, <2>2, <2>3, <2>4, Sizes
            DEF TickErases, Tick, Types, TypeOK, Reads, Op, hostVars, bootVars,
                lockVars
<1>3. CASE TickAdvances
    <2>1. used > 0
        BY <1>3 DEF TickAdvances, Tick, TickRuns, IInv, Buffers
    <2>2. used' \in 0 .. 2 /\ rd' \in {0, 1}
        BY <1>0, <1>3, <2>1 DEF TickAdvances
    <2> QED BY <1>3, <2>2, Sizes
            DEF TickAdvances, Tick, Types, TypeOK, Reads, Op, hostVars,
                bootVars, lockVars, chipVars
<1>4. CASE TickStartsProgram
    <2>1. flash' \in [Addr -> Cell] /\ busy' \in BOOLEAN /\ op_ofs' \in 0 .. BlockLen
        BY <1>0, <1>4, PageTypes, Sizes DEF TickStartsProgram
    <2> QED BY <1>4, <2>1
            DEF TickStartsProgram, Tick, Types, TypeOK, Reads, Op, hostVars,
                bootVars, lockVars
<1>5. CASE TickPrograms
    <2>1. flash' \in [Addr -> Cell] /\ busy' \in BOOLEAN /\ op_ofs' \in 0 .. BlockLen
        BY <1>0, <1>5, PageTypes DEF TickPrograms, Types, TypeOK
    <2> QED BY <1>5, <2>1
            DEF TickPrograms, Tick, Types, TypeOK, Reads, hostVars,
                bootVars, lockVars
<1>6. CASE TickProgrammed
    <2>1. prog_retry' \in 0 .. Retries
        BY <1>6, Sizes DEF TickProgrammed, Types, TypeOK
    <2> QED BY <1>6, <2>1, Sizes
            DEF TickProgrammed, Tick, Types, TypeOK, Reads, Op, hostVars,
                bootVars, lockVars, chipVars
<1> QED BY <1>1, <1>2, <1>3, <1>4, <1>5, <1>6 DEF AnyTick

LEMMA MainTypes == ASSUME Types, Main PROVE Types'
<1>1. CASE Start \/ SetBits \/ ProtectDone \/ EnterDfu \/ EnterApp
    <2>1. UNCHANGED engineVars
        BY <1>1 DEF Start, SetBits, ProtectDone, EnterDfu, EnterApp
    <2>2. /\ busy' \in BOOLEAN /\ known' \in BOOLEAN /\ exposed' \in BOOLEAN
          /\ scheme' \in BOOLEAN /\ quiet' \in BOOLEAN
        BY <1>1 DEF Start, SetBits, ProtectDone, EnterDfu, EnterApp, flash_reset,
               lockVars, SetScheme, Types, TypeOK
    <2>3. bits' \in BOOLEAN
        BY <1>1 DEF Start, SetBits, ProtectDone, EnterDfu, EnterApp, lockVars,
               Types, TypeOK
    <2>4. stage' \in Stage
        BY <1>1 DEF Start, SetBits, ProtectDone, EnterDfu, EnterApp, Stage
    <2>5. guarded' \in Guarded
        BY <1>1 DEF Start, SetBits, ProtectDone, EnterDfu, EnterApp, Guarded,
               SetScheme, Closed, Types, TypeOK
    <2> QED BY <2>1, <2>2, <2>3, <2>4, <2>5
            DEF engineVars, bufVars, addrVars, opVars, hostVars, Types, TypeOK,
                Reads
<1>2. CASE AppWrites
    <2>1. PICK cells : cells = [a \in BootZone |-> 0] /\ flash' = Written(cells)
        BY <1>2 DEF AppWrites
    <2>2. \A a \in Addr : Written(cells)[a] \in Cell
        BY <2>1 DEF Written, Types, TypeOK, Cell
    <2>3. flash' \in [Addr -> Cell]
        BY <2>1, <2>2 DEF Written
    <2> QED BY <1>2, <2>3
            DEF AppWrites, bufVars, addrVars, opVars, bootVars, lockVars,
                hostVars, Types, TypeOK, Reads
<1> QED BY <1>1, <1>2 DEF Main

LEMMA RequestTypes == ASSUME IInv, Types, Request PROVE Types'
<1>1. CASE SetConfiguration \/ StopSession \/ DnloadEnd \/ GetStatusBlock
           \/ GetStatusManifest \/ Drained \/ ClrStatus \/ Abort
           \/ DnloadAckLost
    <2>1. UNCHANGED <<alt, bufVars, addrVars, opVars, chipVars, bootVars>>
        BY <1>1
        DEF SetConfiguration, StopSession, DnloadEnd, GetStatusBlock,
            GetStatusManifest, Drained, ClrStatus, Abort, DnloadAckLost,
            HostSent, bufVars
    <2>2. state' \in State /\ host' \in Host
        <3>1. CASE GetStatusBlock
            BY <3>1 DEF GetStatusBlock, Types, TypeOK, State, Host
        <3>2. CASE ~GetStatusBlock
            BY <1>1, <3>2
            DEF SetConfiguration, StopSession, DnloadEnd, GetStatusManifest,
                Drained, ClrStatus, Abort, DnloadAckLost, HostSent, Fails,
                hostVars, Types, TypeOK, State, Host
        <3> QED BY <3>1, <3>2
    <2>3. xfer' \in Xfer /\ draining' \in BOOLEAN
        BY <1>1
        DEF SetConfiguration, StopSession, DnloadEnd, GetStatusBlock,
            GetStatusManifest, Drained, ClrStatus, Abort, DnloadAckLost,
            HostSent, Types, TypeOK, Xfer
    <2> QED BY <2>1, <2>2, <2>3
            DEF bufVars, addrVars, opVars, chipVars, bootVars, lockVars,
                Types, TypeOK, Reads
<1>2. CASE StartSession
    <2>1. PICK a \in Offered : set_intf(a)
        BY <1>2 DEF StartSession
    <2>2. a \in Alts /\ Zones[a].start \in Nat /\ Zones[a].end \in Nat
          /\ Zones[a].start <= Zones[a].end /\ Zones[a].end <= FlashLen
        BY DfuAssumption DEF Offered
    <2>3. Reads' /\ alt' \in Alts /\ state' \in State
        BY <2>1, <2>2, Sizes DEF Reads, set_intf, State
    <2> QED BY <1>2, <2>3
            DEF StartSession, bufVars, opVars, chipVars, bootVars, lockVars,
                Types, TypeOK, Host, Xfer
<1>3. CASE Dnload
    <2>1. buf' \in [{0, 1} -> [1 .. BlockLen -> Cell]]
        <3>1. CASE buf' = buf
            BY <3>1 DEF Types, TypeOK
        <3>2. CASE buf' = [buf EXCEPT ![wr] =
                         [i \in 1 .. BlockLen |->
                              IF i <= Len(NextBlock) THEN @[i] ELSE 1]]
            <4>1. [i \in 1 .. BlockLen |-> IF i <= Len(NextBlock) THEN buf[wr][i]
                                           ELSE 1] \in [1 .. BlockLen -> Cell]
                BY DEF Types, TypeOK, Cell
            <4> QED BY <3>2, <4>1 DEF Types, TypeOK
        <3> QED BY <1>3, <3>1, <3>2 DEF Dnload
    <2> QED BY <1>3, <2>1
            DEF Dnload, Fails, opVars, chipVars, bootVars, lockVars, Types,
                TypeOK, Reads, State, Host, Xfer
<1>4. CASE DnloadData
    <2>1. file \in Files /\ sent \in 0 .. Len(file) /\ sent < Len(file)
        BY <1>4 DEF DnloadData, IInv, Arriving, Stages, Session, Xfer
    <2>2. NextBlock \in Seq(Cell)
        BY <2>1, FileBlocks DEF NextBlock
    <2>3. [i \in 1 .. BlockLen |-> IF i <= Len(NextBlock) THEN NextBlock[i]
                                   ELSE buf[wr][i]] \in [1 .. BlockLen -> Cell]
        <3>1. PICK b \in Seq(Cell) : b = NextBlock
            BY <2>2
        <3>2. \A i \in 1 .. BlockLen : i <= Len(b) => b[i] \in Cell
            BY LenProperties
        <3> QED BY <3>1, <3>2 DEF Types, TypeOK
    <2>4. buf' \in [{0, 1} -> [1 .. BlockLen -> Cell]]
        BY <1>4, <2>3 DEF DnloadData, Types, TypeOK
    <2> QED BY <1>4, <2>4
            DEF DnloadData, addrVars, opVars, chipVars, bootVars, lockVars,
                hostVars, Types, TypeOK, Reads, Xfer
<1>5. CASE DnloadDone
    <2>1. used < 2
        BY <1>5 DEF DnloadDone, HostSent, IInv, Arriving, Stages, Session
    <2>2. used' \in 0 .. 2 /\ wr' \in {0, 1}
        BY <1>5, <2>1 DEF DnloadDone, Types, TypeOK
    <2> QED BY <1>5, <2>2
            DEF DnloadDone, HostSent, addrVars, opVars, chipVars, bootVars,
                lockVars, Types, TypeOK, Reads, State, Host, Xfer
<1>6. CASE Upload
    <2>1. PICK n : n = Smaller(BlockLen, addr_end - addr_read)
        OBVIOUS
    <2>2. n \in Nat /\ addr_read + n <= addr_end
        BY <2>1, Sizes DEF Types, Reads, Smaller
    <2>3. buf' = [buf EXCEPT ![0] =
                    [i \in 1 .. BlockLen |->
                         IF i <= n THEN flash[addr_read + i - 1] ELSE @[i]]]
          /\ addr_read' = addr_read + n
        BY <1>6, <2>1 DEF Upload
    <2>4. ASSUME NEW i \in 1 .. BlockLen, i <= n
          PROVE  flash[addr_read + i - 1] \in Cell
        <3>1. addr_read + i - 1 \in Addr
            BY <2>2, <2>4, Sizes DEF Types, Reads, Addr
        <3> QED BY <3>1 DEF Types, TypeOK
    <2>5. [i \in 1 .. BlockLen |->
              IF i <= n THEN flash[addr_read + i - 1] ELSE buf[0][i]]
          \in [1 .. BlockLen -> Cell]
        BY <2>4 DEF Types, TypeOK
    <2>6. buf' \in [{0, 1} -> [1 .. BlockLen -> Cell]]
        BY <2>3, <2>5 DEF Types, TypeOK
    <2>7. Reads'
        BY <1>6, <2>2, <2>3 DEF Upload, Types, Reads
    <2> QED BY <1>6, <2>6, <2>7
            DEF Upload, opVars, chipVars, bootVars, lockVars, hostVars, Types,
                TypeOK
<1>7. CASE Leave
    BY <1>7, RestartTypes
    DEF Leave, reboot_now, chipVars, Stage, Types, TypeOK
<1> QED BY <1>1, <1>2, <1>3, <1>4, <1>5, <1>6, <1>7 DEF Request

LEMMA NextTypes == ASSUME IInv, Types, [Next]_vars PROVE Types'
<1>1. CASE PowerCut
    BY <1>1, RestartTypes DEF PowerCut, Stage
<1>2. CASE FlashReady
    BY <1>2
    DEF FlashReady, bufVars, addrVars, opVars, hostVars, bootVars, lockVars,
        Types, TypeOK, Reads
<1>3. CASE UNCHANGED vars
    BY <1>3
    DEF vars, bufVars, addrVars, opVars, chipVars, hostVars, bootVars, lockVars,
        Types, TypeOK, Reads
<1>4. CASE Bus
    <2>1. quiet' \in BOOLEAN
        BY <1>4 DEF Bus, BusQuiet, BusResumes
    <2> QED BY <1>4, <2>1, BusKeeps
            DEF engineVars, bufVars, addrVars, opVars, hostVars, lockVars, Types,
                TypeOK, Reads
<1> QED BY <1>1, <1>2, <1>3, <1>4, TickTypes, RequestTypes, MainTypes
        DEF Next, Bus

\* Every variable has its type; UPLOAD reads inside of the zone, and a page never
\* goes beyond its buffer.
THEOREM TypeCorrect == Spec => []TypeOK
<1>1. Init => Types
    BY InitTypes
<1>2. IInv /\ Types /\ [Next]_vars => Types'
    BY NextTypes
<1>3. Types => TypeOK
    BY DEF Types
<1> QED BY <1>1, <1>2, <1>3, SpecIInv, PTL DEF Spec

-----------------------------------------------------------------------------
(* What is left to do for the buffers: their number, then the attempts     *)
(* that the oldest has left, then the bytes of this attempt.               *)
Left == IF op = "PROGRAM" THEN BlockLen + 1 - op_ofs ELSE BlockLen + 2

Fewer ==
    \/ used' < used
    \/ used' = used /\ prog_retry' < prog_retry
    \/ used' = used /\ prog_retry' = prog_retry /\ Left' < Left

LEMMA LeftType == ASSUME Types PROVE Left \in Nat
BY Sizes DEF Types, TypeOK, Left

LEMMA FewerBytes ==
    ASSUME NEW i \in Nat, NEW j \in Nat, j > i
    PROVE  /\ BlockLen + 1 - j < BlockLen + 1 - i
           /\ BlockLen + 1 - j < BlockLen + 2
BY Sizes

LEMMA TickFewer == ASSUME IInv, Types, AnyTick PROVE Fewer
<1>0. /\ addr_prog \in Nat /\ used \in 0 .. 2 /\ op \in Op
      /\ op # "IDLE" => used > 0
      /\ op_ofs \in 0 .. BlockLen /\ prog_retry \in 0 .. Retries
    BY DEF IInv, Buffers, Types, TypeOK
<1>1. used > 0
    BY <1>0
    DEF AnyTick, TickGivesUp, TickErases, TickAdvances, TickStartsProgram,
        TickPrograms, TickProgrammed, Tick, TickRuns
<1>2. CASE TickGivesUp
    BY <1>0, <1>1, <1>2 DEF TickGivesUp, reboot_now, Restart, Fewer
<1>3. CASE TickErases
    BY <1>0, <1>3, Sizes DEF TickErases, Fewer
<1>4. CASE TickAdvances
    BY <1>0, <1>4 DEF TickAdvances, Fewer
<1>5. CASE TickStartsProgram
    <2>1. op_ofs' \in 0 .. BlockLen /\ op_ofs' > 0
        BY <1>0, <1>5, PageTypes, Sizes DEF TickStartsProgram
    <2>2. op # "PROGRAM" /\ op' = "PROGRAM" /\ UNCHANGED <<used, prog_retry>>
        BY <1>5 DEF TickStartsProgram
    <2>3. Left = BlockLen + 2 /\ Left' = BlockLen + 1 - op_ofs'
        BY <2>2 DEF Left
    <2>4. PICK i \in Nat : i = op_ofs' /\ i > 0
        BY <2>1, Sizes
    <2>5. BlockLen + 1 - i < BlockLen + 2
        BY ONLY <2>4, FewerBytes, 0 \in Nat
    <2>6. Left' < Left
        BY <2>3, <2>4, <2>5
    <2> QED BY <2>2, <2>6 DEF Fewer
<1>6. CASE TickPrograms
    <2>1. op_ofs' \in 0 .. BlockLen /\ op_ofs' > op_ofs
        BY <1>0, <1>6, PageTypes DEF TickPrograms
    <2>2. op = "PROGRAM" /\ op' = "PROGRAM" /\ UNCHANGED <<used, prog_retry>>
        BY <1>6 DEF TickPrograms
    <2>3. Left = BlockLen + 1 - op_ofs /\ Left' = BlockLen + 1 - op_ofs'
        BY <2>2 DEF Left
    <2>4. PICK i \in Nat, j \in Nat : i = op_ofs /\ j = op_ofs' /\ j > i
        BY <1>0, <2>1, Sizes
    <2>5. BlockLen + 1 - j < BlockLen + 1 - i
        BY ONLY <2>4, FewerBytes
    <2>6. Left' < Left
        BY <2>3, <2>4, <2>5
    <2> QED BY <2>2, <2>6 DEF Fewer
<1>7. CASE TickProgrammed
    BY <1>0, <1>7, Sizes DEF TickProgrammed, Fewer
<1> QED BY <1>2, <1>3, <1>4, <1>5, <1>6, <1>7 DEF AnyTick

\* What is not a tick leaves the flushing as it is, but for a block that comes
\* in and a start of the bootloader or of a session.
LEMMA OthersLeave ==
    ASSUME Types, [Next]_vars, ~AnyTick, ~DnloadDone
    PROVE  used' = 0 \/ UNCHANGED <<used, prog_retry, Left>>
<1>1. CASE UNCHANGED <<used, opVars>>
    BY <1>1 DEF opVars, Left
<1>2. CASE UNCHANGED vars
    BY <1>1, <1>2 DEF vars, bufVars, opVars
<1>3. CASE Leave \/ PowerCut
    BY <1>3 DEF Leave, PowerCut, reboot_now, Restart
<1>4. CASE Main
    BY <1>1, <1>4
    DEF Main, Start, SetBits, ProtectDone, EnterDfu, EnterApp, AppWrites,
        engineVars, bufVars
<1>5. CASE Request /\ ~Leave
    BY <1>1, <1>5
    DEF Request, SetConfiguration, StartSession, StopSession, Dnload,
        DnloadData, DnloadAckLost, HostSent, DnloadEnd, GetStatusBlock,
        GetStatusManifest, Drained, ClrStatus, Abort, Upload, bufVars
<1>6. CASE FlashReady
    BY <1>1, <1>6 DEF FlashReady, bufVars
<1>7. CASE Bus
    BY <1>1, <1>7, BusKeeps DEF engineVars, bufVars
<1> QED BY <1>2, <1>3, <1>4, <1>5, <1>6, <1>7 DEF Next, Bus

\* However often the chip does nothing, there are only so many ticks from one
\* block that comes in to the next before the buffers are empty: a tick flushes
\* one, or uses up an attempt, or programs one more page of this attempt, and
\* when no attempt is left the device restarts.  Nothing else gives an attempt
\* or a page back.
THEOREM FlushWindsDown ==
    Spec => [][/\ used \in Nat /\ prog_retry \in Nat /\ Left \in Nat
               /\ AnyTick => Fewer
               /\ ~AnyTick /\ ~DnloadDone =>
                      used' = 0 \/ UNCHANGED <<used, prog_retry, Left>>]_vars
<1>1. ASSUME IInv, Types, [Next]_vars
      PROVE  [/\ used \in Nat /\ prog_retry \in Nat /\ Left \in Nat
              /\ AnyTick => Fewer
              /\ ~AnyTick /\ ~DnloadDone =>
                     used' = 0 \/ UNCHANGED <<used, prog_retry, Left>>]_vars
    <2>1. used \in Nat /\ prog_retry \in Nat /\ Left \in Nat
        BY <1>1, LeftType DEF Types, TypeOK
    <2> QED BY <1>1, <2>1, TickFewer, OthersLeave
<1>2. Init => Types
    BY InitTypes
<1>3. IInv /\ Types /\ [Next]_vars => Types'
    BY NextTypes
<1> QED BY <1>1, <1>2, <1>3, SpecIInv, PTL DEF Spec

=============================================================================
