---------------------------- MODULE UartCapture ----------------------------
(***************************************************************************)
(* Console input of the resident firmware (src/src/main.c).  Bytes arrive  *)
(* on the serial line into the small receive FIFO of the UART.  While a    *)
(* Doom image runs, the 10 ms timer interrupt moves them into a ring of    *)
(* CaptureBytes bytes, which the program reads through the same call that  *)
(* reads the UART directly when no capture is on.                          *)
(*                                                                         *)
(* The interrupt handler runs to its end before the foreground goes on,    *)
(* but bytes arrive at any time, and the interrupt may come between any    *)
(* two accesses of the foreground to the ring or to the UART.  A byte is   *)
(* its position on the line, so that the age of a byte can be told.        *)
(***************************************************************************)
EXTENDS Integers, Sequences

CONSTANTS
    CaptureBytes,   \* slots of the ring (a power of two in the code)
    RxDepth,        \* bytes the receive FIFO of the UART holds
    MaxBytes        \* bound: bytes the line carries in one behaviour

ASSUME CaptureBytesAssumption == CaptureBytes \in Nat /\ CaptureBytes >= 2
ASSUME RxDepthAssumption == RxDepth \in Nat \ {0}
ASSUME MaxBytesAssumption == MaxBytes \in Nat

VARIABLES
    sent,           \* bytes that have arrived on the line
    rx,             \* receive FIFO of the UART, the oldest first
    in_isr,         \* the timer interrupt handler is polling the UART
    enabled, head, tail, buffer, received, overflows,   \* doom_uart_capture_*
    pc,             \* where the foreground is in uart_getc_nonblocking or
                    \* hazard3_console_input_capture_begin
    read_tail,      \* the local copy of the tail in uart_getc_nonblocking
    value,          \* the byte uart_getc_nonblocking is about to return
    last_captured,  \* the byte last returned from the ring
    last_console,   \* the byte last returned at all
    opened          \* sent when the last capture began

captureVars == <<enabled, head, tail, buffer, received, overflows>>
readerVars == <<pc, read_tail, value, last_captured, last_console>>
vars == <<sent, rx, in_isr, captureVars, readerVars, opened>>

Slot == 0 .. (CaptureBytes - 1)

\* (i + 1u) & DOOM_UART_CAPTURE_MASK
NextSlot(i) == (i + 1) % CaptureBytes

PC == {"idle", "compare", "read", "advance", "direct", "drain", "discard"}

(***************************************************************************)
(* The bytes in the ring, the oldest first.                                *)
(***************************************************************************)
Count == IF head >= tail THEN head - tail ELSE head - tail + CaptureBytes

SlotAt(k) ==
    IF tail + k < CaptureBytes THEN tail + k ELSE tail + k - CaptureBytes

Captured == [k \in 1 .. Count |-> buffer[SlotAt(k - 1)]]

(***************************************************************************)
(* The C startup code clears the variables, and so does a reset.           *)
(***************************************************************************)
Init ==
    /\ sent = 0
    /\ rx = <<>>
    /\ in_isr = FALSE
    /\ enabled = FALSE
    /\ head = 0
    /\ tail = 0
    /\ buffer = [i \in Slot |-> 0]
    /\ received = 0
    /\ overflows = 0
    /\ pc = "idle"
    /\ read_tail = 0
    /\ value = 0
    /\ last_captured = 0
    /\ last_console = 0
    /\ opened = 0

(***************************************************************************)
(* A byte arrives; a full receive FIFO loses it.                           *)
(***************************************************************************)
Arrive ==
    /\ sent < MaxBytes
    /\ sent' = sent + 1
    /\ rx' = IF Len(rx) < RxDepth THEN Append(rx, sent + 1) ELSE rx
    /\ UNCHANGED <<in_isr, captureVars, readerVars, opened>>

\* UART_RX: an empty FIFO answers with a stale byte
FrontByte == IF rx = <<>> THEN 0 ELSE Head(rx)
PopFront == rx' = IF rx = <<>> THEN <<>> ELSE Tail(rx)

----------------------------------------------------------------------------
(***************************************************************************)
(* doom_uart_capture_poll_from_timer                                       *)
(***************************************************************************)
TimerFires ==
    /\ ~in_isr
    /\ enabled
    /\ in_isr' = TRUE
    /\ UNCHANGED <<sent, rx, captureVars, readerVars, opened>>

\* Fault: the ring is not checked for room.
IsrStoresAlways ==
    /\ in_isr
    /\ rx # <<>>
    /\ buffer' = [buffer EXCEPT ![head] = FrontByte]
    /\ head' = NextSlot(head)
    /\ received' = received + 1
    /\ PopFront
    /\ UNCHANGED <<sent, in_isr, enabled, tail, overflows, readerVars, opened>>

IsrStores ==
    /\ in_isr
    /\ rx # <<>>
    /\ NextSlot(head) # tail
    /\ buffer' = [buffer EXCEPT ![head] = FrontByte]
    /\ head' = NextSlot(head)
    /\ received' = received + 1
    /\ PopFront
    /\ UNCHANGED <<sent, in_isr, enabled, tail, overflows, readerVars, opened>>

IsrOverflows ==
    /\ in_isr
    /\ rx # <<>>
    /\ NextSlot(head) = tail
    /\ overflows' = overflows + 1
    /\ PopFront
    /\ UNCHANGED <<sent, in_isr, enabled, head, tail, buffer, received,
                   readerVars, opened>>

IsrReturns ==
    /\ in_isr
    /\ rx = <<>>
    /\ in_isr' = FALSE
    /\ UNCHANGED <<sent, rx, captureVars, readerVars, opened>>

----------------------------------------------------------------------------
(***************************************************************************)
(* uart_getc_nonblocking, one action per access that the interrupt can     *)
(* disturb.                                                                *)
(***************************************************************************)
Foreground(from) == ~in_isr /\ pc = from

GetcCapture ==
    /\ Foreground("idle")
    /\ enabled
    /\ read_tail' = tail
    /\ pc' = "compare"
    /\ UNCHANGED <<sent, rx, in_isr, captureVars, value, last_captured,
                   last_console, opened>>

\* Fault: the indices are compared as if the ring never wrapped.
GetcCompareUnwrapped ==
    /\ Foreground("compare")
    /\ pc' = IF read_tail >= head THEN "idle" ELSE "read"
    /\ UNCHANGED <<sent, rx, in_isr, captureVars, read_tail, value,
                   last_captured, last_console, opened>>

GetcCompare ==
    /\ Foreground("compare")
    /\ pc' = IF read_tail = head THEN "idle" ELSE "read"
    /\ UNCHANGED <<sent, rx, in_isr, captureVars, read_tail, value,
                   last_captured, last_console, opened>>

GetcRead ==
    /\ Foreground("read")
    /\ value' = buffer[read_tail]
    /\ pc' = "advance"
    /\ UNCHANGED <<sent, rx, in_isr, captureVars, read_tail, last_captured,
                   last_console, opened>>

GetcAdvance ==
    /\ Foreground("advance")
    /\ tail' = NextSlot(read_tail)
    /\ last_captured' = value
    /\ last_console' = value
    /\ pc' = "idle"
    /\ UNCHANGED <<sent, rx, in_isr, enabled, head, buffer, received,
                   overflows, read_tail, value, opened>>

\* Fault: the UART is read whether a capture is on or not.
GetcDirectAlways ==
    /\ Foreground("idle")
    /\ rx # <<>>
    /\ pc' = "direct"
    /\ UNCHANGED <<sent, rx, in_isr, captureVars, read_tail, value,
                   last_captured, last_console, opened>>

\* Without a capture: the status register, then the data register.
GetcDirect ==
    /\ Foreground("idle")
    /\ ~enabled
    /\ rx # <<>>
    /\ pc' = "direct"
    /\ UNCHANGED <<sent, rx, in_isr, captureVars, read_tail, value,
                   last_captured, last_console, opened>>

GetcDirectRead ==
    /\ Foreground("direct")
    /\ value' = FrontByte
    /\ last_console' = FrontByte
    /\ PopFront
    /\ pc' = "idle"
    /\ UNCHANGED <<sent, in_isr, captureVars, read_tail, last_captured, opened>>

----------------------------------------------------------------------------
(***************************************************************************)
(* hazard3_console_input_capture_begin, which the loader calls when no     *)
(* capture is on, and hazard3_console_input_capture_end.                   *)
(***************************************************************************)
\* Fault: the ring keeps what an earlier capture left in it.
CaptureBeginKeepsRing ==
    /\ Foreground("idle")
    /\ ~enabled
    /\ received' = 0
    /\ overflows' = 0
    /\ pc' = "drain"
    /\ opened' = sent
    /\ UNCHANGED <<sent, rx, in_isr, enabled, head, tail, buffer, read_tail,
                   value, last_captured, last_console>>

CaptureBegin ==
    /\ Foreground("idle")
    /\ ~enabled
    /\ enabled' = FALSE
    /\ head' = 0
    /\ tail' = 0
    /\ received' = 0
    /\ overflows' = 0
    /\ pc' = "drain"
    /\ opened' = sent
    /\ UNCHANGED <<sent, rx, in_isr, buffer, read_tail, value, last_captured,
                   last_console>>

DrainMore ==
    /\ Foreground("drain")
    /\ rx # <<>>
    /\ pc' = "discard"
    /\ UNCHANGED <<sent, rx, in_isr, captureVars, read_tail, value,
                   last_captured, last_console, opened>>

DrainByte ==
    /\ Foreground("discard")
    /\ PopFront
    /\ pc' = "drain"
    /\ UNCHANGED <<sent, in_isr, captureVars, read_tail, value, last_captured,
                   last_console, opened>>

\* Fault: the capture is switched on before the receive FIFO is empty.
DrainDoneEarly ==
    /\ Foreground("drain")
    /\ enabled' = TRUE
    /\ pc' = "idle"
    /\ UNCHANGED <<sent, rx, in_isr, head, tail, buffer, received, overflows,
                   read_tail, value, last_captured, last_console, opened>>

DrainDone ==
    /\ Foreground("drain")
    /\ rx = <<>>
    /\ enabled' = TRUE
    /\ pc' = "idle"
    /\ UNCHANGED <<sent, rx, in_isr, head, tail, buffer, received, overflows,
                   read_tail, value, last_captured, last_console, opened>>

CaptureEnd ==
    /\ Foreground("idle")
    /\ enabled
    /\ enabled' = FALSE
    /\ UNCHANGED <<sent, rx, in_isr, head, tail, buffer, received, overflows,
                   readerVars, opened>>

(***************************************************************************)
(* A reset of the board, at any time.                                      *)
(***************************************************************************)
Reset ==
    /\ rx' = <<>>
    /\ in_isr' = FALSE
    /\ enabled' = FALSE
    /\ head' = 0
    /\ tail' = 0
    /\ buffer' = [i \in Slot |-> 0]
    /\ received' = 0
    /\ overflows' = 0
    /\ pc' = "idle"
    /\ read_tail' = 0
    /\ value' = 0
    /\ UNCHANGED <<sent, last_captured, last_console, opened>>

Isr == IsrStores \/ IsrOverflows \/ IsrReturns

Getc ==
    \/ GetcCapture \/ GetcCompare \/ GetcRead \/ GetcAdvance
    \/ GetcDirect \/ GetcDirectRead

Begin == DrainMore \/ DrainByte \/ DrainDone

Next ==
    \/ Arrive
    \/ TimerFires
    \/ Isr
    \/ Getc
    \/ CaptureBegin
    \/ Begin
    \/ CaptureEnd
    \/ Reset

Spec == Init /\ [][Next]_vars

(***************************************************************************)
(* The timer interrupt recurs and its handler runs on.  The foreground     *)
(* polls for input for ever, in the monitor and in Doom, and although the  *)
(* interrupt stops it again and again, the handler takes far less than the *)
(* 10 ms period, so it runs on in between.                                 *)
(***************************************************************************)
GetcStep == GetcCompare \/ GetcRead \/ GetcAdvance \/ GetcDirectRead

Fairness ==
    /\ WF_vars(TimerFires)
    /\ WF_vars(Isr)
    /\ WF_vars(Begin)
    /\ WF_vars(GetcDirect)
    /\ SF_vars(GetcCapture)
    /\ SF_vars(GetcStep)

FairSpec == Spec /\ Fairness

----------------------------------------------------------------------------
\* Every variable holds a value of its type: head and tail stay slots of the
\* ring, the receive FIFO never holds more than its depth.
TypeOK ==
    /\ sent \in 0 .. MaxBytes
    /\ rx \in Seq(1 .. MaxBytes) /\ Len(rx) <= RxDepth
    /\ in_isr \in BOOLEAN
    /\ enabled \in BOOLEAN
    /\ head \in Slot
    /\ tail \in Slot
    /\ buffer \in [Slot -> 0 .. MaxBytes]
    /\ received \in Nat
    /\ overflows \in Nat
    /\ pc \in PC
    /\ read_tail \in Slot
    /\ value \in 0 .. MaxBytes
    /\ last_captured \in 0 .. MaxBytes
    /\ last_console \in 0 .. MaxBytes
    /\ opened \in 0 .. MaxBytes

\* The foreground reads the data register of the UART only while the byte it
\* has seen in the status register is still there: the interrupt handler, the
\* other reader, never takes it in between.
NoEmptyRead == pc \in {"direct", "discard"} => rx # <<>>

\* Nothing that was on the line before a launch is taken for input of the
\* image launched: what a capture holds arrived after the capture began.
CaptureFresh == enabled => \A k \in 1 .. Count : Captured[k] > opened

\* The console returns the bytes of the line in their order and none of them
\* twice, in a capture, outside of it and across the change.
InOrder ==
    [][GetcAdvance \/ GetcDirectRead => last_console' > last_console]_vars

\* The ring, read by the foreground and filled by the interrupt, behaves as a
\* bounded queue: the byte returned is the oldest, a byte is refused and
\* counted only when CaptureBytes - 1 bytes wait, and every other byte taken
\* from the UART is counted and kept.
Fifo == INSTANCE CaptureFifo WITH
    Byte <- 1 .. MaxBytes, Capacity <- CaptureBytes - 1, queue <- Captured,
    accepted <- received, refused <- overflows, out <- last_captured

RingIsFifo == Fifo!Spec

\* No byte waits for ever, in the UART or in the ring of a running capture.
Waiting ==
    {rx[i] : i \in 1 .. Len(rx)}
        \cup (IF enabled THEN {Captured[k] : k \in 1 .. Count} ELSE {})

NoByteStuck ==
    \A n \in 1 .. MaxBytes : n \in Waiting ~> n \notin Waiting
=============================================================================
